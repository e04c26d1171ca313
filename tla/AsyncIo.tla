------------------------------ MODULE AsyncIo ------------------------------
(***************************************************************************)
(* The asynchronous I/O of proxy/fcgi/os_unix.c: a program of one thread   *)
(* starts reads and writes, calls OS_DoIo again and again, and is called   *)
(* back from there when an operation is complete; the callback may start   *)
(* and give up operations itself.  pc says where the thread is:            *)
(*   app       in the program, outside OS_DoIo                             *)
(*   loop      in the loop of OS_DoIo that dispatches, past the slot "at"  *)
(*   callback  in the program, called from that loop                       *)
(*   writing   in a write that has taken the room there was, and waits for *)
(*             room for the rest (descriptors are blocking)                *)
(*   blocked   in a read or write that was begun where it had to wait      *)
(*   stopped   the process is gone                                         *)
(*                                                                         *)
(* A slot is a descriptor with a direction: an entry of asyncIoTable, and  *)
(* a bit of readFdSet or writeFdSet ("wanted") and of readFdSetPost or     *)
(* writeFdSetPost ("posted").  Programs keep to what the assertions ask    *)
(* for: one operation at a time on a slot.  MaxRequests bounds the         *)
(* operations.  The numbers of descriptors that were closed are given out  *)
(* again.  FdSetSize is FD_SETSIZE: the code sets the bit of a descriptor  *)
(* without a look at it (os_unix.c:653, 702), and a program must stay      *)
(* below.                                                                  *)
(*                                                                         *)
(* Operations whose names begin with Slip are faults; no specification     *)
(* uses them.                                                              *)
(***************************************************************************)
EXTENDS Integers, Sequences, FiniteSets

CONSTANTS Fds, FdSetSize, MaxRequests, InitialTableSize

ASSUME AsyncIoAssumption ==
  /\ FdSetSize \in Nat /\ Fds \subseteq 0..(FdSetSize - 1)
  /\ MaxRequests \in Nat /\ InitialTableSize \in Nat \ {0}

Sides == {"read", "write"}
Slots == Fds \X Sides

VARIABLES
  pc, at,
  table,         \* the operation in each slot (an index of ops), 0: not inUse
  tableSize,     \* asyncIoTableSize
  wanted, posted,
  numPosted,     \* numRdPosted and numWrPosted
  maxFd,
  asyncIoInUse,
  open,          \* descriptors of open files
  ready,         \* slots where a read or a write would not block
  ops,           \* what became of each operation (history)
  lost           \* bits of posted that OS_Close has cleared (history)

sets  == <<table, wanted, posted, numPosted, lost>>
files == <<open, ready>>
vars  == <<pc, at, sets, tableSize, maxFd, asyncIoInUse, files, ops>>

\* AIO_RD_IX and AIO_WR_IX.
Index(s) == IF s[2] = "read" THEN 2 * s[1] ELSE 2 * s[1] + 1

Init ==
  /\ pc = "app" /\ at = <<-1, "write">>
  /\ table = [s \in Slots |-> 0] /\ tableSize = InitialTableSize
  /\ wanted = {} /\ posted = {} /\ numPosted = [d \in Sides |-> 0]
  /\ maxFd = -1 /\ asyncIoInUse = FALSE
  /\ open \in {{}, Fds \cap {0}} /\ ready = {}
  /\ ops = <<>> /\ lost = [d \in Sides |-> 0]

On(fd) == {fd} \X Sides

----------------------------------------------------------------------------
(* Files.                                                                  *)

Open(fd) ==
  /\ fd \notin open /\ open' = open \cup {fd}
  /\ UNCHANGED <<pc, at, sets, tableSize, maxFd, asyncIoInUse, ready, ops>>

\* Data arrive, or there is room (for all that is left, where a write waits for
\* it); it stays like that until it is used.
GetReady(s) ==
  /\ s[1] \in open /\ s \notin ready /\ ready' = ready \cup {s}
  /\ UNCHANGED <<pc, at, sets, tableSize, maxFd, asyncIoInUse, open, ops>>

----------------------------------------------------------------------------
(* What the program calls, also from a callback.                           *)

InProgram == pc \in {"app", "callback"}

\* The sizes the table may get to: GrowAsyncTable doubles it.
Doubled(index) ==
  {n \in tableSize..(tableSize + 2 * index) :
     \E k \in 0..(index + 1) : n = tableSize * 2^k}

\* GrowAsyncTable as often as it takes and not once more.
Grown(index, size) ==
  /\ size \in Doubled(index) /\ index < size
  /\ \A n \in Doubled(index) : index < n => size <= n

\* A table that cannot grow ends the process.
Start(s) ==
  /\ InProgram /\ Len(ops) < MaxRequests
  /\ s[1] \in open /\ table[s] = 0
  /\ table' = [table EXCEPT ![s] = Len(ops) + 1]
  /\ ops' = Append(ops, [slot |-> s, state |-> "pending"])
  /\ wanted' = wanted \cup {s}
  /\ maxFd' = IF s[1] > maxFd THEN s[1] ELSE maxFd
  /\ tableSize' \in Doubled(Index(s)) /\ Grown(Index(s), tableSize')
  /\ pc' \in {pc} \cup (IF tableSize' # tableSize THEN {"stopped"} ELSE {})
  /\ asyncIoInUse' = TRUE
  /\ UNCHANGED <<at, posted, numPosted, lost, files>>

AsyncReadStdin == 0 \in Fds /\ Start(<<0, "read">>)
AsyncRead(fd)  == Start(<<fd, "read">>)
AsyncWrite(fd) == Start(<<fd, "write">>)

\* Operations that are given up stay given up.
Cancelled(slots) ==
  [i \in DOMAIN ops |-> IF ops[i].slot \in slots /\ ops[i].state = "pending"
                          THEN [ops[i] EXCEPT !.state = "cancelled"] ELSE ops[i]]
Cleared(slots) == [s \in Slots |-> IF s \in slots THEN 0 ELSE table[s]]

\* The two entries of a descriptor that was never used are behind the table
\* when the descriptor is high: undefined behaviour, which the process may
\* survive.
Outside(fd) == tableSize <= Index(<<fd, "write">>)
MayStop(fd) == pc' \in {pc} \cup (IF Outside(fd) THEN {"stopped"} ELSE {})

SlipUnposted(fd) == posted
Unposted(fd) == posted \ On(fd)

SlipLower(fd) == maxFd - 1
Lower(fd) == IF maxFd = fd THEN maxFd - 1 ELSE maxFd

\* OS_Close.  numRdPosted and numWrPosted stay as they are.  A socket is read to
\* its end before it is closed, for as long as its peer goes on sending: the
\* action is the call from its begin to its end.
Close(fd) ==
  /\ InProgram /\ fd \in open
  /\ IF asyncIoInUse
       THEN /\ wanted' = wanted \ On(fd) /\ posted' = Unposted(fd)
            /\ table' = Cleared(On(fd)) /\ ops' = Cancelled(On(fd))
            /\ maxFd' = Lower(fd)
            /\ lost' = [d \in Sides |->
                          lost[d] + (IF <<fd, d>> \in posted THEN 1 ELSE 0)]
            /\ MayStop(fd)
       ELSE UNCHANGED <<wanted, posted, table, ops, maxFd, lost, pc>>
  /\ open' = open \ {fd} /\ ready' = ready \ On(fd)
  /\ UNCHANGED <<at, numPosted, tableSize, asyncIoInUse>>

SlipEmptied(s) == table
Emptied(s) == Cleared({s})

\* OS_CloseRead.  Nothing is taken from readFdSetPost.  A socket is at its end
\* then and can be read; another file stays as it is.
CloseRead(fd) ==
  LET s == <<fd, "read">>
  IN  /\ InProgram /\ fd \in open
      /\ table' = Emptied(s) /\ ops' = Cancelled({s})
      /\ wanted' = IF table[s] # 0 THEN wanted \ {s} ELSE wanted
      /\ ready' \in {ready, ready \cup {s}}
      /\ IF Index(s) < tableSize THEN UNCHANGED pc ELSE MayStop(fd)
      /\ UNCHANGED <<at, tableSize, posted, numPosted, lost, maxFd,
                     asyncIoInUse, open>>

----------------------------------------------------------------------------
(* OS_DoIo.                                                                *)

NothingPosted == \A d \in Sides : numPosted[d] = 0
SlipInReach(slots) == {s \in slots : s[1] < maxFd}
InReach(slots) == {s \in slots : s[1] <= maxFd}
Reported == InReach(wanted) \cap ready

Dispatching == pc' = "loop" /\ at' = <<-1, "write">> /\ asyncIoInUse' = TRUE

\* select finds something: it becomes the list to work off.
Select ==
  /\ pc = "app" /\ NothingPosted /\ Reported # {}
  /\ Dispatching
  /\ wanted' = wanted \ Reported /\ posted' = posted \cup Reported
  /\ numPosted' = [d \in Sides |->
                     numPosted[d] + Cardinality({s \in Reported : s[2] = d})]
  /\ UNCHANGED <<table, lost, tableSize, maxFd, files, ops>>

\* It finds nothing in time, or a signal ends it, and with it the process.
SelectNothing ==
  /\ pc = "app" /\ NothingPosted
  /\ \/ Reported = {} /\ UNCHANGED pc
     \/ pc' = "stopped"
  /\ asyncIoInUse' = TRUE
  /\ UNCHANGED <<at, sets, tableSize, maxFd, files, ops>>

\* Something is left from the call before: no select.
Resume ==
  /\ pc = "app" /\ ~NothingPosted /\ Dispatching
  /\ UNCHANGED <<sets, tableSize, maxFd, files, ops>>

\* The slots the loop comes to in the order it does: descriptors upwards, the
\* read of each before its write.
Before(s, t) == s[1] < t[1] \/ (s[1] = t[1] /\ s[2] = "read" /\ t[2] = "write")
Ahead == {s \in InReach(posted) : Before(at, s) /\ table[s] # 0}

SlipDispatched(s) == numPosted
Dispatched(s) == [numPosted EXCEPT ![s[2]] = @ - 1]

\* The operation is done and the program is called back.
Done(s) ==
  /\ table' = [table EXCEPT ![s] = 0]
  /\ ops' = [ops EXCEPT ![table[s]].state = "done"]
  /\ pc' = "callback"

\* One read or write.  With data or room left the descriptor stays ready; a write
\* of more than there is room for goes on when there is.
Dispatch ==
  /\ pc = "loop"
  /\ \E s \in Ahead :
       /\ \A t \in Ahead \ {s} : Before(s, t)
       /\ at' = s
       /\ posted' = posted \ {s} /\ numPosted' = Dispatched(s)
       /\ \/ s \in ready /\ Done(s) /\ ready' \in {ready, ready \ {s}}
          \/ /\ s \in ready /\ s[2] = "write"
             /\ pc' = "writing" /\ ready' = ready \ {s} /\ UNCHANGED <<table, ops>>
          \/ s \notin ready /\ pc' = "blocked" /\ UNCHANGED <<ready, table, ops>>
  /\ UNCHANGED <<wanted, lost, tableSize, maxFd, asyncIoInUse, open>>

\* There is room for the rest.
WriteOn ==
  /\ pc = "writing" /\ at \in ready
  /\ Done(at) /\ ready' \in {ready, ready \ {at}}
  /\ UNCHANGED <<at, wanted, posted, numPosted, lost, tableSize, maxFd,
                 asyncIoInUse, open>>

\* The callback returns.
Return ==
  /\ pc = "callback" /\ pc' = "loop"
  /\ UNCHANGED <<at, sets, tableSize, maxFd, asyncIoInUse, files, ops>>

\* The loop is over.
Leave ==
  /\ pc = "loop" /\ Ahead = {} /\ pc' = "app"
  /\ UNCHANGED <<at, sets, tableSize, maxFd, asyncIoInUse, files, ops>>

----------------------------------------------------------------------------
DoIo == Select \/ SelectNothing \/ Resume \/ Dispatch \/ WriteOn \/ Leave
Calls(fd) == AsyncRead(fd) \/ AsyncWrite(fd) \/ Close(fd) \/ CloseRead(fd)

Next ==
  \/ AsyncReadStdin
  \/ \E fd \in Fds : Open(fd) \/ Calls(fd)
  \/ \E s \in Slots : GetReady(s)
  \/ DoIo \/ Return

Spec == Init /\ [][Next]_vars

\* The program calls OS_DoIo again and again, and its callbacks return.
FairSpec == Spec /\ WF_vars(DoIo) /\ WF_vars(Return)

----------------------------------------------------------------------------
(* Correctness.                                                            *)

Operation == [slot : Slots, state : {"pending", "done", "cancelled"}]

\* Types, and no bit above maxFd: select and the loops look at 0..maxFd,
\* whatever was closed and opened in between (OS_Close, os_unix.c:746).  No
\* entry that is in use is behind the table (GrowAsyncTable).
Typed ==
  /\ pc \in {"app", "loop", "callback", "writing", "blocked", "stopped"}
  /\ at \in Slots \cup {<<-1, "write">>}
  /\ table \in [Slots -> Nat]
  /\ wanted \subseteq Slots /\ posted \subseteq Slots
  /\ numPosted \in [Sides -> Nat] /\ lost \in [Sides -> Nat]
  /\ maxFd \in Nat \cup {-1} /\ asyncIoInUse \in BOOLEAN
  /\ open \subseteq Fds /\ ready \subseteq Slots
  /\ ops \in Seq(Operation)
  /\ \A s \in wanted \cup posted : s[1] <= maxFd

TypeOK ==
  /\ Typed /\ tableSize \in Nat \ {0}
  /\ \A s \in Slots : table[s] # 0 => Index(s) < tableSize

\* numRdPosted and numWrPosted are the numbers of posted bits, and of those
\* that OS_Close has cleared without counting them (os_unix.c:731): from then
\* on OS_DoIo never selects again.
Tally ==
  \A d \in Sides :
    numPosted[d] = Cardinality({s \in posted : s[2] = d}) + lost[d]

\* The write that waits for room.
Writing(s) == pc = "writing" /\ s = at

\* No operation is forgotten: one that is in the table is in a set that select
\* or the loop works on, or is being written, and is the one the program has
\* asked for and has neither been called back for nor given up (OS_AsyncRead,
\* OS_DoIo, OS_CloseRead).
NoneForgotten ==
  /\ \A s \in Slots : table[s] # 0 =>
       /\ s \in wanted \cup posted \/ Writing(s)
       /\ table[s] \in DOMAIN ops /\ ops[table[s]].slot = s
  /\ \A i \in DOMAIN ops :
       ops[i].state = "pending" <=> table[ops[i].slot] = i

\* OS_DoIo begins no read or write on a descriptor that is not ready, whatever a
\* callback does to the descriptors that are still to come, their numbers given
\* out again, and however long a write has waited in between: no read ever waits
\* for data, and a write only for room for the rest of what it has begun.
BegunWhenReady == pc # "blocked" /\ posted \subseteq ready

\* OS_DoIo waits for nothing any more: a posted bit was lost, or belongs to a
\* read that was given up.
Starved == \/ \E d \in Sides : lost[d] > 0
           \/ \E s \in posted : table[s] = 0

\* An operation on a descriptor that is ready is completed, or given up, unless a
\* write waits for ever for room for the rest: it holds up all the others.
Completes ==
  \A s \in Slots :
    (table[s] # 0 /\ s \in ready) ~>
      (table[s] = 0 \/ Starved \/ pc = "stopped" \/ [](pc = "writing" /\ at \notin ready))
=============================================================================
