---------------------------- MODULE FcgiApp_input ----------------------------
(***************************************************************************)
(* The application reads what the web server has sent: what lies between   *)
(* the two, and where the reader is in it.                                 *)
(***************************************************************************)
EXTENDS FcgiApp_proofs

-----------------------------------------------------------------------------
(* What has been sent and not yet taken.                                   *)

\* Where the web server is in request 1 when it has sent a record: the stream
\* that comes next and how much of it went out.
Mark == [phase : {"begin", "PARAMS", "STDIN", "done"}, done : Nat]
ServerMark == [phase |-> server.phase[1], done |-> server.at[1]]
Start(phase) == [phase |-> phase, done |-> 0]

Size(r) == HeaderLen + r.len + r.pad

\* What the web server may send behind m without losing the library.
Allowed(m, r) ==
  \/ /\ r.id = 0 /\ r.type \in {"GET_VALUES", "UNKNOWN"}
     /\ r.type = "UNKNOWN" => r.len = 0
  \/ r.id = 1 /\ r.type = "BEGIN" /\ r.len = BeginLen /\ r.pad = 0
  \/ /\ r.id = 1 /\ r.type \in {"PARAMS", "STDIN"} /\ r.type = m.phase
     /\ r.from = m.done /\ r.from + r.len <= Len(Bytes(r.type))
     /\ r.len = 0 => r.pad = 0 /\ r.from = Len(Bytes(r.type))
  \/ r.id = 1 /\ r.type = "ABORT" /\ m.phase # "begin"
  \/ /\ r.id = 2 /\ m.phase # "begin" /\ r.len > 0
     /\ r.type \in {"PARAMS", "STDIN", "BEGIN"}
     /\ r.type = "BEGIN" => r.len = BeginLen

\* The mark behind such a record.
After(m, r) ==
  IF r.id # 1 \/ r.type \notin {"BEGIN", "PARAMS", "STDIN"} THEN m
  ELSE IF r.type = "BEGIN" THEN Start("PARAMS")
  ELSE IF r.len > 0 THEN [phase |-> r.type, done |-> r.from + r.len]
  ELSE Start(IF r.type = "PARAMS" THEN "STDIN" ELSE "done")

\* Records one behind the other, whole but for the front of the first one, with
\* the marks in front of each cell and behind the last.
Follows(q, marks) ==
  \A i \in 1..Len(q) :
    /\ q[i].at <= Size(q[i].of)
    /\ q[i].at < Size(q[i].of) =>
         i < Len(q) /\ q[i + 1] = [of |-> q[i].of, at |-> q[i].at + 1]
    /\ q[i].at = Size(q[i].of) /\ i < Len(q) => q[i + 1].at = 1
    /\ q[i].at = 1 => Allowed(marks[i], q[i].of)
    /\ marks[i + 1] = IF q[i].at = 1 THEN After(marks[i], q[i].of) ELSE marks[i]

\* The cells lead from the mark of the reader to that of the web server.
Track(q, first, last) ==
  \E marks \in [1..(Len(q) + 1) -> Mark] :
    marks[1] = first /\ marks[Len(q) + 1] = last /\ Follows(q, marks)

\* How much is left of a record whose front is gone.
Left(q) ==
  IF q = <<>> THEN 0 ELSE IF q[1].at = 1 THEN 0 ELSE Size(q[1].of) - q[1].at + 1

-----------------------------------------------------------------------------
(* Where the reader is.                                                    *)

\* ProcessHeader has not seen the header yet, as far as it is there.
Unseen == ~in.eorStop \/ pc = "header"
Ahead == (IF Unseen THEN header ELSE <<>>) \o (in.buff \o wire)

\* What the reader takes for the rest of the record is the rest of the record.
Undelivered == in.contentLen + in.stop
Rest == Undelivered + in.paddingLen
InStep ==
  /\ Rest = Left(Ahead)
  /\ Undelivered > 0 => /\ in.paddingLen = Ahead[1].of.pad
                        /\ Undelivered <= Ahead[1].of.len

\* A header is collected when nothing is left; skipping ends with the content,
\* and a nested read with the record.
Steady ==
  /\ Unseen /\ (header # <<>> \/ pc = "header") => Rest = 0
  /\ in.skip => Unseen /\ in.contentLen > 0 /\ in.stop = 0
  /\ ~Unseen => Current.type \in {"BEGIN", "GET_VALUES"}
  /\ pc = "nested" /\ in.stop = 0 => Rest = 0
  /\ in.isClosed => pc = "nested" /\ in.stop = 0

\* FCGX_Accept_r has begun nothing yet: content is there only to be skipped, or to be
\* read by ProcessHeader.
Waits(m) ==
  ~request.isBeginProcessed /\ (m.phase # "begin" => request.requestId = 1)
Beginning(m) ==
  /\ Steady /\ in.type = "NONE"
  /\ Unseen => Waits(m) /\ InStep /\ (Undelivered > 0 => in.skip)
  /\ ~Unseen /\ Current.type # "BEGIN" => Waits(m) /\ InStep
  /\ ~Unseen /\ Current.type = "BEGIN" =>
       InStep /\ (Current.id = 1 => m = Start("PARAMS") /\ in.paddingLen = 0)

\* A stream is read: what was taken is what was sent in front of the reader.
Flowing(m, type, taken) ==
  LET content == IF in.skip \/ ~Unseen THEN 0 ELSE Undelivered
  IN  /\ Steady /\ InStep /\ in.type = type /\ m.phase = type
      /\ content <= m.done /\ m.done <= Len(Bytes(type))
      /\ taken = First(Bytes(type), m.done - content)
      /\ content > 0 => /\ Ahead[1].of.type = type
                        /\ Ahead[1].of.from + Ahead[1].of.len = m.done

\* What the reader of each part of the library may rely on.
Outside == pc \in {"idle", "accept"}
Placed(m) ==
  /\ Outside => /\ m.phase # "begin" => request.ipcFd /\ request.requestId = 1
                /\ Left(Ahead) = 0
  /\ ~Outside /\ caller = "begun" =>
       IF pc = "begun"
         THEN request.isBeginProcessed /\ request.role = "RESPONDER" =>
                m = Start("PARAMS") /\ Left(Ahead) = 0
         ELSE Beginning(m)
  /\ ~Outside /\ caller = "params" =>
       IF pc = "params" /\ in.stop = 0
         THEN m = Start("STDIN") /\ env = ParamBytes /\ Left(Ahead) = 0
         ELSE Flowing(m, "PARAMS", env)
  /\ ~Outside /\ caller = "serve" =>
       /\ env = ParamBytes
       /\ IF pc = "serve" /\ in.isClosed THEN body = BodyBytes
                                         ELSE Flowing(m, "STDIN", body)

\* A stream with an error is not read further, except by the application.
Lost == in.FCGI_errno /\ ~Outside
Broken ==
  /\ caller \in {"begun", "params"} => pc \in {caller, "nested"} /\ in.stop = 0
  /\ caller = "begun" => ~request.isBeginProcessed
  /\ caller = "params" => env \in Starts(ParamBytes)

\* No header was taken on this connection that nobody sent.
Genuine == server.state # "none" => ~server.forged

Located == \E m \in Mark : Track(Ahead, m, ServerMark) /\ Placed(m)
Reading ==
  /\ caller # "serve" \/ Outside => body = <<>>
  /\ server.phase[2] # "begin" => server.phase[1] # "begin"
  /\ ~server.unsafe => IF Lost THEN Broken ELSE Genuine /\ Located

-----------------------------------------------------------------------------
(* Cells that wait.                                                        *)

\* A list and one behind it, seen through their elements.
LEMMA BothOf ==
  ASSUME NEW S, NEW s \in Seq(S), NEW t \in Seq(S)
  PROVE  /\ s \o t \in Seq(S) /\ Len(s \o t) = Len(s) + Len(t)
         /\ \A i \in 1..Len(s) : (s \o t)[i] = s[i]
         /\ \A i \in 1..Len(t) : (s \o t)[Len(s) + i] = t[i]
<1>1. s \o t \in Seq(S) /\ Len(s \o t) = Len(s) + Len(t)
  BY ConcatProperties
<1>2. \A i \in 1..(Len(s) + Len(t)) :
        (s \o t)[i] = IF i <= Len(s) THEN s[i] ELSE t[i - Len(s)]
  BY ConcatProperties
<1> QED BY <1>1, <1>2

\* Joining lists of cells associates.
LEMMA JoinCells ==
  \A s, t, u \in Seq(Sound) : (s \o t) \o u = s \o (t \o u)
BY ONLY SMTT(40), ConcatAssociative

\* Taking from the front of two lists takes from the first one.
LEMMA DropBoth ==
  ASSUME NEW S, NEW s \in Seq(S), NEW t \in Seq(S), NEW k \in 0..Len(s)
  PROVE  k \in 0..Len(s \o t) /\ Drop(s \o t, k) = Drop(s, k) \o t
<1> DEFINE u == s \o t
           a == Drop(u, k)
           d == Drop(s, k)
           b == d \o t
<1>1. /\ u \in Seq(S) /\ Len(u) = Len(s) + Len(t) /\ Len(s) \in Nat /\ Len(t) \in Nat
      /\ \A i \in 1..Len(s) : u[i] = s[i]
      /\ \A i \in 1..Len(t) : u[Len(s) + i] = t[i]
  BY BothOf
<1> HIDE DEF u
<1>2. k \in 0..Len(u)
  BY <1>1
<1>3. /\ a \in Seq(S) /\ Len(a) = Len(u) - k
      /\ \A i \in 1..(Len(u) - k) : a[i] = u[k + i]
  BY <1>1, <1>2, DropOf, Zenon
<1>4. /\ d \in Seq(S) /\ Len(d) = Len(s) - k
      /\ \A i \in 1..(Len(s) - k) : d[i] = s[k + i]
  BY DropOf, Zenon
<1> HIDE DEF a, d
<1>5. /\ b \in Seq(S) /\ Len(b) = Len(d) + Len(t)
      /\ \A i \in 1..Len(d) : b[i] = d[i]
      /\ \A i \in 1..Len(t) : b[Len(d) + i] = t[i]
  <2>1. d \in Seq(S)
    BY <1>4
  <2> QED BY ONLY <2>1, t \in Seq(S), BothOf
<1> HIDE DEF b
<1>6. Len(a) = Len(b)
  BY <1>1, <1>3, <1>4, <1>5
<1>7. ASSUME NEW i \in 1..Len(a) PROVE a[i] = b[i]
  <2>1. CASE i <= Len(d)
    <3>1. i \in 1..Len(d) /\ i \in 1..(Len(s) - k) /\ k + i \in 1..Len(s)
          /\ i \in 1..(Len(u) - k)
      BY <1>1, <1>3, <1>4, <2>1
    <3> QED BY <1>1, <1>3, <1>4, <1>5, <3>1
  <2>2. CASE i > Len(d)
    <3> DEFINE j == i - Len(d)
    <3>1. j \in 1..Len(t) /\ Len(d) + j = i /\ Len(s) + j = k + i /\ i \in 1..(Len(u) - k)
      BY <1>1, <1>3, <1>4, <1>5, <1>6, <2>2
    <3> HIDE DEF j
    <3>2. b[Len(d) + j] = t[j] /\ u[Len(s) + j] = t[j]
      BY <1>1, <1>5, <3>1
    <3> QED BY <1>3, <3>1, <3>2
  <2> QED BY <1>3, <1>4, <2>1, <2>2
<1>8. a = b
  BY <1>3, <1>5, <1>6, <1>7, SeqEqual
<1> QED BY <1>2, <1>8 DEF a, b, d, u

\* The front of a list and the rest of it are the list.
LEMMA FirstDrop ==
  ASSUME NEW S, NEW s \in Seq(S), NEW k \in 0..Len(s)
  PROVE  First(s, k) \o Drop(s, k) = s
<1> DEFINE f == First(s, k)
           d == Drop(s, k)
           b == f \o d
<1>1. f \in Seq(S) /\ Len(f) = k /\ \A i \in 1..k : f[i] = s[i]
  BY FirstOf, Zenon
<1>2. /\ d \in Seq(S) /\ Len(d) = Len(s) - k
      /\ \A i \in 1..(Len(s) - k) : d[i] = s[k + i]
  BY DropOf, Zenon
<1> HIDE DEF f, d
<1>3. /\ b \in Seq(S) /\ Len(b) = Len(f) + Len(d)
      /\ \A i \in 1..Len(f) : b[i] = f[i]
      /\ \A i \in 1..Len(d) : b[Len(f) + i] = d[i]
  <2>1. f \in Seq(S) /\ d \in Seq(S)
    BY <1>1, <1>2
  <2> QED BY ONLY <2>1, BothOf
<1> HIDE DEF b
<1>4. Len(b) = Len(s) /\ Len(s) \in Nat
  BY <1>1, <1>2, <1>3
<1>5. ASSUME NEW i \in 1..Len(s) PROVE b[i] = s[i]
  <2>1. CASE i <= k
    BY <1>1, <1>3, <2>1
  <2>2. CASE i > k
    <3> DEFINE j == i - k
    <3>1. j \in 1..(Len(s) - k) /\ k + j = i
      BY <1>4, <2>2
    <3> HIDE DEF j
    <3> QED BY <1>1, <1>2, <1>3, <3>1
  <2> QED BY <2>1, <2>2
<1>6. b = s
  BY <1>3, <1>4, <1>5, SeqEqual
<1> QED BY <1>6 DEF b, f, d

\* Nothing taken, all taken.
LEMMA DropEnds ==
  ASSUME NEW S, NEW s \in Seq(S)
  PROVE  Drop(s, 0) = s /\ Drop(s, Len(s)) = <<>>
<1>1. 0 \in 0..Len(s) /\ Len(s) \in 0..Len(s) /\ Len(s) \in Nat
  OBVIOUS
<1>2. Drop(s, 0) = s
  <2> DEFINE d == Drop(s, 0)
  <2>1. d \in Seq(S) /\ Len(d) = Len(s) - 0 /\ \A i \in 1..(Len(s) - 0) : d[i] = s[0 + i]
    BY <1>1, DropOf, Zenon
  <2> HIDE DEF d
  <2>2. Len(d) = Len(s) /\ \A i \in 1..Len(s) : d[i] = s[i]
    BY <1>1, <2>1
  <2>3. d = s
    BY <2>1, <2>2, SeqEqual
  <2> QED BY <2>3 DEF d
<1>3. Drop(s, Len(s)) = <<>>
  <2> DEFINE d == Drop(s, Len(s))
  <2>1. d \in Seq(S) /\ Len(d) = Len(s) - Len(s)
    BY <1>1, DropOf, Zenon
  <2> HIDE DEF d
  <2>2. Len(d) = 0
    BY <1>1, <2>1
  <2>3. d = <<>>
    BY <2>1, <2>2, EmptySeq
  <2> QED BY <2>3 DEF d
<1> QED BY <1>2, <1>3

\* All of the first of two lists is taken.
LEMMA DropFirst ==
  ASSUME NEW S, NEW s \in Seq(S), NEW t \in Seq(S)
  PROVE  Len(s) \in 0..Len(s \o t) /\ Drop(s \o t, Len(s)) = t
<1>1. Len(s) \in 0..Len(s)
  OBVIOUS
<1>2. Len(s) \in 0..Len(s \o t) /\ Drop(s \o t, Len(s)) = Drop(s, Len(s)) \o t
  BY <1>1, DropBoth
<1>3. Drop(s, Len(s)) = <<>>
  BY DropEnds
<1> QED BY <1>2, <1>3, ConcatEmptySeq

-----------------------------------------------------------------------------
(* Records on their way.                                                   *)

\* A cell and its record.
LEMMA CellOf ==
  ASSUME NEW c \in Sound
  PROVE  /\ c = [of |-> c.of, at |-> c.at] /\ c.at \in Nat /\ c.at >= 1
         /\ c.of.len \in Nat /\ c.of.pad \in Nat /\ c.of.from \in Nat
         /\ c.of.id \in 0..2 /\ c.of.type \in RecordTypes
         /\ Size(c.of) = HeaderLen + c.of.len + c.of.pad /\ Size(c.of) \in Nat
         /\ HeaderLen \in Nat /\ HeaderLen >= 1
  BY LengthsAssumption DEF Sound, Cell, Records, Size

\* Such a record leads from a mark to a mark.
LEMMA AfterIsMark ==
  ASSUME NEW m \in Mark, NEW c \in Sound
  PROVE  After(m, c.of) \in Mark
  BY CellOf DEF Mark, After, Start

\* The rest of the first record is where it belongs, with one mark in front of it
\* all and one behind.
LEMMA FirstRecord ==
  ASSUME NEW q \in Seq(Sound), NEW marks, Follows(q, marks), q # <<>>,
         NEW k \in Nat, k <= Size(q[1].of) - q[1].at
  PROVE  /\ k + 1 <= Len(q) /\ q[k + 1] = [of |-> q[1].of, at |-> q[1].at + k]
         /\ marks[k + 2] = IF q[1].at = 1 THEN After(marks[1], q[1].of) ELSE marks[1]
<1> DEFINE r == q[1].of
           a == q[1].at
           after == IF a = 1 THEN After(marks[1], r) ELSE marks[1]
           P(i) == /\ i + 1 <= Len(q) /\ q[i + 1] = [of |-> r, at |-> a + i]
                   /\ marks[i + 2] = after
           Bad == { i \in Nat : i <= Size(r) - a /\ ~P(i) }
<1>1. /\ Len(q) \in Nat /\ Len(q) >= 1 /\ a \in Nat /\ a >= 1 /\ Size(r) \in Nat
      /\ q[1] = [of |-> r, at |-> a]
  <2>1. Len(q) \in Nat /\ Len(q) >= 1
    BY EmptySeq
  <2>2. q[1] \in Sound
    BY <2>1, ElementOfSeq
  <2> QED BY <2>1, <2>2, CellOf
<1>2. \A i \in 1..Len(q) :
        /\ q[i].at < Size(q[i].of) =>
             i < Len(q) /\ q[i + 1] = [of |-> q[i].of, at |-> q[i].at + 1]
        /\ marks[i + 1] = IF q[i].at = 1 THEN After(marks[i], q[i].of) ELSE marks[i]
  BY DEF Follows
<1> HIDE DEF r
<1>3. P(0)
  <2>0. 1 \in 1..Len(q)
    BY <1>1
  <2>1. marks[1 + 1] = IF q[1].at = 1 THEN After(marks[1], q[1].of) ELSE marks[1]
    BY ONLY <1>2, <2>0
  <2>2. marks[2] = after
    BY <2>1 DEF r
  <2> HIDE DEF after, a
  <2> QED BY <1>1, <2>2
<1>4. ASSUME NEW i \in Nat, i + 1 <= Size(r) - a, P(i) PROVE P(i + 1)
  <2> HIDE DEF after, a
  <2>1. i + 1 \in 1..Len(q) /\ q[i + 1].at = a + i /\ q[i + 1].of = r
    BY <1>1, <1>4
  <2>2. q[i + 1].at < Size(q[i + 1].of)
    BY <1>1, <1>4, <2>1
  <2>3. /\ i + 1 < Len(q)
        /\ q[(i + 1) + 1] = [of |-> q[i + 1].of, at |-> q[i + 1].at + 1]
    BY <1>2, <2>1, <2>2
  <2>4. q[(i + 1) + 1] = [of |-> r, at |-> a + (i + 1)]
    BY <1>1, <2>1, <2>3
  <2>5. (i + 1) + 1 \in 1..Len(q)
    BY <1>1, <2>3
  <2>6. /\ q[(i + 1) + 1].at = a + (i + 1) /\ q[(i + 1) + 1].at # 1
    BY <1>1, <2>4
  <2>7. marks[((i + 1) + 1) + 1] = marks[(i + 1) + 1]
    BY <1>2, <2>5, <2>6
  <2>8. marks[(i + 1) + 2] = after
    BY <1>4, <2>7
  <2> QED BY <1>1, <2>4, <2>5, <2>8
<1> HIDE DEF P, a
<1>5. Bad = {}
  <2> SUFFICES ASSUME Bad # {} PROVE FALSE
    OBVIOUS
  <2>1. Bad \in SUBSET Nat
    OBVIOUS
  <2>2. PICK i \in Bad : \A j \in Bad : i <= j
    BY <2>1, Minimum
  <2>3. i \in Nat /\ i <= Size(r) - a /\ ~P(i)
    OBVIOUS
  <2>4. CASE i = 0
    BY <1>3, <2>3, <2>4
  <2>5. CASE i # 0
    <3>1. i - 1 \in Nat /\ (i - 1) + 1 = i /\ i - 1 <= Size(r) - a /\ ~(i <= i - 1)
      BY <1>1, <2>3, <2>5
    <3>2. i - 1 \notin Bad
      BY <2>2, <3>1
    <3>3. P(i - 1)
      BY <3>1, <3>2
    <3>4. P((i - 1) + 1)
      BY <1>4, <2>3, <3>1, <3>3
    <3> QED BY <2>3, <3>1, <3>4
  <2> QED BY <2>4, <2>5
<1>6. k <= Size(r) - a
  BY DEF r, a
<1>7. P(k)
  BY <1>5, <1>6
<1> QED BY <1>7 DEF P, r, a

\* What is behind the first cells follows on, from another mark.
LEMMA FollowsOn ==
  ASSUME NEW q \in Seq(Sound), NEW first \in Mark, NEW last \in Mark,
         NEW marks \in [1..(Len(q) + 1) -> Mark],
         marks[1] = first, marks[Len(q) + 1] = last, Follows(q, marks),
         NEW k \in 0..Len(q)
  PROVE  marks[k + 1] \in Mark /\ Track(Drop(q, k), marks[k + 1], last)
<1> DEFINE d == Drop(q, k)
           rest == [i \in 1..(Len(d) + 1) |-> marks[k + i]]
<1>1. /\ d \in Seq(Sound) /\ Len(d) = Len(q) - k
      /\ \A i \in 1..(Len(q) - k) : d[i] = q[k + i]
  BY DropOf, Zenon
<1>2. Len(q) \in Nat
  OBVIOUS
<1> HIDE DEF d
<1>3. \A i \in 1..(Len(d) + 1) : k + i \in 1..(Len(q) + 1)
  BY <1>1, <1>2
<1>4. rest \in [1..(Len(d) + 1) -> Mark]
  BY <1>3
<1>5. \A i \in 1..(Len(d) + 1) : rest[i] = marks[k + i]
  OBVIOUS
<1>6. 1 \in 1..(Len(d) + 1) /\ Len(d) + 1 \in 1..(Len(d) + 1) /\ k + (Len(d) + 1) = Len(q) + 1
  BY <1>1, <1>2
<1>7. rest[1] = marks[k + 1] /\ rest[Len(d) + 1] = last
  BY <1>5, <1>6
<1> HIDE DEF rest
<1>8. Follows(d, rest)
  <2> SUFFICES ASSUME NEW i \in 1..Len(d)
               PROVE  /\ d[i].at <= Size(d[i].of)
                      /\ d[i].at < Size(d[i].of) =>
                           i < Len(d) /\ d[i + 1] = [of |-> d[i].of, at |-> d[i].at + 1]
                      /\ d[i].at = Size(d[i].of) /\ i < Len(d) => d[i + 1].at = 1
                      /\ d[i].at = 1 => Allowed(rest[i], d[i].of)
                      /\ rest[i + 1] = IF d[i].at = 1 THEN After(rest[i], d[i].of)
                                                      ELSE rest[i]
    BY DEF Follows
  <2> DEFINE j == k + i
  <2>1. /\ j \in 1..Len(q) /\ i \in 1..(Len(q) - k) /\ k + (i + 1) = j + 1
        /\ i \in 1..(Len(d) + 1) /\ i + 1 \in 1..(Len(d) + 1)
        /\ j < Len(q) => i < Len(d)
        /\ i < Len(d) => j < Len(q) /\ i + 1 \in 1..(Len(q) - k)
    BY SMTT(40), <1>1, <1>2
  <2>2. d[i] = q[j] /\ rest[i] = marks[j] /\ rest[i + 1] = marks[j + 1]
    BY SMTT(40), <1>1, <1>5, <2>1
  <2>3. i < Len(d) => d[i + 1] = q[j + 1]
    BY <1>1, <2>1
  <2> HIDE DEF j
  <2>4. /\ q[j].at <= Size(q[j].of)
        /\ q[j].at < Size(q[j].of) =>
             j < Len(q) /\ q[j + 1] = [of |-> q[j].of, at |-> q[j].at + 1]
        /\ q[j].at = Size(q[j].of) /\ j < Len(q) => q[j + 1].at = 1
        /\ q[j].at = 1 => Allowed(marks[j], q[j].of)
        /\ marks[j + 1] = IF q[j].at = 1 THEN After(marks[j], q[j].of) ELSE marks[j]
    BY <2>1 DEF Follows
  <2> QED BY <2>1, <2>2, <2>3, <2>4
<1>9. marks[k + 1] \in Mark
  BY <1>2
<1> QED BY <1>4, <1>7, <1>8, <1>9 DEF Track, d

\* Cells are taken, as many as may be: the rest leads on from some mark.
LEMMA TrackDrop ==
  ASSUME NEW q \in Seq(Sound), NEW first \in Mark, NEW last \in Mark,
         Track(q, first, last), NEW k \in 0..Len(q)
  PROVE  \E m \in Mark : Track(Drop(q, k), m, last)
<1>1. PICK marks \in [1..(Len(q) + 1) -> Mark] :
        marks[1] = first /\ marks[Len(q) + 1] = last /\ Follows(q, marks)
  BY DEF Track
<1>2. marks[k + 1] \in Mark /\ Track(Drop(q, k), marks[k + 1], last)
  BY <1>1, FollowsOn
<1> QED BY <1>2

\* Cells of the first record are taken.
LEMMA TrackRest ==
  ASSUME NEW q \in Seq(Sound), NEW first \in Mark, NEW last \in Mark,
         Track(q, first, last), q # <<>>,
         NEW k \in Nat, 1 <= k, k <= Size(q[1].of) - q[1].at + 1,
         NEW m, m = IF q[1].at = 1 THEN After(first, q[1].of) ELSE first
  PROVE  /\ k \in 0..Len(q) /\ Track(Drop(q, k), m, last)
         /\ Left(Drop(q, k)) = (Size(q[1].of) - q[1].at + 1) - k
         /\ k < Size(q[1].of) - q[1].at + 1 =>
              Drop(q, k) # <<>> /\ Drop(q, k)[1].of = q[1].of
         /\ \A j \in 1..k : q[j] = [of |-> q[1].of, at |-> q[1].at + (j - 1)]
         /\ q[1].at = 1 => Allowed(first, q[1].of)
<1>1. PICK marks \in [1..(Len(q) + 1) -> Mark] :
        marks[1] = first /\ marks[Len(q) + 1] = last /\ Follows(q, marks)
  BY DEF Track
<1> DEFINE r == q[1].of
           a == q[1].at
           d == Drop(q, k)
<1>2. /\ Len(q) \in Nat /\ Len(q) >= 1 /\ a \in Nat /\ a >= 1 /\ Size(r) \in Nat
      /\ 1 \in 1..Len(q)
  <2>1. Len(q) \in Nat /\ Len(q) >= 1
    BY EmptySeq
  <2>2. q[1] \in Sound
    BY <2>1, ElementOfSeq
  <2> QED BY <2>1, <2>2, CellOf
<1>3. \A i \in Nat : i <= Size(r) - a =>
        /\ i + 1 <= Len(q) /\ q[i + 1] = [of |-> r, at |-> a + i] /\ marks[i + 2] = m
  BY <1>1, FirstRecord
<1>4. \A j \in 1..k : q[j] = [of |-> r, at |-> a + (j - 1)]
  <2> SUFFICES ASSUME NEW j \in 1..k PROVE q[j] = [of |-> r, at |-> a + (j - 1)]
    OBVIOUS
  <2>0. k <= Size(r) - a + 1
    OBVIOUS
  <2> HIDE DEF r, a
  <2>1. j - 1 \in Nat /\ (j - 1) + 1 = j /\ j - 1 <= Size(r) - a
    BY <1>2, <2>0
  <2> QED BY ONLY <1>3, <2>1
<1>5. k \in 0..Len(q) /\ marks[k + 1] = m
  <2>1. k - 1 \in Nat /\ k - 1 <= Size(r) - a /\ (k - 1) + 2 = k + 1 /\ (k - 1) + 1 = k
    BY <1>2
  <2> HIDE DEF r, a
  <2>2. (k - 1) + 1 <= Len(q) /\ marks[(k - 1) + 2] = m
    BY <1>3, <2>1
  <2> QED BY <1>2, <2>1, <2>2
<1>6. Track(d, m, last)
  BY <1>1, <1>5, FollowsOn
<1>7. q[1].at = 1 => Allowed(first, q[1].of)
  BY <1>1, <1>2 DEF Follows
<1>8. /\ d \in Seq(Sound) /\ Len(d) = Len(q) - k
      /\ \A i \in 1..(Len(q) - k) : d[i] = q[k + i]
  BY <1>5, DropOf, Zenon
<1> HIDE DEF d
<1>9. CASE k < Size(r) - a + 1
  <2>1. k <= Size(r) - a
    BY <1>2, <1>9
  <2> HIDE DEF r, a
  <2>2. k + 1 <= Len(q) /\ q[k + 1] = [of |-> r, at |-> a + k]
    BY <1>3, <2>1
  <2>3. 1 \in 1..(Len(q) - k) /\ Len(d) >= 1
    BY <1>2, <1>8, <2>2
  <2>4. d # <<>> /\ d[1] = [of |-> r, at |-> a + k]
    BY <1>8, <2>2, <2>3
  <2>5. d[1].of = r /\ d[1].at = a + k /\ a + k # 1
    BY <1>2, <2>4
  <2>6. Left(d) = Size(r) - (a + k) + 1
    BY <2>4, <2>5 DEF Left
  <2>7. Left(d) = (Size(r) - a + 1) - k
    BY <1>2, <2>6
  <2> QED BY <1>4, <1>5, <1>6, <1>7, <2>4, <2>5, <2>7 DEF r, a, d
<1>10. CASE k = Size(r) - a + 1
  <2>1. k - 1 \in Nat /\ k - 1 <= Size(r) - a /\ (k - 1) + 1 = k /\ a + (k - 1) = Size(r)
    BY <1>2, <1>10
  <2>a. ~(k < Size(r) - a + 1) /\ (Size(r) - a + 1) - k = 0
    BY <1>2, <1>10
  <2>2. Left(d) = 0
    <3>1. CASE d = <<>>
      BY <3>1 DEF Left
    <3>2. CASE d # <<>>
      <4>1. Len(d) >= 1
        BY <1>8, <3>2, EmptySeq
      <4>2. k \in 1..Len(q) /\ k < Len(q) /\ 1 \in 1..(Len(q) - k)
        BY <1>2, <1>5, <1>8, <4>1
      <4>3. q[k].of = r /\ q[k].at = Size(r)
        <5> HIDE DEF r, a
        <5>1. q[(k - 1) + 1] = [of |-> r, at |-> a + (k - 1)]
          BY <1>3, <2>1
        <5> QED BY <2>1, <5>1
      <4> HIDE DEF r, a
      <4>4. q[k + 1].at = 1
        BY <1>1, <4>2, <4>3 DEF Follows
      <4>5. d[1].at = 1
        BY <1>8, <4>2, <4>4
      <4> QED BY <3>2, <4>5 DEF Left
    <3> QED BY <3>1, <3>2
  <2> QED BY <1>4, <1>5, <1>6, <1>7, <2>a, <2>2 DEF r, a, d
<1> QED BY <1>2, <1>9, <1>10

\* A part of what is left of the first record is taken.
LEMMA TrackLeft ==
  ASSUME NEW q \in Seq(Sound), NEW first \in Mark, NEW last \in Mark,
         Track(q, first, last), NEW k \in Nat, k <= Left(q)
  PROVE  /\ k \in 0..Len(q) /\ Track(Drop(q, k), first, last)
         /\ Left(Drop(q, k)) = Left(q) - k
         /\ k < Left(q) => Drop(q, k)[1].of = q[1].of
         /\ k > 0 => Left(q) = Size(q[1].of) - q[1].at + 1
         /\ \A j \in 1..k : q[j] = [of |-> q[1].of, at |-> q[1].at + (j - 1)]
<1>0. Left(q) \in Int
  <2>1. CASE q = <<>>
    BY <2>1 DEF Left
  <2>2. CASE q # <<>>
    <3>1. Len(q) >= 1
      BY <2>2, EmptySeq
    <3>2. q[1] \in Sound
      BY <3>1, ElementOfSeq
    <3>3. Size(q[1].of) \in Nat /\ q[1].at \in Nat
      BY <3>2, CellOf
    <3> QED BY <3>3 DEF Left
  <2> QED BY <2>1, <2>2
<1>1. CASE k = 0
  <2>1. Drop(q, 0) = q
    BY DropEnds
  <2> QED BY <1>0, <1>1, <2>1
<1>2. CASE k > 0
  <2>1. q # <<>> /\ q[1].at # 1 /\ Left(q) = Size(q[1].of) - q[1].at + 1
    BY <1>0, <1>2 DEF Left
  <2>2. 1 <= k /\ k <= Size(q[1].of) - q[1].at + 1
    BY <1>2, <2>1
  <2>3. first = IF q[1].at = 1 THEN After(first, q[1].of) ELSE first
    BY <2>1
  <2>4. /\ k \in 0..Len(q) /\ Track(Drop(q, k), first, last)
        /\ Left(Drop(q, k)) = (Size(q[1].of) - q[1].at + 1) - k
        /\ k < Size(q[1].of) - q[1].at + 1 =>
             Drop(q, k) # <<>> /\ Drop(q, k)[1].of = q[1].of
        /\ \A j \in 1..k : q[j] = [of |-> q[1].of, at |-> q[1].at + (j - 1)]
    BY ONLY q \in Seq(Sound), first \in Mark, last \in Mark, k \in Nat,
            Track(q, first, last), <2>1, <2>2, <2>3, TrackRest
  <2> DEFINE x == Size(q[1].of) - q[1].at + 1
  <2>5. /\ k \in 0..Len(q) /\ Track(Drop(q, k), first, last)
        /\ Left(Drop(q, k)) = x - k
        /\ k < x => Drop(q, k)[1].of = q[1].of
    BY ONLY <2>4, Zenon
  <2>6. Left(q) = x
    BY <2>1
  <2> HIDE DEF x
  <2>7. /\ Left(Drop(q, k)) = Left(q) - k
        /\ k < Left(q) => Drop(q, k)[1].of = q[1].of
    BY ONLY <2>5, <2>6
  <2> QED BY ONLY <2>1, <2>4, <2>7, Zenon
<1> QED BY <1>1, <1>2

\* The header of a record is taken.
LEMMA TrackHeader ==
  ASSUME NEW q \in Seq(Sound), NEW first \in Mark, NEW last \in Mark,
         Track(q, first, last), q # <<>>, q[1].at = 1, NEW r, r = q[1].of
  PROVE  /\ HeaderLen \in 0..Len(q) /\ Allowed(first, r) /\ After(first, r) \in Mark
         /\ Track(Drop(q, HeaderLen), After(first, r), last)
         /\ Left(Drop(q, HeaderLen)) = r.len + r.pad
         /\ r.len + r.pad > 0 => Drop(q, HeaderLen)[1].of = r
<1>1. Len(q) >= 1
  BY EmptySeq
<1>2. q[1] \in Sound
  BY <1>1, ElementOfSeq
<1>3. /\ HeaderLen \in Nat /\ 1 <= HeaderLen /\ Size(r) = HeaderLen + r.len + r.pad
      /\ r.len \in Nat /\ r.pad \in Nat
  BY <1>2, CellOf
<1>4. /\ HeaderLen <= Size(q[1].of) - q[1].at + 1
      /\ (Size(q[1].of) - q[1].at + 1) - HeaderLen = r.len + r.pad
      /\ r.len + r.pad > 0 => HeaderLen < Size(q[1].of) - q[1].at + 1
  BY <1>3
<1> DEFINE m == After(first, r)
<1>5. m = IF q[1].at = 1 THEN After(first, q[1].of) ELSE first
  OBVIOUS
<1>6. m \in Mark
  BY <1>2, AfterIsMark
<1> HIDE DEF m
<1>7. /\ HeaderLen \in 0..Len(q) /\ Track(Drop(q, HeaderLen), m, last)
      /\ Left(Drop(q, HeaderLen)) = (Size(q[1].of) - q[1].at + 1) - HeaderLen
      /\ HeaderLen < Size(q[1].of) - q[1].at + 1 =>
           Drop(q, HeaderLen) # <<>> /\ Drop(q, HeaderLen)[1].of = q[1].of
      /\ q[1].at = 1 => Allowed(first, q[1].of)
  BY <1>3, <1>4, <1>5, TrackRest
<1> QED BY <1>4, <1>6, <1>7 DEF m

\* Nothing is on its way.
LEMMA TrackEmpty ==
  ASSUME NEW m \in Mark
  PROVE  Track(<<>>, m, m) /\ Left(<<>>) = 0
<1> DEFINE marks == [i \in 1..1 |-> m]
<1>1. marks \in [1..(Len(<<>>) + 1) -> Mark] /\ marks[1] = m /\ marks[Len(<<>>) + 1] = m
  OBVIOUS
<1>2. Follows(<<>>, marks)
  BY DEF Follows
<1> HIDE DEF marks
<1> QED BY <1>1, <1>2 DEF Track, Left

\* A record goes out behind what is on its way.
LEMMA TrackAppend ==
  ASSUME NEW q \in Seq(Sound), NEW first \in Mark, NEW last \in Mark,
         Track(q, first, last), NEW r, SoundRecord(r), Allowed(last, r)
  PROVE  /\ q \o Cells(r) \in Seq(Sound) /\ Track(q \o Cells(r), first, After(last, r))
         /\ Left(q \o Cells(r)) = Left(q)
         /\ q # <<>> => (q \o Cells(r))[1] = q[1]
<1>1. PICK marks \in [1..(Len(q) + 1) -> Mark] :
        marks[1] = first /\ marks[Len(q) + 1] = last /\ Follows(q, marks)
  BY DEF Track
<1> DEFINE c == Cells(r)
           t == q \o c
           after == After(last, r)
           n == Len(q)
           more == [i \in 1..(Len(t) + 1) |-> IF i <= n + 1 THEN marks[i] ELSE after]
<1>2. /\ c \in Seq(Sound) /\ Len(c) = Size(r) /\ Size(r) \in Nat /\ Size(r) >= 1
      /\ \A j \in 1..Len(c) : c[j] = [of |-> r, at |-> j]
  <2>1. c \in Seq(Sound) /\ Len(c) = Size(r)
        /\ \A j \in DOMAIN c : c[j] = [of |-> r, at |-> j]
    BY CellsOf DEF Size
  <2>2. Size(r) \in Nat /\ Size(r) >= 1
    BY LengthsAssumption DEF SoundRecord, Records, Size
  <2> HIDE DEF c
  <2>3. DOMAIN c = 1..Len(c)
    BY <2>1
  <2> QED BY <2>1, <2>2, <2>3
<1>3. after \in Mark
  <2>1. 1 \in 1..Len(c)
    BY <1>2
  <2>2. c[1] \in Sound /\ c[1].of = r
    BY <1>2, <2>1, ElementOfSeq
  <2> QED BY <2>2, AfterIsMark
<1> HIDE DEF c
<1>4. /\ t \in Seq(Sound) /\ Len(t) = n + Len(c)
      /\ \A i \in 1..n : t[i] = q[i]
      /\ \A j \in 1..Len(c) : t[n + j] = c[j]
  <2>1. c \in Seq(Sound)
    BY <1>2
  <2> QED BY ONLY <2>1, q \in Seq(Sound), BothOf
<1>5. n \in Nat
  OBVIOUS
<1> HIDE DEF t, after
<1>6. /\ more \in [1..(Len(t) + 1) -> Mark]
      /\ \A i \in 1..(n + 1) : more[i] = marks[i]
      /\ \A j \in 1..Len(c) : more[n + 1 + j] = after
  <2>1. \A i \in 1..(Len(t) + 1) : i <= n + 1 => i \in 1..(n + 1)
    BY <1>4, <1>5
  <2>2. more \in [1..(Len(t) + 1) -> Mark]
    BY <1>3, <2>1
  <2>3. ASSUME NEW i \in 1..(n + 1) PROVE more[i] = marks[i]
    <3>1. i \in 1..(Len(t) + 1) /\ i <= n + 1
      BY <1>2, <1>4, <1>5
    <3> QED BY <3>1
  <2>4. ASSUME NEW j \in 1..Len(c) PROVE more[n + 1 + j] = after
    <3>1. n + 1 + j \in 1..(Len(t) + 1) /\ ~(n + 1 + j <= n + 1)
      BY <1>2, <1>4, <1>5
    <3> QED BY <3>1
  <2> QED BY <2>2, <2>3, <2>4
<1> HIDE DEF more, n
<1>7. /\ \A i \in 1..n :
          /\ q[i].at <= Size(q[i].of)
          /\ q[i].at < Size(q[i].of) =>
               i < n /\ q[i + 1] = [of |-> q[i].of, at |-> q[i].at + 1]
          /\ q[i].at = Size(q[i].of) /\ i < n => q[i + 1].at = 1
          /\ q[i].at = 1 => Allowed(marks[i], q[i].of)
          /\ marks[i + 1] = IF q[i].at = 1 THEN After(marks[i], q[i].of) ELSE marks[i]
      /\ marks[1] = first /\ marks[n + 1] = last
  BY <1>1 DEF Follows, n
<1>8. ASSUME NEW i \in 1..Len(t)
      PROVE  /\ t[i].at <= Size(t[i].of)
             /\ t[i].at < Size(t[i].of) =>
                  i < Len(t) /\ t[i + 1] = [of |-> t[i].of, at |-> t[i].at + 1]
             /\ t[i].at = Size(t[i].of) /\ i < Len(t) => t[i + 1].at = 1
             /\ t[i].at = 1 => Allowed(more[i], t[i].of)
             /\ more[i + 1] = IF t[i].at = 1 THEN After(more[i], t[i].of) ELSE more[i]
  <2>1. CASE i < n
    <3>1. i \in 1..n /\ i + 1 \in 1..n /\ i \in 1..(n + 1) /\ i + 1 \in 1..(n + 1)
          /\ i < Len(t)
      BY <1>2, <1>4, <1>5, <2>1
    <3>2. t[i] = q[i] /\ t[i + 1] = q[i + 1] /\ more[i] = marks[i]
          /\ more[i + 1] = marks[i + 1]
      BY <1>4, <1>6, <3>1
    <3> QED BY <1>7, <2>1, <3>1, <3>2
  <2>2. CASE i = n
    <3>1. i \in 1..n /\ i \in 1..(n + 1) /\ i + 1 \in 1..(n + 1) /\ 1 \in 1..Len(c)
          /\ ~(i < n)
      BY <1>2, <1>4, <1>5, <2>2
    <3>2. t[i] = q[i] /\ more[i] = marks[i] /\ more[i + 1] = marks[i + 1]
          /\ t[i + 1].at = 1
      BY <1>2, <1>4, <1>6, <2>2, <3>1
    <3> QED BY <1>7, <3>1, <3>2
  <2>3. CASE i > n
    <3> DEFINE j == i - n
    <3>1. j \in 1..Len(c) /\ n + j = i /\ n + 1 + j = i + 1
      BY <1>2, <1>4, <1>5, <2>3
    <3> HIDE DEF j
    <3>2. t[i] = [of |-> r, at |-> j] /\ more[i + 1] = after
      BY <1>2, <1>4, <1>6, <3>1
    <3>3. t[i].of = r /\ t[i].at = j
      BY <3>2
    <3>4. CASE j = 1
      <4>1. n + 1 \in 1..(n + 1) /\ i = n + 1
        BY <1>5, <3>1, <3>4
      <4>2. more[i] = last
        BY <1>6, <1>7, <4>1
      <4>3. j < Size(r) => i < Len(t) /\ t[i + 1] = [of |-> r, at |-> j + 1]
        <5> SUFFICES ASSUME j < Size(r)
                     PROVE  i < Len(t) /\ t[i + 1] = [of |-> r, at |-> j + 1]
          OBVIOUS
        <5>1. j + 1 \in 1..Len(c) /\ n + (j + 1) = i + 1 /\ i < Len(t)
          BY <1>2, <1>4, <1>5, <3>1
        <5>2. t[n + (j + 1)] = [of |-> r, at |-> j + 1]
          BY <1>2, <1>4, <5>1
        <5> QED BY <5>1, <5>2
      <4>4. j = Size(r) => ~(i < Len(t))
        BY <1>2, <1>4, <1>5, <3>1
      <4>5. j <= Size(r)
        BY <1>2, <3>1
      <4>6. after = After(last, r)
        BY DEF after
      <4> QED BY <3>2, <3>3, <3>4, <4>2, <4>3, <4>4, <4>5, <4>6
    <3>5. CASE j # 1
      <4>1. j - 1 \in 1..Len(c) /\ n + 1 + (j - 1) = i
        BY <1>2, <1>5, <3>1, <3>5
      <4>2. more[i] = after
        BY <1>6, <4>1
      <4>3. j < Size(r) => i < Len(t) /\ t[i + 1] = [of |-> r, at |-> j + 1]
        <5> SUFFICES ASSUME j < Size(r)
                     PROVE  i < Len(t) /\ t[i + 1] = [of |-> r, at |-> j + 1]
          OBVIOUS
        <5>1. j + 1 \in 1..Len(c) /\ n + (j + 1) = i + 1 /\ i < Len(t)
          BY <1>2, <1>4, <1>5, <3>1
        <5>2. t[n + (j + 1)] = [of |-> r, at |-> j + 1]
          BY <1>2, <1>4, <5>1
        <5> QED BY <5>1, <5>2
      <4>4. j = Size(r) => ~(i < Len(t))
        BY <1>2, <1>4, <1>5, <3>1
      <4>5. j <= Size(r)
        BY <1>2, <3>1
      <4> QED BY <3>2, <3>3, <3>5, <4>2, <4>3, <4>4, <4>5
    <3> QED BY <3>4, <3>5
  <2> QED BY <1>4, <1>5, <2>1, <2>2, <2>3
<1>9. Follows(t, more)
  BY ONLY <1>8 DEF Follows
<1>10. more[1] = first /\ more[Len(t) + 1] = after
  <2>1. 1 \in 1..(n + 1) /\ Len(c) \in 1..Len(c) /\ n + 1 + Len(c) = Len(t) + 1
    BY <1>2, <1>4, <1>5
  <2> QED BY <1>6, <1>7, <2>1
<1>11. Track(t, first, after)
  BY <1>6, <1>9, <1>10 DEF Track
<1>12. q # <<>> => t[1] = q[1]
  <2>1. q # <<>> => 1 \in 1..n
    BY <1>5, EmptySeq DEF n
  <2> QED BY <1>4, <2>1
<1>13. Left(t) = Left(q)
  <2>1. t # <<>>
    BY <1>2, <1>4, <1>5, EmptySeq
  <2>2. CASE q = <<>>
    <3>1. 1 \in 1..Len(c) /\ n + 1 = 1
      BY <1>2, <2>2 DEF n
    <3>2. t[n + 1].at = 1
      BY <1>2, <1>4, <3>1
    <3> QED BY <2>1, <2>2, <3>1, <3>2 DEF Left
  <2>3. CASE q # <<>>
    BY <1>12, <2>1, <2>3 DEF Left
  <2> QED BY <2>2, <2>3
<1> QED BY <1>4, <1>11, <1>12, <1>13 DEF t, c, after

-----------------------------------------------------------------------------
(* The reader.                                                             *)

\* What the reader has and what is on its way are cells of records.
LEMMA ReaderOf ==
  ASSUME TInv
  PROVE  /\ Ahead \in Seq(Sound) /\ in.buff \in Seq(Sound) /\ header \in Seq(Sound)
         /\ wire \in Seq(Sound) /\ in.buff \o wire \in Seq(Sound)
         /\ (IF Unseen THEN header ELSE <<>>) \in Seq(Sound)
         /\ in \in Stream /\ in.contentLen \in Nat /\ in.stop \in Nat
         /\ in.paddingLen \in Nat /\ in.stop \in 0..Len(in.buff)
         /\ in.skip \in BOOLEAN /\ in.eorStop \in BOOLEAN /\ in.isClosed \in BOOLEAN
         /\ in.FCGI_errno \in BOOLEAN
         /\ Undelivered \in Nat /\ Rest \in Nat /\ ServerMark \in Mark
<1>1. /\ in \in Stream /\ in.stop <= Len(in.buff) /\ header \in Seq(Sound)
      /\ wire \in Seq(Sound) /\ ServerOK
  BY DEF TInv, Typed, Readable
<1>2. /\ in.buff \in Seq(Sound) /\ in.contentLen \in Nat /\ in.stop \in Nat
      /\ in.paddingLen \in Nat /\ in.skip \in BOOLEAN /\ in.eorStop \in BOOLEAN
      /\ in.isClosed \in BOOLEAN /\ in.FCGI_errno \in BOOLEAN
  BY <1>1 DEF Stream
<1>3. in.stop \in 0..Len(in.buff) /\ Undelivered \in Nat /\ Rest \in Nat
  BY <1>1, <1>2 DEF Undelivered, Rest
<1> DEFINE b == in.buff \o wire
           h == IF Unseen THEN header ELSE <<>>
<1>4. b \in Seq(Sound)
  BY <1>1, <1>2, ConcatProperties
<1>5. h \in Seq(Sound)
  <2>1. \A S : <<>> \in Seq(S)
    OBVIOUS
  <2> QED BY <1>1, <2>1
<1> HIDE DEF b, h
<1>6. h \o b \in Seq(Sound)
  BY <1>4, <1>5, ConcatProperties
<1>7. ServerMark \in Mark
  BY <1>1 DEF ServerOK, ServerMark, Mark, Ids
<1> QED BY <1>1, <1>2, <1>3, <1>4, <1>5, <1>6, <1>7 DEF Ahead, b, h

\* FillBuffProc runs inside a call of the library.
LEMMA InsideOf ==
  ASSUME TInv
  PROVE  /\ caller \in {"begun", "params", "serve"} /\ caller \notin {"idle", "accept"}
         /\ Outside <=> pc = "idle" \/ pc = "accept"
         /\ pc \notin {"fill", "header", "nested"} => Unseen /\ header = <<>>
         /\ pc \in {"fill", "nested"} => (Unseen <=> ~in.eorStop)
         /\ pc = "header" => Unseen /\ Len(header) = HeaderLen
         /\ pc = "nested" => ~Unseen
         /\ pc \in {"fill", "header"} => in.stop = 0
  BY DEF TInv, Typed, InPlace, Outside, Unseen

\* A step inside FillBuffProc or next to it: who has an error keeps it.
LEMMA ReadingStep ==
  ASSUME TInv, Reading, ~Outside, ~Outside', UNCHANGED <<caller, server>>,
         in'.FCGI_errno = in.FCGI_errno, caller # "serve" => body' = body,
         caller # "serve" => ~(pc \in {caller, "nested"} /\ in.stop = 0),
         ASSUME NEW m \in Mark, Track(Ahead, m, ServerMark), Placed(m), ~Lost, Genuine
         PROVE  Located'
  PROVE  Reading'
<1>1. caller \in {"begun", "params", "serve"}
  BY InsideOf
<1>2. caller' # "serve" \/ Outside' => body' = <<>>
  BY DEF Reading
<1>3. server'.phase[2] # "begin" => server'.phase[1] # "begin"
  BY DEF Reading
<1>4. ASSUME ~server'.unsafe PROVE IF Lost' THEN Broken' ELSE Genuine' /\ Located'
  <2>1. ~server.unsafe /\ (Lost' <=> Lost) /\ Genuine' = Genuine
    BY <1>4 DEF Lost, Genuine
  <2>2. CASE Lost
    <3>1. Broken
      BY <2>1, <2>2 DEF Reading
    <3>2. caller = "serve"
      BY <1>1, <3>1 DEF Broken
    <3>3. Broken'
      BY <3>2 DEF Broken
    <3> QED BY <2>1, <2>2, <3>3
  <2>3. CASE ~Lost
    <3>1. Located /\ Genuine
      BY <2>1, <2>3 DEF Reading
    <3>2. PICK m \in Mark : Track(Ahead, m, ServerMark) /\ Placed(m)
      BY <3>1 DEF Located
    <3>3. Located'
      BY <2>3, <3>1, <3>2
    <3> QED BY <2>1, <2>3, <3>1, <3>3
  <2> QED BY <2>2, <2>3
<1> QED BY <1>2, <1>3, <1>4 DEF Reading

\* What is placed stays placed when the reader stays and the cells in front of it.
LEMMA PlacedStays ==
  ASSUME TInv, NEW m, Placed(m),
         UNCHANGED <<pc, caller, header, request, env, body>>,
         in'.contentLen = in.contentLen, in'.stop = in.stop, in'.type = in.type,
         in'.paddingLen = in.paddingLen, in'.skip = in.skip,
         in'.isClosed = in.isClosed, in'.eorStop = in.eorStop,
         Left(Ahead)' = Left(Ahead), Ahead # <<>> => (Ahead')[1] = Ahead[1]
  PROVE  Placed(m)'
<1>1. /\ Unseen' = Unseen /\ Outside' = Outside /\ Undelivered' = Undelivered
      /\ Rest' = Rest /\ Current' = Current
  BY DEF Unseen, Outside, Undelivered, Rest, Current
<1>2. Steady' = Steady /\ Waits(m)' = Waits(m)
  BY <1>1 DEF Steady, Waits
<1>3. InStep /\ Undelivered > 0 => (Ahead')[1] = Ahead[1]
  <2>1. Undelivered \in Nat /\ in.paddingLen \in Nat
    BY ReaderOf
  <2>2. InStep /\ Undelivered > 0 => Left(Ahead) # 0
    BY <2>1 DEF InStep, Rest
  <2> QED BY <2>2 DEF Left
<1>4. InStep => InStep'
  BY <1>1, <1>3 DEF InStep
<1>5. Beginning(m) => Beginning(m)'
  BY <1>1, <1>2, <1>4 DEF Beginning
<1>6. ASSUME NEW type, NEW taken, Flowing(m, type, taken)
      PROVE  /\ Steady' /\ InStep' /\ in'.type = type /\ m.phase = type
             /\ LET content == IF in'.skip \/ ~Unseen' THEN 0 ELSE Undelivered'
                IN  /\ content <= m.done /\ m.done <= Len(Bytes(type))
                    /\ taken = First(Bytes(type), m.done - content)
                    /\ content > 0 => /\ (Ahead')[1].of.type = type
                                      /\ (Ahead')[1].of.from + (Ahead')[1].of.len = m.done
  <2>1. InStep /\ Steady
    BY <1>6 DEF Flowing
  <2>2. Undelivered > 0 => (Ahead')[1] = Ahead[1]
    BY <1>3, <2>1
  <2> QED BY <1>1, <1>2, <1>4, <1>6, <2>1, <2>2 DEF Flowing
<1>7. Flowing(m, "PARAMS", env) => Flowing(m, "PARAMS", env)'
  BY <1>6 DEF Flowing
<1>8. Flowing(m, "STDIN", body) => Flowing(m, "STDIN", body)'
  BY <1>6 DEF Flowing
<1> QED BY <1>1, <1>5, <1>7, <1>8 DEF Placed

\* A read of the socket takes nothing from the queue.
LEMMA FillReadReads == ASSUME TInv, Reading, FillRead PROVE Reading'
<1>1. PICK n \in 1..Len(wire) :
        /\ in' = [in EXCEPT !.buff = First(wire, n)] /\ wire' = Drop(wire, n)
  BY DEF FillRead
<1>2. /\ pc = "fill" /\ in.buff = <<>>
      /\ UNCHANGED <<pc, caller, header, request, env, body, server>>
  BY DEF FillRead
<1>3. /\ in'.contentLen = in.contentLen /\ in'.stop = in.stop /\ in'.type = in.type
      /\ in'.paddingLen = in.paddingLen /\ in'.skip = in.skip
      /\ in'.isClosed = in.isClosed /\ in'.eorStop = in.eorStop
      /\ in'.FCGI_errno = in.FCGI_errno /\ in'.buff = First(wire, n)
  BY <1>1, ReaderOf DEF Stream
<1>4. n \in 0..Len(wire) /\ wire \in Seq(Sound)
  BY ReaderOf
<1>5. in'.buff \o wire' = in.buff \o wire
  <2>1. First(wire, n) \o Drop(wire, n) = wire
    BY <1>4, FirstDrop
  <2>2. <<>> \o wire = wire
    BY <1>4, ConcatEmptySeq
  <2> QED BY <1>1, <1>2, <1>3, <2>1, <2>2
<1>6. Ahead' = Ahead /\ ~Outside /\ ~Outside'
  BY <1>2, <1>3, <1>5 DEF Ahead, Unseen, Outside
<1>7. ASSUME NEW m \in Mark, Track(Ahead, m, ServerMark), Placed(m)
      PROVE  Located'
  <2>1. Placed(m)'
    BY <1>2, <1>3, <1>6, <1>7, PlacedStays DEF Left
  <2>2. ServerMark' = ServerMark
    BY <1>2 DEF ServerMark
  <2> QED BY <1>6, <1>7, <2>1, <2>2 DEF Located
<1>8. caller # "serve" => ~(pc \in {caller, "nested"} /\ in.stop = 0)
  BY <1>2, InsideOf
<1> QED BY <1>2, <1>3, <1>6, <1>7, <1>8, ReadingStep

\* An error of the stream, from wherever the header was read or is.
LEMMA ErrorReads ==
  ASSUME TInv, Standing, Reading, pc \in {"fill", "header", "nested"},
         pc' \in {caller, "nested"}, in'.FCGI_errno, in'.stop = 0,
         UNCHANGED <<caller, request, env, body, server>>
  PROVE  Reading'
<1>1. ~Outside /\ ~Outside' /\ Lost'
  BY InsideOf DEF Outside, Lost
<1>2. ASSUME ~server.unsafe PROVE Broken'
  <2>1. CASE Lost
    BY <1>2, <2>1 DEF Reading, Broken
  <2>2. CASE ~Lost
    <3>1. PICK m \in Mark : Placed(m)
      BY <1>2, <2>2 DEF Reading, Located
    <3>2. caller = "begun" => ~request.isBeginProcessed
      <4> SUFFICES ASSUME caller = "begun" PROVE ~request.isBeginProcessed
        OBVIOUS
      <4>1. Beginning(m)
        BY <1>1, <3>1 DEF Placed
      <4>2. CASE Unseen \/ Current.type # "BEGIN"
        BY <4>1, <4>2 DEF Beginning, Waits
      <4>3. CASE ~Unseen /\ Current.type = "BEGIN"
        BY <4>3 DEF Unseen, Standing
      <4> QED BY <4>2, <4>3
    <3>3. caller = "params" => env \in Starts(ParamBytes)
      <4> SUFFICES ASSUME caller = "params" PROVE env \in Starts(ParamBytes)
        OBVIOUS
      <4>1. Flowing(m, "PARAMS", env)
        BY <1>1, <3>1 DEF Placed
      <4> DEFINE content == IF in.skip \/ ~Unseen THEN 0 ELSE Undelivered
      <4>2. /\ content <= m.done /\ m.done <= Len(ParamBytes)
            /\ env = First(ParamBytes, m.done - content)
        BY <4>1 DEF Flowing, Bytes
      <4>3. content \in Nat /\ m.done \in Nat /\ Len(ParamBytes) \in Nat
        BY ReaderOf, LengthsAssumption DEF Mark
      <4> HIDE DEF content
      <4>4. m.done - content \in 0..Len(ParamBytes)
        BY <4>2, <4>3
      <4> QED BY <4>2, <4>4 DEF Starts
    <3> QED BY <3>2, <3>3 DEF Broken
  <2> QED BY <2>1, <2>2
<1>3. caller' # "serve" \/ Outside' => body' = <<>>
  BY <1>1 DEF Reading
<1> QED BY <1>1, <1>2, <1>3 DEF Reading

\* The read of FillBuffProc fails.
LEMMA ReadErrorReads ==
  ASSUME TInv, Standing, Reading, ReadError, pc = "fill",
         UNCHANGED <<caller, request, env, body, server>>
  PROVE  Reading'
<1>1. in'.FCGI_errno /\ in'.stop = 0
  BY InsideOf, ReaderOf DEF ReadError, SetError, Stream
<1>2. pc' \in {caller, "nested"}
  BY DEF ReadError, Returns
<1> QED BY <1>1, <1>2, ErrorReads

\* SIGUSR1 inside the library or outside.
LEMMA Sigusr1Reads == ASSUME TInv, Standing, Reading, Sigusr1 PROVE Reading'
<1>1. UNCHANGED <<caller, request, env, body, wire, server>>
  BY DEF Sigusr1
<1>2. CASE pc = "fill" /\ ReadError
  BY <1>1, <1>2, ReadErrorReads
<1>3. CASE UNCHANGED <<pc, in, header>>
  <2>1. Ahead' = Ahead /\ ServerMark' = ServerMark /\ Outside' = Outside
        /\ Lost' = Lost /\ Genuine' = Genuine
    BY <1>1, <1>3 DEF Ahead, Unseen, ServerMark, Outside, Lost, Genuine
  <2>2. \A m \in Mark : Placed(m) => Placed(m)'
    BY <1>1, <1>3, <2>1, PlacedStays DEF Left
  <2>3. Located => Located'
    BY <2>1, <2>2 DEF Located
  <2>4. Broken => Broken'
    BY <1>1, <1>3 DEF Broken
  <2> QED BY <1>1, <2>1, <2>3, <2>4 DEF Reading
<1> QED BY <1>2, <1>3 DEF Sigusr1

\* Content that is delivered stays in the queue until it is taken.
LEMMA FillContentReads == ASSUME TInv, Reading, FillContent PROVE Reading'
<1> DEFINE n == Least(in.contentLen, Len(in.buff))
<1>1. /\ pc = "fill" /\ in.buff # <<>> /\ in.contentLen > 0 /\ ~in.skip
      /\ pc' = Returns /\ UNCHANGED <<caller, header, request, env, body, wire, server>>
      /\ in' = [in EXCEPT !.stop = n, !.contentLen = in.contentLen - n]
  BY ReaderOf DEF FillContent, Stream
<1>2. n \in Nat /\ n > 0 /\ n <= in.contentLen
  <2>1. Len(in.buff) \in Nat /\ Len(in.buff) > 0
    BY <1>1, ReaderOf, EmptySeq
  <2> QED BY <1>1, <2>1, ReaderOf DEF Least
<1> HIDE DEF n
<1>3. /\ in'.contentLen = in.contentLen - n /\ in'.stop = n /\ in'.type = in.type
      /\ in'.paddingLen = in.paddingLen /\ in'.skip = in.skip
      /\ in'.isClosed = in.isClosed /\ in'.eorStop = in.eorStop
      /\ in'.FCGI_errno = in.FCGI_errno /\ in'.buff = in.buff
  BY <1>1, ReaderOf DEF Stream
<1>4. /\ in.stop = 0 /\ (Unseen <=> ~in.eorStop) /\ ~Outside /\ ~Outside'
      /\ pc' = IF in.eorStop THEN "nested" ELSE caller
      /\ caller \in {"begun", "params", "serve"}
  BY <1>1, InsideOf DEF Returns, Outside
<1>5. (Unseen' <=> Unseen) /\ Ahead' = Ahead /\ Current' = Current
  BY <1>1, <1>3, <1>4 DEF Ahead, Unseen, Current
<1>6. Undelivered' = Undelivered /\ Rest' = Rest
  BY <1>2, <1>3, <1>4, ReaderOf DEF Undelivered, Rest
<1>7. (InStep => InStep') /\ ServerMark' = ServerMark
  BY <1>1, <1>3, <1>5, <1>6 DEF InStep, ServerMark
<1>8. ASSUME NEW m \in Mark, Track(Ahead, m, ServerMark), Placed(m)
      PROVE  Located'
  <2>1. Steady => Steady'
    <3>1. in.isClosed => ~Steady
      BY <1>1 DEF Steady
    <3>2. Unseen => header = <<>>
      BY <1>1, <1>4, ReaderOf DEF TInv, InPlace
    <3> QED BY <1>1, <1>2, <1>3, <1>4, <1>5, <1>6, <3>1, <3>2 DEF Steady
  <2>2. CASE caller = "begun"
    <3>1. Beginning(m)
      BY <1>1, <1>4, <1>8, <2>2 DEF Placed
    <3>2. Undelivered > 0
      BY <1>1, ReaderOf DEF Undelivered
    <3>3. ~Unseen
      BY <1>1, <3>1, <3>2 DEF Beginning
    <3>4. Beginning(m)'
      BY <1>1, <1>3, <1>5, <1>7, <2>1, <3>1, <3>3 DEF Beginning, Waits
    <3>5. Placed(m)'
      BY <1>1, <1>4, <2>2, <3>3, <3>4 DEF Placed
    <3> QED BY <1>5, <1>7, <1>8, <3>5 DEF Located
  <2>3. ASSUME NEW type, NEW taken, Flowing(m, type, taken)
        PROVE  /\ ~in'.isClosed
               /\ Steady' /\ InStep' /\ in'.type = type /\ m.phase = type
               /\ LET content == IF in'.skip \/ ~Unseen' THEN 0 ELSE Undelivered'
                  IN  /\ content <= m.done /\ m.done <= Len(Bytes(type))
                      /\ taken = First(Bytes(type), m.done - content)
                      /\ content > 0 => /\ (Ahead')[1].of.type = type
                                        /\ (Ahead')[1].of.from + (Ahead')[1].of.len = m.done
    <3>1. InStep /\ Steady
      BY <2>3 DEF Flowing
    <3>2. ~in'.isClosed
      BY <1>1, <1>3, <3>1 DEF Steady
    <3> QED BY <1>3, <1>5, <1>6, <1>7, <2>1, <2>3, <3>1, <3>2 DEF Flowing
  <2>4. CASE caller = "params"
    <3>1. Flowing(m, "PARAMS", env)
      BY <1>1, <1>4, <1>8, <2>4 DEF Placed
    <3>2. Flowing(m, "PARAMS", env)'
      BY <1>1, <2>3, <3>1 DEF Flowing
    <3>3. Placed(m)'
      BY <1>1, <1>2, <1>3, <1>4, <2>4, <3>2 DEF Placed
    <3> QED BY <1>5, <1>7, <1>8, <3>3 DEF Located
  <2>5. CASE caller = "serve"
    <3>1. Flowing(m, "STDIN", body) /\ env = ParamBytes
      BY <1>1, <1>4, <1>8, <2>5 DEF Placed
    <3>2. Flowing(m, "STDIN", body)' /\ ~in'.isClosed
      BY <1>1, <2>3, <3>1 DEF Flowing
    <3>3. Placed(m)'
      BY <1>1, <1>4, <2>5, <3>1, <3>2 DEF Placed
    <3> QED BY <1>5, <1>7, <1>8, <3>3 DEF Located
  <2> QED BY <1>4, <2>2, <2>4, <2>5
<1>9. caller # "serve" => ~(pc \in {caller, "nested"} /\ in.stop = 0)
  BY <1>1, InsideOf
<1> QED BY <1>1, <1>3, <1>4, <1>8, <1>9, ReadingStep

\* Cells in the buffer that belong to the rest of the record are taken.
LEMMA PassedOver ==
  ASSUME TInv, NEW m \in Mark, Track(Ahead, m, ServerMark), InStep,
         NEW h, h = IF Unseen THEN header ELSE <<>>,
         NEW k \in 0..Len(in.buff), k <= Rest, k > 0 => h = <<>>,
         NEW q, q = h \o (Drop(in.buff, k) \o wire)
  PROVE  /\ Track(q, m, ServerMark) /\ Left(q) = Rest - k
         /\ k < Rest => q[1].of = Ahead[1].of
<1> DEFINE b == in.buff \o wire
           d == Drop(in.buff, k) \o wire
<1>1. /\ in.buff \in Seq(Sound) /\ wire \in Seq(Sound) /\ Rest \in Nat
      /\ Ahead \in Seq(Sound) /\ b \in Seq(Sound) /\ ServerMark \in Mark /\ k \in Nat
  BY ReaderOf
<1>2. Drop(b, k) = d /\ Drop(b, 0) = b /\ Ahead = h \o b
  BY <1>1, DropBoth, DropEnds DEF Ahead
<1> HIDE DEF b, d
<1>3. q = h \o d
  BY DEF d
<1>4. CASE k = 0
  <2>1. q = Ahead
    BY <1>2, <1>3, <1>4
  <2>2. Rest - k = Rest
    BY <1>1, <1>4
  <2>3. Left(q) = Rest
    BY <2>1 DEF InStep
  <2> QED BY <2>1, <2>2, <2>3
<1>5. CASE k > 0
  <2>1. q = d /\ Ahead = b
    <3>1. d \in Seq(Sound)
      <4>1. Drop(in.buff, k) \in Seq(Sound)
        BY <1>1, DropOf, Zenon
      <4> QED BY <1>1, <4>1, ConcatProperties DEF d
    <3> QED BY <1>1, <1>2, <1>3, <1>5, <3>1, ConcatEmptySeq
  <2>2. Left(Ahead) = Rest
    BY DEF InStep
  <2>3. /\ Track(Drop(Ahead, k), m, ServerMark)
        /\ Left(Drop(Ahead, k)) = Left(Ahead) - k
        /\ k < Left(Ahead) => Drop(Ahead, k)[1].of = Ahead[1].of
    BY <1>1, <2>2, TrackLeft
  <2>4. Drop(Ahead, k) = q
    BY <1>2, <2>1
  <2>5. Track(q, m, ServerMark) /\ Left(q) = Left(Ahead) - k
    BY ONLY <2>3, <2>4
  <2>6. k < Left(Ahead) => q[1].of = Ahead[1].of
    BY ONLY <2>3, <2>4
  <2> QED BY ONLY <2>2, <2>5, <2>6
<1>6. k = 0 \/ k > 0
  BY ONLY <1>1
<1> QED BY ONLY <1>4, <1>5, <1>6, Zenon

\* FillBuffProc passes over the content that is there, and stops skipping at its end.
LEMMA PastContentOf ==
  ASSUME NEW s \in Stream, NEW n, n = Least(s.contentLen, Len(s.buff)),
         NEW t, t = PastContent(s)
  PROVE  /\ n \in 0..Len(s.buff) /\ n <= s.contentLen
         /\ t \in Stream /\ t.buff = Drop(s.buff, n) /\ t.contentLen = s.contentLen - n
         /\ t.stop = s.stop /\ t.type = s.type /\ t.eorStop = s.eorStop
         /\ t.paddingLen = s.paddingLen /\ t.isClosed = s.isClosed
         /\ t.FCGI_errno = s.FCGI_errno
         /\ t.skip = (s.skip /\ (s.contentLen = 0 \/ n < s.contentLen))
<1> DEFINE rest == Drop(s.buff, n)
           skips == s.skip /\ (s.contentLen = 0 \/ n < s.contentLen)
           u == [s EXCEPT !.buff = rest, !.contentLen = s.contentLen - n, !.skip = skips]
<1>1. s.buff \in Seq(Sound) /\ s.contentLen \in Nat /\ Len(s.buff) \in Nat
  BY DEF Stream
<1>2. n \in Nat /\ n <= s.contentLen /\ n <= Len(s.buff)
  BY <1>1, LeastOf, Zenon
<1>3. n \in 0..Len(s.buff) /\ s.contentLen - n \in Nat
  BY <1>1, <1>2
<1>4. rest \in Seq(Sound)
  BY <1>1, <1>3, DropOf, Zenon
<1>5. t = u
  BY DEF PastContent, Stream
<1>6. skips \in BOOLEAN
  BY DEF Stream
<1> HIDE DEF rest, skips
<1>7. /\ u \in Stream /\ u.buff = rest /\ u.contentLen = s.contentLen - n
      /\ u.stop = s.stop /\ u.type = s.type /\ u.eorStop = s.eorStop
      /\ u.paddingLen = s.paddingLen /\ u.isClosed = s.isClosed
      /\ u.FCGI_errno = s.FCGI_errno /\ u.skip = skips
  BY <1>3, <1>4, <1>6 DEF Stream
<1> HIDE DEF u
<1> QED BY <1>2, <1>3, <1>5, <1>7 DEF rest, skips

\* FillBuffProc passes over the padding that is there.
LEMMA PastPaddingOf ==
  ASSUME NEW s \in Stream, NEW n, n = Least(s.paddingLen, Len(s.buff)),
         NEW t, t = PastPadding(s)
  PROVE  /\ n \in 0..Len(s.buff) /\ n <= s.paddingLen
         /\ t \in Stream /\ t.buff = Drop(s.buff, n) /\ t.paddingLen = s.paddingLen - n
         /\ t.stop = s.stop /\ t.type = s.type /\ t.eorStop = s.eorStop
         /\ t.contentLen = s.contentLen /\ t.isClosed = s.isClosed
         /\ t.FCGI_errno = s.FCGI_errno /\ t.skip = s.skip
<1> DEFINE rest == Drop(s.buff, n)
           u == [s EXCEPT !.buff = rest, !.paddingLen = s.paddingLen - n]
<1>1. s.buff \in Seq(Sound) /\ s.paddingLen \in Nat /\ Len(s.buff) \in Nat
  BY DEF Stream
<1>2. n \in Nat /\ n <= s.paddingLen /\ n <= Len(s.buff)
  BY <1>1, LeastOf, Zenon
<1>3. n \in 0..Len(s.buff) /\ s.paddingLen - n \in Nat
  BY <1>1, <1>2
<1>4. rest \in Seq(Sound)
  BY <1>1, <1>3, DropOf, Zenon
<1>5. t = u
  BY DEF PastPadding, Stream
<1> HIDE DEF rest
<1>7. /\ u \in Stream /\ u.buff = rest /\ u.paddingLen = s.paddingLen - n
      /\ u.stop = s.stop /\ u.type = s.type /\ u.eorStop = s.eorStop
      /\ u.contentLen = s.contentLen /\ u.isClosed = s.isClosed
      /\ u.FCGI_errno = s.FCGI_errno /\ u.skip = s.skip
  BY <1>3, <1>4 DEF Stream
<1> HIDE DEF u
<1> QED BY <1>2, <1>3, <1>5, <1>7 DEF rest

\* Where content is passed over or there is none, nothing is delivered.
LEMMA PlacedOver ==
  ASSUME TInv, TInv', NEW m \in Mark, Placed(m), pc = "fill",
         pc' \in {"fill", "header", "nested"},
         in.contentLen = 0 \/ in.skip, in.stop = 0,
         Undelivered' > 0 => in'.skip, (Unseen' <=> Unseen),
         ~Unseen => header' = header, in.paddingLen = 0 => in'.paddingLen = 0,
         in'.type = in.type, InStep', Steady', UNCHANGED <<caller, request, env, body>>
  PROVE  Placed(m)'
<1>1. ~Outside /\ ~Outside' /\ caller \in {"begun", "params", "serve"}
  BY InsideOf DEF Outside
<1>2. Undelivered' \in Nat /\ Undelivered \in Nat
  <2>1. in'.stop \in Nat /\ in'.contentLen \in Nat
    BY DEF TInv, Typed, Readable, Stream
  <2> QED BY <2>1, ReaderOf DEF Undelivered
<1>3. Beginning(m) => Beginning(m)'
  <2>1. ~Unseen => Current' = Current
    BY DEF Current
  <2> QED BY <2>1 DEF Beginning, Waits
<1>4. ASSUME NEW type, NEW taken, Flowing(m, type, taken)
      PROVE  /\ Steady' /\ InStep' /\ in'.type = type /\ m.phase = type
             /\ LET content == IF in'.skip \/ ~Unseen' THEN 0 ELSE Undelivered'
                IN  /\ content <= m.done /\ m.done <= Len(Bytes(type))
                    /\ taken = First(Bytes(type), m.done - content)
                    /\ content > 0 => /\ (Ahead')[1].of.type = type
                                      /\ (Ahead')[1].of.from + (Ahead')[1].of.len = m.done
  <2> DEFINE content == IF in.skip \/ ~Unseen THEN 0 ELSE Undelivered
             after == IF in'.skip \/ ~Unseen' THEN 0 ELSE Undelivered'
  <2>1. content = 0
    BY ReaderOf DEF Undelivered
  <2>2. after = 0
    BY <1>2
  <2>3. /\ Steady /\ InStep /\ in.type = type /\ m.phase = type
        /\ content <= m.done /\ m.done <= Len(Bytes(type))
        /\ taken = First(Bytes(type), m.done - content)
    BY <1>4 DEF Flowing
  <2> HIDE DEF content
  <2>4. /\ after <= m.done /\ taken = First(Bytes(type), m.done - after)
        /\ ~(after > 0)
    BY <2>1, <2>2, <2>3
  <2> QED BY <2>3, <2>4
<1>5. Flowing(m, "PARAMS", env) => Flowing(m, "PARAMS", env)'
  BY <1>4 DEF Flowing
<1>6. Flowing(m, "STDIN", body) => Flowing(m, "STDIN", body)'
  BY <1>4 DEF Flowing
<1> QED BY <1>1, <1>3, <1>5, <1>6 DEF Placed

\* FillBuffProc goes on to the end of the record and into the next header.
LEMMA FillRestReads == ASSUME TInv, TInv', Reading, FillRest PROVE Reading'
<1> DEFINE c == PastContent(in)
           past == PastPadding(c)
           a == Least(in.contentLen, Len(in.buff))
           b == Least(c.paddingLen, Len(c.buff))
           n == Least(HeaderLen - Len(header), Len(past.buff))
           next == [past EXCEPT !.buff = Drop(past.buff, n), !.stop = 0]
           h == IF Unseen THEN header ELSE <<>>
<1>1. /\ pc = "fill" /\ in.buff # <<>> /\ (in.contentLen = 0 \/ in.skip)
      /\ UNCHANGED <<caller, request, env, body, wire, server>>
  BY DEF FillRest
<1>2. /\ \/ /\ c.contentLen > 0 /\ in' = c /\ UNCHANGED <<pc, header>>
         \/ /\ c.contentLen = 0 /\ past.paddingLen > 0
            /\ in' = past /\ UNCHANGED <<pc, header>>
         \/ /\ c.contentLen = 0 /\ past.paddingLen = 0 /\ in.eorStop
            /\ in' = [past EXCEPT !.stop = 0, !.isClosed = TRUE]
            /\ pc' = "nested" /\ UNCHANGED header
         \/ /\ c.contentLen = 0 /\ past.paddingLen = 0 /\ ~in.eorStop
            /\ header' = header \o First(past.buff, n)
            /\ IF Len(header') < HeaderLen
                 THEN in' = next /\ UNCHANGED pc
                 ELSE in' = [next EXCEPT !.eorStop = TRUE] /\ pc' = "header"
  BY Zenon DEF FillRest
<1>3. /\ in \in Stream /\ in.buff \in Seq(Sound) /\ in.contentLen \in Nat
      /\ in.paddingLen \in Nat /\ in.stop = 0 /\ in.skip \in BOOLEAN
      /\ wire \in Seq(Sound) /\ header \in Seq(Sound) /\ h \in Seq(Sound)
      /\ (Unseen <=> ~in.eorStop) /\ ~Outside
      /\ Rest = in.contentLen + in.paddingLen /\ Undelivered = in.contentLen
  BY <1>1, ReaderOf, InsideOf DEF Outside, Rest, Undelivered
<1>4. /\ a \in 0..Len(in.buff) /\ a <= in.contentLen
      /\ c \in Stream /\ c.buff = Drop(in.buff, a)
      /\ c.contentLen = in.contentLen - a
      /\ c.stop = in.stop /\ c.type = in.type /\ c.eorStop = in.eorStop
      /\ c.paddingLen = in.paddingLen /\ c.isClosed = in.isClosed
      /\ c.FCGI_errno = in.FCGI_errno
      /\ c.skip = (in.skip /\ (in.contentLen = 0 \/ a < in.contentLen))
  BY <1>3, PastContentOf
<1> HIDE DEF c
<1>5. /\ b \in 0..Len(c.buff) /\ b <= c.paddingLen
      /\ past \in Stream /\ past.buff = Drop(c.buff, b)
      /\ past.paddingLen = c.paddingLen - b
      /\ past.stop = c.stop /\ past.type = c.type /\ past.eorStop = c.eorStop
      /\ past.contentLen = c.contentLen /\ past.isClosed = c.isClosed
      /\ past.FCGI_errno = c.FCGI_errno /\ past.skip = c.skip
  BY <1>4, PastPaddingOf
<1>6. /\ c.buff \in Seq(Sound) /\ past.buff \in Seq(Sound)
  BY <1>4, <1>5 DEF Stream
<1>7. a + b \in 0..Len(in.buff) /\ past.buff = Drop(in.buff, a + b)
  <2>1. b \in 0..Len(Drop(in.buff, a))
    BY <1>4, <1>5
  <2> HIDE DEF a, b
  <2>2. a + b \in 0..Len(in.buff) /\ Drop(Drop(in.buff, a), b) = Drop(in.buff, a + b)
    <3>1. in.buff \in Seq(Sound) /\ a \in 0..Len(in.buff) /\ b \in 0..Len(Drop(in.buff, a))
      BY <1>3, <1>4, <2>1
    <3> QED BY ONLY <3>1, SMTT(40), DropDrop
  <2> QED BY <1>4, <1>5, <2>2
<1> HIDE DEF past, a, b
<1>8. ASSUME NEW m \in Mark, Track(Ahead, m, ServerMark), Placed(m), ~Lost
      PROVE  Located'
  <2>1. /\ InStep
        /\ Unseen /\ header # <<>> => Rest = 0
        /\ in.skip => Unseen /\ in.contentLen > 0
        /\ Steady
    <3>1. caller = "begun" => Beginning(m)
      BY <1>1, <1>3, <1>8 DEF Placed
    <3>2. caller = "params" => Flowing(m, "PARAMS", env)
      BY <1>1, <1>3, <1>8 DEF Placed
    <3>3. caller = "serve" => Flowing(m, "STDIN", body)
      BY <1>1, <1>3, <1>8 DEF Placed
    <3>4. caller \in {"begun", "params", "serve"}
      BY InsideOf
    <3>5. Steady /\ InStep
      BY <3>1, <3>2, <3>3, <3>4 DEF Beginning, Flowing
    <3> QED BY <3>5 DEF Steady
  <2>2. ServerMark' = ServerMark
    BY <1>1 DEF ServerMark
  \* The cells in front of the reader when k of the buffer are gone.
  <2>3. ASSUME NEW k \in 0..Len(in.buff), k <= Rest,
               Ahead' = h \o (Drop(in.buff, k) \o wire),
               Rest' = Rest - k, Undelivered' > 0 => k < Rest,
               in'.paddingLen = in.paddingLen \/ Undelivered' = 0,
               Undelivered' <= Undelivered, Undelivered' \in Nat,
               pc' \in {"fill", "header", "nested"}, Undelivered' > 0 => in'.skip,
               (Unseen' <=> Unseen), ~Unseen => header' = header,
               in.paddingLen = 0 => in'.paddingLen = 0,
               in'.type = in.type, Steady'
        PROVE  Located'
    <3>1. k > 0 => h = <<>>
      BY <1>3, <2>1, <2>3, ReaderOf
    <3>2. /\ Track(Ahead', m, ServerMark) /\ Left(Ahead') = Rest - k
          /\ k < Rest => (Ahead')[1].of = Ahead[1].of
      BY ONLY TInv, m \in Mark, k \in 0..Len(in.buff), <1>8, <2>1, <2>3, <3>1, PassedOver
    <3>3. InStep'
      <4>1. Rest' = Left(Ahead)'
        BY <2>3, <3>2
      <4>2. Undelivered' > 0 => Undelivered > 0
        BY <2>3, ReaderOf
      <4>3. Undelivered' > 0 => /\ in'.paddingLen = (Ahead')[1].of.pad
                                /\ Undelivered' <= (Ahead')[1].of.len
        <5> SUFFICES ASSUME Undelivered' > 0
                     PROVE  /\ in'.paddingLen = (Ahead')[1].of.pad
                            /\ Undelivered' <= (Ahead')[1].of.len
          OBVIOUS
        <5>0. k < Rest /\ Undelivered' # 0
          BY <2>3
        <5>1. (Ahead')[1].of = Ahead[1].of /\ in'.paddingLen = in.paddingLen
          BY ONLY <2>3, <3>2, <5>0
        <5>2. in.paddingLen = Ahead[1].of.pad /\ Undelivered <= Ahead[1].of.len
          BY <2>1, <4>2 DEF InStep
        <5>3. Ahead[1].of.len \in Nat
          <6>1. Left(Ahead) # 0
            BY <2>1, <4>2, ReaderOf DEF InStep, Rest
          <6>2. Ahead # <<>>
            BY <6>1 DEF Left
          <6>3. Ahead \in Seq(Sound) /\ Len(Ahead) >= 1
            BY <6>2, ReaderOf, EmptySeq
          <6>4. Ahead[1] \in Sound
            BY <6>3, ElementOfSeq
          <6> QED BY <6>4, CellOf
        <5> DEFINE u == Undelivered'
                   v == Undelivered
                   l == Ahead[1].of.len
        <5>4. u \in Nat /\ v \in Nat /\ l \in Nat /\ u <= v /\ v <= l
          BY <2>3, <5>2, <5>3, ReaderOf
        <5> HIDE DEF u, v, l
        <5>5. u <= l
          BY ONLY <5>4
        <5> QED BY <5>1, <5>2, <5>5 DEF u, l
      <4> QED BY <4>1, <4>3 DEF InStep
    <3>5. Placed(m)'
      BY <1>1, <1>3, <1>8, <2>3, <3>3, PlacedOver
    <3>6. Track(Ahead', m, ServerMark')
      BY <2>2, <3>2
    <3> QED BY <3>5, <3>6 DEF Located
  <2>4. CASE c.contentLen > 0 /\ in' = c /\ UNCHANGED <<pc, header>>
    <3>1. in.contentLen > 0 /\ in.skip /\ Unseen /\ header = <<>>
      BY <1>1, <1>3, <1>4, <2>1, <2>4
    <3>2. (Unseen' <=> Unseen) /\ c.skip /\ ~in.isClosed
      <4>1. a < in.contentLen
        BY <1>3, <1>4, <2>4
      <4>2. c.skip
        BY <1>4, <3>1, <4>1
      <4>3. in'.eorStop = in.eorStop /\ pc' = "fill"
        BY <1>1, <1>4, <2>4
      <4>4. Unseen' <=> Unseen
        BY <1>1, <4>3 DEF Unseen
      <4>5. ~in.isClosed
        BY <1>1, <2>1 DEF Steady
      <4> QED BY <4>2, <4>4, <4>5
    <3>3. Ahead' = h \o (Drop(in.buff, a) \o wire)
      BY <1>1, <1>4, <2>4, <3>2 DEF Ahead
    <3>4. /\ Undelivered' = in.contentLen - a
          /\ Rest' = (in.contentLen - a) + in.paddingLen
      BY <1>3, <1>4, <2>4 DEF Undelivered, Rest, Stream
    <3>5. /\ Rest' = Rest - a /\ a <= Rest /\ a < Rest
          /\ Undelivered' \in Nat /\ Undelivered' <= Undelivered
      <4> DEFINE x == in.contentLen
                 y == in.paddingLen
      <4>1. x \in Nat /\ y \in Nat /\ a \in Nat /\ x - a > 0 /\ Rest = x + y
            /\ Undelivered = x /\ Undelivered' = x - a /\ Rest' = (x - a) + y
        BY <1>3, <1>4, <2>4, <3>4
      <4> HIDE DEF x, y
      <4> QED BY ONLY <4>1
    <3>6. Steady'
      BY <1>1, <1>3, <1>4, <2>4, <3>1, <3>2 DEF Steady
    <3> QED BY <1>1, <1>4, <2>3, <2>4, <3>2, <3>3, <3>5, <3>6
  <2>5. ASSUME c.contentLen = 0
        PROVE  /\ a = in.contentLen /\ past.contentLen = 0 /\ past.stop = 0
               /\ past.skip = FALSE /\ past.eorStop = in.eorStop
               /\ past.type = in.type /\ past.isClosed = FALSE
               /\ past.paddingLen = in.paddingLen - b /\ b <= in.paddingLen
               /\ Rest - (a + b) = past.paddingLen /\ a + b <= Rest
    <3>1. a = in.contentLen /\ a \in Nat /\ b \in Nat
      BY <1>3, <1>4, <1>5, <2>5
    <3>2. ~in.isClosed
      BY <1>1, <2>1 DEF Steady
    <3>3. c.skip = FALSE
      <4>1. ~(a < in.contentLen) /\ (in.skip => in.contentLen # 0)
        BY <1>3, <2>1, <3>1
      <4> QED BY <1>4, <4>1
    <3> QED BY <1>3, <1>4, <1>5, <2>5, <3>1, <3>2, <3>3
  <2>6. ASSUME c.contentLen = 0, in'.contentLen = 0, in'.stop = 0,
               in'.paddingLen = past.paddingLen, in'.type = in.type,
               in'.skip = FALSE, (Unseen' <=> Unseen), ~Unseen => header' = header,
               Ahead' = h \o (Drop(in.buff, a + b) \o wire),
               pc' \in {"fill", "header", "nested"}, Steady'
        PROVE  Located'
    <3>1. Undelivered' = 0 /\ Rest' = past.paddingLen
      BY <1>3, <1>5, <2>6 DEF Undelivered, Rest, Stream
    <3>2. in.paddingLen = 0 => in'.paddingLen = 0
      BY <1>3, <1>5, <2>5, <2>6
    <3>3. /\ Undelivered' \in Nat /\ ~(Undelivered' > 0) /\ Undelivered' <= Undelivered
          /\ Rest' = Rest - (a + b)
      BY <1>3, <2>5, <2>6, <3>1
    <3> QED BY <1>7, <2>3, <2>5, <2>6, <3>1, <3>2, <3>3
  <2>7. CASE c.contentLen = 0 /\ in' = past /\ UNCHANGED <<pc, header>>
             /\ past.paddingLen > 0
    <3>1. Unseen' <=> Unseen
      BY <1>1, <1>3, <2>5, <2>7 DEF Unseen
    <3>2. Ahead' = h \o (Drop(in.buff, a + b) \o wire)
      BY <1>1, <1>7, <2>7, <3>1 DEF Ahead
    <3>3. Unseen => header = <<>>
      <4>1. Rest # 0
        BY <1>3, <1>5, <2>5, <2>7
      <4> QED BY <2>1, <4>1
    <3>4. Steady'
      <4>1. ~Unseen => Current' = Current
        BY <2>7 DEF Current
      <4> QED BY <1>1, <2>1, <2>5, <2>7, <3>1, <3>3, <4>1 DEF Steady
    <3> QED BY <1>1, <2>5, <2>6, <2>7, <3>1, <3>2, <3>4
  <2>8. CASE /\ c.contentLen = 0 /\ past.paddingLen = 0 /\ in.eorStop
             /\ in' = [past EXCEPT !.stop = 0, !.isClosed = TRUE]
             /\ pc' = "nested" /\ UNCHANGED header
    <3>1. /\ in'.contentLen = past.contentLen /\ in'.stop = 0 /\ in'.buff = past.buff
          /\ in'.paddingLen = past.paddingLen /\ in'.skip = past.skip
          /\ in'.type = past.type /\ in'.eorStop = past.eorStop
      BY <1>5, <2>8 DEF Stream
    <3>2. ~Unseen /\ (Unseen' <=> Unseen)
      BY <1>3, <2>5, <2>8, <3>1 DEF Unseen
    <3>3. Ahead' = h \o (Drop(in.buff, a + b) \o wire)
      BY <1>1, <1>7, <2>8, <3>1, <3>2 DEF Ahead
    <3>4. Rest' = 0
      BY <2>5, <2>8, <3>1 DEF Rest, Undelivered
    <3>5. Steady'
      <4>1. Current' = Current
        BY <2>8 DEF Current
      <4> QED BY <2>1, <2>5, <2>8, <3>1, <3>2, <3>4, <4>1 DEF Steady
    <3> QED BY <2>5, <2>6, <2>8, <3>1, <3>2, <3>3, <3>5
  <2>9. CASE /\ c.contentLen = 0 /\ past.paddingLen = 0 /\ ~in.eorStop
             /\ header' = header \o First(past.buff, n)
             /\ IF Len(header') < HeaderLen
                  THEN in' = next /\ UNCHANGED pc
                  ELSE in' = [next EXCEPT !.eorStop = TRUE] /\ pc' = "header"
    <3>1. n \in 0..Len(past.buff)
      <4>1. Len(header) \in Nat /\ Len(header) < HeaderLen /\ HeaderLen \in Nat
        BY <2>9, LengthsAssumption, <1>3 DEF TInv, InPlace
      <4>2. HeaderLen - Len(header) \in Nat /\ Len(past.buff) \in Nat
        BY <1>6, <4>1
      <4>3. n \in Nat /\ n <= Len(past.buff)
        BY <4>2, LeastOf, Zenon
      <4> HIDE DEF n
      <4> QED BY <4>2, <4>3
    <3> DEFINE rest == Drop(past.buff, n)
               part == First(past.buff, n)
    <3>2. part \in Seq(Sound) /\ rest \in Seq(Sound) /\ part \o rest = past.buff
      BY <1>6, <3>1, FirstOf, DropOf, FirstDrop, Zenon
    <3> HIDE DEF rest, part
    <3>3. header' = header \o part /\ next = [past EXCEPT !.buff = rest, !.stop = 0]
      BY <2>9 DEF rest, part
    <3> HIDE DEF next
    <3>4. /\ in'.contentLen = past.contentLen /\ in'.stop = 0 /\ in'.buff = rest
          /\ in'.paddingLen = past.paddingLen /\ in'.skip = past.skip
          /\ in'.type = past.type /\ in'.isClosed = past.isClosed
          /\ \/ in'.eorStop = past.eorStop /\ pc' = pc
             \/ in'.eorStop /\ pc' = "header"
      <4>1. /\ next \in Stream /\ next.contentLen = past.contentLen /\ next.stop = 0
            /\ next.buff = rest /\ next.paddingLen = past.paddingLen
            /\ next.skip = past.skip /\ next.type = past.type
            /\ next.isClosed = past.isClosed /\ next.eorStop = past.eorStop
        BY <1>5, <3>2, <3>3 DEF Stream
      <4>2. \/ in' = next /\ pc' = pc
            \/ in' = [next EXCEPT !.eorStop = TRUE] /\ pc' = "header"
        BY <2>9
      <4> QED BY <4>1, <4>2 DEF Stream
    <3>5. Unseen /\ Unseen' /\ pc' \in {"fill", "header"}
      BY <1>1, <1>3, <2>5, <2>9, <3>4 DEF Unseen
    <3>6. Ahead' = h \o (Drop(in.buff, a + b) \o wire)
      <4>1. Ahead' = (header \o part) \o (rest \o wire)
        BY <1>1, <3>3, <3>4, <3>5 DEF Ahead
      <4>2. (header \o part) \o (rest \o wire) = header \o (part \o (rest \o wire))
        <5>1. rest \o wire \in Seq(Sound)
          BY <1>3, <3>2, ConcatProperties
        <5>2. header \in Seq(Sound) /\ part \in Seq(Sound)
          BY <1>3, <3>2
        <5> QED BY ONLY <5>1, <5>2, JoinCells, Zenon
      <4>3. part \o (rest \o wire) = (part \o rest) \o wire
        <5>1. part \in Seq(Sound) /\ rest \in Seq(Sound) /\ wire \in Seq(Sound)
          BY <1>3, <3>2
        <5> QED BY ONLY <5>1, JoinCells, Zenon
      <4> QED BY <1>7, <3>2, <3>5, <4>1, <4>2, <4>3
    <3>7. Rest' = 0
      BY <2>5, <2>9, <3>4 DEF Rest, Undelivered
    <3>8. Steady'
      BY <2>5, <2>9, <3>4, <3>5, <3>7 DEF Steady
    <3> QED BY <2>5, <2>6, <2>9, <3>4, <3>5, <3>6, <3>8
  <2> QED BY <1>2, <2>4, <2>7, <2>8, <2>9
<1>9. ~Outside' /\ in'.FCGI_errno = in.FCGI_errno
  <2>1. pc' \in {"fill", "header", "nested"}
    BY <1>1, <1>2
  <2>2. /\ c.FCGI_errno = in.FCGI_errno /\ past.FCGI_errno = in.FCGI_errno
        /\ [past EXCEPT !.stop = 0, !.isClosed = TRUE].FCGI_errno = in.FCGI_errno
        /\ next.FCGI_errno = in.FCGI_errno
        /\ [next EXCEPT !.eorStop = TRUE].FCGI_errno = in.FCGI_errno
    <3> DEFINE d == Drop(past.buff, n)
    <3>1. \A x : [past EXCEPT !.buff = x, !.stop = 0].FCGI_errno = past.FCGI_errno
                 /\ [[past EXCEPT !.buff = x, !.stop = 0] EXCEPT !.eorStop = TRUE].FCGI_errno
                      = past.FCGI_errno
      BY <1>5 DEF Stream
    <3> QED BY <1>4, <1>5, <3>1 DEF Stream
  <2> HIDE DEF next
  <2> QED BY <1>2, <2>1, <2>2 DEF Outside
<1>10. caller # "serve" => ~(pc \in {caller, "nested"} /\ in.stop = 0)
  BY <1>1, InsideOf
<1> QED BY <1>1, <1>3, <1>8, <1>9, <1>10, ReadingStep

-----------------------------------------------------------------------------
(* A header.                                                               *)

\* The header that was read is that of the next record of the queue.
LEMMA HeaderTaken ==
  ASSUME TInv, pc = "header", IsHeader(header), NEW m \in Mark,
         Track(Ahead, m, ServerMark), NEW r, r = Current,
         NEW q, q = in.buff \o wire
  PROVE  /\ Allowed(m, r) /\ After(m, r) \in Mark /\ Track(q, After(m, r), ServerMark)
         /\ Left(q) = r.len + r.pad /\ r.len \in Nat /\ r.pad \in Nat
         /\ r.len + r.pad > 0 => q[1].of = r
<1>1. /\ header \in Seq(Sound) /\ Len(header) = HeaderLen /\ Unseen
      /\ Ahead = header \o q /\ q \in Seq(Sound) /\ Ahead \in Seq(Sound)
      /\ ServerMark \in Mark /\ HeaderLen \in Nat /\ HeaderLen >= 1
  <2>1. Unseen /\ Len(header) = HeaderLen
    BY InsideOf
  <2>2. Ahead = header \o q
    BY <2>1 DEF Ahead
  <2>3. HeaderLen \in Nat /\ HeaderLen >= 1
    BY LengthsAssumption
  <2>4. /\ header \in Seq(Sound) /\ in.buff \o wire \in Seq(Sound)
        /\ Ahead \in Seq(Sound) /\ ServerMark \in Mark
    BY ReaderOf
  <2> QED BY <2>1, <2>2, <2>3, <2>4
<1>2. 1 \in 1..Len(header)
  BY <1>1
<1>3. Ahead[1] = header[1] /\ Len(Ahead) >= 1
  <2>1. header \in Seq(Sound) /\ q \in Seq(Sound)
    BY <1>1
  <2>2. (header \o q)[1] = header[1] /\ Len(header \o q) = Len(header) + Len(q)
    BY ONLY <1>2, <2>1, BothOf
  <2>3. Len(q) \in Nat
    BY <2>1
  <2> QED BY <1>1, <2>2, <2>3
<1>4. Ahead # <<>> /\ Ahead[1].at = 1 /\ r = Ahead[1].of
  BY <1>3, EmptySeq DEF IsHeader, Current
<1>5. /\ Allowed(m, r) /\ After(m, r) \in Mark
      /\ Track(Drop(Ahead, HeaderLen), After(m, r), ServerMark)
      /\ Left(Drop(Ahead, HeaderLen)) = r.len + r.pad
      /\ r.len + r.pad > 0 => Drop(Ahead, HeaderLen)[1].of = r
  BY <1>1, <1>4, TrackHeader
<1>6. Drop(Ahead, HeaderLen) = q
  <2>1. Drop(header \o q, Len(header)) = q
    BY ONLY <1>1, DropFirst
  <2> QED BY <1>1, <2>1
<1>7. r.len \in Nat /\ r.pad \in Nat
  BY CurrentIsSound
<1> QED BY <1>5, <1>6, <1>7

\* What ProcessHeader announces, to be passed over or not.
LEMMA AnnouncedOf ==
  ASSUME TInv, pc = "header",
         NEW s \in {Announced, [Announced EXCEPT !.skip = TRUE]}
  PROVE  /\ s \in Stream /\ s.buff = in.buff
         /\ s.contentLen = Current.len /\ s.paddingLen = Current.pad
         /\ s.stop = 0 /\ s.type = in.type /\ s.eorStop /\ s.isClosed = in.isClosed
         /\ s.FCGI_errno = in.FCGI_errno
         /\ s = Announced => s.skip = in.skip
         /\ s = [Announced EXCEPT !.skip = TRUE] => s.skip
<1> DEFINE len == Current.len
           pad == Current.pad
           t == [in EXCEPT !.contentLen = len, !.paddingLen = pad]
           u == [t EXCEPT !.skip = TRUE]
<1>1. len \in Nat /\ pad \in Nat
  BY CurrentIsSound
<1> HIDE DEF len, pad
<1>2. in \in Stream /\ in.eorStop /\ in.stop = 0
  BY DEF TInv, InPlace, Typed, Readable
<1>3. /\ t \in Stream /\ t.buff = in.buff /\ t.contentLen = len /\ t.paddingLen = pad
      /\ t.stop = 0 /\ t.type = in.type /\ t.skip = in.skip /\ t.eorStop
      /\ t.isClosed = in.isClosed /\ t.FCGI_errno = in.FCGI_errno
  BY <1>1, <1>2 DEF Stream
<1>4. Announced = t
  BY DEF Announced, t, len, pad
<1> HIDE DEF t
<1>5. /\ u \in Stream /\ u.buff = in.buff /\ u.contentLen = len /\ u.paddingLen = pad
      /\ u.stop = 0 /\ u.type = in.type /\ u.skip /\ u.eorStop
      /\ u.isClosed = in.isClosed /\ u.FCGI_errno = in.FCGI_errno
  BY <1>3 DEF Stream
<1>6. s = t \/ s = u
  BY <1>4
<1> HIDE DEF u
<1>7. CASE s = t
  <2>1. t = u => t.skip
    BY <1>5
  <2> QED BY <1>3, <1>4, <1>7, <2>1 DEF len, pad, u
<1>8. CASE s = u
  <2>1. u = t => u.skip = in.skip
    BY <1>3
  <2> QED BY <1>4, <1>5, <1>8, <2>1 DEF len, pad, u
<1> QED BY <1>6, <1>7, <1>8

\* The loop of FillBuffProc goes on.
LEMMA GoesOnOf ==
  ASSUME NEW s \in Stream, GoesOn(s)
  PROVE  /\ in'.buff = s.buff /\ in'.contentLen = s.contentLen
         /\ in'.paddingLen = s.paddingLen /\ in'.stop = s.stop /\ in'.type = s.type
         /\ in'.skip = s.skip /\ ~in'.eorStop /\ ~in'.isClosed
         /\ in'.FCGI_errno = s.FCGI_errno /\ pc' = "fill" /\ header' = <<>>
  BY DEF GoesOn, Back, Stream

\* The loop goes on with a record: the reader is in step with it.
LEMMA RecordOf ==
  ASSUME TInv, pc = "header", IsHeader(header), NEW m \in Mark,
         Track(Ahead, m, ServerMark), Steady, NEW r, r = Current,
         NEW s \in {Announced, [Announced EXCEPT !.skip = TRUE]}, GoesOn(s),
         s # Announced => r.len > 0, UNCHANGED <<wire, server>>
  PROVE  /\ Allowed(m, r) /\ After(m, r) \in Mark /\ r.len \in Nat /\ r.pad \in Nat
         /\ Track(Ahead', After(m, r), ServerMark') /\ Steady' /\ InStep' /\ Unseen'
         /\ Undelivered' = r.len /\ Rest' = r.len + r.pad /\ pc' = "fill"
         /\ in'.type = in.type /\ in'.FCGI_errno = in.FCGI_errno
         /\ s # Announced => in'.skip
         /\ s = Announced => ~in'.skip
         /\ r.len > 0 => (Ahead')[1].of = r
<1> DEFINE q == in.buff \o wire
<1>1. /\ Allowed(m, r) /\ After(m, r) \in Mark /\ Track(q, After(m, r), ServerMark)
      /\ Left(q) = r.len + r.pad /\ r.len \in Nat /\ r.pad \in Nat
      /\ r.len + r.pad > 0 => q[1].of = r
  BY HeaderTaken
<1>2. /\ s \in Stream /\ s.buff = in.buff /\ s.contentLen = r.len
      /\ s.paddingLen = r.pad /\ s.stop = 0 /\ s.type = in.type
      /\ s.FCGI_errno = in.FCGI_errno
      /\ s = Announced => s.skip = in.skip
      /\ s = [Announced EXCEPT !.skip = TRUE] => s.skip
  BY AnnouncedOf
<1>3. /\ in'.buff = in.buff /\ in'.contentLen = r.len
      /\ in'.paddingLen = r.pad /\ in'.stop = 0 /\ in'.type = in.type
      /\ in'.skip = s.skip /\ ~in'.eorStop /\ ~in'.isClosed
      /\ in'.FCGI_errno = in.FCGI_errno /\ pc' = "fill" /\ header' = <<>>
  BY <1>2, GoesOnOf
<1>4. Unseen' /\ Ahead' = q
  <2>1. Unseen'
    BY <1>3 DEF Unseen
  <2>2. Ahead' = <<>> \o q
    BY <1>3, <2>1 DEF Ahead
  <2>3. <<>> \o q = q
    BY ReaderOf, ConcatEmptySeq
  <2> QED BY <2>1, <2>2, <2>3
<1> HIDE DEF q
<1>5. Undelivered' = r.len /\ Rest' = r.len + r.pad
  BY <1>1, <1>3 DEF Undelivered, Rest
<1>6. ~in.skip
  <2>1. Unseen
    BY InsideOf
  <2>2. Rest = 0
    BY <2>1 DEF Steady
  <2>3. in.contentLen = 0
    BY <2>2, ReaderOf DEF Rest, Undelivered
  <2> QED BY <2>3 DEF Steady
<1>7. Steady'
  <2>1. in'.skip => r.len > 0
    BY <1>2, <1>3, <1>6
  <2> QED BY <1>3, <1>4, <2>1 DEF Steady
<1>8. InStep'
  <2>1. r.len > 0 => r.len + r.pad > 0
    BY <1>1
  <2>2. r.len <= r.len
    BY <1>1
  <2>3. Undelivered' > 0 => in'.paddingLen = (Ahead')[1].of.pad
                            /\ Undelivered' <= (Ahead')[1].of.len
    BY <1>1, <1>3, <1>4, <1>5, <2>1, <2>2
  <2>4. Rest' = Left(Ahead')
    BY <1>1, <1>4, <1>5
  <2> QED BY <2>3, <2>4 DEF InStep
<1>9. ServerMark' = ServerMark
  BY DEF ServerMark
<1>10. /\ s # Announced => in'.skip
       /\ s = Announced => ~in'.skip
       /\ r.len > 0 => (Ahead')[1].of = r
  <2>1. r.len > 0 => r.len + r.pad > 0
    BY <1>1
  <2> QED BY <1>1, <1>2, <1>3, <1>4, <1>6, <2>1
<1> QED BY <1>1, <1>3, <1>4, <1>5, <1>7, <1>8, <1>9, <1>10

\* While a header is processed, nothing is left of the record before.
LEMMA PlacedHeader ==
  ASSUME TInv, NEW m \in Mark, Placed(m), pc = "header"
  PROVE  /\ Steady /\ Undelivered = 0 /\ Rest = 0 /\ Unseen /\ ~Outside /\ ~in.skip
         /\ InStep
         /\ caller = "begun" => Beginning(m) /\ Waits(m) /\ in.type = "NONE"
         /\ caller = "params" => /\ m.phase = "PARAMS" /\ in.type = "PARAMS"
                                 /\ m.done <= Len(ParamBytes)
                                 /\ env = First(ParamBytes, m.done)
         /\ caller = "serve" => /\ m.phase = "STDIN" /\ in.type = "STDIN"
                                /\ m.done <= Len(BodyBytes) /\ env = ParamBytes
                                /\ body = First(BodyBytes, m.done)
<1>1. ~Outside /\ Unseen /\ caller \in {"begun", "params", "serve"}
  BY InsideOf DEF Outside
<1>2. caller = "begun" => Beginning(m)
  BY <1>1 DEF Placed
<1>3. caller = "params" => Flowing(m, "PARAMS", env)
  BY <1>1 DEF Placed
<1>4. caller = "serve" => Flowing(m, "STDIN", body) /\ env = ParamBytes
  BY <1>1 DEF Placed
<1>5. Steady /\ InStep
  BY <1>1, <1>2, <1>3, <1>4 DEF Beginning, Flowing
<1>6. Rest = 0 /\ Undelivered = 0 /\ ~in.skip
  <2>1. Rest = 0
    BY <1>1, <1>5 DEF Steady
  <2>2. Undelivered = 0
    BY <2>1, ReaderOf DEF Rest
  <2>3. in.contentLen = 0
    BY <2>2, ReaderOf DEF Undelivered
  <2> QED BY <1>5, <2>1, <2>2, <2>3 DEF Steady
<1>7. ASSUME NEW type, NEW taken, Flowing(m, type, taken)
      PROVE  /\ m.phase = type /\ in.type = type /\ m.done <= Len(Bytes(type))
             /\ taken = First(Bytes(type), m.done)
  <2> DEFINE content == IF in.skip \/ ~Unseen THEN 0 ELSE Undelivered
  <2>1. content = 0
    BY <1>6
  <2>2. /\ m.phase = type /\ in.type = type /\ m.done <= Len(Bytes(type))
        /\ taken = First(Bytes(type), m.done - content)
    BY <1>7 DEF Flowing
  <2> HIDE DEF content
  <2>3. m.done - content = m.done
    BY <2>1 DEF Mark
  <2> QED BY <2>2, <2>3
<1> QED BY <1>1, <1>2, <1>3, <1>4, <1>5, <1>6, <1>7 DEF Beginning, Bytes

\* The header of a record that is not of the stream: what follows is passed over.
LEMMA OtherRecord ==
  ASSUME TInv, pc = "header", IsHeader(header), NEW m \in Mark,
         Track(Ahead, m, ServerMark), Placed(m),
         NEW s \in {Announced, [Announced EXCEPT !.skip = TRUE]}, GoesOn(s),
         IF s = Announced THEN Current.len = 0 ELSE Current.len > 0,
         After(m, Current) = m,
         UNCHANGED <<wire, server, caller, request, env, body>>
  PROVE  Located'
<1>1. /\ Steady /\ Undelivered = 0 /\ Rest = 0 /\ Unseen /\ ~Outside
      /\ caller = "begun" => Beginning(m) /\ Waits(m) /\ in.type = "NONE"
      /\ caller = "params" => /\ m.phase = "PARAMS" /\ in.type = "PARAMS"
                              /\ m.done <= Len(ParamBytes)
                              /\ env = First(ParamBytes, m.done)
      /\ caller = "serve" => /\ m.phase = "STDIN" /\ in.type = "STDIN"
                             /\ m.done <= Len(BodyBytes) /\ env = ParamBytes
                             /\ body = First(BodyBytes, m.done)
  BY PlacedHeader
<1>2. /\ Track(Ahead', m, ServerMark') /\ Steady' /\ InStep' /\ Unseen'
      /\ Undelivered' = Current.len /\ pc' = "fill" /\ in'.type = in.type
      /\ s # Announced => in'.skip
  BY <1>1, RecordOf
<1>3. Undelivered' = 0 \/ in'.skip
  BY <1>2
<1>4. caller \in {"begun", "params", "serve"} /\ m.done \in Nat
  BY InsideOf DEF Mark
<1>5. caller = "begun" => Beginning(m)'
  BY <1>1, <1>2, <1>3 DEF Beginning, Waits
<1>6. ASSUME NEW type, NEW taken, m.phase = type, in.type = type,
             m.done <= Len(Bytes(type)), taken = First(Bytes(type), m.done)
      PROVE  /\ Steady' /\ InStep' /\ in'.type = type /\ m.phase = type
             /\ LET content == IF in'.skip \/ ~Unseen' THEN 0 ELSE Undelivered'
                IN  /\ content <= m.done /\ m.done <= Len(Bytes(type))
                    /\ taken = First(Bytes(type), m.done - content)
                    /\ content > 0 => /\ (Ahead')[1].of.type = type
                                      /\ (Ahead')[1].of.from + (Ahead')[1].of.len = m.done
  <2> DEFINE content == IF in'.skip \/ ~Unseen' THEN 0 ELSE Undelivered'
  <2>1. content = 0
    BY <1>2, <1>3
  <2> HIDE DEF content
  <2>2. content <= m.done /\ m.done - content = m.done /\ ~(content > 0)
    BY <1>4, <2>1
  <2>3. /\ content <= m.done /\ m.done <= Len(Bytes(type))
        /\ taken = First(Bytes(type), m.done - content)
        /\ ~(content > 0)
    BY <1>6, <2>2
  <2> QED BY <1>2, <1>6, <2>3 DEF content
<1>7. caller = "params" => Flowing(m, "PARAMS", env)'
  <2> SUFFICES ASSUME caller = "params" PROVE Flowing(m, "PARAMS", env)'
    OBVIOUS
  <2>1. /\ m.phase = "PARAMS" /\ in.type = "PARAMS"
        /\ m.done <= Len(Bytes("PARAMS")) /\ env = First(Bytes("PARAMS"), m.done)
    BY <1>1 DEF Bytes
  <2> QED BY <1>6, <2>1 DEF Flowing
<1>8. caller = "serve" => Flowing(m, "STDIN", body)' /\ env' = ParamBytes
  <2> SUFFICES ASSUME caller = "serve"
               PROVE  Flowing(m, "STDIN", body)' /\ env' = ParamBytes
    OBVIOUS
  <2>1. /\ m.phase = "STDIN" /\ in.type = "STDIN"
        /\ m.done <= Len(Bytes("STDIN")) /\ body = First(Bytes("STDIN"), m.done)
    BY <1>1 DEF Bytes
  <2>2. env' = ParamBytes
    BY <1>1
  <2> QED BY <1>6, <2>1, <2>2 DEF Flowing
<1>9. Placed(m)'
  BY <1>2, <1>5, <1>7, <1>8 DEF Placed, Outside
<1> QED BY <1>2, <1>9 DEF Located

\* An error ends the stream.
LEMMA EndsInErrorReads ==
  ASSUME TInv, Standing, Reading, NEW s \in Stream, s.stop = 0, EndsInError(s),
         pc \in {"header", "nested"}, UNCHANGED <<caller, request, env, body, server>>
  PROVE  Reading'
<1>1. in'.FCGI_errno /\ in'.stop = 0 /\ pc' = caller
  BY DEF EndsInError, SetError, Back, Stream
<1> QED BY <1>1, ErrorReads

\* A header with the errors of the protocol.
LEMMA ProtocolErrorReads ==
  ASSUME TInv, Standing, Reading, ProtocolError
  PROVE  Reading'
<1>1. pc = "header" /\ UNCHANGED <<caller, request, env, body, server>>
  BY DEF ProtocolError
<1>2. EndsInError(in) \/ EndsInError(Announced)
  BY DEF ProtocolError
<1>3. in \in Stream /\ in.stop = 0 /\ Announced \in Stream /\ Announced.stop = 0
  <2>1. Announced \in {Announced, [Announced EXCEPT !.skip = TRUE]}
    OBVIOUS
  <2>2. Announced \in Stream /\ Announced.stop = 0
    BY <1>1, <2>1, AnnouncedOf
  <2> QED BY <1>1, <2>2, ReaderOf, InsideOf
<1> QED BY <1>1, <1>2, <1>3, EndsInErrorReads

\* Bytes that are no header's are taken for one only where the library has lost its
\* place, or the stream has an error already.
LEMMA MisreadReads ==
  ASSUME TInv, Standing, Reading, Misread
  PROVE  Reading'
<1>1. /\ pc = "header" /\ ~IsHeader(header) /\ UNCHANGED <<pc, caller, request, in, env, body>>
      /\ ServerOK
      /\ server' = [server EXCEPT !.forged = TRUE,
                                  !.odd = IF server.forged THEN @ ELSE @ + 1]
  BY DEF Misread, TInv, Typed
<1>2. server'.unsafe = server.unsafe /\ server'.phase = server.phase
  BY <1>1 DEF ServerOK
<1>3. ~Outside /\ ~Outside' /\ Lost' = Lost
  BY <1>1 DEF Outside, Lost
<1>4. caller' # "serve" \/ Outside' => body' = <<>>
  BY <1>1, <1>3 DEF Reading
<1>5. ASSUME ~server.unsafe PROVE Lost /\ Broken
  <2> SUFFICES ASSUME ~Lost PROVE FALSE
    BY <1>5 DEF Reading
  <2>1. PICK m \in Mark : Track(Ahead, m, ServerMark) /\ Placed(m)
    BY <1>5 DEF Reading, Located
  <2>2. Rest = 0 /\ InStep /\ Unseen
    BY <1>1, <2>1, PlacedHeader
  <2>3. Left(Ahead) = 0
    BY <2>2 DEF InStep
  <2> DEFINE q == in.buff \o wire
  <2>4. /\ header \in Seq(Sound) /\ q \in Seq(Sound) /\ Ahead \in Seq(Sound)
        /\ Ahead = header \o q /\ ServerMark \in Mark
    BY <2>2, ReaderOf DEF Ahead
  <2>5. Len(header) = HeaderLen
    BY <1>1, InsideOf
  <2>6. 1 \in 1..Len(header)
    BY <2>5, LengthsAssumption
  <2> HIDE DEF q
  <2>7. Ahead[1] = header[1] /\ Ahead # <<>>
    <3>1. (header \o q)[1] = header[1] /\ Len(header \o q) = Len(header) + Len(q)
      BY ONLY <2>4, <2>6, BothOf
    <3>2. Len(q) \in Nat /\ Len(header) \in Nat
      BY <2>4
    <3> QED BY <2>4, <2>6, <3>1, <3>2, EmptySeq
  <2>8. Ahead[1].at # 1
    BY <1>1, <2>7 DEF IsHeader
  <2>9. Ahead[1].at <= Size(Ahead[1].of)
    <3>1. PICK marks : Follows(Ahead, marks)
      BY <2>1 DEF Track
    <3>2. 1 \in 1..Len(Ahead)
      BY <2>4, <2>7, EmptySeq
    <3> QED BY <3>1, <3>2 DEF Follows
  <2>10. Ahead[1] \in Sound
    BY <2>4, <2>7, EmptySeq, ElementOfSeq
  <2>11. Ahead[1].at \in Nat /\ Size(Ahead[1].of) \in Nat
    BY <2>10, CellOf
  <2> QED BY <2>3, <2>7, <2>8, <2>9, <2>11 DEF Left
<1>6. Broken => Broken'
  BY <1>1 DEF Broken
<1> QED BY <1>2, <1>3, <1>4, <1>5, <1>6 DEF Reading

\* A record of request 2, or a management record: the mark stays.
LEMMA AfterOther ==
  ASSUME NEW m, NEW r, r.id # 1 \/ r.type \notin {"BEGIN", "PARAMS", "STDIN"}
  PROVE  After(m, r) = m
  BY DEF After

\* The header in front of a step that gets past it without an error.
LEMMA GoingOn ==
  ASSUME TInv, Reading, pc = "header",
         NEW s \in {Announced, [Announced EXCEPT !.skip = TRUE]}, GoesOn(s),
         UNCHANGED <<caller, server, body>>,
         ASSUME NEW m \in Mark, Track(Ahead, m, ServerMark), Placed(m), Genuine
         PROVE  Located'
  PROVE  Reading'
<1>1. s \in Stream /\ s.FCGI_errno = in.FCGI_errno
  BY AnnouncedOf
<1>2. in'.FCGI_errno = in.FCGI_errno /\ pc' = "fill"
  BY <1>1, GoesOnOf
<1>3. ~Outside /\ ~Outside'
  BY <1>2 DEF Outside
<1>4. caller # "serve" => ~(pc \in {caller, "nested"} /\ in.stop = 0)
  BY InsideOf
<1> QED BY <1>2, <1>3, <1>4, ReadingStep

\* A second request is refused.
LEMMA MultiplexedReads ==
  ASSUME TInv, Standing, server.forged \/ Answering, Reading, Multiplexed
  PROVE  Reading'
<1> DEFINE s == [Announced EXCEPT !.skip = TRUE]
<1>1. /\ pc = "header" /\ IsHeader(header) /\ Current.type = "BEGIN" /\ Current.id # 0
      /\ Current.len = BeginLen /\ request.isBeginProcessed
      /\ UNCHANGED <<caller, request, env, body, wire, server>>
      /\ GoesOn(s) \/ EndsInError(Announced)
  BY DEF Multiplexed
<1>2. Announced \in Stream /\ Announced.stop = 0 /\ s.skip
      /\ Announced.skip = in.skip
  BY <1>1, AnnouncedOf
<1>3. CASE EndsInError(Announced)
  BY <1>1, <1>2, <1>3, EndsInErrorReads
<1>4. CASE GoesOn(s)
  <2>1. ASSUME NEW m \in Mark, Track(Ahead, m, ServerMark), Placed(m), Genuine
        PROVE  Located'
    <3>1. /\ Steady /\ Rest = 0 /\ ~Outside /\ ~in.skip
          /\ caller = "begun" => Waits(m)
      BY <1>1, <2>1, PlacedHeader
    <3>2. caller # "begun"
      BY <1>1, <3>1 DEF Waits
    <3>3. request.requestId = 1
      BY <1>1, <3>1, <3>2 DEF Standing, Outside
    <3>4. Current.id # 1
      <4>0. Answering
        BY <2>1, <3>1 DEF Genuine, Standing, Outside
      <4> SUFFICES ASSUME Current.id = 1 PROVE FALSE
        OBVIOUS
      <4>1. HasBegun
        BY <1>1, <3>3 DEF HasBegun
      <4>2. header \in Seq(Sound) /\ Len(header) = HeaderLen
        BY <1>1, ReaderOf, InsideOf
      <4>3. 1 \in DOMAIN header
        BY <4>2, LengthsAssumption
      <4>4. Opens(header[1])
        BY <1>1 DEF Opens, Current, IsHeader
      <4>5. Opening
        BY <4>3, <4>4 DEF Opening, Has
      <4> QED BY <4>0, <4>1, <4>5 DEF Answering
    <3>5. After(m, Current) = m
      BY <3>4, AfterOther
    <3>6. Current.len > 0
      BY <1>1, LengthsAssumption
    <3>7. s # Announced
      BY <1>2, <3>1
    <3> HIDE DEF s
    <3>8. s \in {Announced, [Announced EXCEPT !.skip = TRUE]}
      BY DEF s
    <3> QED BY <1>1, <1>4, <2>1, <3>5, <3>6, <3>7, <3>8, OtherRecord
  <2> QED BY <1>1, <1>4, <2>1, GoingOn
<1> QED BY <1>1, <1>3, <1>4

\* A management record that is not known.
LEMMA UnknownManagementReads ==
  ASSUME TInv, Standing, Reading, UnknownManagement
  PROVE  Reading'
<1>1. /\ pc = "header" /\ IsHeader(header) /\ Current.type = "UNKNOWN"
      /\ UNCHANGED <<caller, request, env, body, wire, server>>
      /\ GoesOn(Announced) \/ EndsInError(Announced)
  BY DEF UnknownManagement
<1>2. Announced \in Stream /\ Announced.stop = 0
  BY <1>1, AnnouncedOf
<1>3. CASE EndsInError(Announced)
  BY <1>1, <1>2, <1>3, EndsInErrorReads
<1>4. CASE GoesOn(Announced)
  <2>1. ASSUME NEW m \in Mark, Track(Ahead, m, ServerMark), Placed(m)
        PROVE  Located'
    <3>1. After(m, Current) = m
      BY <1>1, AfterOther
    <3>2. Allowed(m, Current)
      BY <1>1, <2>1, HeaderTaken
    <3>3. Current.len = 0
      BY <1>1, <3>2 DEF Allowed
    <3> QED BY <1>1, <1>4, <2>1, <3>1, <3>3, OtherRecord
  <2> QED BY <1>1, <1>4, <2>1, GoingOn
<1> QED BY <1>1, <1>3, <1>4

\* A record of another request.
LEMMA OtherRequestReads ==
  ASSUME TInv, Standing, Reading, OtherRequest
  PROVE  Reading'
<1> DEFINE s == [Announced EXCEPT !.skip = TRUE]
<1>1. /\ pc = "header" /\ IsHeader(header) /\ Current.type # "BEGIN"
      /\ Current.id \notin {0, request.requestId} /\ GoesOn(s)
      /\ UNCHANGED <<caller, request, env, body, wire, server>>
  BY DEF OtherRequest
<1>2. s.skip /\ Announced.skip = in.skip
  BY <1>1, AnnouncedOf
<1>3. ASSUME NEW m \in Mark, Track(Ahead, m, ServerMark), Placed(m)
      PROVE  Located'
  <2>1. /\ Steady /\ Rest = 0 /\ ~Outside /\ ~in.skip
        /\ caller = "begun" => Waits(m)
        /\ caller = "params" => m.phase = "PARAMS"
        /\ caller = "serve" => m.phase = "STDIN"
    BY <1>1, <1>3, PlacedHeader
  <2>2. Allowed(m, Current)
    BY <1>1, <1>3, HeaderTaken
  <2>3. m.phase # "begin" => request.requestId = 1
    <3>1. caller # "begun" => request.requestId = 1
      BY <2>1 DEF Standing, Outside
    <3> QED BY <2>1, <3>1 DEF Waits
  <2>4. Current.id = 2 /\ Current.len > 0
    BY <1>1, <2>2, <2>3 DEF Allowed
  <2>5. After(m, Current) = m
    BY <2>4, AfterOther
  <2>6. s # Announced
    BY <1>2, <2>1
  <2> HIDE DEF s
  <2>7. s \in {Announced, [Announced EXCEPT !.skip = TRUE]}
    BY DEF s
  <2> QED BY <1>1, <1>3, <2>4, <2>5, <2>6, <2>7, OtherRecord
<1> QED BY <1>1, <1>3, GoingOn

\* A stream flows on where nothing that is delivered is left.
LEMMA FlowsOn ==
  ASSUME NEW m \in Mark, NEW type, NEW taken, Steady', InStep', in'.type = type,
         m.phase = type, m.done <= Len(Bytes(type)), taken = First(Bytes(type), m.done),
         in'.skip \/ ~Unseen' \/ Undelivered' = 0
  PROVE  /\ Steady' /\ InStep' /\ in'.type = type /\ m.phase = type
         /\ LET content == IF in'.skip \/ ~Unseen' THEN 0 ELSE Undelivered'
            IN  /\ content <= m.done /\ m.done <= Len(Bytes(type))
                /\ taken = First(Bytes(type), m.done - content)
                /\ content > 0 => /\ (Ahead')[1].of.type = type
                                  /\ (Ahead')[1].of.from + (Ahead')[1].of.len = m.done
<1> DEFINE content == IF in'.skip \/ ~Unseen' THEN 0 ELSE Undelivered'
<1>1. content = 0
  OBVIOUS
<1> HIDE DEF content
<1>2. content <= m.done /\ m.done - content = m.done /\ ~(content > 0)
  BY <1>1 DEF Mark
<1>3. /\ content <= m.done /\ m.done <= Len(Bytes(type))
      /\ taken = First(Bytes(type), m.done - content)
      /\ ~(content > 0)
  BY <1>2
<1> QED BY <1>3 DEF content

\* The part of Placed that is the same for every such step.
LEMMA PlacedOn ==
  ASSUME TInv, NEW m \in Mark, ~Outside', pc' \in {"fill", "header", "nested"},
         Steady', InStep', in'.skip \/ ~Unseen' \/ Undelivered' = 0, in'.type = in.type,
         UNCHANGED <<caller, env, body>>,
         caller = "begun" => Beginning(m)',
         caller = "params" => /\ m.phase = "PARAMS" /\ in.type = "PARAMS"
                              /\ m.done <= Len(ParamBytes)
                              /\ env = First(ParamBytes, m.done),
         caller = "serve" => /\ m.phase = "STDIN" /\ in.type = "STDIN"
                             /\ m.done <= Len(BodyBytes) /\ env = ParamBytes
                             /\ body = First(BodyBytes, m.done)
  PROVE  Placed(m)'
<1>1. caller = "params" => Flowing(m, "PARAMS", env)'
  <2> SUFFICES ASSUME caller = "params" PROVE Flowing(m, "PARAMS", env)'
    OBVIOUS
  <2>1. /\ m.phase = "PARAMS" /\ in'.type = "PARAMS"
        /\ m.done <= Len(Bytes("PARAMS")) /\ env' = First(Bytes("PARAMS"), m.done)
    BY DEF Bytes
  <2> QED BY <2>1, FlowsOn DEF Flowing
<1>2. caller = "serve" => Flowing(m, "STDIN", body)' /\ env' = ParamBytes
  <2> SUFFICES ASSUME caller = "serve"
               PROVE  Flowing(m, "STDIN", body)' /\ env' = ParamBytes
    OBVIOUS
  <2>1. /\ m.phase = "STDIN" /\ in'.type = "STDIN"
        /\ m.done <= Len(Bytes("STDIN")) /\ body' = First(Bytes("STDIN"), m.done)
        /\ env' = ParamBytes
    BY DEF Bytes
  <2> QED BY <2>1, FlowsOn DEF Flowing
<1> QED BY <1>1, <1>2, InsideOf DEF Placed

-----------------------------------------------------------------------------
(* The content of a record that ProcessHeader reads itself.                *)

\* A nested read of the content begins.
LEMMA ProcessContentReads ==
  ASSUME TInv, Standing, Reading, ProcessContent
  PROVE  Reading'
<1> DEFINE r == Current
           q == in.buff \o wire
<1>1. /\ pc = "header" /\ IsHeader(header) /\ ReadsContent /\ in' = Announced
      /\ pc' = "fill" /\ UNCHANGED <<caller, header, env, body, wire, server>>
      /\ request' = IF r.type = "BEGIN"
                      THEN [request EXCEPT !.requestId = r.id] ELSE request
  BY DEF ProcessContent
<1>2. /\ in'.buff = in.buff /\ in'.contentLen = r.len /\ in'.paddingLen = r.pad
      /\ in'.stop = 0 /\ in'.type = in.type /\ in'.eorStop
      /\ in'.isClosed = in.isClosed /\ in'.FCGI_errno = in.FCGI_errno
      /\ in'.skip = in.skip
  <2>1. Announced \in {Announced, [Announced EXCEPT !.skip = TRUE]}
    OBVIOUS
  <2> QED BY <1>1, <2>1, AnnouncedOf
<1>3. ~Unseen' /\ Current' = r /\ ServerMark' = ServerMark /\ ~Outside /\ ~Outside'
  BY <1>1, <1>2 DEF Unseen, Current, ServerMark, Outside
<1>4. Ahead' = q
  <2>1. Ahead' = <<>> \o q
    BY <1>1, <1>2, <1>3 DEF Ahead
  <2>2. <<>> \o q = q
    BY ReaderOf, ConcatEmptySeq
  <2> QED BY <2>1, <2>2
<1>5. ASSUME NEW m \in Mark, Track(Ahead, m, ServerMark), Placed(m)
      PROVE  Located'
  <2>1. /\ Steady /\ Undelivered = 0 /\ Rest = 0 /\ Unseen /\ ~in.skip
        /\ caller = "begun" => Beginning(m) /\ Waits(m) /\ in.type = "NONE"
        /\ caller = "params" => /\ m.phase = "PARAMS" /\ in.type = "PARAMS"
                                /\ m.done <= Len(ParamBytes)
                                /\ env = First(ParamBytes, m.done)
        /\ caller = "serve" => /\ m.phase = "STDIN" /\ in.type = "STDIN"
                               /\ m.done <= Len(BodyBytes) /\ env = ParamBytes
                               /\ body = First(BodyBytes, m.done)
    BY <1>1, <1>5, PlacedHeader
  <2>2. PICK n \in Mark :
        /\ n = After(m, r) /\ Allowed(m, r) /\ Track(q, n, ServerMark)
        /\ Left(q) = r.len + r.pad /\ r.len \in Nat /\ r.pad \in Nat
        /\ r.len + r.pad > 0 => q[1].of = r
    BY <1>1, <1>5, HeaderTaken
  <2> HIDE DEF q
  <2>3. Undelivered' = r.len /\ Rest' = r.len + r.pad
    BY <1>2, <2>2 DEF Undelivered, Rest
  <2>4. InStep'
    <3>1. r.len > 0 => r.len + r.pad > 0
      BY <2>2
    <3>2. r.len <= r.len
      BY <2>2
    <3>3. Undelivered' > 0 => in'.paddingLen = (Ahead')[1].of.pad
                              /\ Undelivered' <= (Ahead')[1].of.len
      BY <1>2, <1>4, <2>2, <2>3, <3>1, <3>2
    <3> QED BY <1>4, <2>2, <2>3, <3>3 DEF InStep
  <2>5. Steady'
    <3>1. ~in'.isClosed
      BY <1>1, <1>2, <2>1 DEF Steady
    <3>2. r.type \in {"BEGIN", "GET_VALUES"}
      BY <1>1 DEF ReadsContent
    <3> QED BY <1>1, <1>2, <1>3, <2>1, <3>1, <3>2 DEF Steady
  <2>6. CASE r.type = "BEGIN"
    <3>1. r.id # 0 /\ ~request.isBeginProcessed
      BY <1>1, <2>6 DEF ReadsContent
    <3>2. caller = "begun"
      BY <1>3, <3>1 DEF Standing, Outside
    <3>3. r.id = 1 => n = Start("PARAMS") /\ in'.paddingLen = 0
      BY <1>2, <2>2, <2>6 DEF Allowed, After
    <3>4. Beginning(n)'
      BY <1>2, <1>3, <2>1, <2>4, <2>5, <2>6, <3>2, <3>3 DEF Beginning
    <3>5. Placed(n)'
      BY <1>1, <1>2, <1>3, <2>2, <2>4, <2>5, <3>2, <3>4, PlacedOn
    <3> QED BY <1>3, <1>4, <2>2, <3>5 DEF Located
  <2>7. CASE r.type # "BEGIN"
    <3>1. r.type = "GET_VALUES" /\ request' = request
      BY <1>1, <2>7 DEF ReadsContent
    <3>2. n = m
      BY <2>2, <3>1 DEF After
    <3>3. caller = "begun" => Beginning(m)'
      BY <1>1, <1>2, <1>3, <2>1, <2>4, <2>5, <2>7, <3>1 DEF Beginning, Waits
    <3>4. Placed(m)'
      BY <1>1, <1>2, <1>3, <2>1, <2>4, <2>5, <3>3, PlacedOn
    <3> QED BY <1>3, <1>4, <2>2, <3>2, <3>4 DEF Located
  <2> QED BY <2>6, <2>7
<1>6. caller # "serve" => ~(pc \in {caller, "nested"} /\ in.stop = 0)
  BY <1>1, InsideOf
<1> QED BY <1>1, <1>2, <1>3, <1>5, <1>6, ReadingStep

\* What is there to be delivered is taken.
LEMMA TakenOf ==
  ASSUME NEW s \in Stream, NEW k, k = s.stop, k \in 0..Len(s.buff),
         NEW t, t = Taken(s)
  PROVE  /\ t \in Stream /\ t.buff = Drop(s.buff, k) /\ t.stop = 0 /\ t.type = s.type
         /\ t.eorStop = s.eorStop /\ t.contentLen = s.contentLen /\ t.skip = s.skip
         /\ t.paddingLen = s.paddingLen /\ t.isClosed = s.isClosed
         /\ t.FCGI_errno = s.FCGI_errno
<1> DEFINE rest == Drop(s.buff, k)
           u == [s EXCEPT !.buff = rest, !.stop = 0]
<1>1. s.buff \in Seq(Sound)
  BY DEF Stream
<1>2. rest \in Seq(Sound)
  BY <1>1, DropOf, Zenon
<1>3. t = u
  BY DEF Taken
<1> HIDE DEF rest
<1>4. /\ u \in Stream /\ u.buff = rest /\ u.stop = 0 /\ u.type = s.type
      /\ u.eorStop = s.eorStop /\ u.contentLen = s.contentLen /\ u.skip = s.skip
      /\ u.paddingLen = s.paddingLen /\ u.isClosed = s.isClosed
      /\ u.FCGI_errno = s.FCGI_errno
  BY <1>2 DEF Stream
<1> HIDE DEF u
<1> QED BY <1>3, <1>4 DEF rest

\* Where part of the content is taken, the reader stays in step.
LEMMA InStepOn ==
  ASSUME TInv, InStep, NEW k \in Nat, k <= Undelivered,
         Undelivered' = Undelivered - k, Rest' = Rest - k, in'.paddingLen = in.paddingLen,
         NEW q, Ahead' = q, Left(q) = Rest - k, k < Rest => q[1].of = Ahead[1].of
  PROVE  InStep'
<1>1. /\ Undelivered \in Nat /\ Rest \in Nat /\ in.paddingLen \in Nat
      /\ Rest = Undelivered + in.paddingLen /\ Ahead \in Seq(Sound)
  BY ReaderOf DEF Rest
<1>2. Undelivered' > 0 => k < Rest /\ Undelivered > 0 /\ Undelivered' <= Undelivered
  BY <1>1
<1>3. Undelivered > 0 => Ahead[1].of.len \in Nat
  <2>1. Undelivered > 0 => Left(Ahead) # 0
    BY <1>1 DEF InStep
  <2>2. Undelivered > 0 => Ahead # <<>>
    BY <2>1 DEF Left
  <2>3. Undelivered > 0 => Len(Ahead) >= 1
    BY <1>1, <2>2, EmptySeq
  <2>4. Undelivered > 0 => Ahead[1] \in Sound
    BY <1>1, <2>3, ElementOfSeq
  <2> QED BY <2>4, CellOf
<1>4. Undelivered' > 0 => /\ in'.paddingLen = (Ahead')[1].of.pad
                          /\ Undelivered' <= (Ahead')[1].of.len
  <2>1. Undelivered' > 0 => /\ in.paddingLen = Ahead[1].of.pad
                            /\ Undelivered <= Ahead[1].of.len
                            /\ (Ahead')[1].of = Ahead[1].of
    BY <1>2 DEF InStep
  <2>2. Undelivered' \in Nat
    BY <1>1
  <2> QED BY <1>1, <1>2, <1>3, <2>1, <2>2
<1>5. Rest' = Left(Ahead')
  OBVIOUS
<1> QED BY <1>4, <1>5 DEF InStep

\* While ProcessHeader reads the content of a record, nothing of a stream is left.
LEMMA PlacedNested ==
  ASSUME TInv, NEW m \in Mark, Placed(m), pc = "nested"
  PROVE  /\ Steady /\ InStep /\ ~Unseen /\ ~Outside
         /\ caller = "begun" => Beginning(m) /\ in.type = "NONE"
         /\ caller = "params" => /\ m.phase = "PARAMS" /\ in.type = "PARAMS"
                                 /\ m.done <= Len(ParamBytes)
                                 /\ env = First(ParamBytes, m.done)
         /\ caller = "serve" => /\ m.phase = "STDIN" /\ in.type = "STDIN"
                                /\ m.done <= Len(BodyBytes) /\ env = ParamBytes
                                /\ body = First(BodyBytes, m.done)
<1>1. ~Outside /\ ~Unseen /\ caller \in {"begun", "params", "serve"}
  BY InsideOf DEF Outside
<1>2. caller = "begun" => Beginning(m)
  BY <1>1 DEF Placed
<1>3. caller = "params" => Flowing(m, "PARAMS", env)
  BY <1>1 DEF Placed
<1>4. caller = "serve" => Flowing(m, "STDIN", body) /\ env = ParamBytes
  BY <1>1 DEF Placed
<1>5. Steady /\ InStep
  BY <1>1, <1>2, <1>3, <1>4 DEF Beginning, Flowing
<1>6. ASSUME NEW type, NEW taken, Flowing(m, type, taken)
      PROVE  /\ m.phase = type /\ in.type = type /\ m.done <= Len(Bytes(type))
             /\ taken = First(Bytes(type), m.done)
  <2> DEFINE content == IF in.skip \/ ~Unseen THEN 0 ELSE Undelivered
  <2>1. content = 0
    BY <1>1
  <2>2. /\ m.phase = type /\ in.type = type /\ m.done <= Len(Bytes(type))
        /\ taken = First(Bytes(type), m.done - content)
    BY <1>6 DEF Flowing
  <2> HIDE DEF content
  <2>3. m.done - content = m.done
    BY <2>1 DEF Mark
  <2> QED BY <2>2, <2>3
<1> QED BY <1>1, <1>2, <1>3, <1>4, <1>5, <1>6 DEF Beginning, Bytes

\* Part of the content is taken, or the rest of the body of a BEGIN_REQUEST.
LEMMA NestedTakeReads ==
  ASSUME TInv, Standing, Reading, NestedTake
  PROVE  Reading'
<1> DEFINE k == in.stop
           d == Drop(in.buff, k) \o wire
           t == Taken(in)
           begins == Current.type = "BEGIN" /\ in.contentLen = 0
<1>1. /\ pc = "nested" /\ k > 0 /\ UNCHANGED <<caller, env, body, wire, server>>
      /\ begins => /\ in' = Back(t) /\ pc' = caller /\ header' = <<>>
                   /\ request' = [request EXCEPT !.isBeginProcessed = TRUE,
                                    !.keepConnection = Current.keep, !.role = Current.role]
      /\ ~begins => in' = t /\ pc' = "fill" /\ UNCHANGED <<header, request>>
  BY DEF NestedTake
<1>2. /\ in \in Stream /\ in.buff \in Seq(Sound) /\ wire \in Seq(Sound)
      /\ k \in 0..Len(in.buff) /\ k \in Nat /\ in.contentLen \in Nat
      /\ in.paddingLen \in Nat /\ Undelivered \in Nat /\ Rest \in Nat
      /\ Undelivered = in.contentLen + k /\ Rest = Undelivered + in.paddingLen
  BY ReaderOf DEF Undelivered, Rest
<1>3. /\ t \in Stream /\ t.buff = Drop(in.buff, k) /\ t.stop = 0 /\ t.type = in.type
      /\ t.eorStop = in.eorStop /\ t.contentLen = in.contentLen /\ t.skip = in.skip
      /\ t.paddingLen = in.paddingLen /\ t.isClosed = in.isClosed
      /\ t.FCGI_errno = in.FCGI_errno
  BY <1>2, TakenOf
<1> HIDE DEF t
<1>4. /\ in'.buff = Drop(in.buff, k) /\ in'.stop = 0 /\ in'.type = in.type
      /\ in'.contentLen = in.contentLen /\ in'.skip = in.skip
      /\ in'.paddingLen = in.paddingLen /\ in'.FCGI_errno = in.FCGI_errno
      /\ begins => ~in'.eorStop
      /\ ~begins => in'.eorStop = in.eorStop /\ in'.isClosed = in.isClosed
  BY <1>1, <1>3 DEF Back, Stream
<1>5. ServerMark' = ServerMark /\ ~Outside /\ ~Outside'
      /\ caller \in {"begun", "params", "serve"} /\ ~Unseen /\ in.eorStop
  BY <1>1, InsideOf DEF ServerMark, Outside, TInv, InPlace
<1>6. d \in Seq(Sound)
  <2>1. Drop(in.buff, k) \in Seq(Sound)
    BY <1>2, DropOf, Zenon
  <2> QED BY <1>2, <2>1, ConcatProperties
<1>7. <<>> \o d = d /\ (IF Unseen' THEN header' ELSE <<>>) = <<>> /\ Ahead' = d
  <2>1. <<>> \o d = d
    BY <1>6, ConcatEmptySeq
  <2>2. (IF Unseen' THEN header' ELSE <<>>) = <<>>
    BY <1>1, <1>4, <1>5 DEF Unseen
  <2> QED BY <1>1, <1>4, <2>1, <2>2 DEF Ahead
<1>8. ASSUME NEW m \in Mark, Track(Ahead, m, ServerMark), Placed(m)
      PROVE  Located'
  <2>1. /\ Steady /\ InStep
        /\ caller = "begun" => Beginning(m) /\ in.type = "NONE"
        /\ caller = "params" => /\ m.phase = "PARAMS" /\ in.type = "PARAMS"
                                /\ m.done <= Len(ParamBytes)
                                /\ env = First(ParamBytes, m.done)
        /\ caller = "serve" => /\ m.phase = "STDIN" /\ in.type = "STDIN"
                               /\ m.done <= Len(BodyBytes) /\ env = ParamBytes
                               /\ body = First(BodyBytes, m.done)
    BY <1>1, <1>8, PlacedNested
  <2>2. /\ Track(d, m, ServerMark) /\ Left(d) = Rest - k
        /\ k < Rest => d[1].of = Ahead[1].of
    <3>1. k <= Rest
      BY <1>2
    <3>2. <<>> = IF Unseen THEN header ELSE <<>>
      BY <1>5
    <3>3. d = <<>> \o (Drop(in.buff, k) \o wire)
      BY <1>7
    <3> HIDE DEF k, d
    <3> QED BY <1>2, <1>8, <2>1, <3>1, <3>2, <3>3, PassedOver
  <2>3. Undelivered' = Undelivered - k /\ Rest' = Rest - k
    BY <1>2, <1>4 DEF Undelivered, Rest
  <2> HIDE DEF k, d
  <2>4. CASE begins
    <3>1. request.requestId = Current.id /\ ~request.isBeginProcessed
      BY <1>1, <1>5, <2>4 DEF Standing
    <3>2. caller = "begun"
      BY <1>5, <3>1 DEF Standing, Outside
    <3>3. request'.role = Current.role
      BY <1>1, <2>4 DEF TInv, Typed, Request
    <3>4. ASSUME Current.role = "RESPONDER" PROVE m = Start("PARAMS") /\ Left(d) = 0
      <4>1. header[1] \in Sound
        BY <1>1, CurrentIsSound
      <4>2. Current.id = 1
        BY <2>4, <3>4, <4>1 DEF Sound, Current
      <4>3. m = Start("PARAMS") /\ in.paddingLen = 0
        BY <1>5, <2>1, <2>4, <3>2, <4>2 DEF Beginning
      <4>4. Rest - k = 0
        BY <1>2, <2>4, <4>3
      <4> QED BY <2>2, <4>3, <4>4
    <3>5. pc' = "begun" /\ caller' = "begun"
      BY <1>1, <2>4, <3>2
    <3>6. Placed(m)'
      BY <1>5, <1>7, <3>3, <3>4, <3>5 DEF Placed
    <3> QED BY <1>5, <1>7, <2>2, <3>6 DEF Located
  <2>5. CASE ~begins
    <3>1. ~Unseen' /\ Current' = Current
      BY <1>1, <1>4, <1>5, <2>5 DEF Unseen, Current
    <3>2. InStep'
      BY <1>2, <1>4, <1>7, <2>1, <2>2, <2>3, InStepOn
    <3>3. Steady'
      <4>1. ~in'.skip /\ ~in'.isClosed
        BY <1>1, <1>4, <1>5, <2>1, <2>5 DEF Steady, k
      <4>2. Current.type \in {"BEGIN", "GET_VALUES"}
        BY <1>5, <2>1 DEF Steady
      <4> QED BY <1>1, <2>5, <3>1, <4>1, <4>2 DEF Steady
    <3>4. caller = "begun" => Beginning(m)'
      BY <1>1, <1>4, <1>5, <2>1, <2>5, <3>1, <3>2, <3>3 DEF Beginning, Waits
    <3>5. Placed(m)'
      BY <1>1, <1>4, <1>5, <2>1, <2>5, <3>1, <3>2, <3>3, <3>4, PlacedOn
    <3> QED BY <1>5, <1>7, <2>2, <3>5 DEF Located
  <2> QED BY <2>4, <2>5
<1>9. caller # "serve" => ~(pc \in {caller, "nested"} /\ in.stop = 0)
  BY <1>1, <1>2
<1> HIDE DEF k, begins
<1> QED BY <1>1, <1>4, <1>5, <1>8, <1>9, ReadingStep

\* The end of the values asked for: FillBuffProc goes on behind the record.
LEMMA NestedClosedReads ==
  ASSUME TInv, Standing, Reading, NestedClosed
  PROVE  Reading'
<1>1. /\ pc = "nested" /\ in.stop = 0 /\ UNCHANGED <<caller, request, env, body, wire, server>>
      /\ \/ EndsInError(in)
         \/ /\ GoesOn(in) /\ Current.type = "GET_VALUES" /\ ~in.FCGI_errno
            /\ in.contentLen = 0
  BY DEF NestedClosed
<1>2. CASE EndsInError(in)
  <2>1. in \in Stream
    BY ReaderOf
  <2> QED BY <1>1, <1>2, <2>1, EndsInErrorReads
<1>3. CASE GoesOn(in) /\ Current.type = "GET_VALUES" /\ ~in.FCGI_errno
  <2>1. /\ in'.buff = in.buff /\ in'.contentLen = in.contentLen
        /\ in'.paddingLen = in.paddingLen /\ in'.stop = 0 /\ in'.type = in.type
        /\ in'.skip = in.skip /\ ~in'.eorStop /\ ~in'.isClosed
        /\ in'.FCGI_errno = in.FCGI_errno /\ pc' = "fill" /\ header' = <<>>
    BY <1>1, <1>3, ReaderOf, GoesOnOf
  <2>2. ~Outside /\ ~Outside' /\ ~Unseen /\ Unseen' /\ ~Lost /\ ~Lost'
        /\ ServerMark' = ServerMark
    BY <1>1, <1>3, <2>1, InsideOf DEF Outside, Unseen, Lost, ServerMark
  <2>3. Ahead' = Ahead
    BY <1>1, <2>1, <2>2 DEF Ahead
  <2>4. ASSUME ~server.unsafe PROVE Genuine' /\ Located'
    <3>0. Genuine' /\ Located
      BY <1>1, <2>2, <2>4 DEF Reading, Genuine
    <3>1. PICK m \in Mark : Track(Ahead, m, ServerMark) /\ Placed(m)
      BY <3>0 DEF Located
    <3>2. /\ Steady /\ InStep
          /\ caller = "begun" => Beginning(m) /\ in.type = "NONE"
          /\ caller = "params" => /\ m.phase = "PARAMS" /\ in.type = "PARAMS"
                                  /\ m.done <= Len(ParamBytes)
                                  /\ env = First(ParamBytes, m.done)
          /\ caller = "serve" => /\ m.phase = "STDIN" /\ in.type = "STDIN"
                                 /\ m.done <= Len(BodyBytes) /\ env = ParamBytes
                                 /\ body = First(BodyBytes, m.done)
      BY <1>1, <3>1, PlacedNested
    <3>3. Rest = 0 /\ Undelivered = 0
      <4>1. Rest = 0
        BY <1>1, <3>2 DEF Steady
      <4> QED BY <4>1, ReaderOf DEF Rest
    <3>4. Rest' = Rest /\ Undelivered' = Undelivered
      BY <1>1, <2>1 DEF Rest, Undelivered
    <3>5. InStep'
      BY <2>3, <3>2, <3>3, <3>4 DEF InStep
    <3>6. Steady'
      BY <2>1, <2>2, <3>2 DEF Steady
    <3>7. caller = "begun" => Beginning(m)'
      BY <1>1, <1>3, <2>1, <2>2, <3>2, <3>3, <3>4, <3>5, <3>6 DEF Beginning, Waits
    <3>8. Placed(m)'
      BY <1>1, <2>1, <2>2, <3>2, <3>3, <3>4, <3>5, <3>6, <3>7, PlacedOn
    <3> QED BY <2>2, <2>3, <3>0, <3>1, <3>8 DEF Located
  <2> QED BY <1>1, <2>2, <2>4 DEF Reading
<1> QED BY <1>1, <1>2, <1>3

\* A record of the stream is delivered next, or it ends the stream.
LEMMA StreamRecordReads ==
  ASSUME TInv, Standing, Reading, StreamRecord
  PROVE  Reading'
<1> DEFINE r == Current
           q == in.buff \o wire
<1>1. /\ pc = "header" /\ IsHeader(header) /\ r.type = in.type
      /\ r.id = request.requestId /\ UNCHANGED <<caller, request, env, body, wire, server>>
      /\ r.len = 0 => /\ in' = [Back(Announced) EXCEPT !.isClosed = TRUE]
                      /\ pc' = caller /\ header' = <<>>
      /\ r.len # 0 => GoesOn(Announced)
  BY DEF StreamRecord
<1>2. /\ Announced \in Stream /\ Announced.buff = in.buff
      /\ Announced.contentLen = r.len /\ Announced.paddingLen = r.pad
      /\ Announced.stop = 0 /\ Announced.type = in.type
      /\ Announced.FCGI_errno = in.FCGI_errno /\ Announced.skip = in.skip
  <2>1. Announced \in {Announced, [Announced EXCEPT !.skip = TRUE]}
    OBVIOUS
  <2> QED BY <1>1, <2>1, AnnouncedOf
<1>3. ~Outside /\ caller \in {"begun", "params", "serve"} /\ in.stop = 0
  BY <1>1, InsideOf DEF Outside
<1>4. r.type \in {"PARAMS", "STDIN"} /\ caller \in {"params", "serve", "begun"}
  <2>1. r.type \in RecordTypes /\ in.type \in {"NONE", "PARAMS", "STDIN"}
    BY <1>1, CurrentIsSound DEF TInv, Typed, Readable, Stream
  <2> QED BY <1>1, <1>3, <2>1 DEF RecordTypes
\* What the reader has after either.
<1>5. /\ in'.buff = in.buff /\ in'.stop = 0 /\ in'.type = in.type /\ in'.skip = in.skip
      /\ in'.paddingLen = r.pad /\ in'.contentLen = r.len
      /\ in'.FCGI_errno = in.FCGI_errno /\ ~in'.eorStop
      /\ r.len = 0 => in'.isClosed /\ pc' = caller
      /\ r.len # 0 => pc' = "fill"
      /\ header' = <<>>
  <2>1. CASE r.len # 0
    BY <1>1, <1>2, <2>1, GoesOnOf
  <2>2. CASE r.len = 0
    <3> DEFINE t == Announced
    <3> HIDE DEF t
    <3>1. in' = [Back(t) EXCEPT !.isClosed = TRUE]
      BY <1>1, <2>2 DEF t
    <3>2. t \in Stream
      BY <1>2 DEF t
    <3>3. /\ in'.buff = t.buff /\ in'.stop = t.stop /\ in'.type = t.type
          /\ in'.skip = t.skip /\ in'.paddingLen = t.paddingLen
          /\ in'.contentLen = t.contentLen /\ in'.FCGI_errno = t.FCGI_errno
          /\ ~in'.eorStop /\ in'.isClosed
      BY <3>1, <3>2 DEF Back, Stream
    <3> QED BY <1>1, <1>2, <2>2, <3>3 DEF t
  <2> QED BY <2>1, <2>2
<1>6. ~Outside' /\ Unseen' /\ ServerMark' = ServerMark
  BY <1>1, <1>3, <1>5 DEF Outside, Unseen, ServerMark
<1>7. Ahead' = q
  <2>1. Ahead' = <<>> \o q
    BY <1>1, <1>5, <1>6 DEF Ahead
  <2>2. <<>> \o q = q
    BY ReaderOf, ConcatEmptySeq
  <2> QED BY <2>1, <2>2
<1>8. ASSUME NEW m \in Mark, Track(Ahead, m, ServerMark), Placed(m)
      PROVE  Located'
  <2>1. /\ Steady /\ ~in.skip
        /\ caller = "begun" => in.type = "NONE"
        /\ caller = "params" => /\ m.phase = "PARAMS" /\ in.type = "PARAMS"
                                /\ m.done <= Len(ParamBytes)
                                /\ env = First(ParamBytes, m.done)
        /\ caller = "serve" => /\ m.phase = "STDIN" /\ in.type = "STDIN"
                               /\ m.done <= Len(BodyBytes) /\ env = ParamBytes
                               /\ body = First(BodyBytes, m.done)
    BY <1>1, <1>8, PlacedHeader
  <2>2. PICK n \in Mark :
        /\ n = After(m, r) /\ Allowed(m, r) /\ Track(q, n, ServerMark)
        /\ Left(q) = r.len + r.pad /\ r.len \in Nat /\ r.pad \in Nat
        /\ r.len + r.pad > 0 => q[1].of = r
    BY <1>1, <1>8, HeaderTaken
  <2> HIDE DEF q
  <2>3. r.id = 1 /\ caller # "begun"
    <3>1. caller # "begun"
      BY <1>1, <1>4, <2>1
    <3> QED BY <1>1, <1>3, <3>1 DEF Standing, Outside
  <2>4. /\ r.type = m.phase /\ r.from = m.done /\ r.from + r.len <= Len(Bytes(r.type))
        /\ r.len = 0 => r.pad = 0 /\ r.from = Len(Bytes(r.type))
    BY <1>4, <2>2, <2>3 DEF Allowed
  <2>5. CASE r.len = 0
    <3>1. /\ n = Start(IF r.type = "PARAMS" THEN "STDIN" ELSE "done")
          /\ Left(q) = 0 /\ m.done = Len(Bytes(r.type))
      <4>1. r.pad = 0 /\ m.done = Len(Bytes(r.type)) /\ r.len + r.pad = 0 /\ ~(r.len > 0)
        BY ONLY <2>4, <2>5
      <4>2. r.type # "BEGIN" /\ r.type \in {"BEGIN", "PARAMS", "STDIN"}
        BY <1>4
      <4>3. n = Start(IF r.type = "PARAMS" THEN "STDIN" ELSE "done")
        BY <2>2, <2>3, <4>1, <4>2 DEF After
      <4> QED BY <2>2, <4>1, <4>3
    <3>2. ParamBytes = First(ParamBytes, Len(ParamBytes))
          /\ BodyBytes = First(BodyBytes, Len(BodyBytes))
      <4>1. \A S : \A s \in Seq(S) : First(s, Len(s)) = s
        BY FirstAll
      <4> QED BY <4>1, LengthsAssumption, Zenon
    <3>3. CASE caller = "params"
      <4>1. env = ParamBytes /\ n = Start("STDIN")
        BY <1>1, <2>1, <3>1, <3>2, <3>3 DEF Bytes
      <4>2. Placed(n)'
        BY <1>1, <1>5, <1>6, <1>7, <2>5, <3>1, <3>3, <4>1 DEF Placed
      <4> QED BY <1>6, <1>7, <2>2, <4>2 DEF Located
    <3>4. CASE caller = "serve"
      <4>1. body = BodyBytes /\ env = ParamBytes
        BY <1>1, <2>1, <3>1, <3>2, <3>4 DEF Bytes
      <4>2. Placed(n)'
        BY <1>1, <1>5, <1>6, <2>5, <3>4, <4>1 DEF Placed
      <4> QED BY <1>6, <1>7, <2>2, <4>2 DEF Located
    <3> QED BY <1>3, <2>3, <3>3, <3>4
  <2>6. CASE r.len # 0
    <3>1. /\ Steady' /\ InStep' /\ Undelivered' = r.len /\ ~in'.skip
          /\ r.len > 0 => (Ahead')[1].of = r
      <4>1. Announced \in {Announced, [Announced EXCEPT !.skip = TRUE]}
        OBVIOUS
      <4> QED BY <1>1, <1>8, <2>1, <2>6, <4>1, RecordOf
    <3>2. n = [phase |-> r.type, done |-> r.from + r.len] /\ r.len > 0
      BY <1>4, <2>2, <2>3, <2>6 DEF After
    <3>3. ASSUME NEW taken, taken = First(Bytes(r.type), m.done)
          PROVE  /\ Steady' /\ InStep' /\ in'.type = r.type /\ n.phase = r.type
                 /\ LET content == IF in'.skip \/ ~Unseen' THEN 0 ELSE Undelivered'
                    IN  /\ content <= n.done /\ n.done <= Len(Bytes(r.type))
                        /\ taken = First(Bytes(r.type), n.done - content)
                        /\ content > 0 => /\ (Ahead')[1].of.type = r.type
                                          /\ (Ahead')[1].of.from + (Ahead')[1].of.len = n.done
      <4> DEFINE content == IF in'.skip \/ ~Unseen' THEN 0 ELSE Undelivered'
      <4>1. content = r.len
        BY <1>6, <3>1
      <4>2. n.phase = r.type /\ n.done = r.from + r.len /\ m.done \in Nat
        BY <3>2 DEF Mark
      <4> HIDE DEF content
      <4>3. /\ content <= n.done /\ n.done - content = m.done
            /\ n.done <= Len(Bytes(r.type))
        BY <2>2, <2>4, <4>1, <4>2
      <4> QED BY <1>1, <1>5, <3>1, <3>2, <3>3, <4>2, <4>3 DEF content
    <3>4. CASE caller = "params"
      <4>1. env = First(Bytes(r.type), m.done) /\ r.type = "PARAMS"
        BY <1>1, <2>1, <3>4 DEF Bytes
      <4>2. Flowing(n, "PARAMS", env)'
        <5>1. env' = First(Bytes(r.type), m.done)
          BY <1>1, <4>1
        <5> QED BY <3>3, <4>1, <5>1 DEF Flowing
      <4>3. Placed(n)'
        BY <1>1, <1>5, <1>6, <2>6, <3>4, <4>2 DEF Placed
      <4> QED BY <1>6, <1>7, <2>2, <4>3 DEF Located
    <3>5. CASE caller = "serve"
      <4>1. body = First(Bytes(r.type), m.done) /\ r.type = "STDIN" /\ env = ParamBytes
        BY <1>1, <2>1, <3>5 DEF Bytes
      <4>2. Flowing(n, "STDIN", body)'
        <5>1. body' = First(Bytes(r.type), m.done)
          BY <1>1, <4>1
        <5> QED BY <3>3, <4>1, <5>1 DEF Flowing
      <4>3. Placed(n)'
        BY <1>1, <1>5, <1>6, <2>6, <3>5, <4>1, <4>2 DEF Placed
      <4> QED BY <1>6, <1>7, <2>2, <4>3 DEF Located
    <3> QED BY <1>3, <2>3, <3>4, <3>5
  <2> QED BY <2>5, <2>6
<1>9. caller # "serve" => ~(pc \in {caller, "nested"} /\ in.stop = 0)
  BY <1>1, InsideOf
<1> QED BY <1>1, <1>3, <1>5, <1>6, <1>8, <1>9, ReadingStep

-----------------------------------------------------------------------------
(* What is delivered.                                                      *)

\* What stands behind the first x of a list makes them longer.
LEMMA FirstOn ==
  ASSUME NEW S, NEW s \in Seq(S), NEW x \in Nat, NEW k \in Nat, x + k <= Len(s),
         NEW d \in Seq(S), Len(d) = k, \A j \in 1..k : d[j] = s[x + j]
  PROVE  First(s, x) \o d = First(s, x + k)
<1> DEFINE f == First(s, x)
           g == First(s, x + k)
           t == f \o d
<1>0. Len(s) \in Nat /\ x \in 0..Len(s) /\ x + k \in 0..Len(s)
  OBVIOUS
<1>1. /\ f \in Seq(S) /\ Len(f) = x /\ \A i \in 1..x : f[i] = s[i]
      /\ g \in Seq(S) /\ Len(g) = x + k /\ \A i \in 1..(x + k) : g[i] = s[i]
  BY <1>0, FirstOf
<1> HIDE DEF f, g
<1>2. /\ t \in Seq(S) /\ Len(t) = x + k /\ \A i \in 1..x : t[i] = f[i]
      /\ \A i \in 1..k : t[x + i] = d[i]
  <2>1. f \in Seq(S) /\ d \in Seq(S)
    BY <1>1
  <2>2. /\ t \in Seq(S) /\ Len(t) = Len(f) + Len(d) /\ \A i \in 1..Len(f) : t[i] = f[i]
        /\ \A i \in 1..Len(d) : t[Len(f) + i] = d[i]
    BY ONLY <2>1, BothOf
  <2> QED BY <1>1, <2>2
<1> HIDE DEF t
<1>3. ASSUME NEW i \in 1..(x + k) PROVE t[i] = g[i]
  <2>1. CASE i <= x
    <3>1. i \in 1..x
      BY <2>1
    <3> QED BY <1>1, <1>2, <3>1
  <2>2. CASE i > x
    <3>1. i - x \in 1..k /\ x + (i - x) = i
      BY <2>2
    <3>2. t[x + (i - x)] = d[i - x] /\ d[i - x] = s[x + (i - x)]
      BY <1>2, <3>1
    <3> QED BY <1>1, <3>1, <3>2
  <2> QED BY <2>1, <2>2
<1>4. t = g
  BY <1>1, <1>2, <1>3, SeqEqual
<1> QED BY <1>4 DEF f, g, t

\* The cells a reader may deliver carry the next bytes of the stream.
LEMMA DeliveredIs ==
  ASSUME TInv, NEW m \in Mark, Track(Ahead, m, ServerMark), in.stop > 0,
         pc \notin {"fill", "header", "nested"},
         NEW type \in {"PARAMS", "STDIN"}, NEW taken, Flowing(m, type, taken)
  PROVE  /\ taken \o Delivered(in) = First(Bytes(type), m.done - in.contentLen)
         /\ ~in.skip /\ Unseen /\ header = <<>> /\ Ahead = in.buff \o wire
<1> DEFINE u == Undelivered
           k == in.stop
           B == Bytes(type)
           r == Ahead[1].of
           a == Ahead[1].at
           S == 0..255
           f == First(in.buff, k)
           d == Delivered(in)
<1>1. /\ in.buff \in Seq(Sound) /\ wire \in Seq(Sound) /\ Ahead \in Seq(Sound)
      /\ k \in 0..Len(in.buff) /\ k \in Nat /\ k > 0 /\ in.contentLen \in Nat
      /\ in.paddingLen \in Nat /\ u \in Nat /\ u = in.contentLen + k
      /\ Rest = u + in.paddingLen /\ ServerMark \in Mark /\ m.done \in Nat
      /\ Unseen /\ header = <<>>
  BY ReaderOf, InsideOf DEF Undelivered, Rest, Mark
<1>2. Ahead = in.buff \o wire
  <2>1. Ahead = <<>> \o (in.buff \o wire)
    BY <1>1 DEF Ahead
  <2>2. in.buff \o wire \in Seq(Sound)
    BY ReaderOf
  <2> QED BY <2>1, <2>2, ConcatEmptySeq
<1>3. /\ Steady /\ InStep /\ ~in.skip /\ u <= m.done /\ m.done <= Len(B)
      /\ taken = First(B, m.done - u) /\ r.type = type /\ r.from + r.len = m.done
  <2>1. Steady /\ InStep
    BY DEF Flowing
  <2>2. ~in.skip
    BY <1>1, <2>1 DEF Steady
  <2>3. u > 0
    BY <1>1
  <2> QED BY <1>1, <2>1, <2>2, <2>3 DEF Flowing
<1>4. /\ Left(Ahead) = u + in.paddingLen /\ in.paddingLen = r.pad /\ u <= r.len
  <2>1. u > 0
    BY <1>1
  <2> QED BY <1>1, <1>3, <2>1 DEF InStep
<1>5. /\ Left(Ahead) = Size(r) - a + 1
      /\ \A j \in 1..k : Ahead[j] = [of |-> r, at |-> a + (j - 1)]
  <2>1. k <= Left(Ahead)
    BY <1>1, <1>4
  <2> HIDE DEF k, r, a
  <2>2. /\ Ahead \in Seq(Sound) /\ k \in Nat /\ k > 0 /\ m \in Mark /\ ServerMark \in Mark
        /\ Track(Ahead, m, ServerMark)
    BY <1>1
  <2>3. /\ Left(Ahead) = Size(Ahead[1].of) - Ahead[1].at + 1
        /\ \A j \in 1..k : Ahead[j] = [of |-> Ahead[1].of, at |-> Ahead[1].at + (j - 1)]
    BY ONLY <2>1, <2>2, SMTT(40), TrackLeft
  <2> QED BY <2>3 DEF r, a
<1>6. /\ Ahead[1] \in Sound /\ a \in Nat /\ r.len \in Nat /\ r.pad \in Nat
      /\ r.from \in Nat /\ Size(r) = HeaderLen + r.len + r.pad /\ HeaderLen \in Nat
  <2>1. Left(Ahead) # 0
    BY <1>1, <1>4
  <2>2. Ahead # <<>>
    BY <2>1 DEF Left
  <2>3. Len(Ahead) >= 1
    BY <1>1, <2>2, EmptySeq
  <2>4. Ahead[1] \in Sound
    BY <1>1, <2>3, ElementOfSeq
  <2> QED BY <2>4, CellOf
<1> HIDE DEF u, k, B, r, a
<1>7. a = (HeaderLen + r.len - u) + 1
  <2>1. /\ u + in.paddingLen = Size(r) - a + 1 /\ in.paddingLen = r.pad
        /\ Size(r) = HeaderLen + r.len + r.pad
    BY <1>4, <1>5, <1>6
  <2>2. u \in Nat /\ a \in Nat /\ r.len \in Nat /\ r.pad \in Nat /\ HeaderLen \in Nat
    BY <1>1, <1>6
  <2>3. u + r.pad = Size(r) - a + 1 /\ Size(r) \in Nat
    BY <1>6, <2>1
  <2> QED BY ONLY <2>1, <2>2, <2>3
<1>8. f \in Seq(Sound) /\ Len(f) = k /\ \A j \in 1..k : f[j] = Ahead[j]
  <2>1. f \in Seq(Sound) /\ Len(f) = k /\ \A j \in 1..k : f[j] = in.buff[j]
    BY <1>1, FirstOf
  <2>2. \A j \in 1..Len(in.buff) : (in.buff \o wire)[j] = in.buff[j]
    BY <1>1, BothOf
  <2>3. \A j \in 1..k : j \in 1..Len(in.buff)
    BY <1>1
  <2> QED BY <1>2, <2>1, <2>2, <2>3
<1> HIDE DEF f
<1>9. Len(d) = k /\ \A j \in 1..k : d[j] = Value(f[j])
  <2>1. d = [i \in DOMAIN f |-> Value(f[i])]
    BY DEF Delivered, Values, f, k
  <2>2. DOMAIN f = 1..k
    BY <1>8
  <2> HIDE DEF d
  <2> QED BY <1>1, <2>1, <2>2
<1>10. d \in Seq(S) /\ B \in Seq(S)
  <2>1. Readable(in)
    BY DEF TInv, Typed
  <2>2. d \in Seq(S)
    BY <2>1, DeliveredAreBytes
  <2>3. B \in Seq(S)
    <3>1. ParamBytes \in Seq(S) /\ BodyBytes \in Seq(S)
      BY LengthsAssumption
    <3> HIDE DEF S
    <3> QED BY <3>1 DEF B, Bytes
  <2> QED BY <2>2, <2>3
<1> HIDE DEF S, d
<1>11. ASSUME NEW j \in 1..k PROVE d[j] = B[(m.done - u) + j]
  <2> DEFINE x == a + (j - 1)
             c == [of |-> r, at |-> x]
             i == r.from + x - HeaderLen
  <2>1. d[j] = Value(c)
    BY <1>5, <1>8, <1>9
  <2>2. c.of = r /\ c.at = x
    OBVIOUS
  <2>3. j \in Nat /\ j >= 1 /\ j <= k /\ k <= u
    BY <1>1
  <2>4. /\ ~(x <= HeaderLen \/ x > HeaderLen + r.len)
        /\ i = (m.done - u) + j
    <3>1. /\ u <= r.len /\ r.from + r.len = m.done /\ u <= m.done
          /\ u \in Nat /\ m.done \in Nat
      BY <1>1, <1>3, <1>4
    <3>2. r.from \in Nat /\ r.len \in Nat /\ HeaderLen \in Nat
      BY <1>6
    <3>3. x = (HeaderLen + r.len - u) + 1 + (j - 1)
      BY <1>7
    <3>4. k \in Nat
      BY <1>1
    <3> HIDE DEF x
    <3> QED BY ONLY <2>3, <3>1, <3>2, <3>3, <3>4
  <2> HIDE DEF x, c
  <2>5. Value(c) = IF r.type = "PARAMS" THEN ParamBytes[i]
                   ELSE IF r.type = "STDIN" THEN BodyBytes[i] ELSE 0
    BY <2>2, <2>4 DEF Value
  <2> HIDE DEF i
  <2>6. Value(c) = B[i]
    BY <1>3, <2>5 DEF Bytes, B
  <2> QED BY <2>1, <2>4, <2>6
<1>12. First(B, m.done - u) \o d = First(B, (m.done - u) + k)
  <2>1. m.done - u \in Nat /\ (m.done - u) + k <= Len(B)
    <3>1. Len(B) \in Nat
      BY <1>10
    <3>2. /\ u \in Nat /\ m.done \in Nat /\ u <= m.done /\ m.done <= Len(B)
          /\ k \in Nat /\ k <= u
      BY <1>1, <1>3
    <3> QED BY ONLY <3>1, <3>2
  <2> DEFINE x == m.done - u
  <2> HIDE DEF x
  <2>2. /\ B \in Seq(S) /\ x \in Nat /\ k \in Nat /\ x + k <= Len(B) /\ d \in Seq(S)
        /\ Len(d) = k /\ \A j \in 1..k : d[j] = B[x + j]
    BY <1>1, <1>9, <1>10, <1>11, <2>1 DEF x
  <2>3. First(B, x) \o d = First(B, x + k)
    BY ONLY <2>2, FirstOn
  <2> QED BY <2>3 DEF x
<1>13. (m.done - u) + k = m.done - in.contentLen
  BY <1>1
<1> QED BY <1>1, <1>2, <1>3, <1>12, <1>13 DEF d, B

\* What is delivered is taken: the stream flows on.
LEMMA FlowsTaken ==
  ASSUME TInv, NEW m \in Mark, Track(Ahead, m, ServerMark), in.stop > 0,
         pc \notin {"fill", "header", "nested"}, pc' \notin {"header", "nested"},
         NEW type \in {"PARAMS", "STDIN"}, NEW taken, Flowing(m, type, taken),
         in' = Taken(in), UNCHANGED <<header, wire>>, NEW more, more = taken \o Delivered(in)
  PROVE  /\ Track(Ahead', m, ServerMark) /\ in'.FCGI_errno = in.FCGI_errno
         /\ ~in'.isClosed
         /\ Steady' /\ InStep' /\ in'.type = type /\ m.phase = type
         /\ LET content == IF in'.skip \/ ~Unseen' THEN 0 ELSE Undelivered'
            IN  /\ content <= m.done /\ m.done <= Len(Bytes(type))
                /\ more = First(Bytes(type), m.done - content)
                /\ content > 0 => /\ (Ahead')[1].of.type = type
                                  /\ (Ahead')[1].of.from + (Ahead')[1].of.len = m.done
<1> DEFINE k == in.stop
           d == Drop(in.buff, k) \o wire
<1>1. /\ more = First(Bytes(type), m.done - in.contentLen) /\ ~in.skip /\ Unseen
      /\ header = <<>>
  BY DeliveredIs
<1>2. /\ in \in Stream /\ in.buff \in Seq(Sound) /\ wire \in Seq(Sound)
      /\ k \in 0..Len(in.buff) /\ k \in Nat /\ k > 0 /\ in.contentLen \in Nat
      /\ in.paddingLen \in Nat /\ Undelivered \in Nat /\ Rest \in Nat
      /\ Undelivered = in.contentLen + k /\ Rest = Undelivered + in.paddingLen
  BY ReaderOf DEF Undelivered, Rest
<1>3. /\ in'.buff = Drop(in.buff, k) /\ in'.stop = 0 /\ in'.type = in.type
      /\ in'.eorStop = in.eorStop /\ in'.contentLen = in.contentLen /\ in'.skip = in.skip
      /\ in'.paddingLen = in.paddingLen /\ in'.isClosed = in.isClosed
      /\ in'.FCGI_errno = in.FCGI_errno
  BY <1>2, TakenOf
<1>4. /\ Steady /\ InStep /\ in.type = type /\ m.phase = type
      /\ Undelivered <= m.done /\ m.done <= Len(Bytes(type))
      /\ Ahead[1].of.type = type /\ Ahead[1].of.from + Ahead[1].of.len = m.done
  <2>1. Undelivered > 0
    BY <1>2
  <2> QED BY <1>1, <2>1 DEF Flowing
<1>5. ~in.eorStop /\ Unseen' /\ ~in'.isClosed
  <2>1. ~in.eorStop
    BY <1>1 DEF Unseen
  <2>2. ~in.isClosed
    BY <1>4 DEF Steady
  <2> QED BY <1>3, <2>1, <2>2 DEF Unseen
<1>6. d \in Seq(Sound) /\ <<>> \o d = d
  <2>1. Drop(in.buff, k) \in Seq(Sound)
    BY <1>2, DropOf, Zenon
  <2>2. d \in Seq(Sound)
    BY <1>2, <2>1, ConcatProperties
  <2> QED BY <2>2, ConcatEmptySeq
<1>7. Ahead' = d
  BY <1>1, <1>3, <1>5, <1>6 DEF Ahead
<1>8. /\ Track(d, m, ServerMark) /\ Left(d) = Rest - k
      /\ k < Rest => d[1].of = Ahead[1].of
  <2>1. k <= Rest
    BY <1>2
  <2>2. <<>> = IF Unseen THEN header ELSE <<>>
    BY <1>1
  <2>3. d = <<>> \o (Drop(in.buff, k) \o wire)
    BY <1>6
  <2> HIDE DEF k, d
  <2> QED BY <1>2, <1>4, <2>1, <2>2, <2>3, PassedOver
<1>9. /\ Undelivered' = Undelivered - k /\ Rest' = Rest - k
      /\ Undelivered' = in.contentLen /\ k <= Undelivered
  BY <1>2, <1>3 DEF Undelivered, Rest
<1> HIDE DEF k, d
<1>10. InStep'
  BY <1>2, <1>3, <1>4, <1>7, <1>8, <1>9, InStepOn
<1>11. Steady'
  BY <1>1, <1>3, <1>5 DEF Steady
<1> DEFINE content == IF in'.skip \/ ~Unseen' THEN 0 ELSE Undelivered'
<1>12. content = in.contentLen
  BY <1>1, <1>3, <1>5, <1>9
<1> HIDE DEF content
<1>13. content <= m.done /\ (content > 0 => k < Rest)
  <2>1. m.done \in Nat
    BY DEF Mark
  <2>2. /\ in.contentLen \in Nat /\ in.paddingLen \in Nat /\ k \in Nat
        /\ Undelivered = in.contentLen + k /\ Rest = Undelivered + in.paddingLen
        /\ Undelivered <= m.done
    BY <1>2, <1>4
  <2>3. in.contentLen <= m.done /\ (in.contentLen > 0 => k < Rest)
    BY ONLY <2>1, <2>2
  <2> QED BY <1>12, <2>3
<1>14. content > 0 => /\ (Ahead')[1].of.type = type
                      /\ (Ahead')[1].of.from + (Ahead')[1].of.len = m.done
  BY <1>4, <1>7, <1>8, <1>13
<1>15. more = First(Bytes(type), m.done - content)
  BY <1>1, <1>12
<1> QED BY <1>3, <1>4, <1>5, <1>7, <1>8, <1>10, <1>11, <1>13, <1>14, <1>15 DEF content

\* The parameters that are there are taken.
LEMMA ReadParamsReads ==
  ASSUME TInv, Standing, Reading, ReadParams
  PROVE  Reading'
<1>1. /\ pc = "params" /\ in.stop > 0 /\ env' = env \o Delivered(in)
      /\ in' = Taken(in) /\ pc' = "fill"
      /\ UNCHANGED <<caller, header, request, body, wire, server>>
  BY DEF ReadParams
<1>2. caller = "params" /\ ~Outside /\ ~Outside' /\ ServerMark' = ServerMark
  BY <1>1 DEF Standing, Outside, ServerMark
<1>3. in \in Stream /\ in.stop \in 0..Len(in.buff) /\ in.stop \in Nat
  BY ReaderOf
<1>4. in'.FCGI_errno = in.FCGI_errno
  <2> DEFINE k == in.stop
  <2>1. k = in.stop /\ k \in 0..Len(in.buff)
    BY <1>3
  <2> HIDE DEF k
  <2> QED BY <1>1, <1>3, <2>1, TakenOf
<1>5. ASSUME NEW m \in Mark, Track(Ahead, m, ServerMark), Placed(m)
      PROVE  Located'
  <2>1. Flowing(m, "PARAMS", env)
    BY <1>1, <1>2, <1>5 DEF Placed
  <2> DEFINE type == "PARAMS"
             more == env \o Delivered(in)
  <2>2. type \in {"PARAMS", "STDIN"}
    OBVIOUS
  <2>3. /\ Track(Ahead', m, ServerMark)
        /\ Steady' /\ InStep' /\ in'.type = type /\ m.phase = type
        /\ LET content == IF in'.skip \/ ~Unseen' THEN 0 ELSE Undelivered'
           IN  /\ content <= m.done /\ m.done <= Len(Bytes(type))
               /\ more = First(Bytes(type), m.done - content)
               /\ content > 0 => /\ (Ahead')[1].of.type = type
                                 /\ (Ahead')[1].of.from + (Ahead')[1].of.len = m.done
    BY <1>1, <1>5, <2>1, <2>2, FlowsTaken
  <2>4. env' = more
    BY <1>1
  <2> HIDE DEF more
  <2>5. Flowing(m, "PARAMS", env)'
    BY <2>3, <2>4 DEF Flowing
  <2>6. Placed(m)'
    BY <1>1, <1>2, <2>5 DEF Placed
  <2> QED BY <1>2, <2>3, <2>6 DEF Located
<1>6. caller # "serve" => ~(pc \in {caller, "nested"} /\ in.stop = 0)
  BY <1>1, <1>3
<1> QED BY <1>1, <1>2, <1>4, <1>5, <1>6, ReadingStep

\* The application reads what is there of the body, or asks for more.
LEMMA ReadBodyReads ==
  ASSUME TInv, Standing, Reading, ReadBody
  PROVE  Reading'
<1>1. /\ pc = "serve" /\ ~in.isClosed
      /\ UNCHANGED <<caller, header, request, env, wire, server>>
      /\ \/ in.stop > 0 /\ body' = body \o Delivered(in) /\ in' = Taken(in) /\ pc' = pc
         \/ ~(in.stop > 0) /\ pc' = "fill" /\ UNCHANGED <<in, body>>
  BY DEF ReadBody
<1>2. caller = "serve" /\ ~Outside /\ ~Outside' /\ ServerMark' = ServerMark
  BY <1>1 DEF Standing, Outside, ServerMark
<1>3. in \in Stream /\ in.stop \in 0..Len(in.buff) /\ in.stop \in Nat
  BY ReaderOf
<1>4. in'.FCGI_errno = in.FCGI_errno
  <2> DEFINE k == in.stop
  <2>1. k = in.stop /\ k \in 0..Len(in.buff)
    BY <1>3
  <2> HIDE DEF k
  <2>2. Taken(in).FCGI_errno = in.FCGI_errno
    BY <1>3, <2>1, TakenOf
  <2> QED BY <1>1, <2>2
<1>5. ASSUME NEW m \in Mark, Track(Ahead, m, ServerMark), Placed(m)
      PROVE  Located'
  <2>1. Flowing(m, "STDIN", body) /\ env = ParamBytes
    BY <1>1, <1>2, <1>5 DEF Placed
  <2>2. CASE in.stop > 0 /\ body' = body \o Delivered(in) /\ in' = Taken(in) /\ pc' = pc
    <3> DEFINE type == "STDIN"
               more == body \o Delivered(in)
    <3>1. type \in {"PARAMS", "STDIN"}
      OBVIOUS
    <3>2. /\ Track(Ahead', m, ServerMark) /\ ~in'.isClosed
          /\ Steady' /\ InStep' /\ in'.type = type /\ m.phase = type
          /\ LET content == IF in'.skip \/ ~Unseen' THEN 0 ELSE Undelivered'
             IN  /\ content <= m.done /\ m.done <= Len(Bytes(type))
                 /\ more = First(Bytes(type), m.done - content)
                 /\ content > 0 => /\ (Ahead')[1].of.type = type
                                   /\ (Ahead')[1].of.from + (Ahead')[1].of.len = m.done
      BY <1>1, <1>5, <2>1, <2>2, <3>1, FlowsTaken
    <3>3. body' = more /\ env' = ParamBytes
      BY <1>1, <2>1, <2>2
    <3> HIDE DEF more
    <3>4. Flowing(m, "STDIN", body)'
      BY <3>2, <3>3 DEF Flowing
    <3>5. Placed(m)'
      BY <1>1, <1>2, <2>2, <3>2, <3>3, <3>4 DEF Placed
    <3> QED BY <1>2, <3>2, <3>5 DEF Located
  <2>3. CASE pc' = "fill" /\ UNCHANGED <<in, body>>
    <3>1. Unseen /\ header = <<>> /\ ~in.eorStop
      BY <1>1, InsideOf DEF TInv, InPlace
    <3>2. /\ Unseen' = Unseen /\ Undelivered' = Undelivered /\ Rest' = Rest
          /\ Current' = Current /\ Ahead' = Ahead
      BY <1>1, <2>3, <3>1 DEF Unseen, Undelivered, Rest, Current, Ahead
    <3>3. (Steady => Steady') /\ (InStep => InStep')
      BY <1>1, <2>3, <3>1, <3>2 DEF Steady, InStep
    <3>4. Flowing(m, "STDIN", body)'
      BY <2>1, <2>3, <3>2, <3>3 DEF Flowing
    <3>5. Placed(m)'
      BY <1>1, <1>2, <2>1, <2>3, <3>4 DEF Placed
    <3> QED BY <1>2, <1>5, <3>2, <3>5 DEF Located
  <2> QED BY <1>1, <2>2, <2>3
<1> QED BY <1>1, <1>2, <1>4, <1>5, ReadingStep

-----------------------------------------------------------------------------
(* Between two requests.                                                   *)

\* A connection that is new, or none: nothing has been sent.
LEMMA NewReads ==
  ASSUME Outside', body' = <<>>, server'.phase[1] = "begin", server'.phase[2] = "begin",
         server'.at[1] = 0, in'.buff = <<>>, header' = <<>>, wire' = <<>>, Genuine'
  PROVE  Reading'
<1> DEFINE m == Start("begin")
<1>1. ServerMark' = m /\ m \in Mark /\ m.phase = "begin"
  BY DEF ServerMark, Start, Mark
<1>2. Ahead' = <<>>
  <2>1. <<>> \o (<<>> \o <<>>) = <<>>
    OBVIOUS
  <2>2. (IF Unseen' THEN header' ELSE <<>>) = <<>>
    OBVIOUS
  <2> QED BY <2>1, <2>2 DEF Ahead
<1> HIDE DEF m
<1>3. Track(Ahead', m, ServerMark')
  BY <1>1, <1>2, TrackEmpty
<1>4. Placed(m)'
  <2>1. Left(Ahead') = 0
    BY <1>2 DEF Left
  <2> QED BY <1>1, <2>1 DEF Placed, Left
<1>5. Located'
  BY <1>1, <1>3, <1>4 DEF Located
<1>6. ~Lost'
  BY DEF Lost
<1> QED BY <1>5, <1>6 DEF Reading

\* A connection that is dropped.
LEMMA DroppedReads ==
  ASSUME Outside', body' = <<>>, server' = Dropped, in'.buff = <<>>, header' = <<>>,
         wire' = <<>>
  PROVE  Reading'
<1>1. server'.phase[1] = "begin" /\ server'.phase[2] = "begin" /\ server'.at[1] = 0
  BY DEF Dropped, NewConnection, Ids
<1>2. Genuine'
  BY DEF Dropped, NewConnection, Genuine
<1> QED BY <1>1, <1>2, NewReads

\* Outside the library the reader is not there: the connection stays as it is.
LEMMA OutsideReads ==
  ASSUME Reading, Outside, Outside', UNCHANGED <<body, server>>, Ahead' = Ahead,
         request.ipcFd => request'.ipcFd /\ request'.requestId = request.requestId
  PROVE  Reading'
<1>1. ASSUME ~server.unsafe PROVE Genuine' /\ Located'
  <2>1. ~Lost
    BY DEF Lost
  <2>2. PICK m \in Mark : Track(Ahead, m, ServerMark) /\ Placed(m)
    BY <1>1, <2>1 DEF Reading, Located
  <2>3. Placed(m)'
    BY <2>2 DEF Placed, Left
  <2>4. ServerMark' = ServerMark
    BY DEF ServerMark
  <2>5. Genuine'
    BY <1>1, <2>1 DEF Reading, Genuine
  <2> QED BY <2>2, <2>3, <2>4, <2>5 DEF Located
<1>2. ~Lost' /\ body = <<>>
  BY DEF Lost, Reading
<1> QED BY <1>1, <1>2 DEF Reading

\* Where the library is outside of FillBuffProc, the queue is what the buffer and
\* the wire hold.
LEMMA QueueOf ==
  ASSUME TInv, pc \notin {"fill", "header", "nested"}
  PROVE  /\ Ahead = in.buff \o wire /\ header = <<>> /\ Unseen /\ ~in.eorStop
         /\ in.buff = <<>> => Ahead = wire
<1>1. Unseen /\ header = <<>> /\ ~in.eorStop
  BY InsideOf DEF TInv, InPlace
<1>2. Ahead = <<>> \o (in.buff \o wire)
  BY <1>1 DEF Ahead
<1>3. in.buff \o wire \in Seq(Sound) /\ wire \in Seq(Sound)
  BY ReaderOf
<1>4. <<>> \o (in.buff \o wire) = in.buff \o wire /\ <<>> \o wire = wire
  BY <1>3, ConcatEmptySeq
<1> QED BY <1>1, <1>2, <1>4

\* The application asks for the next request.
LEMMA AcceptRequestReads ==
  ASSUME TInv, Reading, AcceptRequest
  PROVE  Reading'
<1>1. Outside /\ Outside' /\ Ahead' = Ahead
  BY DEF AcceptRequest, Outside, Ahead, Unseen
<1> QED BY <1>1, OutsideReads DEF AcceptRequest

\* A new request structure: of a connection that was kept nothing is known any more.
LEMMA InitRequestReads ==
  ASSUME TInv, Standing, Reading, InitRequest
  PROVE  Reading'
<1>1. /\ pc = "idle" /\ UNCHANGED <<pc, caller, header, in, env, body, wire>>
      /\ server' = IF request.ipcFd
                     THEN [server EXCEPT !.state = "forgotten", !.unsafe = TRUE]
                     ELSE server
      /\ ServerOK
  BY DEF InitRequest, TInv, Typed
<1>2. Outside /\ Outside' /\ body' = <<>>
  BY <1>1 DEF Outside, Reading
<1>3. CASE request.ipcFd
  <2>1. server'.unsafe /\ server'.phase = server.phase
    BY <1>1, <1>3 DEF ServerOK
  <2> QED BY <1>2, <2>1 DEF Reading
<1>4. CASE ~request.ipcFd
  <2>1. Ahead' = Ahead
    BY <1>1, <1>4 DEF Ahead, Unseen
  <2> QED BY <1>1, <1>2, <1>4, <2>1, OutsideReads
<1> QED BY <1>3, <1>4

\* FCGX_Accept_r begins to read, from a new connection or one that was kept.
LEMMA StartsReadingReads ==
  ASSUME TInv, Standing, Reading, Outside, StartsReading, UNCHANGED <<body, wire, server>>,
         ~request'.isBeginProcessed, request'.requestId = request.requestId
  PROVE  Reading'
<1>1. /\ pc \notin {"fill", "header", "nested"} /\ in.buff = <<>> /\ body = <<>>
  BY DEF Outside, Standing, Reading
<1>2. Ahead = wire
  BY <1>1, QueueOf
<1>3. /\ in'.buff = <<>> /\ in'.stop = 0 /\ in'.type = "NONE" /\ ~in'.eorStop
      /\ ~in'.skip /\ in'.contentLen = 0 /\ in'.paddingLen = 0 /\ ~in'.isClosed
      /\ ~in'.FCGI_errno /\ pc' = "fill" /\ caller' = "begun" /\ header' = <<>>
  BY DEF StartsReading, NewReader
<1>4. Unseen' /\ ~Outside' /\ ServerMark' = ServerMark /\ ~Lost /\ ~Lost'
  BY <1>3 DEF Unseen, Outside, ServerMark, Lost
<1>5. Ahead' = Ahead
  <2>1. Ahead' = <<>> \o (<<>> \o wire)
    BY <1>3, <1>4 DEF Ahead
  <2>2. <<>> \o wire = wire
    BY ReaderOf, ConcatEmptySeq
  <2> QED BY <1>2, <2>1, <2>2
<1>6. ASSUME ~server.unsafe PROVE Genuine' /\ Located'
  <2>0. Genuine' /\ Located
    BY <1>4, <1>6 DEF Reading, Genuine
  <2>1. PICK m \in Mark : Track(Ahead, m, ServerMark) /\ Placed(m)
    BY <2>0 DEF Located
  <2>2. (m.phase # "begin" => request.requestId = 1) /\ Left(Ahead) = 0
    BY <2>1 DEF Placed
  <2>3. Undelivered' = 0 /\ Rest' = 0
    BY <1>3 DEF Undelivered, Rest
  <2>4. Steady'
    BY <1>3, <1>4 DEF Steady
  <2>5. InStep'
    BY <1>5, <2>2, <2>3 DEF InStep, Left
  <2>6. Beginning(m)'
    BY <1>3, <1>4, <2>2, <2>3, <2>4, <2>5 DEF Beginning, Waits
  <2>7. Placed(m)'
    BY <1>3, <1>4, <2>6 DEF Placed
  <2> QED BY <1>4, <1>5, <2>0, <2>1, <2>7 DEF Located
<1> QED BY <1>1, <1>3, <1>4, <1>6 DEF Reading

\* The loop of FCGX_Accept_r.
LEMMA AcceptReads ==
  ASSUME TInv, Standing, Reading, Accept
  PROVE  Reading'
<1>1. /\ pc = "accept" /\ UNCHANGED <<env, body, wire>> /\ request \in Request
      /\ request' = IF pc' = "fill"
                  THEN [request EXCEPT !.ipcFd = TRUE, !.isBeginProcessed = FALSE]
                  ELSE request
  BY DEF Accept, TInv, Typed
<1>2. Outside /\ in.buff = <<>> /\ header = <<>> /\ body = <<>>
  BY <1>1, QueueOf DEF Outside, Standing, Reading
<1>3. CASE StartsReading /\ UNCHANGED server
  <2>1. pc' = "fill"
    BY <1>3 DEF StartsReading
  <2>2. ~request'.isBeginProcessed /\ request'.requestId = request.requestId
    BY <1>1, <2>1 DEF Request
  <2> QED BY <1>1, <1>2, <1>3, <2>2, StartsReadingReads
<1>4. CASE pc' = "idle" /\ UNCHANGED <<in, caller, header, server>>
  <2>1. Outside' /\ Ahead' = Ahead /\ request' = request
    BY <1>1, <1>4 DEF Outside, Ahead, Unseen
  <2> QED BY <1>1, <1>2, <1>4, <2>1, OutsideReads
<1>5. CASE server' = Dropped /\ ~IsUnixKeeper /\ UNCHANGED <<pc, in, caller, header>>
  <2>1. wire' = <<>> /\ Outside'
    BY <1>1, <1>5 DEF IsUnixKeeper, Outside
  <2> QED BY <1>1, <1>2, <1>5, <2>1, DroppedReads
<1> QED BY <1>3, <1>4, <1>5 DEF Accept

\* FCGX_Free closes the connection.
LEMMA TryAgainReads ==
  ASSUME TInv, Reading, TryAgain, pc \notin {"fill", "header", "nested"},
         caller # "serve", UNCHANGED body
  PROVE  Reading'
<1>1. Outside' /\ body' = <<>> /\ server' = Dropped /\ wire' = <<>> /\ header' = <<>>
  BY QueueOf DEF TryAgain, Outside, Reading
<1>2. in'.buff = <<>>
  BY DEF TryAgain, NewReader
<1> QED BY <1>1, <1>2, DroppedReads

\* A stream begins, behind the record that was read last.
LEMMA StreamStarts ==
  ASSUME TInv, pc \notin {"fill", "header", "nested"}, pc' \notin {"header", "nested"},
         NEW type \in {"PARAMS", "STDIN"}, in' = SetReaderType(in, type),
         UNCHANGED <<header, wire>>, NEW m \in Mark, m = Start(type), Left(Ahead) = 0
  PROVE  /\ Ahead' = Ahead /\ in'.FCGI_errno = in.FCGI_errno /\ ~in'.isClosed
         /\ Steady' /\ InStep' /\ in'.type = type /\ m.phase = type
         /\ LET content == IF in'.skip \/ ~Unseen' THEN 0 ELSE Undelivered'
            IN  /\ content <= m.done /\ m.done <= Len(Bytes(type))
                /\ <<>> = First(Bytes(type), m.done - content)
                /\ content > 0 => /\ (Ahead')[1].of.type = type
                                  /\ (Ahead')[1].of.from + (Ahead')[1].of.len = m.done
<1>1. Unseen /\ header = <<>>
  BY QueueOf
<1>2. /\ in'.buff = in.buff /\ in'.type = type /\ ~in'.eorStop /\ ~in'.skip
      /\ in'.contentLen = 0 /\ in'.paddingLen = 0 /\ in'.stop = 0 /\ ~in'.isClosed
      /\ in'.FCGI_errno = in.FCGI_errno
  BY ReaderOf DEF SetReaderType, Stream
<1>3. Unseen' /\ Ahead' = Ahead
  BY <1>1, <1>2 DEF Unseen, Ahead
<1>4. Undelivered' = 0 /\ Rest' = 0
  BY <1>2 DEF Undelivered, Rest
<1>5. Steady' /\ InStep'
  BY <1>1, <1>2, <1>3, <1>4 DEF Steady, InStep
<1>6. m.phase = type /\ m.done = 0
  BY DEF Start
<1>7. m.done <= Len(Bytes(type)) /\ <<>> = First(Bytes(type), m.done)
  <2>1. Len(Bytes(type)) \in Nat
    BY LengthsAssumption DEF Bytes
  <2>2. \A s : First(s, 0) = <<>>
    BY DEF First
  <2> QED BY <1>6, <2>1, <2>2
<1> QED BY <1>2, <1>3, <1>4, <1>5, <1>6, <1>7, FlowsOn

\* The request has begun: the parameters come next; or it has not.
LEMMA BegunReads ==
  ASSUME TInv, Standing, Reading, Begun
  PROVE  Reading'
<1>1. pc = "begun" /\ caller = "begun" /\ ~Outside /\ UNCHANGED body
  BY DEF Begun, Standing, Outside
<1>2. CASE TryAgain
  BY <1>1, <1>2, TryAgainReads
<1>3. CASE /\ request.isBeginProcessed /\ request.role = "RESPONDER"
           /\ in' = SetReaderType(in, "PARAMS") /\ env' = <<>>
           /\ pc' = "fill" /\ caller' = "params"
           /\ UNCHANGED <<header, request, wire, server>>
  <2>1. ~server.unsafe => ~Lost
    BY <1>1, <1>3 DEF Reading, Broken
  <2>2. in'.FCGI_errno = in.FCGI_errno
    BY <1>3, ReaderOf DEF SetReaderType, Stream
  <2>3. ~Outside' /\ (Lost' <=> Lost) /\ ServerMark' = ServerMark
    BY <1>1, <1>3, <2>2 DEF Outside, Lost, ServerMark
  <2>4. ASSUME ~server.unsafe PROVE Genuine' /\ Located'
    <3>0. Genuine' /\ Located
      BY <1>3, <2>1, <2>4 DEF Reading, Genuine
    <3>1. PICK m \in Mark : Track(Ahead, m, ServerMark) /\ Placed(m)
      BY <3>0 DEF Located
    <3> DEFINE type == "PARAMS"
    <3>2. m = Start(type) /\ Left(Ahead) = 0 /\ type \in {"PARAMS", "STDIN"}
      BY <1>1, <1>3, <3>1 DEF Placed
    <3>3. /\ Ahead' = Ahead
          /\ Steady' /\ InStep' /\ in'.type = type /\ m.phase = type
          /\ LET content == IF in'.skip \/ ~Unseen' THEN 0 ELSE Undelivered'
             IN  /\ content <= m.done /\ m.done <= Len(Bytes(type))
                 /\ <<>> = First(Bytes(type), m.done - content)
                 /\ content > 0 => /\ (Ahead')[1].of.type = type
                                   /\ (Ahead')[1].of.from + (Ahead')[1].of.len = m.done
      BY <1>1, <1>3, <3>2, StreamStarts
    <3>4. Flowing(m, "PARAMS", env)'
      BY <1>3, <3>3 DEF Flowing
    <3>5. Placed(m)'
      BY <1>3, <2>3, <3>4 DEF Placed
    <3> QED BY <2>3, <3>0, <3>1, <3>3, <3>5 DEF Located
  <2> QED BY <1>1, <1>3, <2>1, <2>3, <2>4 DEF Reading
<1> QED BY <1>2, <1>3 DEF Begun

\* The parameters have ended: the application is served; or they were cut.
LEMMA ParamsEndReads ==
  ASSUME TInv, Standing, Reading, ParamsEnd
  PROVE  Reading'
<1>1. /\ pc = "params" /\ caller = "params" /\ ~Outside /\ in.stop = 0 /\ UNCHANGED body
  BY DEF ParamsEnd, Standing, Outside
<1>2. CASE TryAgain
  BY <1>1, <1>2, TryAgainReads
<1>3. CASE /\ in' = SetReaderType(in, "STDIN") /\ pc' = "serve" /\ caller' = "serve"
           /\ UNCHANGED <<header, env, wire, server>>
  <2>1. in'.FCGI_errno = in.FCGI_errno
    BY <1>3, ReaderOf DEF SetReaderType, Stream
  <2>2. ~Outside' /\ (Lost' <=> Lost) /\ ServerMark' = ServerMark /\ body' = <<>>
    BY <1>1, <1>3, <2>1 DEF Outside, Lost, ServerMark, Reading
  <2>3. Broken'
    BY <1>3 DEF Broken
  <2>4. ASSUME ~server.unsafe, ~Lost PROVE Genuine' /\ Located'
    <3>0. Genuine' /\ Located
      BY <1>3, <2>4 DEF Reading, Genuine
    <3>1. PICK m \in Mark : Track(Ahead, m, ServerMark) /\ Placed(m)
      BY <3>0 DEF Located
    <3> DEFINE type == "STDIN"
    <3>2. m = Start(type) /\ Left(Ahead) = 0 /\ type \in {"PARAMS", "STDIN"}
          /\ env = ParamBytes
      BY <1>1, <3>1 DEF Placed
    <3>3. /\ Ahead' = Ahead /\ ~in'.isClosed
          /\ Steady' /\ InStep' /\ in'.type = type /\ m.phase = type
          /\ LET content == IF in'.skip \/ ~Unseen' THEN 0 ELSE Undelivered'
             IN  /\ content <= m.done /\ m.done <= Len(Bytes(type))
                 /\ <<>> = First(Bytes(type), m.done - content)
                 /\ content > 0 => /\ (Ahead')[1].of.type = type
                                   /\ (Ahead')[1].of.from + (Ahead')[1].of.len = m.done
      BY <1>1, <1>3, <3>2, StreamStarts
    <3>4. Flowing(m, "STDIN", body)'
      BY <2>2, <3>3 DEF Flowing
    <3>5. Placed(m)'
      BY <1>3, <2>2, <3>2, <3>3, <3>4 DEF Placed
    <3> QED BY <2>2, <3>0, <3>1, <3>3, <3>5 DEF Located
  <2> QED BY <1>3, <2>2, <2>3, <2>4 DEF Reading
<1> QED BY <1>2, <1>3 DEF ParamsEnd

\* FCGX_Finish_r keeps a connection only when its stream was in order.
LEMMA FinishKeeps ==
  ASSUME Finish
  PROVE  \/ server' = Dropped /\ wire' = <<>>
         \/ /\ server' = Kept /\ UNCHANGED wire /\ ~in.FCGI_errno
            /\ request' = [request EXCEPT !.nWriters = 0, !.ipcFd = TRUE]
<1>1. PICK e \in WriteAll(reply, CloseOutput(err, 2)) :
        \E o \in WriteAll(e.reply, CloseOutput(out, 1)) :
         LET failed == ~e.ok \/ ~o.ok \/ err.FCGI_errno \/ out.FCGI_errno
                       \/ in.FCGI_errno
             close  == ~request.keepConnection \/ failed
         IN  /\ request' = [request EXCEPT !.nWriters = 0, !.ipcFd = ~close]
             /\ IF close THEN server' = Dropped /\ wire' = <<>>
                         ELSE server' = Kept /\ UNCHANGED wire
  BY DEF Finish
<1>2. PICK o \in WriteAll(e.reply, CloseOutput(out, 1)) :
         LET failed == ~e.ok \/ ~o.ok \/ err.FCGI_errno \/ out.FCGI_errno
                       \/ in.FCGI_errno
             close  == ~request.keepConnection \/ failed
         IN  /\ request' = [request EXCEPT !.nWriters = 0, !.ipcFd = ~close]
             /\ IF close THEN server' = Dropped /\ wire' = <<>>
                         ELSE server' = Kept /\ UNCHANGED wire
  BY <1>1
<1> DEFINE failed == ~e.ok \/ ~o.ok \/ err.FCGI_errno \/ out.FCGI_errno
                     \/ in.FCGI_errno
           close == ~request.keepConnection \/ failed
<1>3. /\ request' = [request EXCEPT !.nWriters = 0, !.ipcFd = ~close]
      /\ IF close THEN server' = Dropped /\ wire' = <<>>
                  ELSE server' = Kept /\ UNCHANGED wire
  BY <1>2
<1>4. ~close => ~in.FCGI_errno
  OBVIOUS
<1>5. close \in BOOLEAN
  OBVIOUS
<1> HIDE DEF close
<1>6. CASE close
  BY <1>3, <1>6
<1>7. CASE ~close
  <2>1. (~close) = TRUE
    BY <1>5, <1>7
  <2> QED BY <1>3, <1>4, <1>7, <2>1
<1> QED BY <1>6, <1>7

\* FCGX_Finish_r: what is left in the buffer is forgotten.
LEMMA FinishReads ==
  ASSUME TInv, Standing, Reading, Finish
  PROVE  Reading'
<1>1. /\ pc = "serve" /\ pc' = "idle" /\ body' = <<>> /\ in' = NewReader("NONE")
      /\ UNCHANGED <<caller, header>>
  BY DEF Finish
<1>2. /\ caller = "serve" /\ ~Outside /\ Outside' /\ header = <<>>
      /\ Ahead = in.buff \o wire /\ in'.buff = <<>> /\ ~in'.eorStop
  BY <1>1, QueueOf DEF Standing, Outside, NewReader
<1>3. CASE server' = Dropped /\ wire' = <<>>
  BY <1>1, <1>2, <1>3, DroppedReads
<1>4. CASE /\ server' = Kept /\ UNCHANGED wire /\ ~in.FCGI_errno
           /\ request' = [request EXCEPT !.nWriters = 0, !.ipcFd = TRUE]
  <2>0. /\ server'.phase = server.phase /\ server'.at = server.at
        /\ server'.state = server.state /\ server'.forged = server.forged
        /\ server'.unsafe = (server.unsafe \/ Midway(wire))
    BY <1>4, KeptTypes DEF TInv, Typed
  <2>1. ~Lost /\ ~Lost' /\ ServerMark' = ServerMark
    BY <1>2, <1>4, <2>0 DEF Lost, ServerMark
  <2>2. Ahead' = wire
    <3>1. Ahead' = <<>> \o (<<>> \o wire)
      BY <1>1, <1>2, <1>4 DEF Ahead
    <3>2. <<>> \o wire = wire
      BY ReaderOf, ConcatEmptySeq
    <3> QED BY <3>1, <3>2
  <2>3. request'.ipcFd /\ request'.requestId = 1
    <3>1. request \in Request
      BY DEF TInv, Typed
    <3>2. request.requestId = 1
      BY <1>2 DEF Standing, Outside
    <3> QED BY <1>4, <3>1, <3>2 DEF Request
  <2>4. ASSUME ~server'.unsafe PROVE Genuine' /\ Located'
    <3>0. ~server.unsafe /\ ~Midway(wire)
      BY <2>0, <2>4
    <3>1. PICK first \in Mark : Track(Ahead, first, ServerMark)
      BY <2>1, <3>0 DEF Reading, Located
    <3>2. /\ Len(in.buff) \in 0..Len(in.buff \o wire)
          /\ Drop(in.buff \o wire, Len(in.buff)) = wire
      <4>1. in.buff \in Seq(Sound) /\ wire \in Seq(Sound)
        BY ReaderOf
      <4> QED BY ONLY <4>1, DropFirst
    <3>3. \E m \in Mark : Track(Drop(Ahead, Len(in.buff)), m, ServerMark)
      <4>1. Ahead \in Seq(Sound) /\ ServerMark \in Mark
        BY ReaderOf
      <4>2. Len(in.buff) \in 0..Len(Ahead)
        BY <1>2, <3>2
      <4> QED BY ONLY <3>1, <4>1, <4>2, first \in Mark, TrackDrop
    <3>4. PICK m \in Mark : Track(wire, m, ServerMark)
      BY <1>2, <3>2, <3>3
    <3>5. Left(Ahead)' = 0
      BY <2>2, <3>0 DEF Left, Midway
    <3>6. Placed(m)'
      BY <1>2, <2>3, <3>5 DEF Placed
    <3>7. Genuine'
      BY <2>0, <2>1, <3>0 DEF Reading, Genuine
    <3> QED BY <2>1, <2>2, <3>4, <3>6, <3>7 DEF Located
  <2> QED BY <1>1, <1>2, <2>0, <2>1, <2>4 DEF Reading
<1> QED BY <1>3, <1>4, FinishKeeps

-----------------------------------------------------------------------------
(* The writers, and the web server.                                        *)

\* A step that leaves the library, the queue and the marks alone.
LEMMA NothingReads ==
  ASSUME TInv, Reading, UNCHANGED <<pc, caller, header, request, in, env, body, wire>>,
         server'.phase = server.phase, server'.at = server.at,
         server'.unsafe = server.unsafe, Genuine => Genuine'
  PROVE  Reading'
<1>1. Ahead' = Ahead /\ ServerMark' = ServerMark /\ Outside' = Outside /\ Lost' = Lost
  BY DEF Ahead, Unseen, ServerMark, Outside, Lost
<1>2. \A m \in Mark : Placed(m) => Placed(m)'
  BY <1>1, PlacedStays DEF Left
<1>3. Located => Located'
  BY <1>1, <1>2 DEF Located
<1>4. Broken => Broken'
  BY DEF Broken
<1> QED BY <1>1, <1>3, <1>4 DEF Reading

\* The output says nothing about the input.
LEMMA ServeReads ==
  ASSUME TInv, Standing, Reading, Serve
  PROVE  Reading'
<1>1. CASE FPrintF \/ PrintError \/ Flush
  <2>1. UNCHANGED <<lib, body, wire, server>>
    BY <1>1 DEF FPrintF, PrintError, Flush
  <2> QED BY <2>1, NothingReads DEF lib, Genuine
<1> QED BY <1>1, ReadBodyReads, FinishReads DEF Serve

\* A new connection, which the library does not know of yet.
LEMMA ConnectReads ==
  ASSUME TInv, Standing, Reading, Connect
  PROVE  Reading'
<1>1. /\ server.state \in {"none", "forgotten"} /\ wire' = <<>>
      /\ UNCHANGED <<pc, caller, header, in, body>>
      /\ server' = NewConnection(server.count + 1)
  BY DEF Connect, lib
<1>2. /\ Outside /\ in.buff = <<>> /\ header = <<>> /\ body = <<>>
  BY <1>1, QueueOf DEF Standing, Outside, Reading
<1>3. server'.phase[1] = "begin" /\ server'.phase[2] = "begin" /\ server'.at[1] = 0
  BY <1>1 DEF NewConnection, Ids
<1>4. Outside' /\ Genuine'
  BY <1>1, <1>2 DEF Outside, NewConnection, Genuine
<1> QED BY <1>1, <1>2, <1>3, <1>4, NewReads

\* The web server hangs up: what it has sent is still on its way.
LEMMA HangUpReads ==
  ASSUME TInv, Reading, HangUp
  PROVE  Reading'
<1>1. /\ server.state = "open" /\ server' = [server EXCEPT !.state = "hungup"]
      /\ ServerOK
  BY DEF HangUp, TInv, Typed
<1>2. /\ server'.phase = server.phase /\ server'.at = server.at
      /\ server'.unsafe = server.unsafe /\ server'.forged = server.forged
  BY <1>1 DEF ServerOK
<1>3. Genuine => Genuine'
  BY <1>1, <1>2 DEF Genuine
<1> QED BY <1>2, <1>3, NothingReads DEF HangUp, lib

\* A record goes out.
LEMMA TransmitReads ==
  ASSUME TInv, Reading, NEW r, SoundRecord(r), NEW phase, NEW at,
         Transmit(r, phase, at), UNCHANGED <<lib, body>>,
         phase[2] # "begin" => phase[1] # "begin",
         NEW after, after = [phase |-> phase[1], done |-> at[1]],
         ~Unsafe(r) => Allowed(ServerMark, r) /\ after = After(ServerMark, r)
  PROVE  Reading'
<1> DEFINE q == Ahead \o Cells(r)
           n == server.odd + (IF \/ r.id = 0 \/ r.pad > 0 \/ r.type = "ABORT"
                                 \/ r.id = 2 /\ r.type = "BEGIN" THEN 1 ELSE 0)
           b == server.unsafe \/ Unsafe(r)
<1>1. /\ wire' = wire \o Cells(r) /\ ServerOK
      /\ server' = [server EXCEPT !.phase = phase, !.at = at, !.odd = n, !.unsafe = b]
      /\ UNCHANGED <<pc, caller, header, request, in, env, body>>
  BY DEF Transmit, TInv, Typed, ServerOK, lib
<1> HIDE DEF n
<1>2. /\ server'.phase = phase /\ server'.at = at /\ server'.unsafe = b
      /\ server'.state = server.state /\ server'.forged = server.forged
  BY <1>1 DEF ServerOK
<1>3. ServerMark' = after
  BY <1>2 DEF ServerMark
<1>4. Ahead' = q
  <2> DEFINE h == IF Unseen THEN header ELSE <<>>
             c == Cells(r)
  <2>1. h \in Seq(Sound) /\ in.buff \in Seq(Sound) /\ wire \in Seq(Sound)
        /\ in.buff \o wire \in Seq(Sound)
    BY ReaderOf
  <2>2. c \in Seq(Sound)
    BY CellsOf
  <2>3. Ahead' = h \o (in.buff \o (wire \o c)) /\ q = (h \o (in.buff \o wire)) \o c
    BY <1>1 DEF Ahead, Unseen
  <2> HIDE DEF h, c
  <2>4. (in.buff \o wire) \o c = in.buff \o (wire \o c)
    BY ONLY <2>1, <2>2, JoinCells, ZenonT(40)
  <2>5. (h \o (in.buff \o wire)) \o c = h \o ((in.buff \o wire) \o c)
    BY ONLY <2>1, <2>2, JoinCells, ZenonT(40)
  <2> QED BY <2>3, <2>4, <2>5
<1>5. /\ Outside' = Outside /\ Lost' = Lost /\ (Broken => Broken')
      /\ Genuine => Genuine'
  BY <1>1, <1>2 DEF Outside, Lost, Broken, Genuine
<1>6. ASSUME ~b, Located PROVE Located'
  <2>1. PICK m \in Mark : Track(Ahead, m, ServerMark) /\ Placed(m)
    BY <1>6 DEF Located
  <2>2. Allowed(ServerMark, r) /\ after = After(ServerMark, r)
    BY <1>6
  <2>3. /\ Track(q, m, after) /\ Left(q) = Left(Ahead)
        /\ Ahead # <<>> => q[1] = Ahead[1]
    <3>1. Ahead \in Seq(Sound) /\ ServerMark \in Mark
      BY ReaderOf
    <3> QED BY <2>1, <2>2, <3>1, TrackAppend
  <2> HIDE DEF q
  <2>4. Placed(m)'
    BY <1>1, <1>4, <2>1, <2>3, PlacedStays DEF Left
  <2> QED BY <1>3, <1>4, <2>3, <2>4 DEF Located
<1> QED BY <1>1, <1>2, <1>5, <1>6 DEF Reading

\* What a BEGIN_REQUEST says of its body.
LEMMA BeginIs ==
  ASSUME NEW id \in Ids, NEW pad \in {0, 1}, NEW role \in {"RESPONDER", "OTHER"},
         NEW keep \in BOOLEAN
  PROVE  BeginRequest(id, pad, role, keep).len = BeginLen
         /\ BeginRequest(id, pad, role, keep).pad = pad
<1> DEFINE t == Record("BEGIN", id, BeginLen, pad, 0)
           r == [t EXCEPT !.role = role, !.keep = keep]
<1>1. t = [type |-> "BEGIN", id |-> id, len |-> BeginLen, pad |-> pad, from |-> 0,
           role |-> "NONE", keep |-> FALSE]
  BY DEF Record
<1> HIDE DEF t
<1>2. r.len = BeginLen /\ r.pad = pad
  BY <1>1
<1>3. r = BeginRequest(id, pad, role, keep)
  BY DEF BeginRequest, t
<1> HIDE DEF r
<1> QED BY <1>2, <1>3

\* The web server begins a request.
LEMMA SendBeginReads ==
  ASSUME TInv, Reading, NEW id \in Ids, NEW pad \in {0, 1}, SendBegin(id, pad),
         UNCHANGED <<lib, body>>
  PROVE  Reading'
<1> DEFINE phase == [server.phase EXCEPT ![id] = "PARAMS"]
           at == [server.at EXCEPT ![id] = 0]
<1>1. PICK role \in {"RESPONDER", "OTHER"}, keep \in BOOLEAN :
        /\ id = 2 => role = "OTHER"
        /\ Transmit(BeginRequest(id, pad, role, keep), phase, at)
  BY DEF SendBegin
<1> DEFINE r == BeginRequest(id, pad, role, keep)
           after == [phase |-> phase[1], done |-> at[1]]
<1>2. /\ SoundRecord(r) /\ r.id = id /\ r.type = "BEGIN" /\ r.len = BeginLen
      /\ r.pad = pad
  BY <1>1, BeginIsSound, BeginIs
<1>3. /\ server.phase \in [Ids -> {"begin", "PARAMS", "STDIN", "done"}]
      /\ server.at \in [Ids -> Nat] /\ id \in {1, 2} /\ BeginLen \in Nat /\ BeginLen > 0
  BY LengthsAssumption DEF TInv, Typed, ServerOK, Ids
<1>4. id = 2 => server.phase[1] # "begin"
  BY DEF SendBegin
<1>5. /\ phase[id] = "PARAMS" /\ at[id] = 0
      /\ id = 2 => phase[1] = server.phase[1] /\ at[1] = server.at[1]
      /\ id = 1 => phase[2] = server.phase[2]
  BY <1>3 DEF Ids
<1> HIDE DEF r, phase, at
<1>6. phase[2] # "begin" => phase[1] # "begin"
  BY <1>3, <1>4, <1>5
<1>7. ASSUME ~Unsafe(r) PROVE Allowed(ServerMark, r) /\ after = After(ServerMark, r)
  <2>1. CASE id = 1
    <3>1. r.pad = 0
      BY <1>2, <1>7, <2>1 DEF Unsafe
    <3> QED BY <1>2, <1>5, <2>1, <3>1 DEF Allowed, After, Start
  <2>2. CASE id = 2
    <3>1. after = ServerMark
      BY <1>5, <2>2 DEF ServerMark
    <3>2. ServerMark.phase # "begin"
      BY <1>4, <2>2 DEF ServerMark
    <3> QED BY <1>2, <1>3, <2>2, <3>1, <3>2 DEF Allowed, After
  <2> QED BY <1>3, <2>1, <2>2
<1>8. after = [phase |-> phase[1], done |-> at[1]]
  OBVIOUS
<1>9. Transmit(r, phase, at)
  BY <1>1 DEF r
<1> HIDE DEF after
<1> QED BY <1>2, <1>6, <1>7, <1>8, <1>9, TransmitReads

\* The web server sends a piece of a stream, or its end.
LEMMA SendStreamReads ==
  ASSUME TInv, Reading, NEW id \in Ids, NEW pad \in {0, 1}, SendStream(id, pad),
         UNCHANGED <<lib, body>>
  PROVE  Reading'
<1> DEFINE type == server.phase[id]
           bytes == IF type = "PARAMS" THEN ParamBytes ELSE BodyBytes
           from == server.at[id]
           next == IF type = "PARAMS" /\ id = 1 THEN "STDIN" ELSE "done"
<1>1. type \in {"PARAMS", "STDIN"}
  BY DEF SendStream
<1>2. PICK n \in 0..(Len(bytes) - from) :
        /\ n = 0 => from = Len(bytes)
        /\ Transmit(Record(type, id, n, pad, from),
                    IF n = 0 THEN [server.phase EXCEPT ![id] = next] ELSE server.phase,
                    [server.at EXCEPT ![id] = IF n = 0 THEN 0 ELSE from + n])
  BY DEF SendStream
<1> DEFINE phase == IF n = 0 THEN [server.phase EXCEPT ![id] = next] ELSE server.phase
           at == [server.at EXCEPT ![id] = IF n = 0 THEN 0 ELSE from + n]
           r == Record(type, id, n, pad, from)
           after == [phase |-> phase[1], done |-> at[1]]
<1>3. /\ bytes = Bytes(type) /\ Len(ParamBytes) \in Nat /\ Len(BodyBytes) \in Nat
      /\ ServerOK /\ id \in {1, 2}
      /\ server.phase \in [Ids -> {"begin", "PARAMS", "STDIN", "done"}]
      /\ server.at \in [Ids -> Nat]
  BY <1>1, LengthsAssumption DEF Bytes, TInv, Typed, ServerOK, Ids
<1>4. from \in Nat /\ n \in Nat /\ from + n <= Len(bytes) /\ Len(bytes) \in Nat
  BY <1>2, <1>3 DEF ServerOK
<1>5. SoundRecord(r)
  BY <1>1, <1>4 DEF SoundRecord, Records, RecordTypes, Ids, Record
<1>6. r.type = type /\ r.id = id /\ r.len = n /\ r.pad = pad /\ r.from = from
  BY DEF Record
<1>7. /\ phase[id] = IF n = 0 THEN next ELSE type
      /\ at[id] = IF n = 0 THEN 0 ELSE from + n
      /\ id = 2 => phase[1] = server.phase[1] /\ at[1] = server.at[1]
      /\ id = 1 => phase[2] = server.phase[2]
  BY <1>3 DEF Ids
<1>8. server.phase[1] # "begin"
  <2>1. CASE id = 1
    BY <1>1, <2>1
  <2>2. CASE id = 2
    BY <1>1, <2>2 DEF Reading
  <2> QED BY <1>3, <2>1, <2>2
<1>9. Transmit(r, phase, at)
  BY <1>2 DEF r, phase, at
<1> HIDE DEF r, phase, at, bytes
<1>10. phase[2] # "begin" => phase[1] # "begin"
  <2>1. CASE id = 1
    BY <1>1, <1>7, <2>1
  <2>2. CASE id = 2
    BY <1>7, <1>8, <2>2
  <2> QED BY <1>3, <2>1, <2>2
<1>11. ASSUME ~Unsafe(r) PROVE Allowed(ServerMark, r) /\ after = After(ServerMark, r)
  <2>1. CASE id = 1
    <3>1. n = 0 => r.pad = 0
      <4>1. pad > 0 \/ pad = 0
        OBVIOUS
      <4> QED BY <1>6, <1>11, <2>1, <4>1 DEF Unsafe
    <3>2. ServerMark.phase = type /\ ServerMark.done = from
      BY <2>1 DEF ServerMark
    <3>3. Allowed(ServerMark, r)
      BY <1>1, <1>2, <1>3, <1>4, <1>6, <2>1, <3>1, <3>2 DEF Allowed
    <3>4. CASE n = 0
      <4>1. after = Start(next)
        BY <1>7, <2>1, <3>4 DEF Start
      <4> QED BY <1>1, <1>6, <2>1, <3>3, <3>4, <4>1 DEF After
    <3>5. CASE n # 0
      <4>1. n > 0
        BY <1>4, <3>5
      <4>2. after = [phase |-> type, done |-> from + n]
        BY <1>7, <2>1, <3>5
      <4> QED BY <1>1, <1>6, <2>1, <3>3, <4>1, <4>2 DEF After
    <3> QED BY <3>4, <3>5
  <2>2. CASE id = 2
    <3>1. after = ServerMark
      BY <1>7, <2>2 DEF ServerMark
    <3>2. n > 0
      BY <1>4, <1>6, <1>11, <2>2 DEF Unsafe
    <3>3. ServerMark.phase # "begin"
      BY <1>8 DEF ServerMark
    <3> QED BY <1>1, <1>6, <2>2, <3>1, <3>2, <3>3 DEF Allowed, After
  <2> QED BY <1>3, <2>1, <2>2
<1>12. after = [phase |-> phase[1], done |-> at[1]]
  OBVIOUS
<1> HIDE DEF after
<1> QED BY <1>5, <1>9, <1>10, <1>11, <1>12, TransmitReads

\* Whatever the web server sends.
LEMMA SendReads == ASSUME TInv, Reading, Send PROVE Reading'
<1>1. UNCHANGED <<lib, body>>
  BY DEF Send
<1>2. PICK pad \in {0, 1} :
        \/ \E id \in Ids : SendBegin(id, pad)
        \/ \E id \in Ids : SendStream(id, pad)
        \/ SendManagement(pad)
        \/ pad = 0 /\ SendAbort
  BY DEF Send
<1> DEFINE after == [phase |-> server.phase[1], done |-> server.at[1]]
<1>3. server.phase[2] # "begin" => server.phase[1] # "begin"
  BY DEF Reading
<1>4. after = ServerMark
  BY DEF ServerMark
<1>5. CASE SendManagement(pad)
  <2>1. PICK type \in {"GET_VALUES", "UNKNOWN"}, n \in 0..2 :
          Transmit(Record(type, 0, n, pad, 0), server.phase, server.at)
    BY <1>5 DEF SendManagement
  <2> DEFINE r == Record(type, 0, n, pad, 0)
  <2>2. SoundRecord(r) /\ r.type = type /\ r.id = 0 /\ r.len = n /\ n \in Nat
    BY DEF SoundRecord, Records, Record, RecordTypes
  <2> HIDE DEF r
  <2>3. ~Unsafe(r) => Allowed(ServerMark, r)
    BY <2>2 DEF Unsafe, Allowed
  <2>4. After(ServerMark, r) = ServerMark
    BY <2>2, AfterOther
  <2>5. Transmit(r, server.phase, server.at)
    BY <2>1 DEF r
  <2> QED BY <1>1, <1>3, <1>4, <2>2, <2>3, <2>4, <2>5, TransmitReads
<1>6. CASE SendAbort
  <2> DEFINE r == Record("ABORT", 1, 0, 0, 0)
  <2>1. Transmit(r, server.phase, server.at) /\ server.phase[1] # "begin"
    BY <1>6 DEF SendAbort
  <2>2. SoundRecord(r) /\ r.type = "ABORT" /\ r.id = 1
    BY DEF SoundRecord, Records, Record, RecordTypes
  <2> HIDE DEF r
  <2>3. Allowed(ServerMark, r)
    BY <2>1, <2>2 DEF Allowed, ServerMark
  <2>4. After(ServerMark, r) = ServerMark
    BY <2>2, AfterOther
  <2> QED BY <1>1, <1>3, <1>4, <2>1, <2>2, <2>3, <2>4, TransmitReads
<1> QED BY <1>1, <1>2, <1>5, <1>6, SendBeginReads, SendStreamReads

-----------------------------------------------------------------------------
(* The theorem.                                                            *)

\* Every step, of the web server, the library, the application or a signal.
LEMMA StepReads ==
  ASSUME TInv, TInv', Standing, server.forged \/ Answering, Reading, [Next]_vars
  PROVE  Reading'
<1>1. CASE Fill
  <2>1. CASE FillFails
    <3>1. /\ ReadError /\ pc = "fill"
          /\ UNCHANGED <<caller, request, env, body, server>>
      BY <2>1 DEF FillFails
    <3> QED BY <3>1, ReadErrorReads
  <2> QED BY <1>1, <2>1, FillReadReads, FillContentReads, FillRestReads DEF Fill
<1>2. CASE ProcessHeader
  BY <1>2, ProtocolErrorReads, MisreadReads, MultiplexedReads, ProcessContentReads, NestedTakeReads,
     NestedClosedReads, UnknownManagementReads, OtherRequestReads, StreamRecordReads
     DEF ProcessHeader
<1>3. CASE AcceptLoop
  BY <1>3, AcceptRequestReads, InitRequestReads, AcceptReads, BegunReads,
     ReadParamsReads, ParamsEndReads DEF AcceptLoop
<1>4. CASE WebServer
  BY <1>4, ConnectReads, HangUpReads, SendReads DEF WebServer
<1>5. CASE UNCHANGED vars
  <2>1. UNCHANGED <<pc, caller, header, request, in, env, body, wire, server>>
    BY <1>5 DEF vars, lib
  <2> QED BY <2>1, NothingReads DEF Genuine
<1> QED BY <1>1, <1>2, <1>3, <1>4, <1>5, ServeReads, Sigusr1Reads DEF Next, Library

\* Nothing has been sent and nothing is read.
LEMMA InitReads == ASSUME Init PROVE Reading
<1> DEFINE m == Start("begin")
<1>1. /\ pc = "idle" /\ header = <<>> /\ in.buff = <<>> /\ wire = <<>> /\ body = <<>>
      /\ server = [NewConnection(0) EXCEPT !.state = "none"]
  BY NewReaderReadable DEF Init
<1>2. /\ server.phase[1] = "begin" /\ server.phase[2] = "begin" /\ server.at[1] = 0
      /\ Genuine
  BY <1>1 DEF NewConnection, Ids, Genuine
<1>3. ServerMark = m /\ m \in Mark /\ m.phase = "begin"
  BY <1>2 DEF ServerMark, Start, Mark
<1>4. Ahead = <<>>
  <2>1. <<>> \o (<<>> \o <<>>) = <<>>
    OBVIOUS
  <2> QED BY <1>1, <2>1 DEF Ahead
<1> HIDE DEF m
<1>5. Track(Ahead, m, ServerMark)
  BY <1>3, <1>4, TrackEmpty
<1>6. Outside /\ ~Lost
  BY <1>1 DEF Outside, Lost
<1>7. Placed(m)
  BY <1>3, <1>4, <1>6 DEF Placed, Left
<1>8. Located
  BY <1>3, <1>5, <1>7 DEF Located
<1> QED BY <1>1, <1>2, <1>6, <1>8 DEF Reading

\* What was taken of a stream is a start of it.
LEMMA FlowingStarts ==
  ASSUME TInv, NEW m \in Mark, NEW type \in {"PARAMS", "STDIN"}, NEW taken,
         Flowing(m, type, taken)
  PROVE  taken \in Starts(Bytes(type))
<1> DEFINE content == IF in.skip \/ ~Unseen THEN 0 ELSE Undelivered
<1>1. /\ content <= m.done /\ m.done <= Len(Bytes(type))
      /\ taken = First(Bytes(type), m.done - content)
  BY DEF Flowing
<1>2. content \in Nat /\ m.done \in Nat /\ Len(Bytes(type)) \in Nat
  BY ReaderOf, LengthsAssumption DEF Mark, Bytes
<1> HIDE DEF content
<1>3. m.done - content \in 0..Len(Bytes(type))
  BY <1>1, <1>2
<1> QED BY <1>1, <1>3 DEF Starts

\* All of a stream is a start of it.
LEMMA AllStarts ==
  ASSUME NEW bytes \in Seq(0..255)
  PROVE  bytes \in Starts(bytes)
<1>1. First(bytes, Len(bytes)) = bytes
  BY FirstAll, Zenon
<1>2. Len(bytes) \in 0..Len(bytes)
  OBVIOUS
<1> QED BY <1>1, <1>2 DEF Starts

\* Where the reader is says what the application has.
LEMMA ReadingIsIntact == ASSUME TInv, Standing, Reading PROVE InputIntact
<1> SUFFICES ASSUME ~server.unsafe
             PROVE  /\ pc = "params" => env \in Starts(ParamBytes)
                    /\ pc = "serve" /\ ~in.FCGI_errno =>
                         /\ env = ParamBytes /\ body \in Starts(BodyBytes)
                         /\ in.isClosed => body = BodyBytes
  BY DEF InputIntact
<1>1. /\ ParamBytes \in Starts(ParamBytes) /\ BodyBytes \in Starts(BodyBytes)
      /\ Bytes("PARAMS") = ParamBytes /\ Bytes("STDIN") = BodyBytes
  BY AllStarts, LengthsAssumption DEF Bytes
<1>2. ASSUME pc = "params" PROVE env \in Starts(ParamBytes)
  <2>1. caller = "params" /\ ~Outside
    BY <1>2 DEF Standing, Outside
  <2>2. CASE Lost
    BY <2>1, <2>2 DEF Reading, Broken
  <2>3. CASE ~Lost
    <3>1. PICK m \in Mark : Placed(m)
      BY <2>3 DEF Reading, Located
    <3>2. env = ParamBytes \/ Flowing(m, "PARAMS", env)
      BY <2>1, <3>1 DEF Placed
    <3> QED BY <1>1, <3>2, FlowingStarts
  <2> QED BY <2>2, <2>3
<1>3. ASSUME pc = "serve", ~in.FCGI_errno
      PROVE  /\ env = ParamBytes /\ body \in Starts(BodyBytes)
             /\ in.isClosed => body = BodyBytes
  <2>1. caller = "serve" /\ ~Outside /\ ~Lost
    BY <1>3 DEF Standing, Outside, Lost
  <2>2. PICK m \in Mark : Placed(m)
    BY <2>1 DEF Reading, Located
  <2>3. /\ env = ParamBytes
        /\ IF in.isClosed THEN body = BodyBytes ELSE Flowing(m, "STDIN", body)
    BY <1>3, <2>1, <2>2 DEF Placed
  <2>4. ~in.isClosed => body \in Starts(BodyBytes)
    BY <1>1, <2>3, FlowingStarts
  <2> QED BY <1>1, <2>3, <2>4
<1> QED BY <1>2, <1>3

\* The application reads what the web server has sent, each byte once, in order, in
\* the right stream and to the end: for every length of the streams, of the buffers
\* and of the records, with whatever padding, however the reads cut the records,
\* whatever records of the library or of other requests lie between, and on whichever
\* request of a connection that is kept.  Until the web server has sent a record
\* after which the library loses its place, or the application has finished in the
\* middle of a record of a connection that is kept: what is left of the record is
\* then taken for headers.  As long as neither has happened no header is taken that
\* the web server has not sent (Genuine).
THEOREM InputTheorem == Spec => []InputIntact
<1> DEFINE Inv == IInv /\ Reading
<1>1. Init => Inv
  BY InitTypes, InitAnswers, InitReads DEF IInv
<1>2. Inv /\ [Next]_vars => Inv'
  <2> SUFFICES ASSUME Inv, [Next]_vars PROVE Inv'
    OBVIOUS
  <2>1. TInv /\ Standing /\ (server.forged \/ Answering) /\ Reading
    BY DEF IInv
  <2>2. TInv'
    BY <2>1, StepTypes
  <2>3. Standing' /\ (server.forged \/ Answering)'
    BY <2>1, <2>2, StepStands, StepKeeps
  <2>4. Reading'
    BY <2>1, <2>2, StepReads
  <2> QED BY <2>2, <2>3, <2>4 DEF IInv
<1>3. Inv => InputIntact
  BY ReadingIsIntact DEF IInv
<1> HIDE DEF Inv
<1> QED BY <1>1, <1>2, <1>3, PTL DEF Spec
=============================================================================
