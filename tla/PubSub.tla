------------------------------- MODULE PubSub -------------------------------
(***************************************************************************)
(* What a proxy of notifications promises, without tokens, queues or       *)
(* sockets: subscribers gather in topics; a notification reaches all those *)
(* of one topic that are present, at once, and nobody else; an answer      *)
(* reaches one subscriber, and the proxy may give one subscriber up for    *)
(* it, not always the one it answers.  The proxy may stop half way         *)
(* through; then some have received the notification, and nothing follows. *)
(***************************************************************************)
EXTENDS Sequences

CONSTANTS Subscribers, Frames

VARIABLES
  topics,     \* disjoint sets of subscribers, none of them empty
  present,    \* subscribers that can be reached
  received,   \* what each subscriber has received
  stopped

vars == <<topics, present, received, stopped>>

Init ==
  /\ topics = {} /\ present = {} /\ ~stopped
  /\ received = [s \in Subscribers |-> <<>>]

Come(s) ==
  /\ ~stopped /\ s \notin UNION topics
  /\ present' = present \cup {s}
  /\ UNCHANGED <<topics, received, stopped>>

Leave(s) ==
  /\ ~stopped
  /\ present' = present \ {s}
  /\ UNCHANGED <<topics, received, stopped>>

\* A subscriber joins one topic, which may be new, and stays there; one that
\* has left meanwhile may still join.
Subscribe(s) ==
  /\ ~stopped /\ s \notin UNION topics
  /\ \E T \in topics \cup {{}} : topics' = (topics \ {T}) \cup {T \cup {s}}
  /\ UNCHANGED <<present, received, stopped>>

\* With a topic its subscribers go.
Withdraw(T) ==
  /\ ~stopped
  /\ topics' = topics \ {T} /\ present' = present \ T
  /\ UNCHANGED <<received, stopped>>

\* f reaches those of S that are present.
Deliver(S, f) ==
  received' = [s \in Subscribers |->
                 IF s \in S \cap present THEN Append(received[s], f) ELSE received[s]]

Publish(T, f) ==
  /\ ~stopped /\ f.observe /\ Deliver(T, f)
  /\ UNCHANGED <<topics, present, stopped>>

\* An answer ends an exchange, and with it one subscriber may go.
AnswerTo(s, f) ==
  /\ ~stopped /\ ~f.observe /\ Deliver({s}, f)
  /\ present' \in {present} \cup {present \ {t} : t \in Subscribers}
  /\ UNCHANGED <<topics, stopped>>

\* The proxy stops while it passes f on to one topic, or at any other moment,
\* and may give subscribers up as it does.
Stop ==
  /\ ~stopped /\ stopped' = TRUE
  /\ \/ UNCHANGED received
     \/ \E T \in topics, f \in Frames : \E S \in SUBSET T : Deliver(S, f)
  /\ present' \in SUBSET present /\ UNCHANGED topics

Next ==
  \/ \E s \in Subscribers : Come(s) \/ Leave(s) \/ Subscribe(s)
  \/ \E T \in topics : Withdraw(T) \/ \E f \in Frames : Publish(T, f)
  \/ \E s \in Subscribers, f \in Frames : AnswerTo(s, f)
  \/ Stop

Spec == Init /\ [][Next]_vars
=============================================================================
