----------------------------- MODULE Membership -----------------------------
(***************************************************************************)
(* What the channels promise their users, without the records the server   *)
(* keeps for it: who is on a channel and with which rights, who may change *)
(* that, who is let in, and that nothing of a channel outlives its last    *)
(* member.  Executor implements this specification.                        *)
(***************************************************************************)
CONSTANTS Client, Channel, Topic, NoTopic

VARIABLES
  role,     \* what a client is on a channel
  flags,    \* "i": invite only; "t": the topic is for operators
  subject,  \* the topic
  guests    \* who may enter an invite-only channel

abstractVars == <<role, flags, subject, guests>>

On(ch) == {c \in Client : role[ch][c] # "none"}

IsOperator(c, ch) == role[ch][c] = "operator"

Open(ch) == "i" \notin flags[ch]

\* Whoever founds a channel is its operator; a guest is let in once.
Enter(c, S) ==
  /\ \A ch \in S :
       /\ c \notin On(ch)
       /\ On(ch) = {} \/ Open(ch) \/ c \in guests[ch]
  /\ role' = [ch \in Channel |->
       IF ch \notin S THEN role[ch]
       ELSE [role[ch] EXCEPT ![c] = IF On(ch) = {} THEN "operator" ELSE "regular"]]
  /\ guests' = [ch \in Channel |->
                  IF ch \in S THEN guests[ch] \ {c} ELSE guests[ch]]
  /\ UNCHANGED <<flags, subject>>

\* c leaves the channels of S; one that is empty then is as good as new.
Exit(c, S) ==
  LET closed == {ch \in S : On(ch) \subseteq {c}}
  IN  /\ role' = [ch \in Channel |->
           IF ch \in S THEN [role[ch] EXCEPT ![c] = "none"] ELSE role[ch]]
      /\ flags'   = [ch \in Channel |-> IF ch \in closed THEN {"t"} ELSE flags[ch]]
      /\ subject' = [ch \in Channel |->
                       IF ch \in closed THEN NoTopic ELSE subject[ch]]
      /\ guests'  = [ch \in Channel |-> IF ch \in closed THEN {} ELSE guests[ch]]

\* An operator, and nobody else, removes others, grants and revokes rights,
\* changes the flags and invites.
Remove(op, c, ch) == IsOperator(op, ch) /\ Exit(c, {ch})

Regrade(op, c, ch, rank) ==
  /\ IsOperator(op, ch)
  /\ c \in On(ch)
  /\ role' = [role EXCEPT ![ch][c] = rank]
  /\ UNCHANGED <<flags, subject, guests>>

Configure(op, ch, F) ==
  /\ IsOperator(op, ch)
  /\ flags' = [flags EXCEPT ![ch] = F]
  /\ UNCHANGED <<role, subject, guests>>

Admit(op, c, ch) ==
  /\ IsOperator(op, ch)
  /\ guests' = [guests EXCEPT ![ch] = @ \cup {c}]
  /\ UNCHANGED <<role, flags, subject>>

\* With +t the topic is an operator's to set, without it any member's.
Discuss(c, ch, t) ==
  /\ IF "t" \in flags[ch] THEN IsOperator(c, ch) ELSE c \in On(ch)
  /\ subject' = [subject EXCEPT ![ch] = t]
  /\ UNCHANGED <<role, flags, guests>>

Init ==
  /\ role    = [ch \in Channel |-> [c \in Client |-> "none"]]
  /\ flags   = [ch \in Channel |-> {"t"}]
  /\ subject = [ch \in Channel |-> NoTopic]
  /\ guests  = [ch \in Channel |-> {}]

Next ==
  \/ \E c \in Client, S \in SUBSET Channel : Enter(c, S) \/ Exit(c, S)
  \/ \E op, c \in Client, ch \in Channel :
       \/ Remove(op, c, ch)
       \/ \E rank \in {"regular", "operator"} : Regrade(op, c, ch, rank)
       \/ Admit(op, c, ch)
  \/ \E op \in Client, ch \in Channel, F \in SUBSET {"i", "t"} : Configure(op, ch, F)
  \/ \E c \in Client, ch \in Channel, t \in Topic \cup {NoTopic} : Discuss(c, ch, t)

Spec == Init /\ [][Next]_abstractVars
=============================================================================
