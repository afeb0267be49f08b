--------------------------- MODULE ExecutorActions ---------------------------
(***************************************************************************)
(* What one command may and may not do, proved: Executor's action          *)
(* properties, for every set of clients, channels and names.  They follow  *)
(* from the inductive invariant of ExecutorProofs and, for each handler,   *)
(* from what it does to the roster and what it writes to whom, which the   *)
(* first lemmas here state once.                                           *)
(***************************************************************************)
EXTENDS ExecutorProofs

-----------------------------------------------------------------------------
(* What the handlers do, as seen from outside. *)

\* Who is on a channel is live, and so is who shares one with somebody or has a name.
LEMMA LiveFacts ==
  ASSUME IndInv
  PROVE  /\ \A ch \in Channel : \A d \in Members(ch) : d \in Client /\ status[d] # "FREE"
         /\ \A c \in Client : \A d \in Audience(c) : d \in Client /\ status[d] # "FREE"
         /\ \A n : \A d \in Named(n) : d \in Client /\ status[d] # "FREE"
<1>1. \A ch \in Channel : \A d \in Members(ch) : d \in Client /\ status[d] # "FREE"
  BY DEF IndInv, StateTypeOK, MembersRegistered, Members
<1>2. \A c \in Client : channelList[c] \subseteq Channel
  BY DEF IndInv, StateTypeOK
<1>3. \A c \in Client : \A d \in Audience(c) : d \in Client /\ status[d] # "FREE"
  BY <1>1, <1>2 DEF Audience
<1> QED BY <1>1, <1>3 DEF Named, Live

\* What is broadcast on a channel reaches everybody on it.
LEMMA BroadcastReaches ==
  ASSUME IndInv, NEW ch \in Channel, NEW m, Broadcast(Members(ch), m)
  PROVE  \A d \in Members(ch) : m \in sendBuf'[d]
BY LiveFacts DEF Broadcast, Reply, To

\* The clients that share a channel with c are its audience.
LEMMA AudienceFacts ==
  ASSUME IndInv, NEW c \in Client
  PROVE  /\ \A ch \in Channel : c \in Members(ch) => Members(ch) \subseteq Audience(c)
         /\ channelList[c] = {} \/ c \in Audience(c)
<1>1. \A ch \in Channel : c \in Members(ch) <=> ch \in channelList[c]
  BY DEF IndInv, RosterInv, RosterAgreement
<1>2. channelList[c] \subseteq Channel
  BY DEF IndInv, StateTypeOK
<1> QED BY <1>1, <1>2 DEF Audience

\* JOIN puts c on the channels it lists up to the one that stops it, as the operator of
\* those that are new; elsewhere nobody's place changes.
LEMMA JoinMembers ==
  ASSUME IndInv, NEW c \in Client, NEW list \in Lists(Channel), Join(c, list),
         NEW ch \in Channel
  PROVE  /\ ch \notin Joined(c, list) =>
              Members(ch)' = Members(ch) /\ operators'[ch] = operators[ch]
         /\ ch \in Joined(c, list) =>
              /\ c \notin Members(ch) /\ ~InviteRefused(c, ch)
              /\ Members(ch)' = Members(ch) \cup {c}
              /\ ch \notin channels => operators'[ch] = {c}
              /\ ch \in channels => /\ operators'[ch] = operators[ch]
                                    /\ invited'[ch] = invited[ch] \ {c}
         /\ UNCHANGED <<status, auth, nickname, mode, topic>>
<1> DEFINE J == Joined(c, list)
<1>1. ch \in J => c \notin Members(ch) /\ ~InviteRefused(c, ch)
  BY JoinedChannels
<1>2. /\ operators' = [x \in Channel |-> IF x \in J \ channels THEN {c} ELSE operators[x]]
      /\ regulars' = [x \in Channel |-> IF x \in J \cap channels THEN regulars[x] \cup {c}
                                                                 ELSE regulars[x]]
      /\ invited' = [x \in Channel |-> IF x \in J \cap channels THEN invited[x] \ {c}
                                                                ELSE invited[x]]
      /\ UNCHANGED <<status, auth, nickname, mode, topic>>
  BY DEF Join, clientVars
<1> HIDE DEF J
<1>3. Members(ch)' = IF ch \in J THEN Members(ch) \cup {c} ELSE Members(ch)
  BY <1>1, <1>2 DEF Members, IndInv, RosterInv, ChannelIffOccupied
<1> QED BY <1>1, <1>2, <1>3 DEF J

\* It writes to everybody on them, c included, and otherwise only to c.
LEMMA JoinSends ==
  ASSUME IndInv, NEW c \in Client, NEW list \in Lists(Channel), Join(c, list)
  PROVE  /\ \A ch \in Joined(c, list) : \A d \in Members(ch) \cup {c} :
              Msg("JOIN", c, ch, NoNick) \in sendBuf'[d] /\ d \in clientList'
         /\ \A d \in Client : \A m \in sendBuf'[d] : m.from = c /\ (d = c \/ d \in clientList')
         /\ \A d \in clientList' : d = c \/ \E ch \in Channel : d \in Members(ch)
<1> DEFINE J     == Joined(c, list)
           names == {Msg("353", c, ch, NoNick) : ch \in J}
<1>1. J \subseteq Channel
  BY JoinedChannels
<1>2. PICK error \in SUBSET {Numeric("473", c)} :
        Reply([JoinReplies(c, J) EXCEPT ![c] = @ \cup names \cup error],
              UNION {Members(ch) \cup {c} : ch \in J})
  BY DEF Join
<1> HIDE DEF J
<1>3. \A m \in names \cup error : m.from = c
  BY DEF Msg, Numeric
<1> HIDE DEF names
<1>4. clientList' = UNION {Members(ch) \cup {c} : ch \in J}
  BY <1>2 DEF Reply
<1>5. \A d \in Client : sendBuf'[d] = IF d = c THEN JoinReplies(c, J)[c] \cup names \cup error
                                               ELSE JoinReplies(c, J)[d]
  BY <1>2 DEF Reply, JoinReplies
<1>6. \A d \in Client : JoinReplies(c, J)[d] =
        {Msg("JOIN", c, ch, NoNick) : ch \in {x \in J : d \in Members(x) \cup {c}}}
  BY DEF JoinReplies
<1>7. ASSUME NEW ch \in J, NEW d \in Members(ch) \cup {c}
      PROVE  Msg("JOIN", c, ch, NoNick) \in sendBuf'[d] /\ d \in clientList'
  <2>1. d \in Client
    BY <1>1, LiveFacts
  <2>2. Msg("JOIN", c, ch, NoNick) \in JoinReplies(c, J)[d]
    BY <1>6, <2>1
  <2> QED BY <1>4, <1>5, <2>1, <2>2
<1>8. ASSUME NEW d \in Client, NEW m \in sendBuf'[d]
      PROVE  m.from = c /\ (d = c \/ d \in clientList')
  <2>1. CASE m \in JoinReplies(c, J)[d]
    BY <1>4, <1>6, <2>1 DEF Msg
  <2>2. CASE d = c /\ m \in names \cup error
    BY <1>3, <2>2
  <2> QED BY <1>5, <2>1, <2>2
<1>9. \A d \in clientList' : d = c \/ \E ch \in Channel : d \in Members(ch)
  BY <1>1, <1>4
<1> QED BY <1>7, <1>8, <1>9 DEF J

\* Whoever leaves the channels of S is on none of them; what a channel is set to is
\* reset where nobody is left, and stays elsewhere.
LEMMA LeaveEffect ==
  ASSUME IndInv, NEW c \in Client, NEW S \in SUBSET channels, Leave(c, S)
  PROVE  \A ch \in Channel :
           /\ \A d : d \in Members(ch)' <=> d \in Members(ch) /\ ~(d = c /\ ch \in S)
           /\ \A d : d \in operators'[ch] <=> d \in operators[ch] /\ ~(d = c /\ ch \in S)
           /\ ch \in channels' => mode'[ch] = mode[ch] /\ topic'[ch] = topic[ch]
<1>1. S \in SUBSET Channel
  BY DEF IndInv, StateTypeOK
<1>2. \A ch \in Channel :
        /\ operators'[ch] = IF ch \in S THEN operators[ch] \ {c} ELSE operators[ch]
        /\ regulars'[ch]  = IF ch \in S THEN regulars[ch] \ {c} ELSE regulars[ch]
  BY <1>1, LeaveMembers DEF IndInv, RosterInv, Leave
<1>3. \A ch \in Channel : \A d :
        d \in Members(ch)' <=> d \in Members(ch) /\ ~(d = c /\ ch \in S)
  BY <1>2 DEF Members
<1>4. \A ch \in Channel : ch \in channels' => mode'[ch] = mode[ch] /\ topic'[ch] = topic[ch]
  BY DEF Leave, EraseClient
<1> QED BY <1>2, <1>3, <1>4

\* PART writes to everybody on the channels it leaves, the one who leaves included.
LEMMA PartEffect ==
  ASSUME IndInv, NEW c \in Client, NEW list \in Lists(Channel), Part(c, list)
  PROVE  \E left \in SUBSET channels :
           /\ Leave(c, left) /\ UNCHANGED clientVars
           /\ \A ch \in left : \A d \in Members(ch) :
                Msg("PART", c, ch, NoNick) \in sendBuf'[d]
           /\ \A d \in Client : \A m \in sendBuf'[d] :
                m.from = c /\ (d = c \/ \E ch \in left : d \in Members(ch))
           /\ clientList' = UNION {Members(ch) : ch \in left}
<1> DEFINE left == {list[i] : i \in DOMAIN list} \cap channels
<1>1. left \in SUBSET channels /\ left \in SUBSET Channel
  BY DEF IndInv, StateTypeOK
<1>2. PICK error \in SUBSET {Numeric("403", c)} :
        Reply([PartReplies(c, left) EXCEPT ![c] = @ \cup error],
              UNION {Members(ch) : ch \in left})
  BY DEF Part
<1>3. Leave(c, left) /\ UNCHANGED clientVars
  BY DEF Part
<1> HIDE DEF left
<1>4. \A d \in Client : PartReplies(c, left)[d] =
        {Msg("PART", c, ch, NoNick) : ch \in {x \in left : d \in Members(x)}}
  BY DEF PartReplies
<1>5. /\ \A d \in Client : sendBuf'[d] = IF d = c THEN PartReplies(c, left)[c] \cup error
                                                  ELSE PartReplies(c, left)[d]
      /\ clientList' = UNION {Members(ch) : ch \in left}
  BY <1>2 DEF Reply, PartReplies
<1>6. ASSUME NEW ch \in left, NEW d \in Members(ch)
      PROVE  Msg("PART", c, ch, NoNick) \in sendBuf'[d]
  <2>1. d \in Client
    BY <1>1, LiveFacts
  <2>2. Msg("PART", c, ch, NoNick) \in PartReplies(c, left)[d]
    BY <1>4, <2>1
  <2> QED BY <1>5, <2>1, <2>2
<1>7. ASSUME NEW d \in Client, NEW m \in sendBuf'[d]
      PROVE  m.from = c /\ (d = c \/ \E ch \in left : d \in Members(ch))
  <2>1. CASE m \in PartReplies(c, left)[d]
    BY <1>4, <2>1 DEF Msg
  <2>2. CASE d = c /\ m \in error
    BY <2>2 DEF Numeric, Msg
  <2> QED BY <1>5, <2>1, <2>2
<1> QED BY <1>1, <1>3, <1>5, <1>6, <1>7

\* A KICK that is granted comes from an operator of the channel, and everybody on it
\* is told.
LEMMA KickEffect ==
  ASSUME IndInv, NEW c \in Client, NEW ch \in Channel, NEW n \in Addressee, Kick(c, ch, n),
         TargetCheck(c, ch, n) = Granted
  PROVE  /\ ch \in channels /\ c \in operators[ch]
         /\ \E target \in Client : nickname[target] = n /\ Leave(target, {ch})
         /\ Broadcast(Members(ch), Msg("KICK", c, ch, n)) /\ UNCHANGED clientVars
<1>1. ch \in channels /\ c \in operators[ch]
  BY CheckFacts
<1>2. /\ \E target \in Named(n) : Leave(target, {ch})
      /\ Broadcast(Members(ch), Msg("KICK", c, ch, n)) /\ UNCHANGED clientVars
  BY DEF Kick
<1> QED BY <1>1, <1>2 DEF Named, Live

\* deleteClient takes the client off every channel it is on.
LEMMA DeleteEffect ==
  ASSUME IndInv, NEW c \in Client, DeleteClient(c)
  PROVE  /\ channelList[c] \in SUBSET channels /\ Leave(c, channelList[c])
         /\ \A d \in Client : /\ status'[d] = IF d = c THEN "FREE" ELSE status[d]
                              /\ d # c => nickname'[d] = nickname[d]
         /\ Silence
BY DEF DeleteClient, IndInv, StateTypeOK, RosterInv, RosterAgreement, ChannelIffOccupied

\* Nothing but these four changes who is on a channel.
LEMMA MembersStep ==
  ASSUME IndInv, Next
  PROVE  \/ \A ch \in Channel : Members(ch)' = Members(ch)
         \/ \E c \in Client, list \in Lists(Channel) : Join(c, list)
         \/ \E c \in Client, list \in Lists(Channel) : Part(c, list)
         \/ \E c \in Client, ch \in Channel, n \in Addressee :
              Kick(c, ch, n) /\ TargetCheck(c, ch, n) = Granted
         \/ \E c \in Client : DeleteClient(c)
<1>1. CASE UNCHANGED rosterVars
  BY <1>1 DEF rosterVars, Members
<1>2. PICK c \in Client : Accept(c) \/ Connect(c) \/ Execute(c) \/ Timeout(c) \/ DeleteClient(c)
  BY DEF Next
<1>3. CASE Accept(c) \/ Timeout(c)
  BY <1>1, <1>3 DEF Accept, Timeout
<1>4. CASE Connect(c)
  BY <1>1, <1>4
  DEF Connect, Pass, User, FirstNick, NotRegistered, Authenticate, Refuse, state, rosterVars
<1>5. CASE Execute(c)
  <2>1. CASE UNCHANGED state
    BY <1>1, <2>1 DEF state, rosterVars
  <2>2. CASE \E ch \in Channel, f \in Flags, on \in BOOLEAN : SetFlag(c, ch, f, on)
    BY <1>1, <2>1, <2>2 DEF SetFlag, Refuse
  <2>3. CASE \E ch \in Channel, n \in Nick, promote \in BOOLEAN : SetOperator(c, ch, n, promote)
    <3>1. PICK ch \in Channel, n \in Nick, promote \in BOOLEAN :
            \/ UNCHANGED state
            \/ \E target \in Named(n) : UpdateRole(c, ch, target, promote)
      BY <2>3 DEF SetOperator, Refuse
    <3>2. Named(n) \subseteq Client
      BY DEF Named, Live
    <3> QED BY <2>1, <3>1, <3>2, UpdateRoleRoster DEF IndInv
  <2>4. CASE \E ch \in Channel, t \in Topic \cup {NoTopic} : SetTopic(c, ch, t)
    BY <1>1, <2>1, <2>4 DEF SetTopic, Refuse
  <2>5. CASE \E n \in Nick, ch \in Channel : Invite(c, n, ch)
    BY <1>1, <2>1, <2>5 DEF Invite, Refuse
  <2>6. CASE \E ch \in Channel, n \in Addressee : Kick(c, ch, n)
    BY <2>1, <2>6 DEF Kick, Refuse
  <2>7. CASE \E n \in Nick : NewNick(c, n)
    BY <1>1, <2>1, <2>7 DEF NewNick, Refuse
  <2>8. CASE Quit(c)
    BY <1>1, <2>8 DEF Quit
  <2>9. CASE \/ \E list \in Lists(Channel \cup Addressee), first \in Client :
                  Privmsg(c, list, first)
             \/ \E n \in Addressee : Notice(c, n)
             \/ Pong(c)
             \/ Ignored(c)
    BY <2>1, <2>9 DEF Privmsg, Notice, Refuse, Pong, Ignored
  <2> QED BY <1>5, <2>2, <2>3, <2>4, <2>5, <2>6, <2>7, <2>8, <2>9 DEF Execute
<1> QED BY <1>2, <1>3, <1>4, <1>5

-----------------------------------------------------------------------------
(* Coming and going. *)

\* Whoever comes onto a channel does so by its own JOIN.
LEMMA ArrivalStep ==
  ASSUME IndInv, Next, NEW ch \in Channel, NEW c \in Members(ch)' \ Members(ch)
  PROVE  c \in Client /\ \E list \in Lists(Channel) : Join(c, list) /\ ch \in Joined(c, list)
<1>1. CASE \E d \in Client, list \in Lists(Channel) : Join(d, list)
  <2>1. PICK d \in Client, list \in Lists(Channel) : Join(d, list)
    BY <1>1
  <2> QED BY <2>1, JoinMembers
<1>2. ASSUME NEW d \in Client, NEW S \in SUBSET channels, Leave(d, S)
      PROVE  FALSE
  BY <1>2, LeaveEffect
<1>3. CASE \E d \in Client, list \in Lists(Channel) : Part(d, list)
  BY <1>2, <1>3, PartEffect
<1>4. CASE \E d \in Client, x \in Channel, n \in Addressee :
             Kick(d, x, n) /\ TargetCheck(d, x, n) = Granted
  <2>1. PICK d \in Client, x \in Channel, n \in Addressee :
               Kick(d, x, n) /\ TargetCheck(d, x, n) = Granted
    BY <1>4
  <2>2. x \in channels /\ \E target \in Client : Leave(target, {x})
    BY <2>1, KickEffect
  <2> QED BY <1>2, <2>2
<1>5. CASE \E d \in Client : DeleteClient(d)
  BY <1>2, <1>5, DeleteEffect
<1> QED BY <1>1, <1>3, <1>4, <1>5, MembersStep

\* Whoever is on a channel no more was deleted, has sent PART, or was kicked by an
\* operator of the channel; and but for the first, all who were there are told.
LEMMA DepartureStep ==
  ASSUME IndInv, Next, NEW ch \in Channel, NEW d \in Members(ch) \ Members(ch)',
         status'[d] # "FREE"
  PROVE  \/ \A e \in Members(ch) : Msg("PART", d, ch, NoNick) \in sendBuf'[e]
         \/ \E op \in operators[ch] : \A e \in Members(ch) :
              Msg("KICK", op, ch, nickname[d]) \in sendBuf'[e]
<1>1. CASE \E c \in Client, list \in Lists(Channel) : Join(c, list)
  BY <1>1, JoinMembers
<1>2. CASE \E c \in Client, list \in Lists(Channel) : Part(c, list)
  <2>1. PICK c \in Client, list \in Lists(Channel) : Part(c, list)
    BY <1>2
  <2>2. PICK left \in SUBSET channels :
          /\ Leave(c, left)
          /\ \A x \in left : \A e \in Members(x) : Msg("PART", c, x, NoNick) \in sendBuf'[e]
    BY <2>1, PartEffect
  <2>3. ch \in left /\ d = c
    BY <2>2, LeaveEffect
  <2> QED BY <2>2, <2>3
<1>3. CASE \E c \in Client, x \in Channel, n \in Addressee :
             Kick(c, x, n) /\ TargetCheck(c, x, n) = Granted
  <2>1. PICK c \in Client, x \in Channel, n \in Addressee :
               Kick(c, x, n) /\ TargetCheck(c, x, n) = Granted
    BY <1>3
  <2>2. PICK target \in Client : nickname[target] = n /\ Leave(target, {x})
    BY <2>1, KickEffect
  <2>3. x \in channels /\ c \in operators[x] /\ Broadcast(Members(x), Msg("KICK", c, x, n))
    BY <2>1, KickEffect
  <2>4. ch = x /\ d = target
    BY <2>2, <2>3, LeaveEffect
  <2>5. \A e \in Members(x) : Msg("KICK", c, x, n) \in sendBuf'[e]
    BY <2>3, BroadcastReaches
  <2> QED BY <2>2, <2>3, <2>4, <2>5
<1>4. CASE \E c \in Client : DeleteClient(c)
  <2>1. PICK c \in Client : DeleteClient(c)
    BY <1>4
  <2>2. d = c
    BY <2>1, DeleteEffect, LeaveEffect
  <2> QED BY <2>1, <2>2, DeleteEffect
<1> QED BY <1>1, <1>2, <1>3, <1>4, MembersStep

\* Everybody on a channel is told who comes, and who comes first is its operator.
THEOREM ArrivalsTold == Spec => ArrivalsAnnounced
<1>1. ASSUME IndInv, Next, NEW ch \in Channel, NEW c \in Members(ch)' \ Members(ch)
      PROVE  /\ c \in operators'[ch] <=> Members(ch) = {}
             /\ \A e \in Members(ch)' : Msg("JOIN", c, ch, NoNick) \in sendBuf'[e]
  <2>1. PICK list \in Lists(Channel) : Join(c, list) /\ ch \in Joined(c, list)
    BY <1>1, ArrivalStep
  <2>2. c \in Client
    BY <1>1, ArrivalStep
  <2>3. /\ c \notin Members(ch)
        /\ Members(ch)' = Members(ch) \cup {c}
        /\ operators'[ch] = IF ch \notin channels THEN {c} ELSE operators[ch]
    BY <1>1, <2>1, <2>2, JoinMembers
  <2>4. (ch \in channels <=> Members(ch) # {}) /\ operators[ch] \subseteq Members(ch)
    BY <1>1 DEF IndInv, RosterInv, ChannelIffOccupied, Members
  <2>5. \A e \in Members(ch) \cup {c} : Msg("JOIN", c, ch, NoNick) \in sendBuf'[e]
    BY <1>1, <2>1, <2>2, JoinSends
  <2> QED BY <2>3, <2>4, <2>5
<1>2. IndInv /\ [Next]_vars =>
        [\A ch \in Channel : \A c \in Members(ch)' \ Members(ch) :
           /\ c \in operators'[ch] <=> Members(ch) = {}
           /\ \A e \in Members(ch)' : Msg("JOIN", c, ch, NoNick) \in sendBuf'[e]]_vars
  BY <1>1
<1> QED BY <1>2, Invariance, PTL DEF Spec, ArrivalsAnnounced

\* Nobody enters an invite-only channel uninvited, and an invitation is used up.
THEOREM InvitationOnce == Spec => InvitationAdmitsOnce
<1>1. ASSUME IndInv, Next, NEW ch \in channels, NEW c \in Members(ch)' \ Members(ch)
      PROVE  /\ "i" \in mode[ch] => c \in invited[ch]
             /\ c \notin invited'[ch]
  <2>1. ch \in Channel
    BY <1>1 DEF IndInv, StateTypeOK
  <2>2. PICK list \in Lists(Channel) : Join(c, list) /\ ch \in Joined(c, list)
    BY <1>1, <2>1, ArrivalStep
  <2>3. c \in Client
    BY <1>1, <2>1, ArrivalStep
  <2>4. /\ c \notin Members(ch) /\ ~InviteRefused(c, ch)
        /\ invited'[ch] = invited[ch] \ {c}
    BY <1>1, <2>1, <2>2, <2>3, JoinMembers
  <2> QED BY <1>1, <2>4 DEF InviteRefused
<1>2. IndInv /\ [Next]_vars =>
        [\A ch \in channels : \A c \in Members(ch)' \ Members(ch) :
           /\ "i" \in mode[ch] => c \in invited[ch]
           /\ c \notin invited'[ch]]_vars
  BY <1>1
<1> QED BY <1>2, Invariance, PTL DEF Spec, InvitationAdmitsOnce

\* Nobody disappears from a channel without its members being told by whom.
THEOREM Departures == Spec => DeparturesAnnounced
<1>1. IndInv /\ [Next]_vars =>
        [\A ch \in Channel : \A d \in Members(ch) \ Members(ch)' :
           status'[d] # "FREE" =>
             \/ \A e \in Members(ch) : Msg("PART", d, ch, NoNick) \in sendBuf'[e]
             \/ \E op \in operators[ch] : \A e \in Members(ch) :
                  Msg("KICK", op, ch, nickname[d]) \in sendBuf'[e]]_vars
  BY DepartureStep
<1> QED BY <1>1, Invariance, PTL DEF Spec, DeparturesAnnounced

-----------------------------------------------------------------------------
(* What is said of the clients themselves. *)

\* A registered client's own status and nickname are changed by NICK and QUIT only.
LEMMA ExecuteClients ==
  ASSUME NEW c \in Client, Execute(c)
  PROVE  \/ UNCHANGED <<status, nickname>>
         \/ \E n \in Nick : NewNick(c, n)
         \/ Quit(c)
<1>1. CASE UNCHANGED state \/ UNCHANGED clientVars
  BY <1>1 DEF state, clientVars
<1>2. CASE \/ \E list \in Lists(Channel) : Join(c, list)
           \/ \E list \in Lists(Channel) : Part(c, list)
  BY <1>1, <1>2 DEF Join, Part
<1>3. CASE \/ \E ch \in Channel, f \in Flags, on \in BOOLEAN : SetFlag(c, ch, f, on)
           \/ \E ch \in Channel, t \in Topic \cup {NoTopic} : SetTopic(c, ch, t)
  BY <1>1, <1>3 DEF SetFlag, SetTopic, Refuse
<1>4. CASE \E ch \in Channel, n \in Nick, promote \in BOOLEAN : SetOperator(c, ch, n, promote)
  BY <1>1, <1>4 DEF SetOperator, UpdateRole, Refuse
<1>5. CASE \/ \E n \in Nick, ch \in Channel : Invite(c, n, ch)
           \/ \E ch \in Channel, n \in Addressee : Kick(c, ch, n)
  BY <1>1, <1>5 DEF Invite, Kick, Refuse
<1>6. CASE \/ \E list \in Lists(Channel \cup Addressee), first \in Client :
                Privmsg(c, list, first)
           \/ \E n \in Addressee : Notice(c, n)
           \/ Pong(c)
           \/ Ignored(c)
  BY <1>1, <1>6 DEF Privmsg, Notice, Refuse, Pong, Ignored
<1> QED BY <1>2, <1>3, <1>4, <1>5, <1>6 DEF Execute

LEMMA QuitStep ==
  ASSUME IndInv, Next, NEW c \in Client, status[c] = "REGISTER", status'[c] = "TERMINATE"
  PROVE  Quit(c)
<1>1. PICK d \in Client : \/ Accept(d) \/ Timeout(d) \/ DeleteClient(d)
                          \/ status[d] = "UNREGISTER" /\ Connect(d)
                          \/ Execute(d)
  BY DEF Next
<1>2. status \in [Client -> Status]
  BY DEF IndInv, StateTypeOK
<1>3. CASE Accept(d) \/ Timeout(d) \/ DeleteClient(d)
  BY <1>2, <1>3 DEF Accept, Timeout, DeleteClient
<1>4. CASE Connect(d)
  BY <1>2, <1>4
  DEF Connect, Pass, User, FirstNick, NotRegistered, Authenticate, Refuse, state
<1>5. CASE Execute(d)
  <2>1. CASE UNCHANGED <<status, nickname>>
    BY <2>1
  <2>2. CASE \E n \in Nick : NewNick(d, n)
    BY <2>2 DEF NewNick, Refuse, state
  <2>3. CASE Quit(d)
    BY <1>2, <2>3 DEF Quit
  <2> QED BY <1>5, <2>1, <2>2, <2>3, ExecuteClients
<1> QED BY <1>1, <1>3, <1>4, <1>5

\* A client that quits is scheduled, and all who share a channel with it are told.
THEOREM Quits == Spec => QuitAnnounced
<1>1. ASSUME IndInv, Next, NEW c \in Client, status[c] = "REGISTER", status'[c] = "TERMINATE"
      PROVE  /\ c \in clientList'
             /\ \A ch \in Channel : c \in Members(ch) => \A e \in Members(ch) :
                  Msg("QUIT", c, NoChannel, NoNick) \in sendBuf'[e]
  <2>1. Reply(To(Audience(c), Msg("QUIT", c, NoChannel, NoNick)), {c} \cup Audience(c))
    BY <1>1, QuitStep DEF Quit
  <2>2. \A d \in Audience(c) : Msg("QUIT", c, NoChannel, NoNick) \in sendBuf'[d]
    BY <1>1, <2>1, LiveFacts DEF Reply, To
  <2>3. \A ch \in Channel : c \in Members(ch) => Members(ch) \subseteq Audience(c)
    BY <1>1, AudienceFacts
  <2> QED BY <2>1, <2>2, <2>3 DEF Reply
<1>2. IndInv /\ [Next]_vars =>
        [\A c \in Client : status[c] = "REGISTER" /\ status'[c] = "TERMINATE" =>
           /\ c \in clientList'
           /\ \A ch \in Channel : c \in Members(ch) => \A e \in Members(ch) :
                Msg("QUIT", c, NoChannel, NoNick) \in sendBuf'[e]]_vars
  BY <1>1
<1> QED BY <1>2, Invariance, PTL DEF Spec, QuitAnnounced

LEMMA NickStep ==
  ASSUME IndInv, Next, NEW c \in Client, status[c] = "REGISTER", nickname'[c] # nickname[c],
         status'[c] # "FREE"
  PROVE  \E n \in Nick : NewNick(c, n) /\ nickname'[c] = n
<1>1. PICK d \in Client : \/ Accept(d) \/ Timeout(d) \/ DeleteClient(d)
                          \/ status[d] = "UNREGISTER" /\ Connect(d)
                          \/ Execute(d)
  BY DEF Next
<1>2. status \in [Client -> Status] /\ nickname \in [Client -> Nick \cup {NoNick}]
  BY DEF IndInv, StateTypeOK
<1>3. CASE Accept(d) \/ Timeout(d) \/ DeleteClient(d)
  BY <1>2, <1>3 DEF Accept, Timeout, DeleteClient
<1>4. CASE status[d] = "UNREGISTER" /\ Connect(d)
  BY <1>2, <1>4
  DEF Connect, Pass, User, FirstNick, NotRegistered, Refuse, state
<1>5. CASE Execute(d)
  <2>1. CASE UNCHANGED <<status, nickname>>
    BY <2>1
  <2>2. CASE \E n \in Nick : NewNick(d, n)
    BY <1>2, <2>2 DEF NewNick, Refuse, state
  <2>3. CASE Quit(d)
    BY <2>3 DEF Quit
  <2> QED BY <1>5, <2>1, <2>2, <2>3, ExecuteClients
<1> QED BY <1>1, <1>3, <1>4, <1>5

\* A registered client's new nickname is told to all who share a channel with it, and
\* to itself even when it is on none.
THEOREM NickChanges == Spec => NickChangeAnnounced
<1>1. ASSUME IndInv, Next, NEW c \in Client, status[c] = "REGISTER",
             nickname'[c] # nickname[c], status'[c] # "FREE", NEW e \in Client,
             e = c \/ \E ch \in Channel : {c, e} \subseteq Members(ch)
      PROVE  Msg("NICK", c, NoChannel, nickname'[c]) \in sendBuf'[e]
  <2>1. PICK n \in Nick : NewNick(c, n) /\ nickname'[c] = n
    BY <1>1, NickStep
  <2> DEFINE m == Msg("NICK", c, NoChannel, n)
  <2>2. IF channelList[c] = {} THEN Reply(To({c}, m), {}) ELSE Reply(To(Audience(c), m), Audience(c))
    BY <1>1, <2>1 DEF NewNick, Refuse, state, Broadcast
  <2>3. e \in Audience(c) \/ (channelList[c] = {} /\ e = c)
    BY <1>1, AudienceFacts
  <2>4. channelList[c] = {} => Audience(c) = {}
    BY DEF Audience
  <2> HIDE DEF m
  <2>5. m \in sendBuf'[e]
    BY <1>1, <2>2, <2>3, <2>4 DEF Reply, To
  <2> QED BY <2>1, <2>5 DEF m
<1>2. IndInv /\ [Next]_vars =>
        [\A c \in Client : status[c] = "REGISTER" /\ nickname'[c] # nickname[c]
                           /\ status'[c] # "FREE" =>
           \A e \in Client :
             e = c \/ (\E ch \in Channel : {c, e} \subseteq Members(ch)) =>
               Msg("NICK", c, NoChannel, nickname'[c]) \in sendBuf'[e]]_vars
  BY <1>1
<1> QED BY <1>2, Invariance, PTL DEF Spec, NickChangeAnnounced

-----------------------------------------------------------------------------
(* Power over a channel. *)

\* Everybody on ch is told that one of by has done it.
ToldOn(ch, by, words, args) ==
  \E c \in by, w \in words, x \in args : \A e \in Members(ch) : Msg(w, c, ch, x) \in sendBuf'[e]

\* What PowerFromOperators says of one channel.
PowersOf(ch) ==
  LET stay == Members(ch) \cap Members(ch)'
  IN /\ \A d \in stay \cap (operators'[ch] \ operators[ch]) :
          ToldOn(ch, operators[ch], {"+o"}, {nickname[d]})
     /\ \A d \in stay \cap (operators[ch] \ operators'[ch]) :
          ToldOn(ch, operators[ch], {"-o"}, {nickname[d]})
     /\ mode'[ch] # mode[ch] => ToldOn(ch, operators[ch], {"+i", "-i", "+t", "-t"}, {NoNick})
     /\ topic'[ch] # topic[ch] =>
          ToldOn(ch, IF "t" \in mode[ch] THEN operators[ch] ELSE Members(ch),
               {"TOPIC"}, {topic'[ch]})

\* Commands that set nothing use no power; neither does leaving, which resets only
\* a channel that ceases to exist, and takes no role from those who stay.
LEMMA PowerFrame ==
  ASSUME NEW ch \in Channel, UNCHANGED <<operators, mode, topic>>
  PROVE  PowersOf(ch)
BY DEF PowersOf

LEMMA LeavePower ==
  ASSUME IndInv, NEW d \in Client, NEW S \in SUBSET channels, Leave(d, S),
         NEW ch \in channels \cap channels'
  PROVE  PowersOf(ch)
<1>1. ch \in Channel
  BY DEF IndInv, StateTypeOK
<1>2. /\ \A e : e \in Members(ch)' <=> e \in Members(ch) /\ ~(e = d /\ ch \in S)
      /\ \A e : e \in operators'[ch] <=> e \in operators[ch] /\ ~(e = d /\ ch \in S)
      /\ mode'[ch] = mode[ch] /\ topic'[ch] = topic[ch]
  BY <1>1, LeaveEffect
<1> QED BY <1>2 DEF PowersOf

LEMMA SetFlagPower ==
  ASSUME IndInv, NEW c \in Client, NEW x \in Channel, NEW f \in Flags, NEW on \in BOOLEAN,
         SetFlag(c, x, f, on), NEW ch \in channels
  PROVE  PowersOf(ch)
<1> DEFINE word == IF on THEN (IF f = "i" THEN "+i" ELSE "+t")
                         ELSE (IF f = "i" THEN "-i" ELSE "-t")
<1>0. ch \in Channel
  BY DEF IndInv, StateTypeOK
<1>1. CASE UNCHANGED state
  BY <1>0, <1>1, PowerFrame DEF state
<1>2. CASE /\ ModeCheck(c, x) = Granted
           /\ mode' = [mode EXCEPT ![x] = IF on THEN @ \cup {f} ELSE @ \ {f}]
           /\ Broadcast(Members(x), Msg(word, c, x, NoNick))
           /\ UNCHANGED <<clientVars, rosterVars, invited, topic>>
  <2>1. word \in {"+i", "-i", "+t", "-t"}
    OBVIOUS
  <2> HIDE DEF word
  <2>2. c \in operators[x]
    BY <1>2, CheckFacts
  <2>3. \A e \in Members(x) : Msg(word, c, x, NoNick) \in sendBuf'[e]
    BY <1>2, BroadcastReaches
  <2>4. ToldOn(x, operators[x], {"+i", "-i", "+t", "-t"}, {NoNick})
    BY <2>1, <2>2, <2>3 DEF ToldOn
  <2>5. ch # x => mode'[ch] = mode[ch]
    BY <1>0, <1>2 DEF IndInv, StateTypeOK
  <2>6. operators' = operators /\ topic' = topic
    BY <1>2 DEF rosterVars
  <2> QED BY <2>4, <2>5, <2>6 DEF PowersOf
<1> QED BY <1>1, <1>2 DEF SetFlag, Refuse

LEMMA SetOperatorPower ==
  ASSUME IndInv, NEW c \in Client, NEW x \in Channel, NEW n \in Nick, NEW promote \in BOOLEAN,
         SetOperator(c, x, n, promote), NEW ch \in channels
  PROVE  PowersOf(ch)
<1>0. ch \in Channel
  BY DEF IndInv, StateTypeOK
<1>1. CASE UNCHANGED state
  BY <1>0, <1>1, PowerFrame DEF state
<1>2. ASSUME ModeCheck(c, x) = Granted, NEW target \in Named(n), NEW w \in {"+o", "-o"},
             Broadcast(Members(x), Msg(w, c, x, nickname[target])),
             operators' = [operators EXCEPT ![x] = IF w = "+o" THEN @ \cup {target}
                                                               ELSE @ \ {target}],
             UNCHANGED <<clientVars, channelList, channels, settingVars>>
      PROVE  PowersOf(ch)
  <2>1. c \in operators[x]
    BY <1>2, CheckFacts
  <2>2. \A e \in Members(x) : Msg(w, c, x, nickname[target]) \in sendBuf'[e]
    BY <1>2, BroadcastReaches
  <2>3. ToldOn(x, operators[x], {w}, {nickname[target]})
    BY <2>1, <2>2 DEF ToldOn
  <2>4. mode' = mode /\ topic' = topic
    BY <1>2 DEF settingVars
  <2>5. ch # x => operators'[ch] = operators[ch]
    BY <1>0, <1>2 DEF IndInv, StateTypeOK
  <2>6. operators'[x] = IF w = "+o" THEN operators[x] \cup {target} ELSE operators[x] \ {target}
    BY <1>2 DEF IndInv, StateTypeOK
  <2> QED BY <2>3, <2>4, <2>5, <2>6 DEF PowersOf
<1>3. CASE ModeCheck(c, x) = Granted /\ \E target \in Named(n) : UpdateRole(c, x, target, promote)
  <2>1. PICK target \in Named(n) : UpdateRole(c, x, target, promote)
    BY <1>3
  <2>2. CASE /\ operators' = [operators EXCEPT ![x] = @ \cup {target}]
             /\ Broadcast(Members(x), Msg("+o", c, x, nickname[target]))
             /\ UNCHANGED <<clientVars, channelList, channels, settingVars>>
    BY <1>2, <1>3, <2>2
  <2>3. CASE /\ operators' = [operators EXCEPT ![x] = @ \ {target}]
             /\ Broadcast(Members(x), Msg("-o", c, x, nickname[target]))
             /\ UNCHANGED <<clientVars, channelList, channels, settingVars>>
    BY <1>2, <1>3, <2>3
  <2> QED BY <1>1, <2>1, <2>2, <2>3 DEF UpdateRole
<1> QED BY <1>1, <1>3 DEF SetOperator, Refuse

LEMMA SetTopicPower ==
  ASSUME IndInv, NEW c \in Client, NEW x \in Channel, NEW t \in Topic \cup {NoTopic},
         SetTopic(c, x, t), NEW ch \in channels
  PROVE  PowersOf(ch)
<1>0. ch \in Channel
  BY DEF IndInv, StateTypeOK
<1>1. CASE UNCHANGED state
  BY <1>0, <1>1, PowerFrame DEF state
<1>2. CASE /\ TopicCheck(c, x) = Granted
           /\ topic' = [topic EXCEPT ![x] = t]
           /\ Broadcast(Members(x), Msg("TOPIC", c, x, t))
           /\ UNCHANGED <<clientVars, rosterVars, invited, mode>>
  <2>1. c \in IF "t" \in mode[x] THEN operators[x] ELSE Members(x)
    BY <1>2, CheckFacts DEF Members
  <2>2. \A e \in Members(x) : Msg("TOPIC", c, x, t) \in sendBuf'[e]
    BY <1>2, BroadcastReaches
  <2>3. ToldOn(x, IF "t" \in mode[x] THEN operators[x] ELSE Members(x), {"TOPIC"}, {t})
    BY <2>1, <2>2 DEF ToldOn
  <2>4. topic'[x] = t /\ (ch # x => topic'[ch] = topic[ch])
    BY <1>0, <1>2 DEF IndInv, StateTypeOK
  <2>5. operators' = operators /\ mode' = mode
    BY <1>2 DEF rosterVars
  <2> QED BY <2>3, <2>4, <2>5 DEF PowersOf
<1> QED BY <1>1, <1>2 DEF SetTopic, Refuse

LEMMA ExecutePower ==
  ASSUME IndInv, NEW c \in Client, Execute(c), NEW ch \in channels \cap channels'
  PROVE  PowersOf(ch)
<1>0. ch \in Channel /\ ch \in channels
  BY DEF IndInv, StateTypeOK
<1>1. CASE UNCHANGED state
  BY <1>0, <1>1, PowerFrame DEF state
<1>2. CASE \E list \in Lists(Channel) : Join(c, list)
  <2>1. PICK list \in Lists(Channel) : Join(c, list)
    BY <1>2
  <2>2. operators'[ch] = operators[ch] /\ UNCHANGED <<mode, topic>>
    BY <1>0, <2>1, JoinMembers
  <2> QED BY <2>2 DEF PowersOf
<1>3. CASE \E list \in Lists(Channel) : Part(c, list)
  BY <1>3, PartEffect, LeavePower
<1>4. CASE \E x \in Channel, f \in Flags, on \in BOOLEAN : SetFlag(c, x, f, on)
  BY <1>0, <1>4, SetFlagPower
<1>5. CASE \E x \in Channel, n \in Nick, promote \in BOOLEAN : SetOperator(c, x, n, promote)
  BY <1>0, <1>5, SetOperatorPower
<1>6. CASE \E x \in Channel, t \in Topic \cup {NoTopic} : SetTopic(c, x, t)
  BY <1>0, <1>6, SetTopicPower
<1>7. CASE \E n \in Nick, x \in Channel : Invite(c, n, x)
  BY <1>0, <1>1, <1>7, PowerFrame DEF Invite, Refuse, rosterVars
<1>8. CASE \E x \in Channel, n \in Addressee : Kick(c, x, n)
  <2>1. PICK x \in Channel, n \in Addressee : Kick(c, x, n)
    BY <1>8
  <2>2. CASE TargetCheck(c, x, n) = Granted
    <3>1. x \in channels /\ \E target \in Client : Leave(target, {x})
      BY <2>1, <2>2, KickEffect
    <3> QED BY <3>1, LeavePower
  <2>3. CASE TargetCheck(c, x, n) # Granted
    BY <1>1, <2>1, <2>3 DEF Kick, Refuse
  <2> QED BY <2>2, <2>3
<1>9. CASE (\E n \in Nick : NewNick(c, n)) \/ Quit(c)
  BY <1>0, <1>1, <1>9, PowerFrame DEF NewNick, Quit, Refuse, rosterVars, settingVars
<1>10. CASE \/ \E list \in Lists(Channel \cup Addressee), first \in Client :
                 Privmsg(c, list, first)
            \/ \E n \in Addressee : Notice(c, n)
            \/ Pong(c)
            \/ Ignored(c)
  BY <1>1, <1>10 DEF Privmsg, Notice, Refuse, Pong, Ignored
<1> QED BY <1>2, <1>3, <1>4, <1>5, <1>6, <1>7, <1>8, <1>9, <1>10 DEF Execute

\* Roles, flags and, with +t, the topic are changed only by those who may, and never
\* behind the back of a member.
THEOREM Powers == Spec => PowerFromOperators
<1>1. ASSUME IndInv, Next, NEW ch \in channels \cap channels'
      PROVE  PowersOf(ch)
  <2>0. ch \in Channel
    BY <1>1 DEF IndInv, StateTypeOK
  <2>1. PICK c \in Client : \/ Accept(c) \/ Timeout(c) \/ DeleteClient(c)
                            \/ Connect(c) \/ Execute(c)
    BY <1>1 DEF Next
  <2>2. CASE Accept(c) \/ Timeout(c)
    BY <2>0, <2>2, PowerFrame DEF Accept, Timeout, rosterVars, settingVars
  <2>3. CASE DeleteClient(c)
    BY <1>1, <2>3, DeleteEffect, LeavePower
  <2>4. CASE Connect(c)
    BY <2>0, <2>4, PowerFrame
    DEF Connect, Pass, User, FirstNick, NotRegistered, Authenticate, Refuse, state,
        rosterVars, settingVars
  <2>5. CASE Execute(c)
    BY <1>1, <2>5, ExecutePower
  <2> QED BY <2>1, <2>2, <2>3, <2>4, <2>5
<1>2. IndInv /\ [Next]_vars =>
        [\A ch \in channels \cap channels' :
           LET stay == Members(ch) \cap Members(ch)'
               Told(by, words, args) ==
                 \E c \in by, w \in words, x \in args : \A e \in Members(ch) :
                   Msg(w, c, ch, x) \in sendBuf'[e]
           IN /\ \A d \in stay \cap (operators'[ch] \ operators[ch]) :
                   Told(operators[ch], {"+o"}, {nickname[d]})
              /\ \A d \in stay \cap (operators[ch] \ operators'[ch]) :
                   Told(operators[ch], {"-o"}, {nickname[d]})
              /\ mode'[ch] # mode[ch] =>
                   Told(operators[ch], {"+i", "-i", "+t", "-t"}, {NoNick})
              /\ topic'[ch] # topic[ch] =>
                   Told(IF "t" \in mode[ch] THEN operators[ch] ELSE Members(ch),
                        {"TOPIC"}, {topic'[ch]})]_vars
  BY <1>1 DEF PowersOf, ToldOn
<1> QED BY <1>2, Invariance, PTL DEF Spec, PowerFromOperators

-----------------------------------------------------------------------------
(* Replies and the list of those to schedule. *)

\* What RepliesScheduled says of one step.
Scheduled ==
  /\ \A d \in Client : \A m \in sendBuf'[d] : m.from # d => d \in clientList'
  /\ \A d \in clientList' : status'[d] # "FREE"

\* One message from c: who gets it is scheduled, or is c itself.
LEMMA OneMessage ==
  ASSUME NEW c \in Client, NEW R, NEW m, m.from = c, NEW list, Reply(To(R, m), list),
         \A d \in R : d = c \/ d \in list,
         \A d \in list : status'[d] # "FREE"
  PROVE  Scheduled
<1>1. \A d \in Client : \A x \in sendBuf'[d] : x = m /\ d \in R
  BY DEF Reply, To
<1>2. clientList' = list
  BY DEF Reply
<1> QED BY <1>1, <1>2 DEF Scheduled

LEMMA AnswerScheduled ==
  ASSUME NEW c \in Client, NEW code, Answer(c, code) \/ Silence
  PROVE  Scheduled
<1>1. Numeric(code, c).from = c
  BY DEF Numeric, Msg
<1>2. CASE Answer(c, code)
  BY <1>1, <1>2, OneMessage DEF Answer
<1>3. CASE Silence
  BY <1>3 DEF Silence, Reply, Scheduled
<1> QED BY <1>2, <1>3

\* A broadcast to live clients, by a command that deletes nobody.
LEMMA BroadcastScheduled ==
  ASSUME NEW c \in Client, NEW R, NEW m, m.from = c, Broadcast(R, m),
         \A d \in R : status'[d] # "FREE"
  PROVE  Scheduled
BY OneMessage DEF Broadcast

LEMMA ConnectScheduled ==
  ASSUME NEW c \in Client, Connect(c)
  PROVE  Scheduled
<1>1. \/ \E code : Answer(c, code)
      \/ Silence
  BY DEF Connect, Pass, User, FirstNick, NotRegistered, Authenticate, Refuse
<1> QED BY <1>1, AnswerScheduled

\* A client refused by the first of the names it gave is told so; the others of the
\* list, and the clients it names, are found before any of them is gone.
LEMMA PrivmsgScheduled ==
  ASSUME IndInv, NEW c \in Client, NEW list \in Lists(Channel \cup Addressee),
         NEW first \in Client, Privmsg(c, list, first)
  PROVE  Scheduled
<1> DEFINE sent   == {list[i] : i \in {k \in DOMAIN list :
                        \A j \in 1..k : PrivmsgCheck(c, list[j]) = Granted}}
           errors == {Numeric(PrivmsgCheck(c, list[i]), c) : i \in
                        {k \in DOMAIN list :
                           /\ PrivmsgCheck(c, list[k]) # Granted
                           /\ \A j \in 1..(k-1) :
                                PrivmsgCheck(c, list[j]) = Granted}}
           Text(x) == IF x \in Channel THEN Msg("PRIVMSG", c, x, NoNick)
                                       ELSE Msg("PRIVMSG", c, NoChannel, x)
           texts  == [d \in Client |->
                        {Text(x) : x \in {y \in sent : d \in Receivers(c, y, first)}}]
           all    == UNION {Receivers(c, x, first) : x \in sent}
<1>1. /\ Reply([texts EXCEPT ![c] = @ \cup errors], all)
      /\ Named(NoNick) # {} => first \in Named(NoNick)
      /\ UNCHANGED status
  BY DEF Privmsg, state
<1>2. \A x \in sent : PrivmsgCheck(c, x) = Granted
  <2>1. SUFFICES ASSUME NEW i \in DOMAIN list,
                        \A j \in 1..i : PrivmsgCheck(c, list[j]) = Granted
                 PROVE  PrivmsgCheck(c, list[i]) = Granted
    OBVIOUS
  <2>2. i \in Nat \ {0}
    BY ListIndex
  <2> QED BY <2>1, <2>2
<1>3. \A m \in errors : m.from = c
  BY DEF Numeric, Msg
<1> HIDE DEF sent, errors
<1>4. \A x : Text(x).from = c
  BY DEF Msg
<1> HIDE DEF Text
<1>5. \A x \in sent : \A d \in Receivers(c, x, first) : status[d] # "FREE"
  <2>1. SUFFICES ASSUME NEW x \in sent, NEW d \in Receivers(c, x, first)
                 PROVE  status[d] # "FREE"
    OBVIOUS
  <2>2. CASE x \in Channel
    BY <2>1, <2>2, LiveFacts DEF Receivers
  <2>3. CASE x \notin Channel /\ x = NoNick
    <3>1. Named(x) # {}
      BY <1>2, <2>3 DEF PrivmsgCheck, Granted
    <3> QED BY <1>1, <2>1, <2>3, <3>1, LiveFacts DEF Receivers
  <2>4. CASE x \notin Channel /\ x # NoNick
    BY <2>1, <2>4, LiveFacts DEF Receivers
  <2> QED BY <2>2, <2>3, <2>4
<1>6. /\ clientList' = all
      /\ \A d \in Client : sendBuf'[d] = IF d = c THEN texts[c] \cup errors ELSE texts[d]
  BY <1>1 DEF Reply
<1>7. \A d \in Client : \A m \in texts[d] : m.from = c /\ d \in all
  BY <1>4
<1> HIDE DEF texts, all
<1>8. \A d \in Client : \A m \in sendBuf'[d] : m.from # d => d \in clientList'
  BY <1>3, <1>6, <1>7
<1>9. \A d \in clientList' : status'[d] # "FREE"
  BY <1>1, <1>5, <1>6 DEF all
<1> QED BY <1>8, <1>9 DEF Scheduled

LEMMA InviteScheduled ==
  ASSUME IndInv, NEW c \in Client, NEW n \in Nick, NEW ch \in Channel, Invite(c, n, ch)
  PROVE  Scheduled
<1>1. CASE Refuse(c, TargetCheck(c, ch, n))
  BY <1>1, AnswerScheduled DEF Refuse
<1>2. CASE /\ \E target \in Named(n) :
                Reply([To({target}, Msg("INVITE", c, ch, n))
                         EXCEPT ![c] = @ \cup {Numeric("341", c)}], {target})
           /\ UNCHANGED clientVars
  <2>1. PICK target \in Named(n) :
               Reply([To({target}, Msg("INVITE", c, ch, n))
                        EXCEPT ![c] = @ \cup {Numeric("341", c)}], {target})
    BY <1>2
  <2>2. status'[target] # "FREE"
    BY <1>2, LiveFacts DEF clientVars
  <2>3. \A m \in {Msg("INVITE", c, ch, n), Numeric("341", c)} : m.from = c
    BY DEF Numeric, Msg
  <2>4. \A d \in Client : sendBuf'[d] \subseteq
          (IF d = target THEN {Msg("INVITE", c, ch, n)} ELSE {})
            \cup (IF d = c THEN {Numeric("341", c)} ELSE {})
    BY <2>1 DEF Reply, To
  <2>5. clientList' = {target}
    BY <2>1 DEF Reply
  <2> QED BY <2>2, <2>3, <2>4, <2>5 DEF Scheduled
<1> QED BY <1>1, <1>2 DEF Invite

LEMMA ExecuteScheduled ==
  ASSUME IndInv, NEW c \in Client, status[c] = "REGISTER", Execute(c)
  PROVE  Scheduled
<1>1. \A w, ch, x : Msg(w, c, ch, x).from = c
  BY DEF Msg
<1>2. ASSUME NEW code, Refuse(c, code) \/ Silence
      PROVE  Scheduled
  BY <1>2, AnswerScheduled DEF Refuse
<1>3. ASSUME NEW R, \A d \in R : status[d] # "FREE", NEW w, NEW ch, NEW x,
             Broadcast(R, Msg(w, c, ch, x)), UNCHANGED status
      PROVE  Scheduled
  BY <1>1, <1>3, BroadcastScheduled
<1>4. CASE \E list \in Lists(Channel) : Join(c, list)
  <2>1. PICK list \in Lists(Channel) : Join(c, list)
    BY <1>4
  <2>2. UNCHANGED status
    BY <2>1 DEF Join, clientVars
  <2>3. \A d \in clientList' : status'[d] # "FREE"
    BY <2>1, <2>2, JoinSends, LiveFacts
  <2> QED BY <2>1, <2>3, JoinSends DEF Scheduled
<1>5. CASE \E list \in Lists(Channel) : Part(c, list)
  <2>1. PICK list \in Lists(Channel) : Part(c, list)
    BY <1>5
  <2>2. PICK left \in SUBSET channels :
          /\ UNCHANGED clientVars
          /\ \A d \in Client : \A m \in sendBuf'[d] :
               m.from = c /\ (d = c \/ \E ch \in left : d \in Members(ch))
          /\ clientList' = UNION {Members(ch) : ch \in left}
    BY <2>1, PartEffect
  <2>3. left \subseteq Channel
    BY DEF IndInv, StateTypeOK
  <2> QED BY <2>2, <2>3, LiveFacts DEF Scheduled, clientVars
<1>6. CASE \E ch \in Channel, f \in Flags, on \in BOOLEAN : SetFlag(c, ch, f, on)
  <2>1. PICK ch \in Channel, f \in Flags, on \in BOOLEAN : SetFlag(c, ch, f, on)
    BY <1>6
  <2>2. \A d \in Members(ch) : status[d] # "FREE"
    BY LiveFacts
  <2> QED BY <1>2, <1>3, <2>1, <2>2 DEF SetFlag, clientVars
<1>7. CASE \E ch \in Channel, n \in Nick, promote \in BOOLEAN : SetOperator(c, ch, n, promote)
  <2>1. PICK ch \in Channel, n \in Nick, promote \in BOOLEAN : SetOperator(c, ch, n, promote)
    BY <1>7
  <2>2. \A d \in Members(ch) : status[d] # "FREE"
    BY LiveFacts
  <2>3. ASSUME NEW target, UpdateRole(c, ch, target, promote)
        PROVE  Scheduled
    BY <1>2, <1>3, <2>2, <2>3 DEF UpdateRole, clientVars
  <2> QED BY <1>2, <2>1, <2>3 DEF SetOperator
<1>8. CASE \E ch \in Channel, t \in Topic \cup {NoTopic} : SetTopic(c, ch, t)
  <2>1. PICK ch \in Channel, t \in Topic \cup {NoTopic} : SetTopic(c, ch, t)
    BY <1>8
  <2>2. \A d \in Members(ch) : status[d] # "FREE"
    BY LiveFacts
  <2> QED BY <1>2, <1>3, <2>1, <2>2 DEF SetTopic, clientVars
<1>9. CASE \E n \in Nick, ch \in Channel : Invite(c, n, ch)
  BY <1>9, InviteScheduled
<1>10. CASE \E ch \in Channel, n \in Addressee : Kick(c, ch, n)
  <2>1. PICK ch \in Channel, n \in Addressee : Kick(c, ch, n)
    BY <1>10
  <2>2. \A d \in Members(ch) : status[d] # "FREE"
    BY LiveFacts
  <2> QED BY <1>2, <1>3, <2>1, <2>2 DEF Kick, clientVars
<1>11. CASE \E n \in Nick : NewNick(c, n)
  <2>1. PICK n \in Nick : NewNick(c, n)
    BY <1>11
  <2> DEFINE m == Msg("NICK", c, NoChannel, n)
  <2>2. CASE Reply(To({c}, m), {})
    BY <1>1, <2>2, OneMessage
  <2>3. CASE Broadcast(Audience(c), m) /\ UNCHANGED status
    BY <1>3, <2>3, LiveFacts
  <2> QED BY <1>2, <2>1, <2>2, <2>3 DEF NewNick
<1>12. CASE Quit(c)
  <2>1. /\ Reply(To(Audience(c), Msg("QUIT", c, NoChannel, NoNick)), {c} \cup Audience(c))
        /\ status' = [status EXCEPT ![c] = "TERMINATE"]
    BY <1>12 DEF Quit
  <2>2. \A d \in {c} \cup Audience(c) : status'[d] # "FREE"
    BY <2>1, LiveFacts DEF IndInv, StateTypeOK
  <2> QED BY <1>1, <2>1, <2>2, OneMessage
<1>13. CASE \E list \in Lists(Channel \cup Addressee), first \in Client :
              Privmsg(c, list, first)
  BY <1>13, PrivmsgScheduled
<1>14. CASE \E n \in Addressee : Notice(c, n)
  <2>1. PICK n \in Addressee : Notice(c, n)
    BY <1>14
  <2>2. \A d \in Named(n) : \A e \in {d} : status[e] # "FREE"
    BY LiveFacts
  <2> QED BY <1>2, <1>3, <2>1, <2>2 DEF Notice, state
<1>15. CASE Pong(c) \/ Ignored(c)
  BY <1>2, <1>15, AnswerScheduled DEF Pong, Ignored
<1> QED BY <1>4, <1>5, <1>6, <1>7, <1>8, <1>9, <1>10, <1>11, <1>12, <1>13, <1>14,
           <1>15 DEF Execute

\* Every client a command writes to, but for its own, is scheduled, and all who are
\* scheduled are there when reserve follows the pointers.
THEOREM Replies == Spec => RepliesScheduled
<1>1. ASSUME IndInv, Next
      PROVE  Scheduled
  <2>1. PICK c \in Client : \/ Accept(c) \/ Timeout(c) \/ DeleteClient(c)
                            \/ Connect(c)
                            \/ status[c] = "REGISTER" /\ Execute(c)
    BY <1>1 DEF Next
  <2>2. CASE Accept(c) \/ Timeout(c) \/ DeleteClient(c)
    BY <2>2, AnswerScheduled DEF Accept, Timeout, DeleteClient
  <2>3. CASE Connect(c)
    BY <2>3, ConnectScheduled
  <2>4. CASE status[c] = "REGISTER" /\ Execute(c)
    BY <1>1, <2>4, ExecuteScheduled
  <2> QED BY <2>1, <2>2, <2>3, <2>4
<1>2. IndInv /\ [Next]_vars =>
        [/\ \A d \in Client : \A m \in sendBuf'[d] : m.from # d => d \in clientList'
         /\ \A d \in clientList' : status'[d] # "FREE"]_vars
  BY <1>1 DEF Scheduled
<1> QED BY <1>2, Invariance, PTL DEF Spec, RepliesScheduled
=============================================================================
