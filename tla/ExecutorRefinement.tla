------------------------- MODULE ExecutorRefinement -------------------------
(***************************************************************************)
(* Proof that Executor implements Membership, and that its variables keep  *)
(* their types.  Every door through which the roster changes is a step of  *)
(* Membership (Join enters, Leave exits, UpdateRole regrades), and the     *)
(* commands that do not use one of them set a flag, a topic or an          *)
(* invitation, or stutter.                                                 *)
(***************************************************************************)
EXTENDS ExecutorProofs

\* The members of a channel are those whose role is not "none".
LEMMA RoleFacts ==
  ASSUME StateTypeOK
  PROVE  /\ \A ch \in Channel : Abstract!On(ch) = Members(ch)
         /\ \A ch \in Channel, c \in Client :
              Abstract!IsOperator(c, ch) <=> c \in operators[ch]
  BY DEF StateTypeOK, Abstract!On, Abstract!IsOperator, Role, Members

LEMMA InitRefines == Init => Abstract!Init
  BY DEF Init, Abstract!Init, Role, DefaultMode

\* A step that leaves the roster and the settings alone is a stutter.
LEMMA StutterRefines ==
  ASSUME UNCHANGED <<operators, regulars, settingVars>>
  PROVE  UNCHANGED Abstract!abstractVars
  BY DEF Abstract!abstractVars, Role, settingVars

LEMMA JoinRefines ==
  ASSUME IndInv, NEW c \in Client, NEW list \in Lists(Channel), Join(c, list)
  PROVE  Abstract!Enter(c, Joined(c, list))
<1> DEFINE J == Joined(c, list)
<1> USE DEF IndInv, RosterInv
<1>1. J \in SUBSET Channel /\ \A ch \in J : c \notin Members(ch) /\ ~InviteRefused(c, ch)
  BY JoinedChannels
<1>2. /\ operators' = [ch \in Channel |->
                         IF ch \in J \ channels THEN {c} ELSE operators[ch]]
      /\ regulars' = [ch \in Channel |->
                        IF ch \in J \cap channels THEN regulars[ch] \cup {c}
                                                  ELSE regulars[ch]]
      /\ invited' = [ch \in Channel |->
                       IF ch \in J \cap channels THEN invited[ch] \ {c}
                                                 ELSE invited[ch]]
      /\ UNCHANGED <<mode, topic>>
  BY DEF Join
<1> HIDE DEF J
<1>3. \A ch \in Channel : ch \in channels <=> Abstract!On(ch) # {}
  BY RoleFacts DEF ChannelIffOccupied
<1>4. ASSUME NEW ch \in J
      PROVE  /\ c \notin Abstract!On(ch)
             /\ Abstract!On(ch) = {} \/ Abstract!Open(ch) \/ c \in invited[ch]
  <2>1. ch \in Channel /\ c \notin Members(ch) /\ ~InviteRefused(c, ch)
    BY <1>1, <1>4
  <2>2. c \notin Abstract!On(ch)
    BY <2>1, RoleFacts
  <2> QED BY <1>3, <2>1, <2>2 DEF InviteRefused, Abstract!Open
<1>5. ASSUME NEW ch \in Channel
      PROVE  [d \in Client |-> Role(ch, d)']
               = IF ch \notin J THEN [d \in Client |-> Role(ch, d)]
                 ELSE [[d \in Client |-> Role(ch, d)] EXCEPT
                         ![c] = IF Abstract!On(ch) = {} THEN "operator"
                                                        ELSE "regular"]
  <2>1. CASE ch \notin J
    BY <1>2, <2>1 DEF Role
  <2>2. CASE ch \in J /\ ch \notin channels
    <3>1. Abstract!On(ch) = {} /\ operators[ch] = {} /\ regulars[ch] = {}
      BY <1>3, <2>2 DEF ChannelIffOccupied, Members
    <3> QED BY <1>2, <2>2, <3>1 DEF Role
  <2>3. CASE ch \in J /\ ch \in channels
    <3>1. Abstract!On(ch) # {} /\ c \notin operators[ch]
      BY <1>1, <1>3, <2>3 DEF Members
    <3> QED BY <1>2, <2>3, <3>1 DEF Role
  <2> QED BY <2>1, <2>2, <2>3
<1>6. [ch \in Channel |-> [d \in Client |-> Role(ch, d)]]'
        = [ch \in Channel |->
             IF ch \notin J THEN [d \in Client |-> Role(ch, d)]
             ELSE [[d \in Client |-> Role(ch, d)] EXCEPT
                     ![c] = IF Abstract!On(ch) = {} THEN "operator" ELSE "regular"]]
  BY <1>5
<1>7. invited' = [ch \in Channel |->
                    IF ch \in J THEN invited[ch] \ {c} ELSE invited[ch]]
  BY <1>2 DEF AbsentIsBlank
<1> QED BY <1>2, <1>4, <1>6, <1>7 DEF Abstract!Enter, J

LEMMA LeaveRefines ==
  ASSUME IndInv, NEW c \in Client, NEW S \in SUBSET channels, EraseClient(c, S)
  PROVE  Abstract!Exit(c, S)
<1> USE DEF IndInv, RosterInv
<1>1. S \in SUBSET Channel
  BY DEF StateTypeOK
<1>2. \A ch \in Channel :
        /\ operators'[ch] = IF ch \in S THEN operators[ch] \ {c} ELSE operators[ch]
        /\ regulars'[ch]  = IF ch \in S THEN regulars[ch] \ {c} ELSE regulars[ch]
  BY <1>1, LeaveMembers
<1> DEFINE closed == {ch \in S : Abstract!On(ch) \subseteq {c}}
<1>3. closed = Emptied(c, S)
  <2>1. ASSUME NEW ch \in S
        PROVE  Abstract!On(ch) \subseteq {c} <=>
                 OperatorsLeft(c, ch) = {} /\ RegularsLeft(c, ch) = {}
    BY <1>1, RoleFacts DEF OperatorsLeft, RegularsLeft, Members, RolesDisjoint
  <2> QED BY <2>1 DEF Emptied
<1>4. /\ mode' = [ch \in Channel |-> IF ch \in closed THEN {"t"} ELSE mode[ch]]
      /\ topic' = [ch \in Channel |-> IF ch \in closed THEN NoTopic ELSE topic[ch]]
      /\ invited' = [ch \in Channel |-> IF ch \in closed THEN {} ELSE invited[ch]]
  BY <1>3 DEF EraseClient, DefaultMode
<1>5. ASSUME NEW ch \in Channel
      PROVE  [d \in Client |-> Role(ch, d)']
               = IF ch \in S THEN [[d \in Client |-> Role(ch, d)] EXCEPT ![c] = "none"]
                             ELSE [d \in Client |-> Role(ch, d)]
  BY <1>2 DEF Role
<1>6. [ch \in Channel |-> [d \in Client |-> Role(ch, d)]]'
        = [ch \in Channel |->
             IF ch \in S THEN [[d \in Client |-> Role(ch, d)] EXCEPT ![c] = "none"]
                         ELSE [d \in Client |-> Role(ch, d)]]
  BY <1>5
<1> QED BY <1>1, <1>4, <1>6 DEF Abstract!Exit

LEMMA UpdateRoleRefines ==
  ASSUME IndInv, NEW c \in Client, NEW ch \in Channel, c \in operators[ch],
         NEW target \in Client, NEW promote \in BOOLEAN,
         UpdateRole(c, ch, target, promote)
  PROVE  \/ UNCHANGED Abstract!abstractVars
         \/ \E rank \in {"regular", "operator"} : Abstract!Regrade(c, target, ch, rank)
<1> USE DEF IndInv, RosterInv
<1>0. Abstract!IsOperator(c, ch)
  BY RoleFacts
<1>1. CASE UNCHANGED state
  BY <1>1, StutterRefines DEF state, settingVars
<1>2. CASE /\ target \in regulars[ch]
           /\ operators' = [operators EXCEPT ![ch] = @ \cup {target}]
           /\ regulars'  = [regulars EXCEPT ![ch] = @ \ {target}]
           /\ UNCHANGED <<clientVars, channelList, channels, settingVars>>
  <2>1. target \in Abstract!On(ch)
    BY <1>2, RoleFacts DEF Members
  <2>2. [x \in Channel |-> [d \in Client |-> Role(x, d)]]'
          = [[x \in Channel |-> [d \in Client |-> Role(x, d)]]
               EXCEPT ![ch][target] = "operator"]
    BY <1>2 DEF Role, StateTypeOK
  <2>3. Abstract!Regrade(c, target, ch, "operator")
    BY <1>0, <1>2, <2>1, <2>2 DEF Abstract!Regrade, settingVars
  <2> QED BY <2>3
<1>3. CASE /\ target \in operators[ch]
           /\ regulars'  = [regulars EXCEPT ![ch] = @ \cup {target}]
           /\ operators' = [operators EXCEPT ![ch] = @ \ {target}]
           /\ UNCHANGED <<clientVars, channelList, channels, settingVars>>
  <2>1. target \in Abstract!On(ch)
    BY <1>3, RoleFacts DEF Members
  <2>2. [x \in Channel |-> [d \in Client |-> Role(x, d)]]'
          = [[x \in Channel |-> [d \in Client |-> Role(x, d)]]
               EXCEPT ![ch][target] = "regular"]
    BY <1>3 DEF Role, StateTypeOK
  <2>3. Abstract!Regrade(c, target, ch, "regular")
    BY <1>0, <1>3, <2>1, <2>2 DEF Abstract!Regrade, settingVars
  <2> QED BY <2>3
<1> QED BY <1>1, <1>2, <1>3 DEF UpdateRole

-----------------------------------------------------------------------------
(* Each command is a step of Membership or a stutter. *)

LEMMA RefuseRefines ==
  ASSUME NEW c, NEW code, Refuse(c, code) \/ UNCHANGED state
  PROVE  UNCHANGED Abstract!abstractVars
  BY StutterRefines DEF Refuse, state, settingVars

LEMMA SetFlagRefines ==
  ASSUME IndInv, NEW c \in Client, NEW ch \in Channel, NEW f \in Flags,
         NEW on \in BOOLEAN, SetFlag(c, ch, f, on)
  PROVE  \/ UNCHANGED Abstract!abstractVars
         \/ \E F \in SUBSET {"i", "t"} : Abstract!Configure(c, ch, F)
<1>1. CASE Refuse(c, ModeCheck(c, ch)) \/ UNCHANGED state
  BY <1>1, RefuseRefines
<1>2. CASE /\ ModeCheck(c, ch) = Granted
           /\ mode' = [mode EXCEPT ![ch] = IF on THEN @ \cup {f} ELSE @ \ {f}]
           /\ UNCHANGED <<clientVars, rosterVars, invited, topic>>
  <2> DEFINE F == IF on THEN mode[ch] \cup {f} ELSE mode[ch] \ {f}
  <2>1. F \in SUBSET {"i", "t"} /\ mode' = [mode EXCEPT ![ch] = F]
    BY <1>2 DEF IndInv, StateTypeOK, Flags
  <2> HIDE DEF F
  <2>2. Abstract!IsOperator(c, ch)
    BY <1>2, CheckFacts, RoleFacts DEF IndInv
  <2>3. Abstract!Configure(c, ch, F)
    BY <1>2, <2>1, <2>2 DEF Abstract!Configure, rosterVars, Role
  <2> QED BY <2>1, <2>3
<1> QED BY <1>1, <1>2 DEF SetFlag

LEMMA SetTopicRefines ==
  ASSUME IndInv, NEW c \in Client, NEW ch \in Channel,
         NEW t \in Topic \cup {NoTopic}, SetTopic(c, ch, t)
  PROVE  UNCHANGED Abstract!abstractVars \/ Abstract!Discuss(c, ch, t)
<1>1. CASE Refuse(c, TopicCheck(c, ch)) \/ UNCHANGED state
  BY <1>1, RefuseRefines
<1>2. CASE /\ TopicCheck(c, ch) = Granted
           /\ topic' = [topic EXCEPT ![ch] = t]
           /\ UNCHANGED <<clientVars, rosterVars, invited, mode>>
  <2>1. IF "t" \in mode[ch] THEN Abstract!IsOperator(c, ch) ELSE c \in Abstract!On(ch)
    BY <1>2, CheckFacts, RoleFacts DEF IndInv, Members
  <2> QED BY <1>2, <2>1 DEF Abstract!Discuss, rosterVars, Role
<1> QED BY <1>1, <1>2 DEF SetTopic

LEMMA InviteRefines ==
  ASSUME IndInv, NEW c \in Client, NEW n \in Nick, NEW ch \in Channel,
         Invite(c, n, ch)
  PROVE  \/ UNCHANGED Abstract!abstractVars
         \/ \E target \in Client : Abstract!Admit(c, target, ch)
<1>1. CASE Refuse(c, TargetCheck(c, ch, n))
  BY <1>1, RefuseRefines
<1>2. CASE /\ TargetCheck(c, ch, n) = Granted
           /\ \E target \in Named(n) :
                invited' = [invited EXCEPT ![ch] = @ \cup {target}]
           /\ UNCHANGED <<clientVars, rosterVars, mode, topic>>
  <2>1. PICK target \in Client : invited' = [invited EXCEPT ![ch] = @ \cup {target}]
    BY <1>2 DEF Named, Live
  <2>2. Abstract!IsOperator(c, ch)
    BY <1>2, CheckFacts, RoleFacts DEF IndInv
  <2>3. Abstract!Admit(c, target, ch)
    BY <1>2, <2>1, <2>2 DEF Abstract!Admit, rosterVars, Role
  <2> QED BY <2>3
<1> QED BY <1>1, <1>2 DEF Invite

LEMMA KickRefines ==
  ASSUME IndInv, NEW c \in Client, NEW ch \in Channel, NEW n \in Addressee, Kick(c, ch, n)
  PROVE  \/ UNCHANGED Abstract!abstractVars
         \/ \E target \in Client : Abstract!Remove(c, target, ch)
<1>1. CASE Refuse(c, TargetCheck(c, ch, n))
  BY <1>1, RefuseRefines
<1>2. CASE /\ TargetCheck(c, ch, n) = Granted
           /\ \E target \in Named(n) : Leave(target, {ch})
  <2>1. PICK target \in Client : Leave(target, {ch})
    BY <1>2 DEF Named, Live
  <2>2. Abstract!IsOperator(c, ch) /\ ch \in channels
    BY <1>2, CheckFacts, RoleFacts DEF IndInv
  <2>3. Abstract!Exit(target, {ch})
    BY <2>1, <2>2, LeaveRefines DEF Leave
  <2> QED BY <2>2, <2>3 DEF Abstract!Remove
<1> QED BY <1>1, <1>2 DEF Kick

LEMMA SetOperatorRefines ==
  ASSUME IndInv, NEW c \in Client, NEW ch \in Channel, NEW n \in Nick,
         NEW promote \in BOOLEAN, SetOperator(c, ch, n, promote)
  PROVE  \/ UNCHANGED Abstract!abstractVars
         \/ \E target \in Client, rank \in {"regular", "operator"} :
              Abstract!Regrade(c, target, ch, rank)
<1>1. CASE \E code : Refuse(c, code)
  BY <1>1, RefuseRefines
<1>2. CASE /\ ModeCheck(c, ch) = Granted
           /\ \E target \in Named(n) : UpdateRole(c, ch, target, promote)
  <2>1. PICK target \in Client : UpdateRole(c, ch, target, promote)
    BY <1>2 DEF Named, Live
  <2> QED BY <1>2, <2>1, CheckFacts, UpdateRoleRefines
<1> QED BY <1>1, <1>2 DEF SetOperator

LEMMA ExecuteRefines ==
  ASSUME IndInv, NEW c \in Client, Execute(c)
  PROVE  Abstract!Next \/ UNCHANGED Abstract!abstractVars
<1>1. ASSUME NEW list \in Lists(Channel), Join(c, list)
      PROVE  Abstract!Next
  <2>1. Joined(c, list) \in SUBSET Channel
    BY JoinedChannels
  <2> QED BY <1>1, <2>1, JoinRefines DEF Abstract!Next
<1>2. ASSUME NEW list \in Lists(Channel), Part(c, list)
      PROVE  Abstract!Next
  <2> DEFINE left == {list[i] : i \in DOMAIN list} \cap channels
  <2>1. left \in SUBSET channels /\ EraseClient(c, left)
    BY <1>2 DEF Part, Leave
  <2> HIDE DEF left
  <2>2. Abstract!Exit(c, left) /\ left \in SUBSET Channel
    BY <2>1, LeaveRefines DEF IndInv, StateTypeOK
  <2> QED BY <2>2 DEF Abstract!Next
<1>3. CASE \E ch \in Channel, f \in Flags, on \in BOOLEAN : SetFlag(c, ch, f, on)
  BY <1>3, SetFlagRefines DEF Abstract!Next
<1>4. CASE \E ch \in Channel, n \in Nick, promote \in BOOLEAN :
             SetOperator(c, ch, n, promote)
  BY <1>4, SetOperatorRefines DEF Abstract!Next
<1>5. CASE \E ch \in Channel, t \in Topic \cup {NoTopic} : SetTopic(c, ch, t)
  BY <1>5, SetTopicRefines DEF Abstract!Next
<1>6. CASE \E n \in Nick, ch \in Channel : Invite(c, n, ch)
  BY <1>6, InviteRefines DEF Abstract!Next
<1>7. CASE \E ch \in Channel, n \in Addressee : Kick(c, ch, n)
  BY <1>7, KickRefines DEF Abstract!Next
<1>8. CASE UNCHANGED <<operators, regulars, settingVars>>
  BY <1>8, StutterRefines
<1>9. CASE \E n \in Nick : NewNick(c, n)
  BY <1>8, <1>9 DEF NewNick, Refuse, state, rosterVars, settingVars
<1>10. CASE Quit(c)
  BY <1>8, <1>10 DEF Quit, rosterVars, settingVars
<1>11. CASE \/ \E list \in Lists(Channel \cup Addressee), first \in Client :
                 Privmsg(c, list, first)
            \/ \E n \in Addressee : Notice(c, n)
            \/ Pong(c) \/ Ignored(c)
  BY <1>8, <1>11 DEF Privmsg, Notice, Pong, Ignored, Refuse, state, settingVars
<1> QED BY <1>1, <1>2, <1>3, <1>4, <1>5, <1>6, <1>7, <1>9, <1>10, <1>11 DEF Execute

LEMMA NextRefines ==
  ASSUME IndInv, [Next]_vars
  PROVE  [Abstract!Next]_(Abstract!abstractVars)
<1>1. CASE UNCHANGED <<operators, regulars, settingVars>>
  BY <1>1, StutterRefines
<1>2. CASE UNCHANGED vars
  BY <1>1, <1>2 DEF vars, settingVars
<1>3. ASSUME NEW c \in Client, Accept(c) \/ Timeout(c)
      PROVE  UNCHANGED <<operators, regulars, settingVars>>
  BY <1>3 DEF Accept, Timeout, rosterVars
<1>4. ASSUME NEW c \in Client, Connect(c)
      PROVE  UNCHANGED <<operators, regulars, settingVars>>
  BY <1>4 DEF Connect, Pass, User, FirstNick, NotRegistered, Authenticate, Refuse,
              state, rosterVars, settingVars
<1>5. ASSUME NEW c \in Client, Execute(c)
      PROVE  Abstract!Next \/ UNCHANGED Abstract!abstractVars
  BY <1>5, ExecuteRefines
<1>6. ASSUME NEW c \in Client, DeleteClient(c)
      PROVE  Abstract!Next
  <2>1. channelList[c] \in SUBSET channels /\ channelList[c] \in SUBSET Channel
    BY DEF IndInv, StateTypeOK, RosterInv, RosterAgreement, ChannelIffOccupied
  <2>2. Abstract!Exit(c, channelList[c])
    BY <1>6, <2>1, LeaveRefines DEF DeleteClient, Leave
  <2> QED BY <2>1, <2>2 DEF Abstract!Next
<1> QED BY <1>1, <1>2, <1>3, <1>4, <1>5, <1>6 DEF Next

\* The records the server keeps implement the promise: who is on a channel with
\* which rights changes only as Membership allows, for any number of clients and
\* channels and lists of channels of any length.
THEOREM Refinement == Spec => ImplementsMembership
<1> QED BY InitRefines, Invariance, NextRefines, PTL
        DEF Spec, ImplementsMembership, Abstract!Spec
=============================================================================
