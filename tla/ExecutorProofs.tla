--------------------------- MODULE ExecutorProofs ---------------------------
(***************************************************************************)
(* Proofs about Executor, for every set of clients, channels, nicknames and*)
(* topics and every length of lists.                                       *)
(*                                                                         *)
(* The argument: IndInv holds initially and every handler preserves it.    *)
(* A handler changes the roster through one of three doors (Join, Leave,   *)
(* UpdateRole), each of which is a lemma; what it does to the clients'     *)
(* status and nicknames is a second, independent half.                     *)
(***************************************************************************)
EXTENDS Executor, TLAPS

-----------------------------------------------------------------------------
(* Leaving channels. *)

\* After c has left the existing channels of S it is on none of them, and nobody
\* else's membership has changed.
LEMMA LeaveMembers ==
  ASSUME StateTypeOK, RolesDisjoint, NEW c \in Client, NEW S \in SUBSET Channel,
         EraseClient(c, S)
  PROVE  \A ch \in Channel :
           /\ operators'[ch] = IF ch \in S THEN operators[ch] \ {c} ELSE operators[ch]
           /\ regulars'[ch]  = IF ch \in S THEN regulars[ch] \ {c} ELSE regulars[ch]
  BY DEF StateTypeOK, RolesDisjoint, EraseClient, OperatorsLeft, RegularsLeft

\* Leaving keeps the types of what it changes.
LEMMA LeaveType ==
  ASSUME StateTypeOK, NEW c \in Client, NEW S \in SUBSET Channel, Leave(c, S)
  PROVE  /\ channelList' \in [Client -> SUBSET Channel]
         /\ channels' \in SUBSET Channel
         /\ operators' \in [Channel -> SUBSET Client]
         /\ regulars' \in [Channel -> SUBSET Client]
         /\ invited' \in [Channel -> SUBSET Client]
         /\ mode' \in [Channel -> SUBSET Flags]
         /\ topic' \in [Channel -> Topic \cup {NoTopic}]
<1>1. channelList' \in [Client -> SUBSET Channel]
  BY DEF StateTypeOK, Leave, EraseChannels
<1>2. /\ channels' \in SUBSET Channel
      /\ operators' \in [Channel -> SUBSET Client]
      /\ regulars' \in [Channel -> SUBSET Client]
      /\ invited' \in [Channel -> SUBSET Client]
  BY DEF StateTypeOK, Leave, EraseClient, OperatorsLeft, RegularsLeft
<1>3. mode' \in [Channel -> SUBSET Flags]
  BY DEF StateTypeOK, Leave, EraseClient, DefaultMode, Flags
<1>4. topic' \in [Channel -> Topic \cup {NoTopic}]
  BY DEF StateTypeOK, Leave, EraseClient
<1> QED BY <1>1, <1>2, <1>3, <1>4

\* Leaving keeps the two sides of membership in step, and takes away exactly the
\* channels it empties.
LEMMA LeaveRoster ==
  ASSUME StateTypeOK, RosterInv, NEW c \in Client, NEW S \in SUBSET channels,
         Leave(c, S)
  PROVE  /\ RosterInv'
         /\ \A ch \in Channel : Members(ch)' \subseteq Members(ch)
<1> USE DEF RosterInv
<1>1. S \in SUBSET Channel
  BY DEF StateTypeOK
<1>2. \A ch \in Channel :
        /\ operators'[ch] = IF ch \in S THEN operators[ch] \ {c} ELSE operators[ch]
        /\ regulars'[ch]  = IF ch \in S THEN regulars[ch] \ {c} ELSE regulars[ch]
  BY <1>1, LeaveMembers DEF Leave
<1>3. \A ch \in Channel :
        Members(ch)' = IF ch \in S THEN Members(ch) \ {c} ELSE Members(ch)
  BY <1>2 DEF Members
<1>4. \A d \in Client : channelList'[d] = IF d = c THEN channelList[d] \ S
                                                   ELSE channelList[d]
  BY DEF Leave, EraseChannels, StateTypeOK
<1>5. RosterAgreement'
  BY <1>1, <1>3, <1>4 DEF RosterAgreement
<1>6. \A ch \in Channel : ch \in Emptied(c, S) <=> ch \in S /\ Members(ch)' = {}
  BY <1>1, <1>2 DEF Emptied, Members, OperatorsLeft, RegularsLeft, RolesDisjoint,
                     StateTypeOK
<1>7. channels' = channels \ Emptied(c, S)
  BY DEF Leave, EraseClient
<1>8. ChannelIffOccupied'
  BY <1>3, <1>6, <1>7 DEF ChannelIffOccupied
<1>9. RolesDisjoint'
  BY <1>2 DEF RolesDisjoint
<1>10. AbsentIsBlank'
  BY <1>1, <1>6, <1>7 DEF AbsentIsBlank, Leave, EraseClient, DefaultMode
<1> QED BY <1>3, <1>5, <1>8, <1>9, <1>10

-----------------------------------------------------------------------------
(* Entering channels and changing roles. *)

\* A list of names is a function on an initial segment of the numbers.
LEMMA ListIndex ==
  ASSUME NEW S, NEW list \in Lists(S)
  PROVE  /\ \A i \in DOMAIN list : list[i] \in S /\ i \in Nat \ {0}
         /\ \A i \in DOMAIN list : \A j \in 1..i : j \in DOMAIN list
<1>1. PICK n \in 0..MaxNames : list \in [1..n -> S]
  BY DEF Lists
<1>2. n \in Nat
  BY BoundAssumption
<1> QED BY <1>1, <1>2

\* Every channel JOIN enters is one the client is not on, and is let into.
LEMMA JoinedChannels ==
  ASSUME NEW c \in Client, NEW list \in Lists(Channel)
  PROVE  /\ Joined(c, list) \in SUBSET Channel
         /\ \A ch \in Joined(c, list) : c \notin Members(ch) /\ ~InviteRefused(c, ch)
<1>1. ASSUME NEW ch \in Joined(c, list)
      PROVE  ch \in Channel /\ c \notin Members(ch) /\ ~InviteRefused(c, ch)
  <2>1. PICK i \in DOMAIN list : ch = list[i] /\ \A j \in 1..i : ~Stops(c, list, j)
    BY <1>1 DEF Joined
  <2>2. i \in Nat \ {0} /\ list[i] \in Channel
    BY ListIndex
  <2>3. ~Stops(c, list, i)
    BY <2>1, <2>2
  <2> QED BY <2>1, <2>2, <2>3 DEF Stops
<1> QED BY <1>1

\* Joining keeps the types of the roster.
LEMMA JoinType ==
  ASSUME StateTypeOK, NEW c \in Client, NEW list \in Lists(Channel), Join(c, list)
  PROVE  StateTypeOK'
<1>1. Joined(c, list) \in SUBSET Channel
  BY JoinedChannels
<1> DEFINE J == Joined(c, list)
<1>2. /\ channels' = channels \cup (J \ channels)
      /\ operators' = [ch \in Channel |->
                         IF ch \in J \ channels THEN {c} ELSE operators[ch]]
      /\ regulars' = [ch \in Channel |->
                        IF ch \in J \cap channels THEN regulars[ch] \cup {c}
                                                  ELSE regulars[ch]]
      /\ invited' = [ch \in Channel |->
                       IF ch \in J \cap channels THEN invited[ch] \ {c}
                                                 ELSE invited[ch]]
      /\ channelList' = [channelList EXCEPT ![c] = @ \cup J]
      /\ UNCHANGED <<status, auth, nickname, mode, topic>>
  BY DEF Join, clientVars
<1> HIDE DEF J
<1>3. J \in SUBSET Channel
  BY <1>1 DEF J
<1> QED BY <1>2, <1>3 DEF StateTypeOK

\* Joining keeps the two sides of membership in step, and adds nobody but the
\* client that joins.
LEMMA JoinRoster ==
  ASSUME StateTypeOK, RosterInv, NEW c \in Client, NEW list \in Lists(Channel),
         Join(c, list)
  PROVE  /\ RosterInv'
         /\ \A ch \in Channel : Members(ch)' \subseteq Members(ch) \cup {c}
<1> DEFINE J == Joined(c, list)
<1>1. J \in SUBSET Channel /\ \A ch \in J : c \notin Members(ch)
  BY JoinedChannels
<1>2. /\ channels' = channels \cup (J \ channels)
      /\ operators' = [ch \in Channel |->
                         IF ch \in J \ channels THEN {c} ELSE operators[ch]]
      /\ regulars' = [ch \in Channel |->
                        IF ch \in J \cap channels THEN regulars[ch] \cup {c}
                                                  ELSE regulars[ch]]
      /\ invited' = [ch \in Channel |->
                       IF ch \in J \cap channels THEN invited[ch] \ {c}
                                                 ELSE invited[ch]]
      /\ channelList' = [channelList EXCEPT ![c] = @ \cup J]
      /\ UNCHANGED <<mode, topic>>
  BY DEF Join
<1> HIDE DEF J
<1> USE DEF RosterInv
<1>3. \A ch \in Channel :
        Members(ch)' = IF ch \in J THEN Members(ch) \cup {c} ELSE Members(ch)
  BY <1>1, <1>2 DEF Members, ChannelIffOccupied
<1>4. \A d \in Client : channelList'[d] = IF d = c THEN channelList[d] \cup J
                                                   ELSE channelList[d]
  BY <1>2 DEF StateTypeOK
<1>5. RosterAgreement'
  <2>1. ASSUME NEW d \in Client, NEW ch \in Channel
        PROVE  d \in Members(ch)' <=> ch \in channelList'[d]
    <3>1. d \in Members(ch)' <=> d \in Members(ch) \/ (ch \in J /\ d = c)
      BY <1>3
    <3>2. ch \in channelList'[d] <=> ch \in channelList[d] \/ (d = c /\ ch \in J)
      BY <1>4
    <3> QED BY <3>1, <3>2 DEF RosterAgreement
  <2> QED BY <2>1 DEF RosterAgreement
<1>6. ChannelIffOccupied'
  BY <1>1, <1>2, <1>3 DEF ChannelIffOccupied
<1>7. RolesDisjoint'
  BY <1>1, <1>2 DEF RolesDisjoint, Members, ChannelIffOccupied
<1>8. AbsentIsBlank'
  BY <1>1, <1>2 DEF AbsentIsBlank, DefaultMode
<1> QED BY <1>3, <1>5, <1>6, <1>7, <1>8

\* A change of role moves a member from one set to the other.
LEMMA UpdateRoleRoster ==
  ASSUME StateTypeOK, RosterInv, NEW c \in Client, NEW ch \in Channel,
         NEW target \in Client, NEW promote \in BOOLEAN,
         UpdateRole(c, ch, target, promote)
  PROVE  /\ StateTypeOK'
         /\ RosterInv'
         /\ \A x \in Channel : Members(x)' = Members(x)
         /\ UNCHANGED clientVars
<1> USE DEF RosterInv
<1>1. CASE UNCHANGED state
  BY <1>1 DEF state, clientVars, StateTypeOK, RosterAgreement, ChannelIffOccupied,
              RolesDisjoint, AbsentIsBlank, DefaultMode, Members
<1>2. CASE /\ target \in regulars[ch]
           /\ operators' = [operators EXCEPT ![ch] = @ \cup {target}]
           /\ regulars'  = [regulars EXCEPT ![ch] = @ \ {target}]
           /\ UNCHANGED <<clientVars, channelList, channels, settingVars>>
  <2>1. StateTypeOK'
    BY <1>2 DEF StateTypeOK, clientVars, settingVars
  <2>2. \A x \in Channel : Members(x)' = Members(x)
    BY <1>2 DEF Members, StateTypeOK
  <2>3. RosterAgreement' /\ ChannelIffOccupied'
    BY <1>2, <2>2 DEF RosterAgreement, ChannelIffOccupied
  <2>4. RolesDisjoint' /\ AbsentIsBlank'
    BY <1>2 DEF RolesDisjoint, AbsentIsBlank, StateTypeOK, settingVars, DefaultMode
  <2> QED BY <1>2, <2>1, <2>2, <2>3, <2>4
<1>3. CASE /\ target \in operators[ch]
           /\ regulars'  = [regulars EXCEPT ![ch] = @ \cup {target}]
           /\ operators' = [operators EXCEPT ![ch] = @ \ {target}]
           /\ UNCHANGED <<clientVars, channelList, channels, settingVars>>
  <2>1. StateTypeOK'
    BY <1>3 DEF StateTypeOK, clientVars, settingVars
  <2>2. \A x \in Channel : Members(x)' = Members(x)
    BY <1>3 DEF Members, StateTypeOK
  <2>3. RosterAgreement' /\ ChannelIffOccupied'
    BY <1>3, <2>2 DEF RosterAgreement, ChannelIffOccupied
  <2>4. RolesDisjoint' /\ AbsentIsBlank'
    BY <1>3 DEF RolesDisjoint, AbsentIsBlank, StateTypeOK, settingVars, DefaultMode
  <2> QED BY <1>3, <2>1, <2>2, <2>3, <2>4
<1> QED BY <1>1, <1>2, <1>3 DEF UpdateRole

-----------------------------------------------------------------------------
(* What does not change keeps what is true of it. *)

\* Commands that only answer keep the invariant.
LEMMA StateFrame ==
  ASSUME IndInv, UNCHANGED state
  PROVE  IndInv'
<1> USE DEF IndInv, state
<1>1. StateTypeOK'
  BY DEF StateTypeOK
<1>2. RosterInv'
  BY DEF RosterInv, RosterAgreement, ChannelIffOccupied, RolesDisjoint,
         AbsentIsBlank, DefaultMode, Members
<1>3. ClientInv'
  BY DEF ClientInv, NickUnique, RegisteredHaveNick, FreeIsBlank, NickBehindAuth,
         Live, Credentials
<1>4. MembersRegistered'
  BY DEF MembersRegistered, Members
<1> QED BY <1>1, <1>2, <1>3, <1>4

\* So do refusals.
LEMMA RefuseFrame ==
  ASSUME IndInv, NEW c, NEW code, Refuse(c, code)
  PROVE  IndInv'
  BY StateFrame DEF Refuse

\* The roster's half of the invariant does not depend on the clients.
LEMMA RosterFrame ==
  ASSUME RosterInv, UNCHANGED <<rosterVars, settingVars>>
  PROVE  RosterInv' /\ \A ch \in Channel : Members(ch)' = Members(ch)
  BY DEF RosterInv, RosterAgreement, ChannelIffOccupied, RolesDisjoint,
         AbsentIsBlank, DefaultMode, Members, rosterVars, settingVars

\* What is set of a channel (flags, topic, invitations) is free as long as the
\* channel exists.
LEMMA SettingFrame ==
  ASSUME RosterInv, UNCHANGED rosterVars,
         \A ch \in Channel \ channels :
           invited'[ch] = invited[ch] /\ mode'[ch] = mode[ch] /\ topic'[ch] = topic[ch]
  PROVE  RosterInv' /\ \A ch \in Channel : Members(ch)' = Members(ch)
  BY DEF RosterInv, RosterAgreement, ChannelIffOccupied, RolesDisjoint,
         AbsentIsBlank, DefaultMode, Members, rosterVars

\* The clients' half does not depend on the roster.
LEMMA ClientFrame ==
  ASSUME ClientInv, UNCHANGED clientVars
  PROVE  ClientInv'
  BY DEF ClientInv, NickUnique, RegisteredHaveNick, FreeIsBlank, NickBehindAuth,
         Live, Credentials, clientVars

\* A command of a registered client that adds no member but the client itself
\* keeps the members registered.
LEMMA MembersFrame ==
  ASSUME MembersRegistered, UNCHANGED status, NEW c, status[c] = "REGISTER",
         \A ch \in Channel : Members(ch)' \subseteq Members(ch) \cup {c}
  PROVE  MembersRegistered'
  BY DEF MembersRegistered

\* The rights each check looks for.
LEMMA CheckFacts ==
  ASSUME NEW c \in Client, NEW ch \in Channel
  PROVE  /\ ModeCheck(c, ch) = Granted => ch \in channels /\ c \in operators[ch]
         /\ \A n : TargetCheck(c, ch, n) = Granted =>
              ch \in channels /\ c \in operators[ch]
         /\ TopicCheck(c, ch) = Granted =>
              /\ ch \in channels
              /\ c \in operators[ch] \/ (c \in Members(ch) /\ "t" \notin mode[ch])
  BY DEF ModeCheck, TargetCheck, TopicCheck, OperatorCheck, Granted

-----------------------------------------------------------------------------
(* The life of a connection. *)

\* A new Client object is on no channel and has no nickname.
LEMMA AcceptInd ==
  ASSUME IndInv, NEW c \in Client, Accept(c)
  PROVE  IndInv'
<1> USE DEF IndInv
<1>1. /\ status[c] = "FREE"
      /\ status' = [status EXCEPT ![c] = "UNREGISTER"]
      /\ UNCHANGED <<auth, nickname, rosterVars, settingVars>>
  BY DEF Accept
<1>2. StateTypeOK'
  BY <1>1 DEF StateTypeOK, Status, rosterVars, settingVars
<1>3. RosterInv' /\ \A ch \in Channel : Members(ch)' = Members(ch)
  BY <1>1, RosterFrame
<1>4. ClientInv'
  <2>1. nickname[c] = NoNick /\ auth[c] = {}
    BY <1>1 DEF ClientInv, FreeIsBlank
  <2> QED BY <1>1, <2>1 DEF ClientInv, NickUnique, RegisteredHaveNick, FreeIsBlank,
                            NickBehindAuth, Live, StateTypeOK, Credentials
<1>5. MembersRegistered'
  BY <1>1, <1>3 DEF MembersRegistered, StateTypeOK
<1> QED BY <1>2, <1>3, <1>4, <1>5

\* A client that times out never registered, so it is on no channel.
LEMMA TimeoutInd ==
  ASSUME IndInv, NEW c \in Client, Timeout(c)
  PROVE  IndInv'
<1> USE DEF IndInv
<1>1. /\ status[c] = "UNREGISTER"
      /\ status' = [status EXCEPT ![c] = "TIMEOUT"]
      /\ UNCHANGED <<auth, nickname, rosterVars, settingVars>>
  BY DEF Timeout
<1>2. StateTypeOK'
  BY <1>1 DEF StateTypeOK, Status, rosterVars, settingVars
<1>3. RosterInv' /\ \A ch \in Channel : Members(ch)' = Members(ch)
  BY <1>1, RosterFrame
<1>4. ClientInv'
  BY <1>1 DEF ClientInv, NickUnique, RegisteredHaveNick, FreeIsBlank,
              NickBehindAuth, Live, StateTypeOK, Credentials
<1>5. MembersRegistered'
  BY <1>1, <1>3 DEF MembersRegistered, StateTypeOK
<1> QED BY <1>2, <1>3, <1>4, <1>5

\* A deleted client is on no channel afterwards: its own list of channels told
\* deleteClient about all of them.
LEMMA DeleteInd ==
  ASSUME IndInv, NEW c \in Client, DeleteClient(c)
  PROVE  IndInv'
<1> USE DEF IndInv
<1>1. /\ Leave(c, channelList[c])
      /\ status'   = [status EXCEPT ![c] = "FREE"]
      /\ auth'     = [auth EXCEPT ![c] = {}]
      /\ nickname' = [nickname EXCEPT ![c] = NoNick]
  BY DEF DeleteClient
<1>2. channelList[c] \in SUBSET channels
  BY DEF StateTypeOK, RosterInv, RosterAgreement, ChannelIffOccupied
<1>3. channelList[c] \in SUBSET Channel
  BY DEF StateTypeOK
<1>4. StateTypeOK'
  <2>1. /\ status' \in [Client -> Status]
        /\ auth' \in [Client -> SUBSET Credentials]
        /\ nickname' \in [Client -> Nick \cup {NoNick}]
    BY <1>1 DEF StateTypeOK, Status
  <2> QED BY <1>1, <1>3, <2>1, LeaveType DEF StateTypeOK
<1>5. RosterInv' /\ \A ch \in Channel : Members(ch)' \subseteq Members(ch)
  BY <1>1, <1>2, LeaveRoster
<1>6. ClientInv'
  BY <1>1 DEF ClientInv, NickUnique, RegisteredHaveNick, FreeIsBlank,
              NickBehindAuth, Live, StateTypeOK, Credentials
<1>7. channelList'[c] = {}
  BY <1>1 DEF Leave, EraseChannels, StateTypeOK
<1>8. \A ch \in Channel : c \notin Members(ch)'
  BY <1>5, <1>7 DEF RosterInv, RosterAgreement
<1>9. MembersRegistered'
  BY <1>1, <1>5, <1>8 DEF MembersRegistered, StateTypeOK, RosterInv, Members
<1> QED BY <1>4, <1>5, <1>6, <1>9

-----------------------------------------------------------------------------
(* Registration. *)

\* A step of registration, taken with a nickname that is nobody else's, or with
\* the one the client already has.
LEMMA AuthenticateInd ==
  ASSUME IndInv, NEW c \in Client, NEW step \in Credentials,
         status[c] = "UNREGISTER", Authenticate(c, step),
         nickname' \in [Client -> Nick \cup {NoNick}],
         \A d \in Client \ {c} : nickname'[d] = nickname[d],
         \/ step # "NICK" /\ nickname'[c] = nickname[c]
         \/ nickname'[c] # NoNick /\ \A d \in Live : nickname[d] # nickname'[c]
  PROVE  IndInv'
<1> USE DEF IndInv
<1>1. /\ auth' = [auth EXCEPT ![c] = @ \cup {step}]
      /\ \/ /\ auth'[c] = Credentials
            /\ status' = [status EXCEPT ![c] = "REGISTER"]
         \/ auth'[c] # Credentials /\ status' = status
      /\ UNCHANGED <<rosterVars, settingVars>>
  BY DEF Authenticate, StateTypeOK
<1>2. \A d \in Client \ {c} : status'[d] = status[d] /\ auth'[d] = auth[d]
  BY <1>1 DEF StateTypeOK
<1>3. status'[c] \in {"UNREGISTER", "REGISTER"} /\ auth'[c] = auth[c] \cup {step}
  BY <1>1 DEF StateTypeOK
<1>4. StateTypeOK'
  BY <1>1 DEF StateTypeOK, Status, rosterVars, settingVars
<1>5. RosterInv' /\ \A ch \in Channel : Members(ch)' = Members(ch)
  BY <1>1, RosterFrame
<1>6. MembersRegistered'
  <2>1. \A ch \in Channel : Members(ch) \subseteq Client \ {c}
    BY DEF MembersRegistered, Members, StateTypeOK
  <2> QED BY <1>2, <1>5, <2>1 DEF MembersRegistered
<1>7. Live' = Live
  BY <1>2, <1>3 DEF Live
<1>8. NickUnique'
  BY <1>7 DEF ClientInv, NickUnique, Live
<1>9. NickBehindAuth'
  BY <1>2, <1>3 DEF ClientInv, NickBehindAuth
<1>10. FreeIsBlank'
  BY <1>2, <1>3 DEF ClientInv, FreeIsBlank
<1>11. RegisteredHaveNick'
  <2>1. status'[c] = "REGISTER" => auth'[c] = Credentials
    BY <1>1, <1>3 DEF StateTypeOK
  <2>2. status'[c] = "REGISTER" => nickname'[c] # NoNick
    BY <2>1, <1>9 DEF NickBehindAuth, Credentials
  <2> QED BY <1>2, <1>3, <2>1, <2>2 DEF ClientInv, RegisteredHaveNick, Credentials
<1> QED BY <1>4, <1>5, <1>6, <1>8, <1>9, <1>10, <1>11 DEF ClientInv

\* Every command of a client that registers.
LEMMA ConnectInd ==
  ASSUME IndInv, NEW c \in Client, status[c] = "UNREGISTER", Connect(c)
  PROVE  IndInv'
<1>1. CASE \E correct \in BOOLEAN : Pass(c, correct)
  <2>1. CASE \E code : Refuse(c, code)
    BY <2>1, RefuseFrame
  <2>2. CASE Authenticate(c, "PASS") /\ UNCHANGED nickname
    BY <2>2, AuthenticateInd DEF Credentials, IndInv, StateTypeOK
  <2> QED BY <1>1, <2>1, <2>2 DEF Pass
<1>2. CASE User(c)
  <2>1. CASE \E code : Refuse(c, code)
    BY <2>1, RefuseFrame
  <2>2. CASE Authenticate(c, "USER") /\ UNCHANGED nickname
    BY <2>2, AuthenticateInd DEF Credentials, IndInv, StateTypeOK
  <2> QED BY <1>2, <2>1, <2>2 DEF User
<1>3. ASSUME NEW n \in Nick, FirstNick(c, n)
      PROVE  IndInv'
  <2>1. CASE \E code : Refuse(c, code)
    BY <2>1, RefuseFrame
  <2>2. CASE /\ Named(n) = {}
             /\ nickname' = [nickname EXCEPT ![c] = n]
             /\ Authenticate(c, "NICK")
    <3>1. /\ nickname' \in [Client -> Nick \cup {NoNick}]
          /\ \A d \in Client \ {c} : nickname'[d] = nickname[d]
          /\ nickname'[c] = n
      BY <2>2 DEF IndInv, StateTypeOK
    <3>2. n # NoNick /\ \A d \in Live : nickname[d] # n
      BY <2>2, NickAssumption DEF Named
    <3> QED BY <2>2, <3>1, <3>2, AuthenticateInd DEF Credentials
  <2> QED BY <1>3, <2>1, <2>2 DEF FirstNick
<1>4. CASE NotRegistered(c)
  BY <1>4, RefuseFrame DEF NotRegistered
<1> QED BY <1>1, <1>2, <1>3, <1>4 DEF Connect

-----------------------------------------------------------------------------
(* The commands of a registered client. *)

LEMMA JoinInd ==
  ASSUME IndInv, NEW c \in Client, status[c] = "REGISTER",
         NEW list \in Lists(Channel), Join(c, list)
  PROVE  IndInv'
<1> USE DEF IndInv
<1>1. StateTypeOK'
  BY JoinType
<1>2. RosterInv' /\ \A ch \in Channel : Members(ch)' \subseteq Members(ch) \cup {c}
  BY JoinRoster
<1>3. UNCHANGED clientVars
  BY DEF Join, clientVars
<1> QED BY <1>1, <1>2, <1>3, ClientFrame, MembersFrame DEF clientVars

\* Leaving channels, by one's own command or another's, whoever is erased.
LEMMA LeaveInd ==
  ASSUME IndInv, NEW c \in Client, status[c] = "REGISTER", NEW d \in Client,
         NEW S \in SUBSET channels, Leave(d, S), UNCHANGED clientVars
  PROVE  IndInv'
<1> USE DEF IndInv
<1>1. S \in SUBSET Channel
  BY DEF StateTypeOK
<1>2. StateTypeOK'
  BY <1>1, LeaveType DEF StateTypeOK, clientVars
<1>3. RosterInv' /\ \A ch \in Channel : Members(ch)' \subseteq Members(ch)
  BY LeaveRoster
<1>4. MembersRegistered'
  BY <1>3, MembersFrame DEF clientVars
<1> QED BY <1>2, <1>3, <1>4, ClientFrame

LEMMA PartInd ==
  ASSUME IndInv, NEW c \in Client, status[c] = "REGISTER",
         NEW list \in Lists(Channel), Part(c, list)
  PROVE  IndInv'
<1> DEFINE left == {list[i] : i \in DOMAIN list} \cap channels
<1>1. Leave(c, left) /\ UNCHANGED clientVars
  BY DEF Part
<1>2. left \in SUBSET channels
  OBVIOUS
<1> HIDE DEF left
<1> QED BY <1>1, <1>2, LeaveInd

LEMMA KickInd ==
  ASSUME IndInv, NEW c \in Client, status[c] = "REGISTER",
         NEW ch \in Channel, NEW n \in Addressee, Kick(c, ch, n)
  PROVE  IndInv'
<1>1. CASE Refuse(c, TargetCheck(c, ch, n))
  BY <1>1, RefuseFrame
<1>2. CASE /\ TargetCheck(c, ch, n) = Granted
           /\ \E target \in Named(n) : Leave(target, {ch})
           /\ UNCHANGED clientVars
  <2>1. PICK target \in Named(n) : Leave(target, {ch})
    BY <1>2
  <2>2. target \in Client
    BY DEF Named, Live
  <2>3. ch \in channels
    BY <1>2 DEF TargetCheck, Granted
  <2> QED BY <1>2, <2>1, <2>2, <2>3, LeaveInd
<1> QED BY <1>1, <1>2 DEF Kick

\* Flags, topics and invitations are set on a channel that exists.
LEMMA SettingInd ==
  ASSUME IndInv, NEW ch \in channels, UNCHANGED <<clientVars, rosterVars>>,
         invited' \in [Channel -> SUBSET Client],
         mode' \in [Channel -> SUBSET Flags],
         topic' \in [Channel -> Topic \cup {NoTopic}],
         \A x \in Channel \ {ch} :
           invited'[x] = invited[x] /\ mode'[x] = mode[x] /\ topic'[x] = topic[x]
  PROVE  IndInv'
<1> USE DEF IndInv
<1>1. StateTypeOK'
  BY DEF StateTypeOK, clientVars, rosterVars
<1>2. RosterInv' /\ \A x \in Channel : Members(x)' = Members(x)
  BY SettingFrame
<1>3. ClientInv' /\ MembersRegistered'
  BY <1>2, ClientFrame DEF MembersRegistered, clientVars
<1> QED BY <1>1, <1>2, <1>3

LEMMA SetFlagInd ==
  ASSUME IndInv, NEW c \in Client, NEW ch \in Channel, NEW f \in Flags,
         NEW on \in BOOLEAN, SetFlag(c, ch, f, on)
  PROVE  IndInv'
<1>1. CASE Refuse(c, ModeCheck(c, ch))
  BY <1>1, RefuseFrame
<1>2. CASE UNCHANGED state
  BY <1>2, StateFrame
<1>3. CASE /\ ModeCheck(c, ch) = Granted
           /\ mode' = [mode EXCEPT ![ch] = IF on THEN @ \cup {f} ELSE @ \ {f}]
           /\ UNCHANGED <<clientVars, rosterVars, invited, topic>>
  <2>1. ch \in channels
    BY <1>3 DEF ModeCheck, Granted
  <2>2. mode' \in [Channel -> SUBSET Flags]
    BY <1>3 DEF IndInv, StateTypeOK
  <2> QED BY <1>3, <2>1, <2>2, SettingInd DEF IndInv, StateTypeOK
<1> QED BY <1>1, <1>2, <1>3 DEF SetFlag

LEMMA SetOperatorInd ==
  ASSUME IndInv, NEW c \in Client, NEW ch \in Channel, NEW n \in Nick,
         NEW promote \in BOOLEAN, SetOperator(c, ch, n, promote)
  PROVE  IndInv'
<1>1. CASE \E code : Refuse(c, code)
  BY <1>1, RefuseFrame
<1>2. CASE \E target \in Named(n) : UpdateRole(c, ch, target, promote)
  <2>1. PICK target \in Client : UpdateRole(c, ch, target, promote)
    BY <1>2 DEF Named, Live
  <2>2. /\ StateTypeOK'
        /\ RosterInv'
        /\ \A x \in Channel : Members(x)' = Members(x)
        /\ UNCHANGED clientVars
    BY <2>1, UpdateRoleRoster DEF IndInv
  <2> QED BY <2>2, ClientFrame DEF IndInv, MembersRegistered, clientVars
<1> QED BY <1>1, <1>2 DEF SetOperator

LEMMA SetTopicInd ==
  ASSUME IndInv, NEW c \in Client, NEW ch \in Channel,
         NEW t \in Topic \cup {NoTopic}, SetTopic(c, ch, t)
  PROVE  IndInv'
<1>1. CASE Refuse(c, TopicCheck(c, ch))
  BY <1>1, RefuseFrame
<1>2. CASE UNCHANGED state
  BY <1>2, StateFrame
<1>3. CASE /\ TopicCheck(c, ch) = Granted
           /\ topic' = [topic EXCEPT ![ch] = t]
           /\ UNCHANGED <<clientVars, rosterVars, invited, mode>>
  <2>1. ch \in channels
    BY <1>3 DEF TopicCheck, Granted
  <2>2. topic' \in [Channel -> Topic \cup {NoTopic}]
    BY <1>3 DEF IndInv, StateTypeOK
  <2> QED BY <1>3, <2>1, <2>2, SettingInd DEF IndInv, StateTypeOK
<1> QED BY <1>1, <1>2, <1>3 DEF SetTopic

LEMMA InviteInd ==
  ASSUME IndInv, NEW c \in Client, NEW n \in Nick, NEW ch \in Channel,
         Invite(c, n, ch)
  PROVE  IndInv'
<1>1. CASE Refuse(c, TargetCheck(c, ch, n))
  BY <1>1, RefuseFrame
<1>2. CASE /\ TargetCheck(c, ch, n) = Granted
           /\ \E target \in Named(n) :
                invited' = [invited EXCEPT ![ch] = @ \cup {target}]
           /\ UNCHANGED <<clientVars, rosterVars, mode, topic>>
  <2>1. PICK target \in Client : invited' = [invited EXCEPT ![ch] = @ \cup {target}]
    BY <1>2 DEF Named, Live
  <2>2. ch \in channels
    BY <1>2 DEF TargetCheck, Granted
  <2>3. invited' \in [Channel -> SUBSET Client]
    BY <2>1 DEF IndInv, StateTypeOK
  <2> QED BY <1>2, <2>1, <2>2, <2>3, SettingInd DEF IndInv, StateTypeOK
<1> QED BY <1>1, <1>2 DEF Invite

\* A new nickname is nobody's.
LEMMA NewNickInd ==
  ASSUME IndInv, NEW c \in Client, status[c] = "REGISTER", NEW n \in Nick,
         NewNick(c, n)
  PROVE  IndInv'
<1>1. CASE Refuse(c, "433")
  BY <1>1, RefuseFrame
<1>2. CASE UNCHANGED state
  BY <1>2, StateFrame
<1>3. CASE /\ Named(n) = {}
           /\ nickname' = [nickname EXCEPT ![c] = n]
           /\ UNCHANGED <<status, auth, rosterVars, settingVars>>
  <2> USE DEF IndInv
  <2>1. StateTypeOK'
    BY <1>3 DEF StateTypeOK, rosterVars, settingVars
  <2>2. RosterInv' /\ \A ch \in Channel : Members(ch)' = Members(ch)
    BY <1>3, RosterFrame
  <2>3. MembersRegistered'
    BY <1>3, <2>2 DEF MembersRegistered
  <2>4. n # NoNick /\ \A d \in Live : nickname[d] # n
    BY <1>3, NickAssumption DEF Named
  <2>5. Live' = Live
    BY <1>3 DEF Live
  <2>6. \A d \in Client : nickname'[d] = IF d = c THEN n ELSE nickname[d]
    BY <1>3 DEF StateTypeOK
  <2>7. NickUnique'
    BY <2>4, <2>5, <2>6 DEF ClientInv, NickUnique, Live
  <2>8. RegisteredHaveNick' /\ FreeIsBlank' /\ NickBehindAuth'
    BY <1>3, <2>4, <2>6 DEF ClientInv, RegisteredHaveNick, FreeIsBlank,
                            NickBehindAuth, Credentials
  <2> QED BY <2>1, <2>2, <2>3, <2>7, <2>8 DEF ClientInv
<1> QED BY <1>1, <1>2, <1>3 DEF NewNick

LEMMA QuitInd ==
  ASSUME IndInv, NEW c \in Client, status[c] = "REGISTER", Quit(c)
  PROVE  IndInv'
<1> USE DEF IndInv
<1>1. /\ status' = [status EXCEPT ![c] = "TERMINATE"]
      /\ UNCHANGED <<auth, nickname, rosterVars, settingVars>>
  BY DEF Quit
<1>2. StateTypeOK'
  BY <1>1 DEF StateTypeOK, Status, rosterVars, settingVars
<1>3. RosterInv' /\ \A ch \in Channel : Members(ch)' = Members(ch)
  BY <1>1, RosterFrame
<1>4. ClientInv'
  BY <1>1 DEF ClientInv, NickUnique, RegisteredHaveNick, FreeIsBlank,
              NickBehindAuth, Live, StateTypeOK, Credentials
<1>5. MembersRegistered'
  BY <1>1, <1>3 DEF MembersRegistered, StateTypeOK
<1> QED BY <1>2, <1>3, <1>4, <1>5

\* Every command of a registered client.
LEMMA ExecuteInd ==
  ASSUME IndInv, NEW c \in Client, status[c] = "REGISTER", Execute(c)
  PROVE  IndInv'
<1>1. CASE \E list \in Lists(Channel) : Join(c, list)
  BY <1>1, JoinInd
<1>2. CASE \E list \in Lists(Channel) : Part(c, list)
  BY <1>2, PartInd
<1>3. CASE \E ch \in Channel, f \in Flags, on \in BOOLEAN : SetFlag(c, ch, f, on)
  BY <1>3, SetFlagInd
<1>4. CASE \E ch \in Channel, n \in Nick, promote \in BOOLEAN :
             SetOperator(c, ch, n, promote)
  BY <1>4, SetOperatorInd
<1>5. CASE \E ch \in Channel, t \in Topic \cup {NoTopic} : SetTopic(c, ch, t)
  BY <1>5, SetTopicInd
<1>6. CASE \E n \in Nick, ch \in Channel : Invite(c, n, ch)
  BY <1>6, InviteInd
<1>7. CASE \E ch \in Channel, n \in Addressee : Kick(c, ch, n)
  BY <1>7, KickInd
<1>8. CASE \E n \in Nick : NewNick(c, n)
  BY <1>8, NewNickInd
<1>9. CASE Quit(c)
  BY <1>9, QuitInd
<1>10. CASE UNCHANGED state
  BY <1>10, StateFrame
<1>11. CASE \E list \in Lists(Channel \cup Addressee), first \in Client :
             Privmsg(c, list, first)
  BY <1>10, <1>11 DEF Privmsg
<1>12. CASE \E n \in Addressee : Notice(c, n)
  BY <1>10, <1>12 DEF Notice, Refuse
<1>13. CASE Pong(c) \/ Ignored(c)
  BY <1>10, <1>13 DEF Pong, Ignored
<1> QED BY <1>1, <1>2, <1>3, <1>4, <1>5, <1>6, <1>7, <1>8, <1>9, <1>11, <1>12,
           <1>13 DEF Execute

-----------------------------------------------------------------------------
(* The invariant. *)

LEMMA InitInd == Init => IndInv
<1> SUFFICES ASSUME Init PROVE IndInv
  OBVIOUS
<1>1. StateTypeOK
  BY DEF Init, StateTypeOK, Status, DefaultMode, Flags
<1>2. RosterInv
  BY DEF Init, RosterInv, RosterAgreement, ChannelIffOccupied, RolesDisjoint,
         AbsentIsBlank, Members
<1>3. ClientInv
  BY DEF Init, ClientInv, NickUnique, RegisteredHaveNick, FreeIsBlank,
         NickBehindAuth, Live
<1>4. MembersRegistered
  BY DEF Init, MembersRegistered, Members
<1> QED BY <1>1, <1>2, <1>3, <1>4 DEF IndInv

LEMMA NextInd == IndInv /\ [Next]_vars => IndInv'
<1> SUFFICES ASSUME IndInv, [Next]_vars PROVE IndInv'
  OBVIOUS
<1>1. CASE UNCHANGED vars
  BY <1>1, StateFrame DEF vars, state
<1>2. ASSUME NEW c \in Client, Accept(c)
      PROVE  IndInv'
  BY <1>2, AcceptInd
<1>3. ASSUME NEW c \in Client, status[c] = "UNREGISTER", Connect(c)
      PROVE  IndInv'
  BY <1>3, ConnectInd
<1>4. ASSUME NEW c \in Client, status[c] = "REGISTER", Execute(c)
      PROVE  IndInv'
  BY <1>4, ExecuteInd
<1>5. ASSUME NEW c \in Client, Timeout(c)
      PROVE  IndInv'
  BY <1>5, TimeoutInd
<1>6. ASSUME NEW c \in Client, DeleteClient(c)
      PROVE  IndInv'
  BY <1>6, DeleteInd
<1> QED BY <1>1, <1>2, <1>3, <1>4, <1>5, <1>6 DEF Next

\* The inductive invariant holds in every reachable state.
THEOREM Invariance == Spec => []IndInv
<1> QED BY InitInd, NextInd, PTL DEF Spec

\* The two sides of membership always agree: for every number of clients and
\* channels, and lists of channels of every length.
THEOREM RosterSafety == Spec => []RosterAgreement
<1>1. IndInv => RosterAgreement
  BY DEF IndInv, RosterInv
<1> QED BY <1>1, Invariance, PTL

\* A channel exists exactly as long as somebody is on it.
THEOREM ChannelLifetime == Spec => []ChannelIffOccupied
<1>1. IndInv => ChannelIffOccupied
  BY DEF IndInv, RosterInv
<1> QED BY <1>1, Invariance, PTL

\* Nobody has two roles on one channel, so eraseClient removes whom it is given.
THEOREM OneRole == Spec => []RolesDisjoint
<1>1. IndInv => RolesDisjoint
  BY DEF IndInv, RosterInv
<1> QED BY <1>1, Invariance, PTL

\* No channel keeps a pointer to a client that is deleted or not registered, which
\* is what makes every broadcast safe.
THEOREM NoDanglingMember == Spec => []MembersRegistered
<1>1. IndInv => MembersRegistered
  BY DEF IndInv
<1> QED BY <1>1, Invariance, PTL

\* A nickname names one client at most, whichever of the two NICK handlers set it.
THEOREM NicknamesName == Spec => []NickUnique
<1>1. IndInv => NickUnique
  BY DEF IndInv, ClientInv
<1> QED BY <1>1, Invariance, PTL

\* Whoever is registered has done all three steps and has a nickname.
THEOREM RegistrationComplete == Spec => []RegisteredHaveNick
<1>1. IndInv => RegisteredHaveNick
  BY DEF IndInv, ClientInv
<1> QED BY <1>1, Invariance, PTL

-----------------------------------------------------------------------------
(* The types of what a handler sends. *)

ReplyTypeOK == sendBuf \in [Client -> SUBSET Message] /\ clientList \in SUBSET Client

LEMMA MsgType ==
  ASSUME NEW cmd \in Word, NEW c \in Client, NEW ch \in Channel \cup {NoChannel},
         NEW x \in Nick \cup Topic \cup {NoNick, NoTopic}
  PROVE  Msg(cmd, c, ch, x) \in Message
  BY DEF Msg, Message

LEMMA NumericType ==
  ASSUME NEW code \in Word, NEW c \in Client
  PROVE  Numeric(code, c) \in Message
  BY MsgType DEF Numeric

\* One message for some clients, and for the client itself.
LEMMA BroadcastType ==
  ASSUME NEW R \in SUBSET Client, NEW m \in Message,
         NEW list \in SUBSET Client, Reply(To(R, m), list)
  PROVE  ReplyTypeOK'
  BY DEF Reply, To, ReplyTypeOK

LEMMA AnswerType ==
  ASSUME NEW c \in Client, NEW code \in Word, Answer(c, code)
  PROVE  ReplyTypeOK'
<1>1. Numeric(code, c) \in Message
  BY NumericType DEF Word
<1> QED BY <1>1, BroadcastType DEF Answer

LEMMA SilenceType == Silence => ReplyTypeOK'
  BY DEF Silence, Reply, ReplyTypeOK

LEMMA CheckType ==
  ASSUME NEW c \in Client, NEW ch \in Channel
  PROVE  /\ ModeCheck(c, ch) # Granted => ModeCheck(c, ch) \in Word
         /\ TopicCheck(c, ch) # Granted => TopicCheck(c, ch) \in Word
         /\ \A n : TargetCheck(c, ch, n) # Granted => TargetCheck(c, ch, n) \in Word
  BY DEF ModeCheck, TopicCheck, TargetCheck, OperatorCheck, Word

LEMMA MembersType ==
  ASSUME StateTypeOK
  PROVE  /\ \A ch \in Channel : Members(ch) \in SUBSET Client
         /\ \A c \in Client : Audience(c) \in SUBSET Client
         /\ \A n : Named(n) \in SUBSET Client
<1>1. \A ch \in Channel : Members(ch) \in SUBSET Client
  BY DEF StateTypeOK, Members
<1>2. ASSUME NEW c \in Client
      PROVE  Audience(c) \in SUBSET Client
  <2>1. channelList[c] \in SUBSET Channel
    BY DEF StateTypeOK
  <2> QED BY <1>1, <2>1 DEF Audience
<1> QED BY <1>1, <1>2 DEF Named, Live

LEMMA JoinReplyType ==
  ASSUME StateTypeOK, NEW c \in Client, NEW list \in Lists(Channel), Join(c, list)
  PROVE  ReplyTypeOK'
<1> DEFINE J     == Joined(c, list)
           names == {Msg("353", c, ch, NoNick) : ch \in J}
<1>1. PICK error \in SUBSET {Numeric("473", c)} :
        Reply([JoinReplies(c, J) EXCEPT ![c] = @ \cup names \cup error],
              UNION {Members(ch) \cup {c} : ch \in J})
  BY DEF Join
<1>2. J \in SUBSET Channel
  BY JoinedChannels
<1> HIDE DEF J
<1>3. names \in SUBSET Message /\ error \in SUBSET Message
  BY <1>2, MsgType, NumericType DEF Word
<1> HIDE DEF names
<1>4. JoinReplies(c, J) \in [Client -> SUBSET Message]
  <2>1. \A ch \in J : Msg("JOIN", c, ch, NoNick) \in Message
    BY <1>2, MsgType DEF Word
  <2> QED BY <2>1 DEF JoinReplies
<1>5. UNION {Members(ch) \cup {c} : ch \in J} \in SUBSET Client
  BY <1>2, MembersType
<1> QED BY <1>1, <1>3, <1>4, <1>5 DEF Reply, ReplyTypeOK

LEMMA PartReplyType ==
  ASSUME StateTypeOK, NEW c \in Client, NEW list \in Lists(Channel), Part(c, list)
  PROVE  ReplyTypeOK'
<1> DEFINE left == {list[i] : i \in DOMAIN list} \cap channels
<1>1. PICK error \in SUBSET {Numeric("403", c)} :
        Reply([PartReplies(c, left) EXCEPT ![c] = @ \cup error],
              UNION {Members(ch) : ch \in left})
  BY DEF Part
<1>2. left \in SUBSET Channel
  BY DEF StateTypeOK
<1> HIDE DEF left
<1>3. error \in SUBSET Message
  BY NumericType DEF Word
<1>4. PartReplies(c, left) \in [Client -> SUBSET Message]
  <2>1. \A ch \in left : Msg("PART", c, ch, NoNick) \in Message
    BY <1>2, MsgType DEF Word
  <2> QED BY <2>1 DEF PartReplies
<1>5. UNION {Members(ch) : ch \in left} \in SUBSET Client
  BY <1>2, MembersType
<1> QED BY <1>1, <1>3, <1>4, <1>5 DEF Reply, ReplyTypeOK

LEMMA PrivmsgReplyType ==
  ASSUME StateTypeOK, NEW c \in Client, NEW list \in Lists(Channel \cup Addressee),
         NEW first \in Client, Privmsg(c, list, first)
  PROVE  ReplyTypeOK'
<1> DEFINE sent   == {list[i] : i \in {k \in DOMAIN list :
                        \A j \in 1..k : PrivmsgCheck(c, list[j]) = Granted}}
           errors == {Numeric(PrivmsgCheck(c, list[i]), c) : i \in
                        {k \in DOMAIN list :
                           /\ PrivmsgCheck(c, list[k]) # Granted
                           /\ \A j \in 1..(k-1) :
                                PrivmsgCheck(c, list[j]) = Granted}}
           Text(x) == IF x \in Channel THEN Msg("PRIVMSG", c, x, NoNick)
                                       ELSE Msg("PRIVMSG", c, NoChannel, x)
           texts  == [d \in Client |->
                        {Text(x) : x \in {y \in sent : d \in Receivers(c, y, first)}}]
<1>1. Reply([texts EXCEPT ![c] = @ \cup errors], UNION {Receivers(c, x, first) : x \in sent})
  BY DEF Privmsg
<1>2. sent \in SUBSET (Channel \cup Addressee)
  BY ListIndex
<1>3. errors \in SUBSET Message
  <2>1. \A i \in DOMAIN list : list[i] \in Channel \cup Addressee
    BY ListIndex
  <2>2. \A x : PrivmsgCheck(c, x) # Granted => PrivmsgCheck(c, x) \in Word
    BY DEF PrivmsgCheck, Word
  <2>3. \A i \in DOMAIN list : PrivmsgCheck(c, list[i]) # Granted =>
          Numeric(PrivmsgCheck(c, list[i]), c) \in Message
    BY <2>2, NumericType DEF Word
  <2> QED BY <2>3
<1> HIDE DEF sent, errors
<1>4. \A x \in sent : Text(x) \in Message
  BY <1>2, MsgType DEF Word, Addressee
<1> HIDE DEF Text
<1>5. texts \in [Client -> SUBSET Message]
  BY <1>4
<1>6. \A x \in sent : Receivers(c, x, first) \in SUBSET Client
  BY <1>2, MembersType DEF Receivers
<1>7. UNION {Receivers(c, x, first) : x \in sent} \in SUBSET Client
  BY <1>6
<1> HIDE DEF texts
<1> QED BY <1>1, <1>3, <1>5, <1>7 DEF Reply, ReplyTypeOK

LEMMA ExecuteReplyType ==
  ASSUME StateTypeOK, NEW c \in Client, Execute(c)
  PROVE  ReplyTypeOK'
<1>1. CASE \E list \in Lists(Channel) : Join(c, list)
  BY <1>1, JoinReplyType
<1>2. CASE \E list \in Lists(Channel) : Part(c, list)
  BY <1>2, PartReplyType
<1>3. ASSUME NEW code \in Word, Refuse(c, code)
      PROVE  ReplyTypeOK'
  BY <1>3, AnswerType DEF Refuse, Word
<1>4. CASE Silence
  BY <1>4, SilenceType
<1>5. ASSUME NEW R \in SUBSET Client, NEW m \in Message, Broadcast(R, m)
      PROVE  ReplyTypeOK'
  BY <1>5, BroadcastType DEF Broadcast
<1>6. ASSUME NEW ch \in Channel, NEW f \in Flags, NEW on \in BOOLEAN,
             SetFlag(c, ch, f, on)
      PROVE  ReplyTypeOK'
  <2>1. \A word \in {"+i", "-i", "+t", "-t"} : Msg(word, c, ch, NoNick) \in Message
    BY MsgType DEF Word
  <2>2. Members(ch) \in SUBSET Client /\ (ModeCheck(c, ch) # Granted => ModeCheck(c, ch) \in Word)
    BY MembersType, CheckType
  <2> QED BY <1>3, <1>4, <1>5, <1>6, <2>1, <2>2 DEF SetFlag
<1>7. ASSUME NEW ch \in Channel, NEW n \in Nick, NEW promote \in BOOLEAN,
             SetOperator(c, ch, n, promote)
      PROVE  ReplyTypeOK'
  <2>1. Members(ch) \in SUBSET Client /\ (ModeCheck(c, ch) # Granted => ModeCheck(c, ch) \in Word)
    BY MembersType, CheckType
  <2>2. ASSUME NEW target \in Named(n), UpdateRole(c, ch, target, promote)
        PROVE  ReplyTypeOK'
    <3>1. nickname[target] \in Nick
      BY DEF Named
    <3>2. \A word \in {"+o", "-o"} : Msg(word, c, ch, nickname[target]) \in Message
      BY <3>1, MsgType DEF Word
    <3> QED BY <1>4, <1>5, <2>1, <2>2, <3>2 DEF UpdateRole
  <2> QED BY <1>3, <1>7, <2>1, <2>2 DEF SetOperator, Word
<1>8. ASSUME NEW ch \in Channel, NEW t \in Topic \cup {NoTopic}, SetTopic(c, ch, t)
      PROVE  ReplyTypeOK'
  <2>1. Members(ch) \in SUBSET Client /\ (TopicCheck(c, ch) # Granted => TopicCheck(c, ch) \in Word)
    BY MembersType, CheckType
  <2>2. Msg("TOPIC", c, ch, t) \in Message
    BY MsgType DEF Word
  <2> QED BY <1>3, <1>4, <1>5, <1>8, <2>1, <2>2 DEF SetTopic
<1>9. ASSUME NEW n \in Nick, NEW ch \in Channel, Invite(c, n, ch)
      PROVE  ReplyTypeOK'
  <2>1. CASE TargetCheck(c, ch, n) # Granted /\ Refuse(c, TargetCheck(c, ch, n))
    BY <1>3, <2>1, CheckType
  <2>2. ASSUME NEW target \in Named(n),
               Reply([To({target}, Msg("INVITE", c, ch, n))
                        EXCEPT ![c] = @ \cup {Numeric("341", c)}], {target})
        PROVE  ReplyTypeOK'
    <3>1. target \in Client
      BY DEF Named, Live
    <3>2. Msg("INVITE", c, ch, n) \in Message /\ Numeric("341", c) \in Message
      BY MsgType, NumericType DEF Word
    <3>3. To({target}, Msg("INVITE", c, ch, n)) \in [Client -> SUBSET Message]
      BY <3>2 DEF To
    <3> QED BY <2>2, <3>1, <3>2, <3>3 DEF Reply, ReplyTypeOK
  <2> QED BY <1>9, <2>1, <2>2 DEF Invite
<1>10. ASSUME NEW ch \in Channel, NEW n \in Addressee, Kick(c, ch, n)
       PROVE  ReplyTypeOK'
  <2>1. Members(ch) \in SUBSET Client /\ (TargetCheck(c, ch, n) # Granted => TargetCheck(c, ch, n) \in Word)
    BY MembersType, CheckType
  <2>2. Msg("KICK", c, ch, n) \in Message
    BY MsgType DEF Word, Addressee
  <2> QED BY <1>3, <1>5, <1>10, <2>1, <2>2 DEF Kick
<1>11. ASSUME NEW n \in Nick, NewNick(c, n)
       PROVE  ReplyTypeOK'
  <2>1. Msg("NICK", c, NoChannel, n) \in Message
    BY MsgType DEF Word
  <2>2. Audience(c) \in SUBSET Client
    BY MembersType
  <2>3. CASE Reply(To({c}, Msg("NICK", c, NoChannel, n)), {})
    BY <2>1, <2>3, BroadcastType
  <2> QED BY <1>3, <1>4, <1>5, <1>11, <2>1, <2>2, <2>3 DEF NewNick, Word
<1>12. CASE Quit(c)
  <2>1. Msg("QUIT", c, NoChannel, NoNick) \in Message /\ Audience(c) \in SUBSET Client
    BY MsgType, MembersType DEF Word
  <2> QED BY <1>12, <2>1, BroadcastType DEF Quit
<1>13. CASE \E list \in Lists(Channel \cup Addressee), first \in Client :
             Privmsg(c, list, first)
  BY <1>13, PrivmsgReplyType
<1>14. ASSUME NEW n \in Addressee, Notice(c, n)
       PROVE  ReplyTypeOK'
  <2>1. Msg("NOTICE", c, NoChannel, n) \in Message /\ Named(n) \in SUBSET Client
    BY MsgType, MembersType DEF Word, Addressee
  <2> QED BY <1>3, <1>5, <1>14, <2>1 DEF Notice, Word
<1>15. CASE Pong(c) \/ Ignored(c)
  BY <1>4, <1>15, AnswerType DEF Pong, Ignored, Word
<1> QED BY <1>1, <1>2, <1>6, <1>7, <1>8, <1>9, <1>10, <1>11, <1>12, <1>13, <1>14,
           <1>15 DEF Execute

LEMMA ConnectReplyType ==
  ASSUME NEW c \in Client, Connect(c)
  PROVE  ReplyTypeOK'
<1>1. ASSUME NEW code \in Word, Refuse(c, code)
      PROVE  ReplyTypeOK'
  BY <1>1, AnswerType DEF Refuse, Word
<1>2. ASSUME NEW step, Authenticate(c, step)
      PROVE  ReplyTypeOK'
  BY <1>2, AnswerType, SilenceType DEF Authenticate, Word
<1> QED BY <1>1, <1>2 DEF Connect, Pass, User, FirstNick, NotRegistered, Word

\* Every variable of the specification always has its type: no list, flag set or
\* message ever holds something the code's types would not allow.
THEOREM TypeCorrect == Spec => []TypeOK
<1>1. Init => TypeOK
  BY InitInd DEF IndInv, TypeOK, Init
<1>2. IndInv /\ TypeOK /\ [Next]_vars => ReplyTypeOK'
  <2> SUFFICES ASSUME IndInv, TypeOK, [Next]_vars PROVE ReplyTypeOK'
    OBVIOUS
  <2>1. CASE UNCHANGED vars
    BY <2>1 DEF vars, ReplyTypeOK, TypeOK
  <2>2. ASSUME NEW c \in Client, Accept(c) \/ Timeout(c) \/ DeleteClient(c)
        PROVE  ReplyTypeOK'
    BY <2>2, SilenceType DEF Accept, Timeout, DeleteClient
  <2>3. ASSUME NEW c \in Client, Connect(c) \/ Execute(c)
        PROVE  ReplyTypeOK'
    BY <2>3, ConnectReplyType, ExecuteReplyType DEF IndInv
  <2> QED BY <2>1, <2>2, <2>3 DEF Next
<1>3. IndInv' /\ ReplyTypeOK' => TypeOK'
  BY DEF IndInv, ReplyTypeOK, TypeOK
<1> QED BY <1>1, <1>2, <1>3, InitInd, NextInd, PTL DEF Spec
=============================================================================
