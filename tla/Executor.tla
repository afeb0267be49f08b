------------------------------ MODULE Executor ------------------------------
(***************************************************************************)
(* The state an IRC server keeps about its clients and channels, and what  *)
(* one command does to it: class Executor (src/src/controller/Executor.cpp)*)
(* with the ClientController and ChannelController it calls and the Client *)
(* and Channel objects they own.                                           *)
(*                                                                         *)
(* The server is single-threaded: a command runs to its end before the     *)
(* next one starts, so each action below is a whole handler.  What         *)
(* interleaves is the order in which the commands, the timers and the      *)
(* closed connections of different clients reach the Executor.             *)
(*                                                                         *)
(* A Client is the address of a Client object: the map node of a client    *)
(* that is gone is free memory that a later connection may be given.  A    *)
(* Channel* is identified with the name it is the map key of.              *)
(***************************************************************************)
EXTENDS Naturals

CONSTANTS
  Client,      \* the addresses a Client object can have
  Channel,     \* channel names
  Nick,        \* nicknames the parser accepts
  Topic,       \* topics
  NoNick,      \* the empty nickname of a client that has sent no NICK
  NoTopic,     \* the empty topic of a new channel
  NoChannel,   \* filler: a message that is about no channel
  MaxNames     \* bound: the longest list JOIN, PART and PRIVMSG are given

ASSUME NickAssumption    == NoNick \notin Nick
ASSUME ChannelAssumption == NoChannel \notin Channel
ASSUME TopicAssumption   == NoTopic \notin Topic
ASSUME BoundAssumption   == MaxNames \in Nat

VARIABLES
  status,       \* ConnectSocket::_status; "FREE": no Client object here
  auth,         \* ConnectSocket::auth, the steps of registration done
  nickname,     \* ConnectSocket::_nickname
  channelList,  \* Client::_channel_list
  channels,     \* the keys of ChannelController::_channels
  operators,    \* Channel::_operators
  regulars,     \* Channel::_regulars
  invited,      \* Channel::_invited_clients
  mode,         \* Channel::_mode, the flags that are set
  topic,        \* Channel::_topic
  sendBuf,      \* what the last handler appended to each ConnectSocket::send_buf
  clientList    \* Executor::_client_list as the last handler left it

clientVars  == <<status, auth, nickname>>
rosterVars  == <<channelList, channels, operators, regulars>>
settingVars == <<invited, mode, topic>>
state       == <<status, auth, nickname, channelList, channels, operators,
                 regulars, invited, mode, topic>>
vars        == <<status, auth, nickname, channelList, channels, operators,
                 regulars, invited, mode, topic, sendBuf, clientList>>

Status == {"FREE", "UNREGISTER", "REGISTER", "TIMEOUT", "TERMINATE"}

\* What ConnectSocket::isAuthenticate asks for.
Credentials_NoNick == {"PASS", "USER"}        \* mutant: auth[NICK] is not tested
Credentials        == {"PASS", "USER", "NICK"}

Flags       == {"i", "t"}

\* The Channel() constructor.
DefaultMode_BanBit == {"b"}                   \* mutant: sets BAN_T instead
DefaultMode        == {"t"}

\* Whom KICK, PRIVMSG and NOTICE may name: the parser does not test these names,
\* and an empty one is the nickname of whoever has sent no NICK.
Addressee == Nick \cup {NoNick}

\* The lists of names a command may carry.
Lists(S) == UNION {[1..n -> S] : n \in 0..MaxNames}

-----------------------------------------------------------------------------
(* The queries of the two controllers. *)

Live        == {c \in Client : status[c] # "FREE"}
Members(ch) == operators[ch] \cup regulars[ch]   \* ChannelController::findInSet

\* ClientController::find(nickname) returns one of these, the one with the lowest
\* descriptor.  Only the empty nickname can have several.
Named_Registered(n) ==                    \* mutant: skips who is not registered
  {c \in Client : status[c] = "REGISTER" /\ nickname[c] = n}
Named(n) == {c \in Live : nickname[c] = n}

\* Executor::broadcast(channel list): all who share a channel with c, and c.
Audience_Operators(c) ==                 \* mutant: the regulars are left out
  UNION {operators[ch] : ch \in channelList[c]}
Audience_Others(c) ==                               \* mutant: c is left out
  UNION {Members(ch) : ch \in channelList[c]} \ {c}
Audience(c) == UNION {Members(ch) : ch \in channelList[c]}

-----------------------------------------------------------------------------
(* Replies.  A message records the command word or numeric, whose command  *)
(* caused it, the channel and the name or topic in it; wording is left     *)
(* out.  send_buf only grows in a handler, so what matters of a handler is *)
(* the set of messages it appends for each client.  clientList holds the   *)
(* clients Server::reserve will schedule; it empties the list right after  *)
(* every command, so each handler starts with an empty one.                *)

Word ==
  {"JOIN", "PART", "KICK", "QUIT", "NICK", "TOPIC", "INVITE", "PRIVMSG", "NOTICE",
   "PONG", "+o", "-o", "+i", "-i", "+t", "-t",
   "001", "341", "353",
   "401", "403", "404", "433", "442", "451", "462", "464", "473", "482"}

Message == [cmd : Word, from : Client, chan : Channel \cup {NoChannel},
            arg : Nick \cup Topic \cup {NoNick, NoTopic}]

Msg(cmd, c, ch, x) == [cmd |-> cmd, from |-> c, chan |-> ch, arg |-> x]
Numeric(code, c)   == Msg(code, c, NoChannel, NoNick)

Reply(buf, list)  == sendBuf' = buf /\ clientList' = list
To(R, m)          == [d \in Client |-> IF d \in R THEN {m} ELSE {}]
Silence           == Reply([d \in Client |-> {}], {})
Broadcast(R, m)   == Reply(To(R, m), R)
Answer(c, code)   == Reply(To({c}, Numeric(code, c)), {})

Refuse(c, code) == Answer(c, code) /\ UNCHANGED state

-----------------------------------------------------------------------------
(* Leaving channels: ChannelController::eraseClient for every channel of S,*)
(* and Client::eraseChannel.  A channel nobody is left on is erased, and   *)
(* with it its mode, its topic and its invitations.  (A channel that does  *)
(* not exist has the values the constructor would give it.)                *)

OperatorsLeft(c, ch) == operators[ch] \ {c}
RegularsLeft(c, ch)  == IF c \in operators[ch] THEN regulars[ch]
                                               ELSE regulars[ch] \ {c}
Emptied_Operators(c, S) ==           \* mutant: only the operators are counted
  {ch \in S : OperatorsLeft(c, ch) = {}}
Emptied_None(c, S) == {}             \* mutant: no channel is ever erased
Emptied(c, S) ==
  {ch \in S : OperatorsLeft(c, ch) = {} /\ RegularsLeft(c, ch) = {}}

EraseClient(c, S) ==
  LET gone == Emptied(c, S)
  IN  /\ channels'  = channels \ gone
      /\ operators' = [ch \in Channel |->
                         IF ch \in S THEN OperatorsLeft(c, ch) ELSE operators[ch]]
      /\ regulars'  = [ch \in Channel |->
                         IF ch \in S THEN RegularsLeft(c, ch) ELSE regulars[ch]]
      /\ invited'   = [ch \in Channel |-> IF ch \in gone THEN {} ELSE invited[ch]]
      /\ mode'      = [ch \in Channel |->
                         IF ch \in gone THEN DefaultMode ELSE mode[ch]]
      /\ topic'     = [ch \in Channel |->
                         IF ch \in gone THEN NoTopic ELSE topic[ch]]

EraseChannels_None(c, S) == UNCHANGED channelList     \* mutant: call forgotten
EraseChannels(c, S) == channelList' = [channelList EXCEPT ![c] = @ \ S]

Leave(c, S) == EraseClient(c, S) /\ EraseChannels(c, S)

-----------------------------------------------------------------------------
(* The life of a connection. *)

\* Executor::accept: a Client object is made at a free address.
Accept(c) ==
  /\ status[c] = "FREE"
  /\ status' = [status EXCEPT ![c] = "UNREGISTER"]
  /\ Silence
  /\ UNCHANGED <<auth, nickname, rosterVars, settingVars>>

\* Executor::updateClientStatus(fd, client, TIMEOUT).
Timeout(c) ==
  /\ status[c] = "UNREGISTER"
  /\ status' = [status EXCEPT ![c] = "TIMEOUT"]
  /\ Silence
  /\ UNCHANGED <<auth, nickname, rosterVars, settingVars>>

\* Executor::deleteClient, called for the clients in Server::_garbage: a
\* client that quit or timed out, or any client whose connection ended.
DeleteClient_Dangling(c) ==     \* mutant: the channels keep the pointer
  /\ status[c] # "FREE"
  /\ status'      = [status EXCEPT ![c] = "FREE"]
  /\ auth'        = [auth EXCEPT ![c] = {}]
  /\ nickname'    = [nickname EXCEPT ![c] = NoNick]
  /\ channelList' = [channelList EXCEPT ![c] = {}]
  /\ Silence
  /\ UNCHANGED <<channels, operators, regulars, settingVars>>
DeleteClient(c) ==
  /\ status[c] # "FREE"
  /\ Leave(c, channelList[c])
  /\ status'   = [status EXCEPT ![c] = "FREE"]
  /\ auth'     = [auth EXCEPT ![c] = {}]
  /\ nickname' = [nickname EXCEPT ![c] = NoNick]
  /\ Silence

-----------------------------------------------------------------------------
(* Registration: one turn of the loop of Executor::connect, which runs a   *)
(* command and registers the client once it has sent PASS, USER and NICK.  *)

Authenticate(c, step) ==
  /\ auth' = [auth EXCEPT ![c] = @ \cup {step}]
  /\ IF auth[c] \cup {step} = Credentials
     THEN /\ status' = [status EXCEPT ![c] = "REGISTER"]
          /\ Answer(c, "001")
     ELSE UNCHANGED status /\ Silence
  /\ UNCHANGED <<rosterVars, settingVars>>

\* Executor::pass; correct says whether the password is the server's.
Pass(c, correct) ==
  \/ /\ "PASS" \in auth[c]
     /\ Refuse(c, "462")
  \/ /\ "PASS" \notin auth[c] /\ ~correct
     /\ Refuse(c, "464")
  \/ /\ "PASS" \notin auth[c] /\ correct
     /\ Authenticate(c, "PASS")
     /\ UNCHANGED nickname

\* Executor::user.
User(c) ==
  \/ /\ "USER" \in auth[c]
     /\ Refuse(c, "462")
  \/ /\ "USER" \notin auth[c]
     /\ Authenticate(c, "USER")
     /\ UNCHANGED nickname

\* Executor::nick(Client *, params *), the NICK of a client that registers.
FirstNick(c, n) ==
  \/ /\ Named(n) # {}
     /\ Refuse(c, "433")
  \/ /\ Named(n) = {}
     /\ nickname' = [nickname EXCEPT ![c] = n]
     /\ Authenticate(c, "NICK")

\* Any other command before registration.
NotRegistered(c) == Refuse(c, "451")

Connect(c) ==
  \/ \E correct \in BOOLEAN : Pass(c, correct)
  \/ User(c)
  \/ \E n \in Nick : FirstNick(c, n)
  \/ NotRegistered(c)

-----------------------------------------------------------------------------
(* JOIN #a,#b,...: the channels are joined in order, and the first one the *)
(* client is already on, or is not invited to, ends the command.           *)

InviteRefused_TopicBit(c, ch) ==             \* mutant: tests the bit of +t
  /\ ch \in channels
  /\ c \notin Members(ch)
  /\ "t" \in mode[ch]
  /\ c \notin invited[ch]
InviteRefused(c, ch) ==
  /\ ch \in channels
  /\ c \notin Members(ch)
  /\ "i" \in mode[ch]
  /\ c \notin invited[ch]

Stops_NotOnTwice(c, list, i) ==        \* mutant: isOnChannel is not asked
  InviteRefused(c, list[i])
Stops(c, list, i) ==
  \/ \E j \in 1..(i-1) : list[j] = list[i]     \* it has just joined this one
  \/ c \in Members(list[i])
  \/ InviteRefused(c, list[i])

\* The channels before the one that ends the command.
Joined(c, list) ==
  {list[i] : i \in {k \in DOMAIN list : \A j \in 1..k : ~Stops(c, list, j)}}

\* The JOIN each client is sent, after the joiner was put on the channel.
JoinReplies_Others(c, S) ==      \* mutant: sent before the joiner was put there
  [d \in Client |-> {Msg("JOIN", c, ch, NoNick) : ch \in
                       {x \in S : d \in Members(x)}}]
JoinReplies(c, S) ==
  [d \in Client |-> {Msg("JOIN", c, ch, NoNick) : ch \in
                       {x \in S : d \in Members(x) \cup {c}}}]

\* Executor::join.
Join(c, list) ==
  LET new     == Joined(c, list) \ channels
      entered == Joined(c, list) \cap channels
      refused == \E i \in DOMAIN list :
                   /\ InviteRefused(c, list[i])
                   /\ \A j \in 1..(i-1) : ~Stops(c, list, j)
      names   == {Msg("353", c, ch, NoNick) : ch \in Joined(c, list)}
      error   == IF refused THEN {Numeric("473", c)} ELSE {}
  IN  /\ channels'  = channels \cup new
      /\ operators' = [ch \in Channel |->
                         IF ch \in new THEN {c} ELSE operators[ch]]
      /\ regulars'  = [ch \in Channel |->
                         IF ch \in entered THEN regulars[ch] \cup {c}
                                           ELSE regulars[ch]]
      /\ invited'   = [ch \in Channel |->
                         IF ch \in entered THEN invited[ch] \ {c} ELSE invited[ch]]
      /\ channelList' = [channelList EXCEPT ![c] = @ \cup Joined(c, list)]
      /\ Reply([JoinReplies(c, Joined(c, list)) EXCEPT
                  ![c] = @ \cup names \cup error],
               UNION {Members(ch) \cup {c} : ch \in Joined(c, list)})
      /\ UNCHANGED <<clientVars, mode, topic>>

\* The PART each client is sent, before the channels are left.
PartReplies_AfterErase(c, S) ==      \* mutant: sent after eraseClient
  [d \in Client |-> {Msg("PART", c, ch, NoNick) : ch \in
                       {x \in S : d \in Members(x) \ {c}}}]
PartReplies(c, S) ==
  [d \in Client |-> {Msg("PART", c, ch, NoNick) : ch \in
                       {x \in S : d \in Members(x)}}]

\* Executor::part.  A channel is left whether or not the client is on it, and
\* one named again after its last member left it does not exist any more.
Part(c, list) ==
  LET named == {list[i] : i \in DOMAIN list}
      left  == named \cap channels
      again == {ch \in Emptied(c, left) :
                  \E i, j \in DOMAIN list : i # j /\ list[i] = ch /\ list[j] = ch}
      error == IF again \cup (named \ channels) # {}
               THEN {Numeric("403", c)} ELSE {}
  IN  /\ Leave(c, left)
      /\ Reply([PartReplies(c, left) EXCEPT ![c] = @ \cup error],
               UNION {Members(ch) : ch \in left})
      /\ UNCHANGED clientVars

-----------------------------------------------------------------------------
(* Commands for operators.  Each is refused with the first error that      *)
(* applies, in the order the code looks for them.                          *)

Granted == "granted"

OperatorCheck_Member(c, ch) ==           \* mutant: being on the channel will do
  IF c \notin Members(ch) THEN "442" ELSE Granted
OperatorCheck(c, ch) ==
  IF c \notin Members(ch) THEN "442"
  ELSE IF c \notin operators[ch] THEN "482" ELSE Granted

ModeCheck(c, ch) == IF ch \notin channels THEN "403" ELSE OperatorCheck(c, ch)

\* INVITE and KICK look the nickname up before the rights of the sender.
TargetCheck(c, ch, n) ==
  IF ch \notin channels THEN "403"
  ELSE IF Named(n) = {} THEN "401" ELSE OperatorCheck(c, ch)

TopicCheck_AnyMember(c, ch) ==                       \* mutant: +t is ignored
  IF ch \notin channels THEN "403"
  ELSE IF c \in Members(ch) THEN Granted ELSE OperatorCheck(c, ch)
TopicCheck(c, ch) ==
  IF ch \notin channels THEN "403"
  ELSE IF c \in Members(ch) /\ "t" \notin mode[ch] THEN Granted
  ELSE OperatorCheck(c, ch)

\* Executor::mode with +i, -i, +t or -t; setting what is set is no change.
SetFlag(c, ch, f, on) ==
  LET word == IF on THEN (IF f = "i" THEN "+i" ELSE "+t")
                    ELSE (IF f = "i" THEN "-i" ELSE "-t")
  IN  \/ /\ ModeCheck(c, ch) # Granted
         /\ Refuse(c, ModeCheck(c, ch))
      \/ /\ ModeCheck(c, ch) = Granted
         /\ (f \in mode[ch]) = on
         /\ Silence /\ UNCHANGED state
      \/ /\ ModeCheck(c, ch) = Granted
         /\ (f \in mode[ch]) # on
         /\ mode' = [mode EXCEPT ![ch] = IF on THEN @ \cup {f} ELSE @ \ {f}]
         /\ Broadcast(Members(ch), Msg(word, c, ch, NoNick))
         /\ UNCHANGED <<clientVars, rosterVars, invited, topic>>

\* ChannelController::updateRole, with what Executor::mode does of its result.
UpdateRole(c, ch, target, promote) ==
  \/ /\ IF promote THEN target \notin regulars[ch] ELSE target \notin operators[ch]
     /\ Silence /\ UNCHANGED state
  \/ /\ promote /\ target \in regulars[ch]
     /\ operators' = [operators EXCEPT ![ch] = @ \cup {target}]
     /\ regulars'  = [regulars EXCEPT ![ch] = @ \ {target}]
     /\ Broadcast(Members(ch), Msg("+o", c, ch, nickname[target]))
     /\ UNCHANGED <<clientVars, channelList, channels, settingVars>>
  \/ /\ ~promote /\ target \in operators[ch]
     /\ regulars'  = [regulars EXCEPT ![ch] = @ \cup {target}]
     /\ operators' = [operators EXCEPT ![ch] = @ \ {target}]
     /\ Broadcast(Members(ch), Msg("-o", c, ch, nickname[target]))
     /\ UNCHANGED <<clientVars, channelList, channels, settingVars>>

\* Executor::mode with +o or -o.
SetOperator(c, ch, n, promote) ==
  \/ /\ ModeCheck(c, ch) # Granted
     /\ Refuse(c, ModeCheck(c, ch))
  \/ /\ ModeCheck(c, ch) = Granted
     /\ Named(n) = {}
     /\ Refuse(c, "401")
  \/ /\ ModeCheck(c, ch) = Granted
     /\ \E target \in Named(n) : UpdateRole(c, ch, target, promote)

\* Executor::topic.
SetTopic(c, ch, t) ==
  \/ /\ TopicCheck(c, ch) # Granted
     /\ Refuse(c, TopicCheck(c, ch))
  \/ /\ TopicCheck(c, ch) = Granted
     /\ topic[ch] = t
     /\ Silence /\ UNCHANGED state
  \/ /\ TopicCheck(c, ch) = Granted
     /\ topic[ch] # t
     /\ topic' = [topic EXCEPT ![ch] = t]
     /\ Broadcast(Members(ch), Msg("TOPIC", c, ch, t))
     /\ UNCHANGED <<clientVars, rosterVars, invited, mode>>

\* Executor::invite; the target may be on the channel, or not registered yet.
Invite(c, n, ch) ==
  \/ /\ TargetCheck(c, ch, n) # Granted
     /\ Refuse(c, TargetCheck(c, ch, n))
  \/ /\ TargetCheck(c, ch, n) = Granted
     /\ \E target \in Named(n) :
          LET sent == To({target}, Msg("INVITE", c, ch, n))
          IN  /\ invited' = [invited EXCEPT ![ch] = @ \cup {target}]
              /\ Reply([sent EXCEPT ![c] = @ \cup {Numeric("341", c)}], {target})
     /\ UNCHANGED <<clientVars, rosterVars, mode, topic>>

\* Executor::kick; the target need not be on the channel.
Kick(c, ch, n) ==
  \/ /\ TargetCheck(c, ch, n) # Granted
     /\ Refuse(c, TargetCheck(c, ch, n))
  \/ /\ TargetCheck(c, ch, n) = Granted
     /\ \E target \in Named(n) : Leave(target, {ch})
     /\ Broadcast(Members(ch), Msg("KICK", c, ch, n))
     /\ UNCHANGED clientVars

-----------------------------------------------------------------------------
(* The other commands of a registered client. *)

\* Executor::nick(int, params *).  A client on no channel is told directly.
NewNick(c, n) ==
  \/ /\ nickname[c] = n
     /\ Silence /\ UNCHANGED state
  \/ /\ nickname[c] # n /\ Named(n) # {}
     /\ Refuse(c, "433")
  \/ /\ nickname[c] # n /\ Named(n) = {}
     /\ nickname' = [nickname EXCEPT ![c] = n]
     /\ IF channelList[c] = {}
        THEN Reply(To({c}, Msg("NICK", c, NoChannel, n)), {})
        ELSE Broadcast(Audience(c), Msg("NICK", c, NoChannel, n))
     /\ UNCHANGED <<status, auth, rosterVars, settingVars>>

\* Executor::quit: the client stays on its channels until it is deleted.
Quit_NotScheduled(c) ==        \* mutant: the client itself is not in _client_list
  /\ status' = [status EXCEPT ![c] = "TERMINATE"]
  /\ Broadcast(Audience(c), Msg("QUIT", c, NoChannel, NoNick))
  /\ UNCHANGED <<auth, nickname, rosterVars, settingVars>>
Quit(c) ==
  /\ status' = [status EXCEPT ![c] = "TERMINATE"]
  /\ Reply(To(Audience(c), Msg("QUIT", c, NoChannel, NoNick)), {c} \cup Audience(c))
  /\ UNCHANGED <<auth, nickname, rosterVars, settingVars>>

\* The error PRIVMSG gives for one receiver, a channel or a nickname.
PrivmsgCheck(c, x) ==
  IF x \in Channel
  THEN IF x \notin channels THEN "403"
       ELSE IF c \notin Members(x) THEN "404" ELSE Granted
  ELSE IF Named(x) = {} THEN "401" ELSE Granted

\* first is whom the empty nickname finds.
Receivers(c, x, first) ==
  IF x \in Channel THEN Members(x) \ {c}
  ELSE IF x = NoNick THEN {first} ELSE Named(x)

\* Executor::privmsg: the first receiver that is refused ends the command.
Privmsg(c, list, first) ==
  LET sent   == {list[i] : i \in {k \in DOMAIN list :
                   \A j \in 1..k : PrivmsgCheck(c, list[j]) = Granted}}
      errors == {Numeric(PrivmsgCheck(c, list[i]), c) : i \in
                   {k \in DOMAIN list :
                      /\ PrivmsgCheck(c, list[k]) # Granted
                      /\ \A j \in 1..(k-1) : PrivmsgCheck(c, list[j]) = Granted}}
      texts  == [d \in Client |->
                   {IF x \in Channel THEN Msg("PRIVMSG", c, x, NoNick)
                                     ELSE Msg("PRIVMSG", c, NoChannel, x) :
                      x \in {y \in sent : d \in Receivers(c, y, first)}}]
  IN  /\ Named(NoNick) # {} => first \in Named(NoNick)
      /\ Reply([texts EXCEPT ![c] = @ \cup errors],
               UNION {Receivers(c, x, first) : x \in sent})
      /\ UNCHANGED state

\* Executor::notice.
Notice_NotScheduled(c, n) ==         \* mutant: forgets _client_list.insert
  \/ /\ Named(n) = {}
     /\ Refuse(c, "401")
  \/ /\ Named(n) # {}
     /\ \E d \in Named(n) : Reply(To({d}, Msg("NOTICE", c, NoChannel, n)), {})
     /\ UNCHANGED state
Notice(c, n) ==
  \/ /\ Named(n) = {}
     /\ Refuse(c, "401")
  \/ /\ Named(n) # {}
     /\ \E d \in Named(n) : Broadcast({d}, Msg("NOTICE", c, NoChannel, n))
     /\ UNCHANGED state

\* Executor::pong and Executor::bot answer the client and change nothing else.
Pong(c) == Answer(c, "PONG") /\ UNCHANGED state

\* PASS and USER of a registered client: the default of the switch.
Ignored(c) == Silence /\ UNCHANGED state

\* Executor::execute(Command *, Client *).
Execute(c) ==
  \/ \E list \in Lists(Channel) : Join(c, list)
  \/ \E list \in Lists(Channel) : Part(c, list)
  \/ \E ch \in Channel, f \in Flags, on \in BOOLEAN : SetFlag(c, ch, f, on)
  \/ \E ch \in Channel, n \in Nick, promote \in BOOLEAN :
        SetOperator(c, ch, n, promote)
  \/ \E ch \in Channel, t \in Topic \cup {NoTopic} : SetTopic(c, ch, t)
  \/ \E n \in Nick, ch \in Channel : Invite(c, n, ch)
  \/ \E ch \in Channel, n \in Addressee : Kick(c, ch, n)
  \/ \E n \in Nick : NewNick(c, n)
  \/ Quit(c)
  \/ \E list \in Lists(Channel \cup Addressee), first \in Client :
        Privmsg(c, list, first)
  \/ \E n \in Addressee : Notice(c, n)
  \/ Pong(c)
  \/ Ignored(c)

-----------------------------------------------------------------------------
Init ==
  /\ status      = [c \in Client |-> "FREE"]
  /\ auth        = [c \in Client |-> {}]
  /\ nickname    = [c \in Client |-> NoNick]
  /\ channelList = [c \in Client |-> {}]
  /\ channels    = {}
  /\ operators   = [ch \in Channel |-> {}]
  /\ regulars    = [ch \in Channel |-> {}]
  /\ invited     = [ch \in Channel |-> {}]
  /\ mode        = [ch \in Channel |-> DefaultMode]
  /\ topic       = [ch \in Channel |-> NoTopic]
  /\ sendBuf     = [c \in Client |-> {}]
  /\ clientList  = {}

\* Server::handleRead gives Executor::connect the commands of a client that is
\* not registered; Server::handleExecute runs those of one that is.
Next ==
  \E c \in Client :
    \/ Accept(c)
    \/ status[c] = "UNREGISTER" /\ Connect(c)
    \/ status[c] = "REGISTER" /\ Execute(c)
    \/ Timeout(c)
    \/ DeleteClient(c)

Spec == Init /\ [][Next]_vars

-----------------------------------------------------------------------------
(* What must hold of the state between two commands. *)

\* The state of the clients and the channels has its type.
StateTypeOK ==
  /\ status \in [Client -> Status]
  /\ auth \in [Client -> SUBSET Credentials]
  /\ nickname \in [Client -> Nick \cup {NoNick}]
  /\ channelList \in [Client -> SUBSET Channel]
  /\ channels \in SUBSET Channel
  /\ operators \in [Channel -> SUBSET Client]
  /\ regulars \in [Channel -> SUBSET Client]
  /\ invited \in [Channel -> SUBSET Client]
  /\ mode \in [Channel -> SUBSET Flags]
  /\ topic \in [Channel -> Topic \cup {NoTopic}]

\* Every variable has its type.
TypeOK ==
  /\ StateTypeOK
  /\ sendBuf \in [Client -> SUBSET Message]
  /\ clientList \in SUBSET Client

\* The two sides of membership agree: a client is in a channel's sets exactly
\* when the channel is in the client's list.  Join, part, kick and deleteClient
\* each update the two sides in separate calls, and deleteClient trusts the
\* client's side to find the pointers it must remove from the channels.
RosterAgreement ==
  \A c \in Client, ch \in Channel : c \in Members(ch) <=> ch \in channelList[c]

\* A channel exists as long as somebody is on it, and no longer: whoever leaves
\* last (part, kick, deleteClient) takes it away, whatever way the others left.
ChannelIffOccupied ==
  \A ch \in Channel : ch \in channels <=> Members(ch) # {}

\* Nobody is operator and regular of a channel at once: eraseClient removes a
\* client from one of the two sets only, so a client in both would survive its
\* own removal as a dangling pointer.
RolesDisjoint ==
  \A ch \in Channel : operators[ch] \cap regulars[ch] = {}

\* The pointers a channel keeps to its members are to clients that completed
\* registration and are not deleted yet: a broadcast never writes to freed
\* memory, and never to somebody who has not given the password.
MembersRegistered ==
  \A ch \in Channel : \A c \in Members(ch) : status[c] \in {"REGISTER", "TERMINATE"}

\* A nickname names one client.  There are two NICK handlers, before and after
\* registration, and clients that are not registered yet hold nicknames too.
NickUnique ==
  \A c, d \in Live : nickname[c] = nickname[d] /\ nickname[c] # NoNick => c = d

\* A client is registered (now, or when it quit) only with all three steps done,
\* and it has a nickname others can address it by from then on.
RegisteredHaveNick ==
  \A c \in Client : status[c] \in {"REGISTER", "TERMINATE"} =>
    auth[c] = Credentials /\ nickname[c] # NoNick

\* The inductive invariant behind these: they need each other, and that an
\* address that is free and a channel that does not exist have the values a new
\* client and a new channel start from, and that NICK is what sets a nickname.
FreeIsBlank ==
  \A c \in Client : status[c] = "FREE" => auth[c] = {} /\ nickname[c] = NoNick

NickBehindAuth ==
  \A c \in Client : "NICK" \in auth[c] => nickname[c] # NoNick

AbsentIsBlank ==
  \A ch \in Channel \ channels :
    invited[ch] = {} /\ mode[ch] = DefaultMode /\ topic[ch] = NoTopic

RosterInv == RosterAgreement /\ ChannelIffOccupied /\ RolesDisjoint /\ AbsentIsBlank
ClientInv == NickUnique /\ RegisteredHaveNick /\ FreeIsBlank /\ NickBehindAuth
IndInv    == StateTypeOK /\ RosterInv /\ ClientInv /\ MembersRegistered

-----------------------------------------------------------------------------
(* What one command may and may not do. *)

\* Every client another client's command writes to is put in the list of those
\* whose write event reserve registers; the buffer of the client the command is
\* from is sent when the handler returns.  Forgetting one leaves a message in its
\* buffer until something else happens to that client.  Those in the list are
\* live, since reserve follows the pointers.
RepliesScheduled ==
  [][/\ \A d \in Client : \A m \in sendBuf'[d] : m.from # d => d \in clientList'
     /\ \A d \in clientList' : status'[d] # "FREE"]_vars

\* An invite-only channel is entered only by somebody who is invited, and the
\* invitation admits once: it is gone when its owner is in.
InvitationAdmitsOnce ==
  [][\A ch \in channels : \A c \in Members(ch)' \ Members(ch) :
       /\ "i" \in mode[ch] => c \in invited[ch]
       /\ c \notin invited'[ch]]_vars

\* A client that stays connected leaves a channel only by its own PART or by a
\* KICK of one who is an operator of that channel, and everybody who was on the
\* channel is told so, the one who left included.
DeparturesAnnounced ==
  [][\A ch \in Channel : \A d \in Members(ch) \ Members(ch)' :
       status'[d] # "FREE" =>
         \/ \A e \in Members(ch) : Msg("PART", d, ch, NoNick) \in sendBuf'[e]
         \/ \E op \in operators[ch] : \A e \in Members(ch) :
              Msg("KICK", op, ch, nickname[d]) \in sendBuf'[e]]_vars

\* Whoever comes onto a channel is announced to all who were there before, and
\* is an operator exactly when the channel did not exist.
ArrivalsAnnounced ==
  [][\A ch \in Channel : \A c \in Members(ch)' \ Members(ch) :
       /\ c \in operators'[ch] <=> Members(ch) = {}
       /\ \A e \in Members(ch)' : Msg("JOIN", c, ch, NoNick) \in sendBuf'[e]]_vars

\* On a channel that goes on existing, the rights of its members, its flags and,
\* with +t, its topic change only by a command of an operator of that channel,
\* which every member is told of.
PowerFromOperators ==
  [][\A ch \in channels \cap channels' :
       LET stay == Members(ch) \cap Members(ch)'
           Told(by, words, args) ==
             \E c \in by, w \in words, x \in args : \A e \in Members(ch) :
               Msg(w, c, ch, x) \in sendBuf'[e]
       IN /\ \A d \in stay \cap (operators'[ch] \ operators[ch]) :
               Told(operators[ch], {"+o"}, {nickname[d]})
          /\ \A d \in stay \cap (operators[ch] \ operators'[ch]) :
               Told(operators[ch], {"-o"}, {nickname[d]})
          /\ mode'[ch] # mode[ch] =>
               Told(operators[ch], {"+i", "-i", "+t", "-t"}, {NoNick})
          /\ topic'[ch] # topic[ch] =>
               Told(IF "t" \in mode[ch] THEN operators[ch] ELSE Members(ch),
                    {"TOPIC"}, {topic'[ch]})]_vars

\* When a registered client takes another nickname, all who share a channel with
\* it are told, and so is the client itself.
NickChangeAnnounced ==
  [][\A c \in Client : status[c] = "REGISTER" /\ nickname'[c] # nickname[c]
                       /\ status'[c] # "FREE" =>
       \A e \in Client :
         e = c \/ (\E ch \in Channel : {c, e} \subseteq Members(ch)) =>
           Msg("NICK", c, NoChannel, nickname'[c]) \in sendBuf'[e]]_vars

\* A client on a channel that quits tells everybody it shares a channel with, and
\* is scheduled for deletion by the same command.
QuitAnnounced ==
  [][\A c \in Client : status[c] = "REGISTER" /\ status'[c] = "TERMINATE" =>
       /\ c \in clientList'
       /\ \A ch \in Channel : c \in Members(ch) => \A e \in Members(ch) :
            Msg("QUIT", c, NoChannel, NoNick) \in sendBuf'[e]]_vars

-----------------------------------------------------------------------------
(* The server's records, two sets of pointers and a list on each client,   *)
(* implement one table of roles.                                           *)

Role(ch, c) == IF c \in operators[ch] THEN "operator"
               ELSE IF c \in regulars[ch] THEN "regular" ELSE "none"

Abstract == INSTANCE Membership WITH
  role    <- [ch \in Channel |-> [c \in Client |-> Role(ch, c)]],
  flags   <- mode,
  subject <- topic,
  guests  <- invited

\* Every command does to the channels what Membership allows: a list of channels
\* is entered or left at once, founders become operators, the powers of operators
\* are nobody else's, and a channel that empties is as good as new, though the
\* code asks _channels, the two sets or the client's own list in different places.
ImplementsMembership == Abstract!Spec
=============================================================================
