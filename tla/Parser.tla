------------------------------- MODULE Parser -------------------------------
(***************************************************************************)
(* From a line to a command: class Parser (src/src/core/Parser.cpp).  The  *)
(* server has one Parser for all its clients; its members tokenStream and  *)
(* token keep what the last line left in them.                             *)
(*                                                                         *)
(* A line is a sequence of fields, which single spaces separate; a field is*)
(* a sequence of names, which commas separate.  So "JOIN #A,#B" is         *)
(* <<<<"JOIN">>, <<"#A", "#B">>>>, and an empty field is <<"">>.           *)
(***************************************************************************)
EXTENDS Naturals, SequencesExt

CONSTANTS
  Line,         \* the lines the server may receive
  ChannelName,  \* the names validChannelName accepts
  BadChannel,   \* other names that begin with '#'
  NickName,     \* the names validNickName accepts
  Message,      \* names that begin with ':'
  BotCall       \* those that call the bot with a command it knows

ASSUME NameAssumption ==
  /\ "" \notin ChannelName \cup BadChannel \cup NickName \cup Message
  /\ BotCall \subseteq Message
  /\ ChannelName \cap BadChannel = {}

\* Something is in front of every separator, behind it and between two, if only "".
Field == Seq(STRING) \ {<<>>}

ASSUME LineAssumption == Line \subseteq Seq(Field) \ {<<>>}

VARIABLES
  members,  \* Parser::tokenStream, as its unread fields and its eofbit, and token
  line,     \* the last line parsed
  result    \* what parse returned or threw

vars == <<members, line, result>>

Blank == <<"">>
Null  == "NULL"
Fresh == [stream |-> <<>>, eof |-> FALSE, token |-> <<Blank>>]

-----------------------------------------------------------------------------
(* Reading the stream.  The token is a sequence of fields: one, or with MSG *)
(* the rest of the line.  getline at the end of the stream leaves it alone. *)

GetToken(m) ==
  IF m.eof THEN m
  ELSE [stream |-> Tail(m.stream), eof |-> Len(m.stream) = 1, token |-> <<Head(m.stream)>>]

GetMsg(m) == IF m.eof THEN m ELSE [stream |-> <<>>, eof |-> TRUE, token |-> m.stream]

\* !isEOF() && getToken(), and the same with MSG.
HasToken(m) == ~m.eof /\ GetToken(m).token # <<Blank>>
HasMsg(m)   == ~m.eof /\ m.stream # <<Blank>>

\* clear and str, before the next line is read.
Load_NotCleared(m, l) == [m EXCEPT !.stream = l]    \* mutant: eofbit stays
Load(m, l) == [m EXCEPT !.stream = l, !.eof = FALSE]

\* split(tokenStream, ' ') and split(token, ','): getline finds nothing behind the
\* last separator.
WithoutLast(s, empty) == IF s # <<>> /\ Last(s) = empty THEN Front(s) ELSE s
FieldsLeft_All(m) == IF m.eof THEN <<>> ELSE m.stream   \* mutant: as string split
FieldsLeft(m) == IF m.eof THEN <<>> ELSE WithoutLast(m.stream, Blank)
Drained(m)    == [m EXCEPT !.stream = <<>>, !.eof = TRUE]
Names(token)  == WithoutLast(token[1], "")

IsMessage(token) == token[1][1] \in Message

-----------------------------------------------------------------------------
(* Names. *)

ValidChannelName(field) == Len(field) = 1 /\ field[1] \in ChannelName

ValidNickName_Any(field) == field # Blank              \* mutant: nothing is asked
ValidNickName(field) == Len(field) = 1 /\ field[1] \in NickName

\* The first name that is no channel name; "" means there is none, or is that name.
FirstInvalid(names) ==
  LET bad == {i \in DOMAIN names : names[i] \notin ChannelName}
  IN  IF bad = {} THEN "" ELSE names[CHOOSE i \in bad : \A j \in bad : i <= j]

-----------------------------------------------------------------------------
(* What parse gives back, and the members as it leaves them. *)

Outcome(m, kind, type, params) ==
  [left |-> m, value |-> [kind |-> kind, type |-> type, params |-> params]]
Command(m, type, params) == Outcome(m, "command", type, params)
Throw(m, exception)      == Outcome(m, "error", exception, Null)
NotEnough(m)             == Throw(m, "NotEnoughParams")

ParseQuit(m) ==
  LET msg == GetMsg(m)
  IN  Command(msg, "QUIT", IF IsMessage(msg.token) THEN <<msg.token>> ELSE <<>>)

ParsePass(m) ==
  LET t == GetToken(m)
  IN  IF HasToken(m) THEN Command(t, "PASS", t.token) ELSE NotEnough(t)

ParseUser(m) ==
  LET fields == FieldsLeft(m)
  IN  IF Len(fields) \in {4, 5} THEN Command(Drained(m), "USER", SubSeq(fields, 1, 4))
      ELSE NotEnough(Drained(m))

ParseNick(m) ==
  LET fields == FieldsLeft(m)
  IN  IF Len(fields) # 1 THEN NotEnough(Drained(m))
      ELSE IF ~ValidNickName(fields[1]) THEN Throw(Drained(m), "InvalidNickName")
      ELSE Command(Drained(m), "NICK", fields)

ParseJoin(m) ==
  LET t == GetToken(m)
  IN  IF ~HasToken(m) THEN NotEnough(t)
      ELSE IF FirstInvalid(Names(t.token)) # "" THEN Throw(t, "InvalidChannelName")
      ELSE Command(GetToken(t), "JOIN", Names(t.token))          \* and the keys

ParsePart(m) ==
  LET t == GetToken(m)
  IN  IF ~HasToken(m) THEN NotEnough(t)
      ELSE IF FirstInvalid(Names(t.token)) # "" THEN Throw(t, "InvalidChannelName")
      ELSE Command(t, "PART", Names(t.token))

Flag == [f \in {"+I", "I", "-I", "+T", "T", "-T"} |->
           IF f = "I" THEN "+I" ELSE IF f = "T" THEN "+T" ELSE f]
Role == [r \in {"+O", "O", "-O"} |-> IF r = "-O" THEN "-O" ELSE "+O"]

\* The channel is only asked to begin with '#'.
ParseMode(m) ==
  LET ch   == GetToken(m)
      mode == GetToken(ch)
      nick == GetToken(mode)
      word == mode.token[1][1]
      bare == Len(mode.token[1]) = 1
  IN  IF ~HasToken(m) THEN NotEnough(ch)
      ELSE IF ch.token[1][1] \notin ChannelName \cup BadChannel
        THEN Throw(ch, "UnHandledMode")
      ELSE IF HasToken(ch) /\ bare /\ word \in DOMAIN Flag
        THEN Command(mode, "MODE", <<ch.token[1], Flag[word]>>)
      ELSE IF ~(HasToken(ch) /\ bare /\ word \in DOMAIN Role)
        THEN Throw(mode, "UnHandledMode")
      ELSE IF ~HasToken(mode) THEN NotEnough(nick)
      ELSE IF ~ValidNickName(nick.token[1]) THEN Throw(nick, "InvalidNickName")
      ELSE Command(nick, "MODE", <<ch.token[1], Role[word], nick.token[1]>>)

ParseInvite(m) ==
  LET fields == FieldsLeft(m)
  IN  IF Len(fields) # 2 THEN NotEnough(Drained(m))
      ELSE IF ~ValidNickName(fields[1]) THEN Throw(Drained(m), "InvalidNickName")
      ELSE IF ~ValidChannelName(fields[2]) THEN Throw(Drained(m), "InvalidChannelName")
      ELSE Command(Drained(m), "INVITE", fields)

\* getToken(MSG) is compared with EOF, which it never returns: at the end of the
\* line the comment is looked for in the token that is there, the user's name.
ParseKick(m) ==
  LET ch      == GetToken(m)
      user    == GetToken(ch)
      comment == GetMsg(user)
  IN  IF ~HasToken(m) THEN NotEnough(ch)
      ELSE IF ~ValidChannelName(ch.token[1]) THEN Throw(ch, "InvalidChannelName")
      ELSE IF ~HasToken(ch) THEN NotEnough(user)
      ELSE Command(comment, "KICK",
             <<ch.token[1], user.token[1]>>
               \o IF IsMessage(comment.token) THEN comment.token ELSE <<>>)

\* Without any parameter, params stays NULL.
ParseTopic(m) ==
  LET ch    == GetToken(m)
      topic == GetMsg(ch)
  IN  IF ~HasToken(m) THEN Command(ch, "TOPIC", Null)
      ELSE IF ~ValidChannelName(ch.token[1]) THEN Throw(ch, "InvalidChannelName")
      ELSE IF ~(HasMsg(ch) /\ IsMessage(topic.token)) THEN NotEnough(topic)
      ELSE Command(topic, "TOPIC", <<ch.token[1]>> \o topic.token)

\* parseBot, for a single receiver: BOT, if the message is a command of the bot.
ParsePrivmsg(m) ==
  LET to  == GetToken(m)
      msg == GetMsg(to)
      bot == /\ Len(Names(to.token)) = 1
             /\ Len(msg.token) = 1 /\ Len(msg.token[1]) = 1
             /\ msg.token[1][1] \in BotCall
  IN  IF ~HasToken(m) THEN NotEnough(to)
      ELSE IF ~(HasMsg(to) /\ IsMessage(msg.token)) THEN NotEnough(msg)
      ELSE Command(msg, IF bot THEN "BOT" ELSE "PRIVMSG", <<Names(to.token)>> \o msg.token)

ParseNotice(m) ==
  LET to  == GetToken(m)
      msg == GetMsg(to)
  IN  IF ~HasToken(m) THEN NotEnough(to)
      ELSE IF ~(HasMsg(to) /\ IsMessage(msg.token)) THEN NotEnough(msg)
      ELSE Command(msg, "NOTICE", to.token \o msg.token)

ParsePing(m) ==
  LET t == GetToken(m)
  IN  IF HasToken(m) THEN Command(t, "PING", t.token) ELSE NotEnough(t)

\* toUpperCase: the names of the model are in upper case, but for this one.
ToUpperCase(field) == IF field = <<"quit">> THEN <<"QUIT">> ELSE field

\* The chain of comparisons in parse.  CAP and WHO are dropped without an answer.
Handle(t, word) ==
  CASE word = "QUIT"    -> ParseQuit(t)
    [] word = "PASS"    -> ParsePass(t)
    [] word = "USER"    -> ParseUser(t)
    [] word = "NICK"    -> ParseNick(t)
    [] word = "JOIN"    -> ParseJoin(t)
    [] word = "PART"    -> ParsePart(t)
    [] word = "MODE"    -> ParseMode(t)
    [] word = "INVITE"  -> ParseInvite(t)
    [] word = "KICK"    -> ParseKick(t)
    [] word = "TOPIC"   -> ParseTopic(t)
    [] word = "PRIVMSG" -> ParsePrivmsg(t)
    [] word = "NOTICE"  -> ParseNotice(t)
    [] word = "PING"    -> ParsePing(t)
    [] word \in {"CAP", "WHO"} -> Outcome(t, "dropped", word, Null)
    [] OTHER -> Throw(t, "UnknownCommand")

\* Parser::parse: the word the line begins with is in the token when it is compared.
ReadWord(m, l) == [GetToken(Load(m, l)) EXCEPT !.token = <<ToUpperCase(@[1])>>]
Parse(m, l) ==
  LET t == ReadWord(m, l)
  IN  Handle(t, IF Len(t.token[1]) = 1 THEN t.token[1][1] ELSE "")

-----------------------------------------------------------------------------
Init ==
  /\ members = Fresh
  /\ line = <<Blank>>
  /\ result = [kind |-> "error", type |-> "UnknownCommand", params |-> Null]

\* One turn of the loop of Server::parse, for a line of any client.
Next ==
  \E l \in Line :
    /\ line' = l
    /\ members' = Parse(members, l).left
    /\ result' = Parse(members, l).value

Spec == Init /\ [][Next]_vars

-----------------------------------------------------------------------------
\* What a line means does not depend on the lines parsed before it, other clients'
\* among them, though all go through the same stream and token, and some handlers
\* look at a token that getline has left alone.
LineAlone == [][result' = Parse(Fresh, line').value]_vars

\* The i-th parameter is there, or begins a text.
Given(l, i)  == Len(l) > i /\ l[i+1] # Blank
Spoken(l, i) == Len(l) > i /\ l[i+1][1] \in Message
All(l)       == WithoutLast(Tail(l), Blank)

\* Up to an empty name, the names of a list are channel names.
GoodList(names) ==
  \A i \in DOMAIN names : names[i] \in ChannelName \/ \E j \in 1..i : names[j] = ""

\* The lines that are commands, by their shape.
Shape(l, word) ==
  \/ word \in {"QUIT"}
  \/ word \in {"PASS", "PING"} /\ Given(l, 1)
  \/ word = "USER" /\ Len(All(l)) \in {4, 5}
  \/ word = "NICK" /\ \E n \in NickName : All(l) = <<<<n>>>>
  \/ word = "INVITE" /\ \E n \in NickName, ch \in ChannelName : All(l) = <<<<n>>, <<ch>>>>
  \/ word \in {"JOIN", "PART"} /\ Given(l, 1) /\ GoodList(WithoutLast(l[2], ""))
  \/ /\ word = "MODE" /\ Given(l, 1) /\ l[2][1] \in ChannelName \cup BadChannel
     /\ Given(l, 2) /\ Len(l[3]) = 1
     /\ \/ l[3][1] \in DOMAIN Flag
        \/ l[3][1] \in DOMAIN Role /\ Given(l, 3) /\ ValidNickName(l[4])
  \/ word = "KICK" /\ Given(l, 2) /\ ValidChannelName(l[2])
  \/ word = "TOPIC" /\ (Given(l, 1) => ValidChannelName(l[2]) /\ Spoken(l, 2))
  \/ word \in {"PRIVMSG", "NOTICE"} /\ Given(l, 1) /\ Spoken(l, 2)

\* A line becomes a command exactly when it has the shape of one, whatever spaces
\* are at its end, and however much stands behind what its handler reads.
Understood ==
  [][LET word == ToUpperCase(line'[1])
     IN  /\ result'.kind = "command" <=> Len(word) = 1 /\ Shape(line', word[1])
         /\ result'.kind = "command" =>
              word = <<IF result'.type = "BOT" THEN "PRIVMSG" ELSE result'.type>>]_vars

\* What Executor takes for granted of the names in a command: a nickname a client
\* takes, or is promoted or invited by, is a nickname; a channel that is invited to,
\* kicked from or given a topic has a channel name, and so have the channels of a
\* list up to an empty name.
NamesFit ==
  [][LET p == result'.params
         named(i) == ValidChannelName(p[i])
     IN  result'.kind = "command" /\ p # Null =>
           CASE result'.type = "NICK" -> p[1][1] \in NickName
             [] result'.type = "MODE" -> Len(p) = 3 => p[3][1] \in NickName
             [] result'.type = "INVITE" -> p[1][1] \in NickName /\ named(2)
             [] result'.type \in {"KICK", "TOPIC"} -> named(1)
             [] result'.type \in {"JOIN", "PART"} -> GoodList(p)
             [] OTHER -> TRUE]_vars

\* "Not enough parameters" is the answer to a command without the parameters its
\* handler needs: a command that is passed on has its params object.
ParametersGiven == [][result'.kind = "command" => result'.params # Null]_vars
=============================================================================
