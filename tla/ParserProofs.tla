---------------------------- MODULE ParserProofs ----------------------------
(***************************************************************************)
(* What Parser makes of a line, for every set of names and every set of    *)
(* lines: that it does not depend on the lines before, which lines become  *)
(* commands, and what the names in a command are.                          *)
(***************************************************************************)
EXTENDS Parser, SequenceTheorems, WellFoundedInduction, TLAPS

\* The token is made of fields of a line, but it is empty at first, and parse puts the
\* word a line begins with in upper case.
Token == {<<Blank>>} \cup Seq(Field) \cup {<<ToUpperCase(field)>> : field \in Field}

\* The members of the parser; and, while a line is read, as long as its end has not
\* been met there is a field to read.
Members == [stream : Seq(Field), eof : BOOLEAN, token : Token]
Reader  == {m \in Members : ~m.eof => Len(m.stream) > 0}

\* The members when the first i fields of l have been read, one by one.
ReadTo(m, l, i) ==
  /\ m \in Reader
  /\ i \in 1..Len(l)
  /\ m.eof <=> Len(l) = i
  /\ Len(m.stream) = Len(l) - i
  /\ \A j \in 1..Len(m.stream) : m.stream[j] = l[i+j]
  /\ i > 1 => m.token = <<l[i]>>

-----------------------------------------------------------------------------
(* Reading. *)

\* Every way to read leaves the parser with a token, and with the rest of the line
\* or at its end.
LEMMA ReadersRead ==
  ASSUME NEW m \in Reader
  PROVE  GetToken(m) \in Reader /\ GetMsg(m) \in Reader /\ Drained(m) \in Reader
<1>1. m \in Members
  BY DEF Reader, Members
<1>2. GetToken(m) \in Reader
  <2>1. CASE m.eof
    BY <2>1 DEF GetToken
  <2>2. CASE ~m.eof
    <3> DEFINE t == [stream |-> Tail(m.stream), eof |-> Len(m.stream) = 1,
                     token |-> <<Head(m.stream)>>]
    <3>1. m.stream \in Seq(Field) /\ m.stream # <<>> /\ Len(m.stream) > 0
      BY <1>1, <2>2 DEF Reader, Members
    <3>2. /\ Head(m.stream) \in Field
          /\ Tail(m.stream) \in Seq(Field)
          /\ Len(Tail(m.stream)) = Len(m.stream) - 1
      BY <3>1, HeadTailProperties
    <3>3. t \in Members
      BY <3>2 DEF Members, Token
    <3>4. (t.eof <=> Len(m.stream) = 1) /\ t.stream = Tail(m.stream)
      OBVIOUS
    <3>5. GetToken(m) = t
      BY <2>2 DEF GetToken
    <3> HIDE DEF t
    <3>6. ~t.eof => Len(t.stream) > 0
      <4>1. Len(m.stream) # 1 => Len(Tail(m.stream)) > 0
        <5>1. Len(m.stream) \in Nat
          BY <3>1, LenProperties
        <5>2. \A n \in Nat : n > 0 /\ n # 1 => n - 1 > 0
          OBVIOUS
        <5> QED
          BY <3>1, <3>2, <5>1, <5>2, Zenon
      <4> QED
        BY <3>4, <4>1, Zenon
    <3> QED
      BY <3>3, <3>5, <3>6, Zenon DEF Reader, Members
  <2> QED
    BY <2>1, <2>2, <1>1
<1>3. GetMsg(m) \in Reader
  BY <1>1, EmptySeq DEF GetMsg, Reader, Token, Members
<1>4. Drained(m) \in Reader
  BY <1>1, EmptySeq DEF Drained, Reader, Members
<1> QED
  BY <1>2, <1>3, <1>4

\* getToken moves on by one field, if there is one, and !isEOF() && getToken() says
\* that there is one and that something is in it.
LEMMA NextField ==
  ASSUME NEW m, NEW l \in Seq(Field), NEW i, ReadTo(m, l, i)
  PROVE  /\ HasToken(m) <=> Given(l, i)
         /\ Len(l) > i => ReadTo(GetToken(m), l, i + 1)
         /\ Len(l) > i => GetToken(m).token = <<l[i+1]>>
<1>1. CASE m.eof
  BY <1>1 DEF ReadTo, HasToken, Given
<1>2. CASE ~m.eof
  <2>1. /\ m \in Members
        /\ m.stream \in Seq(Field) /\ m.stream # <<>>
    BY <1>2 DEF ReadTo, Reader, Members
  <2>2. i \in Nat /\ Len(l) \in Nat /\ Len(m.stream) = Len(l) - i /\ Len(l) > i
    BY <1>2, <2>1 DEF ReadTo
  <2>3. Head(m.stream) = l[i+1]
    BY <2>1, <2>2 DEF ReadTo
  <2>4. GetToken(m) = [stream |-> Tail(m.stream), eof |-> Len(m.stream) = 1,
                       token |-> <<l[i+1]>>]
    BY <1>2, <2>3 DEF GetToken
  <2>5. /\ Len(Tail(m.stream)) = Len(m.stream) - 1
        /\ \A j \in 1..Len(Tail(m.stream)) : Tail(m.stream)[j] = m.stream[j+1]
    BY <2>1, HeadTailProperties
  <2>6. \A j \in 1..Len(Tail(m.stream)) : Tail(m.stream)[j] = l[(i+1)+j]
    <3> SUFFICES ASSUME NEW j \in 1..Len(Tail(m.stream))
                 PROVE  Tail(m.stream)[j] = l[(i+1)+j]
      OBVIOUS
    <3>1. j \in Nat /\ j + 1 \in 1..Len(m.stream) /\ i + (j + 1) = (i + 1) + j
      BY <2>2, <2>5
    <3>2. m.stream[j+1] = l[i + (j+1)]
      BY <3>1 DEF ReadTo
    <3> QED
      BY <2>5, <3>1, <3>2
  <2>7. ReadTo(GetToken(m), l, i + 1)
    <3>1. GetToken(m) \in Reader
      BY ReadersRead DEF ReadTo
    <3> DEFINE t == [stream |-> Tail(m.stream), eof |-> Len(m.stream) = 1,
                     token |-> <<l[i+1]>>]
    <3>5. t.eof <=> Len(m.stream) = 1
      OBVIOUS
    <3>2. GetToken(m).eof <=> Len(m.stream) = 1
      BY <2>4, <3>5, Zenon
    <3>4. Len(m.stream) = 1 <=> Len(l) = i + 1
      BY <2>2
    <3>3. GetToken(m).stream = Tail(m.stream) /\ GetToken(m).token = <<l[i+1]>>
      BY <2>4
    <3> QED
      BY <3>1, <3>2, <3>3, <3>4, <2>2, <2>5, <2>6 DEF ReadTo
  <2>8. HasToken(m) <=> Given(l, i)
    <3>1. <<l[i+1]>> # <<Blank>> <=> l[i+1] # Blank
      OBVIOUS
    <3> QED
      BY <1>2, <2>2, <2>4, <3>1 DEF HasToken, Given
  <2> QED
    BY <2>4, <2>7, <2>8
<1> QED
  BY <1>1, <1>2

\* The same of getToken(MSG), for a text: it is the rest of the line.
LEMMA NextMsg ==
  ASSUME NEW m, NEW l \in Seq(Field), NEW i, ReadTo(m, l, i)
  PROVE  /\ HasMsg(m) /\ IsMessage(GetMsg(m).token) <=> Spoken(l, i)
         /\ HasMsg(m) => GetMsg(m).token \in Seq(Field)
<1>1. CASE m.eof
  BY <1>1 DEF ReadTo, HasMsg, Spoken
<1>2. CASE ~m.eof
  <2>1. m.stream \in Seq(Field) /\ m.stream # <<>>
    BY <1>2 DEF ReadTo, Reader, Members
  <2>2. Len(l) > i /\ m.stream[1] = l[i+1]
    BY <1>2, <2>1 DEF ReadTo
  <2>3. GetMsg(m).token = m.stream
    BY <1>2 DEF GetMsg
  <2>4. m.stream[1][1] \in Message => m.stream # <<Blank>>
    <3>1. <<Blank>>[1][1] = ""
      BY DEF Blank
    <3> QED
      BY <3>1, NameAssumption
  <2> QED
    BY <1>2, <2>1, <2>2, <2>3, <2>4 DEF HasMsg, IsMessage, Spoken
<1> QED
  BY <1>1, <1>2
-----------------------------------------------------------------------------
(* Names. *)

\* validChannelName of a list looks for the first name that is none: it finds nothing
\* to report exactly when the names up to an empty one are all channel names.
LEMMA NoneInvalid ==
  ASSUME NEW names \in Seq(STRING)
  PROVE  FirstInvalid(names) = "" <=> GoodList(names)
<1> DEFINE bad == {i \in DOMAIN names : names[i] \notin ChannelName}
           first == CHOOSE i \in bad : \A j \in bad : i <= j
<1>1. bad \subseteq Nat /\ \A i \in bad : i \in 1..Len(names)
  BY LenProperties
<1>2. CASE bad = {}
  <2>1. FirstInvalid(names) = ""
    BY <1>2 DEF FirstInvalid
  <2> QED
    BY <1>2, <2>1 DEF GoodList
<1>3. CASE bad # {}
  <2>1. \E i \in bad : \A j \in bad : i <= j
    <3>1. \E i \in bad : \A j \in bad : ~ (<<j, i>> \in OpToRel(<, Nat))
      BY <1>1, <1>3, NatLessThanWellFounded, WFMin
    <3>2. \A i, j \in Nat : ~ (<<j, i>> \in OpToRel(<, Nat)) => i <= j
      BY DEF OpToRel
    <3> QED
      BY <1>1, <3>1, <3>2
  <2>2. first \in bad /\ \A j \in bad : first <= j
    BY <2>1
  <2>3. FirstInvalid(names) = names[first]
    BY <1>3 DEF FirstInvalid
  <2> HIDE DEF first
  <2>4. ASSUME names[first] = ""
        PROVE  GoodList(names)
    <3> SUFFICES ASSUME NEW i \in DOMAIN names, names[i] \notin ChannelName
                 PROVE  \E j \in 1..i : names[j] = ""
      BY DEF GoodList
    <3>1. first \in 1..i
      BY <1>1, <2>2
    <3> QED
      BY <2>4, <3>1
  <2>5. ASSUME GoodList(names)
        PROVE  names[first] = ""
    <3>1. PICK j \in 1..first : names[j] = ""
      BY <2>2, <2>5 DEF GoodList
    <3>2. first \in 1..Len(names) /\ Len(names) \in Nat
      BY <1>1, <2>2, LenProperties
    <3>3. j \in DOMAIN names
      BY <3>2
    <3>4. j \in bad
      BY <3>1, <3>3, NameAssumption
    <3>5. first <= j
      BY <2>2, <3>4
    <3>6. j = first
      BY <3>2, <3>5
    <3> QED
      BY <3>1, <3>6
  <2> QED
    BY <2>3, <2>4, <2>5
<1> QED
  BY <1>2, <1>3

-----------------------------------------------------------------------------
(* The handlers. *)

\* The names in what a handler gives back are what Executor takes them for.
Fit(v) ==
  LET p == v.params
      named(i) == ValidChannelName(p[i])
  IN  v.kind = "command" /\ p # Null =>
        CASE v.type = "NICK" -> p[1][1] \in NickName
          [] v.type = "MODE" -> Len(p) = 3 => p[3][1] \in NickName
          [] v.type = "INVITE" -> p[1][1] \in NickName /\ named(2)
          [] v.type \in {"KICK", "TOPIC"} -> named(1)
          [] v.type \in {"JOIN", "PART"} -> GoodList(p)
          [] OTHER -> TRUE

\* A handler that has been called for word, with the rest of l before it, gives a
\* command back exactly when l has the shape of one.
Handled(o, l, word) ==
  /\ o.left \in Reader
  /\ o.value.kind = "command" <=> Shape(l, word)
  /\ o.value.kind = "command" => word = IF o.value.type = "BOT" THEN "PRIVMSG" ELSE o.value.type
  /\ Fit(o.value)

LEMMA QuitHandled ==
  ASSUME NEW m, NEW l \in Seq(Field), ReadTo(m, l, 1)
  PROVE  Handled(ParseQuit(m), l, "QUIT")
<1>1. GetMsg(m) \in Reader
  BY ReadersRead DEF ReadTo
<1> QED
  BY <1>1 DEF ParseQuit, Outcome, Command, Handled, Fit, Shape

LEMMA PassHandled ==
  ASSUME NEW m, NEW l \in Seq(Field), ReadTo(m, l, 1)
  PROVE  Handled(ParsePass(m), l, "PASS") /\ Handled(ParsePing(m), l, "PING")
<1>1. GetToken(m) \in Reader
  BY ReadersRead DEF ReadTo
<1>2. HasToken(m) <=> Given(l, 1)
  BY NextField
<1> QED
  BY <1>1, <1>2 DEF ParsePass, ParsePing, Outcome, Command, NotEnough, Throw, Handled, Fit, Shape

LEMMA WithoutLastIsSeq ==
  ASSUME NEW S, NEW s \in Seq(S), NEW empty
  PROVE  WithoutLast(s, empty) \in Seq(S)
<1>1. Front(s) \in Seq(S)
  <2>1. \A i \in 1..Len(s)-1 : s[i] \in S
    BY LenProperties
  <2> QED
    BY <2>1, LenProperties, SubSeqProperties DEF Front
<1> QED
  BY <1>1 DEF WithoutLast

\* What split finds before the end of the line are all the fields behind the first.
LEMMA AllLeft ==
  ASSUME NEW m, NEW l \in Seq(Field), ReadTo(m, l, 1)
  PROVE  FieldsLeft(m) = All(l) /\ All(l) \in Seq(Field) /\ Drained(m) \in Reader
<1>1. Len(l) >= 1 /\ l # <<>>
  BY DEF ReadTo
<1>2. /\ Tail(l) \in Seq(Field) /\ Len(Tail(l)) = Len(l) - 1
      /\ \A i \in 1..Len(Tail(l)) : Tail(l)[i] = l[i+1]
  BY <1>1, HeadTailProperties
<1>3. FieldsLeft(m) = All(l)
  <2>1. CASE m.eof
    <3>1. Len(l) = 1
      BY <2>1 DEF ReadTo
    <3>2. Len(Tail(l)) = 0
      BY <1>2, <3>1
    <3>3. Tail(l) = <<>>
      BY <1>2, <3>2, EmptySeq, SeqEqual
    <3> QED
      BY <2>1, <3>3 DEF FieldsLeft, All, WithoutLast
  <2>2. CASE ~m.eof
    <3>1. m.stream \in Seq(Field)
      BY DEF ReadTo, Reader, Members
    <3>2. /\ Len(m.stream) = Len(Tail(l))
          /\ \A i \in 1..Len(m.stream) : m.stream[i] = l[1+i]
      BY <1>2 DEF ReadTo
    <3>3. ASSUME NEW i \in 1..Len(m.stream)
          PROVE  m.stream[i] = Tail(l)[i]
      <4>1. 1 + i = i + 1
        OBVIOUS
      <4> QED
        BY <1>2, <3>2, <4>1
    <3>4. m.stream = Tail(l)
      BY <1>2, <3>1, <3>2, <3>3, SeqEqual
    <3> QED
      BY <2>2, <3>4 DEF FieldsLeft, All
  <2> QED
    BY <2>1, <2>2
<1>4. All(l) \in Seq(Field)
  BY <1>2, WithoutLastIsSeq DEF All
<1> QED
  BY <1>3, <1>4, ReadersRead DEF ReadTo

LEMMA UserHandled ==
  ASSUME NEW m, NEW l \in Seq(Field), ReadTo(m, l, 1)
  PROVE  Handled(ParseUser(m), l, "USER")
<1> QED
  BY AllLeft DEF ParseUser, Outcome, Command, NotEnough, Throw, Handled, Fit, Shape

LEMMA OneName ==
  ASSUME NEW field \in Field
  PROVE  Len(field) = 1 <=> field = <<field[1]>>
<1>1. Len(field) = 1 => field = <<field[1]>>
  BY DEF Field
<1>2. \A n : Len(<<n>>) = 1
  OBVIOUS
<1> QED
  BY <1>1, <1>2, Zenon

\* A field that is a nickname, or a channel name, is that one name.
LEMMA ValidNames ==
  ASSUME NEW field \in Field
  PROVE  /\ ValidNickName(field) <=> \E n \in NickName : field = <<n>>
         /\ ValidNickName(field) => field[1] \in NickName
         /\ ValidChannelName(field) <=> \E ch \in ChannelName : field = <<ch>>
<1>1. Len(field) = 1 <=> field = <<field[1]>>
  BY OneName
<1> QED
  BY <1>1 DEF ValidNickName, ValidChannelName

LEMMA NickHandled ==
  ASSUME NEW m, NEW l \in Seq(Field), ReadTo(m, l, 1)
  PROVE  Handled(ParseNick(m), l, "NICK")
<1> DEFINE fields == All(l)
           Good == Len(fields) = 1 /\ ValidNickName(fields[1])
<1>1. fields = FieldsLeft(m) /\ fields \in Seq(Field) /\ Drained(m) \in Reader
  BY AllLeft
<1>2. Good <=> \E n \in NickName : fields = <<<<n>>>>
  <2>1. Len(fields) = 1 => fields = <<fields[1]>> /\ fields[1] \in Field
    BY <1>1
  <2> QED
    BY <2>1, ValidNames
<1>3. Shape(l, "NICK") <=> Good
  BY <1>2 DEF Shape
<1>4. Good => fields[1][1] \in NickName
  BY <1>1, ValidNames
<1> HIDE DEF fields
<1> QED
  BY <1>1, <1>3, <1>4 DEF ParseNick, Outcome, Command, NotEnough, Throw, Handled, Fit

LEMMA InviteHandled ==
  ASSUME NEW m, NEW l \in Seq(Field), ReadTo(m, l, 1)
  PROVE  Handled(ParseInvite(m), l, "INVITE")
<1> DEFINE fields == All(l)
           Good == Len(fields) = 2 /\ ValidNickName(fields[1]) /\ ValidChannelName(fields[2])
<1>1. fields = FieldsLeft(m) /\ fields \in Seq(Field) /\ Drained(m) \in Reader
  BY AllLeft
<1>2. Good <=> \E n \in NickName, ch \in ChannelName : fields = <<<<n>>, <<ch>>>>
  <2>1. Len(fields) = 2 =>
          fields = <<fields[1], fields[2]>> /\ fields[1] \in Field /\ fields[2] \in Field
    BY <1>1
  <2> QED
    BY <2>1, ValidNames
<1>3. Shape(l, "INVITE") <=> Good
  BY <1>2 DEF Shape
<1>4. Good => fields[1][1] \in NickName
  BY <1>1, ValidNames
<1> HIDE DEF fields
<1> QED
  BY <1>1, <1>3, <1>4 DEF ParseInvite, Outcome, Command, NotEnough, Throw, Handled, Fit

\* After two fields: what the third one says, if it is asked for.
LEMMA TwoRead ==
  ASSUME NEW m, NEW l \in Seq(Field), ReadTo(m, l, 1), HasToken(m)
  PROVE  LET t == GetToken(m)
         IN  /\ Len(l) > 1 /\ l[2] \in Field /\ l[2] # Blank
             /\ t.token = <<l[2]>> /\ ReadTo(t, l, 2)
             /\ GetToken(t) \in Reader
             /\ HasToken(t) <=> Given(l, 2)
             /\ HasToken(t) => GetToken(t).token = <<l[3]>> /\ ReadTo(GetToken(t), l, 3)
<1>1. Given(l, 1)
  BY NextField
<1>2. Len(l) > 1 /\ l[2] \in Field /\ l[2] # Blank
  BY <1>1 DEF Given
<1>3. GetToken(m).token = <<l[2]>> /\ ReadTo(GetToken(m), l, 2)
  BY <1>2, NextField
<1>4. /\ HasToken(GetToken(m)) <=> Given(l, 2)
      /\ Given(l, 2) => /\ GetToken(GetToken(m)).token = <<l[3]>>
                        /\ ReadTo(GetToken(GetToken(m)), l, 3)
  BY <1>3, NextField DEF Given
<1>5. GetToken(GetToken(m)) \in Reader
  BY <1>3, ReadersRead DEF ReadTo
<1> QED
  BY <1>2, <1>3, <1>4, <1>5

LEMMA JoinHandled ==
  ASSUME NEW m, NEW l \in Seq(Field), ReadTo(m, l, 1)
  PROVE  Handled(ParseJoin(m), l, "JOIN") /\ Handled(ParsePart(m), l, "PART")
<1> DEFINE t == GetToken(m)
           names == WithoutLast(l[2], "")
<1>1. t \in Reader /\ GetToken(t) \in Reader
  BY ReadersRead DEF ReadTo
<1>2. HasToken(m) <=> Given(l, 1)
  BY NextField
<1>3. ASSUME HasToken(m)
      PROVE  Names(t.token) = names /\ (FirstInvalid(names) = "" <=> GoodList(names))
  <2>1. t.token = <<l[2]>> /\ l[2] \in Seq(STRING)
    BY <1>3, TwoRead DEF Field
  <2>2. names \in Seq(STRING)
    BY <2>1, WithoutLastIsSeq
  <2>3. Names(t.token) = names
    BY <2>1 DEF Names
  <2> QED
    BY <2>2, <2>3, NoneInvalid
<1>4. /\ Shape(l, "JOIN") <=> Given(l, 1) /\ GoodList(names)
      /\ Shape(l, "PART") <=> Given(l, 1) /\ GoodList(names)
  BY DEF Shape
<1> HIDE DEF names
<1> QED
  BY <1>1, <1>2, <1>3, <1>4
    DEF ParseJoin, ParsePart, Outcome, Command, NotEnough, Throw, Handled, Fit

LEMMA KickHandled ==
  ASSUME NEW m, NEW l \in Seq(Field), ReadTo(m, l, 1)
  PROVE  Handled(ParseKick(m), l, "KICK")
<1> DEFINE ch == GetToken(m)
           user == GetToken(ch)
           comment == GetMsg(user)
<1>1. ch \in Reader /\ user \in Reader /\ comment \in Reader
  BY ReadersRead DEF ReadTo
<1>2. HasToken(m) <=> Given(l, 1)
  BY NextField
<1>3. HasToken(m) => /\ ch.token = <<l[2]>>
                     /\ HasToken(ch) <=> Given(l, 2)
                     /\ HasToken(ch) => user.token = <<l[3]>>
  BY TwoRead
<1>4. ValidChannelName(l[2]) => l[2] # Blank
  <2>1. Blank[1] = ""
    BY DEF Blank
  <2> QED
    BY <2>1, NameAssumption DEF ValidChannelName
<1>5. Given(l, 2) => Len(l) > 1
  BY LenProperties DEF Given
<1>6. Shape(l, "KICK") <=> Given(l, 1) /\ Given(l, 2) /\ ValidChannelName(l[2])
  BY <1>4, <1>5 DEF Shape, Given
<1> DEFINE said == IF IsMessage(comment.token) THEN comment.token ELSE <<>>
           p == <<ch.token[1], user.token[1]>> \o said
<1>7. HasToken(m) /\ HasToken(ch) => p[1] = ch.token[1]
  <2> SUFFICES ASSUME HasToken(m), HasToken(ch)
               PROVE  p[1] = ch.token[1]
    OBVIOUS
  <2>1. /\ ch.token = <<l[2]>> /\ user.token = <<l[3]>> /\ l[2] \in Field /\ l[3] \in Field
        /\ user \in Reader
    BY TwoRead DEF ReadTo, Given
  <2> HIDE DEF ch, user
  <2>2. comment.token \in Seq(Field)
    <3>1. CASE user.eof
      <4>1. comment.token = <<l[3]>>
        BY <2>1, <3>1 DEF GetMsg
      <4> QED
        BY <2>1, <4>1
    <3>2. CASE ~user.eof
      <4>1. user.stream \in Seq(Field)
        BY <2>1 DEF Reader, Members
      <4>2. comment.token = user.stream
        BY <3>2 DEF GetMsg
      <4> QED
        BY <4>1, <4>2
    <3> QED
      BY <3>1, <3>2
  <2>3. said \in Seq(Field)
    BY <2>2
  <2>4. ch.token[1] \in Field /\ user.token[1] \in Field
    BY <2>1
  <2> HIDE DEF said
  <2> QED
    BY <2>3, <2>4, ConcatProperties
<1> HIDE DEF p, ch, user, comment
<1>8. ParseKick(m) =
        IF ~HasToken(m) THEN NotEnough(ch)
        ELSE IF ~ValidChannelName(ch.token[1]) THEN Throw(ch, "InvalidChannelName")
        ELSE IF ~HasToken(ch) THEN NotEnough(user)
        ELSE Command(comment, "KICK", p)
  BY Zenon DEF ParseKick, p, ch, user, comment
<1> QED
  BY <1>1, <1>2, <1>3, <1>6, <1>7, <1>8
    DEF Outcome, Command, NotEnough, Throw, Handled, Fit

\* The channel of a MODE need not have a channel name, and nothing is asked of what
\* stands behind a flag.
LEMMA ModeHandled ==
  ASSUME NEW m, NEW l \in Seq(Field), ReadTo(m, l, 1)
  PROVE  Handled(ParseMode(m), l, "MODE")
<1> DEFINE ch   == GetToken(m)
           mode == GetToken(ch)
           nick == GetToken(mode)
           word == mode.token[1][1]
           bare == Len(mode.token[1]) = 1
           Flagged == Len(l[3]) = 1 /\ l[3][1] \in DOMAIN Flag
           Roled   == Len(l[3]) = 1 /\ l[3][1] \in DOMAIN Role
           Named   == Given(l, 3) /\ ValidNickName(l[4])
<1>1. ch \in Reader /\ mode \in Reader /\ nick \in Reader
  BY ReadersRead DEF ReadTo
<1>2. HasToken(m) <=> Given(l, 1)
  BY NextField
<1>3. HasToken(m) => /\ ch.token = <<l[2]>>
                     /\ HasToken(ch) <=> Given(l, 2)
  BY TwoRead
<1>4. ASSUME HasToken(m), HasToken(ch)
      PROVE  /\ bare /\ word \in DOMAIN Flag <=> Flagged
             /\ bare /\ word \in DOMAIN Role <=> Roled
             /\ HasToken(mode) <=> Given(l, 3)
             /\ HasToken(mode) => nick.token = <<l[4]>> /\ l[4] \in Field
  <2>1. ReadTo(mode, l, 3) /\ mode.token = <<l[3]>>
    BY <1>4, TwoRead
  <2>2. HasToken(mode) <=> Given(l, 3)
    BY <2>1, NextField
  <2>3. Given(l, 3) => Len(l) > 3 /\ l[4] \in Field
    BY DEF Given
  <2>4. Len(l) > 3 => nick.token = <<l[4]>>
    <3>1. Len(l) > 3 => nick.token = <<l[3+1]>>
      BY <2>1, NextField
    <3> QED
      BY <3>1
  <2> QED
    BY <2>1, <2>2, <2>3, <2>4
<1>5. Shape(l, "MODE") <=> /\ Given(l, 1) /\ l[2][1] \in ChannelName \cup BadChannel
                           /\ Given(l, 2)
                           /\ Flagged \/ (Roled /\ Named)
  BY DEF Shape
<1>6. l[4] \in Field /\ ValidNickName(l[4]) => l[4][1] \in NickName
  BY ValidNames
<1>7. ParseMode(m) =
        IF ~HasToken(m) THEN NotEnough(ch)
        ELSE IF ch.token[1][1] \notin ChannelName \cup BadChannel THEN Throw(ch, "UnHandledMode")
        ELSE IF HasToken(ch) /\ bare /\ word \in DOMAIN Flag
          THEN Command(mode, "MODE", <<ch.token[1], Flag[word]>>)
        ELSE IF ~(HasToken(ch) /\ bare /\ word \in DOMAIN Role) THEN Throw(mode, "UnHandledMode")
        ELSE IF ~HasToken(mode) THEN NotEnough(nick)
        ELSE IF ~ValidNickName(nick.token[1]) THEN Throw(nick, "InvalidNickName")
        ELSE Command(nick, "MODE", <<ch.token[1], Role[word], nick.token[1]>>)
  BY Zenon DEF ParseMode
<1> HIDE DEF ch, mode, nick, word, bare, Flagged, Roled
<1>8. CASE ~HasToken(m) \/ ch.token[1][1] \notin ChannelName \cup BadChannel
  BY <1>1, <1>2, <1>3, <1>5, <1>7, <1>8 DEF Outcome, NotEnough, Throw, Handled, Fit
<1>9. CASE HasToken(m) /\ ch.token[1][1] \in ChannelName \cup BadChannel
  <2>1. ParseMode(m) =
          IF HasToken(ch) /\ Flagged THEN Command(mode, "MODE", <<ch.token[1], Flag[word]>>)
          ELSE IF ~(HasToken(ch) /\ Roled) THEN Throw(mode, "UnHandledMode")
          ELSE IF ~Given(l, 3) THEN NotEnough(nick)
          ELSE IF ~ValidNickName(l[4]) THEN Throw(nick, "InvalidNickName")
          ELSE Command(nick, "MODE", <<ch.token[1], Role[word], l[4]>>)
    BY <1>4, <1>7, <1>9
  <2>2. Shape(l, "MODE") <=> HasToken(ch) /\ (Flagged \/ (Roled /\ Named))
    BY <1>2, <1>3, <1>5, <1>9
  <2>3. CASE HasToken(ch) /\ Flagged
    <3>1. ParseMode(m) = Command(mode, "MODE", <<ch.token[1], Flag[word]>>)
      BY <2>1, <2>3
    <3> QED
      BY <1>1, <2>2, <2>3, <3>1 DEF Outcome, Command, Handled, Fit
  <2>4. CASE ~Flagged /\ HasToken(ch) /\ Roled /\ Named
    <3> DEFINE p == <<ch.token[1], Role[word], l[4]>>
    <3>1. p[3][1] \in NickName
      BY <1>4, <1>6, <1>9, <2>4
    <3>2. ParseMode(m) = Command(nick, "MODE", p)
      BY <2>1, <2>4
    <3> HIDE DEF p, Named
    <3> QED
      BY <1>1, <2>2, <2>4, <3>1, <3>2 DEF Outcome, Command, Handled, Fit
  <2>5. CASE ~(HasToken(ch) /\ (Flagged \/ (Roled /\ Named)))
    <3>1. \/ ParseMode(m) = Throw(mode, "UnHandledMode")
          \/ ParseMode(m) = NotEnough(nick)
          \/ ParseMode(m) = Throw(nick, "InvalidNickName")
      BY <2>1, <2>5
    <3>2. ~Shape(l, "MODE")
      BY <2>2, <2>5
    <3> QED
      BY <1>1, <3>1, <3>2 DEF Outcome, NotEnough, Throw, Handled, Fit
  <2> QED
    BY <2>3, <2>4, <2>5
<1> QED
  BY <1>8, <1>9

\* Without a parameter there is a command all the same.
LEMMA TopicHandled ==
  ASSUME NEW m, NEW l \in Seq(Field), ReadTo(m, l, 1)
  PROVE  Handled(ParseTopic(m), l, "TOPIC")
<1> DEFINE ch == GetToken(m)
           topic == GetMsg(ch)
           said == HasMsg(ch) /\ IsMessage(topic.token)
           p == <<ch.token[1]>> \o topic.token
<1>1. ch \in Reader /\ topic \in Reader
  BY ReadersRead DEF ReadTo
<1>2. HasToken(m) <=> Given(l, 1)
  BY NextField
<1>3. HasToken(m) => ch.token = <<l[2]>> /\ (said <=> Spoken(l, 2))
  BY TwoRead, NextMsg
<1>4. Shape(l, "TOPIC") <=> (Given(l, 1) => ValidChannelName(l[2]) /\ Spoken(l, 2))
  BY DEF Shape
<1>5. HasToken(m) /\ said => p[1] = ch.token[1]
  <2>1. HasToken(m) => ch.token[1] \in Field
    BY TwoRead
  <2>2. HasToken(m) /\ said => topic.token \in Seq(Field)
    BY TwoRead, NextMsg
  <2> HIDE DEF ch, topic, said
  <2> QED
    BY <2>1, <2>2, ConcatProperties
<1> HIDE DEF ch, topic, said, p
<1>6. ParseTopic(m) =
        IF ~HasToken(m) THEN Command(ch, "TOPIC", Null)
        ELSE IF ~ValidChannelName(ch.token[1]) THEN Throw(ch, "InvalidChannelName")
        ELSE IF ~said THEN NotEnough(topic)
        ELSE Command(topic, "TOPIC", p)
  BY Zenon DEF ParseTopic, ch, topic, said, p
<1> QED
  BY <1>1, <1>2, <1>3, <1>4, <1>5, <1>6
    DEF Outcome, Command, NotEnough, Throw, Handled, Fit

\* A PRIVMSG may become a BOT, which is a command all the same.
LEMMA TalkHandled ==
  ASSUME NEW m, NEW l \in Seq(Field), ReadTo(m, l, 1)
  PROVE  Handled(ParsePrivmsg(m), l, "PRIVMSG") /\ Handled(ParseNotice(m), l, "NOTICE")
<1>1. GetToken(m) \in Reader /\ GetMsg(GetToken(m)) \in Reader
  BY ReadersRead DEF ReadTo
<1>2. HasToken(m) <=> Given(l, 1)
  BY NextField
<1>3. HasToken(m) =>
        (HasMsg(GetToken(m)) /\ IsMessage(GetMsg(GetToken(m)).token) <=> Spoken(l, 2))
  BY TwoRead, NextMsg
<1> QED
  BY <1>1, <1>2, <1>3
    DEF ParsePrivmsg, ParseNotice, Outcome, Command, NotEnough, Throw, Handled, Fit, Shape

-----------------------------------------------------------------------------
(* parse. *)

LEMMA FreshMembers == Fresh \in Members
<1>1. <<Blank>> \in Token
  BY DEF Token
<1> QED
  BY <1>1, EmptySeq DEF Fresh, Members

\* clear and str put the end of the last line out of the way: the first field of l is
\* read, whatever the members were.
LEMMA FirstRead ==
  ASSUME NEW m \in Members, NEW l \in Line
  PROVE  LET first == GetToken(Load(m, l))
         IN  /\ first = [stream |-> Tail(l), eof |-> Len(l) = 1, token |-> <<l[1]>>]
             /\ first.eof <=> Len(l) = 1
             /\ first \in Reader
<1> DEFINE first == [stream |-> Tail(l), eof |-> Len(l) = 1, token |-> <<l[1]>>]
<1>1. l \in Seq(Field) /\ l # <<>> /\ Len(l) > 0 /\ Head(l) = l[1]
  BY LineAssumption, LenProperties, EmptySeq
<1>2. Load(m, l).stream = l /\ ~Load(m, l).eof /\ Load(m, l) \in Reader
  BY <1>1 DEF Load, Reader, Members
<1>3. GetToken(Load(m, l)) = first
  BY <1>1, <1>2 DEF GetToken
<1>4. GetToken(Load(m, l)) \in Reader
  BY <1>2, ReadersRead
<1>5. first.eof <=> Len(l) = 1
  OBVIOUS
<1> QED
  BY <1>3, <1>4, <1>5, Zenon

LEMMA WordRead ==
  ASSUME NEW m \in Members, NEW l \in Line
  PROVE  /\ ReadWord(m, l) = ReadWord(Fresh, l)
         /\ ReadWord(m, l).token = <<ToUpperCase(l[1])>>
         /\ ReadTo(ReadWord(m, l), l, 1)
<1> DEFINE first == GetToken(Load(m, l))
<1>1. GetToken(Load(Fresh, l)) = first
  BY FirstRead, FreshMembers, Zenon
<1>2. /\ first.stream = Tail(l) /\ first.token = <<l[1]>>
      /\ first.eof <=> Len(l) = 1
      /\ first \in Reader
  BY FirstRead
<1>3. l \in Seq(Field) /\ l # <<>> /\ l[1] \in Field /\ Len(l) \in Nat /\ Len(l) > 0
  BY LineAssumption, LenProperties, EmptySeq
<1>4. /\ Len(Tail(l)) = Len(l) - 1
      /\ \A i \in 1..Len(Tail(l)) : Tail(l)[i] = l[i+1]
  BY <1>3, HeadTailProperties
<1> HIDE DEF first
<1>5. ReadWord(m, l) = [first EXCEPT !.token = <<ToUpperCase(l[1])>>]
  BY <1>2 DEF ReadWord, first
<1>6. ReadWord(Fresh, l) = [first EXCEPT !.token = <<ToUpperCase(l[1])>>]
  BY <1>1, <1>2 DEF ReadWord
<1>7. <<ToUpperCase(l[1])>> \in Token
  BY <1>3 DEF Token
<1>8. /\ ReadWord(m, l).stream = Tail(l) /\ ReadWord(m, l).eof = first.eof
      /\ ReadWord(m, l).token = <<ToUpperCase(l[1])>>
      /\ ReadWord(m, l) \in Reader
  BY <1>2, <1>5, <1>7 DEF Reader, Members
<1>9. ReadTo(ReadWord(m, l), l, 1)
  <2>1. \A j \in 1..Len(Tail(l)) : Tail(l)[j] = l[1+j]
    BY <1>3, <1>4
  <2>2. 1 \in 1..Len(l) /\ ~(1 > 1)
    BY <1>3
  <2> QED
    BY <1>2, <1>4, <1>8, <2>1, <2>2 DEF ReadTo
<1> QED
  BY <1>5, <1>6, <1>8, <1>9

LEMMA Parsed ==
  ASSUME NEW m \in Members, NEW l \in Line
  PROVE  LET o    == Parse(m, l)
             word == ToUpperCase(l[1])
         IN  /\ o.left \in Reader
             /\ o.value.kind = "command" <=> Len(word) = 1 /\ Shape(l, word[1])
             /\ o.value.kind = "command" =>
                  word = <<IF o.value.type = "BOT" THEN "PRIVMSG" ELSE o.value.type>>
             /\ Fit(o.value)
<1> DEFINE o    == Parse(m, l)
           t    == ReadWord(m, l)
           name == ToUpperCase(l[1])
           word == IF Len(name) = 1 THEN name[1] ELSE ""
           Words == {"QUIT", "PASS", "USER", "NICK", "JOIN", "PART", "MODE", "INVITE", "KICK",
                     "TOPIC", "PRIVMSG", "NOTICE", "PING"}
<1>1. ReadTo(t, l, 1) /\ t.token[1] = name /\ l \in Seq(Field)
  BY WordRead, LineAssumption
<1>2. o = Handle(t, word)
  BY <1>1, Zenon DEF Parse
<1>3. Len(name) = 1 => name = <<name[1]>>
  <2>1. l[1] \in Field
    BY LineAssumption, EmptySeq
  <2> QED
    BY <2>1, OneName DEF ToUpperCase
<1> HIDE DEF o, t, name, word
<1>4. CASE word \in Words
  <2>1. Handled(Handle(t, word), l, word)
    BY <1>1, <1>4, QuitHandled, PassHandled, UserHandled, NickHandled, JoinHandled,
       ModeHandled, InviteHandled, KickHandled, TopicHandled, TalkHandled DEF Handle
  <2>2. Len(name) = 1 /\ name[1] = word /\ name = <<word>>
    BY <1>3, <1>4 DEF word
  <2> QED
    BY <1>2, <2>1, <2>2 DEF Handled, name, o
<1>5. CASE word \notin Words
  <2>1. ~Shape(l, word)
    BY <1>5 DEF Shape
  <2>2. o = Outcome(t, "dropped", word, Null) \/ o = Throw(t, "UnknownCommand")
    BY <1>2, <1>5 DEF Handle
  <2>3. o.left \in Reader /\ o.value.kind # "command" /\ Fit(o.value)
    BY <1>1, <2>2 DEF Outcome, Throw, Fit, ReadTo
  <2>4. Len(name) = 1 => ~Shape(l, name[1])
    BY <2>1 DEF word
  <2> QED
    BY <2>3, <2>4 DEF name, o
<1> QED
  BY <1>4, <1>5

-----------------------------------------------------------------------------
(* The theorems. *)

\* What the members are between two calls of parse, whatever the lines were.
MembersInv == members \in Members

LEMMA MembersStay == Spec => []MembersInv
<1>1. Init => MembersInv
  BY FreshMembers DEF Init, MembersInv
<1>2. MembersInv /\ [Next]_vars => MembersInv'
  BY Parsed DEF MembersInv, Next, vars, Reader
<1> QED
  BY <1>1, <1>2, PTL DEF Spec

\* The one Parser of all clients carries nothing from one line to the next: what a
\* line is parsed as is what it would be parsed as by a Parser just constructed, for
\* every set of lines, although Parser::tokenStream and Parser::token are members and
\* some handlers look at a token that getline has left alone.
THEOREM Alone == Spec => LineAlone
<1>1. MembersInv /\ [Next]_vars => [result' = Parse(Fresh, line').value]_vars
  <2> SUFFICES ASSUME MembersInv, NEW l \in Line, line' = l, result' = Parse(members, l).value
               PROVE  result' = Parse(Fresh, line').value
    BY DEF Next, vars
  <2>1. ReadWord(members, l) = ReadWord(Fresh, l)
    BY WordRead DEF MembersInv
  <2>2. Parse(members, l) = Parse(Fresh, l)
    BY <2>1, Zenon DEF Parse
  <2> QED
    BY <2>2
<1> QED
  BY <1>1, MembersStay, PTL DEF Spec, LineAlone

\* A line becomes a command exactly when it has the shape of one, and the command has
\* the type its word names.
THEOREM ShapesUnderstood == Spec => Understood
<1> DEFINE A == LET word == ToUpperCase(line'[1])
                IN  /\ result'.kind = "command" <=> Len(word) = 1 /\ Shape(line', word[1])
                    /\ result'.kind = "command" =>
                         word = <<IF result'.type = "BOT" THEN "PRIVMSG" ELSE result'.type>>
<1>1. MembersInv /\ [Next]_vars => [A]_vars
  <2> SUFFICES ASSUME MembersInv, NEW l \in Line, line' = l, result' = Parse(members, l).value
               PROVE  A
    BY DEF Next, vars
  <2> QED
    BY Parsed DEF MembersInv
<1> QED
  BY <1>1, MembersStay, PTL DEF Spec, Understood

\* The names Executor takes for granted in a command: nicknames where it takes a
\* nickname, channel names where it invites to, kicks from or gives a topic, and in a
\* list up to an empty name.
THEOREM Fitting == Spec => NamesFit
<1>1. MembersInv /\ [Next]_vars => [Fit(result')]_vars
  <2> SUFFICES ASSUME MembersInv, NEW l \in Line, line' = l, result' = Parse(members, l).value
               PROVE  Fit(result')
    BY DEF Next, vars
  <2> QED
    BY Parsed DEF MembersInv
<1>2. [][Fit(result')]_vars <=> NamesFit
  BY DEF Fit, NamesFit
<1> QED
  BY <1>1, <1>2, MembersStay, PTL DEF Spec
=============================================================================
