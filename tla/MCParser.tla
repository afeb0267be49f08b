------------------------------ MODULE MCParser ------------------------------
(***************************************************************************)
(* The lines Parser is checked with: each command word, and others, with   *)
(* up to two parameters of every kind, and longer ones where a command has *)
(* a third parameter or counts them.                                       *)
(***************************************************************************)
EXTENDS Parser

Word ==
  {"QUIT", "quit", "PASS", "USER", "NICK", "JOIN", "PART", "MODE", "INVITE", "KICK", "TOPIC",
   "PRIVMSG", "NOTICE", "PING", "CAP", "HELLO", ""}

Parameter ==
  {<<n>> : n \in {"", "+O", "-T", "9"} \cup ChannelName \cup BadChannel \cup NickName \cup Message}
  \cup {<<"#A", "#B">>, <<"#A", "">>, <<"", "">>, <<"", "#BAD">>, <<"#A", "#BAD">>}

Third  == {<<"">>, <<"ANN">>, <<"9">>, <<":HI">>}

MCLine ==
  {<<<<w>>>> : w \in Word}
  \cup {<<<<w>>, p>> : w \in Word, p \in Parameter}
  \cup {<<<<w>>, p, q>> : w \in Word, p \in Parameter, q \in Parameter}
  \cup {<<<<w>>, <<"#A">>, p, q>> : w \in {"MODE", "KICK", "TOPIC", "NOTICE", "PRIVMSG"},
                                    p \in {<<"+O">>, <<"-T">>, <<"ANN">>, <<":!HELP">>}, q \in Third}
  \cup {<<<<w>>, <<"ANN">>, p, q>> : w \in {"INVITE", "NICK"},
                                     p \in {<<"#A">>, <<"">>}, q \in Third}
  \cup {<<<<"USER">>>> \o [i \in 1..n |-> <<"ANN">>] \o tail :
          n \in 3..6, tail \in {<<>>, <<Blank>>, <<Blank, Blank>>}}

\* What is left of the last line besides the members is output.
MembersView == members
=============================================================================
