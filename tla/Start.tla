------------------------------- MODULE Start --------------------------------
(***************************************************************************)
(* How the server starts: Env::parse (src/src/core/Server.cpp) tests the   *)
(* program's arguments, with Parser::validPassword, and                    *)
(* ListenSocket::createSocket (src/src/core/Socket.cpp) binds the port,    *)
(* trying again for as long as another process has it.                     *)
(*                                                                         *)
(* The port argument is what strtod makes of it: a number, given here in   *)
(* tenths, since an exponent makes a fraction without a point, or "nan";   *)
(* whether it contains a point; and whether something follows the number.  *)
(* A password is a sequence of characters that are printable ASCII, white  *)
(* space, or not ASCII.                                                    *)
(***************************************************************************)
EXTENDS Integers, Sequences

CONSTANTS
  NaN,        \* what strtod returns for "nan"
  MaxLength   \* bound: the longest password tried

VARIABLES
  argc,       \* the number of arguments, the program's name included
  portArg,    \* argv[1]
  password,   \* argv[2], then Env::password
  port,       \* Env::port, or 0 before it is set
  taken,      \* ports in use by other processes
  phase       \* "init", "bind", "listening", or "refused": main returned

vars == <<argc, portArg, password, port, taken, phase>>

\* Numbers at the two ends of the range, in tenths, and one for "inf".
Tenths  == {-10250, 0, 10249, 10250, 10255, 655350, 655351, 655360, 10000000}
PortArg == [number : Tenths \cup {NaN}, point : BOOLEAN, rest : BOOLEAN]

\* Passwords with one odd character at most.
Passwords ==
  {[i \in 1..n |-> IF i = k THEN odd ELSE "plain"] :
     n \in 0..MaxLength, k \in 1..MaxLength, odd \in {"plain", "space", "byte"}}

-----------------------------------------------------------------------------
\* Env::parse compares with < and >, and both are false of a NaN.
InRange(d) == d \in 10250..655350 \cup {NaN}

\* static_cast<int>: the fraction is cut off.  That of a NaN is undefined; the
\* compilers' instructions give the smallest int or 0.
AsInt(d) == IF d = NaN THEN {-2147483647 - 1, 0} ELSE {d \div 10}

\* Parser::validPassword; the loop starts at the second character.
ValidPassword(p) ==
  /\ Len(p) >= 3 /\ Len(p) <= 10
  /\ \A i \in 2..Len(p) : p[i] = "plain"

Accepted ==
  /\ argc = 3
  /\ ~portArg.point
  /\ ~portArg.rest /\ InRange(portArg.number)
  /\ ValidPassword(password)

\* Server::init; whatever parse throws, main catches and returns.
Parse ==
  /\ phase = "init"
  /\ \/ Accepted /\ port' \in AsInt(portArg.number) /\ phase' = "bind"
     \/ ~Accepted /\ port' = port /\ phase' = "refused"
  /\ UNCHANGED <<argc, portArg, password, taken>>

\* One turn of the loop around bind; htons takes the low 16 bits, and for port 0
\* the kernel finds a free one.
Bind ==
  /\ phase = "bind"
  /\ (port % 65536) \notin taken
  /\ phase' = "listening"
  /\ UNCHANGED <<argc, portArg, password, port, taken>>

\* Another process gives its port free.
Release == \E p \in taken :
  taken' = taken \ {p} /\ UNCHANGED <<argc, portArg, password, port, phase>>

Init ==
  /\ argc \in 2..4
  /\ portArg \in PortArg
  /\ password \in Passwords
  /\ port = 0
  /\ taken \in SUBSET {1025}
  /\ phase = "init"

Next == Parse \/ Bind \/ Release

Spec == Init /\ [][Next]_vars

-----------------------------------------------------------------------------
\* "<port(1025 ~ 65535)>" and "<length 3~9, ascii, and non-isspace>": a server that
\* listens was given a port and a password as the messages of Env::parse ask for.
\* A password of ten characters, one that begins with a space (which no PASS can
\* give, since parsePass splits at spaces) or with a byte that is not ASCII, and the
\* port "nan" are accepted as well.
ArgumentsAsHinted ==
  phase = "listening" =>
    /\ port \in 1025..65535
    /\ Len(password) \in 3..9
    /\ \A i \in DOMAIN password : password[i] = "plain"
=============================================================================
