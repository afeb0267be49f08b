------------------------------ MODULE Framing ------------------------------
(***************************************************************************)
(* How the bytes of a connection become lines: Server::parse up to the     *)
(* parser, with ConnectSocket::readRecvBuf (src/src/core/Socket.cpp) and   *)
(* the two split functions (src/src/core/utility.cpp).  TCP delivers what  *)
(* a peer sent in order but cut anywhere, also inside a CR LF.             *)
(*                                                                         *)
(* A peer ends each line with CR LF or with LF; most end all lines alike.  *)
(* The text of a line is a sequence of a few symbols.  (A NUL byte, which  *)
(* would cut off what was received with it, is not sent.)                  *)
(***************************************************************************)
EXTENDS Naturals, SequencesExt, FiniteSetsExt

CONSTANTS
  Text,       \* the symbols of the text of a line
  MaxLength,  \* bound: the longest text of a line
  MaxLines,   \* bound: the number of lines a peer sends
  BufSize     \* BUF_SIZE, the most that one recv returns

ASSUME TextAssumption == Text \cap {"CR", "LF"} = {}
ASSUME SizeAssumption == MaxLength \in Nat /\ MaxLines \in Nat /\ BufSize \in Nat \ {0}

VARIABLES
  lines,      \* the lines the peer sends
  endings,    \* how it ends each of them
  stream,     \* the same as bytes
  received,   \* how many of them recv has returned
  recvBuf,    \* ConnectSocket::recv_buf
  delimiter,  \* ConnectSocket::delimiter
  parsed      \* the lines given to Parser::parse so far

vars == <<lines, endings, stream, received, recvBuf, delimiter, parsed>>

Ending == [CRLF |-> <<"CR", "LF">>, LF |-> <<"LF">>]

\* Where delimiter d occurs in s; two occurrences do not overlap.
Occurrences(s, d) ==
  LET e == Ending[d]
  IN  {i \in 1..Len(s) : i + Len(e) - 1 <= Len(s) /\ SubSeq(s, i, i + Len(e) - 1) = e}

-----------------------------------------------------------------------------
\* The pieces of s between occurrences of d, as the loops over find and getline take
\* them, each from behind the last one; there is one more than occurrences.
Pieces(s, d) ==
  LET found == Occurrences(s, d)
      from[i \in 1..(Len(s) + 1)] ==
        LET next == {j \in found : j >= i}
        IN  IF next = {} THEN <<SubSeq(s, i, Len(s))>>
            ELSE <<SubSeq(s, i, Min(next) - 1)>> \o from[Min(next) + Len(Ending[d])]
  IN  from[1]

\* split(string, string) returns every piece.  split(string, char) reads with
\* getline, which finds nothing behind the last delimiter, or in an empty string.
Split(s, d) ==
  LET p == Pieces(s, d)
  IN  IF d = "LF" /\ Last(p) = <<>> THEN Front(p) ELSE p

\* ConnectSocket::readRecvBuf: everything before the last CR LF, or before the
\* last LF if there is no CR LF; nothing if there is neither.
FoundAt_First(buf, d) == Min(Occurrences(buf, d))     \* mutant: find, not rfind
FoundAt(buf, d) == Max(Occurrences(buf, d))

Behind_Cleared(buf, d) == <<>>              \* mutant: recv_buf is emptied
Behind_One(buf, d) ==                       \* mutant: one byte is skipped, not two
  SubSeq(buf, FoundAt(buf, d) + 1, Len(buf))
Behind(buf, d) == SubSeq(buf, FoundAt(buf, d) + Len(Ending[d]), Len(buf))

ReadRecvBuf(buf) ==
  LET d == IF Occurrences(buf, "CRLF") # {} THEN "CRLF" ELSE "LF"
  IN  IF Occurrences(buf, d) = {}
      THEN [line |-> <<>>, rest |-> buf, delimiter |-> delimiter]
      ELSE [line |-> SubSeq(buf, 1, FoundAt(buf, d) - 1),
            rest |-> Behind(buf, d), delimiter |-> d]

\* Server::parse, when recv returns n bytes.
Parse(n) ==
  LET buf  == recvBuf \o SubSeq(stream, received + 1, received + n)
      read == ReadRecvBuf(buf)
  IN  /\ recvBuf'   = read.rest
      /\ delimiter' = read.delimiter
      /\ parsed'    = parsed \o Split(read.line, read.delimiter)
      /\ received'  = received + n
      /\ UNCHANGED <<lines, endings, stream>>

\* Nothing gives delimiter a value before the first line is found.
Init ==
  /\ \E k \in 1..MaxLines :
       /\ lines \in [1..k -> BoundedSeq(Text, MaxLength)]
       /\ endings \in [1..k -> {"CRLF", "LF"}]
       /\ stream = FlattenSeq([i \in 1..k |-> lines[i] \o Ending[endings[i]]])
  /\ received = 0
  /\ recvBuf = <<>>
  /\ delimiter \in {"CRLF", "LF"}
  /\ parsed = <<>>

Next == \E n \in 1..BufSize : received + n <= Len(stream) /\ Parse(n)

Spec == Init /\ [][Next]_vars

-----------------------------------------------------------------------------
Ended       == {i \in 1..received : stream[i] = "LF"}
Complete    == Cardinality(Ended)
Commands(s) == FlattenSeq([i \in 1..Len(s) |-> IF s[i] = <<>> THEN <<>> ELSE <<s[i]>>])

Alike == \A i, j \in DOMAIN endings : endings[i] = endings[j]

\* However the bytes are cut, the commands parsed for a peer that ends its lines
\* alike are those whose lines have arrived in full: each of them, once, in order,
\* and unchanged.
LinesWhole == Alike => Commands(parsed) = Commands(SubSeq(lines, 1, Complete))

\* A peer that mixes the two gets less: the last CR LF decides where a read is cut
\* and how it is split, so lines ended with LF are joined with the line behind them
\* or wait with what is behind the cut.  But every symbol is parsed or waits, once
\* and in order, and no line is cut: what was parsed, up to any of its pieces, is
\* the text of whole lines that have arrived.
TextOf(s) == FlattenSeq([i \in 1..Len(s) |-> IF s[i] \in Text THEN <<s[i]>> ELSE <<>>])

NothingLost ==
  /\ TextOf(FlattenSeq(parsed) \o recvBuf) = TextOf(SubSeq(stream, 1, received))
  /\ \A k \in 0..Len(parsed) : \E n \in 0..Complete :
       TextOf(FlattenSeq(SubSeq(parsed, 1, k))) = FlattenSeq(SubSeq(lines, 1, n))

\* What waits in the buffer for a peer that ends its lines alike is what came behind
\* the last complete line: it will not be parsed again with a later read, nor is it
\* lost to an earlier one.
TailKept == Alike => recvBuf = SubSeq(stream, Max(Ended \cup {0}) + 1, received)

\* "parse commandlines in connect_sockets": every line that is parsed, and answered
\* if it is no command, is a line the peer has sent.  A read that completes no line
\* yields an empty one, if the last delimiter was CR LF.
NothingInvented == Len(parsed) <= Complete
=============================================================================
