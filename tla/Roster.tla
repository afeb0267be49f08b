------------------------------- MODULE Roster -------------------------------
(***************************************************************************)
(* Executor with what its clients know.  A client learns who is on its     *)
(* channels, and who of them are operators, from nothing but the messages  *)
(* it is sent: the names in the reply to its own JOIN (353), and then the  *)
(* JOIN, PART, KICK, QUIT, NICK and MODE of others.  view is what a client *)
(* that listens to all of them believes.                                   *)
(*                                                                         *)
(* The server does not keep this record; whether it could be kept depends  *)
(* on what each handler sends, to whom, and on whether it is sent before   *)
(* or after the channel is changed.                                        *)
(***************************************************************************)
EXTENDS Executor

VARIABLES
  view,    \* what each client believes of each channel: a role per nickname
  ghosts   \* the nicknames a channel is believed to have for want of a message

rosterState == <<vars, view, ghosts>>

Nothing == [n \in Nick |-> "none"]

-----------------------------------------------------------------------------
(* The names in the reply to a JOIN: all who are then in the two sets of    *)
(* the channel, those included that have quit and are not deleted yet.      *)

Named353_Regulars(ch, n) ==           \* mutant: the operators are not marked
  IF \E c \in Members(ch)' : nickname[c] = n THEN "regular" ELSE "none"
Named353(ch, n) ==
  IF \E c \in operators'[ch] : nickname[c] = n THEN "operator"
  ELSE IF \E c \in regulars'[ch] : nickname[c] = n THEN "regular" ELSE "none"

JoinReponse(ch) == [n \in Nick |-> Named353(ch, n)]

-----------------------------------------------------------------------------
(* What a client makes of the messages of one command.  A message shows the *)
(* nickname its sender had before the command.                              *)

Heard(d, cmd, ch) == {m \in sendBuf'[d] : m.cmd = cmd /\ m.chan = ch}

\* Those who are reported to have left channel ch.
Leavers(d, ch) ==
  {nickname[m.from] : m \in Heard(d, "PART", ch) \cup Heard(d, "QUIT", NoChannel)}
  \cup {m.arg : m \in Heard(d, "KICK", ch)}

Arrivals(d, ch) == {nickname[m.from] : m \in Heard(d, "JOIN", ch)}

\* A changed nickname takes its role along.
Renamed(d, roles) ==
  LET Old(n) == {nickname[m.from] : m \in {k \in Heard(d, "NICK", NoChannel) : k.arg = n}}
      taken  == {nickname[m.from] : m \in Heard(d, "NICK", NoChannel)}
  IN  [n \in Nick |-> IF \E o \in Old(n) : roles[o] # "none"
                      THEN roles[CHOOSE o \in Old(n) : roles[o] # "none"]
                      ELSE IF n \in taken THEN "none" ELSE roles[n]]

\* Marks of those who are not known to be on the channel mean nothing.
Marked(d, ch, roles) ==
  [n \in Nick |->
     IF roles[n] = "none" THEN "none"
     ELSE IF \E m \in Heard(d, "+o", ch) : m.arg = n THEN "operator"
     ELSE IF \E m \in Heard(d, "-o", ch) : m.arg = n THEN "regular" ELSE roles[n]]

Update(d, ch) ==
  IF nickname[d] \in Arrivals(d, ch)
  THEN IF Heard(d, "353", ch) = {} THEN Nothing ELSE JoinReponse(ch)
  ELSE IF nickname[d] \in Leavers(d, ch) \/ view[d][ch] = Nothing THEN Nothing
  ELSE LET roles == [n \in Nick |-> IF n \in Arrivals(d, ch) THEN "regular"
                                    ELSE IF n \in Leavers(d, ch) THEN "none"
                                    ELSE view[d][ch][n]]
       IN  Marked(d, ch, Renamed(d, roles))

-----------------------------------------------------------------------------
(* Two things are reported to nobody: the deletion of a client whose        *)
(* connection ended without QUIT, and, to those who were told of a member   *)
(* by a 353 after its QUIT, that it is gone.                                *)

Unreported(ch) ==
  {nickname[c] : c \in {d \in Members(ch) \ Members(ch)' :
                          status[d] = "REGISTER" /\ status'[d] = "FREE"}}
  \cup {nickname[c] : c \in {d \in Members(ch) :
                          status[d] = "TERMINATE" /\ Members(ch)' \ Members(ch) # {}}}

\* A ghost is renamed with the client that takes its nickname.
Ghosts(ch) ==
  LET all == ghosts[ch] \cup Unreported(ch)
  IN  all \cup {nickname'[c] : c \in {d \in Client : status[d] = "REGISTER" /\ nickname[d] \in all}}

RosterInit ==
  /\ Init
  /\ view = [d \in Client |-> [ch \in Channel |-> Nothing]]
  /\ ghosts = [ch \in Channel |-> {}]

\* A client that quits does not look at what it is sent after that.
Observe ==
  /\ view' = [d \in Client |-> [ch \in Channel |->
                IF status'[d] = "REGISTER" THEN Update(d, ch) ELSE Nothing]]
  /\ ghosts' = [ch \in Channel |->
                  {n \in Ghosts(ch) \ {NoNick} : \E d \in Client : view'[d][ch][n] # "none"}]

RosterNext == Next /\ Observe

RosterSpec == RosterInit /\ [][RosterNext]_rosterState

-----------------------------------------------------------------------------
Registered(ch) == {c \in Members(ch) : status[c] = "REGISTER"}

\* A client knows which channels it is on, although it is put on a channel and
\* taken off it by other clients' commands as well: it believes itself on those,
\* and on no other.
KnowsWhere ==
  \A d \in Client, ch \in Channel :
    status[d] = "REGISTER" => (view[d][ch] # Nothing <=> d \in Members(ch))

\* Every member knows every other member by its present nickname and its present
\* role, whatever the order in which they came, were renamed, promoted, demoted,
\* and whatever went before under the same nickname.
MembersKnown ==
  \A ch \in Channel : \A d, e \in Registered(ch) :
    view[d][ch][nickname[e]] = Role(ch, e)

\* And believes in nobody else: a name it has for the channel is that of a member,
\* unless a member under that name went without a word, by the end of its
\* connection, or was shown in a 353 after it had quit.
NobodyInvented ==
  \A ch \in Channel : \A d \in Registered(ch), n \in Nick :
    view[d][ch][n] # "none" =>
      n \in ghosts[ch] \/ \E e \in Registered(ch) : nickname[e] = n

\* The inductive invariant behind these: with them, that a view is a table of roles,
\* and empty where its owner is not, or not any more, or not yet.
OutsideNothing ==
  \A d \in Client, ch \in Channel :
    ~(status[d] = "REGISTER" /\ d \in Members(ch)) => view[d][ch] = Nothing

ViewInv ==
  /\ view \in [Client -> [Channel -> [Nick -> {"none", "regular", "operator"}]]]
  /\ OutsideNothing /\ MembersKnown /\ NobodyInvented
=============================================================================
