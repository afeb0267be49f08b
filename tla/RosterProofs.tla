---------------------------- MODULE RosterProofs ----------------------------
(***************************************************************************)
(* What a client can tell from its messages, proved: Roster's invariants   *)
(* for every set of clients, channels and nicknames.  First what a client  *)
(* makes of one message, then what of that is right after a step, and last *)
(* the messages of each handler.                                           *)
(***************************************************************************)
EXTENDS ExecutorActions, Roster

-----------------------------------------------------------------------------
(* What one message does to a view. *)

\* The messages that change a view, and those of them a client gets about ch.
Tells == {"JOIN", "353", "PART", "KICK", "QUIT", "NICK", "+o", "-o"}

News(d, ch) == {m \in sendBuf'[d] : m.cmd \in Tells /\ m.chan \in {ch, NoChannel}}

Views == [Nick -> {"none", "regular", "operator"}]

LEMMA HeardNews ==
  ASSUME NEW d, NEW ch, NEW w \in Tells
  PROVE  /\ Heard(d, w, ch) = {m \in News(d, ch) : m.cmd = w /\ m.chan = ch}
         /\ Heard(d, w, NoChannel) = {m \in News(d, ch) : m.cmd = w /\ m.chan = NoChannel}
BY DEF Heard, News


LEMMA NotMarked ==
  ASSUME NEW d, NEW ch, NEW roles \in Views, Heard(d, "+o", ch) = {}, Heard(d, "-o", ch) = {}
  PROVE  Marked(d, ch, roles) = roles
BY DEF Marked, Views

LEMMA NotRenamed ==
  ASSUME NEW d, NEW roles \in Views, Heard(d, "NICK", NoChannel) = {}
  PROVE  Renamed(d, roles) = roles
<1>1. Renamed(d, roles) = [n \in Nick |-> roles[n]]
  BY DEF Renamed
<1> QED BY <1>1 DEF Views

\* A client that hears nothing about a channel does not change its mind.
LEMMA HearNothing ==
  ASSUME NEW d \in Client, NEW ch \in Channel, view[d][ch] \in Views, News(d, ch) = {}
  PROVE  Update(d, ch) = view[d][ch]
<1>1. /\ \A w \in Tells : Heard(d, w, ch) = {}
      /\ \A w \in Tells : Heard(d, w, NoChannel) = {}
  BY HeardNews DEF Tells
<1>2. Arrivals(d, ch) = {} /\ Leavers(d, ch) = {}
  BY <1>1 DEF Arrivals, Leavers, Tells
<1> DEFINE roles == [n \in Nick |-> IF n \in Arrivals(d, ch) THEN "regular"
                                    ELSE IF n \in Leavers(d, ch) THEN "none"
                                    ELSE view[d][ch][n]]
<1>3. roles = view[d][ch]
  BY <1>2 DEF Views
<1>4. Update(d, ch) = IF view[d][ch] = Nothing THEN Nothing
                      ELSE Marked(d, ch, Renamed(d, roles))
  BY <1>2 DEF Update
<1> HIDE DEF roles
<1> QED BY <1>1, <1>3, <1>4, NotMarked, NotRenamed DEF Tells

\* A client's own JOIN starts over with the names of the 353.
LEMMA HearOwnJoin ==
  ASSUME NEW d \in Client, NEW ch \in Channel,
         News(d, ch) = {Msg("JOIN", d, ch, NoNick), Msg("353", d, ch, NoNick)}
  PROVE  Update(d, ch) = JoinReponse(ch)
<1>1. Msg("JOIN", d, ch, NoNick) \in Heard(d, "JOIN", ch)
  BY HeardNews DEF Msg, Tells
<1>2. Msg("353", d, ch, NoNick) \in Heard(d, "353", ch)
  BY HeardNews DEF Msg, Tells
<1>3. nickname[d] \in Arrivals(d, ch)
  BY <1>1 DEF Arrivals, Msg
<1> QED BY <1>2, <1>3 DEF Update

\* The JOIN of another adds a name.
LEMMA HearJoin ==
  ASSUME NEW d \in Client, NEW ch \in Channel, NEW c \in Client, view[d][ch] \in Views,
         News(d, ch) = {Msg("JOIN", c, ch, NoNick)}, nickname[c] # nickname[d],
         view[d][ch] # Nothing
  PROVE  Update(d, ch) = [n \in Nick |-> IF n = nickname[c] THEN "regular" ELSE view[d][ch][n]]
<1> DEFINE m == Msg("JOIN", c, ch, NoNick)
           roles == [n \in Nick |-> IF n = nickname[c] THEN "regular" ELSE view[d][ch][n]]
<1>1. m.cmd = "JOIN" /\ m.from = c /\ m.chan = ch
  BY DEF Msg
<1> HIDE DEF m
<1>2. /\ Heard(d, "JOIN", ch) = {m}
      /\ \A w \in Tells \ {"JOIN"} : Heard(d, w, ch) = {}
      /\ \A w \in Tells : Heard(d, w, NoChannel) = {}
  BY <1>1, HeardNews, ChannelAssumption DEF Tells, m
<1>3. Arrivals(d, ch) = {nickname[c]} /\ Leavers(d, ch) = {}
  BY <1>1, <1>2 DEF Arrivals, Leavers, Tells
<1>4. Update(d, ch) = Marked(d, ch, Renamed(d, roles))
  BY <1>3 DEF Update
<1>5. roles \in Views
  BY DEF Views
<1> HIDE DEF roles
<1> QED BY <1>2, <1>4, <1>5, NotMarked, NotRenamed DEF Tells, roles

\* PART, QUIT and KICK take a name away, and with its own name all a client knows.
LEMMA HearLeave ==
  ASSUME NEW d \in Client, NEW ch \in Channel, NEW c \in Client, NEW g,
         view[d][ch] \in Views,
         \/ News(d, ch) = {Msg("PART", c, ch, NoNick)} /\ g = nickname[c]
         \/ News(d, ch) = {Msg("QUIT", c, NoChannel, NoNick)} /\ g = nickname[c]
         \/ News(d, ch) = {Msg("KICK", c, ch, g)}
  PROVE  Update(d, ch) = IF g = nickname[d] \/ view[d][ch] = Nothing THEN Nothing
                         ELSE [n \in Nick |-> IF n = g THEN "none" ELSE view[d][ch][n]]
<1> DEFINE roles == [n \in Nick |-> IF n = g THEN "none" ELSE view[d][ch][n]]
<1> DEFINE Departure(m) == /\ m.cmd \in {"PART", "QUIT", "KICK"}
                           /\ m.cmd = "QUIT" => m.chan = NoChannel
                           /\ m.cmd # "QUIT" => m.chan = ch
                           /\ g = IF m.cmd = "KICK" THEN m.arg ELSE nickname[m.from]
<1>0. /\ g = nickname[c] => Departure(Msg("PART", c, ch, NoNick))
      /\ g = nickname[c] => Departure(Msg("QUIT", c, NoChannel, NoNick))
      /\ Departure(Msg("KICK", c, ch, g))
  BY DEF Msg
<1>1. PICK m : News(d, ch) = {m} /\ Departure(m)
  BY <1>0
<1>2. /\ Heard(d, "PART", ch) \cup Heard(d, "QUIT", NoChannel) =
           (IF m.cmd = "KICK" THEN {} ELSE {m})
      /\ Heard(d, "KICK", ch) = IF m.cmd = "KICK" THEN {m} ELSE {}
      /\ \A w \in {"JOIN", "+o", "-o"} : Heard(d, w, ch) = {}
      /\ Heard(d, "NICK", NoChannel) = {}
  BY <1>1, HeardNews, ChannelAssumption DEF Tells
<1>3. Arrivals(d, ch) = {} /\ Leavers(d, ch) = {g}
  BY <1>1, <1>2 DEF Arrivals, Leavers
<1>4. Update(d, ch) = IF g = nickname[d] \/ view[d][ch] = Nothing THEN Nothing
                      ELSE Marked(d, ch, Renamed(d, roles))
  BY <1>3 DEF Update
<1>5. roles \in Views
  BY DEF Views
<1> HIDE DEF roles
<1> QED BY <1>2, <1>4, <1>5, NotMarked, NotRenamed DEF Tells, roles

\* NICK moves a role, if the one renamed had one, to the new name.
LEMMA HearNick ==
  ASSUME NEW d \in Client, NEW ch \in Channel, NEW c \in Client, NEW k \in Nick,
         view[d][ch] \in Views, view[d][ch] # Nothing, nickname[c] \in Nick,
         News(d, ch) = {Msg("NICK", c, NoChannel, k)}
  PROVE  Update(d, ch) = [n \in Nick |->
           IF n = k /\ view[d][ch][nickname[c]] # "none" THEN view[d][ch][nickname[c]]
           ELSE IF n = nickname[c] THEN "none" ELSE view[d][ch][n]]
<1> DEFINE m == Msg("NICK", c, NoChannel, k)
           old == nickname[c]
           roles == view[d][ch]
           after == [n \in Nick |-> IF n = k /\ roles[old] # "none" THEN roles[old]
                                    ELSE IF n = old THEN "none" ELSE roles[n]]
<1>1. m.cmd = "NICK" /\ m.from = c /\ m.chan = NoChannel /\ m.arg = k
  BY DEF Msg
<1> HIDE DEF m
<1>2. /\ Heard(d, "NICK", NoChannel) = {m}
      /\ \A w \in Tells : Heard(d, w, ch) = {}
      /\ \A w \in Tells \ {"NICK"} : Heard(d, w, NoChannel) = {}
  BY <1>1, HeardNews, ChannelAssumption DEF Tells, m
<1>3. Arrivals(d, ch) = {} /\ Leavers(d, ch) = {}
  BY <1>1, <1>2 DEF Arrivals, Leavers, Tells
<1>4. [n \in Nick |-> IF n \in Arrivals(d, ch) THEN "regular"
                      ELSE IF n \in Leavers(d, ch) THEN "none" ELSE view[d][ch][n]] = roles
  BY <1>3 DEF Views
<1>5. Update(d, ch) = Marked(d, ch, Renamed(d, roles))
  BY <1>3, <1>4 DEF Update
<1>6. \A n : {nickname[x.from] : x \in {y \in Heard(d, "NICK", NoChannel) : y.arg = n}} =
               IF n = k THEN {old} ELSE {}
  BY <1>1, <1>2
<1>7. {nickname[x.from] : x \in Heard(d, "NICK", NoChannel)} = {old}
  BY <1>1, <1>2
<1> HIDE DEF old, roles
<1>8. Renamed(d, roles) = [n \in Nick |->
         IF \E o \in (IF n = k THEN {old} ELSE {}) : roles[o] # "none"
         THEN roles[CHOOSE o \in (IF n = k THEN {old} ELSE {}) : roles[o] # "none"]
         ELSE IF n = old THEN "none" ELSE roles[n]]
  BY <1>6, <1>7, Zenon DEF Renamed
<1>9. Renamed(d, roles) = after
  BY <1>8
<1>10. after \in Views
  BY DEF Views, roles, old
<1> HIDE DEF after
<1> QED BY <1>2, <1>5, <1>9, <1>10, NotMarked DEF Tells, after, roles, old

\* MODE +o and -o change the mark of a name that is known.
LEMMA HearMode ==
  ASSUME NEW d \in Client, NEW ch \in Channel, NEW c \in Client, NEW k, NEW w \in {"+o", "-o"},
         view[d][ch] \in Views, view[d][ch] # Nothing, News(d, ch) = {Msg(w, c, ch, k)}
  PROVE  Update(d, ch) = [n \in Nick |->
           IF n = k /\ view[d][ch][n] # "none"
           THEN IF w = "+o" THEN "operator" ELSE "regular" ELSE view[d][ch][n]]
<1> DEFINE m == Msg(w, c, ch, k)
           roles == view[d][ch]
<1>1. m.cmd = w /\ m.from = c /\ m.chan = ch /\ m.arg = k
  BY DEF Msg
<1> HIDE DEF m
<1>2. /\ Heard(d, w, ch) = {m}
      /\ \A x \in Tells \ {w} : Heard(d, x, ch) = {}
      /\ \A x \in Tells : Heard(d, x, NoChannel) = {}
  BY <1>1, HeardNews, ChannelAssumption DEF Tells, m
<1>3. Arrivals(d, ch) = {} /\ Leavers(d, ch) = {}
  BY <1>1, <1>2 DEF Arrivals, Leavers, Tells
<1>4. [n \in Nick |-> IF n \in Arrivals(d, ch) THEN "regular"
                      ELSE IF n \in Leavers(d, ch) THEN "none" ELSE view[d][ch][n]] = roles
  BY <1>3 DEF Views
<1>5. Update(d, ch) = Marked(d, ch, Renamed(d, roles))
  BY <1>3, <1>4 DEF Update
<1>6. Renamed(d, roles) = roles
  BY <1>2, NotRenamed DEF Tells
<1>7. Marked(d, ch, roles) = [n \in Nick |->
        IF roles[n] # "none" /\ n = k THEN IF w = "+o" THEN "operator" ELSE "regular"
        ELSE roles[n]]
  BY <1>1, <1>2 DEF Marked, Tells
<1> QED BY <1>5, <1>6, <1>7

\* A client that is not on a channel learns nothing of it but by its own JOIN.
LEMMA HearOutside ==
  ASSUME NEW d \in Client, NEW ch \in Channel, view[d][ch] = Nothing,
         \A m \in News(d, ch) : m.cmd # "JOIN"
  PROVE  Update(d, ch) = Nothing
<1>1. Heard(d, "JOIN", ch) = {}
  BY HeardNews DEF Tells
<1>2. Arrivals(d, ch) = {}
  BY <1>1 DEF Arrivals
<1> QED BY <1>2 DEF Update

-----------------------------------------------------------------------------
(* What is right after a step.  Known says of one client and one channel    *)
(* what ViewInv says of all.                                                *)

Known(d, ch) ==
  /\ view[d][ch] \in Views
  /\ d \notin Registered(ch) => view[d][ch] = Nothing
  /\ d \in Registered(ch) =>
       /\ \A e \in Registered(ch) : view[d][ch][nickname[e]] = Role(ch, e)
       /\ \A n \in Nick : view[d][ch][n] # "none" =>
            n \in ghosts[ch] \/ \E e \in Registered(ch) : nickname[e] = n

LEMMA ViewKnown ==
  ASSUME ViewInv
  PROVE  \A d \in Client, ch \in Channel : Known(d, ch)
BY DEF ViewInv, OutsideNothing, MembersKnown, NobodyInvented, Known, Views, Registered

LEMMA KnownView ==
  ASSUME Observe, StateTypeOK', \A d \in Client, ch \in Channel : Known(d, ch)'
  PROVE  ViewInv'
<1>1. view' \in [Client -> [Channel -> [Nick -> {"none", "regular", "operator"}]]]
  <2>1. \A d \in Client, ch \in Channel : view'[d][ch] \in Views
    BY DEF Known
  <2>2. view' = [d \in Client |-> [ch \in Channel |-> view'[d][ch]]]
    BY DEF Observe
  <2> QED BY <2>1, <2>2 DEF Views
<1>2. \A ch \in Channel : Registered(ch)' \subseteq Client
  BY DEF StateTypeOK, Registered, Members
<1>3. OutsideNothing' /\ MembersKnown' /\ NobodyInvented'
  BY <1>2 DEF OutsideNothing, MembersKnown, NobodyInvented, Known, Registered
<1> QED BY <1>1, <1>3 DEF ViewInv

\* Members are named, each by a name of its own.
LEMMA MemberFacts ==
  ASSUME IndInv, NEW ch \in Channel
  PROVE  /\ \A e \in Members(ch) : /\ e \in Client /\ nickname[e] \in Nick
                                   /\ status[e] \in {"REGISTER", "TERMINATE"}
                                   /\ Role(ch, e) \in {"regular", "operator"}
         /\ \A e \in Members(ch), f \in Client : nickname[f] = nickname[e] => f = e
<1>1. \A e \in Members(ch) : e \in Client /\ status[e] \in {"REGISTER", "TERMINATE"}
  BY DEF IndInv, StateTypeOK, MembersRegistered, Members
<1>2. \A e \in Members(ch) : nickname[e] \in Nick
  BY <1>1 DEF IndInv, StateTypeOK, ClientInv, RegisteredHaveNick
<1>3. \A e \in Members(ch) : Role(ch, e) \in {"regular", "operator"}
  BY DEF Role, Members
<1>4. ASSUME NEW e \in Members(ch), NEW f \in Client, nickname[f] = nickname[e]
      PROVE  f = e
  <2>1. nickname[f] # NoNick
    BY <1>2, <1>4, NickAssumption
  <2>2. f \in Live /\ e \in Live
    BY <1>1, <2>1 DEF Live, IndInv, ClientInv, FreeIsBlank
  <2> QED BY <1>4, <2>1, <2>2 DEF IndInv, ClientInv, NickUnique
<1> QED BY <1>1, <1>2, <1>3, <1>4

\* A member believes at least in itself.
LEMMA InsideSomething ==
  ASSUME IndInv, ViewInv, NEW ch \in Channel, NEW d \in Registered(ch)
  PROVE  view[d][ch] # Nothing
<1>1. d \in Members(ch)
  BY DEF Registered
<1>2. d \in Client /\ nickname[d] \in Nick /\ Role(ch, d) # "none"
  BY <1>1, MemberFacts
<1>3. view[d][ch][nickname[d]] # "none"
  BY <1>2, ViewKnown DEF Known
<1> QED BY <1>2, <1>3 DEF Nothing

LEMMA ObserveEffect ==
  ASSUME Observe, NEW d \in Client, NEW ch \in Channel
  PROVE  /\ view'[d][ch] = IF status'[d] = "REGISTER" THEN Update(d, ch) ELSE Nothing
         /\ \A n \in Nick : n \in Ghosts(ch) /\ view'[d][ch][n] # "none" => n \in ghosts'[ch]
<1>1. view'[d][ch] = IF status'[d] = "REGISTER" THEN Update(d, ch) ELSE Nothing
  BY DEF Observe
<1>2. ghosts'[ch] = {n \in Ghosts(ch) \ {NoNick} : \E e \in Client : view'[e][ch][n] # "none"}
  BY DEF Observe
<1> QED BY <1>1, <1>2, NickAssumption

LEMMA GhostFacts ==
  ASSUME NEW ch
  PROVE  /\ ghosts[ch] \subseteq Ghosts(ch)
         /\ Unreported(ch) \subseteq Ghosts(ch)
         /\ \A c \in Client : status[c] = "REGISTER" /\ nickname[c] \in ghosts[ch] =>
              nickname'[c] \in Ghosts(ch)
BY DEF Ghosts

\* Who is not registered, or not any more, knows nothing.
LEMMA Gone ==
  ASSUME Observe, NEW d \in Client, NEW ch \in Channel, status'[d] # "REGISTER"
  PROVE  Known(d, ch)'
<1>1. view'[d][ch] = Nothing
  BY ObserveEffect
<1>2. Nothing \in Views
  BY DEF Nothing, Views
<1> QED BY <1>1, <1>2 DEF Known, Registered

\* e is on ch before and after, under the same name and in the same role.
Same(ch, e) == /\ e \in Registered(ch) /\ nickname'[e] = nickname[e]
               /\ Role(ch, e)' = Role(ch, e)

\* A client that hears nothing of a channel is right if there was nothing to hear.
LEMMA KnownNothing ==
  ASSUME ViewInv, Observe, NEW d \in Client, NEW ch \in Channel, status'[d] = "REGISTER",
         News(d, ch) = {},
         d \in Registered(ch)' <=> d \in Registered(ch),
         \A e \in Registered(ch)' : Same(ch, e),
         \A e \in Registered(ch) : e \in Registered(ch)' \/ nickname[e] \in Unreported(ch)
  PROVE  Known(d, ch)'
<1>1. Known(d, ch)
  BY ViewKnown
<1>2. view'[d][ch] = view[d][ch]
  BY <1>1, ObserveEffect, HearNothing DEF Known
<1>3. \A n \in Nick : n \in ghosts[ch] \cup Unreported(ch) /\ view'[d][ch][n] # "none" =>
        n \in ghosts'[ch]
  BY ObserveEffect, GhostFacts
<1>4. ASSUME d \in Registered(ch), NEW n \in Nick, view'[d][ch][n] # "none", n \notin ghosts'[ch]
      PROVE  \E e \in Registered(ch)' : nickname'[e] = n
  <2>1. PICK e \in Registered(ch) : nickname[e] = n
    BY <1>1, <1>2, <1>3, <1>4 DEF Known
  <2>2. e \in Registered(ch)'
    BY <1>3, <1>4, <2>1
  <2> QED BY <2>1, <2>2 DEF Same
<1> QED BY <1>1, <1>2, <1>4 DEF Known, Same

\* A client that is on the channel neither before nor after the step learns nothing
\* of it.
LEMMA KnownOutside ==
  ASSUME ViewInv, Observe, NEW d \in Client, NEW ch \in Channel, status'[d] = "REGISTER",
         d \notin Registered(ch), d \notin Registered(ch)',
         \A m \in News(d, ch) : m.cmd # "JOIN"
  PROVE  Known(d, ch)'
<1>1. Known(d, ch) /\ view[d][ch] = Nothing
  BY ViewKnown DEF Known
<1>2. view'[d][ch] = Nothing
  BY <1>1, ObserveEffect, HearOutside
<1> QED BY <1>1, <1>2 DEF Known

\* The departure of the one called g.
LEMMA KnownLeave ==
  ASSUME IndInv, ViewInv, Observe, NEW d \in Client, NEW ch \in Channel,
         status'[d] = "REGISTER", NEW c \in Client, NEW g,
         \/ News(d, ch) = {Msg("PART", c, ch, NoNick)} /\ g = nickname[c]
         \/ News(d, ch) = {Msg("QUIT", c, NoChannel, NoNick)} /\ g = nickname[c]
         \/ News(d, ch) = {Msg("KICK", c, ch, g)},
         d \in Registered(ch)' <=> d \in Registered(ch) /\ nickname[d] # g,
         \A e \in Registered(ch)' : Same(ch, e) /\ nickname[e] # g,
         \A e \in Registered(ch) : e \in Registered(ch)' \/ nickname[e] = g
  PROVE  Known(d, ch)'
<1>1. Known(d, ch)
  BY ViewKnown
<1>2. view'[d][ch] = IF g = nickname[d] \/ view[d][ch] = Nothing THEN Nothing
                     ELSE [n \in Nick |-> IF n = g THEN "none" ELSE view[d][ch][n]]
  BY <1>1, ObserveEffect, HearLeave DEF Known
<1>3. Nothing \in Views /\ \A n \in Nick : Nothing[n] = "none"
  BY DEF Nothing, Views
<1>4. view'[d][ch] \in Views
  BY <1>1, <1>2, <1>3 DEF Known, Views
<1>5. CASE d \notin Registered(ch)'
  <2>1. view'[d][ch] = Nothing
    BY <1>1, <1>2, <1>5 DEF Known
  <2> QED BY <1>4, <1>5, <2>1 DEF Known
<1>6. CASE d \in Registered(ch)'
  <2>1. d \in Registered(ch) /\ g # nickname[d] /\ view[d][ch] # Nothing
    BY <1>6, InsideSomething
  <2>2. \A n \in Nick : view'[d][ch][n] = IF n = g THEN "none" ELSE view[d][ch][n]
    BY <1>2, <2>1
  <2>3. \A n \in Nick : n \in ghosts[ch] /\ view'[d][ch][n] # "none" => n \in ghosts'[ch]
    BY ObserveEffect, GhostFacts
  <2>4. \A e \in Registered(ch) : nickname[e] \in Nick
    BY MemberFacts DEF Registered
  <2>5. \A e \in Registered(ch)' : view'[d][ch][nickname'[e]] = Role(ch, e)'
    BY <1>1, <2>1, <2>2, <2>4 DEF Known, Same
  <2>6. ASSUME NEW n \in Nick, view'[d][ch][n] # "none", n \notin ghosts'[ch]
        PROVE  \E e \in Registered(ch)' : nickname'[e] = n
    <3>1. n # g /\ view[d][ch][n] # "none" /\ n \notin ghosts[ch]
      BY <2>2, <2>3, <2>6
    <3>2. PICK e \in Registered(ch) : nickname[e] = n
      BY <1>1, <2>1, <3>1 DEF Known
    <3> QED BY <3>1, <3>2 DEF Same
  <2> QED BY <1>4, <1>6, <2>5, <2>6 DEF Known
<1> QED BY <1>5, <1>6

\* The arrival of c on a channel that exists.
LEMMA KnownJoin ==
  ASSUME IndInv, ViewInv, Observe, NEW d \in Client, NEW ch \in Channel,
         status'[d] = "REGISTER", NEW c \in Client \ {d},
         News(d, ch) = {Msg("JOIN", c, ch, NoNick)},
         d \in Registered(ch), d \in Registered(ch)', nickname'[c] = nickname[c],
         nickname[c] \in Nick, c \in Registered(ch)', Role(ch, c)' = "regular",
         \A e \in Registered(ch)' : e = c \/ Same(ch, e),
         Registered(ch) \subseteq Registered(ch)'
  PROVE  Known(d, ch)'
<1>1. Known(d, ch) /\ view[d][ch] # Nothing
  BY ViewKnown, InsideSomething
<1>2. \A e \in Registered(ch) : nickname[e] \in Nick /\ (nickname[c] = nickname[e] => c = e)
  BY MemberFacts DEF Registered
<1>3. view'[d][ch] = [n \in Nick |-> IF n = nickname[c] THEN "regular" ELSE view[d][ch][n]]
  BY <1>1, <1>2, ObserveEffect, HearJoin DEF Known
<1>4. view'[d][ch] \in Views
  BY <1>1, <1>3 DEF Known, Views
<1>5. \A n \in Nick : n \in ghosts[ch] /\ view'[d][ch][n] # "none" => n \in ghosts'[ch]
  BY ObserveEffect, GhostFacts
<1>6. ASSUME NEW e \in Registered(ch)'
      PROVE  view'[d][ch][nickname'[e]] = Role(ch, e)'
  <2>1. CASE e = c
    BY <1>3, <2>1
  <2>2. CASE e # c
    BY <1>1, <1>2, <1>3, <2>2 DEF Known, Same
  <2> QED BY <2>1, <2>2
<1>7. ASSUME NEW n \in Nick, view'[d][ch][n] # "none", n \notin ghosts'[ch]
      PROVE  \E e \in Registered(ch)' : nickname'[e] = n
  <2>1. CASE n = nickname[c]
    BY <2>1
  <2>2. CASE n # nickname[c]
    <3>1. view[d][ch][n] # "none" /\ n \notin ghosts[ch]
      BY <1>3, <1>5, <1>7, <2>2
    <3>2. PICK e \in Registered(ch) : nickname[e] = n
      BY <1>1, <3>1 DEF Known
    <3> QED BY <2>2, <3>2 DEF Same
  <2> QED BY <2>1, <2>2
<1> QED BY <1>4, <1>6, <1>7 DEF Known

\* What the one who joins reads in the 353, where those are named as well who have
\* quit and are not deleted yet.
LEMMA KnownOwnJoin ==
  ASSUME IndInv, IndInv', Observe, NEW d \in Client, NEW ch \in Channel,
         News(d, ch) = {Msg("JOIN", d, ch, NoNick), Msg("353", d, ch, NoNick)},
         UNCHANGED <<status, nickname>>, status[d] = "REGISTER",
         d \notin Members(ch), Members(ch)' = Members(ch) \cup {d}
  PROVE  Known(d, ch)'
<1>1. view'[d][ch] = [n \in Nick |-> Named353(ch, n)]
  BY ObserveEffect, HearOwnJoin DEF JoinReponse
<1>2. view'[d][ch] \in Views
  BY <1>1 DEF Views, Named353
<1>3. d \in Registered(ch)'
  BY DEF Registered
<1>4. \A e \in Members(ch)' :
        /\ nickname'[e] \in Nick
        /\ \A f \in Members(ch)' : nickname'[f] = nickname'[e] => f = e
  <2>1. \A e \in Members(ch) \cup {d} : e \in Client /\ nickname'[e] \in Nick /\ status'[e] # "FREE"
    <3>1. \A e \in Members(ch) : e \in Client
      BY MemberFacts
    <3>2. \A e \in Members(ch)' : status'[e] \in {"REGISTER", "TERMINATE"}
      BY DEF IndInv, MembersRegistered
    <3>3. \A e \in Members(ch)' : nickname'[e] # NoNick
      BY <3>1, <3>2 DEF IndInv, ClientInv, RegisteredHaveNick
    <3> QED BY <3>1, <3>2, <3>3 DEF IndInv, StateTypeOK
  <2>2. \A e, f \in Client : status'[e] # "FREE" /\ status'[f] # "FREE"
          /\ nickname'[e] = nickname'[f] /\ nickname'[e] # NoNick => e = f
    BY DEF IndInv, ClientInv, NickUnique, Live
  <2> QED BY <2>1, <2>2, NickAssumption
<1>5. ASSUME NEW e \in Registered(ch)'
      PROVE  view'[d][ch][nickname'[e]] = Role(ch, e)'
  <2>1. e \in Members(ch)' /\ nickname[e] \in Nick
    BY <1>4 DEF Registered
  <2>2. \A f \in operators'[ch] \cup regulars'[ch] : nickname[f] = nickname[e] => f = e
    BY <1>4, <2>1 DEF Members
  <2>3. Named353(ch, nickname[e]) = IF e \in operators'[ch] THEN "operator"
                                    ELSE IF e \in regulars'[ch] THEN "regular" ELSE "none"
    BY <2>2 DEF Named353
  <2> QED BY <1>1, <2>1, <2>3 DEF Role
<1>6. ASSUME NEW n \in Nick, view'[d][ch][n] # "none", n \notin ghosts'[ch]
      PROVE  \E e \in Registered(ch)' : nickname'[e] = n
  <2>1. PICK e \in Members(ch)' : nickname[e] = n
    BY <1>1, <1>6 DEF Named353, Members
  <2>2. n \notin Unreported(ch)
    BY <1>6, ObserveEffect, GhostFacts
  <2>3. status[e] # "TERMINATE"
    <3>1. SUFFICES ASSUME status[e] = "TERMINATE"
                   PROVE  FALSE
      OBVIOUS
    <3>2. e \in Members(ch) /\ Members(ch)' \ Members(ch) # {}
      BY <3>1
    <3> QED BY <2>1, <2>2, <3>1, <3>2 DEF Unreported
  <2>4. status'[e] \in {"REGISTER", "TERMINATE"}
    BY DEF IndInv, MembersRegistered
  <2> QED BY <2>1, <2>3, <2>4 DEF Registered
<1> QED BY <1>2, <1>3, <1>5, <1>6 DEF Known

\* A new nickname for c, whether or not c is on the channel: a ghost under the old
\* name takes the new one.
LEMMA KnownNick ==
  ASSUME IndInv, ViewInv, Observe, NEW d \in Client, NEW ch \in Channel,
         NEW c \in Client, NEW k \in Nick, News(d, ch) = {Msg("NICK", c, NoChannel, k)},
         Named(k) = {}, status[c] = "REGISTER",
         nickname' = [nickname EXCEPT ![c] = k], UNCHANGED <<status, operators, regulars>>,
         status[d] = "REGISTER"
  PROVE  Known(d, ch)'
<1>1. Known(d, ch)
  BY ViewKnown
<1>2. /\ Registered(ch)' = Registered(ch) /\ Registered(ch) \subseteq Client
      /\ \A e : Role(ch, e)' = Role(ch, e)
      /\ \A e \in Client : nickname'[e] = IF e = c THEN k ELSE nickname[e]
  <2>1. nickname \in [Client -> Nick \cup {NoNick}]
    BY DEF IndInv, StateTypeOK
  <2> QED BY <2>1, MemberFacts DEF Registered, Members, Role
<1>3. CASE d \notin Registered(ch)
  <2>1. view[d][ch] = Nothing
    BY <1>1, <1>3 DEF Known
  <2>2. view'[d][ch] = Nothing
    BY <2>1, ObserveEffect, HearOutside DEF Msg
  <2> QED BY <1>1, <1>2, <1>3, <2>1, <2>2 DEF Known
<1>4. CASE d \in Registered(ch)
  <2> DEFINE old == nickname[c]
  <2>1. old \in Nick /\ view[d][ch] # Nothing
    BY <1>4, InsideSomething DEF IndInv, StateTypeOK, ClientInv, RegisteredHaveNick
  <2>2. view'[d][ch] = [n \in Nick |->
          IF n = k /\ view[d][ch][old] # "none" THEN view[d][ch][old]
          ELSE IF n = old THEN "none" ELSE view[d][ch][n]]
    BY <1>1, <2>1, ObserveEffect, HearNick DEF Known
  <2>3. view'[d][ch] \in Views
    BY <1>1, <2>1, <2>2 DEF Known, Views
  <2>4. \A e \in Registered(ch) : /\ nickname[e] \in Nick /\ nickname[e] # k
                                  /\ nickname[e] = old => e = c
                                  /\ Role(ch, e) # "none"
    <3>1. \A e \in Registered(ch) : /\ nickname[e] \in Nick
                                    /\ nickname[c] = nickname[e] => c = e
                                    /\ Role(ch, e) # "none"
      BY MemberFacts DEF Registered
    <3>2. \A e \in Registered(ch) : nickname[e] # k
      BY <1>2 DEF Registered, Named, Live
    <3> QED BY <3>1, <3>2
  <2>5. ASSUME NEW e \in Registered(ch)
        PROVE  view'[d][ch][nickname'[e]] = Role(ch, e)
    <3>1. view[d][ch][nickname[e]] = Role(ch, e)
      BY <1>1, <1>4 DEF Known
    <3>2. CASE e = c
      BY <1>2, <2>2, <2>4, <3>1, <3>2
    <3>3. CASE e # c
      BY <1>2, <2>2, <2>4, <3>1, <3>3
    <3> QED BY <3>2, <3>3
  <2>6. ASSUME NEW n \in Nick, view'[d][ch][n] # "none", n \notin ghosts'[ch]
        PROVE  \E e \in Registered(ch) : nickname'[e] = n
    <3>1. n \notin ghosts[ch] /\ (n = k => old \notin ghosts[ch])
      BY <1>2, <2>6, ObserveEffect, GhostFacts
    <3>2. CASE n = k /\ view[d][ch][old] # "none"
      <4>1. PICK e \in Registered(ch) : nickname[e] = old
        BY <1>1, <1>4, <2>1, <3>1, <3>2 DEF Known
      <4> QED BY <1>2, <2>4, <3>2, <4>1
    <3>3. CASE ~(n = k /\ view[d][ch][old] # "none")
      <4>1. n # old /\ view[d][ch][n] # "none"
        BY <2>2, <2>6, <3>3
      <4>2. PICK e \in Registered(ch) : nickname[e] = n
        BY <1>1, <1>4, <3>1, <4>1 DEF Known
      <4> QED BY <1>2, <4>1, <4>2
    <3> QED BY <3>2, <3>3
  <2> QED BY <1>2, <1>4, <2>3, <2>5, <2>6 DEF Known
<1> QED BY <1>3, <1>4

\* A mode for the one called k, be it a member or one that has quit.
LEMMA KnownMode ==
  ASSUME IndInv, ViewInv, Observe, NEW d \in Client, NEW ch \in Channel,
         NEW c \in Client, NEW t \in Members(ch), NEW w \in {"+o", "-o"},
         News(d, ch) = {Msg(w, c, ch, nickname[t])},
         d \in Registered(ch), UNCHANGED <<status, nickname>>,
         \A e : e \in Members(ch)' <=> e \in Members(ch),
         Role(ch, t)' = IF w = "+o" THEN "operator" ELSE "regular",
         \A e \in Members(ch) : e # t => Role(ch, e)' = Role(ch, e)
  PROVE  Known(d, ch)'
<1>1. Known(d, ch) /\ view[d][ch] # Nothing
  BY ViewKnown, InsideSomething DEF Registered, Members, IndInv, StateTypeOK
<1>2. Registered(ch)' = Registered(ch) /\ status'[d] = "REGISTER"
  BY DEF Registered
<1>3. \A e \in Registered(ch) : /\ nickname[e] \in Nick /\ Role(ch, e) # "none"
                                /\ nickname[e] = nickname[t] => e = t
  BY MemberFacts DEF Registered
<1>4. view'[d][ch] = [n \in Nick |->
        IF n = nickname[t] /\ view[d][ch][n] # "none"
        THEN IF w = "+o" THEN "operator" ELSE "regular" ELSE view[d][ch][n]]
  BY <1>1, <1>2, ObserveEffect, HearMode DEF Known
<1>5. view'[d][ch] \in Views
  BY <1>1, <1>4 DEF Known, Views
<1>6. \A e \in Registered(ch) : view'[d][ch][nickname[e]] = Role(ch, e)'
  BY <1>1, <1>3, <1>4 DEF Known, Registered
<1>7. \A n \in Nick : n \in ghosts[ch] /\ view'[d][ch][n] # "none" => n \in ghosts'[ch]
  BY ObserveEffect, GhostFacts
<1>8. \A n \in Nick : view'[d][ch][n] # "none" => view[d][ch][n] # "none"
  BY <1>4
<1> QED BY <1>1, <1>2, <1>5, <1>6, <1>7, <1>8 DEF Known

-----------------------------------------------------------------------------
(* The messages of each handler, and that they are enough. *)

LEMMA NewsTo ==
  ASSUME NEW R, NEW m, NEW L, Reply(To(R, m), L), NEW d \in Client, NEW ch
  PROVE  News(d, ch) = IF d \in R /\ m.cmd \in Tells /\ m.chan \in {ch, NoChannel}
                       THEN {m} ELSE {}
<1>1. sendBuf'[d] = IF d \in R THEN {m} ELSE {}
  BY DEF Reply, To
<1> QED BY <1>1 DEF News

\* A command that sends no message clients learn from, and changes no member's record.
LEMMA CalmKnown ==
  ASSUME IndInv, ViewInv, Observe, NEW d \in Client, NEW ch \in Channel,
         status'[d] = "REGISTER", \A m \in sendBuf'[d] : m.cmd \notin Tells,
         UNCHANGED <<operators, regulars>>,
         \A e \in Client : status[e] \in {"REGISTER", "TERMINATE"} =>
           status'[e] = status[e] /\ nickname'[e] = nickname[e]
  PROVE  Known(d, ch)'
<1>1. News(d, ch) = {}
  BY DEF News
<1>2. \A e \in Members(ch) : /\ e \in Client /\ status'[e] = status[e]
                             /\ nickname'[e] = nickname[e]
  BY MemberFacts
<1>3. \A e : e \in Registered(ch)' <=> e \in Registered(ch)
  BY <1>2 DEF Registered, Members
<1>4. \A e \in Registered(ch)' : Same(ch, e)
  BY <1>2, <1>3 DEF Same, Role, Registered
<1> QED BY <1>1, <1>3, <1>4, KnownNothing

LEMMA AnswerCalm ==
  ASSUME NEW c, NEW code, Answer(c, code) \/ Silence, code \notin Tells, NEW d \in Client
  PROVE  \A m \in sendBuf'[d] : m.cmd \notin Tells
<1>1. Numeric(code, c).cmd = code
  BY DEF Numeric, Msg
<1> QED BY <1>1 DEF Answer, Silence, Reply, To

\* Every change in a connection's life but its end.
LEMMA LifeKnown ==
  ASSUME IndInv, ViewInv, Observe, NEW c \in Client,
         Accept(c) \/ Timeout(c) \/ (status[c] = "UNREGISTER" /\ Connect(c)),
         NEW d \in Client, NEW ch \in Channel, status'[d] = "REGISTER"
  PROVE  Known(d, ch)'
<1>1. \E code \in {"001", "433", "451", "462", "464"} : Answer(c, code) \/ Silence
  BY DEF Accept, Timeout, Connect, Pass, User, FirstNick, NotRegistered, Authenticate, Refuse
<1>2. \A m \in sendBuf'[d] : m.cmd \notin Tells
  BY <1>1, AnswerCalm DEF Tells
<1>3. UNCHANGED <<operators, regulars>>
  BY DEF Accept, Timeout, Connect, Pass, User, FirstNick, NotRegistered, Authenticate,
         Refuse, state, rosterVars
<1>4. \A e \in Client : e # c => status'[e] = status[e] /\ nickname'[e] = nickname[e]
  BY DEF Accept, Timeout, Connect, Pass, User, FirstNick, NotRegistered, Authenticate,
         Refuse, state, IndInv, StateTypeOK
<1>5. status[c] \notin {"REGISTER", "TERMINATE"}
  BY DEF Accept, Timeout
<1> QED BY <1>2, <1>3, <1>4, <1>5, CalmKnown

\* The end of a connection, of which nobody is told.
LEMMA DeleteKnown ==
  ASSUME IndInv, ViewInv, Observe, NEW c \in Client, DeleteClient(c),
         NEW d \in Client, NEW ch \in Channel, status'[d] = "REGISTER"
  PROVE  Known(d, ch)'
<1>1. /\ channelList[c] \in SUBSET channels /\ Leave(c, channelList[c])
      /\ \A e \in Client : /\ status'[e] = IF e = c THEN "FREE" ELSE status[e]
                           /\ e # c => nickname'[e] = nickname[e]
      /\ Silence
  BY DeleteEffect
<1>2. News(d, ch) = {}
  BY <1>1 DEF News, Silence, Reply
<1>3. c \in Members(ch) <=> ch \in channelList[c]
  BY DEF IndInv, RosterInv, RosterAgreement
<1>4. /\ \A e : e \in Members(ch)' <=> e \in Members(ch) /\ e # c
      /\ \A e : e # c => (e \in operators'[ch] <=> e \in operators[ch])
  BY <1>1, <1>3, LeaveEffect
<1>5. \A e : e \in Registered(ch)' <=> e \in Registered(ch) /\ e # c
  BY <1>1, <1>4, MemberFacts DEF Registered
<1>6. \A e \in Registered(ch)' : Same(ch, e)
  <2>1. \A e \in Registered(ch)' : e \in Client /\ e # c /\ e \in Members(ch)
    BY <1>5, MemberFacts DEF Registered
  <2>2. \A e \in Registered(ch)' : e \in Members(ch)'
    BY DEF Registered
  <2>3. \A e \in Registered(ch)' : Role(ch, e)' = Role(ch, e)
    BY <1>4, <2>1, <2>2 DEF Role, Members
  <2> QED BY <1>1, <1>5, <2>1, <2>3 DEF Same
<1>7. c \in Registered(ch) => nickname[c] \in Unreported(ch)
  BY <1>1, <1>4 DEF Unreported, Registered
<1>8. d # c
  BY <1>1
<1> QED BY <1>2, <1>5, <1>6, <1>7, <1>8, KnownNothing

LEMMA JoinNews ==
  ASSUME NEW c \in Client, NEW list \in Lists(Channel), Join(c, list),
         NEW d \in Client, NEW ch \in Channel
  PROVE  News(d, ch) = IF ch \in Joined(c, list) /\ (d \in Members(ch) \/ d = c)
                       THEN {Msg("JOIN", c, ch, NoNick)}
                              \cup (IF d = c THEN {Msg("353", c, ch, NoNick)} ELSE {})
                       ELSE {}
<1> DEFINE J     == Joined(c, list)
           names == {Msg("353", c, x, NoNick) : x \in J}
<1>1. J \subseteq Channel
  BY JoinedChannels
<1>2. PICK error \in SUBSET {Numeric("473", c)} :
        Reply([JoinReplies(c, J) EXCEPT ![c] = @ \cup names \cup error],
              UNION {Members(x) \cup {c} : x \in J})
  BY DEF Join
<1> HIDE DEF J
<1>3. sendBuf'[d] = {Msg("JOIN", c, x, NoNick) : x \in {y \in J : d \in Members(y) \cup {c}}}
                      \cup (IF d = c THEN names \cup error ELSE {})
  BY <1>2 DEF Reply, JoinReplies
<1>4. \A x \in Channel, w \in Tells : /\ Msg(w, c, x, NoNick).cmd = w
                                      /\ Msg(w, c, x, NoNick).chan = x
  BY DEF Msg
<1>5. \A m \in error : m.cmd \notin Tells
  BY DEF Numeric, Msg, Tells
<1>6. \A m : m \in News(d, ch) <=>
        /\ ch \in J
        /\ \/ m = Msg("JOIN", c, ch, NoNick) /\ d \in Members(ch) \cup {c}
           \/ m = Msg("353", c, ch, NoNick) /\ d = c
  BY <1>1, <1>3, <1>4, <1>5, ChannelAssumption DEF News, Tells
<1> QED BY <1>6 DEF J

\* JOIN, to the one who joins, to those who are there, and to all others.
LEMMA JoinKnown ==
  ASSUME IndInv, IndInv', ViewInv, Observe, NEW c \in Client, status[c] = "REGISTER",
         NEW list \in Lists(Channel), Join(c, list),
         NEW d \in Client, NEW ch \in Channel, status'[d] = "REGISTER"
  PROVE  Known(d, ch)'
<1>1. UNCHANGED <<status, nickname>>
  BY JoinMembers
<1>2. CASE ch \notin Joined(c, list)
  <2>1. News(d, ch) = {}
    BY <1>2, JoinNews
  <2>2. Members(ch)' = Members(ch) /\ operators'[ch] = operators[ch]
    BY <1>2, JoinMembers
  <2>3. Registered(ch)' = Registered(ch)
    BY <1>1, <2>2 DEF Registered
  <2>4. \A e \in Registered(ch)' : Same(ch, e)
    <3>1. \A e \in Registered(ch) : e \in operators[ch] \cup regulars[ch]
      BY DEF Registered, Members
    <3>2. \A e \in Registered(ch)' : e \in operators'[ch] \cup regulars'[ch]
      BY DEF Registered, Members
    <3> QED BY <1>1, <2>2, <2>3, <3>1, <3>2 DEF Same, Role
  <2> QED BY <2>1, <2>3, <2>4, KnownNothing
<1>3. CASE ch \in Joined(c, list)
  <2>1. /\ c \notin Members(ch) /\ Members(ch)' = Members(ch) \cup {c}
        /\ ch \in channels => operators'[ch] = operators[ch]
    BY <1>3, JoinMembers
  <2>2. CASE d = c
    <3>1. News(d, ch) = {Msg("JOIN", d, ch, NoNick), Msg("353", d, ch, NoNick)}
      BY <1>3, <2>2, JoinNews
    <3> QED BY <1>1, <2>1, <2>2, <3>1, KnownOwnJoin
  <2>3. CASE d # c /\ d \in Members(ch)
    <3>1. News(d, ch) = {Msg("JOIN", c, ch, NoNick)}
      BY <1>3, <2>3, JoinNews
    <3>2. operators'[ch] = operators[ch]
      BY <2>1, <2>3 DEF IndInv, RosterInv, ChannelIffOccupied
    <3>3. d \in Registered(ch) /\ d \in Registered(ch)' /\ c \in Registered(ch)'
      BY <1>1, <2>1, <2>3 DEF Registered
    <3>4. nickname[c] \in Nick
      BY <2>1, <1>1, MemberFacts DEF IndInv, StateTypeOK, ClientInv, RegisteredHaveNick
    <3>5. \A e \in Members(ch) \cup {c} : e \in operators'[ch] \cup regulars'[ch]
      BY <2>1 DEF Members
    <3>6. \A e \in Members(ch) : e \in operators[ch] \cup regulars[ch]
      BY DEF Members
    <3>7. Role(ch, c)' = "regular"
      BY <2>1, <3>2, <3>5 DEF Role, Members
    <3>8. \A e \in Members(ch) : Role(ch, e)' = Role(ch, e)
      BY <3>2, <3>5, <3>6 DEF Role
    <3>9. \A e \in Registered(ch)' : e = c \/ Same(ch, e)
      BY <1>1, <2>1, <3>8 DEF Registered, Same
    <3>10. Registered(ch) \subseteq Registered(ch)'
      BY <1>1, <2>1 DEF Registered
    <3> QED BY <1>1, <2>3, <3>1, <3>3, <3>4, <3>7, <3>9, <3>10, KnownJoin
  <2>4. CASE d # c /\ d \notin Members(ch)
    <3>1. News(d, ch) = {}
      BY <2>4, JoinNews
    <3> QED BY <2>1, <2>4, <3>1, KnownOutside DEF Registered
  <2> QED BY <2>2, <2>3, <2>4
<1> QED BY <1>2, <1>3

\* Whoever is left when one has left is who was there, in the same role.
LEMMA LeaveSame ==
  ASSUME IndInv, NEW t \in Client, NEW S \in SUBSET channels, Leave(t, S),
         UNCHANGED clientVars, NEW ch \in Channel
  PROVE  /\ \A e : e \in Registered(ch)' <=> e \in Registered(ch) /\ ~(e = t /\ ch \in S)
         /\ \A e \in Registered(ch)' : Same(ch, e)
<1>1. /\ \A e : e \in Members(ch)' <=> e \in Members(ch) /\ ~(e = t /\ ch \in S)
      /\ \A e : e \in operators'[ch] <=> e \in operators[ch] /\ ~(e = t /\ ch \in S)
  BY LeaveEffect
<1>2. \A e : e \in Registered(ch)' <=> e \in Registered(ch) /\ ~(e = t /\ ch \in S)
  BY <1>1 DEF Registered, clientVars
<1>3. \A e \in Registered(ch)' :
        /\ e \in operators'[ch] \cup regulars'[ch]
        /\ e \in operators[ch] \cup regulars[ch]
        /\ e \in operators'[ch] <=> e \in operators[ch]
  BY <1>1 DEF Registered, Members
<1> QED BY <1>2, <1>3 DEF Same, Role, clientVars

LEMMA PartNews ==
  ASSUME IndInv, NEW c \in Client, NEW list \in Lists(Channel), Part(c, list)
  PROVE  \E left \in SUBSET channels :
           /\ Leave(c, left) /\ UNCHANGED clientVars
           /\ \A d \in Client, ch \in Channel :
                News(d, ch) = IF ch \in left /\ d \in Members(ch)
                              THEN {Msg("PART", c, ch, NoNick)} ELSE {}
<1> DEFINE left == {list[i] : i \in DOMAIN list} \cap channels
<1>1. left \in SUBSET channels /\ left \in SUBSET Channel
  BY DEF IndInv, StateTypeOK
<1>2. PICK error \in SUBSET {Numeric("403", c)} :
        Reply([PartReplies(c, left) EXCEPT ![c] = @ \cup error],
              UNION {Members(ch) : ch \in left})
  BY DEF Part
<1>3. Leave(c, left) /\ UNCHANGED clientVars
  BY DEF Part
<1> HIDE DEF left
<1>4. \A d \in Client :
        sendBuf'[d] = {Msg("PART", c, x, NoNick) : x \in {y \in left : d \in Members(y)}}
                        \cup (IF d = c THEN error ELSE {})
  BY <1>2 DEF Reply, PartReplies
<1>5. \A x \in Channel : Msg("PART", c, x, NoNick).cmd = "PART" /\ Msg("PART", c, x, NoNick).chan = x
  BY DEF Msg
<1>6. \A m \in error : m.cmd \notin Tells
  BY DEF Numeric, Msg, Tells
<1>7. ASSUME NEW d \in Client, NEW ch \in Channel
      PROVE  News(d, ch) = IF ch \in left /\ d \in Members(ch)
                           THEN {Msg("PART", c, ch, NoNick)} ELSE {}
  <2>1. \A m : m \in News(d, ch) <=>
          ch \in left /\ d \in Members(ch) /\ m = Msg("PART", c, ch, NoNick)
    BY <1>1, <1>4, <1>5, <1>6, ChannelAssumption DEF News, Tells
  <2> QED BY <2>1
<1> QED BY <1>1, <1>3, <1>7

LEMMA PartKnown ==
  ASSUME IndInv, ViewInv, Observe, NEW c \in Client, NEW list \in Lists(Channel),
         Part(c, list), NEW d \in Client, NEW ch \in Channel, status'[d] = "REGISTER"
  PROVE  Known(d, ch)'
<1>1. PICK left \in SUBSET channels :
        /\ Leave(c, left) /\ UNCHANGED clientVars
        /\ News(d, ch) = IF ch \in left /\ d \in Members(ch)
                         THEN {Msg("PART", c, ch, NoNick)} ELSE {}
  BY PartNews
<1>2. /\ \A e : e \in Registered(ch)' <=> e \in Registered(ch) /\ ~(e = c /\ ch \in left)
      /\ \A e \in Registered(ch)' : Same(ch, e)
  BY <1>1, LeaveSame
<1>3. CASE ch \in left /\ d \in Members(ch)
  <2>1. \A e \in Members(ch) : nickname[c] = nickname[e] <=> e = c
    BY MemberFacts
  <2>2. \A e \in Registered(ch) : e \in Members(ch)
    BY DEF Registered
  <2> QED BY <1>1, <1>2, <1>3, <2>1, <2>2, KnownLeave
<1>4. CASE d \notin Members(ch)
  BY <1>1, <1>2, <1>4, KnownOutside DEF Registered
<1>5. CASE ch \notin left
  BY <1>1, <1>2, <1>5, KnownNothing
<1> QED BY <1>3, <1>4, <1>5

\* KICK, of a member or of one who is elsewhere.
LEMMA KickKnown ==
  ASSUME IndInv, ViewInv, Observe, NEW c \in Client, NEW x \in Channel, NEW n \in Addressee,
         Kick(c, x, n), TargetCheck(c, x, n) = Granted,
         NEW d \in Client, NEW ch \in Channel, status'[d] = "REGISTER"
  PROVE  Known(d, ch)'
<1>1. PICK target \in Client : nickname[target] = n /\ Leave(target, {x})
  BY KickEffect
<1>2. /\ x \in channels /\ UNCHANGED clientVars
      /\ Reply(To(Members(x), Msg("KICK", c, x, n)), Members(x))
  BY KickEffect DEF Broadcast
<1>3. News(d, ch) = IF ch = x /\ d \in Members(ch) THEN {Msg("KICK", c, ch, n)} ELSE {}
  BY <1>2, NewsTo, ChannelAssumption DEF Msg, Tells
<1>4. /\ \A e : e \in Registered(ch)' <=> e \in Registered(ch) /\ ~(e = target /\ ch = x)
      /\ \A e \in Registered(ch)' : Same(ch, e)
  BY <1>1, <1>2, LeaveSame
<1>5. CASE ch = x /\ d \in Members(ch)
  <2>1. \A e \in Members(ch) : nickname[e] = n <=> e = target
    BY <1>1, MemberFacts
  <2>2. \A e \in Registered(ch) : e \in Members(ch)
    BY DEF Registered
  <2> QED BY <1>3, <1>4, <1>5, <2>1, <2>2, KnownLeave
<1>6. CASE d \notin Members(ch)
  BY <1>3, <1>4, <1>6, KnownOutside DEF Registered
<1>7. CASE ch # x
  BY <1>3, <1>4, <1>7, KnownNothing
<1> QED BY <1>5, <1>6, <1>7

\* QUIT, after which its sender is on its channels still, but not registered.
LEMMA QuitKnown ==
  ASSUME IndInv, ViewInv, Observe, NEW c \in Client, status[c] = "REGISTER", Quit(c),
         NEW d \in Client, NEW ch \in Channel, status'[d] = "REGISTER"
  PROVE  Known(d, ch)'
<1>1. /\ Reply(To(Audience(c), Msg("QUIT", c, NoChannel, NoNick)), {c} \cup Audience(c))
      /\ UNCHANGED <<nickname, operators, regulars>>
      /\ \A e \in Client : status'[e] = IF e = c THEN "TERMINATE" ELSE status[e]
  BY DEF Quit, rosterVars, IndInv, StateTypeOK
<1>2. News(d, ch) = IF d \in Audience(c) THEN {Msg("QUIT", c, NoChannel, NoNick)} ELSE {}
  BY <1>1, NewsTo DEF Msg, Tells
<1>3. \A e : e \in Registered(ch)' <=> e \in Registered(ch) /\ e # c
  <2>1. \A e : e \in Members(ch)' <=> e \in Members(ch)
    BY <1>1 DEF Members
  <2> QED BY <1>1, <2>1, MemberFacts DEF Registered
<1>4. \A e \in Registered(ch)' : Same(ch, e)
  BY <1>1, <1>3 DEF Same, Role
<1>5. d # c
  BY <1>1
<1>6. CASE d \in Audience(c)
  <2>1. \A e \in Registered(ch) : nickname[c] = nickname[e] <=> e = c
    BY MemberFacts DEF Registered
  <2> QED BY <1>2, <1>3, <1>4, <1>6, <2>1, KnownLeave
<1>7. CASE d \notin Registered(ch)
  BY <1>2, <1>3, <1>7, KnownOutside DEF Msg
<1>8. CASE d \notin Audience(c) /\ d \in Registered(ch)
  <2>1. c \notin Registered(ch)
    BY <1>8, AudienceFacts DEF Registered
  <2> QED BY <1>2, <1>3, <1>4, <1>5, <1>8, <2>1, KnownNothing
<1> QED BY <1>6, <1>7, <1>8

\* NICK: who does not hear of it is on no channel with c.
LEMMA NickKnown ==
  ASSUME IndInv, ViewInv, Observe, NEW c \in Client, status[c] = "REGISTER",
         NEW k \in Nick, nickname[c] # k, Named(k) = {}, NewNick(c, k),
         NEW d \in Client, NEW ch \in Channel, status'[d] = "REGISTER"
  PROVE  Known(d, ch)'
<1> DEFINE m == Msg("NICK", c, NoChannel, k)
<1>1. /\ nickname' = [nickname EXCEPT ![c] = k]
      /\ UNCHANGED <<status, operators, regulars>>
      /\ IF channelList[c] = {} THEN Reply(To({c}, m), {}) ELSE Reply(To(Audience(c), m), Audience(c))
  BY DEF NewNick, rosterVars, Broadcast
<1>2. PICK R : /\ \E L : Reply(To(R, m), L)
               /\ R = IF channelList[c] = {} THEN {c} ELSE Audience(c)
  BY <1>1
<1>3. News(d, ch) = IF d \in R THEN {m} ELSE {}
  <2>1. m.cmd \in Tells /\ m.chan = NoChannel
    BY DEF Msg, Tells
  <2> HIDE DEF m
  <2> QED BY <1>2, <2>1, NewsTo
<1>4. CASE d \in R
  BY <1>1, <1>3, <1>4, KnownNick
<1>5. CASE d \notin R
  <2>1. \A e : e \in Registered(ch)' <=> e \in Registered(ch)
    BY <1>1 DEF Registered, Members
  <2>2. CASE d \in Registered(ch)
    <3>1. c \notin Members(ch)
      BY <1>2, <1>5, <2>2, AudienceFacts DEF Registered, Audience
    <3>2. \A e \in Registered(ch) : e \in Client /\ e # c
      BY <3>1, MemberFacts DEF Registered
    <3>3. \A e \in Registered(ch)' : Same(ch, e)
      BY <1>1, <2>1, <3>2 DEF Same, Role, IndInv, StateTypeOK
    <3> QED BY <1>3, <1>5, <2>1, <3>3, KnownNothing
  <2>3. CASE d \notin Registered(ch)
    BY <1>3, <1>5, <2>1, <2>3, KnownOutside
  <2> QED BY <2>2, <2>3
<1> QED BY <1>4, <1>5

\* MODE +o and -o, when they change something.
LEMMA ModeKnown ==
  ASSUME IndInv, ViewInv, Observe, NEW c \in Client, NEW x \in Channel, NEW t \in Client,
         NEW w \in {"+o", "-o"}, Broadcast(Members(x), Msg(w, c, x, nickname[t])),
         UNCHANGED clientVars,
         IF w = "+o"
         THEN /\ t \in regulars[x]
              /\ operators' = [operators EXCEPT ![x] = @ \cup {t}]
              /\ regulars'  = [regulars EXCEPT ![x] = @ \ {t}]
         ELSE /\ t \in operators[x]
              /\ regulars'  = [regulars EXCEPT ![x] = @ \cup {t}]
              /\ operators' = [operators EXCEPT ![x] = @ \ {t}],
         NEW d \in Client, NEW ch \in Channel, status'[d] = "REGISTER"
  PROVE  Known(d, ch)'
<1>1. News(d, ch) = IF ch = x /\ d \in Members(ch) THEN {Msg(w, c, ch, nickname[t])} ELSE {}
  <2>1. Msg(w, c, x, nickname[t]).cmd \in Tells /\ Msg(w, c, x, nickname[t]).chan = x
    BY DEF Msg, Tells
  <2> QED BY <2>1, NewsTo, ChannelAssumption DEF Broadcast
<1>2. operators \in [Channel -> SUBSET Client] /\ regulars \in [Channel -> SUBSET Client]
  BY DEF IndInv, StateTypeOK
<1>3. \A e : e \in Members(ch)' <=> e \in Members(ch)
  BY <1>2 DEF Members
<1>4. \A e : ch # x \/ e # t => Role(ch, e)' = Role(ch, e)
  BY <1>2 DEF Role
<1>5. \A e : e \in Registered(ch)' <=> e \in Registered(ch)
  BY <1>3 DEF Registered, clientVars
<1>6. CASE d \notin Registered(ch)
  <2>1. \A m \in News(d, ch) : m.cmd # "JOIN"
    BY <1>1 DEF Msg
  <2> QED BY <1>5, <1>6, <2>1, KnownOutside
<1>7. CASE ch # x
  BY <1>1, <1>4, <1>5, <1>7, KnownNothing DEF Same, clientVars
<1>8. CASE ch = x /\ d \in Registered(ch)
  <2>1. t \in Members(ch) /\ d \in Members(ch)
    BY <1>8 DEF Members, Registered
  <2>2. Role(ch, t)' = IF w = "+o" THEN "operator" ELSE "regular"
    BY <1>2, <1>8 DEF Role
  <2> QED BY <1>1, <1>3, <1>4, <1>8, <2>1, <2>2, KnownMode DEF clientVars
<1> QED BY <1>6, <1>7, <1>8

\* The numerics a check ends in, none of which clients learn from.
LEMMA CheckWords ==
  ASSUME NEW c, NEW ch
  PROVE  /\ ModeCheck(c, ch) \notin Tells
         /\ TopicCheck(c, ch) \notin Tells
         /\ \A n : TargetCheck(c, ch, n) \notin Tells
         /\ PrivmsgCheck(c, ch) \notin Tells
BY DEF ModeCheck, TopicCheck, TargetCheck, PrivmsgCheck, OperatorCheck, Granted, Tells

LEMMA PrivmsgCalm ==
  ASSUME NEW c \in Client, NEW list \in Lists(Channel \cup Addressee), NEW first \in Client,
         Privmsg(c, list, first), NEW d \in Client
  PROVE  \A m \in sendBuf'[d] : m.cmd \notin Tells
<1> DEFINE sent   == {list[i] : i \in {k \in DOMAIN list :
                        \A j \in 1..k : PrivmsgCheck(c, list[j]) = Granted}}
           errors == {Numeric(PrivmsgCheck(c, list[i]), c) : i \in
                        {k \in DOMAIN list :
                           /\ PrivmsgCheck(c, list[k]) # Granted
                           /\ \A j \in 1..(k-1) :
                                PrivmsgCheck(c, list[j]) = Granted}}
           Text(x) == IF x \in Channel THEN Msg("PRIVMSG", c, x, NoNick)
                                       ELSE Msg("PRIVMSG", c, NoChannel, x)
           texts  == [e \in Client |->
                        {Text(x) : x \in {y \in sent : e \in Receivers(c, y, first)}}]
<1>1. sendBuf' = [texts EXCEPT ![c] = @ \cup errors]
  BY DEF Privmsg, Reply
<1>2. \A m \in errors : m.cmd \notin Tells
  BY CheckWords DEF Numeric, Msg
<1> HIDE DEF sent, errors
<1>3. \A x : Text(x).cmd \notin Tells
  BY DEF Msg, Tells
<1> HIDE DEF Text
<1>4. \A m \in texts[d] : m.cmd \notin Tells
  BY <1>3
<1>5. sendBuf'[d] \subseteq texts[d] \cup errors
  BY <1>1
<1> QED BY <1>2, <1>4, <1>5

\* The commands no record and no view depends on.
LEMMA QuietKnown ==
  ASSUME IndInv, ViewInv, Observe, NEW c \in Client,
         \/ \E x \in Channel, f \in Flags, on \in BOOLEAN : SetFlag(c, x, f, on)
         \/ \E x \in Channel, t \in Topic \cup {NoTopic} : SetTopic(c, x, t)
         \/ \E n \in Nick, x \in Channel : Invite(c, n, x)
         \/ \E list \in Lists(Channel \cup Addressee), first \in Client :
              Privmsg(c, list, first)
         \/ \E n \in Addressee : Notice(c, n)
         \/ Pong(c)
         \/ Ignored(c),
         NEW d \in Client, NEW ch \in Channel, status'[d] = "REGISTER"
  PROVE  Known(d, ch)'
<1>1. UNCHANGED <<status, nickname, operators, regulars>>
  BY DEF SetFlag, SetTopic, Invite, Privmsg, Notice, Pong, Ignored, Refuse, state, clientVars,
         rosterVars
<1>2. ASSUME NEW code, code \notin Tells, Refuse(c, code) \/ Answer(c, code) \/ Silence
      PROVE  \A m \in sendBuf'[d] : m.cmd \notin Tells
  BY <1>2, AnswerCalm DEF Refuse
<1>3. ASSUME NEW R, NEW w \in Word \ Tells, NEW x, NEW a, Broadcast(R, Msg(w, c, x, a))
      PROVE  \A m \in sendBuf'[d] : m.cmd \notin Tells
  BY <1>3 DEF Broadcast, Reply, To, Msg
<1>4. {"+i", "-i", "+t", "-t", "TOPIC", "INVITE", "NOTICE"} \subseteq Word \ Tells
  BY DEF Word, Tells
<1>5. {"401", "341", "PONG"} \cap Tells = {}
  BY DEF Tells
<1>6. \A m \in sendBuf'[d] : m.cmd \notin Tells
  <2>1. ASSUME NEW x \in Channel, NEW f \in Flags, NEW on \in BOOLEAN, SetFlag(c, x, f, on)
        PROVE  \A m \in sendBuf'[d] : m.cmd \notin Tells
    BY <1>2, <1>3, <1>4, <1>5, <2>1, CheckWords DEF SetFlag
  <2>2. ASSUME NEW x \in Channel, NEW t \in Topic \cup {NoTopic}, SetTopic(c, x, t)
        PROVE  \A m \in sendBuf'[d] : m.cmd \notin Tells
    BY <1>2, <1>3, <1>4, <1>5, <2>2, CheckWords DEF SetTopic
  <2>3. ASSUME NEW n \in Nick, NEW x \in Channel, Invite(c, n, x)
        PROVE  \A m \in sendBuf'[d] : m.cmd \notin Tells
    <3>1. CASE Refuse(c, TargetCheck(c, x, n))
      BY <1>2, <3>1, CheckWords
    <3>2. CASE \E target \in Named(n) :
                 Reply([To({target}, Msg("INVITE", c, x, n)) EXCEPT ![c] = @ \cup {Numeric("341", c)}],
                       {target})
      <4>1. sendBuf'[d] \subseteq {Msg("INVITE", c, x, n), Numeric("341", c)}
        BY <3>2 DEF Reply, To
      <4> QED BY <1>4, <1>5, <4>1 DEF Msg, Numeric
    <3> QED BY <2>3, <3>1, <3>2 DEF Invite
  <2>4. ASSUME NEW n \in Addressee, Notice(c, n)
        PROVE  \A m \in sendBuf'[d] : m.cmd \notin Tells
    BY <1>2, <1>3, <1>4, <1>5, <2>4 DEF Notice
  <2>5. CASE Pong(c) \/ Ignored(c)
    BY <1>2, <1>5, <2>5 DEF Pong, Ignored
  <2> QED BY <2>1, <2>2, <2>3, <2>4, <2>5, PrivmsgCalm
<1> QED BY <1>1, <1>6, CalmKnown

\* A command that is refused, or that changes nothing.
LEMMA RefusedKnown ==
  ASSUME IndInv, ViewInv, Observe, NEW c, NEW code, code \notin Tells,
         Refuse(c, code) \/ (Silence /\ UNCHANGED state),
         NEW d \in Client, NEW ch \in Channel, status'[d] = "REGISTER"
  PROVE  Known(d, ch)'
BY AnswerCalm, CalmKnown DEF Refuse, state

LEMMA ExecuteKnown ==
  ASSUME IndInv, IndInv', ViewInv, Observe, NEW c \in Client, status[c] = "REGISTER",
         Execute(c), NEW d \in Client, NEW ch \in Channel, status'[d] = "REGISTER"
  PROVE  Known(d, ch)'
<1>1. "401" \notin Tells /\ "433" \notin Tells
  BY DEF Tells
<1>2. CASE \E x \in Channel, n \in Nick, promote \in BOOLEAN : SetOperator(c, x, n, promote)
  <2>1. PICK x \in Channel, n \in Nick, promote \in BOOLEAN : SetOperator(c, x, n, promote)
    BY <1>2
  <2>2. ASSUME NEW t \in Named(n), UpdateRole(c, x, t, promote)
        PROVE  Known(d, ch)'
    <3>1. t \in Client
      BY DEF Named, Live
    <3>2. CASE Silence /\ UNCHANGED state
      BY <1>1, <3>2, RefusedKnown
    <3>3. CASE promote /\ ~(Silence /\ UNCHANGED state)
      BY <2>2, <3>1, <3>3, ModeKnown DEF UpdateRole
    <3>4. CASE ~promote /\ ~(Silence /\ UNCHANGED state)
      BY <2>2, <3>1, <3>4, ModeKnown DEF UpdateRole
    <3> QED BY <3>2, <3>3, <3>4
  <2> QED BY <1>1, <2>1, <2>2, CheckWords, RefusedKnown DEF SetOperator
<1>3. CASE \E x \in Channel, n \in Addressee : Kick(c, x, n)
  <2>1. PICK x \in Channel, n \in Addressee : Kick(c, x, n)
    BY <1>3
  <2>2. CASE TargetCheck(c, x, n) = Granted
    BY <2>1, <2>2, KickKnown
  <2>3. CASE Refuse(c, TargetCheck(c, x, n))
    BY <2>3, CheckWords, RefusedKnown
  <2> QED BY <2>1, <2>2, <2>3 DEF Kick
<1>4. CASE \E n \in Nick : NewNick(c, n)
  <2>1. PICK n \in Nick : NewNick(c, n)
    BY <1>4
  <2>2. CASE nickname[c] # n /\ Named(n) = {}
    BY <2>1, <2>2, NickKnown
  <2>3. CASE Refuse(c, "433") \/ (Silence /\ UNCHANGED state)
    BY <1>1, <2>3, RefusedKnown
  <2> QED BY <2>1, <2>2, <2>3 DEF NewNick
<1> QED BY <1>2, <1>3, <1>4, JoinKnown, PartKnown, QuitKnown, QuietKnown DEF Execute

-----------------------------------------------------------------------------
(* The invariants of Roster. *)

LEMMA ViewInit == RosterInit => IndInv /\ ViewInv
<1> SUFFICES ASSUME RosterInit
             PROVE  IndInv /\ ViewInv
  OBVIOUS
<1>1. IndInv
  BY InitInd DEF RosterInit
<1>2. /\ view = [d \in Client |-> [ch \in Channel |-> Nothing]]
      /\ \A ch \in Channel : Registered(ch) = {}
  BY DEF RosterInit, Init, Registered, Members
<1>3. Nothing \in Views
  BY DEF Nothing, Views
<1>4. ViewInv
  BY <1>2, <1>3 DEF ViewInv, OutsideNothing, MembersKnown, NobodyInvented, Views
<1> QED BY <1>1, <1>4

LEMMA ViewNext == IndInv /\ ViewInv /\ [RosterNext]_rosterState => IndInv' /\ ViewInv'
<1>1. ASSUME IndInv, ViewInv, RosterNext
      PROVE  IndInv' /\ ViewInv'
  <2>1. IndInv' /\ Observe
    BY <1>1, NextInd DEF RosterNext
  <2>2. PICK c \in Client : \/ Accept(c) \/ Timeout(c) \/ DeleteClient(c)
                            \/ status[c] = "UNREGISTER" /\ Connect(c)
                            \/ status[c] = "REGISTER" /\ Execute(c)
    BY <1>1 DEF RosterNext, Next
  <2>3. ASSUME NEW d \in Client, NEW ch \in Channel
        PROVE  Known(d, ch)'
    <3>1. CASE status'[d] # "REGISTER"
      BY <2>1, <3>1, Gone
    <3>2. CASE status'[d] = "REGISTER"
      BY <1>1, <2>1, <2>2, <3>2, LifeKnown, DeleteKnown, ExecuteKnown
    <3> QED BY <3>1, <3>2
  <2> QED BY <2>1, <2>3, KnownView DEF IndInv
<1>2. ASSUME IndInv, ViewInv, UNCHANGED rosterState
      PROVE  IndInv' /\ ViewInv'
  <2>1. UNCHANGED vars /\ UNCHANGED <<view, ghosts>>
    BY <1>2 DEF rosterState
  <2>2. IndInv'
    BY <1>2, <2>1, NextInd
  <2>3. ViewInv'
    BY <1>2, <2>1 DEF ViewInv, OutsideNothing, MembersKnown, NobodyInvented, Registered,
                      Members, Role, vars
  <2> QED BY <2>2, <2>3
<1> QED BY <1>1, <1>2

THEOREM ViewInvariance == RosterSpec => [](IndInv /\ ViewInv)
BY ViewInit, ViewNext, PTL DEF RosterSpec

\* Whatever the order of arrivals, renamings, promotions and departures, every member
\* knows every other by its present nickname and role.
THEOREM Acquainted == RosterSpec => []MembersKnown
<1>1. ViewInv => MembersKnown
  BY DEF ViewInv
<1> QED BY <1>1, ViewInvariance, PTL

\* Nobody is believed to be on a channel who is not, but for those whose end no
\* message reports.
THEOREM NoPhantoms == RosterSpec => []NobodyInvented
<1>1. ViewInv => NobodyInvented
  BY DEF ViewInv
<1> QED BY <1>1, ViewInvariance, PTL

\* A client knows which channels it is on: outside it believes nothing, and a member
\* knows at least its own name.
THEOREM Located == RosterSpec => []KnowsWhere
<1>1. IndInv /\ ViewInv => KnowsWhere
  <2> SUFFICES ASSUME IndInv, ViewInv, NEW d \in Client, NEW ch \in Channel,
                      status[d] = "REGISTER"
               PROVE  view[d][ch] # Nothing <=> d \in Members(ch)
    BY DEF KnowsWhere
  <2>1. d \in Members(ch) => view[d][ch] # Nothing
    BY InsideSomething DEF Registered
  <2>2. d \notin Members(ch) => view[d][ch] = Nothing
    BY DEF ViewInv, OutsideNothing
  <2> QED BY <2>1, <2>2
<1> QED BY <1>1, ViewInvariance, PTL
=============================================================================
