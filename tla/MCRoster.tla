------------------------------ MODULE MCRoster ------------------------------
(***************************************************************************)
(* Finite instances of Roster for TLC.                                     *)
(***************************************************************************)
EXTENDS Roster, TLC

Symmetry == Permutations(Client) \cup Permutations(Nick) \cup Permutations(Channel)

RosterView == <<state, view, ghosts>>

\* The behaviours in which nobody is invited and no flag or topic is set: these
\* decide who may enter and what may be done, but no view depends on them.  And
\* without the commands that neither change a record nor report a departure.
Plain ==
  /\ UNCHANGED <<invited, mode, topic>>
  /\ \/ state' # state
     \/ \E d \in Client : \E m \in sendBuf'[d] : m.cmd \in {"PART", "KICK"}

PlainSpec == RosterInit /\ [][Next /\ Plain /\ Observe]_rosterState
=============================================================================
