------------------------------ MODULE MCServer ------------------------------
(***************************************************************************)
(* Finite instances of Server for TLC.                                     *)
(***************************************************************************)
EXTENDS Server, TLC

\* Addresses are interchangeable, and so are descriptors: the kernel gives out the
\* lowest free one, the model any.
Symmetry == Permutations(Client) \cup Permutations(Fd)

\* The behaviours the liveness properties are checked on: every client registers or
\* leaves before its timer expires, and only the peer of one descriptor closes its
\* connection.  Of the two clients one may leave in any way, the other by QUIT.
Prompt   == \A e \in batch' : e.filter # "TIMER"
Leaver   == CHOOSE fd \in Fd : TRUE
Calm     == Prompt /\ \A fd \in Fd \ {Leaver} : conn'[fd] # "shut"
CalmSpec == Init /\ [][Next /\ Calm]_vars /\ WF_vars(Work /\ Calm)
=============================================================================
