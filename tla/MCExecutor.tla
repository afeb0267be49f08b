----------------------------- MODULE MCExecutor -----------------------------
(***************************************************************************)
(* Finite instances of Executor for TLC.                                   *)
(***************************************************************************)
EXTENDS Executor, TLC

\* Clients, nicknames and channels are interchangeable.
Symmetry == Permutations(Client) \cup Permutations(Nick) \cup Permutations(Channel)

\* What the last handler sent has no influence on what happens next, so states
\* that differ in it only are explored once; the properties about it are action
\* properties, which TLC evaluates on every transition.
StateView == state
=============================================================================
