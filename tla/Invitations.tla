---------------------------- MODULE Invitations ----------------------------
(***************************************************************************)
(* Executor with a record of who was really invited.  The server knows an  *)
(* invited client by the address of its Client object; guests knows it as  *)
(* the connection that was sent the INVITE, and forgets it when that       *)
(* connection is gone.                                                     *)
(***************************************************************************)
EXTENDS Executor

VARIABLE guests

InvitedNow(ch) ==
  {d \in Client : \E m \in sendBuf'[d] : m.cmd = "INVITE" /\ m.chan = ch}

HistoryInit == Init /\ guests = [ch \in Channel |-> {}]

HistoryNext ==
  /\ Next
  /\ guests' = [ch \in Channel |->
       IF ch \notin channels' THEN {}
       ELSE {d \in guests[ch] : status'[d] # "FREE"} \cup InvitedNow(ch)]

HistorySpec == HistoryInit /\ [][HistoryNext]_<<vars, guests>>

\* "Cannot join channel (invite only)": an invite-only channel is entered only by
\* somebody who was invited to it.  deleteClient leaves the pointer of the client
\* it deletes among the invited clients of its channels, and the next connection
\* may get the same address.
OnlyGuestsEnter ==
  [][\A ch \in channels :
       "i" \in mode[ch] => Members(ch)' \ Members(ch) \subseteq guests[ch]
    ]_<<vars, guests>>
=============================================================================
