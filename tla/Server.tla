------------------------------- MODULE Server -------------------------------
(***************************************************************************)
(* The event loop: class Server (src/src/core/Server.cpp) with the         *)
(* EventHandler it extends (src/src/handler/EventHandler.cpp), over the    *)
(* kernel's event queue.  One thread repeats: fetch a batch of events      *)
(* (monitorEvent), handle them one by one (handleEvent), delete the        *)
(* clients that ended meanwhile (garbageCollector).  Between any two of    *)
(* these steps peers connect, send and disconnect, and timers expire.      *)
(*                                                                         *)
(* What a command does is the business of Executor; here a command matters *)
(* by whom it writes to and whether it ends the client.  Executor's        *)
(* RepliesScheduled and QuitAnnounced are what this module assumes of it.  *)
(*                                                                         *)
(* registerEvent only appends to _change_list, which the next kevent call  *)
(* applies.  Since no event is fetched and no descriptor is reused before  *)
(* that call, onWrite and timer are changed at once; requested remembers   *)
(* the additions, which fail if their descriptor is closed by then.        *)
(*                                                                         *)
(* Which connections have data, which timers have expired and whether a    *)
(* connection waits to be accepted is settled when the events are fetched: *)
(* nothing looks at it in between.  A peer can disconnect at any time.     *)
(***************************************************************************)
EXTENDS Naturals, Sequences, FiniteSets

CONSTANTS
  Client,       \* the addresses a Client object can have
  Fd,           \* the descriptors the kernel can give out
  Nobody,       \* no client: a null udata, or no entry in _clients
  Listen,       \* the descriptor of the listening socket
  MaxCommands,  \* bound: the longest queue of commands of a client
  MaxEvents     \* EventHandler::_max_event

ASSUME NobodyAssumption == Nobody \notin Client
ASSUME ListenAssumption == Listen \notin Fd
ASSUME BoundAssumption  == MaxCommands \in Nat /\ MaxEvents \in Nat \ {0}

VARIABLES
  conn,       \* each descriptor: "none", "open", or "shut" by the peer
  timer,      \* the timer registered under each number, as its udata
  onWrite,    \* the write event registered for each descriptor, as its udata
  requested,  \* the EV_ADD of read and write events in EventHandler::_change_list
  clients,    \* ClientController::_clients
  status,     \* ConnectSocket::_status; "FREE": no Client object here
  commands,   \* ConnectSocket::commands
  unsent,     \* ConnectSocket::send_buf is not empty
  batch,      \* the events of EventHandler::_ev_list not handled yet
  garbage,    \* EventHandler::_garbage
  phase       \* where Server::run is; "down": the process has ended

kernelVars == <<conn, timer, onWrite>>
clientVars == <<clients, status, commands, unsent>>
vars       == <<conn, timer, onWrite, requested, clients, status, commands, unsent,
                batch, garbage, phase>>

Live == {c \in Client : status[c] # "FREE"}

\* What a command is to the loop: QUIT, or any other.
Command == {"talk", "quit"}
Queues  == UNION {[1..n -> Command] : n \in 0..MaxCommands}

\* error is EV_ERROR, which handleEvent does not look at.
Event == [filter : {"READ", "WRITE", "TIMER"}, fd : Fd \cup {Listen},
          udata : Client \cup {Nobody}, eof : BOOLEAN, error : BOOLEAN]

Ev(filter, fd, c, eof) ==
  [filter |-> filter, fd |-> fd, udata |-> c, eof |-> eof, error |-> FALSE]

-----------------------------------------------------------------------------
\* A peer closes or loses its connection.
Shut(fd) ==
  /\ conn[fd] = "open"
  /\ conn' = [conn EXCEPT ![fd] = "shut"]
  /\ UNCHANGED <<clientVars, timer, onWrite, requested, batch, garbage, phase>>

-----------------------------------------------------------------------------
(* EventHandler::monitorEvent: kevent applies the changes and returns the   *)
(* entries of those that failed, or, if none did, the events.               *)

\* A change is the filter, the descriptor and the udata of the event it asks for.
Failed == {[Ev(r[1], r[2], r[3], FALSE) EXCEPT !.error = TRUE] :
             r \in {q \in requested : conn[q[2]] = "none"}}

\* The events there are for certain: the end of a connection, and room to write.
\* (The write side of a connection the peer has shut may have ended or not.)
Certain(ended) ==
  {Ev("READ", fd, clients[fd], TRUE) : fd \in {f \in Fd : conn[f] = "shut"}}
  \cup {Ev("WRITE", fd, onWrite[fd], fd \in ended) :
          fd \in {f \in Fd : conn[f] # "none" /\ onWrite[f] # Nobody}}

\* And those there may be.  A timer is known by a number, not by the connection
\* that had that number: it goes on when the descriptor is closed.
Possible ==
  {Ev("READ", Listen, Nobody, FALSE)}
  \cup {Ev("READ", fd, clients[fd], FALSE) : fd \in {f \in Fd : conn[f] = "open"}}
  \cup {Ev("TIMER", fd, timer[fd], FALSE) : fd \in {f \in Fd : timer[f] # Nobody}}

\* At most MaxEvents at a time; the rest stay.
Fetch(events) ==
  /\ events # {}
  /\ \E B \in SUBSET events :
       /\ Cardinality(B) = IF Cardinality(events) <= MaxEvents
                           THEN Cardinality(events) ELSE MaxEvents
       /\ batch' = B

Monitor ==
  /\ phase = "monitor"
  /\ \/ Failed # {} /\ Fetch(Failed)
     \/ /\ Failed = {}
        /\ \E ended \in SUBSET {fd \in Fd : conn[fd] = "shut"}, more \in SUBSET Possible :
             Fetch(Certain(ended) \cup more)
  /\ requested' = {}
  /\ phase' = "handle"
  /\ UNCHANGED <<kernelVars, clientVars, garbage>>

-----------------------------------------------------------------------------
(* Helpers of the handlers. *)

\* registerEvent(fd, EVFILT_WRITE, EXECUTE, c) for the clients of S.
Arm(S) ==
  /\ onWrite'   = [fd \in Fd |-> IF clients[fd] \in S THEN clients[fd] ELSE onWrite[fd]]
  /\ requested' = requested \cup
                    {<<"WRITE", fd, clients[fd]>> : fd \in {f \in Fd : clients[f] \in S}}

\* Server::destroyCommands.
DestroyCommands_Kept(queue) == queue              \* mutant: the call is forgotten
DestroyCommands(queue) == <<>>

\* handleExecute is done with the write event of a client.
Finished_Sent(sent, queue) == sent        \* mutant: commands.size() is not asked
Finished(sent, queue)      == sent /\ queue = <<>>

\* Which clients reserve puts in _garbage, rather than arming them.
Ended_TimedOut(st) == st = "TIMEOUT"              \* mutant: the wrong status
Ended(st)          == st = "TERMINATE"

\* Executor::updateClientStatus(fd, c, TIMEOUT).
MayTimeOut_Registered(fd, c) ==                   \* mutant: the test is inverted
  clients[fd] = c /\ status[c] # "UNREGISTER"
MayTimeOut(fd, c) == clients[fd] = c /\ status[c] = "UNREGISTER"

\* handleEvent, for an event with EV_EOF.
OnEof_Ignored(c) == garbage                       \* mutant: the flag is not tested
OnEof(c)         == garbage \cup {c}

\* The ConnectSocket constructor sets the status, copying the object included
\* (Client's copy constructor builds its base anew).
FirstStatus_Unset == "?"                          \* mutant: it does not
FirstStatus       == "UNREGISTER"

-----------------------------------------------------------------------------
\* Server::handleAccept, for a connection that gets descriptor fd and address c.
AcceptConnection(fd, c) ==
  /\ conn[fd] = "none" /\ status[c] = "FREE"
  /\ conn'    = [conn EXCEPT ![fd] = "open"]
  /\ clients' = [clients EXCEPT ![fd] = c]
  /\ status'  = [status EXCEPT ![c] = FirstStatus]
  /\ timer'   = [timer EXCEPT ![fd] = c]
  /\ requested' = requested \cup {<<"READ", fd, c>>}
  /\ UNCHANGED <<onWrite, commands, unsent, garbage, phase>>

HandleAccept == \E fd \in Fd, c \in Client : AcceptConnection(fd, c)

-----------------------------------------------------------------------------
(* Server::handleRead, with parse, which received the commands of got, and  *)
(* connect.                                                                 *)

\* recv fails: the peer has reset the connection since the event was fetched.
Received(fd, c, got, bad) ==
  IF conn[fd] = "shut" /\ got = <<>> /\ ~bad
  THEN garbage' \in {garbage, garbage \cup {c}} ELSE UNCHANGED garbage

\* REGISTER: the commands wait for the write event; syntax errors are replies.
ReadRegistered(c, queue, bad) ==
  /\ status[c] = "REGISTER"
  /\ commands' = [commands EXCEPT ![c] = queue]
  /\ unsent'   = [unsent EXCEPT ![c] = @ \/ bad]
  /\ Arm({c})
  /\ UNCHANGED status

\* UNREGISTER: connect runs the commands up to the one that registers c, if there
\* is one, and sends the replies, or a part of them.
ReadUnregistered(c, queue, bad) ==
  /\ status[c] = "UNREGISTER"
  /\ \/ /\ commands' = [commands EXCEPT ![c] = <<>>]
        /\ \E left \in BOOLEAN :
             /\ left => unsent[c] \/ bad \/ queue # <<>>
             /\ unsent' = [unsent EXCEPT ![c] = left]
        /\ UNCHANGED status
     \/ /\ \E i \in {j \in DOMAIN queue : queue[j] # "quit"} :
             commands' = [commands EXCEPT ![c] = SubSeq(queue, i + 1, Len(queue))]
        /\ \E left \in BOOLEAN : unsent' = [unsent EXCEPT ![c] = left]
        /\ status' = [status EXCEPT ![c] = "REGISTER"]
  /\ UNCHANGED <<onWrite, requested>>

ReadEnded(c, queue, bad) ==
  /\ status[c] \in {"TIMEOUT", "TERMINATE"}
  /\ commands' = [commands EXCEPT ![c] = DestroyCommands(queue)]
  /\ unsent'   = [unsent EXCEPT ![c] = @ \/ bad]
  /\ UNCHANGED <<status, onWrite, requested>>

HandleRead(fd, c) ==
  /\ \E got \in Queues, bad \in BOOLEAN :
       LET queue == commands[c] \o got
       IN  /\ Len(queue) <= MaxCommands
           /\ Received(fd, c, got, bad)
           /\ \/ ReadRegistered(c, queue, bad)
              \/ ReadUnregistered(c, queue, bad)
              \/ ReadEnded(c, queue, bad)
  /\ UNCHANGED <<conn, timer, clients, phase>>

-----------------------------------------------------------------------------
(* Server::handleExecute: one command of the client, then reserve for those *)
(* it wrote to, then response to the client itself.                         *)

\* The command writes to the clients of R, and to its own client if own; sent says
\* whether send took all there was.
Execute(fd, c, R, own, sent) ==
  LET idle  == commands[c] = <<>>
      quit  == ~idle /\ Head(commands[c]) = "quit"
      rest  == IF idle THEN <<>> ELSE Tail(commands[c])
      list  == IF quit THEN R \cup {c} ELSE R
      left  == unsent[c] \/ own \/ c \in R
      after == [status EXCEPT ![c] = IF quit THEN "TERMINATE" ELSE @]
      ended == {d \in list : Ended(after[d])}
      armed == {f \in Fd : clients[f] \in list \ ended}
  IN  /\ idle => R = {} /\ ~own
      /\ ~left /\ conn[fd] = "open" => sent
      /\ status'   = after
      /\ commands' = [commands EXCEPT ![c] = rest]
      /\ unsent'   = [d \in Client |-> IF d = c THEN left /\ ~sent
                                       ELSE unsent[d] \/ d \in R]
      /\ garbage'  = garbage \cup ended
      /\ onWrite'  = [f \in Fd |-> IF f = fd /\ Finished(sent, rest) THEN Nobody
                                   ELSE IF f \in armed THEN clients[f] ELSE onWrite[f]]
      /\ requested' = requested \cup {<<"WRITE", f, clients[f]>> : f \in armed}

HandleExecute(fd, c) ==
  /\ \E R \in SUBSET Live, own, sent \in BOOLEAN : Execute(fd, c, R, own, sent)
  /\ UNCHANGED <<conn, timer, clients, phase>>

-----------------------------------------------------------------------------
\* Server::handleTimer.  The pointer is compared, not followed.
HandleTimer(fd, c) ==
  /\ timer' = [timer EXCEPT ![fd] = Nobody]
  /\ IF MayTimeOut(fd, c)
     THEN /\ status'  = [status EXCEPT ![c] = "TIMEOUT"]
          /\ garbage' = garbage \cup {c}
     ELSE UNCHANGED <<status, garbage>>
  /\ UNCHANGED <<conn, onWrite, requested, clients, commands, unsent, phase>>

HandleEof(c) ==
  garbage' = OnEof(c) /\ UNCHANGED <<kernelVars, clientVars, requested, phase>>

-----------------------------------------------------------------------------
\* The handler follows the pointer in the event to a client that is deleted.
Dangling(e) == e.udata \in Client /\ e.filter # "TIMER" /\ status[e.udata] = "FREE"

\* If the process survives that: freed memory that still holds what the destructors
\* left has nothing to execute; but recv fails on a closed descriptor, and parse
\* puts the pointer in _garbage.
HandleDangling(e) ==
  /\ garbage' = IF e.filter = "READ" THEN garbage \cup {e.udata} ELSE garbage
  /\ UNCHANGED <<kernelVars, clientVars, requested, phase>>

\* The process ends; the kernel closes what it had open.  createSocket throws when
\* accept returns no descriptor, because the connection is gone again or there are
\* none left, and nothing catches it before main.
MayEnd(e) == e.fd = Listen \/ Dangling(e)

Exit ==
  /\ phase' = "down"
  /\ conn' = [fd \in Fd |-> "none"]
  /\ timer' = [fd \in Fd |-> Nobody]
  /\ onWrite' = [fd \in Fd |-> Nobody]
  /\ clients' = [fd \in Fd |-> Nobody]
  /\ requested' = {} /\ batch' = {} /\ garbage' = {}
  /\ status' = [c \in Client |-> "FREE"]
  /\ commands' = [c \in Client |-> <<>>]
  /\ unsent' = [c \in Client |-> FALSE]

\* EventHandler::handleEvent.
Handle(e) ==
  \/ e.fd = Listen /\ HandleAccept
  \/ e.filter = "TIMER" /\ HandleTimer(e.fd, e.udata)
  \/ /\ e.fd # Listen /\ e.filter # "TIMER" /\ ~Dangling(e)
     /\ \/ e.eof /\ HandleEof(e.udata)
        \/ ~e.eof /\ e.filter = "READ" /\ HandleRead(e.fd, e.udata)
        \/ ~e.eof /\ e.filter = "WRITE" /\ HandleExecute(e.fd, e.udata)
  \/ Dangling(e) /\ HandleDangling(e)

HandleEvent ==
  /\ phase = "handle"
  /\ \E e \in batch :
       \/ Handle(e) /\ batch' = batch \ {e}
       \/ MayEnd(e) /\ Exit

\* The collector runs when every event of the batch is handled.
BatchDone_Any == TRUE                \* mutant: collected after every event
BatchDone     == batch = {}

\* ClientController::erase.
Erase_Forgotten(closed) == clients                \* mutant: the entry stays
Erase(closed) == [fd \in Fd |-> IF fd \in closed THEN Nobody ELSE clients[fd]]

\* Server::handleClose closes the connections of _garbage, which removes their read
\* and write events but not their timers, and deletes the clients.  One that is
\* deleted already has no connection and no entry in _clients left.
HandleClose ==
  LET closed == {fd \in Fd : clients[fd] \in garbage}
  IN  /\ conn'     = [fd \in Fd |-> IF fd \in closed THEN "none" ELSE conn[fd]]
      /\ onWrite'  = [fd \in Fd |-> IF fd \in closed THEN Nobody ELSE onWrite[fd]]
      /\ clients'  = Erase(closed)
      /\ status'   = [c \in Client |-> IF c \in garbage THEN "FREE" ELSE status[c]]
      /\ commands' = [c \in Client |-> IF c \in garbage THEN <<>> ELSE commands[c]]
      /\ unsent'   = [c \in Client |-> c \notin garbage /\ unsent[c]]
      /\ garbage'  = {}
      /\ phase'    = IF batch = {} THEN "monitor" ELSE phase
      /\ UNCHANGED <<timer, requested, batch>>

\* EventHandler::garbageCollector.  Following a pointer to a deleted client may end
\* the process here too.
GarbageCollector ==
  /\ phase = "handle" /\ BatchDone
  /\ \/ HandleClose
     \/ (\E c \in garbage : status[c] = "FREE") /\ Exit

-----------------------------------------------------------------------------
Init ==
  /\ conn = [fd \in Fd |-> "none"]
  /\ timer = [fd \in Fd |-> Nobody]
  /\ onWrite = [fd \in Fd |-> Nobody]
  /\ requested = {}
  /\ clients = [fd \in Fd |-> Nobody]
  /\ status = [c \in Client |-> "FREE"]
  /\ commands = [c \in Client |-> <<>>]
  /\ unsent = [c \in Client |-> FALSE]
  /\ batch = {}
  /\ garbage = {}
  /\ phase = "monitor"

Run  == Monitor \/ HandleEvent \/ GarbageCollector
Next == Run \/ \E fd \in Fd : Shut(fd)

Spec == Init /\ [][Next]_vars

\* The process runs whenever it has something to do: kevent returns when there are
\* events, and no handler blocks.  That other events may come is nothing to rely on.
Ready == Failed # {} \/ Certain({}) # {}
Work  == (Ready /\ Monitor) \/ HandleEvent \/ GarbageCollector

FairSpec == Spec /\ WF_vars(Work)

-----------------------------------------------------------------------------
\* Every variable has its type.
TypeOK ==
  /\ conn \in [Fd -> {"none", "open", "shut"}]
  /\ timer \in [Fd -> Client \cup {Nobody}]
  /\ onWrite \in [Fd -> Client \cup {Nobody}]
  /\ requested \in SUBSET ({"READ", "WRITE"} \X Fd \X Client)
  /\ clients \in [Fd -> Client \cup {Nobody}]
  /\ status \in [Client -> {"FREE", "UNREGISTER", "REGISTER", "TIMEOUT", "TERMINATE"}]
  /\ commands \in [Client -> Seq(Command)]
  /\ unsent \in [Client -> BOOLEAN]
  /\ batch \in SUBSET Event
  /\ garbage \in SUBSET Client
  /\ phase \in {"monitor", "handle", "down"}

\* A client exists exactly as long as its connection, under one descriptor.
ClientsMatchConnections ==
  /\ \A fd \in Fd : clients[fd] = Nobody <=> conn[fd] = "none"
  /\ \A c \in Client : status[c] # "FREE" <=> \E fd \in Fd : clients[fd] = c
  /\ \A f, g \in Fd : clients[f] = clients[g] /\ clients[f] # Nobody => f = g

\* The pointers the loop keeps are to the client they were made for: deletion
\* waits for the end of the batch, so that a client whose end and other events are
\* in one batch, in whatever order, is still there for each of them.  The entries of
\* failed changes are not among these (see Dispatch); and what parse puts in _garbage
\* for one of them is a client that is deleted, but the collector passes before
\* anybody is accepted at that address, so that nobody else is deleted for it.
PointersLive ==
  /\ \A e \in batch : e.udata # Nobody /\ e.filter # "TIMER" /\ ~e.error =>
       clients[e.fd] = e.udata
  /\ \A c \in garbage : \/ status[c] # "FREE"
                        \/ phase = "handle" /\ \A e \in batch : e.error
  /\ \A fd \in Fd : onWrite[fd] \in {Nobody, clients[fd]}

\* Who has quit or timed out is deleted before events are fetched again.
EndedCollected ==
  \A c \in Client : status[c] \in {"TERMINATE", "TIMEOUT"} => c \in garbage

\* Commands wait only for clients that have registered: handleExecute, which does
\* not ask, never runs one for somebody who has not given the password.
CommandsRegistered ==
  \A c \in Client : commands[c] # <<>> => status[c] \in {"REGISTER", "TERMINATE"}

\* The inductive invariant behind these.  They need each other, and further: what
\* is in a batch.  The listening socket's event carries no pointer, every other one
\* does; a descriptor has at most one write event, and it is registered until that
\* event is handled;
EventsWellFormed ==
  /\ \A e \in batch : IF e.fd = Listen THEN e.filter = "READ" /\ e.udata = Nobody
                      ELSE e.udata # Nobody
  /\ \A e \in batch : e.filter = "WRITE" /\ ~e.error => onWrite[e.fd] = e.udata
  /\ \A d, e \in batch : d.filter = "WRITE" /\ e.filter = "WRITE" /\ d.fd = e.fd
                          /\ ~d.error /\ ~e.error => d = e

\* a change fails only after the collector has deleted the client it was made for,
\* and the entries of failed changes come by themselves, so that nobody is accepted
\* at the address before the last of them is handled.
FailedDeleted ==
  /\ \A r \in requested : clients[r[2]] = r[3] \/ (phase = "monitor" /\ status[r[3]] = "FREE")
  /\ \A e \in batch : e.error =>
       /\ e.fd # Listen /\ e.filter # "TIMER" /\ status[e.udata] = "FREE"
       /\ \A d \in batch : d.error

LoopInv == /\ TypeOK /\ ClientsMatchConnections /\ PointersLive /\ EndedCollected
           /\ CommandsRegistered /\ EventsWellFormed /\ FailedDeleted

Idle(c)  == commands[c] = <<>> /\ ~unsent[c]
Armed(c) == \E fd \in Fd : onWrite[fd] = c
Timed(c) == \E fd \in Fd : clients[fd] = c /\ timer[fd] = c

\* No step lets a registered client's work go to sleep: if it has nothing to do or
\* its write event is registered, that is so afterwards.  D_WRITE is decided on the
\* client's own queue and buffer, while others write to it in the same batch.  And
\* what connect leaves asleep, commands behind the registration or the rest of a
\* reply, is woken by the client's next command, or a message when none waited.
WakeupKept ==
  [][\A c \in Client :
       /\ status[c] = "REGISTER" /\ status'[c] = "REGISTER"
       /\ \/ Idle(c) \/ Armed(c)
          \/ commands'[c] # commands[c] \/ unsent'[c] # unsent[c]
       => Idle(c)' \/ Armed(c)']_vars

\* A client that has not registered keeps its timer until it registers or ends,
\* unless an event of an earlier client's timer, under the same number and in the
\* batch that accepted this one, takes it away.
TimerKept ==
  [][\A c \in Client :
       /\ status[c] = "UNREGISTER" /\ status'[c] = "UNREGISTER" /\ Timed(c)
       => \/ Timed(c)'
          \/ \E e \in batch \ batch' :
               e.filter = "TIMER" /\ e.udata # c /\ clients[e.fd] = c]_vars

\* A connection the peer has closed is closed here too, and its client deleted.
ClosedFreed ==
  \A fd \in Fd : conn[fd] = "shut" ~> (conn[fd] = "none" \/ phase = "down")

\* A QUIT behind other commands is reached once the client's write event is
\* registered, however many clients write to it and whatever else it sends.
QuitLeaves ==
  \A c \in Client :
    (status[c] = "REGISTER" /\ Armed(c) /\ \E i \in DOMAIN commands[c] : commands[c][i] = "quit")
      ~> (status[c] # "REGISTER" \/ phase = "down")

\* "Handle events of detected by monitorEvent": no handler is given a pointer to a
\* client that is deleted.  A write event is requested for a client that ends in the
\* same batch, or a read event for one that is accepted in the batch and timed out by
\* a timer of an earlier client; the request fails, and kevent returns it as an entry
\* with EV_ERROR.
Dispatch == [][\A e \in batch \ batch' : ~Dangling(e)]_vars
=============================================================================
