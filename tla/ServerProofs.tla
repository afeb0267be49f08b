---------------------------- MODULE ServerProofs ----------------------------
(***************************************************************************)
(* What holds of the event loop for any number of clients, descriptors and *)
(* events: Server's inductive invariant LoopInv, the invariants it is made *)
(* of, and from it the two action properties about what a step may not     *)
(* take away.                                                              *)
(***************************************************************************)
EXTENDS Server, TLAPS

\* What the handlers can rely on about an event they are given: every event but the
\* listening socket's is for a descriptor and carries a client; an expired timer is
\* no failed change; and unless the client is deleted, an event that is not a timer's
\* is for the descriptor of the client it carries.
LEMMA Given ==
  ASSUME LoopInv, NEW e \in batch
  PROVE  /\ e \in Event
         /\ e.fd # Listen => e.fd \in Fd /\ e.udata \in Client
         /\ e.filter # "READ" => e.fd # Listen
         /\ e.filter = "TIMER" => ~e.error
         /\ e.fd # Listen /\ e.filter # "TIMER" /\ ~Dangling(e) =>
              ~e.error /\ clients[e.fd] = e.udata /\ status[e.udata] # "FREE"
<1>1. e \in Event
  BY DEF LoopInv, TypeOK
<1>2. e.fd # Listen => e.fd \in Fd /\ e.udata \in Client
  BY <1>1 DEF LoopInv, EventsWellFormed, Event
<1>3. (e.filter # "READ" => e.fd # Listen) /\ (e.filter = "TIMER" => ~e.error)
  BY DEF LoopInv, EventsWellFormed, FailedDeleted
<1>4. ASSUME e.fd # Listen, e.filter # "TIMER", ~Dangling(e)
      PROVE  ~e.error /\ clients[e.fd] = e.udata /\ status[e.udata] # "FREE"
  <2>1. status[e.udata] # "FREE"
    BY <1>2, <1>4 DEF Dangling
  <2>2. ~e.error
    BY <2>1 DEF LoopInv, FailedDeleted
  <2> QED
    BY <1>2, <1>4, <2>1, <2>2, NobodyAssumption DEF LoopInv, PointersLive
<1> QED
  BY <1>1, <1>2, <1>3, <1>4

\* A client that has a descriptor is a client, and the only one that has it.
LEMMA Holder ==
  ASSUME LoopInv, NEW fd \in Fd, NEW c \in Client, clients[fd] = c
  PROVE  /\ status[c] # "FREE" /\ conn[fd] # "none"
         /\ \A f \in Fd : clients[f] = c => f = fd
BY NobodyAssumption DEF LoopInv, ClientsMatchConnections

-----------------------------------------------------------------------------
(* Frame lemmas: what the invariant needs of a step that creates and        *)
(* deletes no client.                                                       *)

\* A step that handles the event e and leaves the descriptors to their clients.
LEMMA HandlerFrame ==
  ASSUME LoopInv, TypeOK', NEW e \in batch, phase = "handle", batch' = batch \ {e},
         UNCHANGED <<conn, clients, phase>>,
         \A d \in Client : status'[d] = "FREE" <=> status[d] = "FREE",
         \A f \in Fd : \/ onWrite'[f] = onWrite[f]
                       \/ clients[f] \in Client /\ onWrite'[f] = clients[f]
                       \/ f = e.fd /\ e.filter = "WRITE" /\ ~e.error /\ onWrite'[f] = Nobody,
         \A r \in requested' : r \in requested \/ clients[r[2]] = r[3],
         \A d \in garbage' : d \in garbage \/ status[d] # "FREE" \/ e.error,
         EndedCollected', CommandsRegistered'
  PROVE  LoopInv'
<1>1. ClientsMatchConnections'
  BY DEF LoopInv, ClientsMatchConnections
<1>2. PointersLive'
  <2>1. ASSUME NEW d \in garbage', status'[d] = "FREE"
        PROVE  \A g \in batch' : g.error
    <3>1. d \in Client /\ status[d] = "FREE"
      BY <2>1 DEF TypeOK
    <3>2. CASE d \in garbage
      BY <3>1, <3>2 DEF LoopInv, PointersLive
    <3>3. CASE e.error
      BY <3>3 DEF LoopInv, FailedDeleted
    <3> QED
      BY <2>1, <3>1, <3>2, <3>3
  <2> QED
    BY <2>1 DEF LoopInv, PointersLive
<1>3. EventsWellFormed'
  <2>1. \A d \in batch' : d \in batch /\ d # e
    OBVIOUS
  <2>2. ASSUME NEW d \in batch', d.filter = "WRITE", ~d.error
        PROVE  onWrite'[d.fd] = d.udata
    <3>1. d.fd \in Fd /\ d.udata # Nobody /\ onWrite[d.fd] = d.udata
      BY <2>1, <2>2, Given DEF LoopInv, EventsWellFormed
    <3>2. clients[d.fd] = d.udata
      BY <2>1, <2>2, <3>1 DEF LoopInv, PointersLive
    <3>3. ~(d.fd = e.fd /\ e.filter = "WRITE" /\ ~e.error)
      BY <2>1, <2>2 DEF LoopInv, EventsWellFormed
    <3> QED
      BY <3>1, <3>2, <3>3
  <2> QED
    BY <2>1, <2>2 DEF LoopInv, EventsWellFormed
<1>4. FailedDeleted'
  <2>1. \A r \in requested' : clients'[r[2]] = r[3]
    BY DEF LoopInv, FailedDeleted
  <2>2. \A d \in batch' : d \in batch /\ (d.error => d.udata \in Client)
    BY Given DEF LoopInv, FailedDeleted
  <2> QED
    BY <2>1, <2>2 DEF LoopInv, FailedDeleted
<1> QED
  BY <1>1, <1>2, <1>3, <1>4 DEF LoopInv
-----------------------------------------------------------------------------
(* The invariant is inductive: one lemma per action.                        *)

LEMMA InitInd == Init => LoopInv
<1> SUFFICES ASSUME Init PROVE LoopInv
  OBVIOUS
<1>1. TypeOK
  BY DEF Init, TypeOK
<1>2. ClientsMatchConnections /\ PointersLive /\ EndedCollected /\ CommandsRegistered
  BY NobodyAssumption
  DEF Init, ClientsMatchConnections, PointersLive, EndedCollected, CommandsRegistered
<1>3. EventsWellFormed /\ FailedDeleted
  BY DEF Init, EventsWellFormed, FailedDeleted
<1> QED
  BY <1>1, <1>2, <1>3 DEF LoopInv

LEMMA ShutInd ==
  ASSUME LoopInv, NEW fd \in Fd, Shut(fd)
  PROVE  LoopInv'
<1>1. TypeOK'
  BY DEF LoopInv, TypeOK, Shut, clientVars
<1>2. ClientsMatchConnections'
  BY DEF LoopInv, TypeOK, ClientsMatchConnections, Shut, clientVars
<1>3. PointersLive' /\ EndedCollected' /\ CommandsRegistered'
  BY DEF LoopInv, PointersLive, EndedCollected, CommandsRegistered, Shut, clientVars
<1>4. EventsWellFormed' /\ FailedDeleted'
  BY DEF LoopInv, EventsWellFormed, FailedDeleted, Shut, clientVars
<1> QED
  BY <1>1, <1>2, <1>3, <1>4 DEF LoopInv

\* A batch of failed changes: the descriptors are closed, so their clients deleted.
LEMMA FailedBatch ==
  ASSUME LoopInv, phase = "monitor", NEW e \in Failed
  PROVE  /\ e \in Event /\ e.fd \in Fd /\ e.udata \in Client
         /\ e.filter # "TIMER" /\ e.error /\ status[e.udata] = "FREE"
<1>1. PICK r \in requested :
        conn[r[2]] = "none" /\ e = [Ev(r[1], r[2], r[3], FALSE) EXCEPT !.error = TRUE]
  BY DEF Failed
<1>2. r[1] \in {"READ", "WRITE"} /\ r[2] \in Fd /\ r[3] \in Client
  BY DEF LoopInv, TypeOK
<1>3. e.filter = r[1] /\ e.fd = r[2] /\ e.udata = r[3] /\ e.error
  BY <1>1 DEF Ev
<1>4. e \in Event
  BY <1>1, <1>2 DEF Ev, Event
<1>5. status[r[3]] = "FREE"
  BY <1>1, <1>2, NobodyAssumption DEF LoopInv, ClientsMatchConnections, FailedDeleted
<1> QED
  BY <1>2, <1>3, <1>4, <1>5

\* A batch of events: none is an error, and each carries what is registered.
LEMMA EventBatch ==
  ASSUME LoopInv, NEW ended, NEW more \in SUBSET Possible, NEW e \in Certain(ended) \cup more
  PROVE  /\ e \in Event /\ ~e.error
         /\ IF e.fd = Listen THEN e.filter = "READ" /\ e.udata = Nobody
            ELSE e.udata # Nobody
         /\ e.filter = "WRITE" => e = Ev("WRITE", e.fd, onWrite[e.fd], e.fd \in ended)
         /\ e.udata # Nobody /\ e.filter # "TIMER" => clients[e.fd] = e.udata
<1> DEFINE Registered(fd) == onWrite[fd] # Nobody /\ clients[fd] = onWrite[fd]
<1>1. \A fd \in Fd : conn[fd] # "none" => clients[fd] # Nobody
  BY DEF LoopInv, ClientsMatchConnections
<1>2. \A fd \in Fd : onWrite[fd] # Nobody => clients[fd] = onWrite[fd]
  BY DEF LoopInv, PointersLive
<1>3. \/ \E fd \in Fd : conn[fd] # "none" /\ \E b \in BOOLEAN : e = Ev("READ", fd, clients[fd], b)
      \/ \E fd \in Fd : onWrite[fd] # Nobody /\ e = Ev("WRITE", fd, onWrite[fd], fd \in ended)
      \/ \E fd \in Fd : timer[fd] # Nobody /\ e = Ev("TIMER", fd, timer[fd], FALSE)
      \/ e = Ev("READ", Listen, Nobody, FALSE)
  BY DEF Certain, Possible
<1>4. CASE \E fd \in Fd : conn[fd] # "none" /\ \E b \in BOOLEAN : e = Ev("READ", fd, clients[fd], b)
  BY <1>1, <1>4, ListenAssumption DEF LoopInv, TypeOK, Ev, Event
<1>5. CASE \E fd \in Fd : onWrite[fd] # Nobody /\ e = Ev("WRITE", fd, onWrite[fd], fd \in ended)
  BY <1>2, <1>5, ListenAssumption DEF LoopInv, TypeOK, Ev, Event
<1>6. CASE \E fd \in Fd : timer[fd] # Nobody /\ e = Ev("TIMER", fd, timer[fd], FALSE)
  BY <1>6, ListenAssumption DEF LoopInv, TypeOK, Ev, Event
<1>7. CASE e = Ev("READ", Listen, Nobody, FALSE)
  BY <1>7 DEF Ev, Event
<1> QED
  BY <1>3, <1>4, <1>5, <1>6, <1>7

LEMMA MonitorInd ==
  ASSUME LoopInv, Monitor
  PROVE  LoopInv'
<1>1. /\ UNCHANGED <<conn, timer, onWrite, clients, status, commands, unsent, garbage>>
      /\ requested' = {} /\ phase = "monitor" /\ phase' = "handle"
  BY DEF Monitor, kernelVars, clientVars
<1>2. ClientsMatchConnections' /\ EndedCollected' /\ CommandsRegistered'
  BY <1>1 DEF LoopInv, ClientsMatchConnections, EndedCollected, CommandsRegistered
<1>3. CASE batch' \subseteq Failed
  <2>1. \A e \in batch' : e \in Event /\ e.fd \in Fd /\ e.udata \in Client
                          /\ e.filter # "TIMER" /\ e.error /\ status[e.udata] = "FREE"
    BY <1>1, <1>3, FailedBatch
  <2>2. TypeOK' /\ PointersLive'
    BY <1>1, <2>1 DEF LoopInv, TypeOK, PointersLive
  <2>3. EventsWellFormed' /\ FailedDeleted'
    BY <1>1, <2>1, NobodyAssumption, ListenAssumption DEF EventsWellFormed, FailedDeleted
  <2> QED
    BY <1>2, <2>2, <2>3 DEF LoopInv
<1>4. CASE \E ended \in SUBSET {fd \in Fd : conn[fd] = "shut"}, more \in SUBSET Possible :
             batch' \subseteq Certain(ended) \cup more
  <2> PICK ended \in SUBSET {fd \in Fd : conn[fd] = "shut"}, more \in SUBSET Possible :
             batch' \subseteq Certain(ended) \cup more
    BY <1>4
  <2>1. \A e \in batch' :
          /\ e \in Event /\ ~e.error
          /\ IF e.fd = Listen THEN e.filter = "READ" /\ e.udata = Nobody
             ELSE e.udata # Nobody
          /\ e.filter = "WRITE" => e = Ev("WRITE", e.fd, onWrite[e.fd], e.fd \in ended)
          /\ e.udata # Nobody /\ e.filter # "TIMER" => clients[e.fd] = e.udata
    BY EventBatch
  <2>2. TypeOK' /\ PointersLive'
    BY <1>1, <2>1 DEF LoopInv, TypeOK, PointersLive
  <2>3. FailedDeleted'
    BY <1>1, <2>1 DEF FailedDeleted
  <2>4. \A e \in batch' : e.filter = "WRITE" => onWrite[e.fd] = e.udata
    BY <2>1 DEF Ev
  <2>5. EventsWellFormed'
    BY <1>1, <2>1, <2>4 DEF EventsWellFormed
  <2> QED
    BY <1>2, <2>2, <2>3, <2>5 DEF LoopInv
<1> QED
  BY <1>3, <1>4 DEF Monitor, Fetch

LEMMA AcceptInd ==
  ASSUME LoopInv, NEW e \in batch, e.fd = Listen, phase = "handle", batch' = batch \ {e},
         NEW fd \in Fd, NEW c \in Client, AcceptConnection(fd, c)
  PROVE  LoopInv'
<1>1. /\ conn[fd] = "none" /\ clients[fd] = Nobody /\ onWrite[fd] = Nobody
      /\ status[c] = "FREE" /\ \A f \in Fd : clients[f] # c
  BY DEF AcceptConnection, LoopInv, ClientsMatchConnections, PointersLive
<1>2. /\ clients' = [clients EXCEPT ![fd] = c] /\ conn' = [conn EXCEPT ![fd] = "open"]
      /\ status' = [status EXCEPT ![c] = "UNREGISTER"] /\ timer' = [timer EXCEPT ![fd] = c]
      /\ requested' = requested \cup {<<"READ", fd, c>>}
      /\ UNCHANGED <<onWrite, commands, unsent, garbage, phase>>
  BY DEF AcceptConnection, FirstStatus
<1>3. TypeOK'
  BY <1>2 DEF LoopInv, TypeOK
<1>4. ClientsMatchConnections'
  <2>1. \A f \in Fd : clients'[f] = IF f = fd THEN c ELSE clients[f]
    BY <1>2 DEF LoopInv, TypeOK
  <2>2. \A f \in Fd : conn'[f] = IF f = fd THEN "open" ELSE conn[f]
    BY <1>2 DEF LoopInv, TypeOK
  <2>3. \A d \in Client : status'[d] = IF d = c THEN "UNREGISTER" ELSE status[d]
    BY <1>2 DEF LoopInv, TypeOK
  <2>4. \A f \in Fd : clients'[f] = Nobody <=> conn'[f] = "none"
    BY <2>1, <2>2, NobodyAssumption DEF LoopInv, ClientsMatchConnections
  <2>5. \A d \in Client : status'[d] # "FREE" <=> \E f \in Fd : clients'[f] = d
    BY <1>1, <2>1, <2>3, NobodyAssumption DEF LoopInv, ClientsMatchConnections
  <2>6. \A f, g \in Fd : clients'[f] = clients'[g] /\ clients'[f] # Nobody => f = g
    BY <1>1, <2>1 DEF LoopInv, ClientsMatchConnections
  <2> QED
    BY <2>4, <2>5, <2>6 DEF ClientsMatchConnections
\* Nothing fetched is for the descriptor given out now, nothing failed, and so
\* nobody in _garbage is deleted.
<1>5. /\ \A d \in batch' : d \in batch /\ ~d.error
      /\ \A d \in garbage : d \in Client /\ status[d] # "FREE"
  BY DEF LoopInv, TypeOK, PointersLive, FailedDeleted
<1>6. PointersLive'
  BY <1>1, <1>2, <1>5 DEF LoopInv, TypeOK, PointersLive
<1>7. EndedCollected' /\ CommandsRegistered'
  <2>1. commands[c] = <<>>
    BY <1>1 DEF LoopInv, CommandsRegistered
  <2> QED
    BY <1>2, <2>1 DEF LoopInv, TypeOK, EndedCollected, CommandsRegistered
<1>8. EventsWellFormed'
  BY <1>2, <1>5 DEF LoopInv, EventsWellFormed
<1>9. FailedDeleted'
  <2>1. \A r \in requested : r[2] \in Fd /\ r[3] \in Client /\ clients[r[2]] = r[3]
    BY DEF LoopInv, TypeOK, FailedDeleted
  <2> QED
    BY <1>1, <1>2, <1>5, <2>1, NobodyAssumption DEF LoopInv, TypeOK, FailedDeleted
<1> QED
  BY <1>3, <1>4, <1>6, <1>7, <1>8, <1>9 DEF LoopInv

\* registerEvent registers a client's write event under its own descriptor.
LEMMA ArmType ==
  ASSUME LoopInv, NEW S \in SUBSET Client, Arm(S)
  PROVE  /\ onWrite' \in [Fd -> Client \cup {Nobody}]
         /\ requested' \in SUBSET ({"READ", "WRITE"} \X Fd \X Client)
         /\ \A f \in Fd : \/ onWrite'[f] = onWrite[f]
                          \/ clients[f] \in Client /\ onWrite'[f] = clients[f]
         /\ \A r \in requested' : r \in requested \/ clients[r[2]] = r[3]
BY DEF LoopInv, TypeOK, Arm

LEMMA ReadInd ==
  ASSUME LoopInv, NEW e \in batch, phase = "handle", batch' = batch \ {e},
         e.fd # Listen, e.filter # "TIMER", ~Dangling(e), HandleRead(e.fd, e.udata)
  PROVE  LoopInv'
<1> DEFINE c == e.udata
           fd == e.fd
<1>1. fd \in Fd /\ c \in Client /\ clients[fd] = c /\ status[c] # "FREE" /\ ~e.error
  BY Given
<1> HIDE DEF c, fd
<1>2. PICK got \in Queues, bad \in BOOLEAN :
         LET queue == commands[c] \o got
         IN  /\ Received(fd, c, got, bad)
             /\ \/ ReadRegistered(c, queue, bad)
                \/ ReadUnregistered(c, queue, bad)
                \/ ReadEnded(c, queue, bad)
  BY DEF HandleRead, c, fd
<1> DEFINE queue == commands[c] \o got
<1>3. UNCHANGED <<conn, timer, clients, phase>>
  BY DEF HandleRead
<1>4. queue \in Seq(Command)
  <2>1. got \in Seq(Command)
    BY BoundAssumption DEF Queues
  <2> QED
    BY <1>1, <2>1 DEF LoopInv, TypeOK
<1> HIDE DEF queue
<1>5. garbage' = garbage \/ garbage' = garbage \cup {c}
  BY <1>2 DEF Received
<1>6. garbage' \in SUBSET Client /\ \A d \in garbage' : d \in garbage \/ status[d] # "FREE"
  BY <1>1, <1>5 DEF LoopInv, TypeOK
<1>7. /\ onWrite' \in [Fd -> Client \cup {Nobody}]
      /\ requested' \in SUBSET ({"READ", "WRITE"} \X Fd \X Client)
      /\ \A f \in Fd : \/ onWrite'[f] = onWrite[f]
                       \/ clients[f] \in Client /\ onWrite'[f] = clients[f]
      /\ \A r \in requested' : r \in requested \/ clients[r[2]] = r[3]
      /\ status' \in [Client -> {"FREE", "UNREGISTER", "REGISTER", "TIMEOUT", "TERMINATE"}]
      /\ commands' \in [Client -> Seq(Command)] /\ unsent' \in [Client -> BOOLEAN]
      /\ \A d \in Client : status'[d] = "FREE" <=> status[d] = "FREE"
      /\ EndedCollected' /\ CommandsRegistered'
  <2>1. CASE ReadRegistered(c, queue, bad)
    <3>1. Arm({c}) /\ UNCHANGED status /\ status[c] = "REGISTER"
          /\ commands' = [commands EXCEPT ![c] = queue]
          /\ unsent' = [unsent EXCEPT ![c] = @ \/ bad]
      BY <2>1 DEF ReadRegistered
    <3>2. /\ status' \in [Client -> {"FREE", "UNREGISTER", "REGISTER", "TIMEOUT", "TERMINATE"}]
          /\ commands' \in [Client -> Seq(Command)] /\ unsent' \in [Client -> BOOLEAN]
      BY <1>1, <1>4, <3>1 DEF LoopInv, TypeOK
    <3>3. EndedCollected' /\ CommandsRegistered'
      BY <1>5, <3>1 DEF LoopInv, TypeOK, EndedCollected, CommandsRegistered
    <3>4. {c} \in SUBSET Client
      BY <1>1
    <3> QED
      BY <3>1, <3>2, <3>3, <3>4, ArmType
  <2>2. CASE ReadUnregistered(c, queue, bad)
    <3>1. status[c] = "UNREGISTER" /\ UNCHANGED <<onWrite, requested>>
      BY <2>2 DEF ReadUnregistered
    <3>2. PICK left \in BOOLEAN : unsent' = [unsent EXCEPT ![c] = left]
      BY <2>2 DEF ReadUnregistered
    <3>3. CASE commands' = [commands EXCEPT ![c] = <<>>] /\ UNCHANGED status
      BY <1>1, <1>5, <3>1, <3>2, <3>3
      DEF LoopInv, TypeOK, EndedCollected, CommandsRegistered
    <3>4. CASE /\ \E i \in {j \in DOMAIN queue : queue[j] # "quit"} :
                    commands' = [commands EXCEPT ![c] = SubSeq(queue, i + 1, Len(queue))]
               /\ status' = [status EXCEPT ![c] = "REGISTER"]
      <4>1. PICK i \in DOMAIN queue :
                    commands' = [commands EXCEPT ![c] = SubSeq(queue, i + 1, Len(queue))]
        BY <3>4
      <4>2. SubSeq(queue, i + 1, Len(queue)) \in Seq(Command)
        BY <1>4, <4>1
      <4> QED
        BY <1>1, <1>5, <3>1, <3>2, <3>4, <4>1, <4>2
        DEF LoopInv, TypeOK, EndedCollected, CommandsRegistered
    <3> QED
      BY <2>2, <3>3, <3>4 DEF ReadUnregistered
  <2>3. CASE ReadEnded(c, queue, bad)
    BY <1>1, <1>5, <2>3
    DEF ReadEnded, DestroyCommands, LoopInv, TypeOK, EndedCollected, CommandsRegistered
  <2> QED
    BY <1>2, <2>1, <2>2, <2>3 DEF queue
<1>8. TypeOK'
  BY <1>3, <1>6, <1>7 DEF LoopInv, TypeOK
<1> QED
  BY <1>3, <1>6, <1>7, <1>8, HandlerFrame

LEMMA ExecuteInd ==
  ASSUME LoopInv, NEW e \in batch, phase = "handle", batch' = batch \ {e},
         e.fd # Listen, e.filter = "WRITE", ~Dangling(e), HandleExecute(e.fd, e.udata)
  PROVE  LoopInv'
<1> DEFINE c == e.udata
           fd == e.fd
<1>1. fd \in Fd /\ c \in Client /\ clients[fd] = c /\ status[c] # "FREE" /\ ~e.error
  BY Given
<1>2. UNCHANGED <<conn, timer, clients, phase>>
  BY DEF HandleExecute
<1>3. PICK R \in SUBSET Live, own \in BOOLEAN, sent \in BOOLEAN :
        Execute(fd, c, R, own, sent)
  BY DEF HandleExecute
<1> DEFINE idle == commands[c] = <<>>
           quit == ~idle /\ Head(commands[c]) = "quit"
           rest == IF idle THEN <<>> ELSE Tail(commands[c])
           list == IF quit THEN R \cup {c} ELSE R
           after == [status EXCEPT ![c] = IF quit THEN "TERMINATE" ELSE @]
           ended == {d \in list : after[d] = "TERMINATE"}
<1> HIDE DEF c, fd
<1>4. /\ status'   = after
      /\ commands' = [commands EXCEPT ![c] = rest]
      /\ unsent'   = [d \in Client |-> IF d = c THEN (unsent[c] \/ own \/ c \in R) /\ ~sent
                                       ELSE unsent[d] \/ d \in R]
      /\ garbage'  = garbage \cup ended
      /\ onWrite'  = [f \in Fd |->
           IF f = fd /\ sent /\ rest = <<>> THEN Nobody
           ELSE IF clients[f] \in list \ ended THEN clients[f] ELSE onWrite[f]]
      /\ requested' = requested \cup {<<"WRITE", f, clients[f]>> :
                                        f \in {g \in Fd : clients[g] \in list \ ended}}
  BY <1>3 DEF Execute, Ended, Finished
<1>5. commands[c] \in Seq(Command) /\ rest \in Seq(Command)
  BY <1>1 DEF LoopInv, TypeOK
<1>6. list \subseteq Live /\ Live \subseteq Client
  BY <1>1 DEF Live
<1>7. /\ status' \in [Client -> {"FREE", "UNREGISTER", "REGISTER", "TIMEOUT", "TERMINATE"}]
      /\ \A d \in Client : status'[d] = IF d = c /\ quit THEN "TERMINATE" ELSE status[d]
  <2> HIDE DEF quit
  <2> QED
    BY <1>1, <1>4 DEF LoopInv, TypeOK
<1>8. \A d \in Client : commands'[d] = IF d = c THEN rest ELSE commands[d]
  <2> HIDE DEF rest
  <2> QED
    BY <1>1, <1>4 DEF LoopInv, TypeOK
<1>9. garbage' \in SUBSET Client /\ \A d \in garbage' : d \in garbage \/ status[d] # "FREE"
  BY <1>4, <1>6 DEF LoopInv, TypeOK, Live
<1>10. TypeOK'
  <2> HIDE DEF rest, list, ended, quit
  <2>1. commands' \in [Client -> Seq(Command)]
    BY <1>4, <1>5 DEF LoopInv, TypeOK
  <2>2. unsent' \in [Client -> BOOLEAN]
    BY <1>1, <1>4 DEF LoopInv, TypeOK
  <2>3. onWrite' \in [Fd -> Client \cup {Nobody}] /\ requested' \in SUBSET ({"READ", "WRITE"} \X Fd \X Client)
    BY <1>4, <1>6 DEF LoopInv, TypeOK
  <2>4. garbage' \in SUBSET Client
    BY <1>9
  <2> QED
    BY <1>2, <1>7, <2>1, <2>2, <2>3, <2>4 DEF LoopInv, TypeOK
<1>11. EndedCollected'
  <2>1. SUFFICES ASSUME NEW d \in Client, status'[d] \in {"TERMINATE", "TIMEOUT"}
                 PROVE  d \in garbage'
    BY DEF EndedCollected
  <2>2. CASE d = c /\ quit
    BY <1>1, <1>4, <1>7, <2>2
  <2>3. CASE ~(d = c /\ quit)
    BY <1>4, <1>7, <2>1, <2>3 DEF LoopInv, EndedCollected
  <2> QED
    BY <2>2, <2>3
<1>12. CommandsRegistered'
  <2>1. rest # <<>> => commands[c] # <<>>
    OBVIOUS
  <2> HIDE DEF rest, quit
  <2> QED
    BY <1>1, <1>7, <1>8, <2>1 DEF LoopInv, CommandsRegistered
<1>13. \A d \in Client : status'[d] = "FREE" <=> status[d] = "FREE"
  BY <1>1, <1>7
<1>14. \A f \in Fd : \/ onWrite'[f] = onWrite[f]
                     \/ clients[f] \in Client /\ onWrite'[f] = clients[f]
                     \/ f = fd /\ onWrite'[f] = Nobody
  <2> HIDE DEF rest, list, ended
  <2> QED
    BY <1>4, <1>6
<1>15. \A r \in requested' : r \in requested \/ clients[r[2]] = r[3]
  BY <1>4
<1> QED
  BY <1>1, <1>2, <1>9, <1>10, <1>11, <1>12, <1>13, <1>14, <1>15, HandlerFrame DEF fd

LEMMA TimerInd ==
  ASSUME LoopInv, NEW e \in batch, phase = "handle", batch' = batch \ {e},
         e.filter = "TIMER", HandleTimer(e.fd, e.udata)
  PROVE  LoopInv'
<1> DEFINE c == e.udata
           fd == e.fd
<1>1. fd \in Fd /\ c \in Client
  BY Given
<1> HIDE DEF c, fd
<1>2. UNCHANGED <<conn, onWrite, requested, clients, commands, unsent, phase>>
      /\ timer' = [timer EXCEPT ![fd] = Nobody]
  BY DEF HandleTimer, fd
<1>3. \/ UNCHANGED <<status, garbage>>
      \/ /\ clients[fd] = c /\ status[c] = "UNREGISTER"
         /\ status' = [status EXCEPT ![c] = "TIMEOUT"] /\ garbage' = garbage \cup {c}
  BY DEF HandleTimer, MayTimeOut, fd, c
<1>4. TypeOK'
  BY <1>1, <1>2, <1>3 DEF LoopInv, TypeOK
<1>5. \A d \in Client : status'[d] = "FREE" <=> status[d] = "FREE"
  BY <1>1, <1>3 DEF LoopInv, TypeOK
<1>6. \A d \in garbage' : d \in garbage \/ status[d] # "FREE"
  BY <1>3
<1>7. EndedCollected' /\ CommandsRegistered'
  BY <1>1, <1>2, <1>3 DEF LoopInv, TypeOK, EndedCollected, CommandsRegistered
<1> QED
  BY <1>2, <1>4, <1>5, <1>6, <1>7, HandlerFrame

LEMMA EofInd ==
  ASSUME LoopInv, NEW e \in batch, phase = "handle", batch' = batch \ {e},
         e.fd # Listen, e.filter # "TIMER", ~Dangling(e), HandleEof(e.udata)
  PROVE  LoopInv'
<1>1. /\ UNCHANGED <<conn, timer, onWrite, clients, status, commands, unsent, requested, phase>>
      /\ garbage' = garbage \cup {e.udata}
  BY DEF HandleEof, OnEof, kernelVars, clientVars
<1>2. garbage' \in SUBSET Client /\ \A d \in garbage' : d \in garbage \/ status[d] # "FREE"
  BY <1>1, Given DEF LoopInv, TypeOK
<1>3. TypeOK' /\ EndedCollected' /\ CommandsRegistered'
  BY <1>1, <1>2 DEF LoopInv, TypeOK, EndedCollected, CommandsRegistered
<1> QED
  BY <1>1, <1>2, <1>3, HandlerFrame

\* A pointer to a deleted client is carried by the entry of a failed change only.
LEMMA DanglingFailed ==
  ASSUME LoopInv, NEW e \in batch, Dangling(e)
  PROVE  e.error /\ e.udata \in Client
<1>1. e.udata \in Client /\ e.filter # "TIMER" /\ status[e.udata] = "FREE"
  BY DEF Dangling
<1>2. e.fd \in Fd
  BY <1>1, Given, NobodyAssumption DEF LoopInv, EventsWellFormed
<1>3. ~e.error => clients[e.fd] = e.udata
  BY <1>1, NobodyAssumption DEF LoopInv, PointersLive
<1> QED
  BY <1>1, <1>2, <1>3, Holder

LEMMA DanglingInd ==
  ASSUME LoopInv, NEW e \in batch, phase = "handle", batch' = batch \ {e},
         Dangling(e), HandleDangling(e)
  PROVE  LoopInv'
<1>1. /\ UNCHANGED <<conn, timer, onWrite, clients, status, commands, unsent, requested, phase>>
      /\ garbage' = garbage \/ garbage' = garbage \cup {e.udata}
  BY DEF HandleDangling, kernelVars, clientVars
<1>2. e.error /\ e.udata \in Client
  BY DanglingFailed
<1>3. TypeOK' /\ EndedCollected' /\ CommandsRegistered'
  BY <1>1, <1>2 DEF LoopInv, TypeOK, EndedCollected, CommandsRegistered
<1> QED
  BY <1>1, <1>2, <1>3, HandlerFrame

LEMMA ExitInd ==
  ASSUME LoopInv, Exit
  PROVE  LoopInv'
<1>1. TypeOK'
  BY DEF Exit, TypeOK
<1>2. ClientsMatchConnections' /\ PointersLive' /\ EndedCollected' /\ CommandsRegistered'
  BY NobodyAssumption
  DEF Exit, ClientsMatchConnections, PointersLive, EndedCollected, CommandsRegistered
<1>3. EventsWellFormed' /\ FailedDeleted'
  BY DEF Exit, EventsWellFormed, FailedDeleted
<1> QED
  BY <1>1, <1>2, <1>3 DEF LoopInv

LEMMA HandleEventInd ==
  ASSUME LoopInv, HandleEvent
  PROVE  LoopInv'
<1>1. PICK e \in batch : \/ Handle(e) /\ batch' = batch \ {e}
                         \/ MayEnd(e) /\ Exit
  BY DEF HandleEvent
<1>2. phase = "handle"
  BY DEF HandleEvent
<1>3. CASE Handle(e) /\ batch' = batch \ {e}
  <2>1. CASE e.fd = Listen /\ HandleAccept
    BY <1>2, <1>3, <2>1, AcceptInd DEF HandleAccept
  <2>2. CASE e.filter = "TIMER" /\ HandleTimer(e.fd, e.udata)
    BY <1>2, <1>3, <2>2, TimerInd
  <2>3. CASE e.fd # Listen /\ e.filter # "TIMER" /\ ~Dangling(e) /\ HandleEof(e.udata)
    BY <1>2, <1>3, <2>3, EofInd
  <2>4. CASE e.fd # Listen /\ e.filter # "TIMER" /\ ~Dangling(e) /\ HandleRead(e.fd, e.udata)
    BY <1>2, <1>3, <2>4, ReadInd
  <2>5. CASE e.fd # Listen /\ e.filter = "WRITE" /\ ~Dangling(e) /\ HandleExecute(e.fd, e.udata)
    BY <1>2, <1>3, <2>5, ExecuteInd
  <2>6. CASE Dangling(e) /\ HandleDangling(e)
    BY <1>2, <1>3, <2>6, DanglingInd
  <2> QED
    BY <1>3, <2>1, <2>2, <2>3, <2>4, <2>5, <2>6 DEF Handle
<1>4. CASE MayEnd(e) /\ Exit
  BY <1>4, ExitInd
<1> QED
  BY <1>1, <1>3, <1>4

LEMMA CloseInd ==
  ASSUME LoopInv, phase = "handle", batch = {}, HandleClose
  PROVE  LoopInv'
<1> DEFINE closed == {fd \in Fd : clients[fd] \in garbage}
<1>1. /\ phase = "handle" /\ batch = {} /\ batch' = {} /\ garbage' = {} /\ phase' = "monitor"
      /\ conn'     = [fd \in Fd |-> IF fd \in closed THEN "none" ELSE conn[fd]]
      /\ onWrite'  = [fd \in Fd |-> IF fd \in closed THEN Nobody ELSE onWrite[fd]]
      /\ clients'  = [fd \in Fd |-> IF fd \in closed THEN Nobody ELSE clients[fd]]
      /\ status'   = [c \in Client |-> IF c \in garbage THEN "FREE" ELSE status[c]]
      /\ commands' = [c \in Client |-> IF c \in garbage THEN <<>> ELSE commands[c]]
      /\ unsent'   = [c \in Client |-> c \notin garbage /\ unsent[c]]
      /\ UNCHANGED <<timer, requested>>
  BY DEF HandleClose, Erase
<1>2. \A fd \in Fd : fd \in closed <=> clients[fd] \in garbage
  OBVIOUS
<1> HIDE DEF closed
<1>3. garbage \subseteq Client /\ Nobody \notin garbage
  BY NobodyAssumption DEF LoopInv, TypeOK
<1>4. TypeOK'
  BY <1>1 DEF LoopInv, TypeOK
<1>5. ClientsMatchConnections'
  <2>1. \A fd \in Fd : clients'[fd] = Nobody <=> conn'[fd] = "none"
    BY <1>1, <1>2, <1>3 DEF LoopInv, ClientsMatchConnections
  <2>2. \A c \in Client : status'[c] # "FREE" <=> \E fd \in Fd : clients'[fd] = c
    BY <1>1, <1>2, <1>3, NobodyAssumption DEF LoopInv, ClientsMatchConnections
  <2>3. \A f, g \in Fd : clients'[f] = clients'[g] /\ clients'[f] # Nobody => f = g
    BY <1>1, <1>2 DEF LoopInv, ClientsMatchConnections
  <2> QED
    BY <2>1, <2>2, <2>3 DEF ClientsMatchConnections
<1>6. PointersLive'
  BY <1>1 DEF LoopInv, PointersLive
<1>7. EndedCollected' /\ CommandsRegistered'
  BY <1>1 DEF LoopInv, EndedCollected, CommandsRegistered
<1>8. EventsWellFormed' /\ FailedDeleted'
  <2>1. \A r \in requested : r[2] \in Fd /\ r[3] \in Client /\ clients[r[2]] = r[3]
    BY <1>1 DEF LoopInv, TypeOK, FailedDeleted
  <2> QED
    BY <1>1, <1>2, <2>1 DEF EventsWellFormed, FailedDeleted
<1> QED
  BY <1>4, <1>5, <1>6, <1>7, <1>8 DEF LoopInv

LEMMA GarbageInd ==
  ASSUME LoopInv, GarbageCollector
  PROVE  LoopInv'
BY CloseInd, ExitInd DEF GarbageCollector, BatchDone

LEMMA NextInd == LoopInv /\ [Next]_vars => LoopInv'
<1> SUFFICES ASSUME LoopInv, [Next]_vars PROVE LoopInv'
  OBVIOUS
<1>1. CASE Monitor
  BY <1>1, MonitorInd
<1>2. CASE HandleEvent
  BY <1>2, HandleEventInd
<1>3. CASE GarbageCollector
  BY <1>3, GarbageInd
<1>4. CASE \E fd \in Fd : Shut(fd)
  BY <1>4, ShutInd
<1>5. CASE UNCHANGED vars
  BY <1>5 DEF vars, LoopInv, TypeOK, ClientsMatchConnections, PointersLive, EndedCollected,
              CommandsRegistered, EventsWellFormed, FailedDeleted
<1> QED
  BY <1>1, <1>2, <1>3, <1>4, <1>5 DEF Next, Run

\* However many clients, descriptors and events there are, the loop keeps its
\* invariant: the clients match the connections, and what is in a batch, in
\* _change_list and in _garbage is what the handlers take it for.
THEOREM LoopInvariance == Spec => []LoopInv
BY InitInd, NextInd, PTL DEF Spec

\* The loop's variables keep their types.
THEOREM TypeCorrect == Spec => []TypeOK
<1>1. LoopInv => TypeOK
  BY DEF LoopInv
<1> QED
  BY <1>1, LoopInvariance, PTL

\* A client exists exactly as long as its connection, under one descriptor: what
\* handleAccept inserts and garbageCollector erases always fits together.
THEOREM Matching == Spec => []ClientsMatchConnections
<1>1. LoopInv => ClientsMatchConnections
  BY DEF LoopInv
<1> QED
  BY <1>1, LoopInvariance, PTL

\* The pointers in the fetched events and in the registered write events are to
\* clients that are there: garbageCollector deletes nobody whom an event still to be
\* handled names.  A pointer in _garbage is to a client that is deleted only while
\* the entries of failed changes are handled, when nobody is accepted.
THEOREM Pointers == Spec => []PointersLive
<1>1. LoopInv => PointersLive
  BY DEF LoopInv
<1> QED
  BY <1>1, LoopInvariance, PTL

\* Whoever QUITs or times out is in _garbage until garbageCollector deletes it.
THEOREM Collected == Spec => []EndedCollected
<1>1. LoopInv => EndedCollected
  BY DEF LoopInv
<1> QED
  BY <1>1, LoopInvariance, PTL

\* handleExecute, which does not look at the status, finds commands only at clients
\* that have registered.
THEOREM Registered == Spec => []CommandsRegistered
<1>1. LoopInv => CommandsRegistered
  BY DEF LoopInv
<1> QED
  BY <1>1, LoopInvariance, PTL

\* What Dispatch misses by: only the entry of a failed change leads a handler to a
\* client that is deleted, never an event.
THEOREM OnlyFailedDangle == Spec => [](\A e \in batch : ~e.error => ~Dangling(e))
<1>1. LoopInv => \A e \in batch : ~e.error => ~Dangling(e)
  BY DanglingFailed
<1> QED
  BY <1>1, LoopInvariance, PTL

-----------------------------------------------------------------------------
(* WakeupKept: whether registered work is awake is kept by every step.      *)

Awake(c) == Idle(c) \/ Armed(c)

\* A step that leaves c's work and the write events as they are.
LEMMA WakeupFrame ==
  ASSUME NEW c \in Client, UNCHANGED <<onWrite, commands, unsent>>,
         Awake(c) \/ commands'[c] # commands[c] \/ unsent'[c] # unsent[c]
  PROVE  Awake(c)'
BY DEF Awake, Idle, Armed

\* handleRead, for c itself or for somebody else.
LEMMA ReadWakes ==
  ASSUME LoopInv, NEW fd \in Fd, NEW d \in Client, clients[fd] = d, HandleRead(fd, d),
         NEW c \in Client, status[c] = "REGISTER", status'[c] = "REGISTER",
         Awake(c) \/ commands'[c] # commands[c] \/ unsent'[c] # unsent[c]
  PROVE  Awake(c)'
<1> PICK got \in Queues, bad \in BOOLEAN :
      LET queue == commands[d] \o got
      IN  \/ ReadRegistered(d, queue, bad)
          \/ ReadUnregistered(d, queue, bad)
          \/ ReadEnded(d, queue, bad)
  BY DEF HandleRead
<1> DEFINE queue == commands[d] \o got
<1>1. \/ ReadRegistered(d, queue, bad)
      \/ ReadUnregistered(d, queue, bad)
      \/ ReadEnded(d, queue, bad)
  OBVIOUS
<1> HIDE DEF queue
<1>2. CASE d = c
  <2>1. Arm({c})
    BY <1>1, <1>2 DEF ReadRegistered, ReadUnregistered, ReadEnded
  <2> QED
    BY <1>2, <2>1 DEF Arm, Awake, Armed
<1>3. CASE d # c
  <2>1. commands'[c] = commands[c] /\ unsent'[c] = unsent[c]
    BY <1>1, <1>3 DEF ReadRegistered, ReadUnregistered, ReadEnded, LoopInv, TypeOK
  <2>2. UNCHANGED onWrite \/ Arm({d})
    BY <1>1 DEF ReadRegistered, ReadUnregistered, ReadEnded
  <2>3. \A f \in Fd : onWrite[f] = c => onWrite'[f] = c
    BY <1>3, <2>2, NobodyAssumption DEF Arm, LoopInv, PointersLive
  <2> QED
    BY <2>1, <2>3 DEF Awake, Idle, Armed
<1> QED
  BY <1>2, <1>3

\* handleExecute for the write event e.  For its own client, D_WRITE comes only when
\* everything is sent and the queue is empty; whoever else it wrote to is armed.
LEMMA ExecuteWakes ==
  ASSUME LoopInv, NEW e \in batch, e.filter = "WRITE", ~Dangling(e),
         HandleExecute(e.fd, e.udata),
         NEW c \in Client, status[c] = "REGISTER", status'[c] = "REGISTER",
         Awake(c) \/ commands'[c] # commands[c] \/ unsent'[c] # unsent[c]
  PROVE  Awake(c)'
<1> DEFINE d == e.udata
           fd == e.fd
<1>1. fd \in Fd /\ d \in Client /\ clients[fd] = d /\ ~e.error
  BY Given
<1>2. onWrite[fd] = d
  BY <1>1 DEF LoopInv, EventsWellFormed
<1>3. PICK R \in SUBSET Live, own \in BOOLEAN, sent \in BOOLEAN : Execute(fd, d, R, own, sent)
  BY DEF HandleExecute
<1> DEFINE idle == commands[d] = <<>>
           quit == ~idle /\ Head(commands[d]) = "quit"
           rest == IF idle THEN <<>> ELSE Tail(commands[d])
           list == IF quit THEN R \cup {d} ELSE R
           ended == {k \in list : status'[k] = "TERMINATE"}
<1> HIDE DEF d, fd
<1>4. /\ status'   = [status EXCEPT ![d] = IF quit THEN "TERMINATE" ELSE @]
      /\ commands' = [commands EXCEPT ![d] = rest]
      /\ unsent'   = [k \in Client |-> IF k = d THEN (unsent[d] \/ own \/ d \in R) /\ ~sent
                                       ELSE unsent[k] \/ k \in R]
      /\ onWrite'  = [f \in Fd |-> IF f = fd /\ sent /\ rest = <<>> THEN Nobody
                                   ELSE IF clients[f] \in list \ ended THEN clients[f]
                                   ELSE onWrite[f]]
  BY <1>3 DEF Execute, Ended, Finished
<1> HIDE DEF rest, quit, list, ended
<1>5. commands'[d] = rest /\ unsent'[d] = ((unsent[d] \/ own \/ d \in R) /\ ~sent)
  BY <1>1, <1>4 DEF LoopInv, TypeOK
<1>6. CASE d = c
  <2>1. CASE sent /\ rest = <<>>
    BY <1>5, <1>6, <2>1 DEF Awake, Idle
  <2>2. CASE ~(sent /\ rest = <<>>)
    <3>1. onWrite'[fd] = c
      BY <1>1, <1>2, <1>4, <1>6, <2>2
    <3> QED
      BY <1>1, <3>1 DEF Awake, Armed
  <2> QED
    BY <2>1, <2>2
<1>7. CASE d # c
  <2>1. commands'[c] = commands[c] /\ unsent'[c] = (unsent[c] \/ c \in R)
    BY <1>4, <1>7 DEF LoopInv, TypeOK
  <2>2. CASE c \in R
    <3>1. PICK f \in Fd : clients[f] = c
      BY DEF LoopInv, ClientsMatchConnections
    <3>2. c \in list \ ended
      BY <2>2 DEF list, ended
    <3>3. onWrite'[f] = c
      BY <1>1, <1>4, <1>7, <3>1, <3>2
    <3> QED
      BY <3>1, <3>3 DEF Awake, Armed
  <2>3. CASE c \notin R
    <3>1. commands'[c] = commands[c] /\ unsent'[c] = unsent[c]
      BY <2>1, <2>3 DEF LoopInv, TypeOK
    <3>2. \A f \in Fd : onWrite[f] = c => onWrite'[f] = c
      BY <1>2, <1>4, <1>7, NobodyAssumption DEF LoopInv, PointersLive
    <3> QED
      BY <3>1, <3>2 DEF Awake, Idle, Armed
  <2> QED
    BY <2>2, <2>3
<1> QED
  BY <1>6, <1>7

LEMMA WakeupStep ==
  ASSUME LoopInv, [Next]_vars,
         NEW c \in Client, status[c] = "REGISTER", status'[c] = "REGISTER",
         Awake(c) \/ commands'[c] # commands[c] \/ unsent'[c] # unsent[c]
  PROVE  Awake(c)'
<1>1. CASE Monitor
  BY <1>1, WakeupFrame DEF Monitor, kernelVars, clientVars
<1>2. CASE HandleEvent
  <2>1. PICK e \in batch : Handle(e) \/ Exit
    BY <1>2 DEF HandleEvent
  <2>2. CASE Exit
    BY <2>2 DEF Exit
  <2>3. CASE e.fd = Listen /\ HandleAccept
    BY <2>3, WakeupFrame DEF HandleAccept, AcceptConnection
  <2>4. CASE HandleTimer(e.fd, e.udata)
    BY <2>4, WakeupFrame DEF HandleTimer
  <2>5. CASE HandleEof(e.udata)
    BY <2>5, WakeupFrame DEF HandleEof, kernelVars, clientVars
  <2>6. CASE e.fd # Listen /\ e.filter # "TIMER" /\ ~Dangling(e) /\ HandleRead(e.fd, e.udata)
    BY <2>6, Given, ReadWakes
  <2>7. CASE e.filter = "WRITE" /\ ~Dangling(e) /\ HandleExecute(e.fd, e.udata)
    BY <2>7, ExecuteWakes
  <2>8. CASE HandleDangling(e)
    BY <2>8, WakeupFrame DEF HandleDangling, kernelVars, clientVars
  <2> QED
    BY <2>1, <2>2, <2>3, <2>4, <2>5, <2>6, <2>7, <2>8 DEF Handle
<1>3. CASE GarbageCollector
  <2>1. HandleClose
    BY <1>3 DEF GarbageCollector, Exit
  <2>2. c \notin garbage /\ commands'[c] = commands[c] /\ unsent'[c] = unsent[c]
    BY <2>1 DEF HandleClose, LoopInv, TypeOK
  <2>3. \A f \in Fd : onWrite[f] = c => clients[f] \notin garbage
    BY <2>2, NobodyAssumption DEF LoopInv, PointersLive
  <2>4. \A f \in Fd : onWrite[f] = c => onWrite'[f] = c
    BY <2>1, <2>3 DEF HandleClose
  <2> QED
    BY <2>2, <2>4 DEF Awake, Idle, Armed
<1>4. CASE \E fd \in Fd : Shut(fd)
  BY <1>4, WakeupFrame DEF Shut, clientVars
<1>5. CASE UNCHANGED vars
  BY <1>5, WakeupFrame DEF vars
<1> QED
  BY <1>1, <1>2, <1>3, <1>4, <1>5 DEF Next, Run

\* No step puts a registered client's work to sleep, whoever writes to it meanwhile
\* and in whatever order its events and the others' are handled.
THEOREM Wakeup == Spec => WakeupKept
<1>1. ASSUME LoopInv, [Next]_vars
      PROVE  [\A c \in Client :
                /\ status[c] = "REGISTER" /\ status'[c] = "REGISTER"
                /\ \/ Idle(c) \/ Armed(c)
                   \/ commands'[c] # commands[c] \/ unsent'[c] # unsent[c]
                => Idle(c)' \/ Armed(c)']_vars
  BY <1>1, WakeupStep DEF Awake
<1> QED
  BY <1>1, LoopInvariance, PTL DEF Spec, WakeupKept

-----------------------------------------------------------------------------
(* TimerKept: nothing but an event left by an earlier client takes an       *)
(* unregistered client's timer away.                                        *)

\* Another's timer event that bears the number of c's connection is handled.
TakenOver(c, handled) ==
  \E e \in handled : e.filter = "TIMER" /\ e.udata # c /\ clients[e.fd] = c

LEMMA TimerFrame ==
  ASSUME NEW c \in Client, Timed(c), UNCHANGED <<clients, timer>>
  PROVE  Timed(c)'
BY DEF Timed

\* handleTimer for the event e: c's own would have ended it.
LEMMA TimerEvent ==
  ASSUME LoopInv, NEW e \in batch, e.filter = "TIMER", batch' = batch \ {e},
         HandleTimer(e.fd, e.udata),
         NEW c \in Client, status[c] = "UNREGISTER", status'[c] = "UNREGISTER", Timed(c)
  PROVE  Timed(c)' \/ TakenOver(c, batch \ batch')
<1>1. PICK fd \in Fd : clients[fd] = c /\ timer[fd] = c
  BY DEF Timed
<1>2. UNCHANGED clients /\ timer' = [timer EXCEPT ![e.fd] = Nobody]
  BY DEF HandleTimer
<1>3. CASE e.fd # fd
  <2>1. timer'[fd] = c
    BY <1>1, <1>2, <1>3 DEF LoopInv, TypeOK
  <2> QED
    BY <1>1, <1>2, <2>1 DEF Timed
<1>4. CASE e.fd = fd /\ e.udata = c
  <2>1. status' = [status EXCEPT ![c] = "TIMEOUT"]
    BY <1>1, <1>4 DEF HandleTimer, MayTimeOut
  <2> QED
    BY <2>1 DEF LoopInv, TypeOK
<1>5. CASE e.fd = fd /\ e.udata # c
  <2>1. e \in batch \ batch'
    OBVIOUS
  <2> QED
    BY <1>1, <1>5, <2>1 DEF TakenOver
<1> QED
  BY <1>3, <1>4, <1>5

LEMMA TimerStep ==
  ASSUME LoopInv, [Next]_vars,
         NEW c \in Client, status[c] = "UNREGISTER", status'[c] = "UNREGISTER", Timed(c)
  PROVE  Timed(c)' \/ TakenOver(c, batch \ batch')
<1>1. CASE Monitor
  BY <1>1, TimerFrame DEF Monitor, kernelVars, clientVars
<1>2. CASE HandleEvent
  <2>1. PICK e \in batch : (Handle(e) /\ batch' = batch \ {e}) \/ Exit
    BY <1>2 DEF HandleEvent
  <2>2. CASE Exit
    BY <2>2 DEF Exit
  <2>3. CASE HandleAccept
    <3>1. PICK fd \in Fd, d \in Client : AcceptConnection(fd, d)
      BY <2>3 DEF HandleAccept
    <3>2. \A f \in Fd : clients[f] = c => f # fd
      BY <3>1, NobodyAssumption DEF AcceptConnection, LoopInv, ClientsMatchConnections
    <3>3. \A f \in Fd : f # fd => clients'[f] = clients[f] /\ timer'[f] = timer[f]
      BY <3>1 DEF AcceptConnection, LoopInv, TypeOK
    <3> QED
      BY <3>2, <3>3 DEF Timed
  <2>4. CASE e.filter = "TIMER" /\ HandleTimer(e.fd, e.udata) /\ batch' = batch \ {e}
    BY <2>4, TimerEvent
  <2>5. CASE \/ HandleEof(e.udata) \/ HandleRead(e.fd, e.udata) \/ HandleExecute(e.fd, e.udata)
    BY <2>5, TimerFrame DEF HandleEof, HandleRead, HandleExecute, kernelVars, clientVars
  <2>6. CASE HandleDangling(e)
    BY <2>6, TimerFrame DEF HandleDangling, kernelVars, clientVars
  <2> QED
    BY <2>1, <2>2, <2>3, <2>4, <2>5, <2>6 DEF Handle
<1>3. CASE GarbageCollector
  <2>1. HandleClose
    BY <1>3 DEF GarbageCollector, Exit
  <2>2. c \notin garbage
    BY <2>1 DEF HandleClose
  <2>3. UNCHANGED timer /\ \A f \in Fd : clients[f] = c => clients'[f] = c
    BY <2>1, <2>2 DEF HandleClose, Erase
  <2> QED
    BY <2>3 DEF Timed
<1>4. CASE \E fd \in Fd : Shut(fd)
  BY <1>4, TimerFrame DEF Shut, clientVars
<1>5. CASE UNCHANGED vars
  BY <1>5, TimerFrame DEF vars
<1> QED
  BY <1>1, <1>2, <1>3, <1>4, <1>5 DEF Next, Run

\* A client that has not given the password keeps its timer until it registers or
\* ends, but for an event of an earlier client under the same number.
THEOREM TimerStays == Spec => TimerKept
<1>1. ASSUME LoopInv, [Next]_vars
      PROVE  [\A c \in Client :
                /\ status[c] = "UNREGISTER" /\ status'[c] = "UNREGISTER" /\ Timed(c)
                => \/ Timed(c)'
                   \/ \E e \in batch \ batch' :
                        e.filter = "TIMER" /\ e.udata # c /\ clients[e.fd] = c]_vars
  BY <1>1, TimerStep DEF TakenOver
<1> QED
  BY <1>1, LoopInvariance, PTL DEF Spec, TimerKept
=============================================================================
