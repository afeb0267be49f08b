# A TLA+ model of eyeRsee

eyeRsee is an IRC server in C++98: one process, one thread, one kqueue. This
directory holds TLA+ modules that model it, configurations that check them with
TLC on small instances, and proofs that TLAPS checks for every instance. Paths
below are relative to the repository root (`src/` here).

## The system

| Component | State | Operations | Modelled in |
|---|---|---|---|
| `Server`, the event loop (`src/core/Server.cpp`) | the executor, the listening socket | `run`, `handleAccept`, `handleRead` (`parse`, `connect`), `handleExecute` (`reserve`, `response`), `handleTimer`, `handleClose`, `Env::parse` | Server; the arguments: Start |
| `EventHandler` (`src/handler/EventHandler.cpp`) | `_change_list`, `_ev_list`, `_garbage` | `monitorEvent`, `handleEvent`, `registerEvent`, `garbageCollector` | Server |
| `Executor` (`src/controller/Executor.cpp`) | `_client_list`, the clients to be scheduled | `accept`, `connect`, `execute`, `updateClientStatus`, `deleteClient`, and one handler per command | Executor |
| `ClientController`, `ChannelController` (`src/controller/`) | the maps `_clients` (by descriptor) and `_channels` (by name) | find, insert, erase, `insertClient`, `eraseClient`, `updateRole`, ... | Executor |
| `Client`, `Channel` (`src/entity/`) | status, nickname, `_channel_list`; `_operators`, `_regulars`, `_invited_clients`, `_mode`, `_topic` | setters and queries | Executor |
| `ConnectSocket`, `ListenSocket` (`src/core/Socket.cpp`) | `recv_buf`, `delimiter`, `send_buf`, `auth`, `commands` | `createSocket`, `readRecvBuf`, `isAuthenticate` | Executor, Server, Framing, Start |
| `Parser`, `Command` (`src/core/`) | `tokenStream`, `token`, shared by all clients | `parse`, one `parseXXX` per command, `validPassword` | Parser, Start |
| `ErrorHandler`, `ResponseHandler` (`src/handler/`) | none | format a reply and append it to a `send_buf` | who is sent which reply: Executor; what a 353 says: Roster |
| `utility` (`src/core/utility.cpp`) | none | three `split` functions, `toUpperCase` | Framing, Parser |
| `BotController`, `main` | none | texts, start | the action `Pong` of Executor; Start, and `Exit` of Server |

How they interact. `Server::run` repeats: `monitorEvent` hands the collected
changes to `kevent` and fetches a batch; `handleEvent` dispatches each entry by
filter and flags; `garbageCollector` closes and deletes the clients that ended.
A read event appends to the receive buffer, cuts it into lines, parses them and
queues commands on the client; a client that is not registered has them run at
once (`connect`), a registered one gets a write event, and each write event runs
one command (`handleExecute`). A command may append to the `send_buf` of any
client; those clients are collected in `_client_list`, and `reserve` registers
their write events or, when they have quit, puts them in `_garbage`.

What is hard. Nothing runs in parallel, so the dangers are about order and about
stale pointers:

* a `Client` is a node of a `std::map`, and raw pointers to it are kept by the
  channels (members and invited clients), by `_garbage`, by `_client_list`, and by
  the kernel as `udata`; the memory and the descriptor of a client that is deleted
  are given to the next connection;
* events of one batch are handled after the state they were fetched in has
  changed: the client has quit, timed out, or been put in `_garbage`;
* membership is kept twice, and the two sides are changed by separate calls;
* writing to a client and scheduling that client's write event are separate
  statements, repeated in every handler;
* a command with a list of names can stop half way.

`PROJECT.json` lists every such hazard with its line and the properties that
would catch it.

## The modules

| Module | What it is |
|---|---|
| `Executor` | one action per command handler and per change of a client's life; the safety and action properties of the state |
| `Membership` | what the channels promise, without the server's records; `Executor` implements it |
| `Invitations` | `Executor` with a record of who was really invited |
| `Roster`, `MCRoster` | `Executor` with what its clients know of their channels from the messages they are sent |
| `ExecutorProofs`, `ExecutorActions`, `ExecutorRefinement` | the theorems about `Executor`: its invariants, its action properties, and that it implements `Membership` |
| `RosterProofs` | the theorems about `Roster`, on top of those about `Executor` |
| `MCExecutor` | symmetry and view for TLC |
| `Server` | the event loop over the kernel's event queue |
| `MCServer` | symmetry, and the smaller set of behaviours used for liveness |
| `ServerProofs` | the theorems about `Server` |
| `Framing` | how the bytes of a connection become lines |
| `FramingProofs` | the theorems about `Framing` |
| `Parser`, `MCParser` | how a line becomes a command, and the lines it is checked with |
| `ParserProofs` | the theorems about `Parser` |
| `Start` | the program's arguments, and the binding of the port |

### Executor

One action is one whole handler: the early returns are its disjuncts, in the
order the code tests them, and the replies are part of it. `Next` says what the
loop lets happen: `connect` runs the commands of an unregistered client (one turn
of its loop per action), `execute` those of a registered client, and accept,
timeout and deletion come at any moment the event loop can call them.

Correspondence that is not one to one:

* `Client` is an *address*: `status = "FREE"` means no object is there, and
  `Accept` takes any free one, since the allocator may hand out a freed map node.
  A pointer is identified with the address, so a stale pointer to a deleted
  client is visible as one, or as a pointer to the client now at that address.
* A `Channel *` is identified with the channel's name. A channel that does not
  exist has the values its constructor would give it.
* `sendBuf` holds the messages the last handler appended for each client, as a
  set; `clientList` is `_client_list` at the moment `reserve` reads it. Both are
  outputs: no guard reads them, and TLC's VIEW leaves them out of the state, so
  the properties about them are action properties, evaluated on every transition.
  The `from` of a message is the client whose command caused it.
* Channel names, nicknames and topics are members of small sets. JOIN, MODE, TOPIC,
  INVITE and NICK get names the parser accepts. The names KICK, PRIVMSG and NOTICE
  are given are not tested by the parser: they may be empty, and the empty name finds
  the client with the lowest descriptor that has not sent NICK, whichever address
  that is (`Addressee`, `Named`). Other odd names find nobody, like a nickname that
  is not in use.

### Roster

The server never tells a client more than messages: the names in the 353 that answers
its JOIN, and then one message per change. `Roster` adds to each step of `Executor`
what a client makes of what it was sent (`Observe`, `Update`), with the rules of any
IRC client: a JOIN adds a name, PART, QUIT and KICK take one away, NICK renames, MODE
+o and -o change the mark, and a JOIN under one's own name starts over with the names
that follow it. A message shows the nickname its sender had before the command. So the
three invariants are about every handler at once: what it sends, to whom, and whether
it does so before or after the change.

Two things no message reports, and `ghosts` keeps them apart: the deletion of a client
whose connection ended without QUIT, and, to those who joined between the QUIT and the
end of the batch and so found the name in their 353, that it is gone. `NobodyInvented`
excepts these names, `MembersKnown` and `KnowsWhere` except nothing.

### Server

What is modelled of the kernel is what the code relies on: connections that are
open or shut by the peer, the write event and timer registered under a number
with their `udata`, level-triggered events, a failed change reported as an entry
with `EV_ERROR` in place of the events, and the removal of read and write
events, but not of timers, when a descriptor is closed.

* `registerEvent` only appends to the change list. No descriptor is reused and no
  event is fetched before the list is applied, so the model changes `onWrite` and
  `timer` at once, and keeps in `requested` the additions, which fail if the
  descriptor was closed meanwhile: the write events of `handleRead` and `reserve`,
  and the read event of `handleAccept`. (A client can be accepted and end in one
  batch: an event of an earlier client's timer, with the same number and address,
  times it out.) Failed deletions (`D_WRITE` on a closed
  descriptor, `D_TIMER` on a timer that is gone) come back too, with a null
  `udata`, and do nothing in `handleEvent`; they are left out.
* What the kernel sees is settled at the fetch: any subset of the open
  connections has data, any subset of the timers has expired, a connection waits
  or not. Events of a batch are handled in any order.
* A command is "talk" or "quit". Talking writes to any set of live clients;
  `RepliesScheduled` and `QuitAnnounced`, checked in `Executor`, say that those
  clients are exactly the ones `reserve` sees.
* A handler that is given a pointer to a deleted client (`Dangling`) may find what was
  there, or end the process; other outcomes of that undefined behaviour are not
  followed. What was there is an empty queue and an empty buffer, so that a write
  entry changes nothing. For a read entry, `recv` fails since the descriptor is
  closed, and `parse` puts the pointer in `_garbage` (`HandleDangling`). The
  collector follows it once more: it finds nothing left to close or to erase, or the
  process ends.
  `Exit` resets everything since the kernel closes what the process had open.
* `createSocket` throws when `accept` returns nothing, and only `main` catches;
  `MayEnd` allows it at every event of the listening socket.

### Framing and Parser

`Framing` has the peer's lines as the reference and their bytes as the input. One
action is one `Server::parse` up to the parser: `recv` returns any number of the bytes
that are left, up to `BUF_SIZE`. `delimiter` starts with either value, since nothing
initialises it. Each line ends in CR LF or in LF. For a peer that ends its lines alike
`LinesWhole` and `TailKept` say that every line is parsed once, unchanged, when it has
arrived; for one that mixes them, lines are joined or wait, and `NothingLost` says what is
left of the promise. A NUL byte, behind which `append(buf)` drops what was received, is not
sent.

In `Parser` a line is a sequence of fields, a field a sequence of names, so that spaces
and commas are what they are to the code, and a name is a member of a set that
`validChannelName`, `validNickName` or a test of the first character would accept. What
is modelled to the letter is the reading: `getline` leaves the token alone at the end of
the stream, sets the end when no separator follows, and finds nothing behind the last
one. `Parse` gives back the outcome and the members as it leaves them, which
`Server::parse` meets at the next line, of the same client or another. The keys of JOIN
are read and dropped, since no handler looks at them.

### Start

`Parse` is `Env::parse` with `validPassword`, `Bind` one turn of the loop in
`ListenSocket::createSocket`. The port argument is given by what `strtod` makes of it, in
tenths: numbers at and beside the two limits, fractions (which an exponent writes without
a point), and the NaN.

### How the modules meet

The modules meet in what they assume of each other: `Parser` takes lines, which
`Framing` promises to be whole (`LinesWhole`); `Executor` takes commands whose names
are names (`NamesFit`); `Server` takes `RepliesScheduled` and `QuitAnnounced`.

## What is checked

| Run | Instance | Shows |
|---|---|---|
| community | 3 clients, 1 channel, 3 nicknames, lists of one name | the records agree, nicknames name one client, powers come from operators, every change is announced to all it concerns, and they are scheduled |
| channels | 2 clients, 2 channels, 2 nicknames, lists of two names | lists that stop half way, name a channel twice or empty it; `Executor` implements `Membership` |
| roster | 3 clients, 1 channel, 4 nicknames | what the clients can tell from their messages is what the server's records say |
| invitations | 2 clients, 1 channel | (violation) an invitation outlives its owner |
| loop | 2 addresses, 2 descriptors, queues of 2, batches of 4 | deletion waits for the batch, ended clients are deleted with it, no registered work goes to sleep, timers are kept |
| liveness | the same, queues of 2, batches of 20, one peer closes | (liveness) connections the peer closed are freed, and a QUIT behind another command is reached |
| framing | 3 lines of up to 2 symbols, any mixture of endings, read in pieces of up to 4 bytes | however the stream is cut, each line is parsed once and whole, and the rest is kept; with mixed endings nothing is lost |
| invented | 2 lines of one symbol | (violation) an empty line nobody sent is parsed |
| parser | about four thousand lines in every order | a line is a command exactly when it has the shape of one, whatever came before, and its names fit |
| parameters | the same | (violation) TOPIC without parameters is passed on |
| dispatch | 2 addresses, 2 descriptors, queues of 1 | (violation) a handler is given a deleted client |
| arguments | ports at the limits, passwords of up to 11 characters | (violation) the server starts with arguments its hints rule out |

Bounds. `MaxNames` bounds the lists of JOIN, PART and PRIVMSG: two names are the
shortest list in which one name fails after another succeeded, or is repeated.
Three clients on a channel are an operator, one acted upon and one who must be
told; two clients and two channels are enough for two different audiences of one
client. In `roster` a fourth nickname leaves one to change to while three clients have one.
`PlainSpec` leaves out what no view depends on (invitations, flags, topics, and the commands that
change nothing and report nobody), since the views multiply the states: on two clients it
reaches the same states as the whole of `RosterSpec`. `MaxCommands` bounds a queue: one command in front of a QUIT. In the run
`loop`, `MaxEvents` is 4 where the code has 20, so that a batch can be cut: with
two descriptors up to seven events can be there. Both descriptors and addresses
are reused, independently of each other. In `framing` pieces of four bytes hold a
whole line with its CR LF, and can end in any place of one; three lines put a complete
line before, in and behind a piece. In `parser` every command word meets every kind of
parameter in the first two places, and in the third where a command has one; the
VIEW keeps of a state only what the next line can see. Counters are not capped otherwise.

Deadlock is not checked for `Server`: the process may end, and `kevent` waits when
there are no events; nor for `Framing`, where the peer's lines come to an end. `Executor` has it checked: a client can always connect or be
deleted.

Fairness. Only `liveness` assumes any: weak fairness of `Work`, the steps of the
loop when something is certain to be there for it (the end of a connection, room
to write, an entry for a failed change, a batch in hand). This is what the code
gives: `kevent` returns when there are events, every handler is straight-line code
over non-blocking sockets. That a peer sends, or that a timer expires, is not
assumed. `CalmSpec` keeps the state graph small enough for liveness checking: no timer
expires, and of the two peers one may close its connection at any time, the other leaves
by QUIT. What is left out only ends more clients. `ClosedFreed` and
`QuitLeaves` except the end of the process. That the queue of a client is at most
`MaxCommands` long excludes peers that send forever and never let a queue
shrink; at most one command is run per write event, so a QUIT behind n
commands takes n rounds.

A client may sleep with work to do: `connect` stops at the command that completes
registration and leaves the commands behind it, and what it could not send, without a
write event (`Server.cpp:187`, `Server.cpp:194`). The peer may then wait for good if
nothing else happens, so no liveness is claimed for it; `WakeupKept` says that this is the
only way to fall asleep, and that the next command from the client, or a message when none
waited for it, wakes it.

Symmetry is used in the safety runs only, over sets whose members the modules never
tell apart. `liveness` uses none.

### Findings

* **invitations**. `Executor::deleteClient` (`src/controller/Executor.cpp:46`)
  removes the client from the channels it is on, but not from the
  `_invited_clients` of channels it was invited to. A new connection whose map node
  is allocated at the same address is then let into an invite-only channel it was
  never invited to. `Membership` speaks of addresses, like the code, and so cannot
  see this; `Invitations` keeps the record by connection.
* **dispatch**. A write event requested for a client that another event of the
  same batch ends is applied after the client is deleted. `kevent` reports the
  failure as an entry with `EV_ERROR`; `monitorEvent` counts it as an event
  and `handleEvent`, which looks at `EV_EOF` only, runs `handleExecute` on freed memory.
  This is what the run's trace shows. The read event `handleAccept` requests
  (`src/core/Server.cpp:80`) is a second cause, when the client is accepted and timed
  out in the same batch: `handleRead` is run on freed memory and puts the pointer in
  `_garbage`.

* **invented**. When a read completes no line, `readRecvBuf` returns an empty string
  and, if the delimiter is CR LF, `split` makes one empty line of it. A line that
  arrives in two pieces is answered with an error before it is executed.
* **parameters**. `parseTopic` is the one handler of the parser that does not throw when
  the parameters are missing; the command goes on with `params == NULL`, which
  `Executor::topic` follows.

* **arguments**. `Env::parse` tests the port with two comparisons that are both false for
  the argument `nan`, and goes on to convert it to an int. `validPassword` accepts ten
  characters where the hint says nine, and does not look at the first: a password that
  begins with a space starts a server nobody can register with, since PASS is split at spaces.

An empty name in a list (`JOIN ,#a`) is valid to `validChannelName`, whose result for
"no invalid name" is the empty string too, and hides the names behind it. `Understood` and
`NamesFit` state this as it is.

## What is proved

TLAPS checks the following for every value of the constants. What is assumed of them:

* `Executor`, `Roster`: any sets of clients, channels, nicknames and topics, finite or not;
  the fillers `NoNick`, `NoChannel` and `NoTopic` are not names, and `MaxNames` is a natural
  number;
* `Server`: any sets of addresses and descriptors; the fillers `Nobody` and `Listen` are
  not among them, `MaxCommands` is a natural number and `MaxEvents` a positive one;
* `Framing`: any set of symbols without CR and LF, any longest line and number of lines, and
  a buffer of at least one byte;
* `Parser`: any sets of names, of which "" is none and channel names and bad ones are
  apart (`NameAssumption`); a line has at least one field and a field at least one name,
  as there is something, if only the empty string, in front of every separator and behind
  it (`LineAssumption`).

### The records of the server: `ExecutorProofs`

* `Invariance`: `IndInv` is an invariant of `Spec`;
* `RosterSafety`, `ChannelLifetime`, `OneRole`, `NoDanglingMember`, `NicknamesName`,
  `RegistrationComplete`: the safety invariants of the run `community`, as corollaries;
* `TypeCorrect`: the types, those of the replies included.

`IndInv` is needed because the properties lean on each other. That deletion leaves
no pointer behind (`MembersRegistered`) follows only because `deleteClient` finds
every channel through the client's own list (`RosterAgreement`) and removes the
client from both sets (`RolesDisjoint`: `eraseClient` removes it from one). That
joining founds a channel with one member needs channels to exist exactly when
occupied (`ChannelIffOccupied`), and, for what a later channel of that name starts
with, `AbsentIsBlank`. `RegisteredHaveNick` needs to know that a
nickname was set with its credential (`NickBehindAuth`), and for an address that is
used again, that it was left blank (`FreeIsBlank`). Every handler changes the roster
through one of three doors, `Join`, `Leave` and `UpdateRole`; each is a lemma, and so
is what each handler does to the statuses and nicknames.

### What a command may do: `ExecutorActions`

The action properties of the runs `community` and `channels`: `ArrivalsTold`,
`Departures`, `Quits` and `NickChanges` (what changes is announced to everybody it
concerns), `Powers` (who may change a channel), `InvitationOnce`, and `Replies` (who is
written to is scheduled). They are about two states, so `IndInv` is what is known of the
first one. Each door has a lemma that says what the handler does to one pair of a client
and a channel and what it writes; the theorem then goes through the doors. `IndInv` is
needed throughout: to be told is to be found by the handler, through the client's list
of channels or the channel's two sets, and the properties count members by the other one.

### What the clients can tell: `RosterProofs`

`ViewInvariance`: `IndInv /\ ViewInv` is an invariant of `RosterSpec`, and with it
`Acquainted`, `NoPhantoms` and `Located`, the three invariants of the run `roster`. The run
checks them for `PlainSpec`, the theorems state them for every command. `ViewInv` adds to
the three that a client that is not on a channel knows nothing of it
(`OutsideNothing`), so that a JOIN starts from nothing. The proof has three layers: what a
client makes of one message (`HearJoin`, `HearLeave`, `HearNick`, ...), which is about
`Update` alone; that the view is right after a step in which the roster changed so and the
messages were these (`KnownJoin`, `KnownLeave`, ...); and which messages each handler sends
(`JoinNews`, `PartNews`, ...). `NickUnique` is what makes a name in a message mean one
client.

### The event loop: `ServerProofs`

`LoopInvariance`: `LoopInv` is an invariant of `Spec`, and its parts are the invariants of
the run `loop`: `TypeCorrect`, `Matching`, `Pointers`, `Collected`, `Registered`. They are not
inductive without what a batch can look like at any point of its handling.
`EventsWellFormed`: a descriptor's write event is there once, and is registered until it is
handled, so that no later event of the batch finds the client's pointer replaced.
`FailedDeleted`: a change fails only because the collector has closed the descriptor, and
the entries of failed changes come in a batch of their own; otherwise a connection accepted in the
same batch could be given the address they carry. For the same reason a pointer to a deleted
client in `_garbage`, which only such an entry can put there, is out of it before anybody is
accepted (`PointersLive`): the collector deletes nobody else for it. From `LoopInv` also:

* `OnlyFailedDangle`: the one kind of entry that carries a pointer to a deleted client is that of
  a failed change, be it the request of a write event or of a read event. So what the run
  `dispatch` finds comes of entries with `EV_ERROR` alone: no order of the events of a batch
  leads a handler to a deleted client;
* `Wakeup` and `TimerStays`: the action properties `WakeupKept` and `TimerKept`.

### Lines and commands: `ParserProofs`

`Alone`, `ShapesUnderstood` and `Fitting` are the three properties of the run `parser`, for
every set of lines, however long. What the members are between two lines is any
combination of stream, end and token (`MembersStay`); that nothing of it matters is
`WordRead`, since `clear` and `str` replace what `getline` looks at and the first `getToken`
finds a word. From there `ReadTo` says what reading i fields leaves, `NextField`,
`NextMsg` and `AllLeft` what each way to read makes of it, and there is one lemma per
handler. `NoneInvalid` is about the loop of `validChannelName` over a list.

### Bytes and lines: `FramingProofs`

`LeftOver`, `Whole` and `Lossless` are the three invariants of the run `framing`, for lines
of any number and length and reads of any size. The inductive invariant (`IInv`) names a
line that the reads have come to: the buffer holds what came behind its end, and what was
parsed is the text before it, each piece ending where a line does. If the lines end alike,
it is also the last line that has arrived and the commands parsed are those of the lines
up to it. The three properties do not imply each other and none is inductive: what a read
finds depends on where the buffer begins in the stream, and for a peer that mixes the two
delimiters that need not be behind the last line that arrived.

Under it are the lemmas about what the model is built from. `SentIsCut`: the bytes of the
lines have their ends where `Cut` says, and CR and LF are nowhere else (`CutByte`).
`OccurrenceEnds` and `EndOccurs`: a delimiter is found in a part of the stream exactly
where a line ends, also if a line's CR LF was received in two pieces. `ReadIs`: so
`readRecvBuf` finds nothing, or takes whole lines. `PiecesApart`: what `split` makes of any
bytes, with either delimiter, has their text in order, each piece ending at a delimiter;
`PiecesLines`: of lines that end alike it makes the lines. All of this is about
concatenations and pieces, which are defined by recursion. The induction theorems of the
library take an operator as a parameter, so the module has its own, over sets
(`SetInduction`), which follows from `WFMin`; a recursive function is shown to exist before
it is used (`FlatExists`, `FromExists`).

### Refinement: `ExecutorRefinement`

`Spec => ImplementsMembership`: initial states map to
initial states and, under `IndInv`, every handler maps to one step of
`Membership` or to a stutter. A JOIN of a list maps to one `Enter` of the set of
channels it gets through, a deletion to one `Exit` of all the client's channels.

### Only model-checked

* Liveness (`ClosedFreed`, `QuitLeaves`): fairness and ENABLED are out of the prover's reach.
* What the runs with `violation` show: a counterexample is an instance.

## Not modelled

* Which characters make a name valid, and the texts of the replies and of the bot: constant
  strings and formatting, without state.
* The ownership of the `params` and `Command` objects: nothing depends on memory that is
  not freed.
* SIGPIPE, and `kevent` failing as a whole, as it does when more changes fail than
  the event list has room for.
* What the data was that arrived with the end of a connection: `handleEvent` discards it, so
  to `Server` and `Executor` it is as if it was never sent.
* Channels with the names an empty name in a list lets through (`JOIN ,x`): only JOIN and PART
  accept them, and these treat them like any other.
* The zero written behind `buf` when `recv` fills it (`Server.cpp:158`).

## Plan

The modules were written from the core outwards: `Executor` and what it promises
(`Membership`), its proofs, the event loop, framing and parsing, then what clients can know
(`Roster`), the start, and the proofs of each: the action properties, the event loop, what
clients can know, the parser, framing. What is left:

1. `Membership`'s own properties as theorems about it, so that `Executor` has them by
   refinement.

`Executor` composed with the queues and batches of `Server` is beyond TLC: the product of
two clients' states in both has more states than a run can visit, so the two are joined by
the properties one assumes and the other is checked for.
