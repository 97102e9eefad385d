# Verification of Protocoale-de-comunicatii

The repository holds the homework of a communication-protocols course: three
large programs (`Tema1`, `Tema2`, `Tema3`) and the programs of the lab sessions
(`LabPC`). This directory models their protocol logic in TLA+, checks the
models with TLC on small instances and proves the central facts with TLAPS for
all instances.

## Inventory

| Part | State it keeps | Operations and interactions | What is hard |
|---|---|---|---|
| Broker `Tema2/server.c` | registered IDs per socket, sockets per topic, the ready set of the current `select()` round, one shared buffer | reads datagrams from UDP publishers, accepts TCP subscribers, carries out (un)subscribe, sends publications | the order of descriptors within a round, reuse of descriptors, coalesced TCP data, peers that vanish, blocking calls in the only thread |
| Subscriber `Tema2/subscriber.c` | its socket, what it told its user | sends ID and commands, prints messages, ends on a warning | commands racing the warning |
| Publisher `Tema2/udp_client.py` | none | sends datagrams | none |
| Router `Tema1/router.c` | ARP table, routing table, packets queued for a MAC address | answers ARP and ICMP, forwards IP packets, queues them while it asks for an address | late ARP replies, the queue sharing one buffer, longest prefix match |
| Packet layer `Tema1/skel.c` | interfaces, sockets | receives from the lowest ready interface, sends, checksums, parses addresses | one busy interface starving the others |
| Link emulator `LabPC/Lab2`, `Lab3`, `link_emulator` | a bounded buffer, the packets in flight, the time the line is free | three threads: receiver, scheduler, return path | the window between reading the buffer and waiting on it, delays, loss |
| File transfer `LabPC/Lab2` | the place in the file, the bytes still expected | one message at a time over the emulator, each answered | loss, corruption, which program starts first |
| Window transfer `LabPC/Lab3` | messages sent, room in the window, messages checked | a fixed window over the emulator | loss, a window of 0, what a check sees |
| Backup `LabPC/Lab6` | an open file at each end | UDP datagrams until `FINISH`, nothing answered | loss, bytes that end a string or the transfer |
| Chat `LabPC/Lab8` | list of clients, ready set of the round | `select()` server that announces who comes and goes and relays lines | closed descriptors that stay listed and are used again, an index taken for a descriptor, numbers that users know and that are out of date |
| HTTP client `Tema3` | cookie, token, login state, receive buffer | user commands turned into requests, responses framed by Content-Length | order of login, access and logout, stale cookie or token |
| Static router `LabPC/Lab4` | static ARP table, routing table | forwards | a smaller version of Tema1 |
| Ping/traceroute `LabPC/Lab5` | sequence number, TTL | raw ICMP | lost replies |
| DNS `LabPC/Lab9` | none | library calls and printing | none |
| HTTP requests `LabPC/Lab10` | cookie, key | a fixed sequence of requests | the helpers are those of Tema3 |
| SMTP `LabPC/Lab11` | position in the dialogue | commands in lock step with expected codes | a reply in two parts |

What makes each part correct:

- Broker: at most one open registration per ID; a publication reaches exactly
  the registered, connected and interested subscribers, in one order; every
  descriptor in a table is open; only `exit` stops the server; connections,
  commands and departures are handled in the end.
- Subscriber: what it tells its user is what the server has recorded.
- Router: while one packet at a time waits for ARP, every packet gets one outcome
  and the right one, with one lower TTL on the route's interface to a card of the
  next hop. When several wait, the last is sent once for each of them, its TTL
  counted down each time, and the others are lost. Nothing stays queued for an
  address that is known.
- Table search: the result contains the destination and is the longest that does.
- Link emulator: order kept, nothing twice, nothing lost once accepted, the
  line's rate respected, the scheduler never asleep with work.
- File transfer: at most one message or reply is anywhere; what is written is
  part of the file, and all of it when either program ends.
- Window transfer: what is taken from the window is exactly what is on its way,
  not acknowledged or lost; a bit flipped in the text or its check is found, one
  flipped in what the stack holds after them is not, and nothing else is found.
- Backup: what is written is blocks of the file in their order, each up to its
  first zero, and if nothing is lost all of them up to the first that reads
  `FINISH`: the file, if it has neither zeros nor that word.
- All three end if nothing is lost.
- HTTP client: a response is read to its last byte wherever it is cut; a request
  says what the client means; cookie and token are those of one session, the one
  the server has, and never of one that was logged out of.
- Chat: a connected user knows who has every other number; a text reaches whom it
  was meant for; every connection, text and departure is handled.

## Tema2: the broker

| Module | Models |
|---|---|
| `BrokerNet` | all variables, the kernel below the sockets (external), the type invariant |
| `Server` | `server.c`: one action per branch of the loop |
| `Subscriber` | `subscriber.c`: one action per event of a process |
| `Broker` | their composition with publishers and the operator, fairness, the properties, the refinement |
| `PubSub` | the abstract broker |
| `MCBroker` | instances for TLC |
| `BrokerProofs` | theorems on the invariants |
| `PubSubProofs` | the refinement of `PubSub` |

State. `clients`, `online`, `read_fds`, `tmp_fds` are the variables of
`server.c`; a topic's vector of 500 sockets, in which entry `j` is `j` or not a
descriptor, is the set of its descriptors. `buf` is reduced to whether it holds
text of this round: a line typed at the server or a datagram, either of which may
begin with any process's ID, so that a process which ends without sending its own
is admitted under whatever `ReceivedIds` allows. `outgoing` is the rest of the loop at `server.c:106`. `link`, `toServer`
and `toClient` are a TCP connection: the server's view of its state and the
two receive queues, whose items are the ID, a command, a message or the warning.

Steps. A round of `select()` is `Select` followed by one handler per ready
descriptor in ascending order. Handlers are atomic, since only the server
touches its tables, except for the publication loop: each `send()` is a step
(`SendOne`), because a subscriber may leave between two of them, because a full
queue blocks the server there and because a failing one ends it there. `recv()`
returns any number of queued items; the code acts on the first. `Accept` waits
for the ID with the server blocked, as the code does.

The kernel, from its behaviour on one host: closing with everything read sends
FIN, which `recv()` returns as 0 once the data before it is read; closing with
unread data sends RST, after which `recv()` and `send()` fail; a `send()` to a
closed peer succeeds once and brings RST back, so that the next one raises
SIGPIPE. `DIE` and SIGPIPE both end the server: `status = "died"`.

Two parameters describe the environment. `Eager` is FALSE when every user waits
until the server has read the last command before typing the next; `Abrupt` is
TRUE when a process may be killed between `connect()` and sending its ID.

### Runs

| Run | Instance | Shows |
|---|---|---|
| `broker_paced` | two processes of one ID and one of another, one topic, 2 descriptors, queues of 1 | the sockets in a topic are open and registered, one process per ID is served, users are told the truth, and the broker implements `PubSub` |
| `broker_eager` | the two processes of one ID, a descriptor for each, queues of 2, malformed datagrams, operator lines, kills, leftover text taken for an ID | what holds with no assumption on users: unique registration, a valid snapshot, registered or warned but not both |
| `broker_live` | two processes of one ID, fair | `ServesAll`: connections accepted, commands read, ended processes forgotten |

Bounds. In `broker_paced`, three processes are the fewest in which a duplicate, a
restart and a bystander meet; two descriptors for three processes force reuse and
make `accept()` fail, which does not happen in `broker_eager` and `broker_live`
with their two processes. Queues of 1 already fill (a blocked `send()`) and leave unread
data at exit; queues of 2 allow coalescing. A process connects once, a restart
is a second process with the same ID. The processes of one ID are symmetric, and
the safety runs use that. The server may stop, so deadlock is not checked.

Fairness (`broker_live`). The server thread is scheduled, and each subscriber
process sends its ID after connecting and reads its socket: these are program
steps between which no user acts. Users, publishers, exits and the operator have
no fairness.

### Proofs

`BrokerProofs` proves, for any number of processes, topics, descriptors and any
capacity, `TypeOK`, `SnapshotValid` and `OneRegistrationPerId`. They are proved
together, as `Inv`: that a snapshot stays valid needs every process to have at
most one connection (`PeersDistinct`, `BacklogDistinct`, `WaitingNotAccepted`,
`NewUnseen`), and type correctness needs the snapshot, since the handlers take
the head of queues that only the snapshot says are not empty. `RegisteredOpen`
makes the uniqueness of IDs survive the reuse of a descriptor.

For users that wait (`Paced`, that is `~Eager`), `SubscribersRegistered` and
`ExclusiveDelivery` are proved from `PacedInv`, whose core is `PipeShort`: the
pipe of a process holds nothing, or its ID while it is not accepted, or one
command once it is registered. That is exactly what typing ahead breaks.

`RegisteredNotWarned` needs no pacing, and no assumption on the text left in
`buf`: a process that ended early may be registered under the ID of another, or
under its own, and is then never warned. Its invariant `WarnedOnce` says that a
process told that its ID is in use is not registered, not waiting to be accepted
and not yet to be started: nothing is left that could register it.

`ViewAgrees` is about a process that has nothing under way. `Told` says what the
others know: a process with a command in its pipe has in its view what the server
holds once that command is carried out, one whose ID is still there has nothing
on either side. `ViewInv` adds that a process which does not run has an empty
view.

`PubSubProofs` proves `ImplementsPubSub` for users that wait when no process is
killed before it has sent its ID (`~Abrupt`). The second premise is needed: with
`Abrupt = TRUE`, TLC finds in the instance of `broker_paced` a process that is
killed after `connect()`, is registered under the topic a datagram left in `buf`,
which is the ID of another user, and so makes the server refuse that user, whose
ID no process holds. The mapped initial state is one of `PubSub`, and under `MapInv` each step of the broker is one of
`PubSub` or leaves its variables alone. `MapInv` adds to `PacedInv` what the
mapping reads: a send loop under way is of one message to sockets subscribed to
one topic (`Sending`, `OneTopic`), a process that waits to be accepted and is past its
`connect()` has sent its ID (`IdSent`), and so a registered socket has the ID of
its process (`OwnId`). The step lemmas `Joins`, `Sets`, `Publishes`, `Leaves`,
`Reads`... say what an action of `PubSub` needs; `MapUdp`, `MapCommand`,
`MapAccept`... lead each branch of the loop to one of them. The send loop is
where it pays: the abstract publication happens as the loop starts, so that what
the loop still owes counts as delivered.

Liveness is model-checked: it is out of the prover's reach.

## Tema1: the router

| Module | Models |
|---|---|
| `Router` | the tables, the waiting packet and the receive queues; one action per branch of the loop of `router.c` |
| `RoutedNetwork` | the composition with the hosts and the wire (external), fairness, properties, the refinement |
| `Forwarding` | the abstract router: what each packet is owed |
| `MCRouter` | three hosts and interfaces of `topo.py` and packets after `tests.py` |
| `RouterProofs` | theorems |

State. `arp` is the table as a function, `rx` the four packet sockets that
`get_packet()` polls. `q` is a queue of pointers; since all point to `m_aux`
(`router.c:143`), `m_aux` and the number `queued` are its state. `log` is a
history variable: what was sent or decided for each packet.

Steps. A frame is read from the lowest interface that has one (`GetPacket`) and
handled to the end of the iteration, so that a branch is one action: an ARP
request is answered, a reply is learned and the queue emptied by it
(`HandleArpReply`: release, discard on a wrong checksum, or put back), a packet
for the router's own address on that interface echoed, then host unreachable,
time exceeded, queueing with an ARP request, or forwarding. The order of the
tests, the late test of the checksum and the TTL decremented in the shared
buffer once per queue entry are as in the code. Contents of headers are reduced
to source, destination, TTL and whether the checksum is right; `RouteOf` stands
for the result of the search, which has a module of its own.

Environment. `Lossy` lets requests be lost, hosts in `Chatter` send replies
nobody asked for, `Cards` gives a host several cards to answer with. `Paced`
holds a packet that needs ARP back while another one waits: the code loses a
waiting packet otherwise.

| Run | Instance | Shows |
|---|---|---|
| `router_paced` | seven packets, two of them to the same unresolved host, one broken, one expired, one echo, one without a route; one host sends replies without end | `Forwarding` is implemented and every packet is settled in the end |
| `router_open` | four packets at any time, lost requests, unasked replies, a replaced card, a destination behind a host | what holds without pacing: nothing waits for a known address; of what is forwarded, interface and card are right, the packet was fit, the TTL is lower by the number of times it has left, and it leaves again only in place of packets that were overwritten |
| `router_overwritten` | two packets for two hosts | `AtRestSettled` violated: the first is overwritten in `m_aux`, and the second sent twice |

Several waiting packets. `m_aux` is one buffer, so that a reply sends its packet
once per pointer, and the loop decrements the TTL in the buffer each time
(`router.c:81`): with three pointers and a TTL of 2 the copies have 1, 0 and 255.
`TtlCounted` says exactly that of every copy, and `CopiesReplace` that there are
never more copies than one and the packets overwritten (`Overwritten`: sent, and
now neither received, waiting nor settled). What `README:16-18` promises instead,
that every queued packet is sent, is `AtRestSettled`, and fails.

Bounds. In `router_open` three of the four packets may wait together, the last
with a TTL of 2. Three frames per receive queue (`RxCap`) let a packet, a request and a
reply stand in any order; three hosts on three interfaces are one to send, one
that is asked for and one that disturbs. Each packet is sent once. The hosts are
named, not symmetric, since interfaces are served in order.

Fairness. The loop of the router does not stop; a host that has a packet to send
asks for the router's card, sends it and answers ARP requests. Unasked replies
and losses have no fairness. A host announces only while its interface's queue
is empty, so that it floods the router from an interface served after the others.

### Proofs

`RouterProofs` proves `TypeOK` (with TTLs in a byte), `QueueUnresolved` and
`ForwardedRight` (`AddressedRight`, `ForwardedFit`, `TtlCounted` and `CopiesReplace`)
for any hosts, interfaces, packets, cards and frames, from two assumptions on the constants: their types, and that the table
sends what is for an attached host to it (`DirectRoutes`, as in `rtable.txt`).
The invariant says what a queue may contain rather than what is at a position:
frames of interface `i` come from a host attached there with its own card
(`ReceivedHonest`), so that entries learned are honest (`TableHonest`); what
waits passed the tests made before it was queued (`WaitingFit`); each log entry
is one allowed for its packet (`LogsAllowed`). `ReceivedHonest` is what makes
the interface taken from a reply the one of the route. `TtlCounted` and
`CopiesReplace` rest on a second invariant, `CopiesInv`: a packet is on the wire
once (`WireOnce`) and in one place, not sent, on the wire, waiting or settled
(`OnePlace`), so that its log is empty until it leaves; and all pointers of the
queue but one were queued for packets that are overwritten (`QueueReplaces`).

`ImplementsForwarding` is proved for users that send one packet at a time
(`Paced`), from `CopiesInv` and `PacedInv`: a packet has one outcome, and at most
one packet needs an ARP reply, which is the one that waits. Without `OneNeedy` a reply frees the
wrong packet, which is what `router_overwritten` shows. The theorem has a second
hypothesis, `OwnGateway`: a packet for an address of the router is for the one
that its sender has as its gateway. The run's packets are of that kind; for one
sent to another of the router's addresses the code looks for a route, which
`Forwarding` does not promise. `MapAnswer`, `MapReply`, `MapHosts` map the steps.

Liveness is model-checked only.

### The search in the routing table

`RouteSearch` is `get_best_route()`: one iteration of the bisection per step over
a table in the order of `comparator()`, then the choice among the matches met.
Addresses have `W` bits, 32 in the code, and `AsInt` wraps differences as the
`int` of the comparator does. `Sorted` gives the tables `qsort()` can return: those
in the comparator's order, and any arrangement where the wrapped differences
run in a circle, since `qsort()` promises nothing then.

| Run | Instance | Shows |
|---|---|---|
| `route_search` | 4-bit addresses: every set of up to four aligned routes in one half of the space, nested or not, and every set of up to three anywhere, a default route among them or not; every destination | the search ends, stays on the table and answers only with a route that contains the destination; and if the comparator can order the table (`Comparable`), the result is the last route at or below the destination if that contains it |
| `route_nested` | the sets in one half of the space | `FindsLongest` violated: the longest match, or the only one, can be missed |

Four routes give three levels of nesting and a sibling, and bisections two steps
deep on both sides. Three routes are the fewest that the comparator can put in a
circle. The prefixes of `rtable.txt` are all comparable. The loop is the only
thing that runs, so that it is fair.

`RouteSearchProofs` proves for every table, sorted or not, and any width of
addresses that the search never reads beside the table (`TypeOK`) and answers
only with a route of the table that contains the destination (`ResultMatches`).
The invariant adds that everything collected is a matching row (`FoundRight`).

It also proves `FindsNearest`, for tables of any length. `OrderInv` adds to the
invariant that the rows are routes with a mask (`RowsRight`), that a table the
comparator can order stands in ascending order (`InOrder`, from `Sorted`: where no
difference wraps the comparator is the order of the prefixes, `ComparatorOrders`)
and that the last row at or below the destination, if it matches, has been
collected or is still between `left` and `right` (`NearestMet`). That is kept for
two reasons. A row that matches is never above the destination, so that the
bisection keeps the upper half whenever the row sought is in it. And nothing
collected lies above that row, so that the last choice cannot pass it over. The
facts about masks (a prefix is its address rounded down to a power of two, powers
of two double) are inductions over numbers, made as an argument on the least
number of a set (`LeastOf`, `Climbs`).

## LabPC/Lab3: the link emulator

`LinkEmulator` is `link.c` of Lab3 (that of Lab2 differs in the byte a
corruption writes): the forwarding thread, the return thread and the scheduler.
`buffer`, `link_up1`, `link_up2` are shared, `in_flight`, `crt_time`,
`idle_time`, `stuff` are the scheduler's. A critical section is one step, since
nothing in it blocks; everything between two of them is a step of its own, so
that the tests of the buffer's size and their use interleave. `sched` says where
the scheduler is. `clock` is `now()`; `Tick` advances it while something depends
on it. `Pipe` is the abstract link.

| Run | Instance | Shows |
|---|---|---|
| `link` | four messages from one end and two from the other; a buffer of 2, delays of 2 and 1, loss and corruption | the three threads are one pipe: order, no duplicates, nothing lost once accepted; room and a message seen under one lock are there under the next, and an assertion ends the program only for a message that came after the buffer was seen empty (`ReadsHold`); the line's rate kept; no signal lost; what was accepted is delivered unless the assertion ends the program |

Bounds. The first message of an end only tells its address, so that three can be
in the buffer, which has room for two: it is empty, holds an order, and is full.
With delays of 2 and 1 ticks a message waits for the line, and arrives while the
line is busy with the next, which is when the scheduler wakes before the line is
free. `MaxLate` (1) is how many ticks a thread may be kept from running after its
time; it is as long as a delay, so that a round can begin late.

`ReadsHold` says which of the four things a thread may read and act on later
stay true. Room (`BufferBounded`) and a message (`LoadFinds`) do. That the buffer
is full does not: the forwarder may drop a message for which there is room by
then. Nor does that it is empty: `assert(!buffer->size)` (`link.c:251`) fails if a
message came after the look (`Abort`). `AbortsOnNews` adds that it fails for
nothing else, in particular never with a message the scheduler had seen.

Fairness (`Drains`). The three threads are scheduled and time passes. The return
of `pthread_cond_wait()` without a signal is possible but not fair: only signals
may be relied on.

### Proofs

`LinkProofs` proves, for any number of messages, size of the buffer, delays and
lateness, type correctness, `ReadsHold` (`BufferBounded`, `LoadFinds` and
`AbortsOnNews`), `Spaced`, `NoLostSignal` and `ImplementsPipe`. The invariant has
two layers. In the first `BufferBounded` carries what `Check` saw up to `Enqueue`
(its second conjunct), `LoadFinds` what `Look` saw up to `Load`; each lasts
because only one thread adds messages and only one takes them. `NoLostSignal` needs
`AheadAfterDeliver`: after the delivery loop everything on the line arrives
after the time of the round, so that a scheduler with something on the line
naps and does not wait. `AbortsOnNews` needs also `BusyIfSeen`: a message the
scheduler saw has gone on the line or found it taken, and either keeps it from
the wait. Both have the hypothesis that the delays are not both zero, without
which they are false (below). For the refinement, the steps that move a message
within the emulator leave `OnLine \o buffer` as it is, by lemmas on sequences. `Drains` is model-checked only.

## Tema3: the library client

`HttpText` holds the texts: the three functions of `requests.c`, how a service
reads what they write, and what `buffer.c`, `strstr()` and `strtol()` find in a
response. A text is a sequence of units; whatever a `read()` may cut apart and
the code must see as one is more than one unit (the header's end is two ends of
line, a length its name and two digits, a cookie its text and the semicolon).

`HttpClient` is `client.c` with `receive_from_server()`. A command opens a new
connection and sends its request in one step (`Ask`), since nothing is read
meanwhile; `pc` is then in the first loop (`header`), the second (`body`), or at
what the command does with the response (`process`). Each `read()` is a step that
takes any part of what has arrived. The service is external: it starts a session
on a login, gives a token to who bears a live session's cookie, ends a session on
its logout, and refuses the rest; it answers with or without a length, in the
second case closing the connection, which it may do in the first. `Cuts` lets
the connection break anywhere in a response, `Expires` lets the service end a
session by itself. `MCHttpClient` gives the cookies their lengths.
`LibrarySession` is the session as the user sees it.

The arguments read from the keyboard, the sizes of the fixed arrays and what is
printed are not modelled. `cookie`, `token` and `payload` are allocated with 200
and 500 bytes and cleared with 1000 (`client.c:163`, `:302`); the model has the
outcome of a build in which the three lie one after the other, where that clears
no other text in use.

| Run | Instance | Shows |
|---|---|---|
| `http_client` | seven commands, two sessions with cookies of 3 and 2 letters, reads of up to 4 units, broken connections, sessions that expire | responses whole wherever they are cut; requests understood as meant; one session at a time and none twice; a crash only on a broken response or an expired session; every command ends |

Bounds. A process has `OPEN_MAX` descriptors and closes none before `exit`, so
that it really has a bounded number of commands; with 8 there are seven: log in,
enter, log out, log in, enter, and two more. A response has 6 to 11 units, so that
reads of up to 4 cut it in every place and never return it at once. `SIZE` (64)
is larger than any response, so that -1 as a `size_t` is too.
`Careful` has the user log out before logging in again; without it `OneSession`
fails (below).

Fairness (`Answered`). The service answers every request and the client runs. The
user need not type, a session need not expire, a connection kept open after its
response need never close.

### Proofs

`HttpClientProofs` proves, for any number of sessions, cookies of any length, any
descriptors and reads, with broken connections and expired sessions: type
correctness and, for careful users, `OneSession`, `EndedForGood` and
`ImplementsSession`. The inductive invariant adds to `OneSession` what is on the
way: a request not yet answered has the credentials the client holds and the
address of its command (`Pending`, by lemmas on `requests.c` that list the units
of each message); a cookie in a response answers a login and is that of a session
not ended, a token answers an access and is that of the client's session
(`Arriving`, kept by every read because a part of a sequence over a set is one
too); a login finds the client outside (`LogsInFromOutside`); and the session of
the cookie has ended only while the logout that ended it is still being read
(`EndedOnlyInLogout`).

`Exchanged` (`Whole` and `Understood`) holds for every user, if `SIZE > 11`:
responses have at most 11 units, `size_t` counts to more than any response is
long, and a total that wrapped would stop a read early. `GetReads`,
`PostPlainReads`, `PostBearerReads` and `DeleteReads` say where each unit of a
request stands, so that the service finds the credential in its header line and
the payload behind the blank line. For responses the core is `LengthInPart`: the
end of the header and the length, once found in what has been read, are those of
the whole response, whatever the cuts were. `Framed` says that what a service
answers tells its own length inside its header, `Arrived` that what was read and
what is still on the way make up the answer, `Counted` that `total` is its length.

`FallsOnlyThen` needs `Careful` as well: the answer to a login has a cookie and
the one to an access a token unless the session expired (`Entered`), what ends
either text comes right behind it (`Marked`), and the cookie with which a user
asks for access is that of a session once opened (`Opened`, `Enters`). A user that
logs in twice can hold the cookie of no session, and the token then searched for
is not there.

`Answered` is model-checked only, being about fairness.

## LabPC: three transfers

| Module | Models |
|---|---|
| `LabLink` | what is between two programs: `lib.c` and `link.c` of Lab2 and Lab3 at the level of messages, or UDP in Lab6 |
| `FileTransfer` | `send.c` and `recv.c` of Lab2 |
| `WindowTransfer` | `send.c` and `recv.c` of Lab3 |
| `Backup` | `client.c` and `server.c` of Lab6 |
| `LabTransfers` | one of the three pairs with what is between them, fairness, properties |
| `MCLabTransfers` | files, windows and what corruption writes, for TLC |
| `LabProofs` | theorems |

State. `lab` says whose programs run; `pc` is where each is; `sock`, `line` and
`inbox` are what was sent and not read by the emulator, what the emulator has
accepted, and what its receiver has not read. `LinkEmulator` shows that buffer,
line and threads are one pipe that keeps order, which is what `line` is here: a
message leaves it on one step. Its buffer holds `BUFFER_SIZE` (1000) messages
and no transfer has more than a window of at most `count` (500) under way, so
that it cannot overflow. A message is the sequence of its units up to its
length; what it is for, only its place in the dialogue says, which is why a
message too many or too few would be taken for another.

Steps. A program runs from one `recv_message()` to the next, with what it sends
in between: `send.c` of Lab2 sends a name, a size and blocks, each when the
reply to the last has come, and `recv.c` expects them in that order; `send.c` of
Lab3 sends while its window has room (`SendNext`), otherwise takes an
acknowledgement (`AwaitSpace`), and then waits until the window is as empty as
at first (`Drain`). The first message of a program, from `init()`, only tells
the emulator its address (`Meet`): what arrives for a program not heard of is
gone, in both directions. Corruption changes a unit, to anything in `Garbage` in
Lab2 and to its complement in Lab3. `Tails` is what the stack holds after the
check that `send.c` of Lab3 writes where the text ended, since `strlen()` then
goes on (`send.c:38`). `Abort` is the failing assertion of `link.c:251`, which
can end the emulator while a message waits. In Lab6 the network may drop a
datagram, and does if the server is not started.

| Run | Instance | Shows |
|---|---|---|
| `lab_transfers` | the three labs, with and without loss and corruption; files of no, one, two and three blocks, one with a zero in it, one with a middle block that reads `FINISH` up to a zero; windows of 0, 1, 2 and 3 for four messages | at most one message of Lab2 anywhere; what each receiver has is what was sent, less what was lost, cut at a zero, or behind a block that reads `FINISH`; the window accounted for; all three end if nothing is lost |

Bounds. Three blocks of at most two units, the last one short, are a first, a
middle and a last block; four messages (`count`) are more than the largest
window, so that the window fills, moves and drains; a window of 0 is what
`run_experiment.sh` gives for a delay of 1. A corrupted size may be negative, 0,
too small or too large. Distinct states: 491,423.

Fairness (`Ended`). Both programs are started, the threads of the emulator and
the network run. An emulator that ends, a message that is lost, a window of 0
and a corrupted size are named in `Ended`: after each the programs may wait for
ever, since nothing is sent twice.

### Proofs

`LabProofs` proves, for any files and blocks, any window, number of messages,
garbage and tails: type correctness, `LockStep` and `Accounted`, which are one
inductive invariant (`Inv`), and `Whole`, which needs a second one beside it.

The core of `Inv` is that `Unread` counts the messages and replies
of a pair wherever they are; each step of the emulator leaves the count as it is
or adds what it takes away to `lost`. `Starts` says that a program that runs and
is not known to the emulator has its `init()` message in front, so that it is
never counted as one; `Said` that messages of Lab2 are not empty, which type
correctness needs where the size is read; `QuietBefore` and `NothingEarly` that
nothing is on the way before the sender is known, without which an
acknowledgement brought back too early would be gone and not be counted.
`Checked` ties the sender's `i` to the receiver's `j`.

`ReceivedWhole` adds what the messages are, a part for each lab:

- `Greeted` (Lab3): what is in the sender's socket is a greeting, and behind the
  emulator one with at most one unit flipped. `FlipIsFound` is the arithmetic of
  it: the parity over three units and the check differ exactly if one of the
  four was flipped. The units after them are neither counted nor checked.
- `Copying` (Lab2, not corrupted): the one message that may be on the way is the
  one that `recv.c` waits for (`Due`: the name, the size, or the part of the
  file between what is written and what was read), and a reply only comes when
  nothing is due (`Replied`). `LockStep` is needed for it: with two messages on
  the way "the one that is due" would not say which comes first.
- `Saving` (Lab6, any file): there are numbers for the datagrams in the socket
  and in the inbox, rising, above those of the blocks written, none of which
  reads `FINISH`; if nothing is lost they have no gap. It is what makes the blocks
  written a subset of the file's in their order, and all of them up to the first
  that ends the server (`BeforeFinish`). `TakenAs` says that a file without zeros
  and that word is written as it is.

What `FlattenSeq` makes of the blocks is defined by recursion over them.
`Flattened` shows, by the least number at which it could go wrong, that it is the
last of a chain of partial results, each the one before and the next block;
`OneMore` and `AllBlocks` follow. `Ended` is model-checked only: it is about
fairness.

## LabPC/Lab8: the chat

`Chat` is `server.c` with `client.c` and its user. `tmp_fds` and `clients` are
the server's; the list only grows, an entry being the descriptor of a connection
that may have been closed and used again. `peer`, `backlog` and `link` are the
kernel, with the behaviour described for the broker: a close with something
unread resets, the first `send()` to a user that left goes through, the second
is SIGPIPE, and a `send()` to a client whose queue is full waits. `unread` is
how many messages that queue holds, at most `QueueCap`. `told` is what the server sent each user of who has which number,
`seen` what the user has read of it. A text is the number it begins with and who
the user meant by it.

Steps. `Select` takes the snapshot, then the lowest descriptor left is handled:
`Accept` lists the new descriptor, tells the earlier entries and sends the list;
`HangUp` closes and tells every entry but the one whose *index* is the closed
number (`server.c:119`); `Die` is `recv()` failing; `Relay` sends all that
`recv()` returned to where its first text says. What a handler sends is put in
`outgoing`, and `Send` is one `send()` of it (`server.c:97`, `:101`, `:120`,
`:128`), so that users leave, read and type between any two of them and the
server waits with a message in hand; nothing else of the server runs until
`outgoing` is empty. `Pasts` is how many others came and left, one at a time, before:
they leave entries in the list, which is what brings indices up to the numbers
that descriptors have. `Ahead` is how many texts a user types before the server
has read one.

| Run | Instance | Shows |
|---|---|---|
| `chat` | three users after none or three others, one text typed at a time, queues of two messages | numbers known rightly (`KnowEachOther`), texts go to whom they are meant for (`OnlyMeant`), everything is handled (`Served`), until the server ends |

Bounds. Three users are one that leaves, one that gets its descriptor and one
that knows both; they come in the order of their numbers, which loses nothing
since they are alike. With three others before, the list has entries at the
indices 3 to 5, among which are the descriptors 4 and 5, so that a user is
passed over by `HangUp` and a stale entry is written to. `clients[]` has ten
entries and is written without a test: the model has at most ten connections in
all. With queues of two messages one user can have several notices unread, and a
newcomer with a stale entry fills the queue of the user it belongs to within one
handler, so that the server does wait. Distinct states: 450,392.

Fairness (`Served`). The server runs, and a client that was sent something in the
end reads it: `client.c` reads whenever no line is typed, and its user, who
waits for the server after `Ahead` texts, does not type for ever. Users connect,
type and leave as they like. Without the fairness of `Show` TLC finds the run in
which one client that does not read, as a stopped process does not, keeps the
server in `send()` and with it everybody else for ever; and a user who pasted so
much that its own `send()` blocks at that moment would not read again. Both are
the hazard listed at `server.c:128`.

### Proofs

`ChatProofs` proves, for any number of users and of others before them (ten in
all), type correctness, `KnowEachOther` and, with one text at a time (`Ahead =
1`), `OnlyMeant`. The invariant's tables: a descriptor belongs to one user
(`PeersDistinct`), who has come (`Connected`) and waits no more (`Waiting`);
what the snapshot says lasts until it is handled (`SnapshotReady`); every open
descriptor is listed (`AllListed`); the list is as long as there were
connections (`ListCounts`), which bounds it. Its knowledge: what a user was
told, has seen or typed of a number is true of it, or was of somebody who left
(`ToldRight`, `SeenRight`, `MeantRight`); the messages still to be sent are true
(`NewsRight`, `PendingMeant`), and a connected user knows the others or one of
these messages will tell (`WillKnow`), which is `KnowEachOther` once all are
sent. That `LowestFree` exists is the
pigeonhole principle over the users. `Served` is model-checked only.

## Disagreements between code and documents

Those with a run are listed in `PROJECT.json` under the findings. These were met
while modelling and have none:

- Broker: a subscriber that ends with a message unread resets its connection,
  and `recv()` or the next `send()` then ends the server (`server.c:110`,
  `:156`), although it is to run until it gets `exit` (`README:10`,
  `server.c:60`).
- Broker: the power of ten of a FLOAT is an `int` (`server.c:283`), which
  overflows from an exponent of 10 on; the exponent is a byte.
- Broker: `subscriber.c:77` reads at most 1501 bytes of a message of 1581.
- Broker: commands that one `recv()` returns together are dropped but for the
  first (`server.c:156`, `:175`), so that a user told "subscribed" may not be.
  The same holds for text that arrives with the ID (`server.c:135`).
  `broker_paced` has users that wait instead.
- Broker: if the ID never arrives because its process ended, the line or datagram
  of the same round that is left in `buf` is read as the ID (`server.c:135`); if
  it is the ID of a user, that user is refused until the dead socket is read.
- Broker: commands typed before the refusal arrives subscribe the refused socket
  (`server.c:178`); it has no ID, so that `offline()` is skipped when it closes
  (`:163`) and its descriptor stays subscribed for whoever gets it next, against
  the comment at `:200`. `SubscribersRegistered` fails in `broker_paced` with
  `Eager = TRUE`.
- Broker: a user who restarts at once can be refused, because the end of the old
  process is handled after the new connection if its descriptor is higher than
  the listening one, which it is (`server.c:119`).
- Router: two packets queued for the same host leave as two copies of the
  second, one with its TTL decremented twice (`router.c:81`, `:143`;
  `README:18`, `tests.py:263`).
- Router: behind a gateway the request asks for the next hop and the packet
  waits for its destination, so that it is not released and asks again
  (`router.c:203`, `:71`; `README:16`).
- Router: an echo request to the address of another of its interfaces is not
  answered (`router.c:109`; `README:13`).
- Router: each packet that has to wait sends a request of its own
  (`tests.py:312` expects one).
- Router: a card learned for an address is kept for ever (`router.c:322-326`).
- Router: `create_icmp_packet()` computes the checksum of the IP header before
  it sets the addresses, and the type of a message is set after its own checksum
  (`router.c:246`).
- Table: the comparator returns a difference of two `uint32_t` as an `int`, so
  that prefixes 2^31 or more apart are ordered the wrong way; a route of mask 0
  is never chosen (`router.c:305`). In the shipped `rtable.txt`, where every
  link has routes for single hosts and one for the network, 765 of the 1016
  addresses of the four links get a shorter route or none; the hosts of
  `topo.py` are found.
- Link: with both delays zero (`speed` above 22400 and `delay=0`) the scheduler
  waits for a signal with a message on the line, which then leaves only after
  the next one is accepted (`link.c:240`).
- Link: with nothing but a message on the line the scheduler sleeps zero
  microseconds and turns round until it arrives (`link.c:242-244`).
- Link: `assert(!buffer->size)` (`link.c:251`) fails if a message is accepted
  after the scheduler's last look at the buffer, which it took under an earlier
  lock, and ends the emulator with it. `Abort` in `LabLink` is what the
  transfers see of it.
- Library client: the cookie of a second login is copied over the first without
  its terminator (`client.c:142`), so that a shorter one keeps the tail of the
  longer and belongs to no session; `README:11` says the cookie received is
  saved. The next `enter_library` is refused and ends the program (`:167`).
  `OneSession` fails in `http_client` with `Careful = FALSE`.
- Library client: each command opens a connection and none is closed but the
  last (`client.c:118`, `:308`), until no descriptor is left.
- Lab2 and Lab3: if `recv` is started after `send` the first message goes
  nowhere and both wait for ever; `run_experiment.sh` sleeps a second between
  them.
- Lab2: `recv.c` ends when exactly 0 bytes are left (`recv.c:47`), so that a
  corrupted size keeps it waiting, and takes each message by its place only.
- Lab3: the check is written over the terminator of the text and `strlen()` then
  counts what follows it (`send.c:36-38`), so that up to a stack's worth of
  bytes is sent with it. With a delay of 1 the window is 0 and `send` waits for
  an acknowledgement of nothing (`send.c:29`, `:43`).
- Lab6: what is written of a datagram ends at its first zero byte
  (`server.c:64`), while `make random_file` fills the file from `/dev/urandom`
  (`Makefile:33`): about every 256th byte is one. A lost `FINISH` keeps the
  server waiting, and a block that reads `FINISH` ends it early.
- Lab8: `if (j != i)` (`server.c:119`) compares a place in the list with a
  descriptor, so that the user at that place is not told of the departure, and
  the closed descriptor is written to.
- Lab8: descriptors that were closed stay in the list, so that newcomers are
  told of users that left (`server.c:94`), and a user that gets one of them is
  told everything twice.
- Lab8: texts that one `recv()` returns together all go where the first says
  (`server.c:127`): `OnlyMeant` fails in `chat` with `Ahead = 2`. The eleventh
  connection is written past `clients[10]` (`server.c:88`).
- Lab8: a client that leaves with something unread makes `recv()` fail and ends
  the server (`server.c:109`).
- Lab4: the checksum of a forwarded packet is put in network order although
  `ip_checksum()` returns it so (`router.c:66`, `:87`); `get_best_route()`
  returns the first match, where the comment at `:11` says the best; a packet
  without a route or an ARP entry ends the router (`:90`, `:92`).
- Lab5: `ping` sends the sequence number in host order and prints it converted
  (`icmp.c:76`, `:91`); neither program matches an answer with its request, and
  `traceroute` begins with a TTL of 0 (`:105`).
- Lab10: the logout request is built and never sent (`client.c:127-130`).
- Lab11: a reply is what one `read()` returns (`send_mail.c:58`): one that comes
  in two parts leaves its end to be taken for the reply to the next command.

## What is left

Not modelled, and why:

- `Lab4` is the forwarding branch of the Tema1 router without ARP requests,
  queue and ICMP: each packet is handled by itself and no state outlives it.
- `Lab5`, `Lab10` and `Lab11` are fixed sequences of a request and an answer.
  Their only state is the place in the sequence, and an answer is not compared
  with what was asked; Lab10 uses the helpers that `HttpText` and `HttpClient`
  model.
- `Lab9` calls the resolver and prints.
- The arithmetic of checksums, the layout of headers and the conversions of
  numbers to text (`Tema1/skel.c`, `message_type` in `Tema2/server.c`): the
  models have a checksum that is right or wrong, and fields.
- The mininet harness of Tema1, and the binaries and captures in the repository.
- Fixed arrays as long as the program's lifetime needs (topics, ARP entries, the
  buffers of Tema3), but for `clients[]` of the chat, the emulator's buffer and
  descriptors.

Worth doing next:

1. The messages of 1581 bytes that the subscriber may read in two parts.
2. An abstract transfer that Lab2 and Lab3 refine when nothing is lost.

Liveness (the fairness properties of each section) stays with TLC: it is out of
the prover's reach, and so are the library's theorems of induction, which take an
operator. Where a recursively defined function had to be reasoned about
(`FlattenSeq` of a backup's blocks), its definition is a function of the length,
and the argument is about the least number at which it would differ.
