# ComFlux middleware: specification, model checking and proofs

ComFlux lets components exchange messages through endpoints. Each component is
an application process linked with the API library (`src/api`) and a core
process (`src/core`) beside it; the two talk over a socket pair, and cores talk
to each other over communication modules (TCP, UDP, SSL, MQTT, REST). This
directory models the parts of that system whose correctness depends on the order
in which threads, messages and timeouts meet, model-checks them with TLC, and
proves what matters most for every number of connections and callers with TLAPS.

## The system

| Component | State | Operations | Talks to |
|---|---|---|---|
| Connection protocol (`src/core/protocol.c`, `core_callbacks.c`) | a `STATE` per connection: protocol state, `is_auth`, `am_auth`, handler, local endpoint, flag | connect, HELLO, HELLO_ACK, AUTH, AUTH_ACK, MAP, MAP_ACK, disconnect | the peer core by messages; `core_map` by tokens in `map_sync_pipe` |
| Mapping call (`core_map` in `core_module.c`, `common/sync.c`) | the global pipe `map_sync_pipe`; where each caller is | connect, three waits, send MAP, return the flag; the next module on failure | connections, by tokens and by the shared `STATE` |
| Blocking call of the library (`api/middleware.c`) | `blocking_msg_id`, `waiting_blocking_call`, the pipe `fds_blocking_call` | send command, note id, raise flag, wait; receive a reply; run a handler | the core over the socket pair |
| Framing (`core/state.c`, `api/middleware.c`) | a `BUFFER`: bytes, brackets, string or escape state | `buffer_update` on each chunk received | hands each complete message to the connection's handler |
| Endpoints and mappings (`core/endpoint.c`) | `LOCAL_EP`: the array of mapped `STATE`s, queues, filters | map, unmap (send, receive, final, address, all), send, query | connections; the application |
| Commands (`core_module_api.c`, `api/endpoint.c`) | tables of functions by type and name | about forty functions, from register to load | the application |
| Queues and requests (`core/endpoint.c`, `core_module.c`, `api/endpoint.c`) | `messages`, `responses` of a queuing endpoint; a counter of ids | fetch, more, send request, response | the application |
| Streams (`core_callbacks.c`, `common/conn_fifo.c`) | fifo, streaming thread | start, stop, data | connections |
| Resource discovery (`core/rdcs.c`, `core/default_eps.c`, `src/rdc`) | the table of RDCs, the result being awaited | register, look up, map by lookup | default endpoints |
| Access control (`modules/access_modules`) | ACLs, credentials | authenticate, add, check | the protocol, endpoints |
| Transports (`modules/com_modules`) | sockets, receive threads | connect, send, receive, close | `core_on_connect`, `core_on_data`, `core_on_disconnect` |
| Manifests, JSON, filters, hash map, array, logging, configuration | sequential data | | |

Threads of a core: one that receives from the application and runs its commands
(among them the blocking `core_map`), one that accepts connections, one
per connection that receives; the default endpoints run `core_map` from a
connection's thread too. Threads of an application: its own, and one that
receives from the core and runs the handlers of endpoints. Nothing in the code
takes a lock around the state these threads share.

What is hard, and what would make each part correct:

- **Handshake.** Both sides send HELLO at once, and the messages of the two
  directions cross. No message may find its receiver in a state that
  ignores it, for nothing is ever resent; a connection is opened only when each
  side has accepted the other; loss, duplication and reordering (UDP) may stall a
  connection but never corrupt it.
- **core_map.** It learns of the progress of *its* connection from tokens that do
  not say which connection posted them, through one pipe that every call replaces.
  It should return, report 0 only for a mapping, and leave no mapping behind when
  it reports a failure.
- **Blocking call.** The id and flag of the call are set after the command was
  sent, are shared by all callers, and are not reset by a timeout. A call should
  return its own reply or NULL, and return at all.
- **Framing.** The messages handed over must not depend on where the chunks end.
- **Mappings.** The array of mapped connections must agree with the connections'
  states through unmap from either side and disconnection.

- **Commands.** The library names a function of the core by text; name, type and number of
  arguments have to agree on both sides, and an answer has to come back under the id of its call.
- **Queues.** Messages outlive the callback that brought them, and belong to the buffer it came from.
- **Queries.** A mapping has to lead to an endpoint that fits, whichever end asks.
- **Access.** A credential belongs to one connection, a list to one endpoint; neither may be
  mistaken for that of another, or of an earlier one.
- **Requests.** A response goes to every requester; whose it is has to be told from an id that
  threads draw from a counter without a lock.
- **Streams.** What is written to a fifo must come in order and go nowhere else; the thread that
  writes has to come back to its connection, also when no fifo could be opened.
- **Discovery.** A lookup has to end though its RDC does not answer, and to take its own answer.
- **Connections.** The system gives the numbers of sockets out again; who knows only the number
  must find the STATE of its own connection.
- **A node.** Two processes start each other, wait for each other with timeouts, and each may end at any time.

`PROJECT.json` lists the hazards at their lines, with the properties that watch
each, or the reason why none does.

## The modules

| Module | Models | Extends |
|---|---|---|
| `CoreProtocol` | the handlers of `protocol.c` and the dispatch of `core_callbacks.c`, as operators from an end and a message to an effect (new end, messages sent, tokens posted) | |
| `Handshake` | any number of connections, each two ends with a queue to each; one action per callback and per fault of the transport | `CoreProtocol` |
| `AuthSession` | what a connection promises, without messages: who vouched for whom, and what each end admits | |
| `HandshakeProofs` | theorems about `Handshake` | `Handshake` |
| `CoreMap` | threads in `core_map` and `core_map_all_modules` over the connections of `Handshake` | `Handshake` |
| `CoreMapProofs` | theorems about `CoreMap` | `CoreMap`, `HandshakeProofs` |
| `BlockingCall` | `mw_call_module_function_blocking`, `api_on_message` and the core that answers | |
| `BlockingCallProofs` | theorems about `BlockingCall` | `BlockingCall` |
| `Framing` | `buffer_update`: a stream written in pieces, read in chunks, cut into messages | |
| `ByteFramer` | what framing promises: the same stream seen byte by byte, with no chunks | |
| `FramingProofs` | theorems about `Framing` | `Framing` |
| `Mappings` | the endpoint table: connections that come, map, end and use descriptors again; the commands of the application on endpoints, a loop that sends among them | |
| `MappingsProofs` | theorems about `Mappings` | `Mappings` |
| `CoreFunctions` | the tables of `core_module_api.c` and the calls of the library: which call finds which function, and whether its result comes back | |
| `EndpointTypes` | the types of endpoints and what each may do | |
| `EndpointCalls` | one endpoint: the calls of its application, and messages of a mapped peer to its queue or handler | `CoreFunctions`, `EndpointTypes` |
| `EndpointQueries` | the table of endpoints of a core, and the endpoint that a mapping's query leads to | `EndpointTypes` |
| `AccessControl` | access modules: loading, authentication, credentials, lists | |
| `EndpointProofs` | theorems about these three, and about the composition of them that TLC checks | `MCEndpoint` |
| `Requests` | requesters with several threads, a responder, and the way of a response | |
| `Streams` | a stream between two endpoints, its fifo, and the descriptor an endpoint remembers | |
| `Discovery` | a core and RDCs: registration, lookup, default endpoints | |
| `TrafficProofs` | theorems about these three | `Requests`, `Streams`, `Discovery` |
| `Connections` | the accept and receive threads of the TCP module and the core's callbacks, over numbers that are used again | |
| `Lifecycle` | an application and its core from `mw_init` to the end of either | `CoreFunctions` |
| `NodeProofs` | theorems about these two, and about the composition of all five that TLC checks | `MCFlows`, `TrafficProofs` |
| `MC*` | the instances TLC checks | |

### CoreProtocol and Handshake

An *end* is the part of `STATE` the protocol reads: `st`, `isAuth`, `amAuth`,
`handler` (which of `core_on_proto_message` and `core_on_message` is
`on_message`), `lep` (whether a local endpoint is attached), `flag`; `late` is explained below. A message is its
type and the one value a handler looks at. `Take` removes a message from
the queue and applies a handler's effect; `Ignore` is the dispatch falling
through. `phase` says whether the `STATE` exists (`idle`, `up`, `closing` after
`fc_connection_close`, `freed` after `core_on_disconnect`).

One thread receives for a connection, so handlers of one connection do not meet. What may run in the
middle of one is the thread of `core_map`, which writes the same `STATE` in `core_proto_map_to`
(`protocol.c:319-320`) without a lock (`Overtake`):

- `RecvAuthOvertaken`: in a core with access modules `core_proto_check_auth` posts its token (`:251`) before it
  sends AUTH_ACK (`:264`), so the MAP of the `core_map` it wakes may be first; the peer is then not yet authenticated
  and ignores it. It takes an AUTH that comes after AUTH_ACK, which an ordered transport never delivers; so
  `NothingIgnored` holds in `hs_tcp`.
- `RecvOvertaken`: a `core_map` whose wait ended early (a token of another connection, end of file, a timeout) sends its MAP at
  any point of a handler of HELLO, HELLO_ACK, AUTH or AUTH_ACK. Before the handler looks at the state: it finds
  MAP_ACK, leaves it and posts nothing. After it has written: MAP_ACK stays. In between (`:184-188`, `:246-250`, `:292-296`): the handler's
  write comes after, takes the state back from MAP_ACK, and the MAP_ACK of the peer will be ignored. `late` is
  what is still to be written and `LateWrite` writes it, in a step of its own. Until then the receive
  thread does not listen (`Listens`); since nobody else looks at the state, what the handler sends and
  posts is put before that write.

The handlers of MAP and MAP_ACK are not overtaken: a client has sent its MAP when MAP_ACK comes, and a server sends none.
Every safety property holds with all this; `NeverBack` says which step back there is.

The transport of each end is a parameter: with no `Faults` its queue is that of
TCP; UDP adds loss, reordering and duplication; `break` ends a connection at any
time. Messages are whole: cutting and joining them is the business of `Framing`.

### CoreMap

A thread goes through `init`, `connect`, `wait1`, `wait2`, `map_to`, `wait3`,
`return`, once per connection it tries. `sync_init` empties the pipe, and the
threads blocked in `recv` on the old one read end of file (`eof`); which of
the waiting threads are already blocked is a free choice. `SyncWait` ends with a token,
at end of file, or on timeout. Unless `Impatient`, a timeout happens only when no
message and no late write is left to handle: five seconds are then assumed longer than a handshake.
`states_get` finds the `STATE` of a connection even after it was freed; what
is read from it is any code, what is written to it has no effect on a live connection.
`MapOvertakes` is `core_proto_map_to` in the middle of a handler: from `wait2` with the token
of that handler, or from `map_to`, the wait being over, in any handler.
Every `fc_connect` opens a connection of its own (`OwnConnections`). A call is `Alone` while no other
thread has begun one, nobody connects to this core, and its own connections neither fail nor can be refused;
only then does the code do what `endpoint.h` says of a mapping.

### BlockingCall

`toCore` and `toApp` are the socket pair, in order and reliable; `pipe` is
`fds_blocking_call`. `Call`, `StoreId`, `Raise` and `Return` are the four steps
of a call in their order in the code. The receiving thread
handles a frame at a time; for a frame to an endpoint it runs the handler, in
which it may call the core itself. After a handler `api_on_message`
compares an id that this frame did not set: `residue` is what the previous frame
left, and the comparison sees that or something else. A command or frame is taken as a whole.

### Framing

One thread writes messages in pieces (`Send`, `Write`), as
`mw_call_module_function` does with the fields of a command; the receive thread reads up to
`MaxChunk` bytes, wherever they end, and calls `buffer_update` (`Receive`). A
step of `Loop` is one byte of its loop, by the cases of `buffer_state`; `Keep` is
the statement after the loop. `wordStart` is `word_start`: where in this chunk
the current message began, the first byte if it began earlier. A byte is one of
the six that `buffer_update` tells apart. `Gaps` are blanks between messages.

`Reads` says that a text is one message: the framer is between messages before its first byte and after its
last, and nowhere else. Of the texts in the instance TLC finds this true (`MCWhole`).

`ByteFramer` has no chunk and no buffer. `Word` maps the state to it: the message so far
is `data` and the part of the chunk from `wordStart`; the stream is what
the loop has not seen yet. The library's copy of the function differs only in what it calls.

### Mappings

A connection begins here in the state MAP, the handshake behind it; each has a
thread. Where two threads can meet, a handler is several steps: `core_proto_map`
is cut between `endpoint_query` and `ep_map` (`RecvMap`, `EpMap`),
`core_on_disconnect` into `EpUnmapFinal`, `StateFree` and `ConnectionClose`, and a loop of
`ep_send` into its condition, `array_get` and `fc_send` (`SendSize`, `SendGet`, `SendTo`). The
application's thread runs no other command while it is in that loop.

`table` is `conn_state`. Its entries outlive their connections, and a descriptor
may be given to a new connection once the old one is closed.

`array_remove` compares, as strings, the `STATE`s it searches, and all of them begin with the
same pointer; so its binary search ends at its first probe, the middle (`Probe`), whichever
`STATE` it was asked for.

A step that uses a `STATE` or `LOCAL_EP` after it was freed leads to the mode
`undefined`, and unmapping a live connection, which builds a message from a null pointer, to
`crashed`; both end the behaviour. `fault` notes which function it was and the endpoint or descriptor it worked on. Removing an
endpoint that is not mapped always is one: `ep->data` is the `LOCAL_EP` itself
(`endpoint.c:98`), `endpoint_free` frees it (`endpoint_base.c:96`), and `ep_local_free` frees it again (`endpoint.c:154`).
Removing one that is mapped crashes before that. So no endpoint is ever gone while the core runs.
`cause` is a history variable: the endpoints that two connections
referred to at a time (`shared`) and that lost a connection during a loop (`overlapped`). No action reads it.
`UndefinedHasCause` says of each function that uses freed memory what must have happened to that very endpoint or descriptor.

`SoleMappingRight` and `NoMappingsLeft` say what remains true in spite of `array_remove`: with one
connection at a time the middle is the right entry, and with several the number is right.

### CoreFunctions and EndpointCalls

A command is the name of a function, the type of its result and a number of arguments.
`Registered` is the table of the core, the sets `...Calls` are what the library sends.
`MayFind` says whether the core finds it. The library sends seventeen bytes of every name: of a shorter
one the last is a zero byte, at which the `sscanf` of `buffer_app_set` stops, and the type and the id are
whatever was on the stack. So such a call may or may not be carried out, and its result never comes
back. `BlockingCall` is about the calls whose names fill the seventeen bytes; of those that wait,
ten can never be answered (`OnlyTenUnanswered`).

`EndpointCalls` runs every such call on one endpoint in any order, as `_core_call_array` and the
functions of `core_module.c` do, and has a mapped peer send to it. `Handle` and `Free` are
two steps because commands run on another thread: in between, and ever after, a queued message is
a pointer to what `buffer_update` has freed. `epMode` says how a behaviour ended: `crashed` is a core that
dereferences NULL, `undefined` one that reads freed memory.

The library knows `ep_receive_message` where the core knows `ep_fetch_message`, and so for requests and
responses: nothing is ever taken from a queue, and no freed message is read
(a part of `CrashHasCause`). Giving both the same name is the mutant that breaks it. The other use of freed memory is a removal: `CoreRemoveEndpoint`
of an endpoint that is not mapped frees its `LOCAL_EP` twice, so it never returns.

### EndpointTypes and EndpointQueries

A query is a sequence of filters, each a property, a sign and a value; `JsonBuildMap` makes it from
the endpoint that asks, after what the application asked for itself, and `EndpointQuery` takes the first endpoint of the
table that passes. The order of the table is free, for ids are random. Numbers are counted in
twentieths: `json_get_float` reads a missing one as -13, and one with a fraction that binary does not have as a
float next to it; `Kept` says which filters keep their meaning.
A string filter on what an endpoint does not have is a crash (`Strings` are the properties compared as strings).
That type comes before the hashes is what keeps the core's own filters from it, so that only a filter of the application
can have that effect (`CrashNeedsFilter`).

### AccessControl

The three modules differ in `AccessAuthenticate`, `LoadCrashes` and in how a name is looked up. A list is a set of subjects
or `Missing`. `CheckAuth` is the loop of `core_proto_check_auth` over the modules that the peer
offers: the first that does not say no decides. `access_authenticate` of the plain module asks for a list of no endpoint and gets
-1, which is not 0: it accepts everybody. `revoked` and `emptied` are history variables.

### Requests

`GenerateId` and `CountUp` are the two halves of `message_generate_id`; the second may lose what another thread
has added in between. A response is sent to everyone in `linked`; a requester takes it for each of its requests with that
id. `overlapped` and `cut` are history: another thread of the process was numbering at the same time, the connection ended.

### Streams

`use` says what a descriptor is at the moment, `fifo` the number the endpoint remembers. Nobody reads the fifo: its
name goes to the application in a frame of a kind the library does not know. So a fifo fills up after
`Capacity` writes, and `Write` of `recv_stream_msg` then never ends, for it adds the -1 that `write` returns to what it has written
and goes on. `StreamInOrder`, a part of `WrittenRight`, says that nothing of these retries ever gets through.
`fifo_init_server` may fail whenever it is called (`FifoFails`): the endpoint then remembers -1, a write to it fails for ever, a stop closes nothing, a
plain message is refused without a close, and the next start tries again. A write to the
standard input of the core, which is where data goes before the first start, or to another connection that has got the number, may
succeed, may fail any number of times, or may not return (`Elsewhere`): fairness asks nothing of it. A message that fails there closes the
number. `ReceiverComesBack` says that the thread deals with every message unless it hangs in
such a write (`Hangs`) or the application is gone.

### Discovery

`RequestDepth` and `RegisterDepth` follow a content through the places that wrap it into a message and the one
that unwraps it: requests and registrations arrive wrapped once too often, so the RDC of this repository
finds no property in a lookup and ends; `Unwraps` are RDCs that look further, with which the rest can be seen. The thread of
the commands goes through the table (`RdcRegister`, `RdcLookup`, `Poll`), the threads of connections run `LookupHandler`,
whose last line unmaps a mapped endpoint, which ends the core.
The answer does not say to which lookup: `doubtful` are the lookups that were given up or sent twice.

### Connections

`isOpen` is what the system has open under a number, `stateAt` what the table of STATEs has under it. A thread knows
only its number. The peer may leave, or send what makes the core close the connection itself while
the thread goes on reading; `OwnStateOnly` says that this, and a connection made before the
callbacks were set, are the only ways in which a thread can come to another's connection or a freed STATE.

### Lifecycle

Both directions of the socket pair are queues of `Room` messages; a send waits. The library waits five seconds for
the core's welcome and goes on without it; the key it then sends is the core's first message, which is skipped. The first
piece of whatever the library receives first is taken for the welcome. `core_spawn_fd` leaves both ends of the pair open in both processes, so
neither is ever told of the other's end, although `include/middleware.h:31-34` says that the core
ends when the library disconnects. `late` is the history of a wait that ended too early; with it, a
call may return the welcome or another's result (one slow reply is enough, however early the welcome was); `OwnUnlessLate` and `NothingLostInTime` are the two halves of `RightInTime`.

### MCEndpoint and MCFlows

Each puts components that share nothing side by side: `part` is chosen in `Init`, and a behaviour is one of that component
alone while the others stay where they began. One run then asks all of their properties; no behaviour mixes them.

## What is checked

All runs set `CHECK_DEADLOCK FALSE`: a connection that is settled or stalled, and
an application that makes no more calls, have nothing to do.

| Run | Instance | Shows |
|---|---|---|
| `hs_tcp` | two connections, versions 1 and 2, one guarded server, one guarded client, ordered transport, fairness | no message finds its receiver in a state that ignores it (`NothingIgnored`); both ends settle (`Settles`) |
| `hs_udp` | one connection, both cores guarded, loss, reordering, duplication up to 3 messages in flight, breaks, MAP at any time, also in the middle of a handler | `MutualAuthentication`, `VersionGate`, `ClientAgreesWithServer`; no step back but by the late write of an overtaken handler (`NeverBack`); refinement of `AuthSession` (`SessionSpec`) |
| `map_busy` | two calls, one with two modules, the first of which reorders and needs credentials | while a call is alone 0 means mapped and MAP is sent on a live `STATE` (`MapsRightAlone`); a call leaves at most one mapping (`OneMappingPerCall`); it returns (`MapReturns`) |
| `framing` | up to three messages: nested brackets, quoted brackets of both kinds of quotes, escaped quotes; chunks of up to 4 bytes | messages come whole and in order (`WholeMessages`); refinement of `ByteFramer` (`ByteFramerSpec`) |
| `mappings` | three connections, two endpoints, two descriptors, two messages to send | the table of states gives each connection its own `STATE` (`KeysUnique`); an endpoint that is not shared holds its mapping (`SoleMappingRight`), a shared one no more than it should (`NoMappingsLeft`); a loop that sends leaves nobody out (`NobodySkipped`); each function that uses freed memory has its own reason (`UndefinedHasCause`) |
| `call_busy` | a caller (2 calls), handlers that call (3), two frames for endpoints, answers of any delay | `Backlog`, `HandlerUnanswered`, `CallsReturn`; while one thread calls, results are at most one call behind (`AtMostOneBehind`) |
| `endpoint`, calls | endpoints of six types with and without handler, registered up to twice, two messages of the peer | the four ways to take the core down, among which reading a freed message of a queue is not (`CrashHasCause`); the calls that get no result (`OnlyTenUnanswered`) |
| `endpoint`, queries | tables of two endpoints, five types, two schemata, a name, a number, filters of an application | the endpoint found fits, and one that fits is found (`QueryRight`), from either end (`FoundEitherWay`); a query crashes the core only by a filter of the application on what an endpoint lacks (`CrashNeedsFilter`) |
| `endpoint`, access | the three modules, two loads, two subjects, three grants or revocations, one connection after another | credentials belong to accepted connections (`KeptForAccepted`); nothing revoked is granted again but by an emptied list (`NotGrantedAgain`) |
| `flows`, requests | three threads in two processes, three requests | wrong answers need equal ids, and within a process those need an overlap (`WrongAnswerHasCause`); requests are answered (`RequestsAnswered`) |
| `flows`, streams | a descriptor, a fifo of two writes, four messages | what is written is in order, and what goes astray has a cause (`WrittenRight`); every message is dealt with unless a write hangs (`ReceiverComesBack`) |
| `flows`, discovery | two RDCs, one of which answers, four commands, two failures | a result is one's own, or a lookup before was given up or doubled (`ResultOwnOrDoubtful`); registration and lookup end (`CommandsReturn`) |
| `flows`, connections | an incoming and an outgoing connection, two numbers | `OwnStateOnly`; who has left is closed (`LeftIsClosed`) |
| `flows`, lifecycle | one application and core, two calls, sockets of one message | results are one's own, and a core that was waited for loses nothing (`RightInTime`); `LibraryReturns` |

`EndpointTypeOK` and `FlowsTypeOK` are the type invariants of the components of these two runs. The type
invariants and the inductive invariants of the other modules are theorems (below), and no run repeats them.

Four runs show where the code does not do what its documentation says:

- `map_incoming`: `core_map` takes the tokens of an incoming connection for its
  own and returns 0 with no mapping (`endpoint.h:889`). The same end is reached
  when the versions of the two cores differ, for a wait that times out is not
  told from one that is woken, and `flag` is 0 until MAP_ACK.
- `map_refused`: after a refusal `core_map` goes on with a freed `STATE`
  (comment at `core_module.c:96`).
- `call_slow`: the late reply to one call is returned by the next (`endpoint.h:608`).
  With two calling threads the same happens without any late reply.
- `call_lost`: a reply that comes before the id is noted and the flag raised is dropped.

**Bounds.** Two ends per connection and every state and message type are present in
every instance; connections share nothing but the token pipe, so
one or two suffice for `Handshake`, and three for `CoreMap` (a call with two
modules and a rival). `MaxNet = 3` lets any message be duplicated at any point.
`Versions = {1, 2}` covers equal and different. `MaxCalls` of two is the
least with which a late reply meets a later call, three (of handlers) would show a
shift of more than one. `MaxNotices` gives a handler the chance to call.
Texts longer than `MaxChunk` and shorter than half of it make messages span chunks and chunks span messages;
a message after the two shows that the buffer was left clean.
In `mappings` three connections are the least with which the middle of an array is not its end, and two descriptors
for them have one used again. The connections, the endpoints and the descriptors are each symmetric: nothing tells
them apart, and only invariants are checked.
In `endpoint` two registrations are what a re-registration needs, two messages fill a queue and stay in order, two
endpoints in a table are enough for a first one to hide a second, three grants are a grant, a revocation and another grant. In `flows` three
requests are two that overlap and one of another process; a fifo of two writes is full after two; two RDCs are
what makes a registration go to more than one, and four commands hold a lookup that is late and
two after it; `Room = 1` is the smallest socket, in which every send may have to wait.

**Fairness.** Weak fairness of the receive and accept threads (a receive thread also finishes the handler it is in: `LateWrite`), of the threads in
`core_map` and in a blocking call, and of the core serving commands: each is a
thread in a loop that the operating system keeps scheduling, and each action
stays enabled until it is taken. In `flows` likewise: the threads of the core and library run and five seconds
pass; an RDC need not answer, a peer need not send or leave, and a thread that waits for a lock or a full socket
has no fairness of its own. In `Requests` the responder answers: that is what an endpoint with a handler is for. None of the transport's faults, and none of
the application's decisions to call, is fair.

## What is proved

`HandshakeProofs`, for every set of connections, every version set, every set of guarded cores
and every combination of faults, from `PeerAssumption` (connections are
pairs), `ClientsAssumption` (one end of each is the client) and `ParameterAssumption`:

- `TypeCorrect`: `TypeOK` is invariant.
- `InvariantCorrect`: `IInv` is invariant. `MutualAuthentication` and
  `ClientAgreesWithServer` are not inductive: an end acts on a message, so one has to know
  that every message in flight tells the truth about its sender, and goes on doing
  so. `IInv` says that: a positive HELLO_ACK is in flight only between cores of one version, a
  positive AUTH_ACK only from an end with `is_auth`, a MAP_ACK only with the
  state and flag its server has. Its second half relates each end to its peer. Truth is kept because
  `is_auth` is never reset and the states EXT_MSG and BAD are never left; that MAP is sent
  only once per connection keeps MAP_ACK truthful.
- `MutuallyAuthenticated`, `VersionsGated`, `ClientsAgree` follow from `IInv`.
- `NeverGoesBack`: every handler, called in a state in which the dispatch calls it, takes its end further (`Further`: no
  lower `Rank`, nothing vouched for taken back, no late write). For the MAP that `core_map` sends when its wait is over, `IInv` is
  needed: its end has not been mapped before. An overtaken handler goes back, if at all, from MAP_ACK to the state it meant to write, and that is
  later than the one it began in (`HandlerRises`). `IInv` says that an end with a late write is an open client in MAP_ACK,
  and that what will be written is as good as a state already reached.
- `ImplementsSession`: every step of `Handshake` is a step of `AuthSession` or a stutter,
  under the mapping `Vouched`, `Stage`.

- `NothingIsIgnored`: `NothingIgnored` is invariant. On an ordered transport two ends of one version send each other a fixed
  `Script` of five messages. `OrderInv` gives each end a place in the script of what it reads: its `STATE` is that of
  an end that has read so many (`HasRead`), what it has sent follows from its own place (`HasSent`), and the queue holds exactly
  the messages in between, in order (`Follows`). The next message is then always the one its state handles. The places of all
  ends are quantified together, for a step moves one end's place and what its peer may read. Where `core_map`
  sends MAP at any time (`Impatient`) the script is not kept, and neither is the property claimed.

The proofs describe a step once (`Change`: one end changes and sends to its
peer only), show that each action is such a change, and that a change whose new
end and messages are truthful keeps `IInv`.

- `ConnectionNeverStuck`: a connection in order (two cores of one version, nothing lost, repeated or reordered; it may break) that has not
  settled on both ends has a next step: a message its receiver handles, a MAP to send, a server to accept or an end to disconnect
  (`MayGoOn`). It is what remains of `Settles` without fairness. When both ends are open and nothing is in flight the two places of the
  script leave only MAP or the outcome (`QuietIsSettled`); that a server is open only after its client (`ServersFollow`) and that an end
  has a local endpoint only once its MAP is sent or answered (`AllAttached`) show the guards of the rest.

`CoreMapProofs`, for any threads and any lists of connections they try, from `LocalAssumption`, `TriesAssumption`,
`OwnConnections` and what `HandshakeProofs` needs:

- `MapInvCorrect`: `MapInv` is invariant. It has `IInv`, so it says first that the handshake keeps what it promises below
  callers that are woken at random; `LateInv`, what an end that is refused or was cut off can still become, by a late write too; and for each call `CallInv`:
  the connections it has not come to are idle, it has marked its own (`lep`) only once it has sent MAP, and what
  it has left is `Over`: will never be mapped any more. `EndStep` sorts all steps by what they make of an end.
- `HoweverWoken`: `MutualAuthentication`, `VersionGate` and `ClientAgreesWithServer` hold with `core_map` as they do without.
- `NeverBackHoweverWoken`, `SessionHoweverWoken`: `NeverBack` and the refinement of `AuthSession` hold of `MapSpec` too. A step is one of `Handshake`
  or a MAP on a connection that has none yet, between handlers or in one, whatever its state (`Hurry` in `MapIsHandshake`); the latter is covered by
  `SendMapOnward`, `OvertakenOnward`, `SendMapRefines` and `OvertakenRefines`.
- `MapImplementsHandshake`: `MapSpec => Hasty!Spec`, `Hasty` being `Handshake` with `Impatient` TRUE. So `core_map` adds nothing to what `Handshake`
  lets happen to a connection, and checking `Handshake` alone with any moment for MAP, also in the middle of a handler (`hs_udp`), covers it. With `Impatient` FALSE it
  would be false: a wait can end early.
- `OneMapping`: `OneMappingPerCall`, if no transport breaks connections (`NoBreak`, as in the run). An end
  that is cut off then was refused or its peer was (`Cut`), and a refused end is never mapped; with breaks a connection may be freed
  after it was mapped, and the flag that `core_map` then reads from the freed `STATE` may be any error.
- `RightWhenAlone`: `MapsRightAlone`, unless `Impatient`: a wait that is shorter than the handshake lets `core_map` go on too early.
  While a call is alone its steps and those of its connections are steps of `Handshake`, so the script of `OrderInv` holds, and none is a late write: at `map_to` its connection
  has no handler that would change anything. `Reckoned` counts the pipe: it holds the
  tokens its connection has posted so far (`Progress` of its state) less those the call has taken (`Taken`); what it has left
  posts no more (`LeftSilent`), and none is cut, since a core without access modules refuses nobody (`Unrefused`). When nothing is in flight the
  script says that the connection is ready for MAP or settled (`QuietIsSettled`), so a wait on an open connection always ends with a token
  (`WaitGetsToken`), the second when the state is MAP and the third when MAP is answered. `OrderInv` is needed for that: without the order a token may be missing.

`BlockingCallProofs`, for any callers and bounds, from `CallersAssumption` and `IdsAssumption`:

- `CallTypeCorrect`: `CallTypeOK`, which includes that the receiver is in a call only
  while it handles the frame at the head of the queue.
- `BacklogBounded`: frames in the pipe plus the raised flag never exceed the waiting callers by more than one.
  It is inductive given that each caller's raise adds a waiter and a trigger lowers the flag.
- `BehindByOne`: `AtMostOneBehind`. `OneBehind` says, for each place in which the only caller may be, what the pipe, the
  flag and `blocking_msg_id` may hold of it: one reply to the call before at the most. `Backlog` is what leaves no room for another.
- `HandlersUnanswered`: by `CallInv`, which says that what is in flight belongs to
  commands already sent, and that while the receiver is in a call its reply is not in the pipe.

`FramingProofs`, for any texts, gaps and buffer size (`FramingAssumption`):

- `FramingTypeCorrect` and `BufferCorrect`: `FramingTypeOK` and `BufferInv` are invariant, each
  inductive given the ones before it.
- `ChunksDoNotMatter`: `Spec => ByteFramerSpec`. `Receive` and `Keep` are stutters (the bytes
  only move between `stream`, `chunk` and `data`), a step of `Loop` is a `Byte`, and `Write` is a `Send`.
  `BufferInv` is what makes `Keep` a stutter: without it bytes could be lost or kept twice.
- `WholeCorrect`: `WholeMessages` is invariant if each text is one message and no gap opens a bracket (`WholeTexts`).
  `WholeInv` places the messages that are not delivered in the bytes `Pending`, one after the other, the first of them perhaps begun before;
  between messages the framer is before all of them, and within one it is where reading that part of the text leads (`Reads`). That the texts are
  given with their readings takes the place of an induction over their bytes.

`MappingsProofs`, for any connections, endpoints, descriptors and number of messages, from
`MappingsAssumption` (`None` is none of them):

- `MappingsInvCorrect`: `MappingsInv` is invariant. To the properties it adds `Life` (when a `STATE` is freed and when it has an
  endpoint), `Exclusive` (an endpoint that was not shared has one connection that refers to it) and `LoopInv` (where the loop is, in an array that only grew).
  `SoleMappingRight` needs `Exclusive`, for only with one entry does `array_remove` find the right one, and `KeysUnique`, for a
  callback finds its `STATE` by its descriptor. `StepCases` first sorts every step into a few cases that say which of the
  variables change; each part is then kept case by case.
- `MappingsGo`: `NoMappingsLeft` is invariant. `MappedStep` says that a step lets one connection join those mapped to an endpoint, with an
  entry more in its array, or leave them, with one less, or changes neither; `LeftInv` adds that these are finitely many.
- `MappingsTypeCorrect`, `KeysAreUnique`, `SoleMappingsRight`, `SendersSkipNobody` and `UndefinedExplained` follow from it.

`EndpointProofs` on `EndpointCalls`, for endpoints of any type and any calls of the library, from `EndpointCallsAssumption`:

- `CrashesExplained`: `CrashHasCause` is invariant. `LibraryNamed` says which names the library uses for what, so that the functions that
  fetch are never reached; and `ResponsesInv`, that only an endpoint that requests has responses queued, so that
  `ep_more_responses`, which is for those that respond, finds nothing freed.
- `TenUnanswered`: `OnlyTenUnanswered` is invariant. `Harmless` is what each function of the core does for both; `AnswerableFound`
  and `AnswerableEnough` say that the core finds the function of every other call that waits, with arguments enough.

`EndpointProofs` on `EndpointQueries`, for any types, schemata, names, numbers and filters, from `EndpointQueriesAssumption`:

- `QueriesRight`: `QueryRight` is invariant, because `QueriesInv` says that the answer is that of `EndpointQuery` to the filters of `JsonBuildMap`
  on the table as it is. What that returns is shown lemma by lemma: an index found is the first whose endpoint passes, an endpoint passes
  the core's own filters if and only if it is the counterpart of the one that asks, and no filter of the core crashes.
- `QueriesCrash` and `QueriesEitherWay`: `CrashNeedsFilter` and `FoundEitherWay`, the latter because `Counterparts` is symmetric in type
  and schemata and the number each end asks for is its own.

`EndpointProofs` on `AccessControl`, for any libraries, connections, subjects and endpoints, from `AccessAssumption`:

- `AccessInvariant`: `AccInv` is invariant. `NotGrantedAgain` needs `RevokedFrom`, that a list from which something was revoked is
  there until it is emptied: only a list that is not there is copied anew from the component's.
- `CredentialsKept` and `RevokedStays` follow from it.

`EndpointProofs` on the composition `MCEndpoint`, with the constants left open:

- `EndpointParts`: `Spec` implies the specifications of the three, so what is proved of each holds of what the run `endpoint` checks.
- `EndpointTypeCorrect`: `EndpointTypeOK` is invariant. That an endpoint without queues never has a message in one needs `EpShape`, that its queues
  are empty as functions: what a fetch or a handler takes out of a queue is then not there. It is kept command by command (`KeepsShape`).

`NodeProofs` on `Connections`, for any connections and numbers of sockets, from `ConnectionsAssumption`:

- `OwnConnections`: by `ConnectionsInv`. As long as nobody is in `early` or `closedHere`, a number belongs to one connection from its
  establishment to the end of its thread (`Owned`), and the `STATE` under it is that of the thread that reads (`OwnStates`).

- `ConnectionsTypeCorrect` (a lemma): `ConnectionsTypeOK` is invariant. `NumbersMatch` says that a number is open for the connection that
  has it; `OpenForHolder`, that unless the core closed a connection itself whoever holds a number has it open, also those who came too early.

`NodeProofs` on `Lifecycle`, for any commands of an application and any size of its sockets, from `LifecycleAssumption`:

- `LifecycleRightInTime`: `RightInTime` is invariant. `LifecycleInv` says that, unless the library ever gave up a wait, for the welcome or for a result, before what it waited for came (`late`),
  nobody gets anything before the core is set up (`NothingBeforeUp`), the key is the first message of all (`KeyIsFirst`), and the pipe holds the welcome
  or the reply to the call that waits, or nothing; a call that nobody waits for any more is never answered (`PipeRight`).

- `LifecycleTypeCorrect` (a lemma): `LifecycleTypeOK` is invariant. The pipe is bounded by counting what may still come into it (`Coming`): the welcome, the
  result that is waited for, that of the call being made. A call of its own adds one to the bound before it can add to the pipe.

`NodeProofs` on the composition `MCFlows`, with the constants left open: `FlowsParts` and `FlowsTypeCorrect`, as for `MCEndpoint`.

`TrafficProofs` on `Requests`, for any requesters, threads and number of requests, from `RequestsAssumption`:

- `IdsDiffer`: `SameIdNeedsOverlap` is invariant. An id drawn without an overlap is smaller than the counter and than what the threads
  in the middle of `message_generate_id` have read (`SolePassed`), so that no late `CountUp` can bring it back.
- `WrongAnswerExplained` follows, for an answer is matched by its id (`AnswersById`). It says nothing of requests of different processes, which have
  equal ids without any overlap; within one process an overlap is needed.

- `RqTypeCorrect` (a lemma): `RqTypeOK` is invariant. That a counter stays in its range although two threads may count at once is `CountersBounded`: no
  counter is ahead of the ids used so far (`IdsUsed`: the requests made and the threads that have their number), and what a thread has read is not either.

`TrafficProofs` on `Streams`, for any numbers of messages, openings and writes a fifo takes, from `StreamsAssumption`:

- `StreamsWrittenRight`: `WrittenRight` is invariant. `StreamsInv` says of each side that the data on their way and being written are in
  order and later than all that was taken before (`WireOrdered`, `WritingRight`, `ContentRight`), what the number that an endpoint remembers leads
  to (`FifoRight`), and what has to have happened before data goes astray or is cut (`CauseKnown`): no opening yet, a stop, a message that failed.
  That a message of which a write was refused fills the fifo up keeps the retries of others from getting between its halves.
- `StreamsTypes`: `StrTypeOK` is invariant.

`TrafficProofs` on `Discovery`, for any RDCs, commands and failures, from `DiscoveryAssumption`:

- `DiscoveryResults`: `ResultOwnOrDoubtful` is invariant. A lookup is clean while none up to it was given up or sent
  twice. `DiscoveryInv` says of each RDC that a clean lookup is in flight, as question or as answer, only while the core polls for it
  and then is the last one made (`CleanIsAwaited`), in one copy (`CleanIsOne`); so an answer that is not to the last lookup is to a doubtful one.

- `DscTypeCorrect` (a lemma): `DscTypeOK` is invariant. `RdcShape` says of each RDC that nothing is mapped to one that is down or on its way to it, and
  that only one that looks into the envelope ever answers.

Only model-checked: what the four runs refute, and the liveness properties (`Settles`,
`MapReturns`, `CallsReturn`, `RequestsAnswered`, `ReceiverComesBack`, `CommandsReturn`, `LeftIsClosed`, `LibraryReturns`),
which are out of the prover's reach: it knows neither fairness nor ENABLED.

## Plan

In this order; each with its MC module and proofs where they pay.

1. Done: connection protocol, its abstract session, `core_map`, blocking calls.
2. Done: `Framing`, and `ByteFramer` which it implements.
3. Done: `Mappings`, the endpoint table over connections.
4. Done: commands and queues (`CoreFunctions`, `EndpointCalls`), queries, access control.
5. Done: requests, streams, discovery, TCP connections, start-up and end of a node.
6. Proofs. Done: every invariant and every action property the passing runs check, the refinements of `AuthSession`
   (by `Handshake` and by `CoreMap`), of `ByteFramer` and of `Handshake` by `CoreMap`.

## Not modelled

- Connections of non-bridge modules (`core_callbacks.c:80`), and the MQTT, MQTT bridge and REST modules themselves: what
  they do in which order is up to the threads of the libraries they wrap.
- The SSL module: `conn_ssl.c` does not compile against its header and is off in the build. How UDP gives out its numbers.
- UNMAP at its receiver: the core that would send it ends first (`endpoint.c:417`).
- In `Mappings`: the descriptor of a refused connection (it is in `Connections`); connections that the
  default endpoints open; two access modules in one core, with which `array_remove` may miss; and what two threads do to
  an array in the middle of `array_add` or `array_remove`.
- Interleavings inside one handler of `protocol.c` with anything but the `core_map` of its connection.
- The pieces in which a command or a frame is written to the socket pair: two threads that write at the same
  time may mix them. `BlockingCall` and `Lifecycle` take them as whole, and `Framing` has one writer.
- Datagrams: a UDP message longer than the receive buffer is cut, and `buffer_update` never finds its end.
- Handlers of the default endpoints that load modules or set credentials; RDC endpoints that list manifests.
- `core_map_module` with a module that is not loaded, which dereferences NULL (`core_module.c:84`).
- Memory management, apart from what is freed in the modules above; JSON text; logging; configuration; dynamic loading;
  the libraries behind SSL, MQTT, REST and Kerberos.
