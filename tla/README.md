# libkmip in TLA+

This directory keeps TLA+ models of libkmip, a C++ client library for the Key
Management Interoperability Protocol (KMIP), the TLC instances that check them
and the TLAPS proofs about them. `PROJECT.json` is the index: which definition
stands for which lines of `src/`, what each run checks, and for every property
a mutant of the code that breaks it.

## 1. The system

libkmip consists of three libraries.

**kmipcore** encodes and decodes messages.

| part | what it does | module |
| --- | --- | --- |
| `kmip_basics` | TTLV elements: `serialize`, `deserialize` | `Ttlv` |
| `SerializationBuffer` | the growing, scrubbed buffer messages are encoded into | `SerializationBuffer`; proofs in `BufferProofs` |
| `kmip_protocol` | request and response messages as element trees, headers with credentials, batch items and their ids | `Elements`, `Protocol`, `Batch` |
| `ResponseParser`, typed responses | finds and checks the response to a batch item | `ResponseParser`, `Protocol`, used by `Batch` and `Get` |
| `kmip_requests` | one class per request | payloads in `Requests`; the attributes Register derives from a key in `Objects`, number checks in `Locate` |
| `KeyParser`, `Key`, `Secret` | objects from Get responses | `Objects`; which formats parse, also in `Get` |
| `Attributes`, `AttributesParser` | typed and generic attributes, merging | `Objects` |
| `kmip_formatter` | the text of a message for the log | `Elements`: which values are shown |
| loggers, `kmip_errors`, `kmip_enums` | interface and tables | only the ranges that parsers check (`Objects`) |

**kmipclient** talks to a server.

| part | what it does | module |
| --- | --- | --- |
| `NetClientOpenSSL` | TLS session: connect with a deadline, close, reconnect | `NetClient`; send and recv in `Exchange` |
| `IOUtils` | one request, one response over a session | `Exchange` |
| both | a connection in use | `Connection`, `Session`; proofs in `ConnectionProofs` |
| `KmipClient` | Locate with paging, fallback and probing | `Locate`; proofs in `LocateProofs` |
| | Get of keys, secrets and attributes, with retries | `Get`; proofs in `GetProofs` |
| | Create, Register, Activate, Revoke, Destroy | `Objects`; proofs in `ObjectsProofs` |
| | Get Attribute List, Query, Discover Versions | `Requests`, `Batch` |
| `KmipClientPool` | threads share a bounded number of clients | `Pool`, `PoolLive`, `PermitPool`; proofs in `PoolSlots`, `PoolCapacity`, `PoolProofs` |

**kmiputil** reads, writes and generates keys, mostly by calls of OpenSSL.

| part | what it does | module |
| --- | --- | --- |
| `KeyReader`, `KeyWriter`, `KeyGenerator` | keys from and to PEM, hex and Base64; new keys | `Keys` |
| `Encoding` | hex and Base64 | `Encoding` |
| `OpenSslErrorScope` | keeps OpenSSL's errors from the caller's error queue | `ErrorQueue` |

How the parts interact: a thread borrows a `KmipClient` from the pool; an
operation builds a `RequestMessage`, encodes it through a
`SerializationBuffer`, and `IOUtils::do_exchange` sends it and reads the
answer over the `NetClientOpenSSL` session; the answer is decoded, and
`ResponseParser` picks the item an operation waits for. `do_exchange` closes
the session on an I/O error, the next send reconnects, and the pool looks at
the session's flag when the client comes back. `Connection` puts the exchange
and the session together; `Pool` has `connected` per slot and lets a use of the
client set it to anything, which is more than `Connection` allows.

## 2. Modules

A comment at the head of each module says what a step is. In every module
variables and operators keep the names of the code (`total_count` for
`total_count_`), a definition `XY` preceded by "Mutant of X" is a plausible
bug that the properties must detect, and is otherwise unused.

**Pool** (`KmipClientPool.cpp`). Every critical section of `mutex_` is a step;
the TLS connect, the computation of `discard` and the destructor of a
discarded slot happen outside the lock and are steps of their own. The
condition variable is the set of waiting threads; `notify_one` wakes any one
of them, waits may time out or wake up spuriously. A guard may be moved to
another thread, marked unhealthy, and reassigned while it holds a slot
(`Rebinders`). `UseClient` sets the connected flag to anything. **PermitPool**
is what the pool promises: a counting semaphore. **PoolLive** adds a finite
budget of calls and fairness.

**NetClient** (`NetClientOpenSSL.cpp`). `connect()` in four stages (context,
BIO, handshake rounds with waits, checks and installation), each of which may
throw; locals that hold the new session, the installed session, the flag, the
socket mode and the deadline. OpenSSL's decision about a certificate and the
passing of time are external.

**Exchange** (`IOUtils.cpp`, and `send`, `recv`, `checkConnected` of
`NetClientOpenSSL.cpp`). The two directions of a session are queues; reads
return any number of bytes that have arrived. A byte is known by its message,
its position and the length field, so that a late response or a wrong place in
the stream can be told from the right one. The server answers late, in pieces,
with a length field that is negative or over the limit, or not at all, or hangs
up.

**Connection** composes the two: they share `m_isConnected` and `bio_`.
`checkConnected` starts the staged `connect()` of `NetClient` inside an
exchange, its exceptions end the exchange, a failed exchange frees `bio_`, and
the timeouts that `connect()` sets on the socket are what ends a read from a
silent server. **Session** is what a connection promises to its users: a call
returns the response to its own request or fails and closes, a new session is
never opened while a response is awaited, and only `std::bad_alloc` while a
response is being read spoils a connection. `Connection` refines it; the
mapping is `linkState`, `callState`, `lastOutcome`.

**Locate** (`KmipClient.cpp`, `locate_all`, `probe_all`). A step is one
iteration of a loop: a request, its response, and what the code concludes. A
server either has a number of objects and quirks (ignores the offset, caps
pages, reports no total, the total or the page count, changes its order) or
answers anything. `Merge` is the loop of `merge_new_ids` over a page;
`Doublings` counts how often the fallback can double its page, which is what
limits a loop that has no counter.

**Elements**, **Protocol**, **Requests** (`kmip_basics`, `kmip_formatter`,
`kmip_protocol`, `kmip_requests`, `kmip_responses`). Messages as trees of
elements: for each `toElement` an operator, for each `fromElement` a predicate
that says when it does not throw and an operator for its result, and which
secrets the formatter shows of a tree.

**ResponseParser** and **Batch**. The lookup of a response by batch item id
with its positional fallback, the check of status, operation and payload; and
a request that is built, cleared, replaced or decoded, serialized, logged, and
answered by servers that echo ids or not, reorder, stop early, leave out
Operation or send one element missing or ill-typed.

**Get** (`op_get_key`, `op_get_secret`, `op_get_attributes`). The three
attempts of Get Attributes, and the requests for preferred key formats. It
uses the operators of `ResponseParser`.

**Objects** (`kmip_attributes.cpp`, `attributes_parser.cpp`, `key_parser.cpp`,
the Register and Create requests, and the operations of `KmipClient` that use
them). The caller's key with its attributes, and the objects on the server
with what was sent for them. An action is one setter of `Attributes` or one
operation; after a Get the caller goes on with the key it fetched. The server
stores what it is sent and adds State and attributes of its own of every type.
A text stands for the value it is read as, within the range of `int32_t`, and
`from` of a stored object records the key it was registered for.

**SerializationBuffer**. The vector's elements, its spare storage and the
write position, byte by byte, with every write, `reset`, `release`, `shrink`.

**Ttlv**. `Element::serialize` and `deserialize_impl` as recursive operators
on sequences of bytes. The state is an encoding, in which bytes may be
replaced and whose end may be cut off.

**Encoding**, **ErrorQueue**, **Keys** (kmiputil). Hex and Base64 character by
character; the thread's error ring with the marks of OpenSSL 1.1.1 (a flag) and
3.x (a count); and the readers and writers of keys on PEM texts that are
sequences of lines. `from_PEM` is a step per attempt to parse, because each
leaves its errors and its place in the BIO to the next. `Reformat` and `Damage`
are what happens to a text between writing and reading.

## 3. Runs

`tlc -config X.cfg M` with the names in `PROJECT.json`. Bounds are constants
of the cfg files or sets in the MC modules.

| run | instance | what it shows |
| --- | --- | --- |
| `pool` | 3 threads (1 rebinder), 2 connections, 3 slot names, 2 calls per thread | no unit of capacity is lost or freed twice (`Accounting`); a slot has one owner; idle connections are open and healthy; no wake-up is lost; the pool refines `PermitPool`; every call returns; the capacity comes back |
| `connection` | 2 exchanges, requests of 0 and 2 bytes, a 2-byte header, length fields -1, 0, 2, 3 with limit 2, with and without a timeout, DNS and IP hosts, all TLS options and certificates | flag and session agree, also when `connect()` throws over a live session or in an exchange; the session in use is verified as asked, blocking and with its timeouts; what is left open between exchanges holds nothing unread; the connection refines `Session`; every `connect()` and exchange ends |
| `locate` | batches of 2, 3 batches, probes of 2 and 1, up to 7 objects, `max_ids` up to 9; and a server that answers anything with 3 ids | `confirmed_complete` is true only of complete lists; no partial list from servers that page correctly or report the total, in whatever order; no false alarm; at most `max_ids` distinct ids; a bounded number of requests |
| `batch` | up to 2 items of every operation, KMIP 1.4 and 2.0, headers with and without credentials, one fault in the request or the response | ids of a built request are unique; a request reads back from the wire as it was built; a lookup yields the answer to its own item or an error; what the server answered reaches the caller, the reason for a failure included; listed attribute names select what they were listed for; no secret is logged |
| `get` | every combination of accepted encodings, refusals, batch quirks, key types and formats | the retries find an accepted encoding; a preferred format is returned if the server has or makes it; what is labelled X.509 is; the format requests never lose a key nor trigger the retries |
| `objects` | 11 keys and secrets, KMIP 1.4 and 2.0, up to 4 calls; values on both sides of every check | the Key Block and the attributes of a registered key agree, with algorithm and length or neither; a fetched key is the one registered, also if it is changed and registered again; Get fails for exactly the objects listed in `Unreadable` |
| `buffer` | 2 byte values, writes of up to 3 bytes, capacity limit 6 | the content is exactly what was written, also after a refused write or a reset; the capacity keeps to its limit and nothing up to half of it is refused; storage kept by `release` is scrubbed |
| `ttlv` | every type with values at its limits, alone and nested, depth limit 2 | decoding inverts encoding up to the depth limit; whatever is accepted after a change is the canonical encoding of the result |
| `keys` | AES keys of 1 to 3 bytes, keys and certificates in each DER form, PEM texts of up to 6 lines, an error ring of 3 entries, both families of OpenSSL | a key that is written reads back, through changes of layout; whatever is read from a damaged text is the content of a complete block with a fitting label; no error of ours is left in the queue, the caller's are kept unless the ring overflows, and none of them is reported as ours; hex and Base64 accept exactly the encodings, up to case and whitespace |

Three runs show statements of comments or documentation that the code does not
keep:

| run | statement | what happens |
| --- | --- | --- |
| `pool_open` | `KmipClientPool.hpp`: "upper bound for simultaneously open KMIP connections" | `return_slot` frees the unit before the discarded connection is closed |
| `batch_operation` | `kmip_protocol.cpp`: "Operation is optional in responses" | the typed response refuses an item without it |
| `attributes_routing` | `kmip_attributes.hpp`: well-known names are "automatically routed to the corresponding typed setter regardless of which overload is used" | the `int64_t` and `bool` overloads store them as generic attributes |

### Why the bounds are enough

* Pool: two connections are the least for which a slot may be idle while
  another is borrowed; three threads the least for which a thread sleeps
  while two compete for what is freed. The safety properties are proved for
  all sizes. Two calls per thread let a guard be borrowed, moved, marked,
  moved on and reassigned.
* Locate: with batches of 2 and 3 batches, 7 objects exceed the paging budget,
  and `max_ids` = 9 lets the fallback double its page; `Int32Max` = 8 makes the
  largest page one that `LocateRequest` refuses.
* Connection: two requests let an answer come late; a header and a body of two
  bytes each can be split by a read; the length fields are below, at and above
  every comparison. All but the end of calls is proved for all sizes.
* Batch: two items are the least that can be confused or reordered, and
  the faults are taken one at a time: a decoder throws at the first it minds.
* Keys: 1, 2 and 3 bytes leave the remainders modulo 3 that 16, 32 and 24
  leave, so that every Base64 padding occurs; a ring of 3 entries overflows
  within one call.
* Objects: four calls are enough to change a key, register it, fetch it and
  register it again, or to register, fetch, register and fetch; every value
  that a check or a version tells apart is among the values set.
* SerializationBuffer: from capacity 2 and 3 doubling passes the limit of 6
  with and without meeting it.
* Ttlv: the length of every value is below, at and above the alignment; the
  depth limit (64 in the code) is 2, with elements of depth 3.

### Fairness

* `PoolLive`: a thread inside the pool's code keeps running, and guards go out
  of scope. A connect ends because `connect()` has a deadline. Nothing is
  assumed of timeouts, spurious wake-ups or further calls. Mutex and condition
  variable are not fair to a thread, hence the finite number of calls. There
  are fewer rebinders than connections: threads that hold a slot while they
  borrow another can wait for each other, as with any semaphore.
* `Connection`: a thread inside `connect()` or `do_exchange` runs, and time
  passes, so that the deadline of `connect()` and the socket timeouts
  (`SO_RCVTIMEO`, `SO_SNDTIMEO`) are met. Nothing is assumed of the server, and
  nothing is claimed where no timeout is set: a read may then wait for ever.

## 4. Proofs

### The pool

`PoolProofs` proves, for any finite set of threads, any finite set of slots and
any `MaxConnections` > 0, that `Spec` implies `TypeOK`, `Accounting`,
`ExclusiveSlots`, `IdleSlotsUsable`, `NoLostWakeup` (always) and
`ImplementsPermits`. The only assumption is `PoolAssumption` of `Pool`.

The inductive invariant is `PoolInv`, the conjunction of these five and
`ControlInv`. None of the five is inductive alone:

* `Accounting` counts threads whose locals hold a slot, and a step moves a
  thread between these sets according to its `pc`: `ControlInv` ties locals and
  `pc` together.
* `IdleSlotsUsable` speaks of a slot when it is pushed, but its fitness is read
  before the lock is taken. `ControlInv` carries it along: a guard that says
  healthy has an untainted slot, and a false `discard` means that the slot is
  connected and untainted. That no other thread can change this in between is
  `ExclusiveSlots`.
* `NoLostWakeup` needs `Accounting`: a step that raises the free units lowers
  the held ones, and each of them notifies; a thread only goes to sleep when
  there are no free units.

The proof has one lemma per conjunct, with a case for each action that can
disturb it: `PoolSlots` has types, ownership, control and fitness of the
slots, `PoolCapacity` the counting (`Accounting`, `NoLostWakeup`), `PoolProofs`
puts them together. Steps with a common effect (popping an idle slot, reserving,
waiting) are treated once and used by `Borrow`, `TryBorrow`, `Recheck` and
`RecheckTimedOut`. Cardinalities change by facts of `FiniteSetTheorems` about
adding and removing one element. For the refinement, the free permits are the
idle slots and the unused capacity, a thread's permits are the slots it holds
and the connect it has under way; each step takes one, gives one, or changes
nothing.

### The connection

`ConnectionProofs` proves, for any number and sizes of requests, any header
size, limit and length fields, any timeouts and hosts, that `Spec` of
`Connection` implies `FlagMatchesSession`, `SessionReady` and `ReusableInSync`
(always), and `ImplementsSession`. The assumptions are `ConnectionAssumption`
(types of the constants, a header of at least one byte) and `NoneAssumption`
(the null pointer is not a session).

The inductive invariant is `ConnectionInv`: types, the two properties about the
session, and

* `ConnectInv`, about `connect()`: a session past its handshake passed the
  checks that were asked for, and the options do not change meanwhile; a thread
  awaits a response only where there is a session and no `connect()` is under
  way. `SessionReady` is about the session once installed, so it needs the
  former; the refinement needs the latter, because `Session` forbids to open a
  session while a response is awaited.
* `SyncInv`, about the bytes: on a connection that is not abandoned, nothing is
  in transit between exchanges, and in one there is either the request, still
  unanswered, or exactly one response to it, `Arriving(n)`: its first bytes in
  the buffer, the rest in transit, and nothing else. `ReusableInSync` alone says
  nothing about the states within an exchange.

Each step has a lemma. The central ones are `RecvStep` (bytes stay in order
however a response is cut into reads), `HeaderRead` (the length field that is
read is the one of the response to this request) and `ResponseRead` (when the
expected number of bytes is there, the buffer is that response and nothing is
left in transit). In the refinement, `connect()` finishing is `Open`, the last
part of a request `Sent`, `do_exchange` returning `Return`, an I/O error `Fail`,
`std::bad_alloc` `Spoil`; all else leaves the abstract state alone.

### Get

`GetProofs` proves, for every server and every call, that `Spec` of `Get`
implies `RetriesFindEncoding`, `PreferredIfPossible`, `LabelTruthful`,
`NoWorseThanPlain` and `RefetchNotRetried`. `GetAssumption` gives the types of
calls and servers and says that `Absent` is none of the values it stands in for.

The properties speak of the end of an operation, so the invariant `GetInv` says
what is known on the way. `Climbing`: a server that some encoding would satisfy
is asked again only because it rejected, with a reason that makes the code
retry, every encoding tried before; the last attempt is therefore one it
accepts. `Fetching`: between the plain Get and the requests for preferred
formats the key is the one that the server has, and the second format is asked
for only when the first was not to be had. `Outcome` is what the two lead to.
The lemmas about the batch (`Find` of `ResponseParser` applied to what a server
answers) show that each of the two items gets its own answer, with and without
echoed ids and when the batch stops at a failed item.

### Locate

`LocateProofs` proves, for all batch sizes, numbers of batches, lists of probe
sizes, values of `max_ids` and servers, that `Spec` of `Locate` implies
`SearchBounded`, `ConfirmedIsComplete` and `NeverPartial` (always) and the action
property `NoFalseAlarm`. `LocateAssumption` asks for positive page and batch
numbers and at least one probe, as the constants of `KmipClient.cpp` are.

The inductive invariant is `LocateInv`:

* `Known`: the ids are distinct, from the server, and at most `max_ids`.
* `PagingInv`: the offset of the next page is the number of ids known. A page
  that brings anything else ends the paging, so that a correct server is
  never asked for a page with a gap before it.
* `FallbackInv`: after k requests the page has been doubled k times from twice
  the batch size, or is `max_ids`. A full page of `max_ids` ends the loop, so k
  stays within `Doublings(max_ids)`.
* `ProbingInv`: the requests made, the pages left of this pass and the passes
  left fit into `Budget`.
* `TotalInv`: a total that was believed is the number of the server's objects.
  `located_total` believes only numbers that exceed the page, which a page
  count never does.
* `OutcomeInv`: what `probe_all` starts from is already complete where
  `NeverPartial` claims it, and merging keeps it so.

Completeness comes from counting: distinct ids of a server with n objects are
at most n, and exactly all of them if they are n (`Count`, `CountMore`). The
facts about `Merge` (the result extends what was known, has no id twice, and
holds the whole page unless it is full) and about `Doublings` (it exists, and
sizes grow) need induction over a recursive function. It is done by the least
counterexample, a set rather than a predicate: `Loop`, from `Minimum`, from the
well-foundedness of the natural numbers.

### The serialization buffer

`BufferProofs` proves `ContentExact`, `GrowthLimited` and `NothingLingers` for any
bytes, lengths, alignment and capacities, from `BufferAssumption`. The invariant
`BufferInv` adds that the write position is within the vector, `StorageInv` the
types of the spare storage. `Spliced` says that bytes put at the write position
leave those before it as they are; `PutStorage` that storage which becomes part
of the vector, or is allocated anew, leaves only zeros behind.

### Objects

`ObjectsProofs` proves, for any keys, values of attributes, names, key lengths and
attributes of the server, and any number of calls, that `Spec` of `Objects`
implies `PairConsistent`, `FetchedFaithful` and `ReadableUnless`.
`ObjectsAssumption` gives the types of the constants; it also says that callers
do not start from a public key labelled PKCS#8, that the server does not answer
a well-known name with an attribute of its own, and that `Absent` is none of the
values it stands in for.

The properties compare two ends of a history: what a caller had when an object
was registered, and what is read after any number of other calls. The
invariant `ObjectsInv` keeps the first end: of every stored object, `IsStored`
says that format, pair and attributes are exactly what the requests make of the
key in `from` (Create may add a usage mask that is not set). Setters change the
caller's key and not `from`, lifecycle requests only State. From there:

* `PairConsistent` follows without looking at a step: by `StoredAttributes` no
  attribute of an object but the pair has the kind that the parser wants under
  these names. A generic attribute can have such a name, but goes as text.
* For `FetchedFaithful`, `ReadBack` shows that each typed field is parsed from
  the one attribute that was sent for it. This needs that the parser did not
  throw: then no text is there under a well-known name. `KeyBack` adds that
  merging over the Key Block changes nothing, because both hold the same pair.
* `ReadableUnless` is an equivalence. `BadNotParsed` finds, for each case of
  `Unreadable`, the attribute that makes the parser throw, with the default
  selection of attributes as with all; `OthersParsed` goes through all
  attributes that can be answered otherwise.

`FetchedFaithful` and `ReadableUnless` speak of the last fetch, so they are kept
by the steps together with `ObjectsInv`, though only Get steps say anything.

### Only model-checked

* All liveness: fairness and ENABLED are beyond the proof system.
* `Batch`, `Ttlv`, `Keys` and what they use: their operators recurse over trees,
  bytes and lines, and what a `RECURSIVE` operator computes cannot be proved with
  the installed provers.

## 5. Not modelled

* The wording of logs and errors, the logger interface and the tables of names
  and numbers: no property depends on them.
* Construction, moves and destruction of `KmipClient` and the `Kmip` facade:
  they only pass on ownership. `setMaxResponseSize` sets a number of the
  header (in `Headers` of `Batch`); the limit that Locate computes for its
  responses is the constant `Limit` of `Exchange`.
* The payload classes `Attribute` and `LocateRequestPayload`, which only tests
  use.
* OpenSSL, the operating system's sockets, the server: external, by what the
  code observes of them.
* An allocation that fails in `receive_message` leaves a session open with an
  unread body (`do_exchange` catches only I/O errors). `Exchange` has the step,
  `Session` calls such a connection spoiled, and `ReusableInSync` excepts it.
* A server that both reorders its answers and leaves some out, while echoing
  ids: the positional fallback of the lookup may then meet another's item.
* Objects created or destroyed while a search is under way: only the bounds
  on the result and the requests are claimed there (the server that answers
  anything).
* The single-page retry of `locate_all` accepts a short page when no total is
  known, so a server that ignores offsets, caps pages and reports no total
  yields a partial list; the code's own comment says so, the header says that
  this never happens. `NeverPartial` leaves such servers out.
* `add_batch_item` on a request decoded by `fromElement` may hand out an id that
  a decoded item has, because the counter restarts at the number of items. No
  operation of the client does so; `BuiltIdsUnique` is about requests it builds.
* In `Objects`: numbers in texts beyond `int32_t`, a public key registered under
  the PKCS#8 label (which `Get` covers), `RegisterSymmetricKeyRequest` (which no
  operation uses), and what a real server refuses to register.
* Two small disagreements with comments that no run shows: `setBatchItems`
  "updates header batch count" (`kmip_protocol.hpp`), which only `serialize()`
  does; and `op_get_attribute_list` returns the "attribute names available for
  the object" (`KmipClient.hpp`), which with KMIP 2.0 are those whose tag is in
  the table of twelve.

## 6. Plan

1. `Connection` inside `Pool`, in place of `UseClient`, for a pool of one slot.
2. A module for the value of a text attribute, in place of the number it is read
   as, so that `Objects` covers texts beyond `int32_t`.
