# A verification project for lmqtt_cpp

TLA+ models of the MQTT 5 server in `src/`, the TLC runs that check them on small
instances and the TLAPS proofs of what holds for every instance.

## 1. The system

A header-only server on asio. Three kinds of threads run in one process:

| thread | code | what it does |
|---|---|---|
| io | `_context.run()`, lmqtt_server.h:47 | accepts clients and runs every completion handler of every connection |
| timer, one per connection | lmqtt_timer.h:61-70 | sleeps 100 ms once, then expires a connection that has sent nothing |
| cleaner | `deleter_job`, lmqtt_server.h:138-154 | takes connections from the deletion queue, shuts them down and drops them |

and a fourth, the owner of the `lmqtt_server` object, calls `start()` and `stop()`.

### Inventory

| component | state | operations | correct if |
|---|---|---|---|
| `ts_queue` (lmqtt_tsqueue.h) | a deque, `_mxq`, `muxBlocking`, a condition variable | push/pop at both ends, `front`, `back`, `[]`, `empty`, `size`, `clear`, `find_and_erase`, `wait` | each operation is atomic, no push blocks for ever, a waiting thread is woken |
| `lmqtt_server` | `_activeSessions`, `_deletionQueue`, `_exitCleanupThread`, the two threads | accept handler, `deleter_job`, `stop` | at most two sessions; what is scheduled is deleted; `stop` returns |
| `connection` (lmqtt_connection.h) | socket, `_isFirstPacket`, `_receivedData`, two packets, the timer | header, body and write handlers, `shutdown`, `schedule_for_deletion` | only an identified client publishes; no handler runs on a dead object; every end of a session gives its slot back |
| `lmqtt_timer` (lmqtt_timer.h) | a thread | `run_once`, the join in the destructor | the thread never outlives what its callback uses, and never joins itself |
| `create_fixed_header` (lmqtt_packet.h:52-127) | the packet's `_type` | one function | a packet is given the type its control field names |
| packet bodies (lmqtt_packet.h:138-519), properties, payloads | cursors into `_body`, `propertySet`, `_payloadFlags` | `decode_connect_packet_body`, `decode_properties`, `decode_payload`, `decode_publish_packet_body` | the cursor stays inside and ends where the next field begins; what is accepted is what the client meant |
| client configuration (lmqtt_client_config.h, lmqtt_will_config.h) | limits, payloads, the will, user properties | `configure_propriety`, `configure_will_propriety`, `configure_payload` | a live session has legal limits; a PUBLISH does not change them |
| CONNACK (lmqtt_packet.h:533-641) | index and bytes left | `create_connack_packet`, `get_property_size`, `fill_property` | as many bytes are written as were computed, and they are what was negotiated |
| the framing of packets (lmqtt_connection.h:94-196) | `_packetLen`, `_type`, `_isFirstPacket` | the control field, the loop over the bytes of the length, the read of the body | each body is decoded as the packet the client framed, the first as a CONNECT |
| variable-length integers (lmqtt_utils.h), UTF-8 (lmqtt_utf8_string.h) | none | pure functions | they agree with the MQTT and the Unicode standard where the callers need it |
| `timer_queue`, `ts_pqueue`, the two `main.cpp` | | | not part of the running server |

### How the components interact

* The accept handler makes a connection, counts `_activeSessions`, pushes the
  connection and calls `_activeSessions.back()->connect_to_client(100)`, or
  pushes it on `_deletionQueue` when both slots are taken.
* `connect_to_client` starts the timer's thread and the first asynchronous read.
* Handlers and the timer call `schedule_for_deletion`, which pushes
  `shared_from_this()` on `_deletionQueue`, where the cleaner waits.
* The cleaner shuts the socket down, erases the connection from
  `_activeSessions` and drops the `shared_ptr`. Whoever drops the last one runs
  the destructor, which joins the timer's thread. Handlers and the timer's
  callback hold a raw `this` and keep nothing alive.

### What is hard

The three kinds of threads share two containers and every connection. The queue
has two mutexes, taken in two orders. An object may lose its last owner while a
read is pending on it or while its timer's callback is about to run. A client may
vanish between any two steps of a handler, and `remote_endpoint` and `read_some`
then throw through `_context.run()`. `stop()` must get three threads to end. All
of these, each at its line, are the `hazards` of `PROJECT.json`.

## 2. The modules

```
DequeOps ── AtomicDeque            what std::deque does; the abstract queue
   │            ▲ implements
   ├───────  TsQueue ── MCTsQueue  ts_queue at the grain of its mutexes
   │
   └─ Lifetime ─┬─ Connection ──┐  connections, their owners, the two containers
      FixedHeader┘               ├─ LmqttServer ── MCLmqttServer
      Lifetime ─── LmqttTimer ──┘      │ implements
                                   SessionSlots
DequeOpsProofs, TsQueueProofs, LmqttServerProofs

PropertyTypes ── ClientConfig ─┬─ PacketCodec ─┬─ ConnectMeaning ── MCPacketCodec ──┐
                      VarInt ──┘     ▲ implements  (UnicodeTable)    (Utf8)         │
                                     │         │                      MCPacketStream ┤
                      FixedHeader ── PacketStream ──────────────────────────────────┘
SetInduction ── Utf8Proofs (Utf8, UnicodeTable) ──┐
PacketCodecProofs (PacketCodec) ──────────────────┴─ ConnectMeaningProofs (ConnectMeaning)
                                                     └── PacketStreamProofs (PacketStream)
```

**DequeOps** gives, for each operation of `ts_queue`, the elements it leaves, what
it answers and when it is defined. `Locked` are the operations that do all their work
under `_mxq` and answer by value; `Referring` are `front()`, `back()` and `operator[]`,
which answer with a reference that the caller reads when no lock is held. **AtomicDeque**
is the abstract queue: every operation that answers by value takes effect at one instant,
and of what a reference shows it promises nothing.

**TsQueue** is the code: `Lock` and `Access` are the two halves of an operation
under `_mxq` (the deque is read into `snap` at `Lock` and written at `Access`, so
that an operation that forgets the lock is seen to lose an update);
`LockBlocking` and `Notify` are the tail of a push, which holds `_mxq` all along;
`Check`, `Sleep`, `SpuriousWake` and `Reacquire` are `wait()`. `Read` is the read of
the caller through the reference it was given. `front()` takes that reference under
`_mxq` and lets go of the lock (`Refer`); `back()` and `operator[]` declare a
`scoped_lock` *named* `_mxq`, lock nothing, and look for the element unlocked as well.
`Intact` is when the element is still there and nobody is at it: a push leaves the
elements of a `std::deque` in place, so it disturbs no reference that was taken before
(`Disturbs`), and everything else does. A read that is not intact returns any value;
`operator[]` is read at any index. `Undefined` is an operation on an empty deque that
`std::deque` leaves undefined. Who may call what
is the constant `OpsOf`, and the threads of `Consumers` run the loop of
`deleter_job`.

**Lifetime** holds the state that all threads share. `obj[c]` is the life of a
connection object: not made, alive, dying (its destructor waits for the timer),
freed. Reference counts are not stored: the owners of `c` are the entries of the
two containers and the local `shared_ptr`s of threads, and both follow from the
state (`Referenced`). `io`, `cleaner` and `timer[c]` say where each thread is.
`op[c]` is the asynchronous operation that is pending on the socket. A queue
operation is one step here, which `TsQueue` justifies, but the gap inside `wait()` is
kept (`CleanerFindsNothing`, then `CleanerSleeps`). An error that nothing catches sets
`fault` and ends the process.

**Connection** has one action per outcome of a completion handler. The header
handler is two steps, because between the control field and the length it blocks
in `read_some`, and other threads go on. **LmqttTimer** is the timer's
thread. **LmqttServer** adds the accept handler (one action per call it makes),
`deleter_job` and `stop()`, and composes everything. **FixedHeader** is
`create_fixed_header` as a function of the control field.

**PropertyTypes** is the tables of lmqtt_types.h: the identifier of a property, the
type of its data, which packet may carry it, the order of payloads. **VarInt** is the
variable-length integer, with the 8-bit `mul` of the decoder and the bytes to the base
0x7f of the encoder. **ClientConfig** is what a connection knows of its client, and for each
`configure_*` the configuration left and the reason code answered: a bad number is
stored first and refused then.

**PacketCodec** decodes one packet of a connection after the other, on bytes. An
action is one round of a loop of the decoders (a property, a payload, a property of
the CONNACK) or what stands between two loops. The state is the cursor `pos`, the
end `stop` of the properties and the place `resume` where the caller of
`decode_properties` goes on, which is not always the same: PUBLISH goes on one byte
behind the *start* of its properties, because the cursor was passed by value. From
packet to packet there remain the configuration, and `wanted`, the flags of
`_payloadFlags`, which nothing resets. `Accepted` CONNECTs are answered; a refusal
closes the connection. It is a model of its own, next to `Connection`, where a body
decodes or does not: `Connection` allows both at any time, so whatever `PacketCodec`
decides is a case of it.

The CONNACK is written byte by byte into `reply`, the buffer of `_outPacket`, which is
resized and never cleared.

**ConnectMeaning** is no model of code. It says what a client may mean by a CONNECT
(`IsMeaning`: properties, and the payloads it announces), how the MQTT 5 standard lays that
out (`Wire...`), and, as five invariants, what `PacketCodec` and the CONNACK have to make
of it. Which meanings there are is the constant `Meanings`.

**PacketStream** puts the reading of a connection in front of the decoders. The
client sends frames, at its own pace or several at once (`inbox`); `ReadControl`,
`ReadLengthByte` (one round of the loop) and `ReadBody` take them apart, and `Handle`
runs the decoders and decides what the connection does next. What ends a session
without the decoders is there too: a first packet that is no CONNECT, a malformed
control field, after which `read_some` of the closed socket throws, a length over the
limit, and a packet without a case in the switch, after which nothing is read.
PacketStream implements PacketCodec: it is shown that whatever pieces arrive, the
decoders see packets, whole and in order.

**Utf8** is `is_valid_content`: `Passes` is one branch of its loop, `IsNoCharacter`
what turns the answer into WELL_FORMED_NO_CHARACTOR, and `IsValidContent` the loop.
**UnicodeTable** is the table of the Unicode standard (which bytes may follow each other)
and is no model of code: it is what `Utf8` is compared with. Two things of that code
show up in the model and in no property: the test for C1 controls looks twice at the first
byte and is never true, and a lead byte of three at the very end of a text is
followed past the end, where the loop never meets `end` and so never answers
WELL_FORMED.

**SessionSlots** is what the server promises: a new connection takes one of
`Limit` slots or is denied, and only a connection whose socket was cut gives one
back.

What is abstracted in `PacketCodec`: `is_valid_content` is the parameter
`WellFormed`, so what is proved holds for any notion of a good string; the runs give it
`IsValidContent`. The bytes that are found behind a body that is too short are a member
of `Leftover`, over and over, for as long as they are read (`Beyond`); the theorems hold
for any such bytes, and the run takes zeros and text. `decode_connect_packet_body` reads its first ten bytes
without looking at the size of the body (`ByteAt`), and `decode_publish_packet_body` its topic
(`Topic`). It keeps that topic, whatever it is, and ignores what `decode_utf8_str`
answers: a topic that is refused is not passed over (`TopicSize`), so that the bytes of the
topic itself are decoded as properties and as the message (`ReadLength`), and behind a well-formed
topic that ends past the body the message has a negative length and is refused
(`DecodePublishOverrun`). Memory that is not the process's own may end it instead (`DecodeCrashes`):
behind the null pointer of a first CONNECT without a body it must (`NoMemory`, since the vector
has never held anything), behind a PUBLISH that is shorter than its topic it may. Flags that a refused CONNECT leaves behind die with the
connection and are not kept. Clean start and the QoS and retain of a will decide
nothing and are left out. A packet that never arrives whole leaves `PacketStream`
waiting; that the client vanishes then, and every failure of an operation, is
`Connection`'s matter. `HandlerEnds` allows a handler to end in `crashed` for those two packets and no
other, and `FirstConnectAccepted` says that a sound first CONNECT never does.

What is abstracted in the server: the bytes of bodies (a body decodes, or does not), sizes, the
100 ms (a timer may fire at any moment, as a spurious wakeup makes it do), and
log output, except that the log line at lmqtt_server.h:113 asks for an endpoint
and may throw. asio is modelled from its use: one handler at a time, an
operation may fail once the client has left or the socket is shut down, though it may also
have been complete by then, and must fail once it is closed, which only its own handler or the
destructor does; the handler of an operation whose socket was destroyed is
still called.

## 3. The runs

| run | expected | shows |
|---|---|---|
| `tsqueue_deletion` | pass | `_deletionQueue` with two producers and the cleaner: no race, never a pop of nothing, no push blocked for ever, an awake cleaner takes what is there |
| `tsqueue_any_use` | pass | two threads calling anything implement `AtomicDeque`, the reads through a reference excepted |
| `tsqueue_sessions` | violation | `back()` races with `find_and_erase` on `_activeSessions` |
| `server_safety` | pass | one slot, two connections, all kinds of packets: types, limit, ownership, joins, what is destroyed was shut down, `back()` is the session just accepted, only a timer leaves an operation pending, CONNECT before PUBLISH, and `SessionSlots` is implemented |
| `server_liveness` | pass | destructors end, the accept handler returns, an awake cleaner drains, also during `stop()` and with any initial value of the exit flag |
| `server_dead_this` | violation | a raw `this` outlives its object |
| `server_leaked_session` | violation | a session that is closed by an error path keeps its slot |
| `server_lost_wakeup` | violation | a connection scheduled in the gap of `wait()` is never deleted |
| `server_stop_hangs` | violation | `stop()` waits for a cleaner that sleeps |
| `server_teardown` | violation | the destructor of the server destroys the context before the sockets that are left in the containers |
| `packet_stream` | pass | CONNECTs, PUBLISHes and DISCONNECTs as bytes, whole, cut and wrong, up to three in a row: the body decoded is the one announced (below 16384 bytes), nothing malformed is decoded as a CONNECT or a PUBLISH, the cursor stays inside, what is accepted is what was meant, text is UTF-8, duplicates and illegal limits are refused, a sound first CONNECT is accepted, a PUBLISH negotiates nothing, the CONNACK is what was negotiated and is written in its place, handlers end unless the process does, and `PacketCodec` is implemented |
| `codec_offset` | violation | the will properties are decoded from the last byte of their own length |

Each violated property states what a comment or a message of the code says; the
findings of `PROJECT.json` quote it.

**Bounds.** `Conns`: two connections. Every property speaks of one connection or
of two that compete (for a slot, for `back()`, for the place in the queue), and the
threads are one io thread, one cleaner and a timer for each. `MaxSessions` is 2 in the
code; `server_safety` uses 1 so that two connections can exhaust it and the
second be denied; that it may be any number is what the proofs add. `ControlFields`: one byte for
each branch of `create_fixed_header`. `MayStop` and `InitialExit` switch the stop
sequence on, in the runs that are about it. `Cap` bounds the queue of `TsQueue`;
two values tell the order of elements and duplicates apart. The runs of
`TsQueue` without liveness, and the safety runs of the server, use symmetry; the liveness runs do not.

`MaxPackets` is 3: a CONNECT, something that leaves a trace in `_payloadFlags` or in
the configuration, and a packet that meets the trace. The packets of
`MCPacketCodec` are written by the encoder of `ConnectMeaning`, which follows the MQTT 5
standard (`Wire...`), from the meanings (`MCMeanings`) against which the result is
compared; they include the first and the last character of each row of the Unicode
table and what is one byte away from them, a length of two bytes, a CONNACK of exactly
127 bytes of properties, every kind of cut that a decoder tests for, and CONNECTs with a will
laid out the way the decoder reads them, which a standard client would not
send, so that the rounds behind a will are reached. `FirstConnectAccepted` names what it has to
leave out: a will, a password without a will, and a CONNACK of 127 bytes of properties and more,
all refused or misread by the code, and authentication data in front of their method, which
the standard allows and `configure_propriety` refuses. `ConnackAsConfigured` is stated of a client with a
name and with one user property: with an empty name three bytes are counted for
ASSIGNED_CLIENT_ID that nothing writes, and all user properties share one identifier,
which is written even when there are none. `Frames` are these packets behind their
header, and `OddFrames`: wrong control fields, lengths of up to five bytes that
count for nothing from the third on because `mul` is a `uint8_t`, PUBREL, SUBSCRIBE and UNSUBSCRIBE
with their flags and without, bodies of 1024 and of 1025
bytes (`Limit`, PACKET_SIZE_LIMIT), and lengths that are not those of the body. The
first two packets are any of them, the third one of three that meet what is left
behind; `Pipelined` are the frames that a client may send before the one in front of
them is read.

Two properties of `PacketStream` stop short of what the comments of the code say, since the
code does otherwise. `BodyAsAnnounced` is stated of lengths below 16384. The comments at
lmqtt_connection.h:128-130 and 149 say that a length of more than four bytes is malformed and that a
packet over the limit is not let in; but `mul` is 0 from the third byte on, the test at line 138 is never true,
and such a packet is let in as a short one, which frames of the run show.
`MalformedNeverDecoded` is stated of what is decoded as a CONNECT or a PUBLISH. The table
`packet_flag` (lmqtt_types.h:69, 72, 74) gives PUBREL, SUBSCRIBE and UNSUBSCRIBE the flags 0x2;
but `create_fixed_header` treats each packet from PUBACK on as a DISCONNECT (lmqtt_packet.h:98-115), so that without
those flags they are decoded as one, and with them refused. Neither is a property here that a
run would show violated; both are named under the hazards.

Deadlock is not checked in `packet_stream`: the
connection may be closed, and a client may stop sending.

**Fairness.** In `packet_stream`, weak fairness of `Read`, since asio hands over what has
arrived, and of `Handle`, since a handler runs on the io thread to its end. It is shown to
imply the fairness of `PacketCodec`. Nothing makes a client send. In the server, each thread of
the program is scheduled: weak fairness for the io thread between its calls, for the
cleaner, for every timer and for the thread that stops the server. In `TsQueue` it
is strong fairness, because a mutex is handed over infinitely often and a thread
that waits for it gets it in the end. Nothing is assumed of clients (what waits for
a client is not in a fair action), nobody has to stop the server, and no spurious
wakeup is promised: a wakeup that is lost stays lost.

## 4. The proofs

`tlapm` checks them for any set of threads and connections, any number of slots,
any bytes. The only assumptions are the named `ASSUME`s on constants.

* `TsQueueProofs`. The invariant `QInv` adds to `TypeOK`: who is inside an
  operation holds `_mxq` (`Inside`), the holder is inside one (`Holder`), and what it read at
  `Lock` is still the deque (`Fresh`). `Fresh` is what makes the split into
  `Lock` and `Access` invisible. It gives `TypeCorrect`, `DataRaceFree` (where no
  caller uses `front()`, `back()` or `operator[]`, `NoReferences`, as of `_deletionQueue`; the run
  `tsqueue_sessions` shows the hypothesis is needed) and `ImplementsAtomicDeque`, the
  refinement, for the operations that answer by value, whoever calls the others besides. `StillThere` says that what a consumer was told by `empty()` is still true
  when it pops; it needs `OneConsumer`, that one thread pops and the others push, as
  of `_deletionQueue`, and gives `PopsWhatIsThere`.
* `LmqttServerProofs`. `TypeCorrect`, one lemma for each kind of thread. None of the safety invariants of the server is inductive
  alone; they are strengthened in layers, each of which uses the ones before it.
  - `SlotInv`: what `on_client_connection` found is still true at the push
    (`RoomHeld`), since only the io thread pushes. It gives `SlotsSuffice`.
  - `LifeInv`: a thread inside a destructor is alone there (`Joining`), and a
    connection that is not made has no timer (`Unborn`). It gives
    `ReferencesSound` and `TimersJoined`.
  - `NewestInv`: until `connect_to_client` nothing can schedule a connection or
    drop it (`NotStarted`), and no session is in the container twice
    (`OnceActive`). It gives `NewestIsBack`.
  - `CutInv`: an open connection is in a container or with a thread that will put
    it there or shut it down (`OpenIsKept`); past its `shutdown()` the cleaner
    holds none that is open (`CleanerCut`). It gives `ShutBeforeDestroyed`.
  - `ConnectFirst`: before the CONNACK a header is awaited only as the first one,
    a length or a body only of a CONNECT. It gives `IdentifiedBeforePublish`.
  - `BusyIsExpired`: a handler schedules a connection as the last thing it does on
    it, so what still runs on one that nothing but the queue holds was expired by
    its timer. It gives `PendingOnlyIfCut`.
  - `ScheduleInv`: while the io thread may still schedule a connection it has not yet
    done so, nor has the timer before it fires; so there is one entry for each of
    them. It gives `ScheduledByEachOnce`.
  - `StartInv`: a session that is not being accepted has a timer (`SessionsStarted`),
    and none is cut before it is started (`StartsOpen`). With it, `SlotInv`, `LifeInv`,
    `NewestInv` and `CutInv` each step is a step of `SessionSlots` or a stutter
    (`SessionsAreSlots`); `ActiveAreSessions` counts the active slots by the deque.

  In each layer there is one lemma for each kind of thread, with one step for each
  action, and a frame lemma for the actions that do not touch the layer.
* `DequeOpsProofs`. What the deque operations preserve: types, and the elements
  that `find_and_erase` leaves.

* `PacketCodecProofs`. For any packets, of any length, and any `WellFormed`. The
  invariant `DecoderInv` is `DecoderTypeOK`, `CursorInside`, `LiveLimits` and
  `Callers`: outside PUBLISH `resume` is `stop`, a PUBLISH has no will and no
  payloads, and the properties of a will are read before the last round. `CursorInside` needs it at
  `EndProperties`, where the cursor jumps to `resume`, and `LiveLimits` where the
  refused property of a PUBLISH leaves the connection alive. The lemmas in front say
  what the helpers return: a string, a pair, a property that is `Present` fits in
  the bytes that remain (`StringFits`, `PresentFits`), a variable-length integer
  ends in its buffer (`VariableIntFits`), and configuring a property stores no illegal
  number unless it says so (`Configures`, `ConfiguresWill`). It gives
  `CursorStaysInside`, `LimitsStayLegal`, and the action property
  `PublishIsHarmless`, for every PUBLISH, those whose topic is refused or does not end in the body
  included (`TopicFits`: whatever is taken for a topic is a string).

  `WriterInv` is what writing the CONNACK adds to it. `Shaped`: every number of the
  configuration has its width, and the strings of user properties came with a length of
  two bytes. `HasKeepAlive`: the body has the bytes that are sent back. `LeftIsRest`:
  `left` is the sum of the sizes that are still to come, so that at the last four
  properties, whose size is 0, nothing is left (`LeftToFill`). The sums are recursive
  functions; `Recursion` in `SetInduction` gives their existence (`SizesAddUp`,
  `UserBytesCount`). It gives `TypeCorrect` and the action property `FillsInPlace`.

  `HandlersShrink` is the part of `HandlerEnds` that needs no fairness: `RoundsLeft` is a
  natural number that every step of a handler makes smaller, and it starts below
  53 + 16 times the length of the body; in `crashed` it is 0, as in `closed`. A round of `decode_properties` moves the cursor
  towards `stop`, which is what `CursorInside` is for; a round of `decode_payload` takes one
  of six slots, and in each of them the properties of a will may be decoded once (`Level`).

* `SetInduction` and `Utf8Proofs`. Induction over numbers is stated of a set instead of
  a predicate (`SetInduction`), from the well-foundedness of `<` on Nat. `Utf8Proofs`
  shows first that a branch of the loop passes what the rows of the table of that
  length allow (`RoundIsCharacter`), then that from any place on the loop answers
  WELL_FORMED if each start of a character begins a round that is passed and ends at a
  start (`GoodFrom`), by induction on the bytes that are left, and so
  `AcceptsStandardText`: for every string of bytes, of any length, the
  validator and the table agree.

* `ConnectMeaningProofs`. For any meanings, any packets between them and any state that the
  packets before have left. `At` says that the bytes of one string stand in another; the
  lemmas in front take a CONNECT apart into what stands where, by induction on the
  number of its properties and of its payloads.
  - `Meant` follows a CONNECT of some meaning through `decode_properties`: whenever the
    cursor is there, it stands between two properties of the meaning, those in front of it
    are configured and in `propertySet`, no unique one came twice among them, and the user
    properties stand behind those of earlier packets, in order (`PropertiesMeant`). Before
    its first packet nothing is known of a client (`NothingYet`). It gives
    `DuplicatesAreRefused`.
  - `Announcing` does the same for `decode_payload`: the cursor is at the payload of the
    slot, and the ones before are configured (`PayloadsMeant`). `_payloadFlags` is never
    reset, so a payload that only an earlier CONNECT announced may still be wanted, and the
    cursor may then be lost (`AtSlot`), but not so that the CONNECT is accepted with
    something else: a topic or a message of a will that is not there is refused, because
    `willFlag` is that of this CONNECT. The same flag decides on a password, so that without
    a will none is accepted, and the theorem speaks of CONNECTs with a name and a user
    name. Together with `Meant` it gives `ConnectIsKept`.
  - `Going` says that a first CONNECT that is as it should be is refused nowhere, and never read past its end: no property and
    no payload, nor the CONNACK, whose size stays where one byte of length is enough
    (`GoesOn`; `PropertyIsTaken`, `PayloadIsTaken`, `ConnackIsMade`, `PropertyIsFilled`). It gives
    `FirstConnectIsAccepted`.
  - `Written`: the header that announces the sum of all sizes, and the bytes of every
    property in front of `index`, stand in the buffer where they have to, whatever was there
    before; at the end nothing of the old bytes is left, because each property is written
    as long as it was counted (of a client with a name and one user property). It gives
    `ConnackIsEncoded`.
  - `TextIn`: every place of the configuration that holds text was asked for. With
    `AcceptsStandardText` it gives `TextStaysWellFormed`.

  `TextStaysWellFormed` and `FirstConnectIsAccepted` have the hypothesis
  `AsksIsValidContent`: `WellFormed` is `IsValidContent`, as in the code and in the run. The
  others hold for any `WellFormed`.

* `PacketStreamProofs`. For any frames and any limit. `FramingInv` says what has been
  read so far: the length counted up is that of the bytes read (`LengthSoFar`), and a
  header that will be decoded as a CONNECT or a PUBLISH is legal (`HeadIsSane`). A malformed field closes the socket, and `ReadLengthByte` needs it open:
  this is why no malformed one is decoded. Of a length below 16384 the
  two bytes that `mul` loses are 0 (`LowOfAnnounced`). `InTurn` says that the decoders rest
  while bytes are read, and that the first packet is a CONNECT; with it every `ReadBody`
  is a `Receive` of `PacketCodec`, which gives `StreamRefinesCodec`, where `AnyPacket`
  says that the decoder may be given any packet. What is proved of the decoder then
  holds for the bytes of a connection: `StreamCursorInside`, `StreamTypeCorrect`,
  `StreamFillsInPlace`, `StreamLimitsLegal`, `StreamPublishHarmless`, and, for all that
  `ConnectMeaning` asks, `StreamKeepsMeaning` and `StreamTakesText`.

Every invariant, every action property and every refinement that a passing run checks is stated
by a theorem, of the refinements the safety part. Only model-checked is what needs fairness or
ENABLED, which is beyond the prover: `PushReturns` and `AwakeTakes` of the queue,
`DestructionEnds`, `AcceptReturns` and `AwakeDrains` of the server, `HandlerEnds` of the
decoders, and that the fairness of `PacketStream` implies that of `PacketCodec`
(`ImplementsCodec`).

## 5. Not modelled, and the plan

Not modelled: `ts_pqueue` (does not compile, included nowhere); the operations
nothing calls (`disconnect`, `read_byte`, `read_packet`, `create_short_packet`, the loop of
`lmqtt_timer::run` and what pauses it); asio below its interface; the programs,
which only start the server and wait. `timer_queue` and `update` are used by
include/main.cpp alone, which constructs a `timer_queue` and destroys it before it
has a server: the destructor joins a worker that nothing ends, so the program
never gets further, and each step of that worker races with the constructor. The model of the
server ends when `_context` is destroyed.

What is left: of a CONNECT with a will, which the decoder reads from the wrong place
(`codec_offset`), nothing is stated but that text is text, limits are legal and the cursor stays
inside, and of a PUBLISH not that its topic is the one meant. The liveness properties have no
proof; `HandlersShrink` is the measure behind one of them, and the waits of `ts_queue` and the
drain of the deletion queue have measures that could be stated in the same way.
