# Verification of the ESP32-S3 snoring detector

The firmware records audio from a PDM microphone in chunks of two seconds and
publishes each chunk to an MQTT broker. This directory holds TLA+ models of the
parts where tasks, an interrupt handler and a network meet, the TLC
configurations that check them, and theorems that TLAPS proves for every size,
number of tasks, interval, packet and schedule: every safety property that a run
checks is also a theorem. Source paths below are relative to the repository's `src/`.

## The system

| Component | Source | State it keeps | Operations |
|---|---|---|---|
| Microphone driver | `components/i2s_microphone` | a pool of 3 buffers in two FreeRTOS queues, the buffer being filled, a recording flag, a binary semaphore, a counter of overwritten chunks | `start`, `stop`, `get_audio`, end of a chunk handle, counter reset, destructor; the DMA interrupt; the recorder task of pause mode |
| MQTT process | `components/lwmqtt-esp-mqtt/esp_mqtt.c` | two mutexes, the flags running / connected / error, the socket, an event queue | start, stop, publish, subscribe, unsubscribe, last will; the background task: connect, select, read, keep alive, dispatch |
| MQTT wrapper | `components/mqtt_client/MQTTClient.cpp` | `is_connected_`, lists of callbacks | status and message callbacks, `publish`, `subscribe` |
| lwmqtt client | `lwmqtt/src/client.c` | packet ids, keep-alive and command timers, `pong_pending`, two buffers | connect, publish, subscribe, unsubscribe, disconnect, yield, keep_alive |
| Packet codec | `lwmqtt/src/packet.c`, `helpers.c`, `string.c` | none | encoding and decoding of packets and of variable-length numbers |
| Network and timers | `esp_lwmqtt.c` | a socket, two deadlines | connect, wait, select, peek, read, write, timer |
| TLS network | `esp_tls_lwmqtt.c` | a TLS session | the same over mbedTLS; `esp_mqtt_tls` is never called by the application |
| Application | `main/main.cpp` | the microphone, the MQTT client | `app_main`, `audio_task`, the WiFi event handler |
| LED, posix port, tools | `components/led_ctl`, `lwmqtt/src/posix.c`, `tools/` | - | board output; a host port the firmware does not build; a host script |

How they interact: the interrupt handler pushes full buffers into
`audio_queue_`; `audio_task` takes one through `get_audio`, publishes it
through the wrapper and gives the buffer back by ending the handle. The wrapper
calls `esp_mqtt_publish`, which runs lwmqtt on the caller's task under the main
mutex. The MQTT background task (same priority as `audio_task`, pinned to
core 0) connects, sleeps in `select()` under a second mutex, reads packets
under the main mutex and calls the wrapper's callbacks with no mutex held.

What is hard in it:

* **Microphone.** The interrupt pushes a buffer to the consumer before it stops
  naming it; the consumer runs on the other core and can fetch and return it in
  between. `reset_buffers()` dismantles the pool without a lock. `stop()` can
  come at any step of the recorder. The semaphore remembers a token nobody
  waited for. The destructor deletes a task at an arbitrary point.
* **MQTT process.** The main mutex is given up in the middle of a connection
  attempt; the socket must not be closed under a sleeping `select()`; errors are
  seen on one task and acted on by another, later; `esp_mqtt_stop` deletes the
  background task wherever it stands; messages are read by one task and
  dispatched by another.
* **lwmqtt.** A request waits for its answer while other packets arrive; packet
  ids wrap; a ping is sent only when the client gets round to it.
* **Packets.** The network cuts packets anywhere, TLS hides bytes from
  `select()`, one buffer serves packet after packet, and two tasks read from the
  same stream.
* **Application.** The interrupt goes on recording while `audio_task` copies and
  publishes; a publish can wait behind a DNS lookup, and can break off in the
  middle of 64 KB while the connection stays in use.

Correctness, per component: no buffer is shared or lost and no chunk is altered
while the consumer has it; chunks come in order; recording never stalls and
`stop()` takes effect; the client is used by one task at a time; the flags are
true to the socket; a failed connection ends and is made again; messages are
passed on in order; no call blocks forever; each packet is read as what was sent
and written as what was asked for; published chunks are intact and in order, and
nothing the network does stops the recording.

## Modules

| Module | Models | Role |
|---|---|---|
| `I2SMicrophone` | `i2s_microphone.cpp/.hpp` | component |
| `AudioStream` | what the driver promises its consumer | abstract specification |
| `MCI2SMicrophone` | - | model checking |
| `I2SMicrophoneProofs` | - | theorems about the driver, and that it implements `AudioStream` |
| `EspMqtt` | `esp_mqtt.c`, `network_wait` of `esp_lwmqtt.c`, the callbacks of `MQTTClient.cpp` | component |
| `MqttProcess` | the promises of `esp_mqtt.h` | abstract specification |
| `MCEspMqtt` | - | model checking |
| `EspMqttProofs` | - | theorems about the process, and that it implements `MqttProcess` |
| `QueueFacts` | receiving from and sending to a queue | lemmas about queues |
| `Lwmqtt` | `client.c`, and how `esp_mqtt.c` uses it | component, with the broker as environment |
| `LwmqttProofs` | - | theorems about the client and its exchanges |
| `KeepAlive` | the select loop of `esp_mqtt.c`, `lwmqtt_keep_alive`, the timers of `esp_lwmqtt.c` | component, in time |
| `KeepAliveProofs` | - | theorems about the keep-alive |
| `PacketCodec` | `packet.c`, `helpers.c` | operators on bytes |
| `BrokerParser` | - | how a broker reads what is written, from the protocol |
| `PacketStream` | the reading half of `client.c`, the loop of `esp_mqtt.c`, select, peek and read of `esp_lwmqtt.c` and `esp_tls_lwmqtt.c` | component, byte by byte |
| `PacketProofs` | - | theorems about single encodings and about the stream |
| `EncodingProofs` | - | what is written is read as the call that was made |
| `MCPacketStream` | - | model checking: packets and calls |
| `SnoringApp` | `main.cpp`, over `I2SMicrophone` and `MqttProcess` | composition |
| `SnoringAppProofs` | - | theorems about what the broker gets |

Operators whose name ends in `_Something` (for instance `Victim_None`) are
deliberately wrong variants of the definition of the same name. They are used by
no specification; substituting one for its original must make TLC report a
violation, which shows that the property depends on that line of the code.

### I2SMicrophone

The queues, `current_buffer`, `samples_collected`, the flag, the semaphore and
the counter are the fields of the class under their own names. `notified` is the
recorder's task notification, `channel` says whether the I2S channel is enabled,
`pc` holds the place of each of the three threads, `drained` is the local array
of `reset_buffers()`, `held` the chunks of the client's live handles, `freed`
what was given back to the heap. Sound is numbered DMA blocks: `data` says which
block each slot of a buffer holds and `now` is the latest block, so that a
timestamp is a block number and "the chunk is the recording that began at its
timestamp" becomes a formula. `completed`, `delivered`, `discarded`, `forgotten`
and `cycle` are history.

An action is what a thread does between two points where another can interfere;
each FreeRTOS call is atomic. The interrupt handler is four actions (copy a
block; push the full buffer; take an empty one; steal the oldest full one),
`reset_buffers()` has one action per queue operation, and each of `stop()`,
`start()` and the destructor is as many actions as it makes calls. `Reset(t)`
ends with the time stamp and `i2s_channel_enable`, which follow every call of
`reset_buffers()`.

Assumptions about the platform, all in guards: `i2s_channel_disable` returns
only when no handler is running; `i2s_channel_enable` starts the interrupt
afterwards; a binary semaphore holds at most one token; a chunk is a whole
number of DMA blocks (32000 samples and 1000-sample blocks). `Send` is
`xQueueSend` with no wait and refuses when full: that it never does is proved
(`NoLeak`), not assumed.

The bounds: `MaxChunks` chunks and `MaxStops` calls of `stop()` per behaviour (guards
of `IsrBlock` and `Stop`), and `WindowOps`, the queue calls the client can make while
one run of the handler lasts (guard of `ClientQueueCall`). The last one is an
assumption about the program and not only a bound of the model: with a pool of three, a
consumer that made four queue calls within the microseconds of one handler run would
empty both queues, the steal would find nothing and the handler would have no buffer;
with three it cannot. Only one theorem, `CountCorrect`, needs it, in the general form
`CallsFit`. `Prompt` is the assumption that the recorder (priority 6) stops the channel
before the next chunk is complete, two seconds later; only the runs of `SnoringApp`
make it, because `CycleFilled` needs it.

`AudioStream` is a lossy queue of time stamps: only the oldest waiting chunk can
be delivered or lost, a new one is younger than everything before. The mapping is
`pending <- TimestampsOf(audio_queue)`, `clock <- now`.

### EspMqtt

`main` and `select` are the holders of the two mutexes, `running`, `connected`
and `error` the three flags, `socket` the state of the descriptor,
`event_queue` the received messages by number. `pc` has a label for every place
where a task waits for a mutex or is in a call that takes time. `AfterMain` and
`AfterSelect` list the places where each mutex is taken and what follows.
Everything a task does between two lock operations is one action, except where
another task can observe the middle: `esp_mqtt_stop` first closes the connection
and then deletes the task, and the callbacks are steps of their own. Each call
into lwmqtt or the network may fail, at any time: `Open`, `Wait`, `Handshake`,
`Select`, `Work` and `Answer` each have the alternatives of the code's error
checks. `Receive` is the message handler; it runs zero or more times during a
read, on whichever task reads, and queues the message or drops it, because the queue
is full or because there is no memory for it (which may happen at any time);
lwmqtt acknowledges it either way. `Announce` and `AnnounceLost` are the status
callbacks that `MQTTClient` installs, with the test message it publishes.

History: `emitted` is the last status reported, `last` how the last request
ended, `fault` whether anything failed on the present connection, `arrived`,
`dispatched`, `dropped` and `abandoned` follow the messages.

`MqttProcess` states what `esp_mqtt.h` says in its comments: connections and losses are
reported in turn, a stop is not reported, and requests can succeed only on a
connection. Not everything the header says is there: that nothing works after a failed
request (`esp_mqtt.h:114`) is untrue of the code (run `app_torn`). The mapping is in
`Phase`: the process is online exactly while the background task is in its session
part.

### Lwmqtt

`last_packet_id` and `pong_pending` are the fields of `lwmqtt_client_t`; `call`
is the call in progress (the main mutex admits one), with the packet it waits
for. `connection` and `error` are what `esp_mqtt.c` keeps around it: `flagged` is
`esp_mqtt_error`, `leaving` the background task past its loop. A connection is a
pair of FIFO channels, `up` and `down`. Each call begins with a write
(`Connect`, `Request`, `Publish0`, `KeepAlive`), which may also fail before the
first byte or in the middle of the packet; `Read` is one round of
`lwmqtt_cycle_once` with everything it does for the packet it reads, and of
`lwmqtt_cycle_until`, which decides whether to go on; `Expire` and `Misread` are
reads that return nothing or fail, `Close` and `Disconnect` the two ends of a
connection. The `command_timer` is set when a call begins and runs out at some moment
of it (`TimerRunsOut`, the field `late`); from then on nothing more is read (`InTime`,
the loop guard at `client.c:394`), a read that waits returns (`TimedOut`), and a
request without its answer has failed. When it runs out is free.

A packet that is written in part leaves `up` torn: the broker takes whatever
follows for its rest, so a later write mangles both streams. From there on
anything may be read (`ReadMangled`), and what is claimed about the contents of
messages and answers is claimed up to that point only.

The broker is external: it answers each packet as the client expects, may refuse
a connection or a subscription, and sends messages of any QoS at any time. It
never reuses an id and never sends again on the same connection. `BrokerGoesOn`
sends packets without end, messages of QoS 0 that no property follows; `MaxBacklog`
bounds how many of them wait to be read, and their number is not bounded.
`MaxSlips`, the number of requests made between a failure and the end of the
connection, is smaller than `MaxId`. This is an assumption about the program: an
unanswered id comes round again only after 65535 requests, and the background
task acts on the failure within one `select()`.

### KeepAlive

Time is a number of ticks. `Tick` is enabled only while every task waits, so what the
program does between two waits takes no time, and an answer over a link that is alive
takes at most `RoundTrip` ticks. `clock` and `deadline` are counters modulo `Wrap`, as
`xTaskGetTickCount` is modulo 2^32; `TimerGet` is `esp_lwmqtt_timer_get`, the
difference taken as a signed number (the C code converts both operands first, which the
compilers of the firmware reduce to the same thing). `Wake` and `Work` are a round of
the loop in `esp_mqtt_process`: `select()` for up to `Timeout`, read what `select()`
announced, send a ping or give up, look at `esp_mqtt_error` (`Ping`, `NextRound`). The
acknowledgement of a message that a round or a request reads restarts the timer
(`Acknowledge`). `Publish`, `Request`, `Answered` and `Expired` are other tasks' calls,
which restart the keep-alive timer and read pongs. `silence` and `unheard` are history.

Keep alive and command timeout are both 10 s here, which the four-tick interval
and the four-tick time-out stand for.

### PacketCodec and PacketStream

`PacketCodec` has one operator per function of `packet.c` and `helpers.c`, on
sequences of bytes. A decoder is given the whole read buffer, with whatever earlier
packets left in it, and its reading place moves as the pointer of the C code does:
that a field is never taken from behind the end of its packet is a property
(`Framed`, `PublishWithin`), not a feature of the model.

`PacketStream` is `lwmqtt_read_packet_in_buffer` as a state machine: `call` is the
call that holds the main mutex, with the field being read, how much of it is in
`read_buf` and how much is missing. `Read` is one `network_read`, which returns what
there is; when a field is complete, `HeaderRead`, `LengthRead` and `Complete`
ask for the next one, drain an oversized packet, or do what `lwmqtt_cycle_once` and
the decoder behind it do. `Arrive` brings the next segment, and `Readable` is what
peek and read can see: with TLS, the rest of the opened record or the next one.
`Select`, `Peek`, `NothingAvailable`, `NoPingDue`, `Ping` and `Close` are the loop
of `esp_mqtt_process` with its variables `available` and the `errno` of
`esp_lwmqtt_network_peek` (`again`). `PublishFails` is another task that writes on a
connection the broker has closed, and is told. A request of another task, or the connect
request before the loop, is a `call` of its own that reads until its answer is
there. What `MCPacketStream` gives it are `Scenarios`: what the broker sends, with
the bytes written out by hand and what they mean according to the protocol, what is
requested, the sizes of the buffers, TCP or TLS, and where the stream is cut.
`ScenarioAssumption` says what the scenarios have to be for `Framed` to make sense:
each packet is `WellFormed`, that is, it ends where its header says, and a decoder
that is given this packet *and nothing else* makes of it what it is said to mean.
TLC evaluates the assumption for the scenarios of `MCPacketStream`; the theorems hold
for any others. What is left for `Framed` to say is that the client, which sees a
stream cut anywhere and a buffer with remains of earlier packets, comes to the same.

`Encoded` compares everything the client writes with a parser of the broker's side
(`Reads` in `BrokerParser`), written from the protocol; payloads are lengths there, so
that a remaining length of four bytes costs nothing. `Calls` are the calls lwmqtt takes:
strings as long as `lwmqtt_string_t` allows, ids and keep-alive of 16 bits, any number
of filters. Lengths are not reduced modulo 2^32: a payload lies in the ESP32's memory.

### SnoringApp

The driver is the detailed one, `I2SMicrophone` with `audio_task` for its only
client. The MQTT process is the abstract one, `MqttProcess`, which `EspMqtt`
implements (`ImplementsProcess`, run `mqtt_stop`, theorem `Implementation`). Its
actions are used as they stand, joined with what happens to the mutex and the stream,
so that the firmware keeps its promises by construction; what is checked and proved
here is what the broker gets. What
that abstraction leaves out and the application notices is added: the main `mutex`,
behind which a publish waits as long as a lookup takes, and the byte stream of the
connection (`wire`, `partial`), since a publish can stop in the middle of a message.
`received` is what the broker takes off that stream.

`Construct` and `CreateAudioTask` are `app_main`, whose wait of 30 s may end with or
without a connection; `StartMicrophone`, `TakeChunk`, `CheckConnected`,
`CopySamples` (one step per DMA block, so that the interrupt comes in between),
`CheckAgain`, `LockMain`, `Publish` and `DropHandle` are the loop of `audio_task` down
to the destructor of the handle.

## Runs

| Run | Question | Result |
|---|---|---|
| `mic_pause` | pause mode with `stop()`/`start()` and a late recorder: pool, contents, refinement | holds |
| `mic_continuous` | continuous mode with the destructor: accounting, release of channel and pool, progress | holds |
| `mic_pause_live` | pause mode: does `stop()` take effect wherever the recorder is? | holds |
| `mqtt_stop` | two tasks, and the callback, call everything at any time: safety and refinement | holds |
| `mqtt_live` | do all calls return, are connections made again, are messages passed on? | holds |
| `mqtt_stale_error` | `esp_mqtt.h:73`: does an old error end a new connection? | violated after stop and start |
| `lwmqtt_requests` | does success mean that the broker did it, is a pong timeout deserved? | holds |
| `lwmqtt_live` | are messages passed on once, in order and before they are acknowledged; does every call and exchange end? | holds |
| `keep_alive` | how long is a connection silent, is a healthy one ever given up, when is a dead one noticed? | holds |
| `packets` | is each packet read as it was sent and written as it was asked for, wherever the stream is cut and whoever reads; is everything read in the end? | holds |
| `app` | are published chunks intact and in order, does recording go on whatever the network does, does every chunk go out while it works? | holds |
| `app_torn` | `esp_mqtt.h:114`: is a chunk that could not be published completely ever completed by something else? | violated |

What the runs say of the firmware:

* A connection may be silent for almost 20 s (`SilenceBounded` is tight: a QoS 0
  publish or a message early in a `select()` makes the next look at the timer late),
  while the broker was told 10 s and may close a connection after one and a half
  intervals. The loop calls `lwmqtt_keep_alive` once per `select()` of up to 10 s,
  although `lwmqtt.h:418` asks for less than a quarter of the interval. A dead link
  that nobody publishes to is noticed within 40 s (`DeathNoticed`, for every
  interval and time-out). Every publish restarts the timer, so with a publish every
  few seconds only a failing write ends a dead connection.
* After a request that ended in the middle of a packet the background task may read
  once more before it looks at `esp_mqtt_error`, and takes the middle of a packet
  for its beginning. `Framed` says that this happens only on a connection that is on
  its way to be closed.
* What TLS has decrypted together with an earlier packet does not make `select()`
  return. It is read only after other data has come: the answer to a ping, or the
  broker's next packet. Every packet the client sends restarts the keep-alive timer
  (`client.c:244`), so a client that publishes more often than once per interval, as
  `audio_task` does, sends no pings, and the data stays unread for as long as the broker
  sends nothing else. `AllHandled` therefore has a premise for TLS connections,
  `SF_vars(Ping)`: without it TLC refutes the property over TLS. Over TCP it needs none.
  The firmware does not use TLS.
* `recv()` returning 0 does not set `errno`; with `EAGAIN` left there by an earlier
  call the loop spins on a closed connection until a ping fails (`EndIsNoticed`
  shows that it ends there, or when a publish fails).
* A publish that times out inside its payload leaves the connection in use until the
  background task leaves `select()`. What is written next (the next chunk, a ping) is
  taken by the broker for the missing end: it passes on a damaged chunk
  (`app_torn`). `PublishedIsIntact` shows that this is the only way to a damaged
  chunk, and that it is one whose publish returned an error.
  `audio_task` does not learn of it: `MQTTClient::publish` returns nothing, and
  `main.cpp:125` logs "Published chunk" either way.
* `CycleFilled` (the comment at `i2s_microphone.cpp:93`) holds as long as `stop()` is
  never called and the recorder is prompt, which is how the firmware uses the driver.
  The give in `stop()` may leave a token that ends the next recording at once:
  set `Prompt = TRUE` and check `CycleFilled` in `MicPause.cfg`.
  `LostForAReason` too holds without `stop`.

Bounds and why they are enough.

* *Microphone.* A pool of three is the firmware's; two blocks per chunk distinguish a
  full, a partly filled and a fresh buffer; three to five chunks fill the pool,
  overwrite and reset it; one or two stops and starts meet every step of the
  recorder (`mic_pause_live` has the smallest pool that records, two buffers of one
  block, because liveness is costly).
* *MQTT process.* Two clients contend with the background task for both mutexes and
  with each other, and a queue of one or two with one to three messages is full,
  empty and in between; flags and places make the rest of the state finite by
  itself, so nothing bounds the number of connections, calls, stops or failures.
  Client symmetry is used only where no liveness is checked.
* *lwmqtt.* In `lwmqtt_requests` two packet ids and three requests make an id come
  round while its first answer is still on the way; in `lwmqtt_live` two messages of
  any QoS meet one QoS 2 publish, which is enough for every pair of exchanges to
  interleave; one further packet (`MaxBacklog`) can always be there to be read, so that
  a call without a timer would read for ever.
* *Keep-alive.* An interval of four ticks with answers of up to one tick lets
  everything happen before, at and after the deadline; the clock wraps at 32 ticks,
  just more than twice the longest difference the timer has to tell.
* *Packets.* The read buffer of nine bytes holds every packet of the scenarios but
  one. Every type of packet, flags and QoS, remaining lengths of one and two bytes,
  nine ways to be malformed and every pair of a good packet with another follow each
  other; cuts fall inside headers, lengths and bodies. One ping (`MaxPings`) is
  enough to bring out what TLS holds back. Encoding is checked on both sides of
  every boundary of the remaining length and of three write buffers.
* *Application.* A pool of two makes the interrupt steal with two chunks of two
  blocks, so that copying meets recording; with a pool of three it would take
  more chunks than liveness checking allows. `mic_pause` and the theorems cover the
  pool of three. In `app_torn` one block per chunk is enough.

Fairness. In the driver: the hardware keeps raising interrupts while the channel is
enabled, the scheduler runs the recorder, and a client call once begun is finished;
what the client calls next is free, so it may never fetch a chunk. In the MQTT process:
calls into the network end (every one has a timeout, except the DNS lookup, which the C
library ends), and a task that waits for a mutex that is free again and again gets it
(strong fairness: FreeRTOS wakes the highest-priority, longest-waiting task, and the
two tasks that contend in the firmware have equal priority). `Reconnects` also assumes
that connecting does not fail forever. `MessagesDelivered` is conditional on
connections that stop failing at some time. `mqtt_live` has one client besides the
background task; waiting behind a third task is covered by the strong fairness of the
mutexes. In lwmqtt: the command timer runs out, a call reads while there is something
to read and a read that waits returns when the timer has run out, and the background
task gets the mutex often enough to read what has come and to close a failed connection
(strong fairness, because other tasks' calls come in between). Nothing is assumed of
the broker, except in the premise of `MessagesAnswered`. In the packet stream: segments
arrive, a call that can read does or times out, and the loop goes round; no ping need
fall due, the broker need not close the connection and no other task need make its
request. On a connection that has ended either a ping falls due or another task's
publish fails (`FairWriting`): whatever a client sends restarts the timer, but what it
sends on a dead connection fails in the end. In the application: hardware and scheduler
as in the driver, and the tasks' own steps; nothing is assumed of the network, so
`RecordsRegardless` holds also if a lookup never ends or a publish never returns.
`ChunksGoOut` has `NetworkAnswers` for its premise.

`CHECK_DEADLOCK FALSE` is set where the system may really stop or its bounds end
it: after the destructor (`mic_continuous`), after the background task has deleted
itself holding both mutexes (`mqtt_stop`), after the connection was closed
(`packets`) and after the last chunk (`app`). `mqtt_live` checks deadlock for every
other use of the MQTT process.

Divergences of code and comments that have no run of their own:

* The counter of overwritten chunks leaves out the chunks that
  `reset_buffers()` throws away (`i2s_microphone.cpp:211`), whatever
  `i2s_microphone.hpp:150` says; `Accounting` keeps the two apart.
* The destructor trusts `is_recording_flag_`, and in pause mode the recorder can
  enable the channel after `stop()` has cleared it: the channel then stays on,
  although `i2s_microphone.hpp:121` says that recording is stopped. A recorder
  deleted inside `reset_buffers()` takes the buffers in its local array with it.
  Both can be seen by setting `PauseMode = TRUE` in `MicContinuous.cfg`
  (`DestroyedReleasesAll`). The firmware never destroys the driver.
* `esp_mqtt_stop` called from a callback deletes the calling task with both mutexes
  taken, although `esp_mqtt.h:74` says "anytime": set `CallbackStops = TRUE` in
  `MqttLive.cfg` (`NoOrphanedLock`). The firmware's callbacks never call it.
* `MQTTClient::reconnect()` ("Force reconnection of the client",
  `MQTTClient.hpp:85`) does nothing and returns `ESP_OK`.
* `esp_mqtt_tls` copies the CA certificate although `esp_mqtt.h:44` says that it
  is not copied.

## Theorems

`I2SMicrophoneProofs` proves, for every pool size, chunk size, mode and bound,
from `SafeTeardown` (the driver is not both in pause mode and destroyed; the
divergences above say why this is needed):

* `TypeCorrect`, `PoolSafe` (`NoAlias`), `PoolComplete` (`NoLeak`),
  `ChunksIntact` (`ChunkIntact`) and `ResetExclusive` (`ResetAlone`).

* `DestructorComplete` (`DestroyedReleasesAll`);
* `CyclesFilled` (`CycleFilled`), if `stop()` is never called and the recorder is
  prompt (`MaxStops = 0` and `Prompt`, the firmware's use of the driver; `Runs`
  says how TLC refutes it otherwise);
* `CountCorrect` (`Accounting`), if `WindowOps < 2 * (PoolSize - MaxHandles)`
  (`CallsFit`). The bound is exact: one queue call more, and TLC finds a handler
  left without a buffer.

None of them is inductive. The invariant `IInv` adds: where each thread can
stand while the channel is enabled or the pool is being reset (`Control`); that
the buffers in the two queues, the local array, the handles, the heap and the
handler partition the pool (`Partition`), which bounds the length of each queue
by counting (`Room`, the only use of finite-set cardinality) so that no `Send`
is refused; and that the part of the current buffer filled so far is the
recording since its time stamp (`Sound`). The proof of `InductiveStep` treats
one action at a time; lemmas such as `Received`, `Appended` and `SentChunk`
carry the partition over a queue operation. `CyclesFilled` adds `Cycles`: a
token in the semaphore is that of a chunk of this cycle, and a prompt recorder leaves
the interrupt no time for a second one.
`CountCorrect` adds `Accounts`: at the steal, the calls made since the handler
found no empty buffer bound from below what is still in `audio_queue`, because the
partition counts every buffer.

The second part proves from the same assumption

* `StreamImplemented` (`ImplementsStream`): the driver is a lossy stream;
* `DeliveredInOrder` (`InOrder`): the consumer gets the chunks in the order they
  were recorded, each at most once.

The mapping forgets the pool and keeps the time stamps. A completed chunk may
join the stream only if it is younger than everything the consumer knows of, so
the simulation needs one more invariant, `Youngest`: the chunk under way began
after the last one, which follows from `Sound` (a chunk takes `ChunkBlocks`
blocks) and from what the handler and the enabling of the channel do to
`current_timestamp_`. `Recorded` takes from the partition that there is room.

`EspMqttProofs` proves, for any number of client tasks, any length of the event
queue, any number of messages and with stops by clients and from callbacks:

* `TypeCorrect`, `ClientExclusive` (`OneUser`), `SocketKept` (`SelectSafe`),
  `FlagIsTrue` (`ConnectedIsServed`), `DispatchedInOrder` (`MessagesInOrder`)
  and `NoneForgotten` (`MessagesAccounted`: a message is lost only where the handler
  gives it up, for want of memory or of room, or with a deleted task);
* `LocksSurvive` (`NoOrphanedLock`), if no callback calls `esp_mqtt_stop`; the
  divergences above say why this is needed;
* `Implementation` (`ImplementsProcess`): the process keeps the promises of
  `esp_mqtt.h`.

The inductive invariant adds to these: a task that stands between the taking and
the giving of a mutex has it (`Holding`, which makes everything else a matter of
one task at a time); a task exists only in a started process and is deleted only
after the connection was closed (`Living`); what the place of the background task
says of socket and flag, with the exception of a client that has closed the
connection and is about to delete the task (`Serving` and `Closing`); what was
last reported (`Reporting`, the invariant of the refinement); and that the
messages dispatched, in hand and queued are one increasing sequence (`Handled`,
`Ordered`). `LocksSurvive` and `Implementation` follow from the invariant step by
step; neither needs more.

`QueueFacts` holds what the proofs about queues rest on: the range, head, tail and
length of a sequence after a queue operation, and of a queue seen through one field
of its items.

`LwmqttProofs` proves, for any number of packet ids, any kinds of requests and any
number of requests, messages and connections:

* `TypeCorrect`, `PongAwaited` (`PongIsDue`), `PassedInOrder` (`PassedOnInOrder`)
  and `AcknowledgedPassedOn` (`AcknowledgedIsPassedOn`), whose proofs make no use of
  `MaxSlips < MaxId`;
* `ConfirmedAccepted` (`ConfirmedIsAccepted`): a request that reports success was
  accepted by the broker, although ids come round again.

The invariant comes in groups, each proved from those before it. `Basic` and `Sized`
are types, and that nothing is left of a closed connection. `Pong`: a new connection
awaits no pong, and later the ping or its answer is on the way. `Messages`: what was
passed on, followed by the messages on the way, are consecutive numbers up to the last
one published (`InLine`), and no acknowledgement runs ahead of `passed_on`.
`Exchanges`: before a failure at most one packet of the client's own exchanges is on
the way (`Single`); after one, answers to given-up requests may still come, but their
ids are at most `MaxSlips` requests old (`Recent`), and since `MaxSlips < MaxId` no
such id is the one that is now waited for; so what is on the way with the id of the
present call belongs to it, and says truly what the broker has done (`Underway`).
That ids come round is used only through `Older`: an id that is not too old differs
from the next one.

`SnoringAppProofs` proves, from `SafeTeardown` where the driver needs it:

* `DriverImplemented`: the application's steps are steps of `I2SMicrophone` with
  `audio_task` for its client, so that all that is proved of the driver holds inside
  the application;
* `PublishesIntact` (`PublishedIsIntact`): what the broker takes for a chunk is one
  gapless recording from its time stamp on, unless its publish returned an error;
* `PublishesInOrder` (`InRecordingOrder`).

`PublishesIntact` uses `ChunkIntact` at every block that `audio_task` copies while the
interrupt goes on (`Copied`), that there is one handle exactly while the loop body runs
(`Handle`), and that a message the stream ends within is one whose publish failed
(`Marked`). `PublishesInOrder` uses `DeliveredInOrder` and that whatever the broker has, or
has begun to get, was delivered before the chunk in hand (`Broker`).

`PacketProofs` proves, of the encodings alone and without assumptions:

* `VarnumRoundTrip`: every remaining length below 2^28, written anywhere into any
  buffer, is read back, and the reader ends right behind it;
* `AckRoundTrip`: every packet id in every acknowledgement is read back whatever
  lies behind it in the buffer;
* `PublishWithin`: the topic, id and payload of *any* bytes that `DecodePublish`
  accepts make up exactly the announced length and end within the buffer, which is
  what the pointer arithmetic of `lwmqtt_decode_publish` has to ensure;

and of the stream, for every set of scenarios that satisfies `ScenarioAssumption`,
every size of the read buffer from two bytes on and any number of pings:

* `StreamTypeCorrect` (`TypeOK`): nothing is ever read beyond the buffer;
* `PacketsFramed` (`Framed`): each packet is read as what was sent.

The argument has three layers. *The stream*: packet *k* lies behind the `Off(sent, k - 1)`
bytes of those before it (`Laid`), which `Arrive`, `BrokerCloses` and the pongs keep;
`Concat` and `Total` are folds, and the induction over their length is made through
the least member of a set of numbers (`LeastExists`, `Induction`) and a function that
is shown to exist (`Recursion`), since an induction theorem with an operator for its
parameter cannot be used. *The decoders*: if the buffer begins with a whole packet
(`Whole`), what `DecodePublish` and the others return does not depend on what lies
behind it. *The client*: `AtField` says, for each field of `lwmqtt_read_packet_in_buffer`,
how much of the packet the buffer holds and how much of the stream was taken; with
`Agrees` for everything handled this is `InStep`. One lemma each shows what a completed
header, length, rest or drain does. After a read that breaks off in the middle of a
packet nothing is known of the bytes, but the client reads at most once more, may drop
one more packet and then closes (`Torn`); without this `overflow_counter` would not be
bounded.

`EncodingProofs` proves

* `CallsAreRead`: every member of `Calls` is encoded so that the broker reads it field
  by field as it was made, with strings of every length, any number of filters and any
  write buffer; an encoder refuses only what is too long for four length bytes, or what
  does not fit the buffer and would be a proper packet in a larger one;
* `PacketsEncoded` (`Encoded`): whatever a client writes is such an encoding;
* `PublishRoundTrip`: a message one client publishes, in any QoS, with any topic and
  payload, is what the decoder of another makes of it, topic, payload, flags and id,
  whatever older bytes follow in the read buffer;
* `SubackRead`: the codes of a SUBACK come one by one to the filters they answer, and
  whatever is no QoS level as a refusal.

Both sides are recursive: the encoders concatenate pieces, the parser goes from string
to string (`Places`). What connects them is `Row`, a head with strings behind it, each
found where those before it end (`RowRead`, over the offsets `Off` of the stream
proofs). SUBSCRIBE and UNSUBSCRIBE are rows; CONNECT is one whose strings are there or
not, built up string by string (`RowAlso`, `ConnectRow`), and its flags say which
(`ConnectBits`, `FlagsAre`). `NumberRead` is the remaining length from the broker's
side. For the stream the invariant is `WrittenEncoded`: the last packet written is the
encoding of a member of `Calls`. For a request that is the scenario's assumption; for a
reply to a PUBLISH, PUBREC or PUBREL it needs that an accepted packet's id was read
from two bytes inside the read buffer (`PublishId`, `AckId`).

`KeepAliveProofs` proves, for every interval and time-out longer than the round
trip and every clock wide enough (`TimeAssumption`, `WrapAssumption`):

* `TypeCorrect`, `TimerCorrect` (`TimerIsTrue`), `NeverSilent` (`SilenceBounded`),
  `HealthyNotClosed` (`HealthyStays`) and `DeathIsNoticed` (`DeathNoticed`).

The inductive invariant `IInv` says where the deadline lies on the circle that the
clock counts round (`Aligned`; `OneNearer` carries it over a tick, and with
`Rounds` it makes the signed difference of `TimerGet` the true one); that what is left
of a `select()` ends before a ping is overdue (`Rounds`); that a task that waits for
an answer was the last to send (`Requests`); that a ping is in flight or its answer
unread only while `pong_pending` (`Pongs`); that over a link that is alive what is
awaited is on its way and in time (`Alive`, from which follows that no ping is due
while one is awaited); and that over a dead one at most one more ping is sent
(`Dead`).

Only model-checked: the liveness properties (outside the prover's reach), that the
scenarios of `MCPacketStream` satisfy `ScenarioAssumption`, and the two violations.

Proving changed the models in three places. The `CASE` of `Handle` and a `CASE` in the
former `Agrees` had two arms that could be true together, where TLA+ leaves the value
open and TLC takes the first; their guards are now exclusive. `AcknowledgedIsPassedOn`
used to speak of acknowledged messages only and now accounts for every message of the
connection. And the packets of a scenario are now judged with the request they answer
(`WellFormed(p, c)`), since a SUBACK means nothing without its SUBSCRIBE.

## Not modelled, and why

* The TLS handshake, its certificates and `esp_mqtt_tls`, which could replace the
  network between two calls of one connection: the application never enables TLS.
  Select, peek, read and their records are in `PacketStream`.
* Publishes of lwmqtt with a given id or without waiting (`dup_id`, `skip_ack`) and
  the setters of the last will: not used by the firmware.
* `string.c`: a string longer than 65535 bytes loses its upper bits there; every
  topic of the firmware is a short literal.
* The lists of callbacks of `MQTTClient` and its parsing of the URI.
  `on_connect()` in `app_main` appends to a vector that the background task may
  read (`main.cpp:81`); one callback is registered, long before a connection can be
  there.
* LED strip, WiFi bring-up, NVS, logging, the host script: straight-line calls
  into the platform.
* `lwmqtt/src/posix.c`, `examples/`, `MQTTClient_old.cpp`: not in the firmware.
* Time, outside `KeepAlive`: a timeout is an outcome that may happen at any time.

## Plan

Done: all components above with their runs, and the theorems listed. What is left, in
this order:

1. A refinement from `PacketStream` to the reading half of `Lwmqtt`, which would turn
   `Framed` into the statement that `Lwmqtt` may read whole packets.
2. The teardown of the driver in pause mode, excluded by `SafeTeardown`: the
   destructor there loses buffers and deletes a semaphore that an interrupt may still
   give (`i2s_microphone.cpp:70`), so a theorem needs a model of what is undefined
   after it. The theorems hold up to the moment the destructor begins, since the runs
   up to it are those of `MayDestroy = FALSE`.
