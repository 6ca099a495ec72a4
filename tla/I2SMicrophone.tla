---------------------------- MODULE I2SMicrophone ----------------------------
(***************************************************************************)
(* The PDM microphone driver of components/i2s_microphone: a pool of audio *)
(* buffers that circulates between the DMA interrupt, which fills them,    *)
(* the client task, which consumes them through move-only handles, and, in *)
(* pause mode, a recorder task that switches the I2S channel on and off    *)
(* around every chunk.                                                     *)
(*                                                                         *)
(* The tasks are unpinned and the chip has two cores, so the interrupt,    *)
(* the recorder and the client interleave at every FreeRTOS call, each of  *)
(* which is atomic.  The interrupt handler is split at its queue calls;    *)
(* the fields only the handler reads are written in the step of the call   *)
(* before them.                                                            *)
(***************************************************************************)
EXTENDS Integers, Sequences, FiniteSets, SequencesExt

CONSTANTS
  PoolSize,     \* POOL_SIZE: buffers allocated by the constructor
  ChunkBlocks,  \* DMA interrupts that fill one buffer (32 in the firmware)
  PauseMode,    \* inter_chunk_pause_ms > 0: a recorder task exists
  MaxHandles,   \* AudioChunkHandles the client keeps alive at once
  MayDestroy,   \* the client may run the destructor
  Prompt,       \* the recorder stops the channel before the next chunk ends
  WindowOps,    \* bound: client queue calls during one run of the handler
  MaxChunks,    \* bound: chunks completed by the interrupt
  MaxStops      \* bound: calls of stop()

ASSUME PoolAssumption ==
  /\ PoolSize \in Nat \ {0}
  /\ ChunkBlocks \in Nat \ {0}
  /\ MaxHandles \in Nat
  /\ PauseMode \in BOOLEAN /\ MayDestroy \in BOOLEAN /\ Prompt \in BOOLEAN

ASSUME BoundAssumption == {WindowOps, MaxChunks, MaxStops} \subseteq Nat

\* Buffers are named by the order in which the constructor allocates them.
Buffers == 1 .. PoolSize
NULL == 0

\* QueuedAudioChunk on its way to the consumer.
Chunk == [buffer : Buffers, timestamp : Nat]

VARIABLES
  audio_queue,             \* full chunks, oldest first
  empty_audio_queue,       \* buffers ready to be filled
  current_buffer, current_timestamp, samples_collected,
  overwritten_chunk_count,
  is_recording_flag,
  chunk_done_sem,          \* the binary semaphore holds its token
  notified,                \* the recorder's task notification value is not 0
  channel,                 \* the I2S channel is enabled: interrupts occur
  pc,                      \* where each of isr, recorder and client stands
  drained,                 \* local array of the reset_buffers() in progress
  held,                    \* chunks owned by the client's live handles
  freed,                   \* buffers given back to the heap
  \* The captured sound: blocks are numbered, data says which block each slot
  \* of a buffer holds, now is the number of the latest block.
  data, now,
  \* History of the run and the counters the bounds are about.
  completed, delivered, discarded, forgotten, cycle, window, stops

queues == <<audio_queue, empty_audio_queue>>
fill   == <<current_buffer, current_timestamp, samples_collected>>
sound  == <<data, now>>
ctrl   == <<is_recording_flag, chunk_done_sem, notified, channel>>
count  == <<overwritten_chunk_count, completed, delivered, discarded, forgotten>>
bounds == <<cycle, window, stops>>
vars   == <<queues, fill, sound, ctrl, count, bounds, pc, drained, held, freed>>

Threads == {"isr", "recorder", "client"}

\* The steps of reset_buffers() and of the enabling of the channel after it.
Resetting == {"begin", "drain_audio", "drain_empty", "refill", "last"}

IsrPcs == {"idle", "push", "swap", "steal"}
RecorderPcs == Resetting \cup {"none", "sleep", "check", "enable", "wait", "disable",
                               "flag", "delay"}
ClientPcs == Resetting \cup {"idle", "notify", "enable", "stop_disable", "stop_give",
                             "del_channel", "del_free", "dead"}

Goto(t, from, to) == pc[t] = from /\ pc' = [pc EXCEPT ![t] = to]

Send_ToFront(queue, item) == <<item>> \o queue

\* xQueueSend with no wait: a full queue refuses the item.
Send(queue, item) == IF Len(queue) < PoolSize THEN Append(queue, item) ELSE queue

InWindow == pc["isr"] \in {"swap", "steal"}

-----------------------------------------------------------------------------
\* The constructor: buffer 1 is taken out for the interrupt handler at once.
Init ==
  /\ audio_queue = <<>>
  /\ empty_audio_queue = [i \in 1 .. PoolSize - 1 |-> i + 1]
  /\ current_buffer = 1 /\ current_timestamp = 0 /\ samples_collected = 0
  /\ overwritten_chunk_count = 0
  /\ is_recording_flag = FALSE /\ chunk_done_sem = FALSE
  /\ notified = FALSE /\ channel = FALSE
  /\ pc = [t \in Threads |->
             IF t = "recorder" THEN (IF PauseMode THEN "sleep" ELSE "none") ELSE "idle"]
  /\ drained = <<>> /\ held = {} /\ freed = {}
  /\ data = [b \in Buffers |-> [i \in 1 .. ChunkBlocks |-> 0]] /\ now = 0
  /\ completed = 0 /\ delivered = <<>> /\ discarded = 0 /\ forgotten = 0
  /\ cycle = "open" /\ window = 0 /\ stops = 0

-----------------------------------------------------------------------------
(***************************************************************************)
(* The interrupt handler, on_receive_callback.                             *)
(***************************************************************************)

\* One DMA block is copied behind the samples already collected.  A null
\* current_buffer_ would be a fault, so no step is taken then.
IsrBlock ==
  /\ channel /\ pc["isr"] = "idle" /\ current_buffer # NULL
  /\ completed < MaxChunks
  /\ (Prompt /\ PauseMode /\ cycle = "filled") => samples_collected + 1 < ChunkBlocks
  /\ now' = now + 1
  /\ data' = [data EXCEPT ![current_buffer][samples_collected + 1] = now + 1]
  /\ samples_collected' = samples_collected + 1
  /\ pc' = [pc EXCEPT !["isr"] = IF samples_collected + 1 >= ChunkBlocks
                                 THEN "push" ELSE "idle"]
  /\ UNCHANGED <<queues, current_buffer, current_timestamp, ctrl, count, bounds,
                 drained, held, freed>>

\* The full buffer goes to the consumer while current_buffer_ still names it.
IsrPush ==
  /\ Goto("isr", "push", "swap")
  /\ audio_queue' = Send(audio_queue, [buffer |-> current_buffer,
                                       timestamp |-> current_timestamp])
  /\ completed' = completed + 1
  /\ cycle' = IF cycle = "open" THEN "filled" ELSE cycle
  /\ window' = 0
  /\ UNCHANGED <<empty_audio_queue, fill, sound, ctrl, overwritten_chunk_count,
                 delivered, discarded, forgotten, stops, drained, held, freed>>

TokenGiven == chunk_done_sem \/ PauseMode

\* Start the next chunk in buffer b; in pause mode wake the recorder.
Install(b) ==
  /\ current_buffer' = b /\ current_timestamp' = now
  /\ samples_collected' = 0
  /\ chunk_done_sem' = TokenGiven

IsrSwap ==
  /\ pc["isr"] = "swap"
  /\ IF empty_audio_queue # <<>>
     THEN /\ Install(Head(empty_audio_queue))
          /\ empty_audio_queue' = Tail(empty_audio_queue)
          /\ pc' = [pc EXCEPT !["isr"] = "idle"]
     ELSE /\ pc' = [pc EXCEPT !["isr"] = "steal"]
          /\ UNCHANGED <<fill, chunk_done_sem, empty_audio_queue>>
  /\ UNCHANGED <<audio_queue, sound, is_recording_flag, notified, channel, count,
                 bounds, drained, held, freed>>

\* The oldest full chunk is given up so that recording goes on.
Victim_None == NULL
Victim == IF audio_queue # <<>> THEN Head(audio_queue).buffer ELSE NULL

StolenCount_Missed == overwritten_chunk_count
StolenCount == overwritten_chunk_count + 1

IsrSteal ==
  /\ Goto("isr", "steal", "idle")
  /\ Install(Victim)
  /\ audio_queue' = IF audio_queue # <<>> THEN Tail(audio_queue) ELSE <<>>
  /\ overwritten_chunk_count' = StolenCount
  /\ UNCHANGED <<empty_audio_queue, sound, is_recording_flag, notified, channel,
                 completed, delivered, discarded, forgotten, bounds, drained, held, freed>>

Isr == IsrBlock \/ IsrPush \/ IsrSwap \/ IsrSteal

-----------------------------------------------------------------------------
(***************************************************************************)
(* reset_buffers() and the enabling of the channel that always follows it, *)
(* by the recorder in pause mode and by start() otherwise.                 *)
(***************************************************************************)

Collected_Nothing == <<>>
Collected == IF current_buffer # NULL THEN <<current_buffer>> ELSE <<>>

ResetBegin_KeepsCurrent(t) ==
  /\ Goto(t, "begin", "drain_audio")
  /\ drained' = Collected
  /\ UNCHANGED current_buffer
  /\ UNCHANGED <<queues, current_timestamp, samples_collected, sound, ctrl, count,
                 bounds, held, freed>>

ResetBegin(t) ==
  /\ Goto(t, "begin", "drain_audio")
  /\ drained' = Collected
  /\ current_buffer' = NULL
  /\ UNCHANGED <<queues, current_timestamp, samples_collected, sound, ctrl, count,
                 bounds, held, freed>>

DrainAudio(t) ==
  /\ pc[t] = "drain_audio"
  /\ IF audio_queue # <<>>
     THEN /\ drained' = Append(drained, Head(audio_queue).buffer)
          /\ audio_queue' = Tail(audio_queue)
          /\ discarded' = discarded + 1
          /\ UNCHANGED pc
     ELSE /\ pc' = [pc EXCEPT ![t] = "drain_empty"]
          /\ UNCHANGED <<drained, audio_queue, discarded>>
  /\ UNCHANGED <<empty_audio_queue, fill, sound, ctrl, overwritten_chunk_count, completed,
                 delivered, forgotten, bounds, held, freed>>

DrainEmpty(t) ==
  /\ pc[t] = "drain_empty"
  /\ IF empty_audio_queue # <<>>
     THEN /\ drained' = Append(drained, Head(empty_audio_queue))
          /\ empty_audio_queue' = Tail(empty_audio_queue)
          /\ UNCHANGED pc
     ELSE /\ pc' = [pc EXCEPT ![t] = "refill"]
          /\ UNCHANGED <<drained, empty_audio_queue>>
  /\ UNCHANGED <<audio_queue, fill, sound, ctrl, count, bounds, held, freed>>

Refill(t) ==
  /\ pc[t] = "refill"
  /\ IF drained # <<>>
     THEN /\ empty_audio_queue' = Send(empty_audio_queue, Head(drained))
          /\ drained' = Tail(drained)
          /\ UNCHANGED pc
     ELSE /\ pc' = [pc EXCEPT ![t] = "last"]
          /\ UNCHANGED <<drained, empty_audio_queue>>
  /\ UNCHANGED <<audio_queue, fill, sound, ctrl, count, bounds, held, freed>>

\* When the last receive fails nothing was drained either (only the disabled
\* handler takes buffers out), so the local chunk.buffer is still nullptr.
ResetEnd(t) ==
  /\ Goto(t, "last", "enable")
  /\ IF empty_audio_queue # <<>>
     THEN /\ current_buffer' = Head(empty_audio_queue)
          /\ empty_audio_queue' = Tail(empty_audio_queue)
     ELSE current_buffer' = NULL /\ UNCHANGED empty_audio_queue
  /\ samples_collected' = 0 /\ current_timestamp' = 0
  /\ UNCHANGED <<audio_queue, sound, ctrl, count, bounds, drained, held, freed>>

Stamp_Missed == current_timestamp
Stamp == now + 1

\* Time has passed since the last block: the numbering of blocks skips one.
Enable(t) ==
  /\ Goto(t, "enable", IF t = "recorder" THEN "wait" ELSE "idle")
  /\ now' = now + 1 /\ current_timestamp' = Stamp
  /\ channel' = TRUE
  /\ cycle' = IF is_recording_flag THEN "open" ELSE "stopped"
  /\ UNCHANGED <<queues, current_buffer, samples_collected, data, is_recording_flag,
                 chunk_done_sem, notified, count, window, stops, drained, held, freed>>

Reset(t) == \/ ResetBegin(t) \/ DrainAudio(t) \/ DrainEmpty(t)
            \/ Refill(t) \/ ResetEnd(t) \/ Enable(t)

-----------------------------------------------------------------------------
(***************************************************************************)
(* The recorder task, recorder_task_fn, in pause mode.                     *)
(***************************************************************************)

Wake ==
  /\ Goto("recorder", "sleep", "check") /\ notified
  /\ notified' = FALSE
  /\ UNCHANGED <<queues, fill, sound, is_recording_flag, chunk_done_sem, channel, count,
                 bounds, drained, held, freed>>

CheckRecording ==
  /\ Goto("recorder", "check", IF is_recording_flag THEN "begin" ELSE "sleep")
  /\ UNCHANGED <<queues, fill, sound, ctrl, count, bounds, drained, held, freed>>

TakeToken_Leaves ==
  /\ Goto("recorder", "wait", "disable") /\ chunk_done_sem
  /\ UNCHANGED <<queues, fill, sound, ctrl, count, bounds, drained, held, freed>>

TakeToken ==
  /\ Goto("recorder", "wait", "disable") /\ chunk_done_sem
  /\ chunk_done_sem' = FALSE
  /\ UNCHANGED <<queues, fill, sound, is_recording_flag, notified, channel, count,
                 bounds, drained, held, freed>>

RecorderDisable_Skipped ==
  /\ Goto("recorder", "disable", "flag") /\ pc["isr"] = "idle"
  /\ UNCHANGED channel
  /\ UNCHANGED <<queues, fill, sound, is_recording_flag, chunk_done_sem, notified, count,
                 bounds, drained, held, freed>>

\* i2s_channel_disable returns when no handler is running any more.
RecorderDisable ==
  /\ Goto("recorder", "disable", "flag") /\ pc["isr"] = "idle"
  /\ channel' = FALSE
  /\ UNCHANGED <<queues, fill, sound, is_recording_flag, chunk_done_sem, notified, count,
                 bounds, drained, held, freed>>

RecorderPause ==
  /\ \/ Goto("recorder", "flag", IF is_recording_flag THEN "delay" ELSE "check")
     \/ Goto("recorder", "delay", "check")
  /\ UNCHANGED <<queues, fill, sound, ctrl, count, bounds, drained, held, freed>>

Recorder == \/ Wake \/ CheckRecording \/ TakeToken \/ RecorderDisable \/ RecorderPause
            \/ Reset("recorder")

-----------------------------------------------------------------------------
(***************************************************************************)
(* The client task: start, stop, get_audio, the end of a handle, the       *)
(* counter's reset and the destructor.                                     *)
(***************************************************************************)

Start ==
  /\ Goto("client", "idle", IF PauseMode THEN "notify" ELSE "begin")
  /\ ~is_recording_flag
  /\ is_recording_flag' = TRUE
  /\ UNCHANGED <<queues, fill, sound, chunk_done_sem, notified, channel, count, bounds,
                 drained, held, freed>>

Notify ==
  /\ Goto("client", "notify", "idle")
  /\ notified' = TRUE
  /\ UNCHANGED <<queues, fill, sound, is_recording_flag, chunk_done_sem, channel, count,
                 bounds, drained, held, freed>>

Stop ==
  /\ Goto("client", "idle", "stop_disable")
  /\ is_recording_flag /\ stops < MaxStops
  /\ is_recording_flag' = FALSE
  /\ stops' = stops + 1
  /\ cycle' = "stopped"
  /\ UNCHANGED <<queues, fill, sound, chunk_done_sem, notified, channel, count, window,
                 drained, held, freed>>

StopDisable ==
  /\ Goto("client", "stop_disable", IF PauseMode THEN "stop_give" ELSE "idle")
  /\ pc["isr"] = "idle"
  /\ channel' = FALSE
  /\ UNCHANGED <<queues, fill, sound, is_recording_flag, chunk_done_sem, notified, count,
                 bounds, drained, held, freed>>

\* Without this the recorder would wait for a chunk that never comes.
StopGive_Forgotten ==
  /\ Goto("client", "stop_give", "idle")
  /\ UNCHANGED <<queues, fill, sound, ctrl, count, bounds, drained, held, freed>>

StopGive ==
  /\ Goto("client", "stop_give", "idle")
  /\ chunk_done_sem' = TRUE
  /\ UNCHANGED <<queues, fill, sound, is_recording_flag, notified, channel, count, bounds,
                 drained, held, freed>>

\* The bound on what the client gets done while the handler is running.
ClientQueueCall ==
  /\ pc["client"] = "idle"
  /\ InWindow => window < WindowOps
  /\ window' = IF InWindow THEN window + 1 ELSE 0

GetAudio ==
  /\ ClientQueueCall
  /\ Cardinality(held) < MaxHandles
  /\ audio_queue # <<>>
  /\ held' = held \cup {Head(audio_queue)}
  /\ audio_queue' = Tail(audio_queue)
  /\ delivered' = Append(delivered, Head(audio_queue).timestamp)
  /\ UNCHANGED <<empty_audio_queue, fill, sound, ctrl, overwritten_chunk_count, completed,
                 discarded, forgotten, cycle, stops, pc, drained, freed>>

\* Nothing arrives for three seconds: std::nullopt.
GetAudioTimeout ==
  /\ pc["client"] = "idle" /\ audio_queue = <<>>
  /\ UNCHANGED vars

\* ~AudioChunkHandle
ReturnBuffer ==
  /\ ClientQueueCall
  /\ \E c \in held :
       /\ held' = held \ {c}
       /\ empty_audio_queue' = Send(empty_audio_queue, c.buffer)
  /\ UNCHANGED <<audio_queue, fill, sound, ctrl, count, cycle, stops, pc, drained, freed>>

ResetCount ==
  /\ pc["client"] = "idle" /\ overwritten_chunk_count > 0
  /\ overwritten_chunk_count' = 0
  /\ forgotten' = forgotten + overwritten_chunk_count
  /\ UNCHANGED <<queues, fill, sound, ctrl, completed, delivered, discarded, bounds, pc,
                 drained, held, freed>>

\* ~I2SMicrophone, once the client's handles are gone: the recorder and the
\* semaphore first, then the channel if recording, then the buffers.
Destroy ==
  /\ MayDestroy /\ held = {} /\ pc["client"] = "idle"
  /\ pc' = [pc EXCEPT !["client"] = "del_channel", !["recorder"] = "none"]
  /\ chunk_done_sem' = FALSE
  /\ UNCHANGED <<queues, fill, sound, is_recording_flag, notified, channel, count, bounds,
                 drained, held, freed>>

DestroyChannel_Skipped ==
  /\ Goto("client", "del_channel", "del_free")
  /\ UNCHANGED channel
  /\ UNCHANGED <<queues, fill, sound, is_recording_flag, chunk_done_sem, notified, count,
                 bounds, drained, held, freed>>

DestroyChannel ==
  /\ Goto("client", "del_channel", "del_free")
  /\ IF is_recording_flag THEN pc["isr"] = "idle" /\ channel' = FALSE
                       ELSE UNCHANGED channel
  /\ UNCHANGED <<queues, fill, sound, is_recording_flag, chunk_done_sem, notified, count,
                 bounds, drained, held, freed>>

DestroyFree ==
  /\ Goto("client", "del_free", "dead")
  /\ freed' = ({current_buffer} \ {NULL}) \cup ToSet(empty_audio_queue)
              \cup {c.buffer : c \in ToSet(audio_queue)}
  /\ audio_queue' = <<>> /\ empty_audio_queue' = <<>>
  /\ UNCHANGED <<fill, sound, ctrl, count, bounds, drained, held>>

Client == \/ Start \/ Notify \/ Reset("client") \/ Stop \/ StopDisable \/ StopGive
          \/ GetAudio \/ GetAudioTimeout \/ ReturnBuffer \/ ResetCount
          \/ Destroy \/ DestroyChannel \/ DestroyFree

Next == Isr \/ Recorder \/ Client

\* The hardware raises the interrupts, the scheduler runs the recorder, and a
\* call the client has begun is carried to its end.  What the client calls,
\* and when, is its own choice.
Fairness ==
  /\ WF_vars(Isr)
  /\ WF_vars(Recorder)
  /\ WF_vars(\/ Notify \/ Reset("client") \/ StopDisable \/ StopGive
             \/ DestroyChannel \/ DestroyFree)

Spec == Init /\ [][Next]_vars
FairSpec == Spec /\ Fairness

-----------------------------------------------------------------------------
QueueTypes ==
  /\ audio_queue \in Seq(Chunk) /\ empty_audio_queue \in Seq(Buffers)
  /\ drained \in Seq(Buffers) /\ held \subseteq Chunk /\ freed \subseteq Buffers

FillTypes ==
  /\ current_buffer \in Buffers \cup {NULL}
  /\ current_timestamp \in Nat /\ samples_collected \in 0 .. ChunkBlocks
  /\ data \in [Buffers -> [1 .. ChunkBlocks -> Nat]] /\ now \in Nat

FlagTypes ==
  /\ is_recording_flag \in BOOLEAN /\ chunk_done_sem \in BOOLEAN
  /\ notified \in BOOLEAN /\ channel \in BOOLEAN

PcTypes ==
  /\ pc \in [Threads -> IsrPcs \cup RecorderPcs \cup ClientPcs]
  /\ pc["isr"] \in IsrPcs /\ pc["recorder"] \in RecorderPcs /\ pc["client"] \in ClientPcs

CountTypes ==
  /\ overwritten_chunk_count \in Nat
  /\ completed \in Nat /\ discarded \in Nat /\ forgotten \in Nat
  /\ window \in Nat /\ stops \in Nat
  /\ delivered \in Seq(Nat)
  /\ cycle \in {"open", "filled", "stopped"}

\* Every variable keeps its type: the buffer fields name real buffers and the
\* interrupt handler never copies past the end of one.
TypeOK ==
  /\ QueueTypes /\ FillTypes /\ FlagTypes /\ PcTypes /\ CountTypes

\* The places a buffer can be.  While the handler swaps buffers, and after the
\* destructor, current_buffer_ is a stale name and owns nothing.
BuffersOf(queue) == [i \in DOMAIN queue |-> queue[i].buffer]
InAudio   == ToSet(BuffersOf(audio_queue))
InEmpty   == ToSet(empty_audio_queue)
InDrained == ToSet(drained)
InHeld    == {c.buffer : c \in held}
Filling   == IF InWindow \/ pc["client"] = "dead" THEN {} ELSE {current_buffer} \ {NULL}

\* No two places own the same buffer and none owns it twice: whatever order the
\* interrupt, the recorder and the client come in, the handler never fills a
\* buffer that is queued for, or held by, the consumer.
NoAlias ==
  /\ IsInjective(BuffersOf(audio_queue))
  /\ IsInjective(empty_audio_queue) /\ IsInjective(drained)
  /\ \A c, d \in held : c.buffer = d.buffer => c = d
  /\ Filling \cap (InAudio \cup InEmpty \cup InDrained \cup InHeld) = {}
  /\ InAudio \cap (InEmpty \cup InDrained \cup InHeld) = {}
  /\ InEmpty \cap (InDrained \cup InHeld) = {}
  /\ InDrained \cap InHeld = {}
  /\ freed \cap (Filling \cup InAudio \cup InEmpty \cup InDrained \cup InHeld) = {}

\* The pool never loses a buffer either: no queue is ever full when something
\* is sent to it, so what the code ignores (the result of xQueueSend) is fine.
NoLeak == Filling \cup InAudio \cup InEmpty \cup InDrained \cup InHeld \cup freed = Buffers

\* A chunk that is queued or held is one gapless recording that starts right
\* after its timestamp, and nothing writes to it until its handle is gone.
ChunkIntact ==
  \A c \in held \cup ToSet(audio_queue) : \A i \in 1 .. ChunkBlocks :
    data[c.buffer][i] = c.timestamp + i

\* reset_buffers() takes no lock: no handler runs and none can start meanwhile,
\* and the recorder and start() are never in it together.
ResetAlone ==
  \A t \in {"recorder", "client"} :
    pc[t] \in Resetting => /\ ~channel /\ pc["isr"] = "idle"
                           /\ \A u \in {"recorder", "client"} \ {t} : pc[u] \notin Resetting

\* The driver is a lossy stream: whatever the pool does, the consumer sees chunks
\* in recording order, each once, and only ever loses the oldest waiting one.
TimestampsOf(queue) == [i \in DOMAIN queue |-> queue[i].timestamp]

Stream == INSTANCE AudioStream WITH
            Capacity <- PoolSize, pending <- TimestampsOf(audio_queue), clock <- now

ImplementsStream == Stream!Spec

\* Every completed chunk was delivered, waits, was counted as overwritten (since
\* the counter's last reset or before it), or was emptied by reset_buffers().
Accounting ==
  pc["client"] # "dead" =>
    completed = Len(delivered) + Len(audio_queue) + overwritten_chunk_count
                + forgotten + discarded

\* "Block until the ISR signals that a full chunk is ready" (i2s_microphone.cpp:93):
\* the recorder only ends a cycle in which a chunk was completed or stop() called.
\* It takes a client that does not call stop(), which may leave a token behind,
\* and a recorder that ends a cycle before a second chunk of it is complete.
CycleFilled == pc["recorder"] = "disable" => cycle # "open"

\* "Stops recording (if active) and releases all I2S and buffer resources"
\* (i2s_microphone.hpp:121): after the destructor no interrupt can come and each
\* buffer is back on the heap.
DestroyedReleasesAll == pc["client"] = "dead" => ~channel /\ freed = Buffers

\* stop() takes effect whatever the recorder was doing: the channel ends up off
\* and the recorder asleep, unless start() is called again.
StopQuiesces ==
  ~is_recording_flag ~>
    (is_recording_flag \/ (~channel /\ pc["recorder"] \in {"sleep", "none"}))

\* Recording never stalls: as long as nobody stops it or destroys the driver,
\* another chunk is completed.
KeepsRecording ==
  \A n \in 0 .. MaxChunks - 1 :
    (is_recording_flag /\ completed = n)
      ~> (completed > n \/ ~is_recording_flag \/ pc["client"] = "dead")

=============================================================================
