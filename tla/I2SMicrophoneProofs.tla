------------------------ MODULE I2SMicrophoneProofs ------------------------
(***************************************************************************)
(* Theorems about the microphone driver, for every pool, chunk size, mode  *)
(* and bound.                                                              *)
(***************************************************************************)
EXTENDS I2SMicrophone, QueueFacts, FiniteSetTheorems, TLAPS

-----------------------------------------------------------------------------
Tasks == {"recorder", "client"}
Dying == {"del_channel", "del_free", "dead"}

\* The destructor is only covered in continuous mode: it deletes a recorder
\* wherever that one stands, and in pause mode that loses buffers.
SafeTeardown == ~(PauseMode /\ MayDestroy)

\* Who may be where: the interrupt only runs on an enabled channel, the channel
\* is enabled by one task only, and reset_buffers() has it disabled.
Control ==
  /\ pc["isr"] # "idle" => channel
  /\ pc["isr"] = "push" => current_buffer # NULL
  /\ PauseMode =>
       /\ pc["recorder"] # "none"
       /\ pc["client"] \notin Resetting \cup {"enable"} \cup Dying
       /\ channel => pc["recorder"] \in {"wait", "disable"}
  /\ ~PauseMode =>
       /\ pc["recorder"] = "none"
       /\ pc["client"] \notin {"notify", "stop_give"}
       /\ channel => is_recording_flag \/ pc["client"] = "stop_disable"
       /\ pc["client"] \in Resetting \cup {"enable"} => is_recording_flag
       /\ pc["client"] \in Resetting \cup {"enable", "del_free", "dead"} => ~channel
  /\ \A t \in Tasks : pc[t] \in {"drain_audio", "drain_empty", "refill", "last"} =>
       current_buffer = NULL
  /\ pc["client"] # "dead" => freed = {}
  /\ drained # <<>> => \E t \in Tasks : pc[t] \in {"drain_audio", "drain_empty", "refill"}

\* The clock of the recording: what the current buffer holds so far.
Sound ==
  /\ pc["isr"] = "idle" => samples_collected < ChunkBlocks
  /\ pc["isr"] # "idle" => samples_collected = ChunkBlocks
  /\ \A t \in Tasks : pc[t] = "enable" => samples_collected = 0
  /\ channel => now = current_timestamp + samples_collected
  /\ channel /\ ~InWindow /\ current_buffer # NULL =>
       \A i \in 1 .. samples_collected : data[current_buffer][i] = current_timestamp + i
  /\ ChunkIntact

IInv == TypeOK /\ Control /\ NoAlias /\ NoLeak /\ Sound

LEMMA ControlStep ==
  ASSUME SafeTeardown, TypeOK, Control, Next
  PROVE  Control'
<1> USE DEF Control, TypeOK, PcTypes, Goto, Tasks, Dying, Threads, NULL, Resetting, IsrPcs, RecorderPcs,
            ClientPcs, SafeTeardown, queues, fill, sound, ctrl, count, bounds
<1>1. CASE IsrBlock
  BY <1>1 DEF IsrBlock
<1>2. CASE IsrPush
  BY <1>2 DEF IsrPush
<1>3. CASE IsrSwap
  BY <1>3 DEF IsrSwap, Install
<1>4. CASE IsrSteal
  BY <1>4 DEF IsrSteal, Install
<1>5. ASSUME NEW t \in Tasks, ResetBegin(t) PROVE Control'
  BY <1>5 DEF ResetBegin
<1>6. ASSUME NEW t \in Tasks, DrainAudio(t) PROVE Control'
  BY <1>6 DEF DrainAudio
<1>7. ASSUME NEW t \in Tasks, DrainEmpty(t) PROVE Control'
  BY <1>7 DEF DrainEmpty
<1>8. ASSUME NEW t \in Tasks, Refill(t) PROVE Control'
  BY <1>8 DEF Refill
<1>9. ASSUME NEW t \in Tasks, ResetEnd(t) PROVE Control'
  BY <1>9 DEF ResetEnd
<1>10. ASSUME NEW t \in Tasks, Enable(t) PROVE Control'
  BY <1>10 DEF Enable
<1>11. CASE Wake
  BY <1>11 DEF Wake
<1>12. CASE CheckRecording
  BY <1>12 DEF CheckRecording
<1>13. CASE TakeToken
  BY <1>13 DEF TakeToken
<1>14. CASE RecorderDisable
  BY <1>14 DEF RecorderDisable
<1>15. CASE RecorderPause
  BY <1>15 DEF RecorderPause
<1>16. CASE Start
  BY <1>16 DEF Start
<1>17. CASE Notify
  BY <1>17 DEF Notify
<1>18. CASE Stop
  BY <1>18 DEF Stop
<1>19. CASE StopDisable
  BY <1>19 DEF StopDisable
<1>20. CASE StopGive
  BY <1>20 DEF StopGive
<1>21. CASE GetAudio
  BY <1>21 DEF GetAudio, ClientQueueCall
<1>22. CASE GetAudioTimeout
  BY <1>22 DEF GetAudioTimeout, vars
<1>23. CASE ReturnBuffer
  BY <1>23 DEF ReturnBuffer, ClientQueueCall
<1>24. CASE ResetCount
  BY <1>24 DEF ResetCount
<1>25. CASE Destroy
  BY <1>25 DEF Destroy
<1>26. CASE DestroyChannel
  BY <1>26 DEF DestroyChannel
<1>27. CASE DestroyFree
  BY <1>27 DEF DestroyFree
<1> QED
  BY <1>1, <1>2, <1>3, <1>4, <1>5, <1>6, <1>7, <1>8, <1>9, <1>10, <1>11, <1>12, <1>13, <1>14,
     <1>15, <1>16, <1>17, <1>18, <1>19, <1>20, <1>21, <1>22, <1>23, <1>24, <1>25, <1>26, <1>27
     DEF Next, Isr, Recorder, Client, Reset

LEMMA ChunkFields ==
  /\ \A c \in Chunk : c.buffer \in Buffers /\ c.timestamp \in Nat
  /\ \A b \in Buffers, n \in Nat : [buffer |-> b, timestamp |-> n] \in Chunk
BY DEF Chunk

\* What the oldest queued chunk is, when there is one.
LEMMA OldestChunk ==
  ASSUME QueueTypes, audio_queue # <<>>
  PROVE  /\ Head(audio_queue) \in Chunk /\ Tail(audio_queue) \in Seq(Chunk)
         /\ Head(audio_queue).buffer \in Buffers /\ Head(audio_queue).timestamp \in Nat
<1>1. Head(audio_queue) \in Chunk /\ Tail(audio_queue) \in Seq(Chunk)
  BY TailFacts DEF QueueTypes
<1> QED BY <1>1, ChunkFields

LEMMA PcStep ==
  ASSUME PcTypes, Next
  PROVE  PcTypes'
<1> USE DEF PcTypes, Goto, Threads, Resetting, IsrPcs, RecorderPcs, ClientPcs
<1>1. CASE Isr
  BY <1>1 DEF Isr, IsrBlock, IsrPush, IsrSwap, IsrSteal
<1>2. ASSUME NEW t \in Tasks, Reset(t) PROVE PcTypes'
  BY <1>2 DEF Tasks, Reset, ResetBegin, DrainAudio, DrainEmpty, Refill, ResetEnd, Enable
<1>3. CASE Wake \/ CheckRecording \/ TakeToken \/ RecorderDisable \/ RecorderPause
  BY <1>3 DEF Wake, CheckRecording, TakeToken, RecorderDisable, RecorderPause
<1>4. CASE Start \/ Notify \/ Stop \/ StopDisable \/ StopGive
  BY <1>4 DEF Start, Notify, Stop, StopDisable, StopGive
<1>5. CASE GetAudio \/ GetAudioTimeout \/ ReturnBuffer \/ ResetCount
  BY <1>5 DEF GetAudio, GetAudioTimeout, ReturnBuffer, ResetCount, ClientQueueCall, vars
<1>6. CASE Destroy \/ DestroyChannel \/ DestroyFree
  BY <1>6 DEF Destroy, DestroyChannel, DestroyFree
<1> QED BY <1>1, <1>2, <1>3, <1>4, <1>5, <1>6 DEF Next, Recorder, Client, Tasks

LEMMA FlagStep ==
  ASSUME FlagTypes, Next
  PROVE  FlagTypes'
<1> USE PoolAssumption DEF FlagTypes, ctrl
<1>1. CASE Isr
  BY <1>1 DEF Isr, IsrBlock, IsrPush, IsrSwap, IsrSteal, Install, TokenGiven
<1>2. ASSUME NEW t \in Tasks, Reset(t) PROVE FlagTypes'
  BY <1>2 DEF Reset, ResetBegin, DrainAudio, DrainEmpty, Refill, ResetEnd, Enable
<1>3. CASE Wake \/ CheckRecording \/ TakeToken \/ RecorderDisable \/ RecorderPause
  BY <1>3 DEF Wake, CheckRecording, TakeToken, RecorderDisable, RecorderPause
<1>4. CASE Start \/ Notify \/ Stop \/ StopDisable \/ StopGive
  BY <1>4 DEF Start, Notify, Stop, StopDisable, StopGive
<1>5. CASE GetAudio \/ GetAudioTimeout \/ ReturnBuffer \/ ResetCount
  BY <1>5 DEF GetAudio, GetAudioTimeout, ReturnBuffer, ResetCount, ClientQueueCall, vars
<1>6. CASE Destroy \/ DestroyChannel \/ DestroyFree
  BY <1>6 DEF Destroy, DestroyChannel, DestroyFree
<1> QED BY <1>1, <1>2, <1>3, <1>4, <1>5, <1>6 DEF Next, Recorder, Client, Tasks

LEMMA CountStep ==
  ASSUME CountTypes, QueueTypes, Next
  PROVE  CountTypes'
<1> USE DEF CountTypes, count, bounds
<1>1. CASE Isr
  BY <1>1 DEF Isr, IsrBlock, IsrPush, IsrSwap, IsrSteal, StolenCount
<1>2. ASSUME NEW t \in Tasks, Reset(t) PROVE CountTypes'
  BY <1>2 DEF Reset, ResetBegin, DrainAudio, DrainEmpty, Refill, ResetEnd, Enable
<1>3. CASE Wake \/ CheckRecording \/ TakeToken \/ RecorderDisable \/ RecorderPause
  BY <1>3 DEF Wake, CheckRecording, TakeToken, RecorderDisable, RecorderPause
<1>4. CASE Start \/ Notify \/ Stop \/ StopDisable \/ StopGive
  BY <1>4 DEF Start, Notify, Stop, StopDisable, StopGive
<1>5. CASE GetAudio
  <2>1. Head(audio_queue).timestamp \in Nat
    BY <1>5, OldestChunk DEF GetAudio
  <2> QED BY <1>5, <2>1 DEF GetAudio, ClientQueueCall
<1>6. CASE GetAudioTimeout \/ ReturnBuffer \/ ResetCount
  BY <1>6 DEF GetAudioTimeout, ReturnBuffer, ResetCount, ClientQueueCall, vars
<1>7. CASE Destroy \/ DestroyChannel \/ DestroyFree
  BY <1>7 DEF Destroy, DestroyChannel, DestroyFree
<1> QED BY <1>1, <1>2, <1>3, <1>4, <1>5, <1>6, <1>7 DEF Next, Recorder, Client, Tasks

LEMMA FillStep ==
  ASSUME FillTypes, QueueTypes, Sound, Next
  PROVE  FillTypes'
<1> USE PoolAssumption DEF FillTypes, fill, sound
<1>1. CASE IsrBlock
  <2>1. samples_collected + 1 \in 1 .. ChunkBlocks
    BY <1>1 DEF IsrBlock, Sound
  <2>2. data' \in [Buffers -> [1 .. ChunkBlocks -> Nat]]
    BY <1>1, <2>1 DEF IsrBlock, NULL
  <2> QED BY <1>1, <2>1, <2>2 DEF IsrBlock
<1>2. CASE IsrPush
  BY <1>2 DEF IsrPush
<1>3. CASE IsrSwap
  <2>1. empty_audio_queue # <<>> => Head(empty_audio_queue) \in Buffers
    BY TailFacts DEF QueueTypes
  <2> QED BY <1>3, <2>1 DEF IsrSwap, Install
<1>4. CASE IsrSteal
  <2>1. audio_queue # <<>> => Head(audio_queue).buffer \in Buffers
    BY OldestChunk
  <2> QED BY <1>4, <2>1 DEF IsrSteal, Install, Victim
<1>5. ASSUME NEW t \in Tasks, ResetEnd(t) PROVE FillTypes'
  <2>1. empty_audio_queue # <<>> => Head(empty_audio_queue) \in Buffers
    BY TailFacts DEF QueueTypes
  <2> QED BY <1>5, <2>1 DEF ResetEnd
<1>6. ASSUME NEW t \in Tasks, ResetBegin(t) \/ Enable(t) PROVE FillTypes'
  BY <1>6 DEF ResetBegin, Enable, Stamp
<1>7. ASSUME NEW t \in Tasks, DrainAudio(t) \/ DrainEmpty(t) \/ Refill(t) PROVE FillTypes'
  BY <1>7 DEF DrainAudio, DrainEmpty, Refill
<1>8. CASE Wake \/ CheckRecording \/ TakeToken \/ RecorderDisable \/ RecorderPause
  BY <1>8 DEF Wake, CheckRecording, TakeToken, RecorderDisable, RecorderPause
<1>9. CASE Start \/ Notify \/ Stop \/ StopDisable \/ StopGive
  BY <1>9 DEF Start, Notify, Stop, StopDisable, StopGive
<1>10. CASE GetAudio \/ GetAudioTimeout \/ ReturnBuffer \/ ResetCount
  BY <1>10 DEF GetAudio, GetAudioTimeout, ReturnBuffer, ResetCount, ClientQueueCall, vars
<1>11. CASE Destroy \/ DestroyChannel \/ DestroyFree
  BY <1>11 DEF Destroy, DestroyChannel, DestroyFree
<1> QED BY <1>1, <1>2, <1>3, <1>4, <1>5, <1>6, <1>7, <1>8, <1>9, <1>10, <1>11
        DEF Next, Isr, Recorder, Client, Reset, Tasks

LEMMA QueueStep ==
  ASSUME FillTypes, QueueTypes, Control, Next
  PROVE  QueueTypes'
<1> USE DEF QueueTypes, queues
<1>1. CASE IsrBlock
  BY <1>1 DEF IsrBlock
<1>2. CASE IsrPush
  <2>1. current_buffer \in Buffers /\ current_timestamp \in Nat
    BY <1>2 DEF IsrPush, Control, Goto, FillTypes
  <2>2. [buffer |-> current_buffer, timestamp |-> current_timestamp] \in Chunk
    BY <2>1, ChunkFields
  <2>3. audio_queue' \in Seq(Chunk)
    BY <1>2, <2>2, AppendFacts DEF IsrPush, Send
  <2> QED BY <1>2, <2>3 DEF IsrPush
<1>3. CASE IsrSwap
  <2>1. empty_audio_queue' \in Seq(Buffers)
    <3>1. CASE empty_audio_queue # <<>>
      <4>1. empty_audio_queue' = Tail(empty_audio_queue)
        BY <1>3, <3>1 DEF IsrSwap
      <4> QED BY <3>1, <4>1, TailFacts
    <3>2. CASE empty_audio_queue = <<>>
      BY <1>3, <3>2 DEF IsrSwap
    <3> QED BY <3>1, <3>2
  <2> QED BY <1>3, <2>1 DEF IsrSwap
<1>4. CASE IsrSteal
  <2>1. (IF audio_queue # <<>> THEN Tail(audio_queue) ELSE <<>>) \in Seq(Chunk)
    BY OldestChunk
  <2> QED BY <1>4, <2>1 DEF IsrSteal
<1>5. ASSUME NEW t \in Tasks, ResetBegin(t) PROVE QueueTypes'
  <2>1. Collected \in Seq(Buffers)
    BY DEF Collected, FillTypes, NULL
  <2> QED BY <1>5, <2>1 DEF ResetBegin
<1>6. ASSUME NEW t \in Tasks, DrainAudio(t) PROVE QueueTypes'
  <2>1. audio_queue # <<>> =>
          Head(audio_queue).buffer \in Buffers /\ Tail(audio_queue) \in Seq(Chunk)
    BY OldestChunk
  <2>2. CASE audio_queue # <<>>
    <3>1. Append(drained, Head(audio_queue).buffer) \in Seq(Buffers)
      BY <2>1, <2>2, AppendFacts
    <3> QED BY <1>6, <2>1, <2>2, <3>1 DEF DrainAudio
  <2>3. CASE audio_queue = <<>>
    BY <1>6, <2>3 DEF DrainAudio
  <2> QED BY <2>2, <2>3
<1>7. ASSUME NEW t \in Tasks, DrainEmpty(t) \/ ResetEnd(t) PROVE QueueTypes'
  <2>1. CASE empty_audio_queue # <<>>
    <3>1. Head(empty_audio_queue) \in Buffers /\ Tail(empty_audio_queue) \in Seq(Buffers)
      BY <2>1, TailFacts
    <3>2. Append(drained, Head(empty_audio_queue)) \in Seq(Buffers)
      BY <3>1, AppendFacts
    <3>3. CASE DrainEmpty(t)
      BY <2>1, <3>1, <3>2, <3>3 DEF DrainEmpty
    <3>4. CASE ResetEnd(t)
      BY <2>1, <3>1, <3>4 DEF ResetEnd
    <3> QED BY <1>7, <3>3, <3>4
  <2>2. CASE empty_audio_queue = <<>>
    BY <1>7, <2>2 DEF DrainEmpty, ResetEnd
  <2> QED BY <2>1, <2>2
<1>8. ASSUME NEW t \in Tasks, Refill(t) PROVE QueueTypes'
  <2>1. CASE drained # <<>>
    <3>1. Head(drained) \in Buffers /\ Tail(drained) \in Seq(Buffers)
      BY <2>1, TailFacts
    <3>2. Send(empty_audio_queue, Head(drained)) \in Seq(Buffers)
      BY <3>1, AppendFacts DEF Send
    <3> QED BY <1>8, <2>1, <3>1, <3>2 DEF Refill
  <2>2. CASE drained = <<>>
    BY <1>8, <2>2 DEF Refill
  <2> QED BY <2>1, <2>2
<1>9. ASSUME NEW t \in Tasks, Enable(t) PROVE QueueTypes'
  BY <1>9 DEF Enable
<1>10. CASE Wake \/ CheckRecording \/ TakeToken \/ RecorderDisable \/ RecorderPause
  BY <1>10 DEF Wake, CheckRecording, TakeToken, RecorderDisable, RecorderPause
<1>11. CASE Start \/ Notify \/ Stop \/ StopDisable \/ StopGive
  BY <1>11 DEF Start, Notify, Stop, StopDisable, StopGive
<1>12. CASE GetAudio
  <2>1. audio_queue # <<>>
    BY <1>12 DEF GetAudio
  <2>2. Head(audio_queue) \in Chunk /\ Tail(audio_queue) \in Seq(Chunk)
    BY <2>1, OldestChunk
  <2> QED BY <1>12, <2>2 DEF GetAudio
<1>13. CASE ReturnBuffer
  <2>1. PICK c \in held : /\ held' = held \ {c}
                          /\ empty_audio_queue' = Send(empty_audio_queue, c.buffer)
    BY <1>13 DEF ReturnBuffer
  <2>2. c.buffer \in Buffers
    BY DEF Chunk
  <2> QED BY <1>13, <2>1, <2>2 DEF ReturnBuffer, Send
<1>14. CASE GetAudioTimeout \/ ResetCount
  BY <1>14 DEF GetAudioTimeout, ResetCount, vars
<1>15. CASE Destroy \/ DestroyChannel
  BY <1>15 DEF Destroy, DestroyChannel
<1>16. CASE DestroyFree
  <2>1. ToSet(empty_audio_queue) \subseteq Buffers
    BY SeqRange
  <2>2. \A c \in ToSet(audio_queue) : c.buffer \in Buffers
    BY SeqRange DEF Chunk
  <2>3. freed' \subseteq Buffers
    BY <1>16, <2>1, <2>2 DEF DestroyFree, FillTypes
  <2> QED BY <1>16, <2>3 DEF DestroyFree
<1> QED BY <1>1, <1>2, <1>3, <1>4, <1>5, <1>6, <1>7, <1>8, <1>9, <1>10, <1>11, <1>12, <1>13,
           <1>14, <1>15, <1>16 DEF Next, Isr, Recorder, Client, Reset, Tasks

-----------------------------------------------------------------------------
\* A queue that holds each buffer at most once, and not buffer x, has room for
\* x: xQueueSend does not fail.
LEMMA Room ==
  ASSUME NEW q \in Seq(Buffers), IsInjective(q), NEW x \in Buffers, x \notin ToSet(q)
  PROVE  Len(q) < PoolSize
<1> DEFINE f == [i \in 1 .. Len(q) + 1 |-> IF i = Len(q) + 1 THEN x ELSE q[i]]
<1>1. Len(q) \in Nat /\ DOMAIN q = 1 .. Len(q) /\ \A i \in 1 .. Len(q) : q[i] \in Buffers
  OBVIOUS
<1>2. f \in [1 .. Len(q) + 1 -> Buffers]
  BY <1>1
<1>3. ASSUME NEW i \in 1 .. Len(q) + 1, NEW j \in 1 .. Len(q) + 1, i # j
      PROVE  f[i] # f[j]
  BY <1>1, <1>3 DEF IsInjective, ToSet
<1>4. /\ IsFiniteSet(Buffers) /\ Cardinality(Buffers) = PoolSize
      /\ IsFiniteSet(1 .. Len(q) + 1) /\ Cardinality(1 .. Len(q) + 1) = Len(q) + 1
  BY <1>1, FS_Interval, PoolAssumption DEF Buffers
<1>5. ~(Cardinality(Buffers) < Cardinality(1 .. Len(q) + 1))
  <2> SUFFICES ASSUME Cardinality(Buffers) < Cardinality(1 .. Len(q) + 1) PROVE FALSE
    OBVIOUS
  <2> HIDE DEF f
  <2>1. \E i, j \in 1 .. Len(q) + 1 : i # j /\ f[i] = f[j]
    BY <1>2, <1>4, FS_PigeonHole
  <2> QED BY <2>1, <1>3
<1> QED BY <1>1, <1>4, <1>5, PoolAssumption

\* Receiving moves the oldest buffer out of the queue's contents, ...
LEMMA Received ==
  ASSUME NEW q \in Seq(Buffers), q # <<>>, IsInjective(q)
  PROVE  /\ Head(q) \in ToSet(q) /\ Head(q) \in Buffers
         /\ IsInjective(Tail(q))
         /\ ToSet(Tail(q)) = ToSet(q) \ {Head(q)}
<1>1. /\ Len(q) \in Nat /\ Len(q) > 0 /\ Head(q) = q[1] /\ Head(q) \in Buffers
      /\ DOMAIN q = 1 .. Len(q) /\ DOMAIN Tail(q) = 1 .. Len(q) - 1
      /\ \A i \in 1 .. Len(q) - 1 : Tail(q)[i] = q[i + 1]
      /\ ToSet(q) = {Head(q)} \cup ToSet(Tail(q))
  BY TailFacts
<1>2. IsInjective(Tail(q))
  BY <1>1 DEF IsInjective
<1>3. \A i \in 1 .. Len(q) - 1 : Tail(q)[i] # Head(q)
  BY <1>1 DEF IsInjective
<1>4. Head(q) \notin ToSet(Tail(q))
  BY <1>1, <1>3 DEF ToSet
<1> QED BY <1>1, <1>2, <1>4

\* ... and sending moves a buffer from elsewhere into them.
LEMMA Appended ==
  ASSUME NEW q \in Seq(Buffers), IsInjective(q), NEW x \in Buffers, x \notin ToSet(q)
  PROVE  /\ IsInjective(Append(q, x))
         /\ ToSet(Append(q, x)) = ToSet(q) \cup {x}
<1>1. /\ Len(q) \in Nat /\ DOMAIN q = 1 .. Len(q)
      /\ DOMAIN Append(q, x) = 1 .. Len(q) + 1
      /\ Append(q, x)[Len(q) + 1] = x
      /\ \A i \in 1 .. Len(q) : Append(q, x)[i] = q[i]
      /\ ToSet(Append(q, x)) = ToSet(q) \cup {x}
  BY AppendFacts
<1>2. \A i \in 1 .. Len(q) : q[i] # x
  BY <1>1 DEF ToSet
<1>3. IsInjective(Append(q, x))
  BY <1>1, <1>2 DEF IsInjective
<1> QED BY <1>1, <1>3

LEMMA Sent ==
  ASSUME NEW q \in Seq(Buffers), IsInjective(q), NEW x \in Buffers, x \notin ToSet(q)
  PROVE  /\ IsInjective(Send(q, x))
         /\ ToSet(Send(q, x)) = ToSet(q) \cup {x}
BY Room, Appended DEF Send

\* The queue of full chunks, seen as a queue of buffers.
LEMMA BuffersOfFacts ==
  ASSUME NEW q \in Seq(Chunk)
  PROVE  /\ BuffersOf(q) \in Seq(Buffers) /\ Len(BuffersOf(q)) = Len(q)
         /\ q # <<>> => /\ BuffersOf(q) # <<>>
                        /\ Head(BuffersOf(q)) = Head(q).buffer
                        /\ BuffersOf(Tail(q)) = Tail(BuffersOf(q))
         /\ \A c \in Chunk : BuffersOf(Append(q, c)) = Append(BuffersOf(q), c.buffer)
<1> DEFINE f == [c \in Chunk |-> c.buffer]
<1>1. f \in [Chunk -> Buffers] /\ \A c \in Chunk : f[c] = c.buffer
  BY ChunkFields
<1>2. ASSUME NEW s \in Seq(Chunk) PROVE BuffersOf(s) = Mapped(s, f)
  <2>1. \A i \in DOMAIN s : s[i] \in Chunk
    OBVIOUS
  <2> HIDE DEF f
  <2> QED BY <1>1, <2>1 DEF BuffersOf, Mapped
<1>3. /\ q # <<>> => Head(q) \in Chunk /\ Tail(q) \in Seq(Chunk)
      /\ \A c \in Chunk : Append(q, c) \in Seq(Chunk)
  BY TailFacts, AppendFacts
<1> HIDE DEF f
<1>4. Mapped(q, f) \in Seq(Buffers) /\ Len(Mapped(q, f)) = Len(q)
  <2>1. Mapped(q, f) \in Seq(Buffers)
    BY <1>1, MappedType
  <2>2. DOMAIN Mapped(q, f) = DOMAIN q
    BY DEF Mapped
  <2> QED BY <2>1, <2>2
<1>5. ASSUME q # <<>>
      PROVE  /\ Mapped(q, f) # <<>> /\ Head(Mapped(q, f)) = f[Head(q)]
             /\ Mapped(Tail(q), f) = Tail(Mapped(q, f))
  BY <1>1, <1>5, MappedTail
<1>6. BuffersOf(q) = Mapped(q, f)
  BY <1>2
<1>7. q # <<>> => BuffersOf(Tail(q)) = Mapped(Tail(q), f) /\ f[Head(q)] = Head(q).buffer
  BY <1>1, <1>2, <1>3
<1>8. ASSUME NEW c \in Chunk PROVE BuffersOf(Append(q, c)) = Append(BuffersOf(q), c.buffer)
  <2>1. Mapped(Append(q, c), f) = Append(Mapped(q, f), f[c])
    BY <1>1, MappedAppend
  <2> QED BY <2>1, <1>1, <1>2, <1>3, <1>6
<1> QED BY <1>4, <1>5, <1>6, <1>7, <1>8

\* The same two facts about the queue of full chunks.
LEMMA ReceivedChunk ==
  ASSUME QueueTypes, audio_queue # <<>>, IsInjective(BuffersOf(audio_queue))
  PROVE  /\ Head(audio_queue).buffer \in InAudio
         /\ IsInjective(BuffersOf(Tail(audio_queue)))
         /\ ToSet(BuffersOf(Tail(audio_queue))) = InAudio \ {Head(audio_queue).buffer}
<1>1. /\ BuffersOf(audio_queue) \in Seq(Buffers) /\ BuffersOf(audio_queue) # <<>>
      /\ Head(BuffersOf(audio_queue)) = Head(audio_queue).buffer
      /\ BuffersOf(Tail(audio_queue)) = Tail(BuffersOf(audio_queue))
  BY BuffersOfFacts DEF QueueTypes
<1> QED BY <1>1, Received DEF InAudio

LEMMA SentChunk ==
  ASSUME QueueTypes, IsInjective(BuffersOf(audio_queue)),
         NEW c \in Chunk, c.buffer \notin InAudio
  PROVE  /\ IsInjective(BuffersOf(Send(audio_queue, c)))
         /\ ToSet(BuffersOf(Send(audio_queue, c))) = InAudio \cup {c.buffer}
         /\ Send(audio_queue, c) = Append(audio_queue, c)
<1>1. /\ BuffersOf(audio_queue) \in Seq(Buffers)
      /\ Len(BuffersOf(audio_queue)) = Len(audio_queue)
      /\ BuffersOf(Append(audio_queue, c)) = Append(BuffersOf(audio_queue), c.buffer)
  BY BuffersOfFacts DEF QueueTypes
<1>2. c.buffer \in Buffers
  BY ChunkFields
<1>3. Len(audio_queue) < PoolSize
  BY <1>1, <1>2, Room DEF InAudio
<1>4. /\ Send(audio_queue, c) = Append(audio_queue, c)
      /\ Send(BuffersOf(audio_queue), c.buffer) = Append(BuffersOf(audio_queue), c.buffer)
  BY <1>1, <1>3 DEF Send
<1>5. /\ IsInjective(Send(BuffersOf(audio_queue), c.buffer))
      /\ ToSet(Send(BuffersOf(audio_queue), c.buffer)) = ToSet(BuffersOf(audio_queue)) \cup {c.buffer}
  <2>1. c.buffer \notin ToSet(BuffersOf(audio_queue))
    BY DEF InAudio
  <2> HIDE DEF BuffersOf
  <2> QED BY <1>1, <1>2, <2>1, Sent
<1>6. BuffersOf(Send(audio_queue, c)) = Send(BuffersOf(audio_queue), c.buffer)
  BY <1>1, <1>4
<1>7. InAudio = ToSet(BuffersOf(audio_queue))
  BY DEF InAudio
<1> QED BY <1>4, <1>5, <1>6, <1>7

-----------------------------------------------------------------------------
\* No alias and no leak are one fact: each buffer is in exactly one place.
Partition == NoAlias /\ NoLeak

\* A task in reset_buffers(), or about to enable the channel, has it disabled,
\* no handler runs and the driver still exists.
LEMMA ResetQuiet ==
  ASSUME PcTypes, Control, NEW t \in Tasks, pc[t] \in Resetting \cup {"enable"}
  PROVE  ~channel /\ pc["isr"] = "idle" /\ ~InWindow /\ pc["client"] # "dead"
BY DEF Control, Tasks, Resetting, Dying, InWindow, PcTypes

LEMMA PartitionSame ==
  ASSUME Partition, UNCHANGED <<queues, current_buffer, drained, held, freed>>,
         InWindow' <=> InWindow, pc'["client"] = "dead" <=> pc["client"] = "dead"
  PROVE  Partition'
BY DEF Partition, NoAlias, NoLeak, InAudio, InEmpty, InDrained, InHeld, Filling, queues

LEMMA PartitionStep ==
  ASSUME SafeTeardown, TypeOK, Control, Partition, Next
  PROVE  Partition'
<1> USE DEF TypeOK
<1>1. CASE IsrBlock
  <2>1. (InWindow' <=> InWindow) /\ pc'["client"] = pc["client"]
    BY <1>1 DEF IsrBlock, InWindow, PcTypes, Threads
  <2> QED BY <1>1, <2>1, PartitionSame DEF IsrBlock, queues
<1>2. CASE IsrPush
  <2> DEFINE c == [buffer |-> current_buffer, timestamp |-> current_timestamp]
  <2>1. c \in Chunk /\ c.buffer = current_buffer /\ current_buffer # NULL
    BY <1>2, ChunkFields DEF IsrPush, Goto, Control, FillTypes
  <2>2. pc["client"] # "dead" /\ ~InWindow /\ InWindow'
    BY <1>2 DEF IsrPush, Goto, Control, InWindow, PcTypes, Threads, SafeTeardown, Dying
  <2>3. Filling = {current_buffer} /\ Filling' = {}
    BY <2>1, <2>2 DEF Filling
  <2>4. current_buffer \notin InAudio /\ IsInjective(BuffersOf(audio_queue))
    BY <2>3 DEF Partition, NoAlias
  <2>5. /\ IsInjective(BuffersOf(audio_queue))'
        /\ InAudio' = InAudio \cup {current_buffer}
    BY <1>2, <2>1, <2>4, SentChunk DEF IsrPush, InAudio
  <2>6. UNCHANGED <<InEmpty, InDrained, InHeld, empty_audio_queue, drained, held, freed>>
    BY <1>2 DEF IsrPush, InEmpty, InDrained, InHeld
  <2> QED BY <2>3, <2>5, <2>6 DEF Partition, NoAlias, NoLeak
<1>3. CASE IsrSwap
  <2>1. pc["client"] # "dead" /\ pc'["client"] = pc["client"]
    BY <1>3 DEF IsrSwap, Control, PcTypes, Threads, SafeTeardown, Dying
  <2>2. CASE empty_audio_queue = <<>>
    <3>1. InWindow' <=> InWindow
      BY <1>3, <2>2 DEF IsrSwap, InWindow, PcTypes, Threads
    <3> QED BY <1>3, <2>1, <2>2, <3>1, PartitionSame DEF IsrSwap, queues, fill
  <2>3. CASE empty_audio_queue # <<>>
    <3> DEFINE b == Head(empty_audio_queue)
    <3>1. /\ b \in InEmpty /\ b \in Buffers /\ IsInjective(empty_audio_queue)'
          /\ InEmpty' = InEmpty \ {b}
      BY <1>3, <2>3, Received DEF IsrSwap, QueueTypes, Partition, NoAlias, InEmpty
    <3>2. Filling = {} /\ Filling' = {b}
      BY <1>3, <2>1, <2>3, <3>1
         DEF IsrSwap, Install, Filling, InWindow, PcTypes, Threads, NULL, Buffers
    <3>3. UNCHANGED <<InAudio, InDrained, InHeld, audio_queue, drained, held, freed>>
      BY <1>3 DEF IsrSwap, InAudio, InDrained, InHeld
    <3> QED BY <3>1, <3>2, <3>3 DEF Partition, NoAlias, NoLeak
  <2> QED BY <2>2, <2>3
<1>4. CASE IsrSteal
  <2>1. pc["client"] # "dead" /\ pc'["client"] = pc["client"] /\ Filling = {} /\ ~InWindow'
    BY <1>4 DEF IsrSteal, Goto, Control, PcTypes, Threads, SafeTeardown, Dying, InWindow, Filling
  <2>2. UNCHANGED <<InEmpty, InDrained, InHeld, empty_audio_queue, drained, held, freed>>
    BY <1>4 DEF IsrSteal, InEmpty, InDrained, InHeld
  <2>3. CASE audio_queue = <<>>
    <3>1. Filling' = {} /\ audio_queue' = audio_queue /\ InAudio' = InAudio
      BY <1>4, <2>1, <2>3 DEF IsrSteal, Install, Victim, Filling, InAudio
    <3> QED BY <2>1, <2>2, <3>1 DEF Partition, NoAlias, NoLeak
  <2>4. CASE audio_queue # <<>>
    <3> DEFINE b == Head(audio_queue).buffer
    <3>1. /\ b \in InAudio /\ b \in Buffers /\ IsInjective(BuffersOf(audio_queue))'
          /\ InAudio' = InAudio \ {b}
      BY <1>4, <2>4, ReceivedChunk, OldestChunk DEF IsrSteal, Partition, NoAlias, InAudio
    <3>2. Filling' = {b}
      BY <1>4, <2>1, <2>4, <3>1 DEF IsrSteal, Install, Victim, Filling, NULL, Buffers
    <3> QED BY <2>1, <2>2, <3>1, <3>2 DEF Partition, NoAlias, NoLeak
  <2> QED BY <2>3, <2>4
<1>5. ASSUME NEW t \in Tasks, ResetBegin(t) PROVE Partition'
  <2>1. ~InWindow /\ pc["client"] # "dead" /\ drained = <<>>
    <3>1. pc[t] = "begin"
      BY <1>5 DEF ResetBegin, Goto
    <3>2. \A u \in Tasks : pc[u] \notin {"drain_audio", "drain_empty", "refill"}
      BY <3>1 DEF Control, Tasks, Resetting, PcTypes
    <3> QED BY <3>1, <3>2, ResetQuiet DEF Control, Resetting
  <2>2. Filling = {current_buffer} \ {NULL} /\ Filling' = {}
    BY <1>5, <2>1 DEF ResetBegin, Goto, Filling, InWindow, NULL
  <2>3. InDrained = {} /\ InDrained' = {current_buffer} \ {NULL} /\ IsInjective(drained)'
    BY <1>5, <2>1 DEF ResetBegin, Collected, InDrained, ToSet, IsInjective
  <2>4. UNCHANGED <<InAudio, InEmpty, InHeld, queues, held, freed>>
    BY <1>5 DEF ResetBegin, InAudio, InEmpty, InHeld, queues
  <2> QED BY <2>2, <2>3, <2>4 DEF Partition, NoAlias, NoLeak, queues
<1>6. ASSUME NEW t \in Tasks, DrainAudio(t) PROVE Partition'
  <2>1. ~InWindow /\ pc["client"] # "dead" /\ ~InWindow' /\ pc'["client"] # "dead"
    BY <1>6, ResetQuiet DEF DrainAudio, Resetting, Tasks, InWindow, PcTypes, Threads
  <2>2. CASE audio_queue = <<>>
    BY <1>6, <2>1, <2>2, PartitionSame DEF DrainAudio, fill, queues
  <2>3. CASE audio_queue # <<>>
    <3> DEFINE b == Head(audio_queue).buffer
    <3>1. /\ b \in InAudio /\ b \in Buffers /\ IsInjective(BuffersOf(audio_queue))'
          /\ InAudio' = InAudio \ {b}
      BY <1>6, <2>3, ReceivedChunk, OldestChunk DEF DrainAudio, Partition, NoAlias, InAudio
    <3>2. b \notin InDrained
      BY <3>1 DEF Partition, NoAlias
    <3>3. IsInjective(drained)' /\ InDrained' = InDrained \cup {b}
      BY <1>6, <2>3, <3>1, <3>2, Appended
         DEF DrainAudio, InDrained, QueueTypes, Partition, NoAlias
    <3>4. UNCHANGED <<Filling, InEmpty, InHeld, empty_audio_queue, held, freed>>
      BY <1>6, <2>1 DEF DrainAudio, Filling, InEmpty, InHeld, fill
    <3> QED BY <3>1, <3>3, <3>4 DEF Partition, NoAlias, NoLeak
  <2> QED BY <2>2, <2>3
<1>7. ASSUME NEW t \in Tasks, DrainEmpty(t) PROVE Partition'
  <2>1. ~InWindow /\ pc["client"] # "dead" /\ ~InWindow' /\ pc'["client"] # "dead"
    BY <1>7, ResetQuiet DEF DrainEmpty, Resetting, Tasks, InWindow, PcTypes, Threads
  <2>2. CASE empty_audio_queue = <<>>
    BY <1>7, <2>1, <2>2, PartitionSame DEF DrainEmpty, fill, queues
  <2>3. CASE empty_audio_queue # <<>>
    <3> DEFINE b == Head(empty_audio_queue)
    <3>1. /\ b \in InEmpty /\ b \in Buffers /\ IsInjective(empty_audio_queue)'
          /\ InEmpty' = InEmpty \ {b}
      BY <1>7, <2>3, Received DEF DrainEmpty, QueueTypes, Partition, NoAlias, InEmpty
    <3>2. b \notin InDrained
      BY <3>1 DEF Partition, NoAlias
    <3>3. IsInjective(drained)' /\ InDrained' = InDrained \cup {b}
      BY <1>7, <2>3, <3>1, <3>2, Appended
         DEF DrainEmpty, InDrained, QueueTypes, Partition, NoAlias
    <3>4. UNCHANGED <<Filling, InAudio, InHeld, audio_queue, held, freed>>
      BY <1>7, <2>1 DEF DrainEmpty, Filling, InAudio, InHeld, fill
    <3> QED BY <3>1, <3>3, <3>4 DEF Partition, NoAlias, NoLeak
  <2> QED BY <2>2, <2>3
<1>8. ASSUME NEW t \in Tasks, Refill(t) PROVE Partition'
  <2>1. ~InWindow /\ pc["client"] # "dead" /\ ~InWindow' /\ pc'["client"] # "dead"
    BY <1>8, ResetQuiet DEF Refill, Resetting, Tasks, InWindow, PcTypes, Threads
  <2>2. CASE drained = <<>>
    BY <1>8, <2>1, <2>2, PartitionSame DEF Refill, fill, queues
  <2>3. CASE drained # <<>>
    <3> DEFINE b == Head(drained)
    <3>1. /\ b \in InDrained /\ b \in Buffers /\ IsInjective(drained)'
          /\ InDrained' = InDrained \ {b}
      BY <1>8, <2>3, Received DEF Refill, QueueTypes, Partition, NoAlias, InDrained
    <3>2. b \notin InEmpty
      BY <3>1 DEF Partition, NoAlias
    <3>3. IsInjective(empty_audio_queue)' /\ InEmpty' = InEmpty \cup {b}
      BY <1>8, <2>3, <3>1, <3>2, Sent DEF Refill, InEmpty, QueueTypes, Partition, NoAlias
    <3>4. UNCHANGED <<Filling, InAudio, InHeld, audio_queue, held, freed>>
      BY <1>8, <2>1 DEF Refill, Filling, InAudio, InHeld, fill
    <3> QED BY <3>1, <3>3, <3>4 DEF Partition, NoAlias, NoLeak
  <2> QED BY <2>2, <2>3
<1>9. ASSUME NEW t \in Tasks, ResetEnd(t) PROVE Partition'
  <2>1. /\ ~InWindow /\ pc["client"] # "dead" /\ ~InWindow' /\ pc'["client"] # "dead"
        /\ current_buffer = NULL
    BY <1>9, ResetQuiet DEF ResetEnd, Goto, Resetting, Tasks, InWindow, PcTypes, Threads, Control
  <2>2. CASE empty_audio_queue = <<>>
    BY <1>9, <2>1, <2>2, PartitionSame DEF ResetEnd, queues
  <2>3. CASE empty_audio_queue # <<>>
    <3> DEFINE b == Head(empty_audio_queue)
    <3>1. /\ b \in InEmpty /\ b \in Buffers /\ IsInjective(empty_audio_queue)'
          /\ InEmpty' = InEmpty \ {b}
      BY <1>9, <2>3, Received DEF ResetEnd, QueueTypes, Partition, NoAlias, InEmpty
    <3>2. Filling = {} /\ Filling' = {b}
      BY <1>9, <2>1, <2>3, <3>1 DEF ResetEnd, Filling, NULL, Buffers
    <3>3. UNCHANGED <<InAudio, InDrained, InHeld, audio_queue, drained, held, freed>>
      BY <1>9 DEF ResetEnd, InAudio, InDrained, InHeld
    <3> QED BY <3>1, <3>2, <3>3 DEF Partition, NoAlias, NoLeak
  <2> QED BY <2>2, <2>3
<1>10. ASSUME NEW t \in Tasks, Enable(t) PROVE Partition'
  <2>1. ~InWindow /\ pc["client"] # "dead" /\ ~InWindow' /\ pc'["client"] # "dead"
    BY <1>10, ResetQuiet DEF Enable, Goto, Resetting, Tasks, InWindow, PcTypes, Threads
  <2> QED BY <1>10, <2>1, PartitionSame DEF Enable, queues
<1>11. CASE Wake \/ CheckRecording \/ TakeToken \/ RecorderDisable \/ RecorderPause
  <2>1. (InWindow' <=> InWindow) /\ pc'["client"] = pc["client"]
    BY <1>11 DEF Wake, CheckRecording, TakeToken, RecorderDisable, RecorderPause, Goto, InWindow,
                 PcTypes, Threads
  <2>2. UNCHANGED <<queues, current_buffer, drained, held, freed>>
    BY <1>11 DEF Wake, CheckRecording, TakeToken, RecorderDisable, RecorderPause, queues, fill
  <2> QED BY <2>1, <2>2, PartitionSame
<1>12. CASE Start \/ Notify \/ Stop \/ StopDisable \/ StopGive \/ Destroy \/ DestroyChannel
  <2>1. (InWindow' <=> InWindow) /\ pc["client"] # "dead" /\ pc'["client"] # "dead"
    BY <1>12 DEF Start, Notify, Stop, StopDisable, StopGive, Destroy, DestroyChannel, Goto,
                 InWindow, PcTypes, Threads
  <2>2. UNCHANGED <<queues, current_buffer, drained, held, freed>>
    BY <1>12 DEF Start, Notify, Stop, StopDisable, StopGive, Destroy, DestroyChannel, queues, fill
  <2> QED BY <2>1, <2>2, PartitionSame
<1>13. CASE GetAudioTimeout \/ ResetCount
  BY <1>13, PartitionSame DEF GetAudioTimeout, ResetCount, vars, queues, fill, InWindow
<1>14. CASE GetAudio
  <2> DEFINE c == Head(audio_queue)
  <2>1. /\ c.buffer \in InAudio /\ IsInjective(BuffersOf(audio_queue))'
        /\ InAudio' = InAudio \ {c.buffer}
    BY <1>14, ReceivedChunk DEF GetAudio, Partition, NoAlias, InAudio
  <2>2. c.buffer \notin InHeld /\ InHeld' = InHeld \cup {c.buffer} /\ held' = held \cup {c}
    BY <1>14, <2>1 DEF GetAudio, Partition, NoAlias, InHeld
  <2>3. \A d \in held : d.buffer # c.buffer
    BY <2>2 DEF InHeld
  <2>4. UNCHANGED <<Filling, InEmpty, InDrained, empty_audio_queue, drained, freed>>
    BY <1>14 DEF GetAudio, Filling, InEmpty, InDrained, InWindow, fill
  <2> QED BY <2>1, <2>2, <2>3, <2>4 DEF Partition, NoAlias, NoLeak
<1>15. CASE ReturnBuffer
  <2>1. PICK c \in held : /\ held' = held \ {c}
                          /\ empty_audio_queue' = Send(empty_audio_queue, c.buffer)
    BY <1>15 DEF ReturnBuffer
  <2>2. c.buffer \in Buffers /\ c.buffer \in InHeld
    BY ChunkFields DEF QueueTypes, InHeld
  <2>3. InHeld' = InHeld \ {c.buffer}
    BY <2>1 DEF InHeld, Partition, NoAlias
  <2>4. c.buffer \notin InEmpty
    BY <2>2 DEF Partition, NoAlias
  <2>5. IsInjective(empty_audio_queue)' /\ InEmpty' = InEmpty \cup {c.buffer}
    BY <2>1, <2>2, <2>4, Sent DEF InEmpty, QueueTypes, Partition, NoAlias
  <2>6. UNCHANGED <<Filling, InAudio, InDrained, audio_queue, drained, freed>>
    BY <1>15 DEF ReturnBuffer, Filling, InAudio, InDrained, InWindow, fill
  <2> QED BY <2>1, <2>2, <2>3, <2>5, <2>6 DEF Partition, NoAlias, NoLeak
<1>16. CASE DestroyFree
  <2>1. ~InWindow /\ pc["client"] # "dead" /\ freed = {} /\ pc'["client"] = "dead"
    BY <1>16 DEF DestroyFree, Goto, Control, Dying, InWindow, PcTypes, Threads
  <2>2. Filling = {current_buffer} \ {NULL} /\ Filling' = {}
    BY <2>1 DEF Filling
  <2>3. /\ InAudio' = {} /\ IsInjective(BuffersOf(audio_queue))'
        /\ InEmpty' = {} /\ IsInjective(empty_audio_queue)'
    BY <1>16 DEF DestroyFree, InAudio, InEmpty, BuffersOf, ToSet, IsInjective
  <2>4. {c.buffer : c \in ToSet(audio_queue)} = InAudio
    BY DEF InAudio, BuffersOf, ToSet
  <2>5. freed' = Filling \cup InEmpty \cup InAudio
    BY <1>16, <2>2, <2>4 DEF DestroyFree, InEmpty
  <2>6. UNCHANGED <<InDrained, InHeld, drained, held>>
    BY <1>16 DEF DestroyFree, InDrained, InHeld
  <2> QED BY <2>1, <2>2, <2>3, <2>5, <2>6 DEF Partition, NoAlias, NoLeak
<1> QED BY <1>1, <1>2, <1>3, <1>4, <1>5, <1>6, <1>7, <1>8, <1>9, <1>10, <1>11, <1>12, <1>13,
           <1>14, <1>15, <1>16 DEF Next, Isr, Recorder, Client, Reset, Tasks

-----------------------------------------------------------------------------
Exposed == held \cup ToSet(audio_queue)

\* Steps that leave the recording alone and expose no new chunk.
LEMMA SoundSame ==
  ASSUME Sound, UNCHANGED <<fill, sound>>, Exposed' \subseteq Exposed,
         pc'["isr"] = pc["isr"], channel' => channel,
         \A t \in Tasks : pc'[t] = "enable" => pc[t] = "enable"
  PROVE  Sound'
BY DEF Sound, ChunkIntact, Exposed, fill, sound, InWindow

\* An enabled channel has a driver.
LEMMA ChannelAlive ==
  ASSUME SafeTeardown, Control, channel
  PROVE  pc["client"] # "dead" /\ \A t \in Tasks : pc[t] # "enable"
BY DEF Control, Dying, Tasks, SafeTeardown

LEMMA SoundStep ==
  ASSUME SafeTeardown, TypeOK, Control, Partition, Sound, Next
  PROVE  Sound'
<1> USE PoolAssumption DEF TypeOK
<1>1. CASE IsrBlock
  <2>1. /\ channel /\ pc["isr"] = "idle" /\ ~InWindow /\ pc["client"] # "dead"
        /\ current_buffer \in Buffers /\ samples_collected + 1 \in 1 .. ChunkBlocks
        /\ \A t \in Tasks : pc[t] # "enable"
    BY <1>1, ChannelAlive DEF IsrBlock, InWindow, FillTypes, Sound
  <2>2. \A c \in Exposed : c.buffer # current_buffer
    <3>1. Filling = {current_buffer}
      BY <2>1 DEF Filling, NULL, Buffers
    <3>2. \A c \in held : c.buffer # current_buffer
      BY <3>1 DEF Partition, NoAlias, InHeld
    <3>3. \A c \in ToSet(audio_queue) : c.buffer \in InAudio
      BY DEF InAudio, BuffersOf, ToSet
    <3> QED BY <3>1, <3>2, <3>3 DEF Exposed, Partition, NoAlias
  <2>3. /\ \A b \in Buffers \ {current_buffer} : data'[b] = data[b]
        /\ data'[current_buffer][samples_collected + 1] = now + 1
        /\ \A i \in 1 .. samples_collected :
             data'[current_buffer][i] = data[current_buffer][i]
    BY <1>1, <2>1 DEF IsrBlock, FillTypes
  <2>4. Exposed' = Exposed /\ \A c \in Exposed : c.buffer \in Buffers
    BY <1>1, SeqRange, ChunkFields DEF IsrBlock, Exposed, queues, QueueTypes
  <2>5. ChunkIntact'
    BY <2>2, <2>3, <2>4 DEF Sound, ChunkIntact, Exposed
  <2>6. now' = now + 1 /\ samples_collected' = samples_collected + 1
        /\ UNCHANGED <<current_timestamp, current_buffer>>
    BY <1>1 DEF IsrBlock
  <2>7. \A i \in 1 .. samples_collected' : data'[current_buffer][i] = current_timestamp + i
    <3>1. /\ now = current_timestamp + samples_collected
          /\ \A i \in 1 .. samples_collected :
               data[current_buffer][i] = current_timestamp + i
      BY <2>1 DEF Sound, NULL, Buffers
    <3>2. /\ samples_collected \in Nat /\ current_timestamp \in Nat
          /\ samples_collected' = samples_collected + 1
      BY <2>6 DEF FillTypes
    <3>3. ASSUME NEW i \in 1 .. samples_collected + 1
          PROVE  data'[current_buffer][i] = current_timestamp + i
      <4>1. CASE i = samples_collected + 1
        BY <4>1, <3>1, <3>2, <2>3
      <4>2. CASE i # samples_collected + 1
        <5>1. i \in 1 .. samples_collected
          BY <4>2, <3>2
        <5> QED BY <5>1, <3>1, <2>3
      <4> QED BY <4>1, <4>2
    <3> QED BY <3>2, <3>3
  <2>8. /\ pc'["isr"] = IF samples_collected + 1 >= ChunkBlocks THEN "push" ELSE "idle"
        /\ \A t \in Tasks : pc'[t] = pc[t]
    BY <1>1 DEF IsrBlock, PcTypes, Threads, Tasks
  <2> QED BY <2>1, <2>5, <2>6, <2>7, <2>8 DEF Sound, FillTypes
<1>2. CASE IsrPush
  <2> DEFINE c == [buffer |-> current_buffer, timestamp |-> current_timestamp]
  <2>1. /\ channel /\ current_buffer # NULL /\ ~InWindow /\ samples_collected = ChunkBlocks
        /\ c \in Chunk
    BY <1>2, ChunkFields DEF IsrPush, Goto, Control, InWindow, Sound, FillTypes
  <2>2. \A i \in 1 .. ChunkBlocks : data[c.buffer][i] = c.timestamp + i
    BY <2>1 DEF Sound
  <2>3. Exposed' \subseteq Exposed \cup {c}
    BY <1>2, <2>1, AppendFacts DEF IsrPush, Send, Exposed, QueueTypes
  <2>4. ChunkIntact'
    BY <1>2, <2>2, <2>3 DEF IsrPush, Sound, ChunkIntact, Exposed, sound
  <2>5. pc'["isr"] = "swap" /\ \A t \in Tasks : pc'[t] = pc[t]
    BY <1>2 DEF IsrPush, Goto, PcTypes, Threads, Tasks
  <2> QED BY <1>2, <2>1, <2>4, <2>5 DEF IsrPush, Sound, fill, sound, ctrl, InWindow
<1>3. CASE IsrSwap
  <2>1. Exposed' = Exposed /\ UNCHANGED sound /\ \A t \in Tasks : pc'[t] = pc[t]
    BY <1>3 DEF IsrSwap, Exposed, PcTypes, Threads, Tasks
  <2>2. ChunkIntact'
    BY <2>1 DEF Sound, ChunkIntact, Exposed, sound
  <2>3. CASE empty_audio_queue # <<>>
    <3>1. /\ samples_collected' = 0 /\ current_timestamp' = now /\ pc'["isr"] = "idle"
      BY <1>3, <2>3 DEF IsrSwap, Install, PcTypes, Threads
    <3> QED BY <2>1, <2>2, <3>1 DEF Sound, sound, FillTypes
  <2>4. CASE empty_audio_queue = <<>>
    <3>1. pc'["isr"] = "steal" /\ UNCHANGED <<fill, channel>> /\ pc["isr"] = "swap"
      BY <1>3, <2>4 DEF IsrSwap, PcTypes, Threads
    <3> QED BY <2>1, <2>2, <3>1 DEF Sound, sound, fill, InWindow
  <2> QED BY <2>3, <2>4
<1>4. CASE IsrSteal
  <2>1. ToSet(audio_queue') \subseteq ToSet(audio_queue)
    BY <1>4, TailFacts DEF IsrSteal, QueueTypes
  <2>2. ChunkIntact'
    BY <1>4, <2>1 DEF IsrSteal, Sound, ChunkIntact, sound
  <2>3. /\ samples_collected' = 0 /\ current_timestamp' = now /\ now' = now
        /\ pc'["isr"] = "idle" /\ \A t \in Tasks : pc'[t] = pc[t]
    BY <1>4 DEF IsrSteal, Install, Goto, sound, PcTypes, Threads, Tasks
  <2> QED BY <2>2, <2>3 DEF Sound, FillTypes
<1>5. ASSUME NEW t \in Tasks, ResetBegin(t) \/ ResetEnd(t) PROVE Sound'
  <2>1. ~channel /\ pc["isr"] = "idle"
    BY <1>5, ResetQuiet DEF ResetBegin, ResetEnd, Goto, Resetting
  <2>2. ~channel' /\ pc'["isr"] = "idle"
    BY <1>5, <2>1 DEF ResetBegin, ResetEnd, Goto, ctrl, PcTypes, Threads, Tasks
  <2>3. ChunkIntact'
    BY <1>5 DEF ResetBegin, ResetEnd, Sound, ChunkIntact, sound, queues
  <2>4. CASE ResetBegin(t)
    <3>1. \A u \in Tasks : pc'[u] = "enable" => pc[u] = "enable"
      BY <2>4 DEF ResetBegin, Goto, PcTypes, Threads, Tasks
    <3> QED BY <2>1, <2>2, <2>3, <2>4, <3>1 DEF ResetBegin, Sound
  <2>5. CASE ResetEnd(t)
    BY <2>2, <2>3, <2>5 DEF ResetEnd, Sound
  <2> QED BY <1>5, <2>4, <2>5
<1>6. ASSUME NEW t \in Tasks, DrainAudio(t) \/ DrainEmpty(t) \/ Refill(t) PROVE Sound'
  <2>1. pc'["isr"] = pc["isr"] /\ \A u \in Tasks : pc'[u] = "enable" => pc[u] = "enable"
    BY <1>6 DEF DrainAudio, DrainEmpty, Refill, PcTypes, Threads, Tasks
  <2>2. UNCHANGED <<fill, sound, channel, held>>
    BY <1>6 DEF DrainAudio, DrainEmpty, Refill, ctrl
  <2>3. ToSet(audio_queue') \subseteq ToSet(audio_queue)
    BY <1>6, TailFacts DEF DrainAudio, DrainEmpty, Refill, QueueTypes
  <2> QED BY <2>1, <2>2, <2>3, SoundSame DEF Exposed
<1>7. ASSUME NEW t \in Tasks, Enable(t) PROVE Sound'
  <2>1. pc[t] = "enable" /\ samples_collected = 0 /\ pc["isr"] = "idle"
    BY <1>7, ResetQuiet DEF Enable, Goto, Sound
  <2>2. /\ samples_collected' = 0 /\ current_timestamp' = now + 1 /\ now' = now + 1
        /\ pc'["isr"] = "idle"
    BY <1>7, <2>1 DEF Enable, Goto, Stamp, PcTypes, Threads, Tasks
  <2>3. ChunkIntact'
    BY <1>7 DEF Enable, Sound, ChunkIntact, queues
  <2> QED BY <2>2, <2>3 DEF Sound, FillTypes
<1>8. CASE Wake \/ CheckRecording \/ TakeToken \/ RecorderDisable \/ RecorderPause
  <2>1. pc'["isr"] = pc["isr"] /\ \A u \in Tasks : pc'[u] = "enable" => pc[u] = "enable"
    BY <1>8 DEF Wake, CheckRecording, TakeToken, RecorderDisable, RecorderPause, Goto, PcTypes,
                Threads, Tasks
  <2>2. UNCHANGED <<fill, sound, queues, held>> /\ (channel' => channel)
    BY <1>8 DEF Wake, CheckRecording, TakeToken, RecorderDisable, RecorderPause, ctrl
  <2>3. Exposed' \subseteq Exposed
    BY <2>2 DEF Exposed, queues
  <2> QED BY <2>1, <2>2, <2>3, SoundSame
<1>9. CASE Start \/ Notify \/ Stop \/ StopDisable \/ StopGive \/ Destroy \/ DestroyChannel
  <2>1. pc'["isr"] = pc["isr"] /\ \A u \in Tasks : pc'[u] = "enable" => pc[u] = "enable"
    BY <1>9 DEF Start, Notify, Stop, StopDisable, StopGive, Destroy, DestroyChannel, Goto,
                PcTypes, Threads, Tasks
  <2>2. UNCHANGED <<fill, sound, queues, held>> /\ (channel' => channel)
    BY <1>9 DEF Start, Notify, Stop, StopDisable, StopGive, Destroy, DestroyChannel, ctrl
  <2>3. Exposed' \subseteq Exposed
    BY <2>2 DEF Exposed, queues
  <2> QED BY <2>1, <2>2, <2>3, SoundSame
<1>10. CASE GetAudio
  <2>1. Exposed' \subseteq Exposed
    BY <1>10, TailFacts DEF GetAudio, Exposed, QueueTypes
  <2>2. UNCHANGED <<fill, sound, channel, pc>>
    BY <1>10 DEF GetAudio, ctrl
  <2> QED BY <2>1, <2>2, SoundSame
<1>11. CASE ReturnBuffer \/ GetAudioTimeout \/ ResetCount
  <2>1. Exposed' \subseteq Exposed
    BY <1>11 DEF ReturnBuffer, GetAudioTimeout, ResetCount, Exposed, queues, vars
  <2>2. UNCHANGED <<fill, sound, channel, pc>>
    BY <1>11 DEF ReturnBuffer, GetAudioTimeout, ResetCount, ctrl, vars
  <2> QED BY <2>1, <2>2, SoundSame
<1>12. CASE DestroyFree
  <2>1. pc'["isr"] = pc["isr"] /\ \A u \in Tasks : pc'[u] = "enable" => pc[u] = "enable"
    BY <1>12 DEF DestroyFree, Goto, PcTypes, Threads, Tasks
  <2>2. Exposed' \subseteq Exposed
    BY <1>12 DEF DestroyFree, Exposed, ToSet
  <2> QED BY <1>12, <2>1, <2>2, SoundSame DEF DestroyFree, ctrl
<1> QED BY <1>1, <1>2, <1>3, <1>4, <1>5, <1>6, <1>7, <1>8, <1>9, <1>10, <1>11, <1>12
        DEF Next, Isr, Recorder, Client, Reset, Tasks

-----------------------------------------------------------------------------
LEMMA InitInv == Init => IInv
<1> SUFFICES ASSUME Init PROVE IInv
  OBVIOUS
<1> USE PoolAssumption DEF Init
<1>1. TypeOK
  <2>1. QueueTypes
    BY DEF QueueTypes, Buffers
  <2>2. FillTypes
    BY DEF FillTypes, Buffers, NULL
  <2>3. PcTypes
    BY DEF PcTypes, Threads, IsrPcs, RecorderPcs, ClientPcs
  <2>4. FlagTypes
    BY DEF FlagTypes
  <2>5. CountTypes
    BY DEF CountTypes
  <2> HIDE DEF Init
  <2> QED BY <2>1, <2>2, <2>3, <2>4, <2>5 DEF TypeOK
<1>2. Control
  BY DEF Control, Threads, Tasks, Resetting, Dying
<1>3. Sound
  BY DEF Sound, ChunkIntact, ToSet, InWindow, Threads, Tasks
<1>4. /\ InAudio = {} /\ InDrained = {} /\ InHeld = {} /\ freed = {}
      /\ Filling = {1} /\ InEmpty = 2 .. PoolSize
  <2>1. Filling = {1}
    BY DEF Filling, NULL, InWindow, Threads
  <2>2. DOMAIN empty_audio_queue = 1 .. PoolSize - 1
    OBVIOUS
  <2>3. ASSUME NEW b \in 2 .. PoolSize PROVE b \in InEmpty
    <3>1. b - 1 \in 1 .. PoolSize - 1 /\ empty_audio_queue[b - 1] = b
      OBVIOUS
    <3> QED BY <3>1, <2>2 DEF InEmpty, ToSet
  <2>4. InEmpty \subseteq 2 .. PoolSize
    BY <2>2 DEF InEmpty, ToSet
  <2>5. InEmpty = 2 .. PoolSize
    BY <2>3, <2>4
  <2>6. InAudio = {} /\ InDrained = {} /\ InHeld = {} /\ freed = {}
    BY DEF InAudio, InDrained, InHeld, BuffersOf, ToSet
  <2> HIDE DEF Init
  <2> QED BY <2>1, <2>5, <2>6
<1>5. /\ IsInjective(BuffersOf(audio_queue)) /\ IsInjective(drained)
      /\ IsInjective(empty_audio_queue)
  BY DEF IsInjective, BuffersOf
<1>6. NoAlias /\ NoLeak
  BY <1>4, <1>5 DEF NoAlias, NoLeak, Buffers
<1> QED BY <1>1, <1>2, <1>3, <1>6 DEF IInv

\* The strengthening is inductive: each part only needs the parts named.
LEMMA InductiveStep ==
  ASSUME SafeTeardown, IInv, [Next]_vars
  PROVE  IInv'
<1>1. CASE Next
  <2>1. TypeOK'
    BY <1>1, QueueStep, FillStep, FlagStep, PcStep, CountStep DEF IInv, TypeOK
  <2>2. Control' /\ Sound' /\ Partition'
    BY <1>1, ControlStep, SoundStep, PartitionStep DEF IInv, Partition
  <2> QED BY <2>1, <2>2 DEF IInv, Partition
<1>2. CASE UNCHANGED vars
  <2>1. TypeOK'
    BY <1>2 DEF IInv, vars, queues, fill, sound, ctrl, count, bounds,
         TypeOK, QueueTypes, FillTypes, FlagTypes, PcTypes, CountTypes
  <2>2. Control'
    BY <1>2 DEF IInv, vars, queues, fill, ctrl, Control
  <2>3. Sound'
    BY <1>2 DEF IInv, vars, queues, fill, sound, ctrl, Sound, ChunkIntact, InWindow, Filling
  <2>4. Partition'
    <3>1. /\ UNCHANGED <<queues, current_buffer, drained, held, freed>>
          /\ InWindow' <=> InWindow
          /\ pc'["client"] = "dead" <=> pc["client"] = "dead"
      BY <1>2 DEF vars, queues, fill, ctrl, InWindow
    <3> QED BY <3>1, PartitionSame DEF IInv, Partition
  <2> QED BY <2>1, <2>2, <2>3, <2>4 DEF IInv, Partition
<1> QED BY <1>1, <1>2

LEMMA Invariance ==
  ASSUME SafeTeardown
  PROVE  Spec => []IInv
<1>1. Init => IInv
  BY InitInv
<1>2. IInv /\ [Next]_vars => IInv'
  BY InductiveStep
<1> QED BY <1>1, <1>2, PTL DEF Spec

\* Type correctness of the driver (i2s_microphone.cpp): in particular
\* samples_collected_ never exceeds the buffer the interrupt copies to.
THEOREM TypeCorrect ==
  ASSUME SafeTeardown
  PROVE  Spec => []TypeOK
BY Invariance, PTL DEF IInv

\* The buffer pool of i2s_microphone.cpp is sound for every pool and chunk
\* size, with a recorder or without: no two of the interrupt handler, the
\* queues, reset_buffers() and the client ever own the same buffer.
THEOREM PoolSafe ==
  ASSUME SafeTeardown
  PROVE  Spec => []NoAlias
BY Invariance, PTL DEF IInv

\* No buffer is ever lost, so ignoring the result of xQueueSend is safe.
THEOREM PoolComplete ==
  ASSUME SafeTeardown
  PROVE  Spec => []NoLeak
BY Invariance, PTL DEF IInv

\* What get_audio() hands out is one gapless recording with the right
\* timestamp, however the interrupt, the recorder and the client interleave.
THEOREM ChunksIntact ==
  ASSUME SafeTeardown
  PROVE  Spec => []ChunkIntact
BY Invariance, PTL DEF IInv, Sound

\* reset_buffers() runs with the interrupt off and never twice at once.
THEOREM ResetExclusive ==
  ASSUME SafeTeardown
  PROVE  Spec => []ResetAlone
<1>1. IInv => ResetAlone
  BY ResetQuiet DEF IInv, TypeOK, ResetAlone, Control, Tasks, Resetting, Dying
<1> QED BY <1>1, Invariance, PTL

-----------------------------------------------------------------------------
(***************************************************************************)
(* The destructor.                                                         *)
(***************************************************************************)
\* It is called without handles, and at its end no queue holds a buffer.
Destroyed ==
  /\ pc["client"] \in Dying => held = {}
  /\ pc["client"] = "dead" => audio_queue = <<>> /\ empty_audio_queue = <<>>

LEMMA DestroyedStep ==
  ASSUME SafeTeardown, TypeOK, Control, Destroyed, Next
  PROVE  Destroyed'
<1> USE DEF TypeOK, PcTypes, Destroyed, Dying
<1>1. CASE Isr
  <2>1. channel /\ UNCHANGED held /\ pc'["client"] = pc["client"]
    BY <1>1 DEF Isr, IsrBlock, IsrPush, IsrSwap, IsrSteal, Goto, Control, Threads
  <2>2. pc["client"] # "dead"
    BY <2>1 DEF Control, SafeTeardown
  <2> QED BY <2>1, <2>2
<1>2. CASE Recorder \/ Reset("client")
  <2>1. UNCHANGED held /\ pc["client"] \notin Dying
    BY <1>2 DEF Recorder, Wake, CheckRecording, TakeToken, RecorderDisable, RecorderPause,
            Reset, ResetBegin, DrainAudio, DrainEmpty, Refill, ResetEnd, Enable, Goto, Control
  <2>2. pc'["client"] \notin Dying
    BY <1>2, <2>1 DEF Recorder, Wake, CheckRecording, TakeToken, RecorderDisable, RecorderPause,
            Reset, ResetBegin, DrainAudio, DrainEmpty, Refill, ResetEnd, Enable, Goto, Threads
  <2> QED BY <2>1, <2>2
<1>3. CASE Start \/ Notify \/ Stop \/ StopDisable \/ StopGive
  BY <1>3 DEF Start, Notify, Stop, StopDisable, StopGive, Goto, Threads
<1>4. CASE GetAudio \/ GetAudioTimeout \/ ReturnBuffer \/ ResetCount
  BY <1>4 DEF GetAudio, GetAudioTimeout, ReturnBuffer, ResetCount, ClientQueueCall, vars
<1>5. CASE Destroy \/ DestroyChannel
  BY <1>5 DEF Destroy, DestroyChannel, Goto, Threads
<1>6. CASE DestroyFree
  BY <1>6 DEF DestroyFree, Goto, Threads
<1> QED BY <1>1, <1>2, <1>3, <1>4, <1>5, <1>6 DEF Next, Client

\* The destructor of the driver (i2s_microphone.hpp:121) leaves no interrupt
\* enabled and frees each buffer of the pool, whether it is called while
\* recording, while the interrupt runs or after stop().
THEOREM DestructorComplete ==
  ASSUME SafeTeardown
  PROVE  Spec => []DestroyedReleasesAll
<1>1. Init => Destroyed
  BY DEF Init, Destroyed, Dying, Threads
<1>2. IInv /\ Destroyed /\ [Next]_vars => Destroyed'
  <2>1. ASSUME Destroyed, UNCHANGED vars PROVE Destroyed'
    BY <2>1 DEF vars, queues, Destroyed
  <2> QED BY <2>1, DestroyedStep DEF IInv
<1>3. IInv /\ Destroyed => DestroyedReleasesAll
  <2> SUFFICES ASSUME IInv, Destroyed, pc["client"] = "dead"
               PROVE  ~channel /\ freed = Buffers
    BY DEF DestroyedReleasesAll
  <2>1. ~PauseMode /\ ~channel
    BY DEF IInv, Control, Dying
  <2>2. drained = <<>> /\ held = {} /\ audio_queue = <<>> /\ empty_audio_queue = <<>>
    BY <2>1 DEF IInv, Control, Destroyed, Dying, Tasks
  <2>3. Filling = {} /\ InAudio = {} /\ InEmpty = {} /\ InDrained = {} /\ InHeld = {}
    BY <2>2 DEF Filling, InAudio, BuffersOf, InEmpty, InDrained, InHeld, ToSet
  <2> QED BY <2>1, <2>3 DEF IInv, NoLeak
<1> QED BY <1>1, <1>2, <1>3, Invariance, PTL DEF Spec

-----------------------------------------------------------------------------
(***************************************************************************)
(* The recorder's cycles.                                                  *)
(***************************************************************************)
\* Without stop() the semaphore's token is that of a chunk of this cycle, and a
\* prompt recorder leaves the interrupt no time for a second chunk.
Cycles ==
  PauseMode =>
    /\ pc["client"] \notin {"stop_disable", "stop_give"}
    /\ pc["recorder"] \in Resetting \cup {"enable", "wait", "disable"} => is_recording_flag
    /\ pc["recorder"] = "wait" => cycle \in {"open", "filled"}
    /\ pc["recorder"] = "disable" => cycle = "filled"
    /\ pc["isr"] = "push" => pc["recorder"] = "wait" /\ cycle = "open"
    /\ InWindow => pc["recorder"] = "wait" /\ cycle = "filled"
    /\ chunk_done_sem => pc["recorder"] = "wait" /\ cycle = "filled" /\ pc["isr"] = "idle"

LEMMA CyclesStep ==
  ASSUME SafeTeardown, Prompt, MaxStops = 0, PauseMode, TypeOK, Control, Sound, Cycles, Next
  PROVE  Cycles'
<1> USE DEF TypeOK, PcTypes, Cycles, InWindow
<1>1. CASE IsrBlock
  <2>1. pc["isr"] = "idle" /\ pc["recorder"] \in {"wait", "disable"}
    BY <1>1 DEF IsrBlock, Control
  <2>2. /\ UNCHANGED <<is_recording_flag, chunk_done_sem, cycle>>
        /\ pc'["client"] = pc["client"] /\ pc'["recorder"] = pc["recorder"]
        /\ pc'["isr"] = "push" \/ pc'["isr"] = "idle"
    BY <1>1 DEF IsrBlock, ctrl, bounds, Threads
  <2>3. samples_collected + 1 >= ChunkBlocks <=> ~(samples_collected + 1 < ChunkBlocks)
    BY PoolAssumption DEF FillTypes
  <2>4. pc'["isr"] = "push" => cycle # "filled"
    BY <1>1, <2>3 DEF IsrBlock, Threads
  <2>5. pc'["isr"] = "push" => ~chunk_done_sem /\ pc["recorder"] = "wait" /\ cycle = "open"
    BY <2>1, <2>4
  <2> QED BY <2>1, <2>2, <2>5
<1>2. CASE IsrPush
  BY <1>2 DEF IsrPush, Goto, Threads, ctrl
<1>3. CASE IsrSwap
  BY <1>3 DEF IsrSwap, Install, Threads, bounds
<1>4. CASE IsrSteal
  BY <1>4 DEF IsrSteal, Install, Goto, Threads, bounds
<1>5. CASE Wake \/ CheckRecording \/ RecorderPause
  BY <1>5 DEF Wake, CheckRecording, RecorderPause, Goto, Threads, bounds, ctrl, Resetting
<1>6. CASE TakeToken \/ RecorderDisable
  BY <1>6 DEF TakeToken, RecorderDisable, Goto, Threads, bounds, Resetting
<1>7. CASE Reset("recorder")
  <2>1. CASE Enable("recorder")
    BY <2>1 DEF Enable, Goto, Threads, Resetting
  <2>2. CASE ResetBegin("recorder") \/ DrainAudio("recorder") \/ DrainEmpty("recorder")
             \/ Refill("recorder") \/ ResetEnd("recorder")
    BY <2>2 DEF ResetBegin, DrainAudio, DrainEmpty, Refill, ResetEnd, Goto, Threads, bounds,
                ctrl, Resetting
  <2> QED BY <1>7, <2>1, <2>2 DEF Reset
<1>8. CASE Reset("client")
  BY <1>8 DEF Reset, ResetBegin, DrainAudio, DrainEmpty, Refill, ResetEnd, Enable, Goto,
              Control, Resetting
<1>9. CASE Start \/ Notify
  BY <1>9 DEF Start, Notify, Goto, Threads, bounds, ctrl
<1>10. CASE Stop \/ StopDisable \/ StopGive
  <2>1. stops \in Nat
    BY DEF CountTypes
  <2> QED BY <1>10, <2>1 DEF Stop, StopDisable, StopGive, Goto
<1>11. CASE GetAudio \/ GetAudioTimeout \/ ReturnBuffer \/ ResetCount
  BY <1>11 DEF GetAudio, GetAudioTimeout, ReturnBuffer, ResetCount, ClientQueueCall, vars,
               bounds, ctrl
<1>12. CASE Destroy \/ DestroyChannel \/ DestroyFree
  BY <1>12 DEF Destroy, DestroyChannel, DestroyFree, SafeTeardown, Control, Dying, Goto
<1> QED BY <1>1, <1>2, <1>3, <1>4, <1>5, <1>6, <1>7, <1>8, <1>9, <1>10, <1>11, <1>12
        DEF Next, Isr, Recorder, Client

\* The recorder only switches the microphone off after a chunk of its cycle is
\* complete (i2s_microphone.cpp:93), if stop() is never called and the recorder
\* comes in time: a second chunk in one cycle, like stop(), leaves a token that
\* ends the next cycle at once.
THEOREM CyclesFilled ==
  ASSUME SafeTeardown, Prompt, MaxStops = 0
  PROVE  Spec => []CycleFilled
<1>1. Init => Cycles
  BY DEF Init, Cycles, Resetting, Threads, InWindow
<1>2. IInv /\ Cycles /\ [Next]_vars => Cycles'
  <2>1. ASSUME Cycles, UNCHANGED vars PROVE Cycles'
    BY <2>1 DEF vars, ctrl, bounds, Cycles, InWindow
  <2>2. ASSUME IInv, Cycles, Next PROVE Cycles'
    <3>1. CASE PauseMode
      BY <2>2, <3>1, CyclesStep DEF IInv
    <3>2. CASE ~PauseMode
      BY <3>2 DEF Cycles
    <3> QED BY <3>1, <3>2
  <2> QED BY <2>1, <2>2
<1>3. IInv /\ Cycles => CycleFilled
  BY DEF IInv, Control, Cycles, CycleFilled
<1> QED BY <1>1, <1>2, <1>3, Invariance, PTL DEF Spec

-----------------------------------------------------------------------------
(***************************************************************************)
(* The count of overwritten chunks.                                        *)
(***************************************************************************)
LEMMA Distinct ==
  ASSUME NEW q \in Seq(Buffers), IsInjective(q)
  PROVE  IsFiniteSet(ToSet(q)) /\ Cardinality(ToSet(q)) = Len(q)
<1> DEFINE f == [i \in 1 .. Len(q) |-> q[i]]
<1>1. Len(q) \in Nat /\ DOMAIN q = 1 .. Len(q)
  OBVIOUS
<1>2. f \in Injection(1 .. Len(q), ToSet(q)) /\ f \in Surjection(1 .. Len(q), ToSet(q))
  BY <1>1 DEF Injection, Surjection, IsInjective, ToSet
<1> HIDE DEF f
<1>3. IsFiniteSet(1 .. Len(q)) /\ Cardinality(1 .. Len(q)) = Len(q)
  BY <1>1, FS_Interval
<1> QED BY <1>2, <1>3, FS_Surjection, SMTT(30)

LEMMA DisjointCounted ==
  ASSUME NEW S, NEW T, IsFiniteSet(S), IsFiniteSet(T), S \cap T = {}
  PROVE  /\ IsFiniteSet(S \cup T)
         /\ Cardinality(S \cup T) = Cardinality(S) + Cardinality(T)
<1>1. Cardinality(S \cap T) = 0 /\ Cardinality(S) \in Nat /\ Cardinality(T) \in Nat
  BY FS_EmptySet, FS_CardinalityType
<1>2. /\ IsFiniteSet(S \cup T)
      /\ Cardinality(S \cup T) = Cardinality(S) + Cardinality(T) - Cardinality(S \cap T)
  BY FS_Union
<1> QED BY <1>1, <1>2

\* A client's handles are as many as the buffers they hold.
LEMMA HandlesCounted ==
  ASSUME QueueTypes, NoAlias
  PROVE  /\ IsFiniteSet(held) /\ IsFiniteSet(InHeld)
         /\ Cardinality(held) \in Nat /\ Cardinality(InHeld) = Cardinality(held)
<1> DEFINE f == [c \in held |-> c.buffer]
<1>1. f \in Injection(held, InHeld) /\ f \in Surjection(held, InHeld)
  BY DEF Injection, Surjection, IsInjective, InHeld, NoAlias
<1> HIDE DEF f
<1>2. InHeld \subseteq Buffers
  BY ChunkFields DEF InHeld, QueueTypes
<1>3. IsFiniteSet(Buffers)
  BY FS_Interval, PoolAssumption DEF Buffers
<1>4. IsFiniteSet(InHeld)
  BY <1>2, <1>3, FS_Subset
<1> QED BY <1>1, <1>4, FS_Injection, FS_CardinalityType

\* While the handler swaps buffers every buffer is queued or held.
LEMMA Counted ==
  ASSUME SafeTeardown, TypeOK, Control, Partition, InWindow
  PROVE  Len(audio_queue) + Len(empty_audio_queue) + Cardinality(held) = PoolSize
<1>1. channel /\ pc["client"] # "dead"
  BY ChannelAlive DEF Control, InWindow
<1>2. \A t \in Tasks : pc[t] \notin Resetting
  BY <1>1, ResetQuiet DEF TypeOK, Tasks, Resetting
<1>3. drained = <<>> /\ freed = {}
  BY <1>1, <1>2 DEF Control, Resetting
<1>4. Filling = {} /\ InDrained = {}
  BY <1>3 DEF Filling, InDrained, ToSet
<1>5. /\ InAudio \cup InEmpty \cup InHeld = Buffers
      /\ InAudio \cap InEmpty = {} /\ (InAudio \cup InEmpty) \cap InHeld = {}
  BY <1>3, <1>4 DEF Partition, NoAlias, NoLeak
<1>6. IsFiniteSet(InAudio) /\ Cardinality(InAudio) = Len(audio_queue)
  <2>1. /\ BuffersOf(audio_queue) \in Seq(Buffers)
        /\ Len(BuffersOf(audio_queue)) = Len(audio_queue)
    BY BuffersOfFacts DEF TypeOK, QueueTypes
  <2>2. IsInjective(BuffersOf(audio_queue))
    BY DEF Partition, NoAlias
  <2> HIDE DEF BuffersOf
  <2> QED BY <2>1, <2>2, Distinct DEF InAudio
<1>7. IsFiniteSet(InEmpty) /\ Cardinality(InEmpty) = Len(empty_audio_queue)
  BY Distinct DEF TypeOK, QueueTypes, Partition, NoAlias, InEmpty
<1>8. IsFiniteSet(InHeld) /\ Cardinality(InHeld) = Cardinality(held) /\ Cardinality(held) \in Nat
  BY HandlesCounted DEF TypeOK, Partition
<1>9. Len(audio_queue) \in Nat /\ Len(empty_audio_queue) \in Nat
  BY DEF TypeOK, QueueTypes
<1>10. /\ IsFiniteSet(InAudio \cup InEmpty)
       /\ Cardinality(InAudio \cup InEmpty) = Len(audio_queue) + Len(empty_audio_queue)
  <2>1. /\ IsFiniteSet(InAudio \cup InEmpty)
        /\ Cardinality(InAudio \cup InEmpty) = Cardinality(InAudio) + Cardinality(InEmpty)
    BY <1>5, <1>6, <1>7, DisjointCounted, Zenon
  <2> QED BY <1>6, <1>7, <2>1
<1>11. Cardinality(Buffers)
         = Len(audio_queue) + Len(empty_audio_queue) + Cardinality(held)
  <2>1. Cardinality(InAudio \cup InEmpty \cup InHeld)
          = Cardinality(InAudio \cup InEmpty) + Cardinality(InHeld)
    BY <1>5, <1>8, <1>10, DisjointCounted, Zenon
  <2> QED BY <1>5, <1>8, <1>10, <2>1
<1> QED BY <1>11, FS_Interval, PoolAssumption DEF Buffers

\* How often the client may call while the handler runs, so that a handler that
\* saw no empty buffer still finds a chunk to overwrite.
CallsFit == WindowOps < 2 * (PoolSize - MaxHandles)

Accounts ==
  /\ Accounting
  /\ Cardinality(held) <= MaxHandles
  /\ InWindow => window <= WindowOps
  /\ pc["isr"] = "steal" =>
       window + Len(audio_queue) >= PoolSize - MaxHandles + Len(empty_audio_queue)

\* Steps outside the handler that move no chunk.
LEMMA AccountsSame ==
  ASSUME Accounts, UNCHANGED <<queues, count, held, window>>, pc'["isr"] = pc["isr"],
         pc'["client"] # "dead" => pc["client"] # "dead"
  PROVE  Accounts'
BY DEF Accounts, Accounting, queues, count, InWindow

LEMMA AccountsStep ==
  ASSUME SafeTeardown, CallsFit, TypeOK, Control, Partition, Accounts, Next
  PROVE  Accounts'
<1> USE PoolAssumption, BoundAssumption
<1>0. /\ Len(audio_queue) \in Nat /\ Len(empty_audio_queue) \in Nat /\ Len(delivered) \in Nat
      /\ window \in Nat /\ overwritten_chunk_count \in Nat /\ completed \in Nat
      /\ discarded \in Nat /\ forgotten \in Nat /\ PcTypes
      /\ Cardinality(held) \in Nat /\ IsFiniteSet(held)
      /\ WindowOps \in Nat /\ MaxHandles \in Nat /\ PoolSize \in Nat
  BY HandlesCounted DEF TypeOK, QueueTypes, CountTypes, Partition
<1>1. CASE IsrBlock
  <2>1. UNCHANGED <<audio_queue, empty_audio_queue, held, window, overwritten_chunk_count,
                    completed, delivered, discarded, forgotten>>
    BY <1>1 DEF IsrBlock, queues, count, bounds
  <2>2. pc'["client"] = pc["client"] /\ pc'["isr"] \in {"push", "idle"}
    BY <1>0, <1>1 DEF IsrBlock, PcTypes, Threads
  <2> QED BY <2>1, <2>2 DEF Accounts, Accounting, InWindow
<1>2. CASE IsrPush
  <2> DEFINE c == [buffer |-> current_buffer, timestamp |-> current_timestamp]
  <2>1. pc["isr"] = "push" /\ pc'["isr"] = "swap" /\ pc'["client"] = pc["client"]
    BY <1>0, <1>2 DEF IsrPush, Goto, PcTypes, Threads
  <2>2. channel /\ pc["client"] # "dead" /\ ~InWindow /\ current_buffer \in Buffers
    BY <2>1, ChannelAlive DEF Control, InWindow, TypeOK, FillTypes
  <2>3. c \in Chunk /\ c.buffer = current_buffer
    BY <2>2, ChunkFields DEF TypeOK, FillTypes
  <2>4. current_buffer \notin InAudio
    BY <2>2 DEF Filling, Partition, NoAlias, Buffers, NULL
  <2>5. audio_queue' = Append(audio_queue, c)
    BY <1>2, <2>3, <2>4, SentChunk DEF IsrPush, TypeOK, Partition, NoAlias
  <2>6. Len(audio_queue') = Len(audio_queue) + 1
    BY <2>3, <2>5, AppendFacts DEF TypeOK, QueueTypes
  <2>7. /\ completed' = completed + 1 /\ window' = 0
        /\ UNCHANGED <<overwritten_chunk_count, delivered, discarded, forgotten, held>>
    BY <1>2 DEF IsrPush
  <2> HIDE DEF c
  <2> QED BY <1>0, <2>1, <2>2, <2>6, <2>7 DEF Accounts, Accounting
<1>3. CASE IsrSwap
  <2>1. /\ UNCHANGED <<audio_queue, held, window, overwritten_chunk_count, completed,
                       delivered, discarded, forgotten>>
        /\ pc["isr"] = "swap" /\ pc'["client"] = pc["client"]
    BY <1>0, <1>3 DEF IsrSwap, count, bounds, PcTypes, Threads
  <2>2. CASE empty_audio_queue # <<>>
    <3>1. pc'["isr"] = "idle"
      BY <1>0, <1>3, <2>2 DEF IsrSwap, PcTypes, Threads
    <3> QED BY <2>1, <3>1 DEF Accounts, Accounting, InWindow
  <2>3. CASE empty_audio_queue = <<>>
    <3>1. UNCHANGED empty_audio_queue /\ pc'["isr"] = "steal" /\ Len(empty_audio_queue) = 0
      BY <1>0, <1>3, <2>3 DEF IsrSwap, PcTypes, Threads
    <3>2. Len(audio_queue) + Cardinality(held) = PoolSize
      BY <1>0, <2>1, <3>1, Counted DEF InWindow
    <3> QED BY <1>0, <2>1, <3>1, <3>2 DEF Accounts, Accounting, InWindow
  <2> QED BY <2>2, <2>3
<1>4. CASE IsrSteal
  <2>1. /\ pc["isr"] = "steal" /\ pc'["isr"] = "idle" /\ pc'["client"] = pc["client"]
        /\ overwritten_chunk_count' = overwritten_chunk_count + 1
        /\ UNCHANGED <<held, completed, delivered, discarded, forgotten>>
    BY <1>0, <1>4 DEF IsrSteal, Goto, PcTypes, Threads, StolenCount
  <2>2. audio_queue # <<>>
    <3> SUFFICES ASSUME Len(audio_queue) = 0 PROVE FALSE
      BY <1>0
    <3>1. Len(empty_audio_queue) + Cardinality(held) = PoolSize
      BY <1>0, <2>1, Counted DEF InWindow
    <3> QED BY <1>0, <2>1, <3>1 DEF Accounts, InWindow, CallsFit
  <2>3. Len(audio_queue') = Len(audio_queue) - 1
    BY <1>4, <2>2, TailFacts DEF IsrSteal, TypeOK, QueueTypes
  <2>4. Accounting'
    BY <1>0, <2>1, <2>3 DEF Accounts, Accounting
  <2> QED BY <2>1, <2>4 DEF Accounts, InWindow
<1>5. ASSUME NEW t \in Tasks, DrainAudio(t)
      PROVE  Accounts'
  <2>1. /\ pc["isr"] = "idle" /\ pc["client"] # "dead" /\ pc'["isr"] = "idle"
        /\ UNCHANGED <<held, overwritten_chunk_count, completed, delivered, forgotten>>
    BY <1>0, <1>5, ResetQuiet DEF DrainAudio, Resetting, PcTypes, Threads, Tasks
  <2>2. CASE audio_queue # <<>>
    <3>1. Len(audio_queue') = Len(audio_queue) - 1 /\ discarded' = discarded + 1
      BY <1>5, <2>2, TailFacts DEF DrainAudio, TypeOK, QueueTypes
    <3> QED BY <1>0, <2>1, <3>1 DEF Accounts, Accounting, InWindow
  <2>3. CASE audio_queue = <<>>
    <3>1. UNCHANGED <<audio_queue, discarded>>
      BY <1>5, <2>3 DEF DrainAudio
    <3> QED BY <2>1, <3>1 DEF Accounts, Accounting, InWindow
  <2> QED BY <2>2, <2>3
<1>6. ASSUME NEW t \in Tasks,
             ResetBegin(t) \/ DrainEmpty(t) \/ Refill(t) \/ ResetEnd(t) \/ Enable(t)
      PROVE  Accounts'
  <2>1. pc[t] \in Resetting \cup {"enable"}
    BY <1>6 DEF ResetBegin, DrainEmpty, Refill, ResetEnd, Enable, Goto, Resetting
  <2>2. pc["isr"] = "idle" /\ pc["client"] # "dead" /\ pc'["isr"] = "idle"
    BY <1>0, <1>6, <2>1, ResetQuiet DEF ResetBegin, DrainEmpty, Refill, ResetEnd, Enable, Goto,
       PcTypes, Threads, Tasks
  <2>3. UNCHANGED <<held, audio_queue, overwritten_chunk_count, completed, delivered,
                    discarded, forgotten>>
    BY <1>6 DEF ResetBegin, DrainEmpty, Refill, ResetEnd, Enable, queues, count
  <2> QED BY <2>2, <2>3 DEF Accounts, Accounting, InWindow
<1>7. CASE Wake \/ CheckRecording \/ TakeToken \/ RecorderDisable \/ RecorderPause
  <2>1. UNCHANGED <<queues, count, held, window>>
    BY <1>7 DEF Wake, CheckRecording, TakeToken, RecorderDisable, RecorderPause, bounds
  <2>2. pc'["isr"] = pc["isr"] /\ pc'["client"] = pc["client"]
    BY <1>0, <1>7 DEF Wake, CheckRecording, TakeToken, RecorderDisable, RecorderPause, Goto,
                      PcTypes, Threads
  <2> QED BY <2>1, <2>2, AccountsSame
<1>8. CASE Start \/ Notify \/ Stop \/ StopDisable \/ StopGive
  <2>1. UNCHANGED <<queues, count, held, window>>
    BY <1>8 DEF Start, Notify, Stop, StopDisable, StopGive, bounds
  <2>2. pc'["isr"] = pc["isr"] /\ pc["client"] # "dead"
    BY <1>0, <1>8 DEF Start, Notify, Stop, StopDisable, StopGive, Goto, PcTypes, Threads
  <2> QED BY <2>1, <2>2, AccountsSame
<1>9. CASE Destroy \/ DestroyChannel
  <2>1. UNCHANGED <<queues, count, held, window>>
    BY <1>9 DEF Destroy, DestroyChannel, bounds
  <2>2. pc'["isr"] = pc["isr"] /\ pc["client"] # "dead"
    BY <1>0, <1>9 DEF Destroy, DestroyChannel, Goto, PcTypes, Threads
  <2> QED BY <2>1, <2>2, AccountsSame
<1>10. CASE DestroyFree
  <2>1. pc'["client"] = "dead" /\ pc'["isr"] = pc["isr"] /\ UNCHANGED held
    BY <1>0, <1>10 DEF DestroyFree, Goto, PcTypes, Threads
  <2>2. pc["client"] = "del_free"
    BY <1>10 DEF DestroyFree, Goto
  <2>3. pc["isr"] = "idle"
    BY <2>2 DEF Control, Dying
  <2> QED BY <2>1, <2>3 DEF Accounts, Accounting, InWindow
<1>11. CASE GetAudio
  <2>1. /\ audio_queue # <<>> /\ audio_queue' = Tail(audio_queue)
        /\ delivered' = Append(delivered, Head(audio_queue).timestamp)
        /\ held' = held \cup {Head(audio_queue)} /\ Cardinality(held) < MaxHandles
        /\ UNCHANGED <<empty_audio_queue, pc, overwritten_chunk_count, completed, discarded,
                       forgotten>>
        /\ InWindow => window < WindowOps /\ window' = window + 1
    BY <1>11 DEF GetAudio, ClientQueueCall
  <2>2. Len(audio_queue') = Len(audio_queue) - 1 /\ Head(audio_queue).timestamp \in Nat
    BY <2>1, TailFacts, OldestChunk DEF TypeOK, QueueTypes
  <2>3. Len(delivered') = Len(delivered) + 1
    BY <2>1, <2>2, AppendFacts DEF TypeOK, CountTypes
  <2>4. Cardinality(held') <= MaxHandles
    <3>1. Cardinality(held') \in {Cardinality(held), Cardinality(held) + 1}
      BY <1>0, <2>1, FS_AddElement
    <3> QED BY <1>0, <2>1, <3>1
  <2>5. Accounting'
    <3>1. pc["client"] # "dead" <=> pc'["client"] # "dead"
      BY <2>1
    <3>2. /\ UNCHANGED <<overwritten_chunk_count, completed, discarded, forgotten>>
          /\ Len(audio_queue') = Len(audio_queue) - 1
          /\ Len(delivered') = Len(delivered) + 1
      BY <2>1, <2>2, <2>3
    <3> QED BY <1>0, <3>1, <3>2 DEF Accounts, Accounting
  <2>6. InWindow' => window' <= WindowOps
    BY <1>0, <2>1 DEF InWindow
  <2>7. pc'["isr"] = "steal" =>
          window' + Len(audio_queue') >= PoolSize - MaxHandles + Len(empty_audio_queue')
    BY <1>0, <2>1, <2>2 DEF Accounts, InWindow
  <2> QED BY <2>4, <2>5, <2>6, <2>7 DEF Accounts
<1>12. CASE ReturnBuffer
  <2>1. PICK c \in held : held' = held \ {c}
                          /\ empty_audio_queue' = Send(empty_audio_queue, c.buffer)
    BY <1>12 DEF ReturnBuffer
  <2>2. /\ UNCHANGED <<audio_queue, pc, overwritten_chunk_count, completed, delivered,
                       discarded, forgotten>>
        /\ InWindow => window < WindowOps /\ window' = window + 1
    BY <1>12 DEF ReturnBuffer, ClientQueueCall, count
  <2>3. c.buffer \in Buffers
    BY ChunkFields DEF TypeOK, QueueTypes
  <2>4. Len(empty_audio_queue') \in {Len(empty_audio_queue), Len(empty_audio_queue) + 1}
    BY <2>1, <2>3, AppendFacts DEF Send, TypeOK, QueueTypes
  <2>5. Cardinality(held') <= MaxHandles
    <3>1. Cardinality(held') = Cardinality(held) - 1
      BY <1>0, <2>1, FS_RemoveElement
    <3> QED BY <1>0, <3>1 DEF Accounts
  <2>6. Accounting'
    BY <1>0, <2>2 DEF Accounts, Accounting
  <2>7. InWindow' => window' <= WindowOps
    BY <1>0, <2>2 DEF InWindow
  <2>8. pc'["isr"] = "steal" =>
          window' + Len(audio_queue') >= PoolSize - MaxHandles + Len(empty_audio_queue')
    BY <1>0, <2>2, <2>4 DEF Accounts, InWindow
  <2> QED BY <2>5, <2>6, <2>7, <2>8 DEF Accounts
<1>13. CASE ResetCount
  <2>1. /\ overwritten_chunk_count' = 0 /\ forgotten' = forgotten + overwritten_chunk_count
        /\ UNCHANGED <<queues, completed, delivered, discarded, window, pc, held>>
    BY <1>13 DEF ResetCount, bounds
  <2> QED BY <1>0, <2>1 DEF Accounts, Accounting, InWindow, queues
<1>14. CASE GetAudioTimeout
  BY <1>14, AccountsSame DEF GetAudioTimeout, vars, bounds
<1> QED BY <1>1, <1>2, <1>3, <1>4, <1>5, <1>6, <1>7, <1>8, <1>9, <1>10, <1>11, <1>12, <1>13,
           <1>14 DEF Next, Isr, Recorder, Client, Reset, Tasks

\* Every completed chunk is accounted for: get_overwritten_chunk_count() is the
\* number of chunks the interrupt gave up since the counter's last reset, as long
\* as the client makes fewer calls than two for each buffer it cannot hold while
\* the handler runs once (TLC finds it wrong with one call more).
THEOREM CountCorrect ==
  ASSUME SafeTeardown, CallsFit
  PROVE  Spec => []Accounting
<1>1. Init => Accounts
  BY PoolAssumption, FS_EmptySet DEF Init, Accounts, Accounting, InWindow, Threads
<1>2. IInv /\ Accounts /\ [Next]_vars => Accounts'
  <2>1. ASSUME Accounts, UNCHANGED vars PROVE Accounts'
    BY <2>1, AccountsSame DEF vars, bounds
  <2> QED BY <2>1, AccountsStep DEF IInv, Partition
<1>3. Accounts => Accounting
  BY DEF Accounts
<1> QED BY <1>1, <1>2, <1>3, Invariance, PTL DEF Spec

-----------------------------------------------------------------------------
(***************************************************************************)
(* The driver implements the lossy stream of AudioStream.                  *)
(***************************************************************************)
\* The start times the consumer has seen or will see.
Known == Stream!Known

\* A chunk under way is younger than all the consumer knows of, so that it may
\* join them when it is complete.
Youngest ==
  /\ \A s \in Known : s \in Nat /\ s <= now
  /\ channel /\ ~InWindow => \A s \in Known : s < current_timestamp
  /\ InWindow => \A s \in Known : s < now

LEMMA TimestampsOfFacts ==
  ASSUME NEW q \in Seq(Chunk)
  PROVE  /\ TimestampsOf(q) \in Seq(Nat) /\ Len(TimestampsOf(q)) = Len(q)
         /\ q # <<>> => /\ TimestampsOf(q) # <<>>
                        /\ Head(TimestampsOf(q)) = Head(q).timestamp
                        /\ TimestampsOf(Tail(q)) = Tail(TimestampsOf(q))
         /\ \A c \in Chunk :
              TimestampsOf(Append(q, c)) = Append(TimestampsOf(q), c.timestamp)
<1> DEFINE f == [c \in Chunk |-> c.timestamp]
           T == Nat
<1>1. f \in [Chunk -> T] /\ \A c \in Chunk : f[c] = c.timestamp
  BY ChunkFields
<1>2. ASSUME NEW s \in Seq(Chunk) PROVE TimestampsOf(s) = Mapped(s, f)
  <2>1. \A i \in DOMAIN s : s[i] \in Chunk
    OBVIOUS
  <2> HIDE DEF f
  <2> QED BY <1>1, <2>1 DEF TimestampsOf, Mapped
<1>3. /\ q # <<>> => Head(q) \in Chunk /\ Tail(q) \in Seq(Chunk)
      /\ \A c \in Chunk : Append(q, c) \in Seq(Chunk)
  BY TailFacts, AppendFacts
<1> HIDE DEF f, T
<1>4. Mapped(q, f) \in Seq(T) /\ Len(Mapped(q, f)) = Len(q)
  <2>1. Mapped(q, f) \in Seq(T)
    BY <1>1, MappedType
  <2>2. DOMAIN Mapped(q, f) = DOMAIN q
    BY DEF Mapped
  <2> QED BY <2>1, <2>2
<1>5. ASSUME q # <<>>
      PROVE  /\ Mapped(q, f) # <<>> /\ Head(Mapped(q, f)) = f[Head(q)]
             /\ Mapped(Tail(q), f) = Tail(Mapped(q, f))
  BY <1>1, <1>5, MappedTail
<1>6. TimestampsOf(q) = Mapped(q, f)
  BY <1>2
<1>7. q # <<>> => TimestampsOf(Tail(q)) = Mapped(Tail(q), f) /\ f[Head(q)] = Head(q).timestamp
  BY <1>1, <1>2, <1>3
<1>8. ASSUME NEW c \in Chunk
      PROVE  TimestampsOf(Append(q, c)) = Append(TimestampsOf(q), c.timestamp)
  <2>1. Mapped(Append(q, c), f) = Append(Mapped(q, f), f[c])
    BY <1>1, MappedAppend
  <2> QED BY <2>1, <1>1, <1>2, <1>3, <1>6
<1> QED BY <1>4, <1>5, <1>6, <1>7, <1>8 DEF T

-----------------------------------------------------------------------------
\* What the steps do to the waiting and delivered chunks, as the stream sees it.
Waiting == TimestampsOf(audio_queue)

Kept == UNCHANGED <<audio_queue, delivered>>

\* The oldest waiting chunk leaves the queue, into the hands of the consumer or not.
Lost ==
  /\ Waiting # <<>> /\ Waiting' = Tail(Waiting)
  /\ UNCHANGED delivered

LEMMA Oldest ==
  ASSUME QueueTypes, audio_queue # <<>>
  PROVE  /\ Waiting # <<>> /\ Head(Waiting) = Head(audio_queue).timestamp
         /\ TimestampsOf(Tail(audio_queue)) = Tail(Waiting)
         /\ Waiting \in Seq(Nat)
BY TimestampsOfFacts DEF QueueTypes, Waiting

LEMMA KnownIs == Known = ToSet(Waiting) \cup ToSet(delivered)
BY DEF Known, Stream!Known, Stream!ToSet, ToSet, Waiting

LEMMA KnownIsNext == Known' = ToSet(Waiting') \cup ToSet(delivered')
BY DEF Known, Stream!Known, Stream!ToSet, ToSet, Waiting

\* Receiving loses no start time to the future: nothing becomes known.
LEMMA FewerKnown ==
  ASSUME TypeOK, Lost
  PROVE  Known' \subseteq Known
<1>1. Waiting \in Seq(Nat)
  BY TimestampsOfFacts DEF TypeOK, QueueTypes, Waiting
<1>2. ToSet(Waiting') \subseteq ToSet(Waiting)
  BY <1>1, TailFacts DEF Lost
<1> QED BY <1>2, KnownIs, KnownIsNext DEF Lost

LEMMA SameKnown ==
  ASSUME Kept
  PROVE  Known' = Known /\ Waiting' = Waiting
BY DEF Kept, Known, Stream!Known, Waiting, TimestampsOf

\* The interrupt handler's xQueueSend always finds room.
LEMMA Recorded ==
  ASSUME SafeTeardown, TypeOK, Control, NoAlias, IsrPush
  PROVE  /\ Waiting' = Append(Waiting, current_timestamp)
         /\ Len(Waiting) < PoolSize /\ Waiting \in Seq(Nat) /\ current_timestamp \in Nat
<1> DEFINE c == [buffer |-> current_buffer, timestamp |-> current_timestamp]
<1>1. c \in Chunk /\ c.buffer = current_buffer /\ current_buffer \in Buffers
  BY ChunkFields DEF IsrPush, Goto, Control, TypeOK, FillTypes
<1>2. pc["client"] # "dead" /\ ~InWindow
  BY DEF IsrPush, Goto, Control, InWindow, SafeTeardown, Dying
<1>3. current_buffer \in Filling
  BY <1>1, <1>2 DEF Filling, NULL, Buffers
<1>4. current_buffer \notin InAudio /\ IsInjective(BuffersOf(audio_queue))
  BY <1>3 DEF NoAlias
<1>5. Send(audio_queue, c) = Append(audio_queue, c)
  BY <1>1, <1>4, SentChunk DEF TypeOK
<1>6. Len(audio_queue) < PoolSize
  <2>1. /\ BuffersOf(audio_queue) \in Seq(Buffers)
        /\ Len(BuffersOf(audio_queue)) = Len(audio_queue)
    BY BuffersOfFacts DEF TypeOK, QueueTypes
  <2>2. current_buffer \notin ToSet(BuffersOf(audio_queue))
    BY <1>4 DEF InAudio
  <2> HIDE DEF BuffersOf
  <2> QED BY <1>1, <1>4, <2>1, <2>2, Room
<1>7. audio_queue' = Append(audio_queue, c)
  BY <1>5 DEF IsrPush
<1>8. audio_queue \in Seq(Chunk)
  BY DEF TypeOK, QueueTypes
<1>9. TimestampsOf(Append(audio_queue, c)) = Append(TimestampsOf(audio_queue), c.timestamp)
  BY <1>1, <1>8, TimestampsOfFacts
<1>10. Waiting \in Seq(Nat) /\ Len(Waiting) = Len(audio_queue)
  BY <1>8, TimestampsOfFacts DEF Waiting
<1> QED BY <1>6, <1>7, <1>9, <1>10 DEF Waiting, TypeOK, FillTypes
-----------------------------------------------------------------------------
\* Every step but the one that enables the channel, and the handler's own steps.
LEMMA YoungestSame ==
  ASSUME TypeOK, Youngest, Known' \subseteq Known, UNCHANGED <<current_timestamp, now>>,
         pc'["isr"] = pc["isr"], channel' => channel
  PROVE  Youngest'
BY DEF Youngest, InWindow

LEMMA YoungestStep ==
  ASSUME SafeTeardown, IInv, Youngest, Next
  PROVE  Youngest'
<1> USE DEF IInv
<1>0. now \in Nat /\ current_timestamp \in Nat /\ PcTypes /\ QueueTypes
  BY DEF TypeOK, FillTypes
<1>1. CASE IsrBlock
  <2>1. Known' = Known
    BY <1>1, SameKnown DEF IsrBlock, Kept, queues, count
  <2>2. /\ channel /\ ~InWindow /\ ~InWindow' /\ now' = now + 1
        /\ UNCHANGED current_timestamp
    BY <1>1, <1>0 DEF IsrBlock, InWindow, PcTypes, Threads
  <2> QED BY <2>1, <2>2, <1>0 DEF Youngest
<1>2. CASE IsrPush
  <2>1. /\ Waiting' = Append(Waiting, current_timestamp) /\ UNCHANGED delivered
        /\ Waiting \in Seq(Nat) /\ current_timestamp \in Nat
    BY <1>2, Recorded DEF IsrPush
  <2>2. Known' = Known \cup {current_timestamp}
    <3>1. ToSet(Waiting') = ToSet(Waiting) \cup {current_timestamp}
      BY <2>1, AppendFacts
    <3> QED BY <2>1, <3>1, KnownIs, KnownIsNext
  <2>3. /\ channel /\ ~InWindow /\ InWindow' /\ now' = now
        /\ now = current_timestamp + ChunkBlocks
    BY <1>2, <1>0 DEF IsrPush, InWindow, Goto, Control, Sound, PcTypes, Threads, sound
  <2>4. ChunkBlocks \in Nat /\ ChunkBlocks > 0
    BY PoolAssumption
  <2>5. current_timestamp < now /\ \A s \in Known : s \in Nat /\ s < current_timestamp
    BY <2>3, <2>4, <1>0 DEF Youngest
  <2> QED BY <2>2, <2>3, <2>5, <1>0 DEF Youngest
<1>3. CASE IsrSwap
  <2>1. Known' = Known
    BY <1>3, SameKnown DEF IsrSwap, Kept, count
  <2>2. InWindow /\ now' = now
    BY <1>3 DEF IsrSwap, InWindow, sound
  <2>3. InWindow' \/ current_timestamp' = now
    BY <1>3, <1>0 DEF IsrSwap, Install, InWindow, PcTypes, Threads
  <2> QED BY <2>1, <2>2, <2>3 DEF Youngest
<1>4. CASE IsrSteal
  <2>1. Known' \subseteq Known
    <3>1. CASE audio_queue # <<>>
      BY <1>4, <3>1, Oldest, FewerKnown DEF IsrSteal, Lost, Waiting, TypeOK
    <3>2. CASE audio_queue = <<>>
      BY <1>4, <3>2, SameKnown DEF IsrSteal, Kept
    <3> QED BY <3>1, <3>2
  <2>2. InWindow /\ ~InWindow' /\ now' = now /\ current_timestamp' = now
    BY <1>4, <1>0 DEF IsrSteal, Install, Goto, InWindow, PcTypes, Threads, sound
  <2> QED BY <2>1, <2>2 DEF Youngest
<1>5. ASSUME NEW t \in Tasks, Enable(t) PROVE Youngest'
  <2>1. Known' = Known
    BY <1>5, SameKnown DEF Enable, Kept, queues, count
  <2>2. pc["isr"] = "idle"
    BY <1>5, ResetQuiet, <1>0 DEF Enable, Goto
  <2>3. ~InWindow' /\ now' = now + 1 /\ current_timestamp' = now + 1
    BY <1>5, <1>0, <2>2 DEF Enable, Stamp, Goto, InWindow, PcTypes, Threads, Tasks
  <2> QED BY <2>1, <2>3, <1>0 DEF Youngest
<1>6. ASSUME NEW t \in Tasks, ResetEnd(t) PROVE Youngest'
  <2>1. Known' = Known /\ now' = now
    BY <1>6, SameKnown DEF ResetEnd, Kept, count, sound
  <2>2. ~channel /\ pc["isr"] = "idle"
    BY <1>6, ResetQuiet, <1>0 DEF ResetEnd, Goto, Resetting
  <2>3. ~channel' /\ ~InWindow'
    BY <1>6, <1>0, <2>2 DEF ResetEnd, Goto, InWindow, PcTypes, Threads, Tasks, ctrl
  <2> QED BY <2>1, <2>3 DEF Youngest
<1>7. ASSUME NEW t \in Tasks, DrainAudio(t) PROVE Youngest'
  <2>1. Known' \subseteq Known
    <3>1. CASE audio_queue # <<>>
      BY <1>7, <3>1, <1>0, Oldest, FewerKnown DEF DrainAudio, Lost, Waiting
    <3>2. CASE audio_queue = <<>>
      BY <1>7, <3>2, SameKnown DEF DrainAudio, Kept
    <3> QED BY <3>1, <3>2
  <2>2. pc'["isr"] = pc["isr"] /\ UNCHANGED <<current_timestamp, now, channel>>
    BY <1>7, <1>0 DEF DrainAudio, PcTypes, Threads, Tasks, fill, sound, ctrl
  <2> QED BY <2>1, <2>2, YoungestSame
<1>8. ASSUME NEW t \in Tasks, ResetBegin(t) \/ DrainEmpty(t) \/ Refill(t) PROVE Youngest'
  <2>1. Known' = Known
    BY <1>8, SameKnown DEF ResetBegin, DrainEmpty, Refill, Kept, queues, count
  <2>2. pc'["isr"] = pc["isr"] /\ UNCHANGED <<current_timestamp, now, channel>>
    BY <1>8, <1>0 DEF ResetBegin, DrainEmpty, Refill, Goto, PcTypes, Threads, Tasks,
                      fill, sound, ctrl
  <2> QED BY <2>1, <2>2, YoungestSame
<1>9. CASE Wake \/ CheckRecording \/ TakeToken \/ RecorderDisable \/ RecorderPause
  <2>1. Known' = Known
    BY <1>9, SameKnown DEF Wake, CheckRecording, TakeToken, RecorderDisable, RecorderPause,
                           Kept, queues, count
  <2>2. pc'["isr"] = pc["isr"] /\ UNCHANGED <<current_timestamp, now>> /\ (channel' => channel)
    BY <1>9, <1>0 DEF Wake, CheckRecording, TakeToken, RecorderDisable, RecorderPause, Goto,
                      PcTypes, Threads, fill, sound, ctrl
  <2> QED BY <2>1, <2>2, YoungestSame
<1>10. CASE Start \/ Notify \/ Stop \/ StopDisable \/ StopGive \/ Destroy \/ DestroyChannel
  <2>1. Known' = Known
    BY <1>10, SameKnown DEF Start, Notify, Stop, StopDisable, StopGive, Destroy,
                            DestroyChannel, Kept, queues, count
  <2>2. pc'["isr"] = pc["isr"] /\ UNCHANGED <<current_timestamp, now>> /\ (channel' => channel)
    BY <1>10, <1>0 DEF Start, Notify, Stop, StopDisable, StopGive, Destroy, DestroyChannel,
                       Goto, PcTypes, Threads, fill, sound, ctrl
  <2> QED BY <2>1, <2>2, YoungestSame
<1>11. CASE GetAudio
  <2>1. /\ Waiting' = Tail(Waiting) /\ delivered' = Append(delivered, Head(Waiting))
        /\ Waiting # <<>> /\ Waiting \in Seq(Nat)
    BY <1>11, <1>0, Oldest DEF GetAudio, Waiting
  <2>2. /\ Head(Waiting) \in ToSet(Waiting) /\ ToSet(Tail(Waiting)) \subseteq ToSet(Waiting)
        /\ Head(Waiting) \in Nat
    BY <2>1, TailFacts
  <2>3. delivered \in Seq(Nat)
    BY DEF TypeOK, CountTypes
  <2>4. ToSet(delivered') = ToSet(delivered) \cup {Head(Waiting)}
    BY <2>1, <2>2, <2>3, AppendFacts
  <2>5. Known' \subseteq Known
    BY <2>1, <2>2, <2>4, KnownIs, KnownIsNext
  <2>6. UNCHANGED <<pc, channel, current_timestamp, now>>
    BY <1>11 DEF GetAudio, fill, sound, ctrl
  <2> QED BY <2>5, <2>6, YoungestSame
<1>12. CASE GetAudioTimeout \/ ReturnBuffer \/ ResetCount
  <2>1. Known' = Known
    BY <1>12, SameKnown DEF GetAudioTimeout, ReturnBuffer, ResetCount, Kept, queues, count, vars
  <2>2. UNCHANGED <<pc, channel, current_timestamp, now>>
    BY <1>12 DEF GetAudioTimeout, ReturnBuffer, ResetCount, fill, sound, ctrl, vars
  <2> QED BY <2>1, <2>2, YoungestSame
<1>13. CASE DestroyFree
  <2>1. Waiting' = <<>> /\ UNCHANGED delivered
    BY <1>13 DEF DestroyFree, Waiting, TimestampsOf, count
  <2>2. Known' \subseteq Known
    BY <2>1, KnownIs, KnownIsNext DEF ToSet
  <2>3. pc'["isr"] = pc["isr"] /\ UNCHANGED <<current_timestamp, now, channel>>
    BY <1>13, <1>0 DEF DestroyFree, Goto, PcTypes, Threads, fill, sound, ctrl
  <2> QED BY <2>2, <2>3, YoungestSame
<1> QED BY <1>1, <1>2, <1>3, <1>4, <1>5, <1>6, <1>7, <1>8, <1>9, <1>10, <1>11, <1>12, <1>13
        DEF Next, Isr, Recorder, Client, Reset, Tasks

-----------------------------------------------------------------------------
\* The step of the stream each step of the driver is.
StreamStep == [Stream!Next]_Stream!vars

LEMMA Stuttered ==
  ASSUME Kept, UNCHANGED now
  PROVE  StreamStep
BY DEF Kept, StreamStep, Stream!vars, TimestampsOf

LEMMA Ticked ==
  ASSUME now \in Nat, Kept, now' = now + 1
  PROVE  StreamStep
<1>1. now' \in Nat /\ now' > now
  OBVIOUS
<1>2. Stream!Tick
  BY <1>1 DEF Kept, Stream!Tick, TimestampsOf
<1> QED BY <1>2 DEF StreamStep, Stream!Next

LEMMA Dropped ==
  ASSUME Lost, UNCHANGED now
  PROVE  StreamStep
<1>1. Stream!Drop
  BY DEF Lost, Waiting, Stream!Drop
<1> QED BY <1>1 DEF StreamStep, Stream!Next

LEMMA Simulation ==
  ASSUME SafeTeardown, IInv, Youngest, Next
  PROVE  StreamStep
<1> USE DEF IInv
<1>0. now \in Nat /\ current_timestamp \in Nat /\ QueueTypes
  BY DEF TypeOK, FillTypes
<1>1. CASE IsrBlock
  BY <1>0, <1>1, Ticked DEF IsrBlock, Kept, queues, count
<1>2. CASE IsrPush
  <2>1. /\ Waiting' = Append(Waiting, current_timestamp) /\ Len(Waiting) < PoolSize
        /\ UNCHANGED <<delivered, now>>
    BY <1>2, Recorded DEF IsrPush, sound
  <2>2. channel /\ ~InWindow /\ now = current_timestamp + ChunkBlocks
    BY <1>2 DEF IsrPush, InWindow, Goto, Control, Sound
  <2>3. current_timestamp \in 0 .. now /\ \A k \in Stream!Known : k < current_timestamp
    BY <2>2, <1>0, PoolAssumption DEF Youngest, Known
  <2>4. Stream!Record
    BY <2>1, <2>3 DEF Stream!Record, Waiting
  <2> QED BY <2>4 DEF StreamStep, Stream!Next
<1>3. CASE IsrSwap
  BY <1>3, Stuttered DEF IsrSwap, Kept, count, sound
<1>4. CASE IsrSteal
  <2>1. CASE audio_queue # <<>>
    BY <1>0, <1>4, <2>1, Oldest, Dropped DEF IsrSteal, Lost, Waiting, sound
  <2>2. CASE audio_queue = <<>>
    BY <1>4, <2>2, Stuttered DEF IsrSteal, Kept, sound
  <2> QED BY <2>1, <2>2
<1>5. ASSUME NEW t \in Tasks, Enable(t) PROVE StreamStep
  BY <1>0, <1>5, Ticked DEF Enable, Kept, queues, count
<1>6. ASSUME NEW t \in Tasks, DrainAudio(t) PROVE StreamStep
  <2>1. CASE audio_queue # <<>>
    BY <1>0, <1>6, <2>1, Oldest, Dropped DEF DrainAudio, Lost, Waiting, sound
  <2>2. CASE audio_queue = <<>>
    BY <1>6, <2>2, Stuttered DEF DrainAudio, Kept, sound
  <2> QED BY <2>1, <2>2
<1>7. ASSUME NEW t \in Tasks, ResetBegin(t) \/ DrainEmpty(t) \/ Refill(t) \/ ResetEnd(t)
      PROVE  StreamStep
  BY <1>7, Stuttered DEF ResetBegin, DrainEmpty, Refill, ResetEnd, Kept, queues, count, sound
<1>8. CASE Wake \/ CheckRecording \/ TakeToken \/ RecorderDisable \/ RecorderPause
  BY <1>8, Stuttered DEF Wake, CheckRecording, TakeToken, RecorderDisable, RecorderPause,
                         Kept, queues, count, sound
<1>9. CASE Start \/ Notify \/ Stop \/ StopDisable \/ StopGive \/ Destroy \/ DestroyChannel
  BY <1>9, Stuttered DEF Start, Notify, Stop, StopDisable, StopGive, Destroy, DestroyChannel,
                         Kept, queues, count, sound
<1>10. CASE GetAudio
  <2>1. /\ Waiting' = Tail(Waiting) /\ delivered' = Append(delivered, Head(Waiting))
        /\ Waiting # <<>> /\ UNCHANGED now
    BY <1>0, <1>10, Oldest DEF GetAudio, Waiting, sound
  <2>2. Stream!Deliver
    BY <2>1 DEF Stream!Deliver, Waiting
  <2> QED BY <2>2 DEF StreamStep, Stream!Next
<1>11. CASE GetAudioTimeout \/ ReturnBuffer \/ ResetCount
  BY <1>11, Stuttered DEF GetAudioTimeout, ReturnBuffer, ResetCount, Kept, queues, count,
                          sound, vars
<1>12. CASE DestroyFree
  <2>1. Stream!Clear
    BY <1>12 DEF DestroyFree, Stream!Clear, TimestampsOf, count, sound
  <2> QED BY <2>1 DEF StreamStep, Stream!Next
<1> QED BY <1>1, <1>2, <1>3, <1>4, <1>5, <1>6, <1>7, <1>8, <1>9, <1>10, <1>11, <1>12
        DEF Next, Isr, Recorder, Client, Reset, Tasks

-----------------------------------------------------------------------------
\* What the stream promises of the order: start times grow from the first chunk
\* delivered to the last one waiting.
Ordered(q) == \A i, j \in DOMAIN q : i < j => q[i] < q[j]

InOrder ==
  /\ Ordered(Waiting) /\ Ordered(delivered)
  /\ \A s \in ToSet(delivered), t \in ToSet(Waiting) : s < t

LEMMA OrderedTail ==
  ASSUME NEW q \in Seq(Nat), q # <<>>, Ordered(q)
  PROVE  Ordered(Tail(q)) /\ \A t \in ToSet(Tail(q)) : Head(q) < t
<1>1. /\ Len(q) \in Nat /\ Len(q) > 0 /\ Head(q) = q[1] /\ DOMAIN q = 1 .. Len(q)
      /\ DOMAIN Tail(q) = 1 .. Len(q) - 1
      /\ \A i \in 1 .. Len(q) - 1 : Tail(q)[i] = q[i + 1]
  BY TailFacts
<1>2. ASSUME NEW i \in 1 .. Len(q) - 1
      PROVE  i + 1 \in 1 .. Len(q) /\ q[1] < q[i + 1]
  BY <1>1 DEF Ordered
<1>3. ASSUME NEW i \in 1 .. Len(q) - 1, NEW j \in 1 .. Len(q) - 1, i < j
      PROVE  q[i + 1] < q[j + 1]
  BY <1>1, <1>3 DEF Ordered
<1> QED BY <1>1, <1>2, <1>3 DEF Ordered, ToSet

LEMMA OrderedAppend ==
  ASSUME NEW q \in Seq(Nat), Ordered(q), NEW t \in Nat, \A s \in ToSet(q) : s < t
  PROVE  Ordered(Append(q, t))
<1>1. /\ Len(q) \in Nat /\ DOMAIN q = 1 .. Len(q)
      /\ DOMAIN Append(q, t) = 1 .. Len(q) + 1
      /\ Append(q, t)[Len(q) + 1] = t
      /\ \A i \in 1 .. Len(q) : Append(q, t)[i] = q[i]
  BY AppendFacts
<1>2. \A i \in 1 .. Len(q) : q[i] < t
  BY <1>1 DEF ToSet
<1>3. ASSUME NEW i \in 1 .. Len(q) + 1, NEW j \in 1 .. Len(q) + 1, i < j
      PROVE  Append(q, t)[i] < Append(q, t)[j]
  <2>1. i \in 1 .. Len(q)
    BY <1>1, <1>3
  <2>2. CASE j = Len(q) + 1
    BY <1>1, <1>2, <2>1, <2>2
  <2>3. CASE j \in 1 .. Len(q)
    BY <1>1, <1>3, <2>1, <2>3 DEF Ordered
  <2> QED BY <1>1, <2>2, <2>3
<1> QED BY <1>1, <1>3 DEF Ordered

\* Whatever implements the stream keeps the order.
LEMMA OrderStep ==
  ASSUME Waiting \in Seq(Nat), delivered \in Seq(Nat), now \in Nat, InOrder, StreamStep
  PROVE  InOrder'
<1> USE DEF Waiting
<1>0. /\ UNCHANGED <<TimestampsOf(audio_queue), delivered>> => InOrder'
  BY DEF InOrder, Ordered, ToSet
<1>1. CASE Stream!Record
  <2>1. PICK t \in 0 .. now : /\ \A s \in Known : s < t
                              /\ Waiting' = Append(Waiting, t)
    BY <1>1 DEF Stream!Record, Known
  <2>2. t \in Nat /\ UNCHANGED delivered
    BY <1>1 DEF Stream!Record
  <2>3. Ordered(Waiting')
    BY <2>1, <2>2, OrderedAppend, KnownIs DEF InOrder
  <2>4. ToSet(Waiting') = ToSet(Waiting) \cup {t}
    BY <2>1, <2>2, AppendFacts
  <2> QED BY <2>1, <2>2, <2>3, <2>4, KnownIs DEF InOrder
<1>2. CASE Stream!Deliver
  <2>1. /\ Waiting # <<>> /\ Waiting' = Tail(Waiting)
        /\ delivered' = Append(delivered, Head(Waiting))
    BY <1>2 DEF Stream!Deliver
  <2>2. /\ Head(Waiting) \in Nat /\ ToSet(Waiting) = {Head(Waiting)} \cup ToSet(Waiting')
        /\ Ordered(Waiting') /\ \A t \in ToSet(Waiting') : Head(Waiting) < t
    BY <2>1, TailFacts, OrderedTail DEF InOrder
  <2>3. ToSet(delivered') = ToSet(delivered) \cup {Head(Waiting)}
    BY <2>1, <2>2, AppendFacts
  <2>4. Ordered(delivered')
    BY <2>1, <2>2, OrderedAppend DEF InOrder
  <2> QED BY <2>2, <2>3, <2>4 DEF InOrder
<1>3. CASE Stream!Drop
  <2>1. Waiting # <<>> /\ Waiting' = Tail(Waiting) /\ UNCHANGED delivered
    BY <1>3 DEF Stream!Drop
  <2>2. ToSet(Waiting') \subseteq ToSet(Waiting) /\ Ordered(Waiting')
    BY <2>1, TailFacts, OrderedTail DEF InOrder
  <2> QED BY <2>1, <2>2 DEF InOrder
<1>4. CASE Stream!Clear
  BY <1>4 DEF Stream!Clear, InOrder, Ordered, ToSet
<1>5. CASE Stream!Tick \/ UNCHANGED Stream!vars
  BY <1>5, <1>0 DEF Stream!Tick, Stream!vars
<1> QED BY <1>1, <1>2, <1>3, <1>4, <1>5 DEF StreamStep, Stream!Next

-----------------------------------------------------------------------------
LEMMA Younger ==
  ASSUME SafeTeardown
  PROVE  Spec => []Youngest
<1>1. Init => Youngest
  BY DEF Init, Youngest, Known, Stream!Known, Stream!ToSet, TimestampsOf, InWindow, Threads
<1>2. IInv /\ Youngest /\ [Next]_vars => Youngest'
  <2>1. ASSUME IInv, Youngest, UNCHANGED vars PROVE Youngest'
    <3>1. Known' = Known
      BY <2>1, SameKnown DEF vars, queues, count, Kept
    <3>2. UNCHANGED <<pc, channel, current_timestamp, now>>
      BY <2>1 DEF vars, fill, sound, ctrl
    <3> QED BY <2>1, <3>1, <3>2, YoungestSame DEF IInv
  <2> QED BY <2>1, YoungestStep
<1> QED BY <1>1, <1>2, Invariance, PTL DEF Spec

\* The consumer sees every chunk after all older ones and before all that still
\* wait, for every pool and chunk size: get_audio() never goes back in time.
THEOREM DeliveredInOrder ==
  ASSUME SafeTeardown
  PROVE  Spec => []InOrder
<1>1. Init => InOrder
  BY DEF Init, InOrder, Ordered, Waiting, TimestampsOf, ToSet
<1>2. IInv /\ Youngest /\ InOrder /\ [Next]_vars => InOrder'
  <2>1. ASSUME UNCHANGED vars PROVE StreamStep
    BY <2>1, Stuttered DEF vars, queues, count, sound, Kept
  <2>2. IInv => Waiting \in Seq(Nat) /\ delivered \in Seq(Nat) /\ now \in Nat
    BY TimestampsOfFacts DEF IInv, TypeOK, QueueTypes, CountTypes, FillTypes, Waiting
  <2> QED BY <2>1, <2>2, Simulation, OrderStep
<1> QED BY <1>1, <1>2, Invariance, Younger, PTL DEF Spec

\* get_audio() hands out chunks in the order they were recorded, each once, and
\* only the oldest waiting chunk is ever given up (i2s_microphone.cpp), for every
\* pool and chunk size, with a recorder or without.
THEOREM StreamImplemented ==
  ASSUME SafeTeardown
  PROVE  Spec => ImplementsStream
<1>1. Init => Stream!Init
  BY DEF Init, Stream!Init, TimestampsOf
<1>2. IInv /\ Youngest /\ [Next]_vars => [Stream!Next]_Stream!vars
  <2>1. ASSUME UNCHANGED vars PROVE StreamStep
    BY <2>1, Stuttered DEF vars, queues, count, sound, Kept
  <2> QED BY <2>1, Simulation DEF StreamStep
<1> QED BY <1>1, <1>2, Invariance, Younger, PTL DEF Spec, ImplementsStream, Stream!Spec

=============================================================================
