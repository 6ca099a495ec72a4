-------------------------- MODULE SnoringAppProofs --------------------------
(***************************************************************************)
(* The firmware put together: audio_task is one of the clients the driver  *)
(* promises its recordings to, and therefore what the broker gets are      *)
(* whole recordings in the order they were made, for every pool and chunk  *)
(* size and whatever becomes of the connections.                           *)
(***************************************************************************)
EXTENDS SnoringApp, I2SMicrophoneProofs

-----------------------------------------------------------------------------
\* What the steps of the firmware are to its parts.
DriverKept == UNCHANGED vars

LEMMA DriverStep ==
  ASSUME AppNext
  PROVE  [Next]_vars
<1>1. CASE AppMain \/ LockMain \/ Publish
  BY <1>1 DEF AppMain, Construct, CreateAudioTask, LockMain, Publish
<1>2. CASE Background
  BY <1>2 DEF Background, BackgroundLock, BackgroundUnlock, Connection, Report,
              BackgroundWrites, Local
<1>3. CASE AudioTask
  BY <1>3 DEF AudioTask, StartMicrophone, TakeChunk, CheckConnected, CopySamples, CheckAgain,
              DropHandle, Next, Client
<1>4. CASE Microphone(Isr) \/ Microphone(Recorder)
  BY <1>4 DEF Microphone, Next
<1> QED BY <1>1, <1>2, <1>3, <1>4 DEF AppNext

\* audio_task, stop() and the destructor aside, is one of the clients
\* I2SMicrophone allows (main.cpp): all that is proved of the driver holds here.
THEOREM DriverImplemented == AppSpec => Spec
<1>1. AppInit => Init
  BY DEF AppInit
<1>2. [AppNext]_appvars => [Next]_vars
  BY DriverStep DEF appvars
<1> QED BY <1>1, <1>2, PTL DEF AppSpec, Spec

-----------------------------------------------------------------------------
Message == [timestamp : Nat, samples : Seq(Nat)]

Unsent == {"check", "copy", "publish", "lock", "send"}

AppTypes ==
  /\ audio \in Unsent \cup {"none", "start", "get", "return"}
  /\ msg \in Message /\ received \in Seq(Message)
  /\ partial \in Nat /\ failed \subseteq Nat

\* The handle is alive from get_audio() to the end of the loop's body.
Handle ==
  /\ audio \in Unsent \cup {"return"} => \E c \in held : held = {c}
  /\ audio \notin Unsent \cup {"return"} => held = {}

\* How far the copying has come.
Copied ==
  /\ audio \in {"copy", "publish", "lock", "send"} =>
       \A c \in held : msg.timestamp = c.timestamp
  /\ audio = "copy" =>
       /\ Len(msg.samples) < ChunkBlocks
       /\ \A i \in 1 .. Len(msg.samples) : msg.samples[i] = msg.timestamp + i
  /\ audio \in {"publish", "lock", "send"} => Recording(msg)

\* A message the stream ends within is one whose publish returned an error.
Marked == partial # Nobody => partial \in failed


Intact == AppTypes /\ Handle /\ Copied /\ Marked /\ PublishedIsIntact

\* A chunk is audio_task's from get_audio() until its handle ends.
Busy == audio \in Unsent \cup {"return"}

LEMMA ChunksKept ==
  ASSUME Isr \/ Recorder \/ Start \/ Notify
  PROVE  UNCHANGED <<held, delivered>>
BY DEF Isr, IsrBlock, IsrPush, IsrSwap, IsrSteal, Recorder, Wake, CheckRecording, TakeToken,
       RecorderDisable, RecorderPause, Reset, ResetBegin, DrainAudio, DrainEmpty, Refill,
       ResetEnd, Enable, Start, Notify, count

\* Where audio_task goes, and with which chunk.
LEMMA TaskMoves ==
  ASSUME AppNext
  PROVE  \/ TakeChunk
         \/ DropHandle
         \/ /\ UNCHANGED <<held, delivered>> /\ Busy' = Busy
            /\ audio' \in Unsent => audio \in Unsent
<1> USE DEF Busy, Unsent
<1>1. CASE AppMain \/ LockMain \/ Publish
  BY <1>1 DEF AppMain, Construct, CreateAudioTask, LockMain, Publish, vars, count
<1>2. CASE Background
  BY <1>2 DEF Background, BackgroundLock, BackgroundUnlock, Connection, Report,
              BackgroundWrites, Local, vars, count
<1>3. CASE StartMicrophone
  BY <1>3, ChunksKept DEF StartMicrophone, Step
<1>4. CASE CheckConnected \/ CopySamples \/ CheckAgain
  BY <1>4 DEF CheckConnected, CopySamples, CheckAgain, Step, vars, count
<1>5. CASE Microphone(Isr) \/ Microphone(Recorder)
  BY <1>5, ChunksKept DEF Microphone
<1> QED BY <1>1, <1>2, <1>3, <1>4, <1>5 DEF AppNext, AudioTask

\* What the broker and the caller of publish get to see.
LEMMA BrokerSees ==
  ASSUME AppNext
  PROVE  \/ UNCHANGED <<received, failed>> /\ partial' \in {partial, Nobody}
         \/ /\ partial # Nobody /\ partial' = Nobody
            /\ received' = Append(received, Damaged(partial))
            /\ UNCHANGED failed
         \/ /\ audio = "send" /\ audio' = "return"
            /\ \/ /\ UNCHANGED failed /\ partial' = Nobody
                  /\ received' \in {received, Append(received, msg)}
               \/ /\ UNCHANGED failed /\ partial' = Nobody /\ partial # Nobody
                  /\ received' = Append(received, Damaged(partial))
               \/ /\ failed' = failed \cup {msg.timestamp}
                  /\ \/ UNCHANGED received /\ partial' \in {partial, Nobody, msg.timestamp}
                     \/ /\ partial # Nobody /\ partial' = Nobody
                        /\ received' = Append(received, Damaged(partial))
<1>1. CASE AppMain \/ LockMain
  BY <1>1 DEF AppMain, Construct, CreateAudioTask, LockMain, network
<1>2. CASE BackgroundLock \/ BackgroundUnlock \/ Connection \/ Report
  BY <1>2 DEF BackgroundLock, BackgroundUnlock, Connection, Report, Local, NewStream
<1>3. CASE BackgroundWrites
  BY <1>3 DEF BackgroundWrites, WriteBytes, BreakOff, Local
<1>4. CASE AudioTask
  BY <1>4 DEF AudioTask, StartMicrophone, TakeChunk, CheckConnected, CopySamples, CheckAgain,
              DropHandle, network
<1>5. CASE Publish
  BY <1>5 DEF Publish, WriteMessage, WriteBytes, BreakOff
<1>6. CASE Microphone(Isr) \/ Microphone(Recorder)
  BY <1>6 DEF Microphone, network
<1> QED BY <1>1, <1>2, <1>3, <1>4, <1>5, <1>6 DEF AppNext, Background

\* Only the copying changes the static message.
LEMMA MessageKept ==
  ASSUME AppNext
  PROVE  \/ CheckConnected
         \/ CopySamples
         \/ /\ UNCHANGED msg
            /\ audio' # "copy" \/ audio = "copy"
            /\ audio' \in {"publish", "lock", "send"} => audio \in {"publish", "lock", "send"}
<1>1. CASE AppMain \/ LockMain \/ Publish
  BY <1>1 DEF AppMain, Construct, CreateAudioTask, LockMain, Publish
<1>2. CASE Background
  BY <1>2 DEF Background, BackgroundLock, BackgroundUnlock, Connection, Report,
              BackgroundWrites, Local
<1>3. CASE StartMicrophone \/ TakeChunk \/ CheckAgain \/ DropHandle
  BY <1>3 DEF StartMicrophone, TakeChunk, CheckAgain, DropHandle, Step
<1>5. CASE Microphone(Isr) \/ Microphone(Recorder)
  BY <1>5 DEF Microphone
<1> QED BY <1>1, <1>2, <1>3, <1>5 DEF AppNext, AudioTask

LEMMA HandleStep ==
  ASSUME Handle, AppNext
  PROVE  Handle'
<1>1. CASE TakeChunk
  <2>1. held = {} /\ audio' = "check"
    BY <1>1 DEF TakeChunk, Step, Handle, Unsent
  <2>2. held' = held \cup {Head(audio_queue)}
    BY <1>1 DEF TakeChunk, GetAudio
  <2> QED BY <2>1, <2>2 DEF Handle, Unsent
<1>2. CASE DropHandle
  <2>1. audio' = "get" /\ \E c \in held : held = {c}
    BY <1>2 DEF DropHandle, Step, Handle, Unsent
  <2>2. \E c \in held : held' = held \ {c}
    BY <1>2 DEF DropHandle, ReturnBuffer
  <2>3. held' = {}
    BY <2>1, <2>2
  <2> QED BY <2>1, <2>3 DEF Handle, Unsent
<1>3. CASE UNCHANGED held /\ Busy' = Busy
  BY <1>3 DEF Handle, Busy
<1> QED BY <1>1, <1>2, <1>3, TaskMoves

LEMMA CopiedStep ==
  ASSUME TypeOK, ChunkIntact, AppTypes, Handle, Copied, AppNext
  PROVE  Copied'
<1> USE PoolAssumption
<1>1. CASE CheckConnected
  <2>1. /\ audio' \in {"copy", "return"} /\ UNCHANGED held
        /\ audio' = "copy" => \E c \in held : msg' = AudioMessage(c.timestamp, <<>>)
    BY <1>1 DEF CheckConnected, Step, vars
  <2>2. CASE audio' = "return"
    BY <2>2 DEF Copied
  <2>3. CASE audio' = "copy"
    <3>1. PICK c \in held : msg' = AudioMessage(c.timestamp, <<>>)
      BY <2>1, <2>3
    <3>2. held = {c}
      BY <1>1 DEF Handle, CheckConnected, Step, Unsent
    <3>3. msg'.timestamp = c.timestamp /\ Len(msg'.samples) = 0
      BY <3>1 DEF AudioMessage
    <3> QED BY <2>1, <2>3, <3>2, <3>3 DEF Copied
  <2> QED BY <2>1, <2>2, <2>3
<1>2. CASE CopySamples
  <2> DEFINE n == Len(msg.samples)
  <2>1. PICK c \in held :
          /\ audio = "copy" /\ UNCHANGED held
          /\ msg' = [msg EXCEPT !.samples = Append(@, data[c.buffer][n + 1])]
          /\ audio' = IF n + 1 = ChunkBlocks THEN "publish" ELSE "copy"
    BY <1>2 DEF CopySamples, vars
  <2>2. held = {c} /\ msg.timestamp = c.timestamp
    BY <2>1 DEF Handle, Copied, Unsent
  <2>3. /\ n \in Nat /\ n < ChunkBlocks /\ ChunkBlocks \in Nat
        /\ msg.samples \in Seq(Nat) /\ msg.timestamp \in Nat
        /\ \A i \in 1 .. n : msg.samples[i] = msg.timestamp + i
    BY <2>1 DEF Copied, AppTypes, Message
  <2>4. data[c.buffer][n + 1] = c.timestamp + (n + 1)
    BY <2>3 DEF ChunkIntact
  <2>5. /\ msg'.timestamp = msg.timestamp
        /\ msg'.samples = Append(msg.samples, msg.timestamp + (n + 1))
    BY <2>1, <2>2, <2>4 DEF AppTypes, Message
  <2> HIDE DEF n
  <2>6. /\ Len(msg'.samples) = n + 1 /\ msg'.samples \in Seq(Nat)
        /\ \A i \in 1 .. n + 1 : msg'.samples[i] = msg.timestamp + i
    BY <2>3, <2>5 DEF n
  <2>7. CASE n + 1 = ChunkBlocks
    <3>1. Recording(msg')
      BY <2>5, <2>6, <2>7 DEF Recording
    <3>2. audio' = "publish" /\ held' = {c} /\ msg'.timestamp = c.timestamp
      BY <2>1, <2>2, <2>5, <2>7 DEF n
    <3> QED BY <3>1, <3>2 DEF Copied, Recording
  <2>8. CASE n + 1 # ChunkBlocks
    <3>1. n + 1 < ChunkBlocks
      BY <2>3, <2>8
    <3>2. audio' = "copy" /\ held' = {c} /\ msg'.timestamp = c.timestamp
      BY <2>1, <2>2, <2>5, <2>8 DEF n
    <3> QED BY <2>5, <2>6, <3>1, <3>2 DEF Copied
  <2> QED BY <2>7, <2>8
<1>3. CASE /\ UNCHANGED msg
           /\ audio' # "copy" \/ audio = "copy"
           /\ audio' \in {"publish", "lock", "send"} => audio \in {"publish", "lock", "send"}
  <2>1. CASE TakeChunk \/ DropHandle
    BY <2>1 DEF TakeChunk, DropHandle, Step, Copied
  <2>2. CASE UNCHANGED held
    BY <1>3, <2>2 DEF Copied, Recording
  <2> QED BY <2>1, <2>2, TaskMoves
<1> QED BY <1>1, <1>2, <1>3, MessageKept

LEMMA AudioStep ==
  ASSUME AppTypes, AppNext
  PROVE  audio' \in Unsent \cup {"none", "start", "get", "return"}
<1> USE DEF AppTypes, Unsent
<1>1. CASE AppMain \/ LockMain \/ Publish
  BY <1>1 DEF AppMain, Construct, CreateAudioTask, LockMain, Publish
<1>2. CASE Background
  BY <1>2 DEF Background, BackgroundLock, BackgroundUnlock, Connection, Report,
              BackgroundWrites, Local
<1>3. CASE AudioTask
  BY <1>3 DEF AudioTask, StartMicrophone, TakeChunk, CheckConnected, CopySamples, CheckAgain,
              DropHandle, Step
<1>4. CASE Microphone(Isr) \/ Microphone(Recorder)
  BY <1>4 DEF Microphone
<1> QED BY <1>1, <1>2, <1>3, <1>4 DEF AppNext

LEMMA AppTypesStep ==
  ASSUME TypeOK, AppTypes, Handle, Copied, AppNext
  PROVE  AppTypes'
<1>1. msg \in Message /\ msg.timestamp \in Nat /\ msg.samples \in Seq(Nat)
  BY DEF AppTypes, Message
<1>2. msg' \in Message
  <2>1. CASE CheckConnected
    <3>1. PICK c \in held : msg' = AudioMessage(c.timestamp, <<>>) \/ msg' = msg
      BY <2>1 DEF CheckConnected
    <3>2. c.timestamp \in Nat /\ <<>> \in Seq(Nat)
      BY ChunkFields DEF TypeOK, QueueTypes
    <3>3. AudioMessage(c.timestamp, <<>>) \in Message
      BY <3>2 DEF AudioMessage, Message
    <3> QED BY <1>1, <3>1, <3>3
  <2>2. CASE CopySamples
    <3> DEFINE n == Len(msg.samples)
    <3>1. PICK c \in held : /\ audio = "copy"
                            /\ msg' = [msg EXCEPT !.samples = Append(@, data[c.buffer][n + 1])]
      BY <2>2 DEF CopySamples
    <3>2. c.buffer \in Buffers /\ n + 1 \in 1 .. ChunkBlocks
      BY <1>1, <3>1, PoolAssumption, ChunkFields DEF TypeOK, QueueTypes, Copied
    <3>3. data[c.buffer][n + 1] \in Nat
      BY <3>2 DEF TypeOK, FillTypes
    <3>4. Append(msg.samples, data[c.buffer][n + 1]) \in Seq(Nat)
      BY <1>1, <3>3
    <3> QED BY <1>1, <3>1, <3>4 DEF Message
  <2>3. CASE UNCHANGED msg
    BY <2>3, <1>1
  <2> QED BY <2>1, <2>2, <2>3, MessageKept
<1>3. partial \in Nat /\ received \in Seq(Message) /\ failed \subseteq Nat
  BY DEF AppTypes
<1>4. Damaged(partial) \in Message
  BY <1>3 DEF Damaged, AudioMessage, Message
<1>5. /\ partial' \in {partial, Nobody, msg.timestamp}
      /\ failed' \in {failed, failed \cup {msg.timestamp}}
      /\ received' \in {received, Append(received, Damaged(partial)), Append(received, msg)}
  BY BrokerSees
<1>6. partial' \in Nat /\ failed' \subseteq Nat
  BY <1>1, <1>3, <1>5 DEF Nobody
<1>7. received' \in Seq(Message)
  <2>1. ASSUME NEW m \in Message PROVE Append(received, m) \in Seq(Message)
    BY <1>3, AppendFacts
  <2> QED BY <1>1, <1>3, <1>4, <1>5, <2>1
<1> QED BY <1>2, <1>6, <1>7, AudioStep DEF AppTypes

\* One more message of the kind the broker may get.
LEMMA IntactAppend ==
  ASSUME received \in Seq(Message), NEW m \in Message, PublishedIsIntact,
         received' = Append(received, m), failed \subseteq failed',
         Recording(m) \/ m.timestamp \in failed
  PROVE  PublishedIsIntact'
<1>1. /\ Len(received) \in Nat /\ DOMAIN received = 1 .. Len(received)
      /\ DOMAIN received' = 1 .. Len(received) + 1
      /\ received'[Len(received) + 1] = m
      /\ \A i \in 1 .. Len(received) : received'[i] = received[i]
  BY AppendFacts
<1>2. ASSUME NEW i \in 1 .. Len(received) + 1
      PROVE  Recording(received'[i]) \/ received'[i].timestamp \in failed'
  <2>1. CASE i = Len(received) + 1
    BY <1>1, <2>1
  <2>2. CASE i \in 1 .. Len(received)
    BY <1>1, <2>2 DEF PublishedIsIntact, Recording
  <2> QED BY <1>1, <2>1, <2>2
<1> QED BY <1>1, <1>2 DEF PublishedIsIntact, Recording

LEMMA MarkedStep ==
  ASSUME AppTypes, Copied, Marked, PublishedIsIntact, AppNext
  PROVE  Marked' /\ PublishedIsIntact'
<1>1. failed \subseteq failed'
  BY BrokerSees
<1>2. Marked'
  BY BrokerSees DEF Marked
<1>3. PublishedIsIntact'
  <2>1. CASE UNCHANGED received
    BY <2>1, <1>1 DEF PublishedIsIntact, Recording
  <2>2. CASE partial # Nobody /\ received' = Append(received, Damaged(partial))
    <3>1. Damaged(partial) \in Message /\ Damaged(partial).timestamp \in failed
      BY <2>2 DEF Damaged, AudioMessage, Message, Marked, AppTypes
    <3> QED BY <1>1, <2>2, <3>1, IntactAppend DEF AppTypes
  <2>3. CASE audio = "send" /\ received' = Append(received, msg)
    BY <1>1, <2>3, IntactAppend DEF AppTypes, Copied
  <2> QED BY <2>1, <2>2, <2>3, BrokerSees
<1> QED BY <1>2, <1>3

LEMMA Intactness ==
  ASSUME SafeTeardown
  PROVE  AppSpec => []Intact
<1>1. AppInit => Intact
  BY DEF AppInit, Init, Intact, AppTypes, Handle, Copied, Marked, PublishedIsIntact, Message,
         AudioMessage, Unsent, Nobody
<1>2. IInv /\ Intact /\ [AppNext]_appvars => Intact'
  <2>1. ASSUME IInv, Intact, AppNext PROVE Intact'
    BY <2>1, AppTypesStep, HandleStep, CopiedStep, MarkedStep DEF Intact, IInv, Sound
  <2>2. ASSUME Intact, UNCHANGED appvars PROVE Intact'
    BY <2>2 DEF appvars, vars, network, Intact, AppTypes, Handle, Copied, Marked,
                PublishedIsIntact, Recording
  <2> QED BY <2>1, <2>2
<1>3. AppSpec => []IInv
  BY DriverImplemented, Invariance, PTL
<1> QED BY <1>1, <1>2, <1>3, PTL DEF AppSpec

\* Whatever the broker takes for a chunk is one gapless recording that starts
\* right after its timestamp, unless its publish returned an error (main.cpp,
\* audio_task): for every pool and chunk size, although the interrupt goes on
\* recording while the samples are copied and sent.
THEOREM PublishesIntact ==
  ASSUME SafeTeardown
  PROVE  AppSpec => []PublishedIsIntact
BY Intactness, PTL DEF Intact

-----------------------------------------------------------------------------
(***************************************************************************)
(* The order of what the broker gets: each chunk it has, or has begun to   *)
(* get, was delivered before the one audio_task is about to send.          *)
(***************************************************************************)
Out == {m.timestamp : m \in ToSet(received)}
Begun == Out \cup ({partial} \ {Nobody})

Broker ==
  /\ InRecordingOrder
  /\ partial # Nobody => \A t \in Out : t < partial
  /\ Begun \subseteq ToSet(delivered)
  /\ \A c \in held : c.timestamp \in ToSet(delivered)
  /\ audio \in Unsent => \A c \in held : \A t \in Begun : t < c.timestamp

LEMMA OrderAppend ==
  ASSUME received \in Seq(Message), NEW m \in Message, InRecordingOrder,
         received' = Append(received, m), \A t \in Out : t < m.timestamp
  PROVE  InRecordingOrder' /\ Out' = Out \cup {m.timestamp}
<1>1. /\ Len(received) \in Nat /\ DOMAIN received = 1 .. Len(received)
      /\ DOMAIN received' = 1 .. Len(received) + 1
      /\ received'[Len(received) + 1] = m
      /\ \A i \in 1 .. Len(received) : received'[i] = received[i]
      /\ ToSet(received') = ToSet(received) \cup {m}
  BY AppendFacts
<1>2. \A i \in 1 .. Len(received) : received[i].timestamp < m.timestamp
  BY <1>1 DEF Out, ToSet
<1>3. ASSUME NEW i \in 1 .. Len(received) + 1, NEW j \in 1 .. Len(received) + 1, i < j
      PROVE  received'[i].timestamp < received'[j].timestamp
  <2>1. i \in 1 .. Len(received)
    BY <1>1, <1>3
  <2>2. CASE j = Len(received) + 1
    BY <1>1, <1>2, <2>1, <2>2
  <2>3. CASE j \in 1 .. Len(received)
    BY <1>1, <1>3, <2>1, <2>3 DEF InRecordingOrder
  <2> QED BY <1>1, <2>2, <2>3
<1>4. Out' = Out \cup {m.timestamp}
  BY <1>1 DEF Out
<1> QED BY <1>1, <1>3, <1>4 DEF InRecordingOrder

\* A step after which nothing new has reached the broker, or only the end of a
\* message it has had the beginning of.
LEMMA BrokerSame ==
  ASSUME AppTypes, Broker, UNCHANGED delivered, held' \subseteq held,
         audio' \in Unsent => audio \in Unsent,
         \/ UNCHANGED received /\ partial' \in {partial, Nobody}
         \/ /\ partial # Nobody /\ partial' = Nobody
            /\ received' = Append(received, Damaged(partial))
  PROVE  Broker'
<1>1. CASE UNCHANGED received /\ partial' \in {partial, Nobody}
  <2>1. Out' = Out /\ Begun' \subseteq Begun /\ InRecordingOrder'
    BY <1>1, Zenon DEF Out, Begun, Broker, InRecordingOrder
  <2> QED BY <1>1, <2>1 DEF Broker
<1>2. CASE /\ partial # Nobody /\ partial' = Nobody
           /\ received' = Append(received, Damaged(partial))
  <2>1. Damaged(partial) \in Message /\ Damaged(partial).timestamp = partial
    BY DEF Damaged, AudioMessage, Message, AppTypes
  <2>2. InRecordingOrder' /\ Out' = Out \cup {partial}
    BY <1>2, <2>1, OrderAppend DEF Broker, AppTypes
  <2>3. Begun' = Begun
    BY <1>2, <2>2 DEF Begun
  <2> QED BY <1>2, <2>2, <2>3 DEF Broker
<1> QED BY <1>1, <1>2

LEMMA BrokerStep ==
  ASSUME TypeOK, InOrder, AppTypes, Handle, Copied, Broker, AppNext
  PROVE  Broker'
<1>1. CASE TakeChunk
  <2> DEFINE c == Head(audio_queue)
  <2>1. /\ audio_queue # <<>> /\ held' = held \cup {c} /\ held = {}
        /\ delivered' = Append(delivered, c.timestamp)
        /\ UNCHANGED <<received, partial>>
    BY <1>1 DEF TakeChunk, GetAudio, Step, Handle, Unsent, network
  <2>2. c \in Chunk /\ c.timestamp \in Nat /\ c.timestamp = Head(Waiting)
    BY <2>1, OldestChunk, Oldest DEF TypeOK
  <2>3. c.timestamp \in ToSet(Waiting)
    BY <2>1, <2>2, Oldest, TailFacts DEF TypeOK
  <2>4. \A t \in ToSet(delivered) : t < c.timestamp
    BY <2>3 DEF InOrder
  <2>5. ToSet(delivered') = ToSet(delivered) \cup {c.timestamp}
    BY <2>1, <2>2, AppendFacts DEF TypeOK, CountTypes
  <2>6. InRecordingOrder' /\ Out' = Out /\ Begun' = Begun
    BY <2>1 DEF Broker, InRecordingOrder, Out, Begun
  <2> HIDE DEF c
  <2> QED BY <2>1, <2>4, <2>5, <2>6 DEF Broker
<1>2. CASE DropHandle
  <2>1. /\ UNCHANGED <<received, partial, delivered>> /\ held' \subseteq held
        /\ audio' \notin Unsent
    BY <1>2 DEF DropHandle, ReturnBuffer, Step, network, count, Unsent
  <2> QED BY <2>1, BrokerSame
<1>3. CASE UNCHANGED <<held, delivered>> /\ (audio' \in Unsent => audio \in Unsent)
  <2>1. CASE UNCHANGED received /\ partial' \in {partial, Nobody}
    BY <1>3, <2>1, BrokerSame
  <2>2. CASE /\ partial # Nobody /\ partial' = Nobody
             /\ received' = Append(received, Damaged(partial))
    BY <1>3, <2>2, BrokerSame
  <2>3. CASE /\ audio = "send" /\ audio' = "return"
             /\ \/ partial' = Nobody /\ received' = Append(received, msg)
                \/ partial' = msg.timestamp /\ UNCHANGED received
    <3>1. PICK c \in held : msg.timestamp = c.timestamp
      BY <2>3 DEF Handle, Copied, Unsent
    <3>2. /\ msg.timestamp \in ToSet(delivered) /\ msg \in Message
          /\ \A t \in Begun : t < msg.timestamp
      BY <2>3, <3>1 DEF Broker, AppTypes, Unsent
    <3>3. audio' \notin Unsent
      BY <2>3 DEF Unsent
    <3>4. CASE partial' = Nobody /\ received' = Append(received, msg)
      <4>1. InRecordingOrder' /\ Out' = Out \cup {msg.timestamp}
        BY <3>2, <3>4, OrderAppend DEF Broker, AppTypes, Begun
      <4>2. Begun' \subseteq ToSet(delivered)
        BY <3>2, <3>4, <4>1 DEF Begun, Broker
      <4> QED BY <1>3, <3>3, <3>4, <4>1, <4>2 DEF Broker
    <3>5. CASE partial' = msg.timestamp /\ UNCHANGED received
      <4>1. InRecordingOrder' /\ Out' = Out
        BY <3>5 DEF Broker, InRecordingOrder, Out
      <4>2. Begun' \subseteq ToSet(delivered)
        BY <3>2, <3>5, <4>1 DEF Begun, Broker
      <4>3. \A t \in Out' : t < partial'
        BY <3>2, <3>5, <4>1 DEF Begun
      <4> QED BY <1>3, <3>3, <4>1, <4>2, <4>3 DEF Broker
    <3> QED BY <2>3, <3>4, <3>5
  <2> QED BY <2>1, <2>2, <2>3, BrokerSees
<1> QED BY <1>1, <1>2, <1>3, TaskMoves

\* The broker gets the chunks in the order they were recorded and each at most
\* once (main.cpp, audio_task), whatever becomes of the connection meanwhile and
\* whichever message a connection ends within.
THEOREM PublishesInOrder ==
  ASSUME SafeTeardown
  PROVE  AppSpec => []InRecordingOrder
<1>1. AppInit => Broker
  BY DEF AppInit, Init, Broker, InRecordingOrder, Out, Begun, ToSet, Nobody
<1>2. IInv /\ InOrder /\ Intact /\ Broker /\ [AppNext]_appvars => Broker'
  <2>1. ASSUME Broker, UNCHANGED appvars PROVE Broker'
    BY <2>1 DEF appvars, vars, count, network, Broker, InRecordingOrder, Out, Begun
  <2> QED BY <2>1, BrokerStep DEF IInv, Intact
<1>3. AppSpec => []IInv /\ []InOrder
  BY DriverImplemented, Invariance, DeliveredInOrder, PTL
<1>4. Broker => InRecordingOrder
  BY DEF Broker
<1> QED BY <1>1, <1>2, <1>3, <1>4, Intactness, PTL DEF AppSpec

=============================================================================
