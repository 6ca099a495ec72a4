------------------------------ MODULE SnoringApp ------------------------------
(***************************************************************************)
(* The firmware put together: app_main brings up the MQTT wrapper and then *)
(* audio_task, which takes chunks from the microphone, copies each into a  *)
(* static message and publishes it with QoS 0.                             *)
(*                                                                         *)
(* The driver is the detailed one, I2SMicrophone in pause mode, with       *)
(* audio_task for its client.  The MQTT process is the abstract one,       *)
(* MqttProcess, which EspMqtt implements; added to it are the main mutex,  *)
(* for which a publish may have to wait as long as a DNS lookup takes, and *)
(* the byte stream of the connection, since a publish can stop in the      *)
(* middle of its message.                                                  *)
(***************************************************************************)
EXTENDS I2SMicrophone

VARIABLES
  setup,                \* where app_main stands
  audio,                \* where audio_task stands
  msg,                  \* its static AudioMessage
  phase, status, last,  \* the MQTT process, see MqttProcess
  mutex,                \* who holds the main mutex
  wire,                 \* the connection's stream: "clean"; "torn", it ends within a
                        \* message; "garbled", the broker cannot follow it any more
  partial,              \* the message it ends within, if that is a chunk
  \* History: the chunks as the broker takes them off the stream, and those
  \* whose publish returned an error.
  received, failed

Free == "free"
Nobody == 0

process == <<phase, status, last>>
network == <<process, mutex, wire, partial, received, failed>>
appvars == <<vars, setup, audio, msg, network>>

Process == INSTANCE MqttProcess

\* The status callbacks of the wrapper do nothing but set is_connected_, send
\* the test message (BackgroundWrites) and log.
is_connected == status = "connected"

AudioMessage(timestamp, samples) == [timestamp |-> timestamp, samples |-> samples]

\* How the broker takes a message whose end was overwritten by another.
Damaged(timestamp) == AudioMessage(timestamp, <<>>)

AppInit ==
  /\ Init /\ Process!Init
  /\ setup = "construct" /\ audio = "none" /\ msg = AudioMessage(0, <<>>)
  /\ mutex = Free /\ wire = "clean" /\ partial = Nobody
  /\ received = <<>> /\ failed = {}

-----------------------------------------------------------------------------
(***************************************************************************)
(* app_main                                                                *)
(***************************************************************************)

\* The constructor of MQTTClient; the task of the process is created, or not.
Construct ==
  /\ setup = "construct" /\ setup' = "wait"
  /\ Process!Start \/ UNCHANGED process
  /\ UNCHANGED <<vars, audio, msg, mutex, wire, partial, received, failed>>

CreateAudioTask_Connected ==
  /\ setup = "wait" /\ setup' = "done" /\ is_connected
  /\ audio = "none" /\ audio' = "start"
  /\ UNCHANGED <<vars, msg, network>>

\* The wait for a connection ends with one or after 30 s, and audio_task is
\* created either way.
CreateAudioTask ==
  /\ setup = "wait" /\ setup' = "done"
  /\ audio = "none" /\ audio' = "start"
  /\ UNCHANGED <<vars, msg, network>>

-----------------------------------------------------------------------------
(***************************************************************************)
(* The stream of a connection.                                             *)
(***************************************************************************)

\* All of message m is written.  In a torn stream its bytes are the end of the
\* message before, which is as long, and the broker loses track after that.
WriteMessage(m) ==
  /\ wire' = IF wire = "clean" THEN "clean" ELSE "garbled"
  /\ partial' = Nobody
  /\ received' = CASE wire = "clean" -> Append(received, m)
                   [] wire = "torn" /\ partial # Nobody -> Append(received, Damaged(partial))
                   [] OTHER -> received

\* Some bytes of another packet are written, perhaps the last ones missing.
WriteBytes ==
  \/ UNCHANGED <<wire, partial, received>>
  \/ /\ wire = "torn" /\ wire' = "garbled" /\ partial' = Nobody
     /\ received' = IF partial # Nobody THEN Append(received, Damaged(partial)) ELSE received

\* The network takes no more in the middle of a packet; chunk says which, if any.
BreakOff(chunk) ==
  /\ wire = "clean" /\ wire' = "torn" /\ partial' = chunk
  /\ UNCHANGED received

NewStream == wire' = "clean" /\ partial' = Nobody /\ UNCHANGED received

-----------------------------------------------------------------------------
(***************************************************************************)
(* The background task: MqttProcess with its mutex and its stream.         *)
(***************************************************************************)
Local == UNCHANGED <<vars, setup, audio, msg, failed>>

BackgroundLock ==
  /\ phase # "off" /\ mutex = Free /\ mutex' = "mqtt"
  /\ Local /\ UNCHANGED <<process, wire, partial, received>>

BackgroundUnlock ==
  /\ mutex = "mqtt" /\ mutex' = Free
  /\ Local /\ UNCHANGED <<process, wire, partial, received>>

\* The connection is made, or lost and closed, with the mutex held.
Connection ==
  /\ mutex = "mqtt" /\ (Process!Connect \/ Process!Lose) /\ NewStream
  /\ Local /\ UNCHANGED mutex

\* Reports are made without it.
Report ==
  /\ mutex # "mqtt" /\ (Process!ReportConnected \/ Process!ReportLost)
  /\ Local /\ UNCHANGED <<mutex, wire, partial, received>>

\* The test message, acknowledgements and pings.
BackgroundWrites ==
  /\ mutex = "mqtt" /\ phase = "online"
  /\ WriteBytes \/ BreakOff(Nobody)
  /\ Local /\ UNCHANGED <<process, mutex>>

Background == \/ BackgroundLock \/ BackgroundUnlock \/ Connection \/ Report
              \/ BackgroundWrites

-----------------------------------------------------------------------------
(***************************************************************************)
(* audio_task                                                              *)
(***************************************************************************)
Step(from, to) == audio = from /\ audio' = to /\ UNCHANGED <<setup, mutex>>

\* start(): the call itself, then its notification of the recorder.
StartMicrophone ==
  \/ Step("start", "get") /\ Start /\ UNCHANGED <<msg, network>>
  \/ Notify /\ UNCHANGED <<setup, audio, msg, network>>

\* get_audio(); on a timeout it is called again.
TakeChunk == Step("get", "check") /\ GetAudio /\ UNCHANGED <<msg, network>>

CheckConnected_CopiesOnly ==
  /\ Step("check", IF is_connected THEN "copy" ELSE "publish")
  /\ \E c \in held : msg' = IF is_connected THEN AudioMessage(c.timestamp, <<>>) ELSE msg
  /\ UNCHANGED <<vars, network>>

\* Without a connection the chunk is dropped; else its timestamp is copied.
CheckConnected ==
  /\ Step("check", IF is_connected THEN "copy" ELSE "return")
  /\ \E c \in held : msg' = IF is_connected THEN AudioMessage(c.timestamp, <<>>) ELSE msg
  /\ UNCHANGED <<vars, network>>

\* memcpy, block by block: the interrupt goes on writing to other buffers.
CopySamples ==
  \E c \in held :
    /\ audio = "copy" /\ UNCHANGED <<vars, setup, network>>
    /\ msg' = [msg EXCEPT !.samples = Append(@, data[c.buffer][Len(@) + 1])]
    /\ audio' = IF Len(msg.samples) + 1 = ChunkBlocks THEN "publish" ELSE "copy"

\* MQTTClient::publish asks for the connection once more.
CheckAgain ==
  /\ Step("publish", IF is_connected THEN "lock" ELSE "return")
  /\ UNCHANGED <<vars, msg, network>>

LockMain ==
  /\ audio = "lock" /\ audio' = "send" /\ mutex = Free /\ mutex' = "audio"
  /\ UNCHANGED <<vars, setup, msg, process, wire, partial, received, failed>>

Publish_Locked ==
  /\ audio = "send" /\ audio' = "return"
  /\ \/ Process!Succeed /\ WriteMessage(msg) /\ UNCHANGED <<mutex, failed>>
     \/ /\ Process!Fail /\ (WriteBytes \/ BreakOff(msg.timestamp)) /\ mutex' = Free
        /\ failed' = failed \cup {msg.timestamp}
     \/ Process!Refuse /\ mutex' = Free /\ UNCHANGED <<wire, partial, received, failed>>
  /\ UNCHANGED <<vars, setup, msg>>

Publish_Unchecked ==
  /\ audio = "send" /\ audio' = "return" /\ mutex' = Free
  /\ \/ Process!Succeed /\ (WriteMessage(msg) \/ BreakOff(msg.timestamp))
     \/ Process!Refuse /\ UNCHANGED <<wire, partial, received>>
  /\ UNCHANGED <<vars, setup, msg, failed>>

\* The rest of esp_mqtt_publish: on whatever connection there is by now.
Publish ==
  /\ audio = "send" /\ audio' = "return" /\ mutex' = Free
  /\ \/ Process!Succeed /\ WriteMessage(msg) /\ UNCHANGED failed
     \/ /\ Process!Fail /\ (WriteBytes \/ BreakOff(msg.timestamp))
        /\ failed' = failed \cup {msg.timestamp}
     \/ Process!Refuse /\ UNCHANGED <<wire, partial, received, failed>>
  /\ UNCHANGED <<vars, setup, msg>>

\* The handle's end gives the buffer back.
DropHandle == Step("return", "get") /\ ReturnBuffer /\ UNCHANGED <<msg, network>>

\* What audio_task does without waiting for anybody.
AudioTask == StartMicrophone \/ TakeChunk \/ CheckConnected \/ CopySamples \/ CheckAgain
             \/ DropHandle

-----------------------------------------------------------------------------
Microphone(A) == A /\ UNCHANGED <<setup, audio, msg, network>>

AppMain == Construct \/ CreateAudioTask

AppNext == \/ AppMain \/ Background \/ AudioTask \/ LockMain \/ Publish
           \/ Microphone(Isr) \/ Microphone(Recorder)

AppSpec == AppInit /\ [][AppNext]_appvars

\* The hardware and the scheduler.  Nothing is assumed of the network: the
\* background task may stay in a lookup, and a publish in a write, forever.
AppFairness ==
  /\ WF_appvars(Microphone(Isr)) /\ WF_appvars(Microphone(Recorder))
  /\ WF_appvars(AppMain) /\ WF_appvars(AudioTask) /\ SF_appvars(LockMain)

FairAppSpec == AppSpec /\ AppFairness

-----------------------------------------------------------------------------
Recording(m) == m.samples = [i \in 1 .. ChunkBlocks |-> m.timestamp + i]

\* Whatever the broker takes for a chunk is one gapless recording that starts
\* right after its timestamp, although the interrupt goes on recording into the
\* pool meanwhile; the exception is a message whose publish returned an error.
PublishedIsIntact ==
  \A i \in DOMAIN received : Recording(received[i]) \/ received[i].timestamp \in failed

\* "When false is returned the current operation failed and any subsequent
\* interactions will also fail until a new connection has been established"
\* (esp_mqtt.h:114): the rest of a chunk that could not be published completely
\* is never made up of something else.
OnlyWholeChunks == \A i \in DOMAIN received : Recording(received[i])

\* The broker gets chunks in the order they were recorded, each at most once.
InRecordingOrder ==
  \A i, j \in DOMAIN received : i < j => received[i].timestamp < received[j].timestamp

\* Recording starts, and goes on chunk after chunk, whatever the network does:
\* also if no connection is ever made, a lookup never ends or a publish hangs.
RecordsRegardless == <>(completed = MaxChunks)

\* The network answers: the mutex is given back and every publish returns.
NetworkAnswers == WF_appvars(BackgroundUnlock) /\ WF_appvars(Publish)

Healthy == is_connected /\ phase = "online" /\ wire = "clean" /\ last # "failed"

\* Every chunk that audio_task takes reaches the broker, provided the network
\* answers, unless the connection is down, or goes down or fails meanwhile.
ChunksGoOut ==
  NetworkAnswers =>
    \A n \in 1 .. MaxChunks :
      (Len(delivered) = n /\ held # {} /\ audio # "return")
        ~> (\/ ~Healthy
            \/ Len(delivered) >= n /\ \E i \in DOMAIN received :
                                        received[i].timestamp = delivered[n])

=============================================================================
