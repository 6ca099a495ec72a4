----------------------------- MODULE AudioStream -----------------------------
(***************************************************************************)
(* What a microphone driver promises to the task that consumes its audio:  *)
(* a lossy stream.  Chunks carry the time their recording began, only the  *)
(* oldest waiting chunk can be delivered or given up, and a new one is     *)
(* younger than everything before it.  Nothing here knows of buffers,      *)
(* interrupts or queues; I2SMicrophone implements it.                      *)
(***************************************************************************)
EXTENDS Integers, Sequences, SequencesExt

CONSTANT Capacity   \* chunks that can wait

VARIABLES pending,    \* start times of the waiting chunks, oldest first
          delivered,  \* start times of the chunks handed out, in that order
          clock       \* the time

vars == <<pending, delivered, clock>>

Init == pending = <<>> /\ delivered = <<>> /\ clock = 0

Known == ToSet(pending) \cup ToSet(delivered)

\* A recording that began at time t is complete.
Record ==
  /\ Len(pending) < Capacity
  /\ \E t \in 0 .. clock :
       /\ \A s \in Known : s < t
       /\ pending' = Append(pending, t)
  /\ UNCHANGED <<delivered, clock>>

Deliver ==
  /\ pending # <<>>
  /\ delivered' = Append(delivered, Head(pending))
  /\ pending' = Tail(pending)
  /\ UNCHANGED clock

\* The oldest waiting chunk is lost.
Drop ==
  /\ pending # <<>>
  /\ pending' = Tail(pending)
  /\ UNCHANGED <<delivered, clock>>

\* The stream ends.
Clear == pending' = <<>> /\ UNCHANGED <<delivered, clock>>

Tick == clock' \in Nat /\ clock' > clock /\ UNCHANGED <<pending, delivered>>

Next == Record \/ Deliver \/ Drop \/ Clear \/ Tick

Spec == Init /\ [][Next]_vars

=============================================================================
