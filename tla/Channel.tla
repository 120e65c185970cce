------------------------------ MODULE Channel ------------------------------
(***************************************************************************)
(* What a stream of messages promises the steps of a scenario that collect *)
(* from it: they see the messages in the order they were sent, each once,  *)
(* and miss one only when as many as the buffer holds were waiting for     *)
(* them (internal/scenario/ws.go and grpc.go).                             *)
(***************************************************************************)
EXTENDS Naturals, Sequences

VARIABLES
  capacity,   \* messages that may wait to be collected
  sent,       \* messages 1..sent have been sent
  seen,       \* messages 1..seen have reached the reader
  received,   \* those of them that were kept, in order
  collected   \* how many of the received ones steps have been given

vars == <<capacity, sent, seen, received, collected>>

Init ==
  /\ capacity \in Nat \ {0}
  /\ sent = 0 /\ seen = 0 /\ received = <<>> /\ collected = 0

Send == sent' = sent + 1 /\ UNCHANGED <<capacity, seen, received, collected>>

\* The next message reaches the reader and waits.
Receive ==
  /\ seen < sent /\ seen' = seen + 1
  /\ Len(received) - collected < capacity
  /\ received' = Append(received, seen + 1)
  /\ UNCHANGED <<capacity, sent, collected>>

\* The next message finds the buffer full.
Drop ==
  /\ seen < sent /\ seen' = seen + 1
  /\ Len(received) - collected >= capacity
  /\ UNCHANGED <<capacity, sent, received, collected>>

\* A step is given messages that wait, the oldest first.
Collect ==
  /\ collected' \in (collected + 1)..Len(received)
  /\ UNCHANGED <<capacity, sent, seen, received>>

\* The next message goes to a step that reads the stream itself.
Pass ==
  /\ seen < sent /\ seen' = seen + 1
  /\ collected = Len(received) /\ collected' = collected + 1
  /\ received' = Append(received, seen + 1)
  /\ UNCHANGED <<capacity, sent>>

Next == Send \/ Receive \/ Drop \/ Collect \/ Pass

Spec == Init /\ [][Next]_vars
=============================================================================
