-------------------------------- MODULE Outbox --------------------------------
(***************************************************************************)
(* What the CAN send channels of core/modbus_tcp_server.py promise their   *)
(* clients, with no lock, handler or thread in it: a channel has room for  *)
(* one frame, which waits there until a newer one takes its place or the   *)
(* channel is fired; and firing takes out what is there at that moment,    *)
(* whether the bus accepts it or not.                                      *)
(***************************************************************************)
CONSTANTS
  Channels,
  Frames,    \* each is staged once
  Empty      \* a channel without a frame

VARIABLES
  box,       \* the frame of each channel
  sent,      \* frames that were on the bus
  orderly    \* environment: nothing has been disturbed so far

vars == <<box, sent, orderly>>

Init == box = [ch \in Channels |-> Empty] /\ sent = {}

Stage(ch, f) ==
  /\ f \notin sent /\ \A other \in Channels : box[other] # f
  /\ box' = [box EXCEPT ![ch] = f]
  /\ UNCHANGED sent

Send(ch) ==
  /\ box[ch] # Empty
  /\ sent' = sent \cup {box[ch]}
  /\ box' = [box EXCEPT ![ch] = Empty]

Refuse(ch) ==
  /\ box[ch] # Empty
  /\ box' = [box EXCEPT ![ch] = Empty]
  /\ UNCHANGED sent

Change == \E ch \in Channels :
  Send(ch) \/ Refuse(ch) \/ \E f \in Frames : Stage(ch, f)

\* Once there was a disturbance nothing is promised any more.
Next == orderly' => orderly /\ Change

Spec == Init /\ [][Next]_vars
=============================================================================
