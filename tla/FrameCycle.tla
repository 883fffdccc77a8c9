------------------------------ MODULE FrameCycle ------------------------------
(***************************************************************************)
(* What the live receiver promises of a captured frame, without queues,      *)
(* threads or generations: a slot is written, its frame is decided on, and   *)
(* either given back or decoded once and given back.  A frame is in one slot  *)
(* at a time and its decode result is delivered at most once.  LiveRuntime   *)
(* implements this specification.                                            *)
(*                                                                           *)
(* Two ways out of the cycle are part of the promise because the code takes  *)
(* them: a slot whose copy raised, and a frame that found its decode queue   *)
(* full, are abandoned.                                                      *)
(***************************************************************************)
CONSTANTS Slots, Captures, None

VARIABLES
  stage,      \* slot -> where it is in the cycle
  frame,      \* slot -> the capture in it; None while it is being written
  delivered,  \* the captures whose decode result was handled
  running     \* the session goes on

cycleVars == <<stage, frame, delivered, running>>

Init ==
  /\ stage = [s \in Slots |-> "writable"]
  /\ frame = [s \in Slots |-> None]
  /\ delivered = {}
  /\ running = TRUE

\* A new capture is complete in slot s.
Fill(s, c) ==
  /\ stage[s] = "writable"
  /\ c \notin delivered
  /\ \A t \in Slots : frame[t] # c
  /\ stage' = [stage EXCEPT ![s] = "filled"]
  /\ frame' = [frame EXCEPT ![s] = c]
  /\ UNCHANGED <<delivered, running>>

\* The slot is free for the next frame; nobody writes it after the session.
GivenBack(s) ==
  /\ stage' = [stage EXCEPT ![s] = IF running THEN "writable" ELSE "idle"]
  /\ frame' = [frame EXCEPT ![s] = None]

\* A duplicate, or a frame that could not be prepared.
Reject(s) ==
  /\ stage[s] = "filled"
  /\ GivenBack(s)
  /\ UNCHANGED <<delivered, running>>

\* A new frame goes to a decode worker, or is abandoned with its slot.
Assign(s) ==
  /\ stage[s] = "filled"
  /\ \/ stage' = [stage EXCEPT ![s] = "decoding"]
     \/ stage' = [stage EXCEPT ![s] = "abandoned"]
  /\ UNCHANGED <<frame, delivered, running>>

\* The result is handled; it may be the one that ends the session.
Deliver(s) ==
  /\ stage[s] = "decoding"
  /\ frame[s] \notin delivered
  /\ delivered' = delivered \cup {frame[s]}
  /\ GivenBack(s)
  /\ running' \in {running, FALSE}

\* The copy into the slot raised.
Abandon(s) ==
  /\ stage[s] = "writable"
  /\ stage' = [stage EXCEPT ![s] = "abandoned"]
  /\ UNCHANGED <<frame, delivered, running>>

\* The session is ended from outside.
End == running /\ running' = FALSE /\ UNCHANGED <<stage, frame, delivered>>

Next ==
  \/ End
  \/ \E s \in Slots :
       \/ \E c \in Captures : Fill(s, c)
       \/ Reject(s)
       \/ Assign(s)
       \/ Deliver(s)
       \/ Abandon(s)

Spec == Init /\ [][Next]_cycleVars

\* While the session runs, every filled slot is decided on and every frame
\* given to a decode worker comes back decoded.
Progress ==
  \A s \in Slots :
    /\ WF_cycleVars(running /\ (Reject(s) \/ Assign(s)))
    /\ WF_cycleVars(running /\ Deliver(s))

FairSpec == Spec /\ Progress

=============================================================================
