------------------------------ MODULE Shutdown ------------------------------
(***************************************************************************)
(* How a live session ends (pipeline/live.py, pipeline/runner.py).         *)
(*                                                                         *)
(* The main thread waits for the transfer to be complete, for an error or  *)
(* for a timeout, and then calls stop() and join().  The coordinator       *)
(* thread runs the event loop until a stop is signalled, and then shuts    *)
(* the child processes down; so does join(), and a lock makes one of them  *)
(* do it.  Children are woken by sentinels in the queues they read, which  *)
(* also carry the frames, hold Capacity items and block who puts more.     *)
(*                                                                         *)
(* One decode worker; prep is a process or part of the event loop; the     *)
(* grab process captures the screen or, in a simulated session             *)
(* (pipeline/simulated_live.py), loads frames from a directory.  Slots and *)
(* their queue, a pipe that never fills, are in LiveRuntime; the dump      *)
(* worker, which reads and writes such pipes, is left out.                 *)
(***************************************************************************)
EXTENDS Naturals, Sequences, FiniteSets

CONSTANTS
    Capacity,      \* frame_queue_size, result_queue_size
    MaxFrames,     \* bound: frames captured; the frames of the directory
    SimulatedPrep, \* bound: the values of prepProcess in simulated sessions
    None

Threads == {"main", "coordinator"}

ASSUME ShutdownAssumption ==
    Capacity \in Nat \ {0} /\ MaxFrames \in Nat /\ None \notin Threads

Queues == {"grabEvents", "prepInput", "prepOutput", "assignments", "results"}
Items == {"frame", "error", "sentinel"}

VARIABLES
    prepProcess,   \* whether prep runs in a process of its own
    simulated,     \* whether the frames come from a directory
    stop,          \* _stop_event, seen by the threads
    procStop,      \* _proc_stop_event, seen by the grab process
    queue,         \* the contents of the bounded queues
    child,         \* of each child process: "idle", "waiting" for a slot, "holding" an
                   \* item to put, "exited"
    doomed,        \* the children still alive were sent a signal
    made,          \* frames captured, or given a slot to be loaded into
    submitting,    \* an executor thread is putting a frame into the prep queue
    complete,      \* the assembler has all chunks
    raised,        \* a task of the event loop has raised, the loop is about to end
    error,         \* runtime.error
    pc,            \* where the two threads are
    at,            \* the next queue each thread gives a sentinel to
    blocked,       \* threads that found that queue full and wait for room
    lock,          \* holder of _shutdown_lock
    shutDown,      \* _shutdown_complete
    cleaned        \* queues closed, shared memory unlinked

session == <<prepProcess, simulated, complete, raised, error>>
workers == <<child, doomed, made>>
threads == <<pc, at, blocked, lock, shutDown, cleaned>>
vars == <<session, stop, procStop, queue, workers, submitting, threads>>

Children == IF prepProcess THEN {"grab", "prep", "decode"} ELSE {"grab", "decode"}

\* The bounded queues in the order in which they are given sentinels.
Signalled ==
    IF prepProcess THEN <<"grabEvents", "prepInput", "prepOutput", "assignments", "results">>
    ELSE <<"grabEvents", "assignments", "results">>

Source(c) == IF c = "prep" THEN "prepInput" ELSE "assignments"
Sink(c) == CASE c = "grab" -> "grabEvents" [] c = "prep" -> "prepOutput" [] c = "decode" -> "results"

Alive(c) == child[c] # "exited"
HasRoom(contents, q) == Len(contents[q]) < Capacity
Put(contents, q, item) == [contents EXCEPT ![q] = Append(@, item)]
PutNowait(contents, q, item) == IF HasRoom(contents, q) THEN Put(contents, q, item) ELSE contents
Rest(q) == [queue EXCEPT ![q] = Tail(@)]
First(q) == Head(queue[q])

Init ==
    /\ prepProcess \in BOOLEAN /\ simulated \in BOOLEAN
    /\ simulated => prepProcess \in SimulatedPrep
    /\ stop = FALSE /\ procStop = FALSE
    /\ queue = [q \in Queues |-> <<>>]
    /\ child = [c \in Children |-> "idle"]
    /\ doomed = FALSE
    /\ made = 0
    /\ submitting = FALSE
    /\ complete = FALSE /\ raised = FALSE /\ error = FALSE
    /\ pc = [t \in Threads |-> IF t = "main" THEN "loop" ELSE "running"]
    /\ at = [t \in Threads |-> 1]
    /\ blocked = {}
    /\ lock = None
    /\ shutDown = FALSE /\ cleaned = FALSE

--------------------------------------------------------------------------
(* The child processes *)

\* The grab process captures until it is told to stop.
Captures ==
    /\ ~simulated /\ child["grab"] = "idle" /\ ~procStop /\ made < MaxFrames
    /\ child' = [child EXCEPT !["grab"] = "holding"]
    /\ made' = made + 1
    /\ UNCHANGED <<session, stop, procStop, queue, doomed, submitting, threads>>

\* Simulated, it looks at the stop event once for every frame of the directory,
\* waits for a slot however long that takes, and then loads the frame.
AsksForSlot ==
    /\ simulated /\ child["grab"] = "idle" /\ ~procStop /\ made < MaxFrames
    /\ child' = [child EXCEPT !["grab"] = "waiting"]
    /\ made' = made + 1
    /\ UNCHANGED <<session, stop, procStop, queue, doomed, submitting, threads>>

Loads ==
    /\ child["grab"] = "waiting"
    /\ child' = [child EXCEPT !["grab"] = "holding"]
    /\ UNCHANGED <<session, stop, procStop, queue, doomed, made, submitting, threads>>

\* A put waits for room.  A capture that failed is an error event; of those
\* after the stop, which nothing reads, none is made.  A frame that cannot be
\* loaded is the last.
Emits(c, item) ==
    /\ child[c] = "holding" /\ HasRoom(queue, Sink(c))
    /\ item \in IF c = "grab" /\ ~procStop THEN {"frame", "error"} ELSE {"frame"}
    /\ child' = [child EXCEPT ![c] = IF simulated /\ item = "error" THEN "exited" ELSE "idle"]
    /\ queue' = Put(queue, Sink(c), item)
    /\ UNCHANGED <<session, stop, procStop, doomed, made, submitting, threads>>

\* The prep process and the decode worker take items until a sentinel comes.
Takes(c) ==
    /\ child[c] = "idle" /\ queue[Source(c)] # <<>>
    /\ child' = [child EXCEPT ![c] = IF First(Source(c)) = "sentinel" THEN "exited" ELSE "holding"]
    /\ queue' = Rest(Source(c))
    /\ UNCHANGED <<session, stop, procStop, doomed, made, submitting, threads>>

\* After its last frame the simulated one waits for the stop event too; the
\* sentinel in the queue of slots, which follows that event, wakes it earlier.
GrabExits ==
    /\ child["grab"] \in {"idle", "waiting"} /\ procStop
    /\ child' = [child EXCEPT !["grab"] = "exited"]
    /\ UNCHANGED <<session, stop, procStop, queue, doomed, made, submitting, threads>>

\* One child may die of itself, before any is told to exit.
Crashes(c) ==
    /\ ~procStop /\ \A d \in Children : Alive(d)
    /\ child' = [child EXCEPT ![c] = "exited"]
    /\ UNCHANGED <<session, stop, procStop, queue, doomed, made, submitting, threads>>

\* A signal ends a child wherever it is.
Falls(c) ==
    /\ Alive(c) /\ doomed
    /\ child' = [child EXCEPT ![c] = "exited"]
    /\ UNCHANGED <<session, stop, procStop, queue, doomed, made, submitting, threads>>

--------------------------------------------------------------------------
(* The event loop; its tasks look at the stop event before each item *)

Running == pc["coordinator"] = "running" /\ ~stop
CoordinatorAt(place) == pc' = [pc EXCEPT !["coordinator"] = place]

\* A frame goes to prep, with a put that blocks in an executor thread, or
\* through prep in the loop to the decode worker, unless its queue is full.
GrabTask ==
    /\ Running /\ ~submitting /\ queue["grabEvents"] # <<>>
    /\ queue' = IF First("grabEvents") = "frame" /\ ~prepProcess
                THEN PutNowait(Rest("grabEvents"), "assignments", "frame") ELSE Rest("grabEvents")
    /\ submitting' = (First("grabEvents") = "frame" /\ prepProcess)
    /\ raised' = (First("grabEvents") = "error")
    /\ IF raised' THEN CoordinatorAt("ending") ELSE UNCHANGED pc
    /\ UNCHANGED <<prepProcess, simulated, complete, error, stop, procStop, workers, at, blocked, lock,
                   shutDown, cleaned>>

\* The executor thread outlives the task that waits for it.
Submitted ==
    /\ submitting /\ HasRoom(queue, "prepInput")
    /\ queue' = Put(queue, "prepInput", "frame")
    /\ submitting' = FALSE
    /\ UNCHANGED <<session, stop, procStop, workers, threads>>

PrepTask ==
    /\ Running /\ queue["prepOutput"] # <<>>
    /\ queue' = IF First("prepOutput") = "frame"
                THEN PutNowait(Rest("prepOutput"), "assignments", "frame") ELSE Rest("prepOutput")
    /\ UNCHANGED <<session, stop, procStop, workers, submitting, threads>>

\* A result may complete the transfer, which stops the loop.
DecodeTask(completes) ==
    /\ Running /\ queue["results"] # <<>>
    /\ completes => First("results") = "frame"
    /\ queue' = IF completes
                THEN PutNowait(PutNowait(Rest("results"), "grabEvents", "sentinel"),
                               "prepOutput", "sentinel")
                ELSE Rest("results")
    /\ complete' = completes
    /\ stop' = completes
    /\ IF completes THEN CoordinatorAt("ending") ELSE UNCHANGED pc
    /\ UNCHANGED <<prepProcess, simulated, raised, error, procStop, workers, submitting, at, blocked, lock,
                   shutDown, cleaned>>

\* A defect: the loop ends on completion or error only.
LeavesOnCompletion == pc["coordinator"] = "running" /\ complete /\ CoordinatorAt("ending")
    /\ UNCHANGED <<session, stop, procStop, queue, workers, submitting, at, blocked, lock,
                   shutDown, cleaned>>

Leaves ==
    /\ pc["coordinator"] = "running" /\ stop
    /\ CoordinatorAt("ending")
    /\ UNCHANGED <<session, stop, procStop, queue, workers, submitting, at, blocked, lock,
                   shutDown, cleaned>>

\* asyncio.run waits for the executor's threads, for some minutes at most; what
\* a task raised is reported unless the stop event was set when the loop saw it.
RunEnds ==
    /\ pc["coordinator"] = "ending"
    /\ error' \in {raised, raised /\ ~stop}
    /\ stop' = (stop \/ error')
    /\ raised' = FALSE
    /\ CoordinatorAt("enter")
    /\ UNCHANGED <<prepProcess, simulated, complete, procStop, queue, workers, submitting, at,
                   blocked, lock, shutDown, cleaned>>

--------------------------------------------------------------------------
(* Sentinels, by stop() and by _shutdown_processes *)

Signalling(t) == pc[t] \in {"stop", "stopAgain", "signal"}
AfterSignalling(place) ==
    CASE place = "stop" -> "stopAgain" [] place = "stopAgain" -> "joining" [] place = "signal" -> "wait"

\* put_nowait, and a put that waits for room when the queue is full; a put
\* into a closed queue fails, and the failure is ignored.
Signals(t) ==
    /\ Signalling(t) /\ at[t] <= Len(Signalled)
    /\ LET q == Signalled[at[t]] IN
       IF HasRoom(queue, q) \/ (cleaned /\ t \notin blocked)
       THEN /\ queue' = IF cleaned THEN queue ELSE Put(queue, q, "sentinel")
            /\ at' = [at EXCEPT ![t] = @ + 1]
            /\ blocked' = blocked \ {t}
       ELSE /\ t \notin blocked
            /\ blocked' = blocked \cup {t}
            /\ UNCHANGED <<queue, at>>
    /\ UNCHANGED <<session, stop, procStop, workers, submitting, pc, lock, shutDown, cleaned>>

EndsSignalling(t) ==
    /\ Signalling(t) /\ at[t] > Len(Signalled)
    /\ pc' = [pc EXCEPT ![t] = AfterSignalling(@)]
    /\ at' = [at EXCEPT ![t] = 1]
    /\ UNCHANGED <<session, stop, procStop, queue, workers, submitting, blocked, lock, shutDown,
                   cleaned>>

--------------------------------------------------------------------------
(* _shutdown_processes, by either thread *)

\* A defect: the flag alone keeps the second thread out.
EntersWithoutLock(t) ==
    /\ pc[t] = "enter"
    /\ shutDown' = TRUE /\ stop' = TRUE /\ procStop' = TRUE
    /\ pc' = [pc EXCEPT ![t] = IF shutDown THEN "done" ELSE "signal"]
    /\ UNCHANGED <<session, queue, workers, submitting, at, blocked, lock, cleaned>>

\* A defect: the flag is read before the lock is taken.
EntersUnlocked(t) ==
    /\ pc[t] = "enter"
    /\ IF shutDown
       THEN /\ pc' = [pc EXCEPT ![t] = "done"]
            /\ UNCHANGED <<lock, shutDown, stop, procStop>>
       ELSE /\ lock = None /\ lock' = t
            /\ shutDown' = TRUE /\ stop' = TRUE /\ procStop' = TRUE
            /\ pc' = [pc EXCEPT ![t] = "signal"]
    /\ UNCHANGED <<session, queue, workers, submitting, at, blocked, cleaned>>

Enters(t) ==
    /\ pc[t] = "enter" /\ lock = None
    /\ IF shutDown
       THEN /\ pc' = [pc EXCEPT ![t] = "done"]
            /\ UNCHANGED <<lock, shutDown, stop, procStop>>
       ELSE /\ lock' = t
            /\ shutDown' = TRUE /\ stop' = TRUE /\ procStop' = TRUE
            /\ pc' = [pc EXCEPT ![t] = "signal"]
    /\ UNCHANGED <<session, queue, workers, submitting, at, blocked, cleaned>>

\* The wait ends with the first child that exits, or after two seconds; the
\* children still alive are sent a signal, and later one they cannot ignore.
Terminates(t) ==
    /\ pc[t] = "wait"
    /\ doomed' = TRUE
    /\ pc' = [pc EXCEPT ![t] = "reap"]
    /\ UNCHANGED <<session, stop, procStop, queue, child, made, submitting, at, blocked,
                   lock, shutDown, cleaned>>

\* A signalled child exits within the time that join gives it.
Reaps(t) ==
    /\ pc[t] = "reap" /\ \A c \in Children : ~Alive(c)
    /\ cleaned' = TRUE /\ lock' = None
    /\ pc' = [pc EXCEPT ![t] = "done"]
    /\ UNCHANGED <<session, stop, procStop, queue, workers, submitting, at, blocked, shutDown>>

--------------------------------------------------------------------------
(* The main thread: PipelineRunner *)

\* run's finally clause: stop(), then join(), which calls stop() again.
BeginsToStop ==
    /\ pc' = [pc EXCEPT !["main"] = "stop"]
    /\ stop' = TRUE /\ procStop' = TRUE
    /\ UNCHANGED <<session, queue, workers, submitting, at, blocked, lock, shutDown, cleaned>>

\* The transfer is complete, or a timeout or an interrupt ends it.
Finishes == pc["main"] = "loop" /\ complete /\ BeginsToStop
GivesUp == pc["main"] \in {"loop", "exits"} /\ BeginsToStop

\* check_errors: an error; or, without one and while nothing has stopped, a
\* child that has exited, looked for after the stop event.
SeesError == pc["main"] = "loop" /\ ~complete /\ error /\ BeginsToStop

ChecksStop ==
    /\ pc["main"] = "loop" /\ ~complete /\ ~error /\ ~stop
    /\ pc' = [pc EXCEPT !["main"] = "exits"]
    /\ UNCHANGED <<session, stop, procStop, queue, workers, submitting, at, blocked, lock,
                   shutDown, cleaned>>

SeesExit == pc["main"] = "exits" /\ (\E c \in Children : ~Alive(c)) /\ BeginsToStop

Continues ==
    /\ pc["main"] = "exits" /\ \A c \in Children : Alive(c)
    /\ pc' = [pc EXCEPT !["main"] = "loop"]
    /\ UNCHANGED <<session, stop, procStop, queue, workers, submitting, at, blocked, lock,
                   shutDown, cleaned>>

\* The coordinator has ended, or ten seconds have passed.
Joins ==
    /\ pc["main"] = "joining"
    /\ pc' = [pc EXCEPT !["main"] = "enter"]
    /\ UNCHANGED <<session, stop, procStop, queue, workers, submitting, at, blocked, lock,
                   shutDown, cleaned>>

--------------------------------------------------------------------------
ChildStep(c) == Falls(c) \/ \E item \in Items : Emits(c, item)

LoopStep == GrabTask \/ PrepTask \/ \E completes \in BOOLEAN : DecodeTask(completes)

ShutdownStep(t) ==
    Signals(t) \/ EndsSignalling(t) \/ Enters(t) \/ Terminates(t) \/ Reaps(t)

MainStep == Finishes \/ SeesError \/ ChecksStop \/ SeesExit \/ Continues

\* The program exits when both threads, neither a daemon, and the executor's
\* threads have ended.
Over == (\A t \in Threads : pc[t] = "done") /\ ~submitting

Next ==
    \/ Captures \/ AsksForSlot \/ Loads \/ GrabExits
    \/ \E c \in Children : ChildStep(c) \/ Crashes(c)
    \/ \E c \in Children \ {"grab"} : Takes(c)
    \/ LoopStep \/ Submitted \/ Leaves \/ RunEnds
    \/ \E t \in Threads : ShutdownStep(t)
    \/ MainStep \/ GivesUp \/ Joins
    \/ Over /\ UNCHANGED vars

Spec == Init /\ [][Next]_vars

\* Processes and threads go on.  Nothing forces a capture, and the idle timeout
\* comes when there is nothing more to decode: the frames are bounded.
FairSpec ==
    /\ Spec
    /\ WF_vars(GrabExits) /\ WF_vars(Submitted) /\ WF_vars(Leaves) /\ WF_vars(RunEnds)
    /\ WF_vars(GivesUp) /\ WF_vars(Joins)
    /\ \A c \in {"grab", "prep", "decode"} : WF_vars(c \in Children /\ ChildStep(c))
    /\ \A c \in {"prep", "decode"} : WF_vars(c \in Children /\ Takes(c))
    /\ \A t \in Threads : WF_vars(ShutdownStep(t))

--------------------------------------------------------------------------
Places ==
    {"loop", "exits", "stop", "stopAgain", "joining", "running", "ending", "enter", "signal",
     "wait", "reap", "done"}

\* No queue holds more than it may, whoever puts.
QueuesOK ==
    /\ queue \in [Queues -> Seq(Items)]
    /\ \A q \in Queues : Len(queue[q]) <= Capacity

\* Only the thread with the lock is at work on the children.
LockedWhileAtWork == \A t \in Threads : pc[t] \in {"signal", "wait", "reap"} <=> lock = t

TypeOK ==
    /\ prepProcess \in BOOLEAN /\ simulated \in BOOLEAN
    /\ complete \in BOOLEAN /\ raised \in BOOLEAN /\ error \in BOOLEAN
    /\ stop \in BOOLEAN /\ procStop \in BOOLEAN /\ submitting \in BOOLEAN
    /\ doomed \in BOOLEAN /\ shutDown \in BOOLEAN /\ cleaned \in BOOLEAN
    /\ QueuesOK
    /\ child \in [Children -> {"idle", "waiting", "holding", "exited"}]
    /\ blocked \subseteq Threads
    /\ made \in 0..MaxFrames
    /\ pc \in [Threads -> Places]
    /\ at \in [Threads -> 1..Len(Signalled) + 1]
    /\ lock \in Threads \cup {None}
    /\ LockedWhileAtWork

\* When join() has returned no child is left and the shared memory is gone,
\* whichever of the two threads did it and however they met (the lock and the
\* flag of _shutdown_processes).
JoinLeavesNothing ==
    pc["main"] = "done" => cleaned /\ \A c \in Children : ~Alive(c)

\* However a session ends, by completion, error, crash, timeout or interrupt,
\* the program exits (stop, join and the coordinator's own shutdown).
SessionEnds == <>Over
=============================================================================
