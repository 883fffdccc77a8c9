--------------------------- MODULE ShutdownProofs ---------------------------
(***************************************************************************)
(* What holds of every end of a live session, whatever the capacity of the *)
(* queues and the number of frames: its type, with the bound on the queues *)
(* and the lock, and that join() leaves nothing behind.                    *)
(*                                                                         *)
(* The argument: once the shutdown has begun and the lock is free again    *)
(* the thread that had it has cleaned up, which it does when all children  *)
(* have exited; a child that has exited stays so; and a thread is done     *)
(* only after it had the lock, or found it free.                           *)
(***************************************************************************)
EXTENDS Shutdown, TLAPS

\* A shutdown that is over has cleaned up.
OverIsClean == shutDown /\ lock = None => cleaned

\* Nothing is cleaned up under a living child.
CleanIsDead == cleaned => \A c \in Children : ~Alive(c)

\* A thread that is done leaves it clean.
DoneIsClean == \A t \in Threads : pc[t] = "done" => cleaned

IInv == TypeOK /\ OverIsClean /\ CleanIsDead /\ DoneIsClean

\* What a step that is not about the shutdown preserves.
RestIsTyped ==
    /\ prepProcess \in BOOLEAN /\ simulated \in BOOLEAN
    /\ complete \in BOOLEAN /\ raised \in BOOLEAN /\ error \in BOOLEAN
    /\ stop \in BOOLEAN /\ procStop \in BOOLEAN /\ submitting \in BOOLEAN /\ doomed \in BOOLEAN
    /\ QueuesOK
    /\ child \in [Children -> {"idle", "waiting", "holding", "exited"}]
    /\ made \in 0..MaxFrames

-----------------------------------------------------------------------------
\* A put into a queue with room keeps all queues well-formed (Queue.put).
LEMMA PutOK ==
  ASSUME NEW contents \in [Queues -> Seq(Items)], NEW q \in Queues, NEW item \in Items,
         \A r \in Queues : Len(contents[r]) <= Capacity, HasRoom(contents, q)
  PROVE  /\ Put(contents, q, item) \in [Queues -> Seq(Items)]
         /\ \A r \in Queues : Len(Put(contents, q, item)[r]) <= Capacity
<1>1. Append(contents[q], item) \in Seq(Items)
      /\ Len(Append(contents[q], item)) = Len(contents[q]) + 1
  OBVIOUS
<1>2. Len(contents[q]) + 1 <= Capacity
  BY ShutdownAssumption DEF HasRoom
<1> QED
  BY <1>1, <1>2 DEF Put

\* So does a put that gives up when there is none (put_nowait).
LEMMA PutNowaitOK ==
  ASSUME NEW contents \in [Queues -> Seq(Items)], NEW q \in Queues, NEW item \in Items,
         \A r \in Queues : Len(contents[r]) <= Capacity
  PROVE  /\ PutNowait(contents, q, item) \in [Queues -> Seq(Items)]
         /\ \A r \in Queues : Len(PutNowait(contents, q, item)[r]) <= Capacity
  BY PutOK DEF PutNowait

\* And a get (Queue.get).
LEMMA RestOK ==
  ASSUME NEW q \in Queues, QueuesOK, queue[q] # <<>>
  PROVE  /\ Rest(q) \in [Queues -> Seq(Items)]
         /\ \A r \in Queues : Len(Rest(q)[r]) <= Capacity
<1>1. Tail(queue[q]) \in Seq(Items) /\ Len(Tail(queue[q])) <= Len(queue[q])
  BY DEF QueuesOK
<1> QED
  BY <1>1, ShutdownAssumption DEF Rest, QueuesOK
-----------------------------------------------------------------------------
\* The initial states satisfy the invariant.
LEMMA InitOK == Init => IInv
<1> SUFFICES ASSUME Init PROVE IInv
  OBVIOUS
<1> USE DEF Init
<1>1. QueuesOK
  <2>1. <<>> \in Seq(Items) /\ Len(<<>>) = 0
    OBVIOUS
  <2> QED BY <2>1, ShutdownAssumption DEF QueuesOK
<1>2. pc \in [Threads -> Places] /\ \A t \in Threads : pc[t] \in {"loop", "running"}
  BY DEF Places
<1>3. LockedWhileAtWork
  BY <1>2, ShutdownAssumption DEF LockedWhileAtWork
<1>4. Len(Signalled) \in Nat
  BY DEF Signalled
<1>5. at \in [Threads -> 1..Len(Signalled) + 1]
  BY <1>4
<1>6. /\ prepProcess \in BOOLEAN /\ simulated \in BOOLEAN
      /\ complete \in BOOLEAN /\ raised \in BOOLEAN /\ error \in BOOLEAN
      /\ stop \in BOOLEAN /\ procStop \in BOOLEAN /\ submitting \in BOOLEAN
      /\ doomed \in BOOLEAN /\ shutDown \in BOOLEAN /\ cleaned \in BOOLEAN
  OBVIOUS
<1>7. made \in 0..MaxFrames /\ blocked \subseteq Threads
  BY ShutdownAssumption
<1>8. child \in [Children -> {"idle", "waiting", "holding", "exited"}] /\ lock \in Threads \cup {None}
  OBVIOUS
<1>9. TypeOK
  BY <1>1, <1>2, <1>3, <1>5, <1>6, <1>7, <1>8 DEF TypeOK
<1> QED
  BY <1>2, <1>9 DEF IInv, OverIsClean, CleanIsDead, DoneIsClean

\* A step that leaves the threads where they are, and no exited child alive,
\* preserves the invariant.
LEMMA WorkOK ==
  ASSUME IInv, RestIsTyped', prepProcess' = prepProcess, threads' = threads,
         \A c \in Children : ~Alive(c) => ~Alive(c)'
  PROVE  IInv'
<1>1. /\ pc' = pc /\ at' = at /\ blocked' = blocked
      /\ lock' = lock /\ shutDown' = shutDown /\ cleaned' = cleaned
  BY DEF threads
<1>2. Children' = Children /\ Signalled' = Signalled
  BY DEF Children, Signalled
<1>3. LockedWhileAtWork'
  BY <1>1 DEF IInv, TypeOK, LockedWhileAtWork
<1>4. TypeOK'
  BY <1>1, <1>2, <1>3 DEF IInv, TypeOK, RestIsTyped
<1>5. OverIsClean' /\ DoneIsClean'
  BY <1>1 DEF IInv, OverIsClean, DoneIsClean
<1>6. CleanIsDead'
  BY <1>1, <1>2 DEF IInv, CleanIsDead
<1> QED
  BY <1>4, <1>5, <1>6 DEF IInv

\* So does one that moves a thread outside the shutdown.
LEMMA MoveOK ==
  ASSUME IInv, RestIsTyped', prepProcess' = prepProcess, child' = child,
         NEW t \in Threads, NEW place \in Places \ {"signal", "wait", "reap", "done"},
         pc[t] \notin {"signal", "wait", "reap"}, pc' = [pc EXCEPT ![t] = place],
         at' \in [Threads -> 1..Len(Signalled) + 1], blocked' = blocked, lock' = lock,
         shutDown' = shutDown, cleaned' = cleaned
  PROVE  IInv'
<1>1. pc \in [Threads -> Places]
  BY DEF IInv, TypeOK
<1>2. pc' \in [Threads -> Places] /\ \A u \in Threads : pc'[u] = IF u = t THEN place ELSE pc[u]
  BY <1>1
<1>3. Children' = Children /\ Signalled' = Signalled
  BY DEF Children, Signalled
<1>4. LockedWhileAtWork'
  BY <1>2 DEF IInv, TypeOK, LockedWhileAtWork
<1>5. TypeOK'
  BY <1>2, <1>3, <1>4 DEF IInv, TypeOK, RestIsTyped
<1>6. OverIsClean' /\ DoneIsClean'
  BY <1>2 DEF IInv, OverIsClean, DoneIsClean
<1>7. CleanIsDead'
  BY <1>3 DEF IInv, CleanIsDead, Alive
<1> QED
  BY <1>5, <1>6, <1>7 DEF IInv
-----------------------------------------------------------------------------
(* The steps of the child processes. *)

\* The grab process captures a frame, waits for a slot to load one into, or has
\* loaded it.
LEMMA CapturesOK == IInv /\ (Captures \/ AsksForSlot \/ Loads) => IInv'
<1> SUFFICES ASSUME IInv, Captures \/ AsksForSlot \/ Loads PROVE IInv'
  OBVIOUS
<1>1. made' \in 0..MaxFrames
  BY ShutdownAssumption DEF IInv, TypeOK, Captures, AsksForSlot, Loads
<1>2. /\ child' \in [Children -> {"idle", "waiting", "holding", "exited"}]
      /\ \A c \in Children : ~Alive(c) => ~Alive(c)'
  BY DEF IInv, TypeOK, Captures, AsksForSlot, Loads, Alive
<1>3. /\ queue' = queue /\ doomed' = doomed /\ session' = session /\ stop' = stop
      /\ procStop' = procStop /\ submitting' = submitting /\ threads' = threads
  BY DEF Captures, AsksForSlot, Loads
<1>4. RestIsTyped'
  BY <1>1, <1>2, <1>3 DEF IInv, TypeOK, RestIsTyped, session, QueuesOK, Children
<1> QED
  BY <1>2, <1>3, <1>4, WorkOK DEF session

\* A child puts the item it holds into a queue with room.
LEMMA EmitsOK == \A c \in Children : \A item \in Items : IInv /\ Emits(c, item) => IInv'
<1> SUFFICES ASSUME IInv, NEW c \in Children, NEW item \in Items, Emits(c, item) PROVE IInv'
  OBVIOUS
<1>1. Sink(c) \in Queues
  BY DEF Sink, Children, Queues
<1>2. QueuesOK'
  BY <1>1, PutOK DEF Emits, IInv, TypeOK, QueuesOK
<1>3. child' \in [Children -> {"idle", "waiting", "holding", "exited"}] /\ \A d \in Children : ~Alive(d) => ~Alive(d)'
  BY DEF IInv, TypeOK, Emits, Alive
<1>4. RestIsTyped'
  BY <1>2, <1>3 DEF IInv, TypeOK, Emits, RestIsTyped, session, Children
<1> QED
  BY <1>3, <1>4, WorkOK DEF Emits, session

\* A child takes an item, or the sentinel that ends it.
LEMMA TakesOK == \A c \in Children : IInv /\ Takes(c) => IInv'
<1> SUFFICES ASSUME IInv, NEW c \in Children, Takes(c) PROVE IInv'
  OBVIOUS
<1>1. Source(c) \in Queues
  BY DEF Source, Queues
<1>2. QueuesOK'
  BY <1>1, RestOK DEF Takes, IInv, TypeOK, QueuesOK
<1>3. child' \in [Children -> {"idle", "waiting", "holding", "exited"}] /\ \A d \in Children : ~Alive(d) => ~Alive(d)'
  BY DEF IInv, TypeOK, Takes, Alive
<1>4. RestIsTyped'
  BY <1>2, <1>3 DEF IInv, TypeOK, Takes, RestIsTyped, session, Children
<1> QED
  BY <1>3, <1>4, WorkOK DEF Takes, session

\* A child exits: told to, of itself, or by a signal.
LEMMA ExitsOK == IInv /\ (GrabExits \/ \E c \in Children : Crashes(c) \/ Falls(c)) => IInv'
<1> SUFFICES ASSUME IInv, NEW c \in Children, (GrabExits /\ c = "grab") \/ Crashes(c) \/ Falls(c) PROVE IInv'
  BY DEF Children
<1>1. /\ child' = [child EXCEPT ![c] = "exited"]
      /\ queue' = queue /\ made' = made /\ doomed' = doomed
      /\ session' = session /\ stop' = stop /\ procStop' = procStop
      /\ submitting' = submitting /\ threads' = threads
  BY DEF GrabExits, Crashes, Falls
<1>2. child' \in [Children -> {"idle", "waiting", "holding", "exited"}] /\ \A d \in Children : ~Alive(d) => ~Alive(d)'
  BY <1>1 DEF IInv, TypeOK, Alive
<1>3. RestIsTyped'
  BY <1>1, <1>2 DEF IInv, TypeOK, RestIsTyped, session, QueuesOK, Children
<1> QED
  BY <1>1, <1>2, <1>3, WorkOK DEF session
-----------------------------------------------------------------------------
(* The steps of the event loop. *)

\* The grab task passes a frame on, or raises the error it finds.
LEMMA GrabTaskOK == IInv /\ GrabTask => IInv'
<1> SUFFICES ASSUME IInv, GrabTask PROVE IInv'
  OBVIOUS
<1>1. QueuesOK'
  <2>1. "grabEvents" \in Queues /\ "assignments" \in Queues /\ "frame" \in Items
    BY DEF Queues, Items
  <2>2. queue' = Rest("grabEvents") \/ queue' = PutNowait(Rest("grabEvents"), "assignments", "frame")
    BY DEF GrabTask
  <2> QED
    BY <2>1, <2>2, RestOK, PutNowaitOK DEF GrabTask, IInv, TypeOK, QueuesOK
<1>2. submitting' \in BOOLEAN /\ raised' \in BOOLEAN
  BY DEF GrabTask
<1>3. RestIsTyped'
  BY <1>1, <1>2 DEF GrabTask, IInv, TypeOK, RestIsTyped, workers, Children
<1>4. CASE raised'
  <2>1. pc' = [pc EXCEPT !["coordinator"] = "ending"] /\ pc["coordinator"] = "running"
    BY <1>4 DEF GrabTask, CoordinatorAt, Running
  <2> QED
    BY <1>3, <2>1, MoveOK DEF GrabTask, workers, Threads, Places, IInv, TypeOK, Signalled
<1>5. CASE ~raised'
  <2>1. threads' = threads
    BY <1>5 DEF GrabTask, threads
  <2> QED
    BY <1>3, <2>1, WorkOK DEF GrabTask, workers, Alive
<1> QED
  BY <1>4, <1>5

\* The prep task, and the executor thread, pass a frame on.
LEMMA TasksOK == IInv /\ (PrepTask \/ Submitted) => IInv'
<1> SUFFICES ASSUME IInv, PrepTask \/ Submitted PROVE IInv'
  OBVIOUS
<1>1. QueuesOK' /\ submitting' \in BOOLEAN
  <2>1. /\ "prepOutput" \in Queues /\ "prepInput" \in Queues /\ "assignments" \in Queues
        /\ "frame" \in Items
    BY DEF Queues, Items
  <2>2. CASE PrepTask
    <3>1. queue' = Rest("prepOutput") \/ queue' = PutNowait(Rest("prepOutput"), "assignments", "frame")
      BY <2>2 DEF PrepTask
    <3> QED
      BY <2>1, <2>2, <3>1, RestOK, PutNowaitOK DEF PrepTask, IInv, TypeOK, QueuesOK
  <2>3. CASE Submitted
    BY <2>1, <2>3, PutOK DEF Submitted, IInv, TypeOK, QueuesOK
  <2> QED
    BY <2>2, <2>3
<1>2. /\ session' = session /\ stop' = stop /\ procStop' = procStop
      /\ workers' = workers /\ threads' = threads
  BY DEF PrepTask, Submitted
<1>3. RestIsTyped'
  BY <1>1, <1>2 DEF IInv, TypeOK, RestIsTyped, session, workers, Children
<1> QED
  BY <1>2, <1>3, WorkOK DEF session, workers, Alive

\* The decode task takes a result, which may stop the loop.
LEMMA DecodeTaskOK == \A completes \in BOOLEAN : IInv /\ DecodeTask(completes) => IInv'
<1> SUFFICES ASSUME IInv, NEW completes \in BOOLEAN, DecodeTask(completes) PROVE IInv'
  OBVIOUS
<1>1. QueuesOK'
  <2>1. /\ "results" \in Queues /\ "grabEvents" \in Queues /\ "prepOutput" \in Queues
        /\ "sentinel" \in Items
    BY DEF Queues, Items
  <2>2. /\ Rest("results") \in [Queues -> Seq(Items)]
        /\ \A q \in Queues : Len(Rest("results")[q]) <= Capacity
    BY <2>1, RestOK DEF DecodeTask, IInv, TypeOK
  <2> DEFINE woken == PutNowait(Rest("results"), "grabEvents", "sentinel")
  <2>3. /\ woken \in [Queues -> Seq(Items)]
        /\ \A q \in Queues : Len(woken[q]) <= Capacity
    BY <2>1, <2>2, PutNowaitOK
  <2>4. queue' = Rest("results") \/ queue' = PutNowait(woken, "prepOutput", "sentinel")
    BY DEF DecodeTask
  <2> HIDE DEF woken
  <2>5. /\ PutNowait(woken, "prepOutput", "sentinel") \in [Queues -> Seq(Items)]
        /\ \A q \in Queues : Len(PutNowait(woken, "prepOutput", "sentinel")[q]) <= Capacity
    BY <2>1, <2>3, PutNowaitOK
  <2>6. CASE queue' = Rest("results")
    BY <2>2, <2>6 DEF QueuesOK
  <2>7. CASE queue' = PutNowait(woken, "prepOutput", "sentinel")
    BY <2>5, <2>7 DEF QueuesOK
  <2> QED
    BY <2>4, <2>6, <2>7
<1>2. RestIsTyped'
  BY <1>1 DEF DecodeTask, IInv, TypeOK, RestIsTyped, workers, Children
<1>3. CASE completes
  <2>1. pc' = [pc EXCEPT !["coordinator"] = "ending"] /\ pc["coordinator"] = "running"
    BY <1>3 DEF DecodeTask, CoordinatorAt, Running
  <2> QED
    BY <1>2, <2>1, MoveOK DEF DecodeTask, workers, Threads, Places, IInv, TypeOK, Signalled
<1>4. CASE ~completes
  <2>1. threads' = threads
    BY <1>4 DEF DecodeTask, threads
  <2> QED
    BY <1>2, <2>1, WorkOK DEF DecodeTask, workers, Alive
<1> QED
  BY <1>3, <1>4

\* The loop ends, and asyncio.run after it.
LEMMA LoopEndsOK == IInv /\ (Leaves \/ RunEnds) => IInv'
<1> SUFFICES ASSUME IInv, Leaves \/ RunEnds PROVE IInv'
  OBVIOUS
<1>1. /\ queue' = queue /\ workers' = workers /\ submitting' = submitting
      /\ prepProcess' = prepProcess /\ simulated' = simulated /\ complete' = complete /\ procStop' = procStop
      /\ at' = at /\ blocked' = blocked /\ lock' = lock
      /\ shutDown' = shutDown /\ cleaned' = cleaned
  BY DEF Leaves, RunEnds, session
<1>2. raised' \in BOOLEAN /\ error' \in BOOLEAN /\ stop' \in BOOLEAN
  BY DEF Leaves, RunEnds, session, IInv, TypeOK
<1>3. RestIsTyped'
  BY <1>1, <1>2 DEF IInv, TypeOK, RestIsTyped, workers, QueuesOK, Children
<1>4. PICK place \in {"ending", "enter"} :
         /\ pc' = [pc EXCEPT !["coordinator"] = place]
         /\ pc["coordinator"] \in {"running", "ending"}
  BY DEF Leaves, RunEnds, CoordinatorAt
<1> QED
  BY <1>1, <1>3, <1>4, MoveOK DEF workers, Threads, Places, IInv, TypeOK, Signalled
-----------------------------------------------------------------------------
\* The steps of the main thread before the shutdown.
LEMMA MainOK == IInv /\ (MainStep \/ GivesUp \/ Joins) => IInv'
<1> SUFFICES ASSUME IInv, MainStep \/ GivesUp \/ Joins PROVE IInv'
  OBVIOUS
<1> USE DEF MainStep, Finishes, SeesError, SeesExit, ChecksStop, Continues, GivesUp, Joins, BeginsToStop
<1>1. /\ queue' = queue /\ workers' = workers /\ submitting' = submitting /\ session' = session
      /\ at' = at /\ blocked' = blocked /\ lock' = lock
      /\ shutDown' = shutDown /\ cleaned' = cleaned
  OBVIOUS
<1>2. stop' \in BOOLEAN /\ procStop' \in BOOLEAN
  BY DEF IInv, TypeOK
<1>3. PICK place \in {"loop", "exits", "stop", "enter"} :
         /\ pc' = [pc EXCEPT !["main"] = place]
         /\ pc["main"] \in {"loop", "exits", "joining"}
  OBVIOUS
<1>4. RestIsTyped'
  BY <1>1, <1>2 DEF IInv, TypeOK, RestIsTyped, workers, session, QueuesOK, Children
<1> QED
  BY <1>1, <1>3, <1>4, MoveOK DEF workers, session, Threads, Places, IInv, TypeOK, Signalled
-----------------------------------------------------------------------------
(* The steps of the shutdown. *)

\* A thread gives a queue its sentinel, or waits for room in it.
LEMMA SignalsOK == \A t \in Threads : IInv /\ Signals(t) => IInv'
<1> SUFFICES ASSUME IInv, NEW t \in Threads, Signals(t) PROVE IInv'
  OBVIOUS
<1> DEFINE q == Signalled[at[t]]
<1>1. q \in Queues /\ at[t] \in 1..Len(Signalled) /\ Len(Signalled) \in Nat
  BY DEF Signals, Signalled, Queues, IInv, TypeOK
<1>2. queue' = queue \/ (HasRoom(queue, q) /\ queue' = Put(queue, q, "sentinel"))
  BY DEF Signals
<1>3. QueuesOK'
  <2>1. "sentinel" \in Items
    BY DEF Items
  <2> HIDE DEF q
  <2>2. CASE queue' = queue
    BY <2>2 DEF IInv, TypeOK, QueuesOK
  <2>3. CASE HasRoom(queue, q) /\ queue' = Put(queue, q, "sentinel")
    <3>1. /\ queue \in [Queues -> Seq(Items)]
          /\ \A r \in Queues : Len(queue[r]) <= Capacity
      BY DEF IInv, TypeOK, QueuesOK
    <3>2. /\ Put(queue, q, "sentinel") \in [Queues -> Seq(Items)]
          /\ \A r \in Queues : Len(Put(queue, q, "sentinel")[r]) <= Capacity
      BY <1>1, <2>1, <2>3, <3>1, PutOK
    <3> QED
      BY <2>3, <3>2 DEF QueuesOK
  <2> QED
    BY <1>2, <2>2, <2>3
<1>4. /\ session' = session /\ stop' = stop /\ procStop' = procStop /\ workers' = workers
      /\ submitting' = submitting /\ pc' = pc /\ lock' = lock
      /\ shutDown' = shutDown /\ cleaned' = cleaned
  BY DEF Signals
<1>5. at' \in [Threads -> 1..Len(Signalled) + 1] /\ blocked' \subseteq Threads
  <2>1. at' = at \/ at' = [at EXCEPT ![t] = @ + 1]
    BY DEF Signals
  <2>2. blocked' = blocked \ {t} \/ blocked' = blocked \cup {t}
    BY DEF Signals
  <2> QED
    BY <1>1, <2>1, <2>2 DEF IInv, TypeOK
<1>6. RestIsTyped'
  BY <1>3, <1>4 DEF IInv, TypeOK, RestIsTyped, session, workers, Children
<1>7. Children' = Children /\ Signalled' = Signalled
  BY <1>4 DEF session, Children, Signalled
<1>8. LockedWhileAtWork'
  BY <1>4 DEF IInv, TypeOK, LockedWhileAtWork
<1>9. TypeOK'
  BY <1>4, <1>5, <1>6, <1>7, <1>8 DEF IInv, TypeOK, RestIsTyped
<1> QED
  BY <1>4, <1>7, <1>9 DEF IInv, OverIsClean, CleanIsDead, DoneIsClean, Alive, workers

\* A thread that has given all queues a sentinel goes on, holding the lock if
\* it had it.
LEMMA EndsSignallingOK == \A t \in Threads : IInv /\ EndsSignalling(t) => IInv'
<1> SUFFICES ASSUME IInv, NEW t \in Threads, EndsSignalling(t) PROVE IInv'
  OBVIOUS
<1>1. /\ session' = session /\ stop' = stop /\ procStop' = procStop /\ workers' = workers
      /\ submitting' = submitting /\ queue' = queue /\ blocked' = blocked /\ lock' = lock
      /\ shutDown' = shutDown /\ cleaned' = cleaned
  BY DEF EndsSignalling
<1>2. PICK place \in {"stopAgain", "joining", "wait"} :
         /\ pc' = [pc EXCEPT ![t] = place]
         /\ pc[t] \in {"stop", "stopAgain", "signal"}
         /\ place = "wait" <=> pc[t] = "signal"
  BY DEF EndsSignalling, Signalling, AfterSignalling
<1>3. /\ pc' \in [Threads -> Places]
      /\ \A u \in Threads : pc'[u] = IF u = t THEN place ELSE pc[u]
  BY <1>2 DEF IInv, TypeOK, Places
<1>4. RestIsTyped'
  BY <1>1 DEF IInv, TypeOK, RestIsTyped, session, workers, QueuesOK, Children
<1>5. Children' = Children /\ Signalled' = Signalled
  BY <1>1 DEF session, Children, Signalled
<1>6. at' \in [Threads -> 1..Len(Signalled) + 1]
  BY DEF EndsSignalling, Signalled, IInv, TypeOK
<1>7. LockedWhileAtWork'
  BY <1>1, <1>2, <1>3 DEF IInv, TypeOK, LockedWhileAtWork
<1>8. TypeOK'
  BY <1>1, <1>3, <1>4, <1>5, <1>6, <1>7 DEF IInv, TypeOK, RestIsTyped
<1>9. DoneIsClean'
  BY <1>1, <1>3 DEF IInv, DoneIsClean
<1> QED
  BY <1>1, <1>5, <1>8, <1>9 DEF IInv, OverIsClean, CleanIsDead, Alive, workers

\* The first to enter takes the lock; one that enters later finds it clean.
LEMMA EntersOK == \A t \in Threads : IInv /\ Enters(t) => IInv'
<1> SUFFICES ASSUME IInv, NEW t \in Threads, Enters(t) PROVE IInv'
  OBVIOUS
<1>1. /\ session' = session /\ queue' = queue /\ workers' = workers
      /\ submitting' = submitting /\ at' = at /\ blocked' = blocked /\ cleaned' = cleaned
      /\ pc[t] = "enter" /\ lock = None
  BY DEF Enters
<1>2. Children' = Children /\ Signalled' = Signalled
  BY <1>1 DEF session, Children, Signalled
<1>3. stop' \in BOOLEAN /\ procStop' \in BOOLEAN /\ shutDown' \in BOOLEAN
  BY DEF Enters, IInv, TypeOK
<1>4. RestIsTyped'
  BY <1>1, <1>3 DEF IInv, TypeOK, RestIsTyped, session, workers, QueuesOK, Children
<1>5. CleanIsDead'
  BY <1>1, <1>2 DEF IInv, CleanIsDead, Alive, workers
<1>6. CASE shutDown
  <2>1. pc' = [pc EXCEPT ![t] = "done"] /\ lock' = lock /\ shutDown' = shutDown
    BY <1>6 DEF Enters
  <2>2. /\ pc' \in [Threads -> Places]
        /\ \A u \in Threads : pc'[u] = IF u = t THEN "done" ELSE pc[u]
    BY <2>1 DEF IInv, TypeOK, Places
  <2>3. LockedWhileAtWork'
    BY <1>1, <2>1, <2>2 DEF IInv, TypeOK, LockedWhileAtWork
  <2>4. TypeOK'
    BY <1>1, <1>2, <1>3, <1>4, <2>1, <2>2, <2>3 DEF IInv, TypeOK, RestIsTyped
  <2>5. cleaned
    BY <1>1, <1>6 DEF IInv, OverIsClean
  <2> QED
    BY <1>1, <1>5, <2>1, <2>4, <2>5 DEF IInv, OverIsClean, DoneIsClean
<1>7. CASE ~shutDown
  <2>1. pc' = [pc EXCEPT ![t] = "signal"] /\ lock' = t /\ shutDown'
    BY <1>7 DEF Enters
  <2>2. /\ pc' \in [Threads -> Places]
        /\ \A u \in Threads : pc'[u] = IF u = t THEN "signal" ELSE pc[u]
    BY <2>1 DEF IInv, TypeOK, Places
  <2>3. lock' \in Threads /\ lock' # None
    BY <2>1, ShutdownAssumption
  <2>4. LockedWhileAtWork'
    <3>1. \A u \in Threads : pc[u] \notin {"signal", "wait", "reap"}
      BY <1>1, ShutdownAssumption DEF IInv, TypeOK, LockedWhileAtWork
    <3> QED
      BY <2>1, <2>2, <3>1 DEF LockedWhileAtWork
  <2>5. TypeOK'
    BY <1>1, <1>2, <1>3, <1>4, <2>2, <2>3, <2>4 DEF IInv, TypeOK, RestIsTyped
  <2>6. OverIsClean'
    BY <2>3 DEF OverIsClean
  <2>7. DoneIsClean'
    BY <1>1, <2>2 DEF IInv, DoneIsClean
  <2> QED
    BY <1>5, <2>5, <2>6, <2>7 DEF IInv
<1> QED
  BY <1>6, <1>7

\* The wait for the children ends with the lock held.
LEMMA TerminatesOK == \A t \in Threads : IInv /\ Terminates(t) => IInv'
<1> SUFFICES ASSUME IInv, NEW t \in Threads, Terminates(t) PROVE IInv'
  OBVIOUS
<1>1. /\ session' = session /\ stop' = stop /\ procStop' = procStop /\ queue' = queue
      /\ child' = child /\ made' = made /\ doomed' = TRUE /\ submitting' = submitting
      /\ at' = at /\ blocked' = blocked /\ lock' = lock
      /\ shutDown' = shutDown /\ cleaned' = cleaned
      /\ pc[t] = "wait" /\ pc' = [pc EXCEPT ![t] = "reap"]
  BY DEF Terminates
<1>2. /\ pc' \in [Threads -> Places]
      /\ \A u \in Threads : pc'[u] = IF u = t THEN "reap" ELSE pc[u]
  BY <1>1 DEF IInv, TypeOK, Places
<1>3. Children' = Children /\ Signalled' = Signalled
  BY <1>1 DEF session, Children, Signalled
<1>4. RestIsTyped'
  BY <1>1 DEF IInv, TypeOK, RestIsTyped, session, QueuesOK, Children
<1>5. LockedWhileAtWork'
  BY <1>1, <1>2 DEF IInv, TypeOK, LockedWhileAtWork
<1>6. TypeOK'
  BY <1>1, <1>2, <1>3, <1>4, <1>5 DEF IInv, TypeOK, RestIsTyped
<1>7. DoneIsClean'
  BY <1>1, <1>2 DEF IInv, DoneIsClean
<1> QED
  BY <1>1, <1>3, <1>6, <1>7 DEF IInv, OverIsClean, CleanIsDead, Alive

\* The lock is released when all is clean.
LEMMA ReapsOK == \A t \in Threads : IInv /\ Reaps(t) => IInv'
<1> SUFFICES ASSUME IInv, NEW t \in Threads, Reaps(t) PROVE IInv'
  OBVIOUS
<1>1. /\ session' = session /\ stop' = stop /\ procStop' = procStop /\ queue' = queue
      /\ workers' = workers /\ submitting' = submitting
      /\ at' = at /\ blocked' = blocked /\ shutDown' = shutDown
      /\ cleaned' = TRUE /\ lock' = None
      /\ pc[t] = "reap" /\ pc' = [pc EXCEPT ![t] = "done"]
  BY DEF Reaps
<1>2. /\ pc' \in [Threads -> Places]
      /\ \A u \in Threads : pc'[u] = IF u = t THEN "done" ELSE pc[u]
  BY <1>1 DEF IInv, TypeOK, Places
<1>3. Children' = Children /\ Signalled' = Signalled
  BY <1>1 DEF session, Children, Signalled
<1>4. RestIsTyped'
  BY <1>1 DEF IInv, TypeOK, RestIsTyped, session, workers, QueuesOK, Children
<1>5. LockedWhileAtWork'
  <2>1. lock = t
    BY <1>1 DEF IInv, TypeOK, LockedWhileAtWork
  <2>2. \A u \in Threads : pc'[u] \notin {"signal", "wait", "reap"}
    BY <1>2, <2>1 DEF IInv, TypeOK, LockedWhileAtWork
  <2> QED
    BY <1>1, <2>2, ShutdownAssumption DEF LockedWhileAtWork
<1>6. TypeOK'
  BY <1>1, <1>2, <1>3, <1>4, <1>5 DEF IInv, TypeOK, RestIsTyped
<1>7. CleanIsDead'
  BY <1>1, <1>3 DEF Reaps, CleanIsDead, Alive, workers
<1> QED
  BY <1>1, <1>6, <1>7 DEF IInv, OverIsClean, DoneIsClean
-----------------------------------------------------------------------------
\* Every step preserves the invariant.
LEMMA StepOK == IInv /\ [Next]_vars => IInv'
<1> SUFFICES ASSUME IInv, [Next]_vars PROVE IInv'
  OBVIOUS
<1>1. CASE Captures \/ AsksForSlot \/ Loads \/ GrabExits
  BY <1>1, CapturesOK, ExitsOK
<1>2. CASE \E c \in Children : ChildStep(c) \/ Crashes(c)
  BY <1>2, EmitsOK, ExitsOK DEF ChildStep
<1>3. CASE \E c \in Children \ {"grab"} : Takes(c)
  BY <1>3, TakesOK
<1>4. CASE LoopStep \/ Submitted
  BY <1>4, GrabTaskOK, TasksOK, DecodeTaskOK DEF LoopStep
<1>5. CASE Leaves \/ RunEnds
  BY <1>5, LoopEndsOK
<1>6. CASE \E t \in Threads : ShutdownStep(t)
  BY <1>6, SignalsOK, EndsSignallingOK, EntersOK, TerminatesOK, ReapsOK DEF ShutdownStep
<1>7. CASE MainStep \/ GivesUp \/ Joins
  BY <1>7, MainOK
<1>8. CASE UNCHANGED vars
  <2>1. /\ session' = session /\ stop' = stop /\ procStop' = procStop /\ queue' = queue
        /\ workers' = workers /\ submitting' = submitting /\ threads' = threads
    BY <1>8 DEF vars
  <2>2. RestIsTyped'
    BY <2>1 DEF IInv, TypeOK, RestIsTyped, session, workers, QueuesOK, Children
  <2> QED
    BY <2>1, <2>2, WorkOK DEF session, workers, Alive
<1> QED
  BY <1>1, <1>2, <1>3, <1>4, <1>5, <1>6, <1>7, <1>8 DEF Next

\* The inductive invariant holds of every session.
LEMMA InvariantHolds == Spec => []IInv
  BY InitOK, StepOK, PTL DEF Spec

\* In every session the queues never hold more than they may, whoever puts
\* into them, and at most one thread at a time is at work on the children:
\* the one with _shutdown_lock.
THEOREM TypeCorrect == Spec => []TypeOK
<1>1. IInv => TypeOK
  BY DEF IInv
<1> QED
  BY <1>1, InvariantHolds, PTL

\* When join() has returned no child process is left and the shared memory is
\* unlinked, whichever thread shut the session down (_shutdown_processes).
THEOREM JoinIsClean == Spec => []JoinLeavesNothing
<1>1. IInv => JoinLeavesNothing
  BY DEF IInv, DoneIsClean, CleanIsDead, JoinLeavesNothing, Threads
<1> QED
  BY <1>1, InvariantHolds, PTL
=============================================================================
