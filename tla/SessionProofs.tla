---------------------------- MODULE SessionProofs ----------------------------
(***************************************************************************)
(* A session of the program, for every payload, schedule, recording and    *)
(* number of workers.  First the replay by itself, whatever the recording, *)
(* the size of the pool and the workers that die: the assembler is given   *)
(* the recorded frames in their order, the count of pending frames is      *)
(* exact, and a replay that ends of itself has left no frame behind.  Then *)
(* the session: the replay keeps its order and its account whatever the    *)
(* main thread does; what the assembler of an orderly session holds,       *)
(* recovers and restores is what was sent; what any session restores was   *)
(* sent; a whole dump completes; idleness is not mistaken.                 *)
(*                                                                         *)
(* The argument about the replay: each frame that was read and not         *)
(* committed is in one place, a queue, a worker or the reorder buffer, or  *)
(* died with a worker (InOnePlace, Counted); those in the buffer are no    *)
(* longer counted as pending; so when nothing is pending the buffer holds  *)
(* all of them, the next to commit among them, and then it is committed.   *)
(***************************************************************************)
EXTENDS Session, RecoveryProofs, FiniteSetTheorems, TLAPS

-----------------------------------------------------------------------------
(* The replay.                                                               *)

\* The thread's loops; after them it only closes the pool.
Looping == thread \notin {"closing", "ended"}

InTasks == {tasks[i] : i \in DOMAIN tasks} \ {Sentinel}
InResults == {results[i] : i \in DOMAIN results}
InWork == {working[w] : w \in Busy}

\* A frame on its way is in one place, and has been read but not committed.
NoFrameTwice ==
    /\ \A i, j \in DOMAIN tasks : tasks[i] = tasks[j] /\ tasks[i] # Sentinel => i = j
    /\ \A i, j \in DOMAIN results : results[i] = results[j] => i = j
    /\ \A w, v \in Busy : working[w] = working[v] => w = v

InOnePlace ==
    /\ NoFrameTwice
    /\ InTasks \cap InResults = {} /\ InTasks \cap InWork = {} /\ InResults \cap InWork = {}
    /\ held \cap (InTasks \cup InResults \cup InWork) = {}
    /\ InTasks \cup InResults \cup InWork \cup held \subseteq committed + 1..sequence
    /\ Looping => \A i \in DOMAIN tasks : tasks[i] # Sentinel

\* What pending_count and the buffer together account for.
Counted ==
    Looping =>
        /\ pending >= Len(tasks) + Cardinality(Busy) + Len(results)
        /\ deaths = 0 => pending = Len(tasks) + Cardinality(Busy) + Len(results)
        /\ parallel => sequence = committed + Cardinality(held) + pending
        /\ thread = "reading" => pending < MaxPending

\* Before the thread starts, and when it works alone, there is no pool.
NoPool ==
    /\ tasks = <<>> /\ results = <<>> /\ held = {} /\ pending = 0
    /\ working = [w \in Workers |-> Gone]

Places ==
    /\ thread = "unstarted" => NoPool /\ sequence = 0 /\ ~exhausted
    /\ ~parallel =>
          /\ NoPool
          /\ thread \in {"unstarted", "reading", "decoding", "ended"}
          /\ thread = "decoding" => sequence = committed + 1
          /\ thread = "reading" => sequence = committed
    /\ parallel => thread # "decoding"

\* The loops end when the assembler is complete, and otherwise with the recording.
Progress ==
    /\ Looping => ~Complete(asm) /\ decodeOk <= committed
    /\ thread \in {"reading", "filling", "draining"} => committed + 1 \notin held
    /\ thread = "draining" => exhausted
    /\ exhausted /\ ~stop => sequence = Len(recording)
    /\ ~Looping /\ ~stop /\ ~error /\ ~Complete(asm) => committed = Len(recording)

IInv ==
    /\ recording \in Seq(Recorded)
    /\ ReplayTypeOK
    /\ InOnePlace
    /\ Counted
    /\ Places
    /\ Progress
-----------------------------------------------------------------------------
\* The numbers are numbers, and the sets finite.
LEMMA Sizes ==
  ASSUME ReplayTypeOK, recording \in Seq(Recorded)
  PROVE  /\ Len(recording) \in Nat /\ sequence \in Nat /\ committed \in Nat /\ pending \in Nat
         /\ Len(tasks) \in Nat /\ Len(results) \in Nat
         /\ MaxPending \in Nat /\ MaxPending > 0
         /\ Cardinality(Workers) \in Nat
         /\ Busy \subseteq Workers /\ IsFiniteSet(Busy) /\ Cardinality(Busy) \in Nat
         /\ IsFiniteSet(held) /\ Cardinality(held) \in Nat
<1>1. Len(recording) \in Nat /\ Len(tasks) \in Nat /\ Len(results) \in Nat
  BY DEF ReplayTypeOK
<1>2. Cardinality(Workers) \in Nat /\ Cardinality(Workers) > 0
  <2>1. Cardinality(Workers) \in Nat
    BY PoolAssumption, FS_CardinalityType
  <2>2. Cardinality(Workers) # 0
    BY PoolAssumption, FS_EmptySet
  <2> QED BY <2>1, <2>2
<1>3. Busy \subseteq Workers /\ IsFiniteSet(Busy) /\ Cardinality(Busy) \in Nat
  BY PoolAssumption, FS_Subset, FS_CardinalityType DEF Busy
<1>4. IsFiniteSet(held) /\ Cardinality(held) \in Nat
  <2>1. IsFiniteSet(1..Len(recording))
    BY <1>1, FS_Interval
  <2> QED BY <2>1, FS_Subset, FS_CardinalityType DEF ReplayTypeOK, Frames
<1> QED
  BY <1>1, <1>2, <1>3, <1>4, PoolAssumption DEF ReplayTypeOK

\* The initial states satisfy the invariant.
LEMMA InitOK == ReplayInit => IInv
<1> SUFFICES ASSUME ReplayInit PROVE IInv
  OBVIOUS
<1> USE DEF ReplayInit
<1>0. <<>> \in Seq(Recorded) /\ Len(<<>>) = 0 /\ DOMAIN tasks = {} /\ DOMAIN results = {}
  OBVIOUS
<1>1. ReplayTypeOK
  <2>1. Cardinality(Workers) \in Nat
    BY PoolAssumption, FS_CardinalityType
  <2>2. tasks \in Seq(Frames \cup {Sentinel}) /\ results \in Seq(Frames) /\ Len(tasks) = 0
    BY <1>0
  <2>3. working \in [Workers -> Frames \cup {Idle, Gone}]
    OBVIOUS
  <2>4. sequence \in 0..Len(recording) /\ committed \in 0..sequence /\ decodeOk \in 0..sequence
    BY <1>0
  <2>5. pending \in 0..MaxPending /\ sentinels \in 0..Cardinality(Workers) /\ deaths \in 0..MaxDeaths
    BY <2>1, PoolAssumption
  <2>6. Len(tasks) <= MaxPending
    BY <2>2, PoolAssumption
  <2> QED BY <2>2, <2>3, <2>4, <2>5, <2>6 DEF ReplayTypeOK
<1>2. Busy = {}
  BY DEF Busy, Gone
<1>3. InOnePlace
  BY <1>0, <1>2 DEF InOnePlace, NoFrameTwice, InTasks, InResults, InWork
<1>4. Counted
  BY <1>0, <1>2, FS_EmptySet, PoolAssumption DEF Counted
<1>5. Places
  BY DEF Places, NoPool
<1>6. Progress
  BY DEF Progress, Looping, Complete, EmptyAssembler
<1> QED
  BY <1>0, <1>1, <1>3, <1>4, <1>5, <1>6 DEF IInv

\* start() finds nothing on its way.
LEMMA StartOK == ASSUME IInv, NEW frames \in Seq(Recorded), Start(frames) PROVE IInv'
<1> USE DEF IInv, Start
<1>1. /\ recording' = frames /\ Len(frames) \in Nat
      /\ NoPool /\ sequence = 0 /\ committed = 0 /\ ~exhausted
  BY DEF Places, ReplayTypeOK
<1>2. Busy' = {} /\ Busy = {}
  BY <1>1 DEF Busy, NoPool, Gone, Idle
<1>3. ReplayTypeOK'
  <2>1. tasks' = <<>> /\ results' = <<>> /\ held' = {} /\ sequence' = 0 /\ committed' = 0
    BY <1>1 DEF NoPool, poolVars, assemblyVars
  <2>2. working' \in [Workers -> {Idle, Gone}]
    OBVIOUS
  <2>3. sentinels' \in 0..Cardinality(Workers)
    BY Sizes
  <2> QED BY <1>1, <2>1, <2>2, <2>3 DEF ReplayTypeOK, Frames, poolVars, assemblyVars
<1>4. InOnePlace'
  <2>1. tasks' = <<>> /\ results' = <<>> /\ held' = {}
    BY <1>1 DEF NoPool, assemblyVars
  <2> QED BY <1>2, <2>1 DEF InOnePlace, NoFrameTwice, InTasks, InResults, InWork
<1>5. Counted'
  BY <1>1, <1>2, Sizes, FS_EmptySet DEF Counted, NoPool, Looping, assemblyVars
<1>6. Places'
  BY <1>1 DEF Places, NoPool, assemblyVars
<1>7. Progress'
  BY <1>1 DEF Progress, Looping, NoPool, assemblyVars, Places, ReplayTypeOK
<1> QED
  BY <1>1, <1>3, <1>4, <1>5, <1>6, <1>7

-----------------------------------------------------------------------------
(* The thread alone.                                                         *)

\* Without a pool there is nothing to keep apart.
LEMMA NoPoolIsApart ==
  ASSUME NoPool PROVE InOnePlace /\ Busy = {}
<1>1. Busy = {}
  BY DEF NoPool, Busy, Gone
<1> QED
  BY <1>1 DEF InOnePlace, NoFrameTwice, InTasks, InResults, InWork, NoPool

\* The sequential loop reads a frame.
LEMMA SequentialReadOK == ASSUME IInv, SequentialRead PROVE IInv'
<1> USE DEF IInv, SequentialRead
<1>1. NoPool /\ NoPool' /\ sequence = committed
  BY DEF Places, NoPool, poolVars
<1>2. Busy' = {} /\ InOnePlace'
  BY <1>1, NoPoolIsApart DEF NoPool, Busy, Gone, InOnePlace, NoFrameTwice, InTasks, InResults, InWork
<1>3. ReplayTypeOK'
  <2>1. /\ Len(recording) \in Nat /\ sequence \in 0..Len(recording)
        /\ committed \in 0..sequence /\ decodeOk \in 0..sequence
    BY Sizes DEF ReplayTypeOK
  <2>2. sequence' = sequence \/ (sequence' = sequence + 1 /\ sequence # Len(recording))
    BY DEF NextFile
  <2>3. sequence' \in 0..Len(recording) /\ committed \in 0..sequence' /\ decodeOk \in 0..sequence'
    BY ONLY <2>1, <2>2
  <2>4. committed' = committed /\ decodeOk' = decodeOk /\ Frames' = Frames
    BY DEF assemblyVars, Frames
  <2>5. thread' \in {"decoding", "ended"} /\ error' \in BOOLEAN
    OBVIOUS
  <2> QED BY <2>3, <2>4, <2>5 DEF ReplayTypeOK, poolVars, assemblyVars
<1>4. Counted'
  BY <1>1, <1>2, Sizes, FS_EmptySet DEF Counted, NoPool, poolVars, Looping
<1>5. Places'
  BY <1>1, Sizes DEF Places, poolVars, assemblyVars
<1>6. Progress'
  <2>1. NextFile = "none" => sequence = Len(recording)
    <3>1. CASE sequence # Len(recording)
      <4>1. recording[sequence + 1] \in Recorded
        BY <3>1, Sizes DEF ReplayTypeOK
      <4> QED BY <4>1, RecordedAssumption DEF NextFile
    <3> QED BY <3>1
  <2>2. NextFile # "none" => sequence # Len(recording)
    BY DEF NextFile
  <2> QED BY <1>1, <2>1, <2>2 DEF Progress, Looping, poolVars, assemblyVars, NoPool
<1> QED
  BY <1>2, <1>3, <1>4, <1>5, <1>6

\* The sequential loop decodes it and takes it.
LEMMA SequentialDecodeOK == ASSUME IInv, SequentialDecode PROVE IInv'
<1> USE DEF IInv, SequentialDecode
<1>1. NoPool /\ NoPool' /\ sequence = committed + 1
  BY DEF Places, NoPool, poolVars
<1>2. Busy' = {} /\ InOnePlace'
  BY <1>1 DEF NoPool, Busy, Gone, InOnePlace, NoFrameTwice, InTasks, InResults, InWork
<1>3. decodeOk' \in {decodeOk, decodeOk + 1}
  BY DEF Handled
<1>4. ReplayTypeOK'
  <2>1. committed \in Nat /\ decodeOk \in Nat /\ decodeOk <= committed
    BY Sizes DEF ReplayTypeOK, Progress, Looping
  <2>2. committed' \in {committed, committed + 1} /\ sequence' = sequence /\ Frames' = Frames
    BY DEF Frames
  <2>3. committed' \in 0..sequence /\ decodeOk' \in 0..sequence
    BY ONLY <1>1, <1>3, <2>1, <2>2
  <2>4. thread' \in {"reading", "ended"}
    OBVIOUS
  <2> QED BY <2>2, <2>3, <2>4 DEF ReplayTypeOK, poolVars
<1>5. Counted'
  BY <1>1, <1>2, Sizes, FS_EmptySet DEF Counted, NoPool, poolVars, Looping
<1>6. Places'
  BY <1>1, Sizes DEF Places, poolVars
<1>7. Progress'
  BY <1>1, <1>3, Sizes DEF Progress, Looping, poolVars, NoPool, ReplayTypeOK
<1> QED
  BY <1>2, <1>4, <1>5, <1>6, <1>7
-----------------------------------------------------------------------------
(* The thread and its pool.                                                  *)

\* Steps that move no frame.
LEMMA StillApart ==
  ASSUME InOnePlace, UNCHANGED <<tasks, working, results, held, committed, sequence>>,
         Looping' => Looping
  PROVE  InOnePlace' /\ Busy' = Busy
<1>1. Busy' = Busy
  BY DEF Busy
<1>2. InTasks' = InTasks /\ InResults' = InResults /\ InWork' = InWork
  BY <1>1 DEF InTasks, InResults, InWork
<1>3. NoFrameTwice'
  BY <1>1 DEF InOnePlace, NoFrameTwice
<1> QED
  BY <1>1, <1>2, <1>3 DEF InOnePlace

\* The frame just read goes where no frame of its number is.
LEMMA SubmitOK ==
  ASSUME IInv, parallel, thread = "reading",
         NextFile \notin {"none", "unloadable"}, ~stop, HasRoom,
         sequence' = sequence + 1, tasks' = Append(tasks, sequence'),
         pending' = pending + 1, thread' = "filling",
         UNCHANGED <<exhausted, error, recording, parallel, working, results, held,
                     sentinels, deaths, assemblyVars, stop>>
  PROVE  IInv'
<1> USE DEF IInv
<1> DEFINE next == sequence + 1
<1>0. Looping /\ Looping' /\ Busy' = Busy /\ committed' = committed /\ asm' = asm
  BY DEF Looping, Busy, assemblyVars
<1>1. /\ next \in 1..Len(recording) /\ next \in Int /\ sequence < next
      /\ tasks \in Seq(Frames \cup {Sentinel})
  BY Sizes DEF ReplayTypeOK, NextFile
<1>2. /\ Len(tasks') = Len(tasks) + 1 /\ DOMAIN tasks' = 1..Len(tasks) + 1
      /\ tasks'[Len(tasks) + 1] = next
      /\ \A i \in DOMAIN tasks : i \in DOMAIN tasks' /\ tasks'[i] = tasks[i]
      /\ \A i \in DOMAIN tasks' : i \in DOMAIN tasks \/ i = Len(tasks) + 1
  BY <1>1
<1>3. ReplayTypeOK'
  <2>1. tasks' \in Seq(Frames \cup {Sentinel})'
    BY <1>1 DEF Frames
  <2>2. Len(tasks') <= MaxPending
    BY <1>2, Sizes DEF HasRoom
  <2>3. pending' \in 0..MaxPending
    <3>1. pending < MaxPending
      BY <1>0 DEF Counted
    <3>2. pending \in Nat /\ MaxPending \in Nat
      BY Sizes
    <3>3. pending' = pending + 1
      OBVIOUS
    <3> QED BY ONLY <3>1, <3>2, <3>3
  <2>4. sequence' \in 0..Len(recording) /\ committed' \in 0..sequence' /\ decodeOk' \in 0..sequence'
    <3>1. sequence \in Nat /\ committed \in 0..sequence /\ decodeOk \in 0..sequence
      BY Sizes DEF ReplayTypeOK
    <3>2. sequence' = next /\ committed' = committed /\ decodeOk' = decodeOk /\ recording' = recording
      BY DEF assemblyVars
    <3> QED BY <1>1, <3>1, <3>2
  <2>5. results' \in Seq(Frames)' /\ held' \subseteq Frames'
        /\ working' \in [Workers -> Frames \cup {Idle, Gone}]'
    BY DEF ReplayTypeOK, Frames
  <2> QED BY <2>1, <2>2, <2>3, <2>4, <2>5 DEF ReplayTypeOK
<1>4. InOnePlace'
  <2>1. \A f \in InTasks \cup InResults \cup InWork \cup held : f # next /\ f \in committed + 1..next
    <3>1. committed + 1..sequence \subseteq committed + 1..next /\ next \notin committed + 1..sequence
      BY Sizes
    <3> QED BY <3>1 DEF InOnePlace
  <2>2. InTasks' = InTasks \cup {next} /\ InResults' = InResults /\ InWork' = InWork
    <3>1. next # Sentinel
      BY Sizes DEF Sentinel
    <3> QED BY <3>1, <1>0, <1>2 DEF InTasks, InResults, InWork
  <2>3. \A i \in DOMAIN tasks : tasks[i] # Sentinel /\ tasks[i] # next
    BY <2>1, <1>0 DEF InOnePlace, InTasks
  <2>4. NoFrameTwice'
    BY <1>0, <1>2, <2>3 DEF InOnePlace, NoFrameTwice
  <2>5. \A i \in DOMAIN tasks' : tasks'[i] # Sentinel
    BY <1>2, <2>3, Sizes DEF Sentinel
  <2>6. next \in committed + 1..next
    BY Sizes DEF ReplayTypeOK
  <2> HIDE DEF next
  <2>7. InTasks' \cup InResults' \cup InWork' \cup held' \subseteq committed + 1..next
    BY <2>1, <2>2, <2>6
  <2>8. /\ InTasks' \cap InResults' = {} /\ InTasks' \cap InWork' = {} /\ InResults' \cap InWork' = {}
        /\ held' \cap (InTasks' \cup InResults' \cup InWork') = {}
    BY <2>1, <2>2 DEF InOnePlace
  <2> QED BY <1>0, <2>4, <2>5, <2>7, <2>8 DEF InOnePlace, next
<1>5. Counted'
  <2>1. /\ Len(tasks') = Len(tasks) + 1 /\ pending' = pending + 1 /\ sequence' = sequence + 1
        /\ Cardinality(Busy') = Cardinality(Busy) /\ Len(results') = Len(results)
        /\ Cardinality(held') = Cardinality(held) /\ thread' # "reading"
        /\ deaths' = deaths /\ committed' = committed
    BY <1>0, <1>2
  <2>2. /\ pending >= Len(tasks) + Cardinality(Busy) + Len(results)
        /\ deaths = 0 => pending = Len(tasks) + Cardinality(Busy) + Len(results)
        /\ sequence = committed + Cardinality(held) + pending
    BY <1>0 DEF Counted
  <2>3. /\ Len(tasks) \in Nat /\ Cardinality(Busy) \in Nat /\ Len(results) \in Nat /\ pending \in Nat
        /\ Cardinality(held) \in Nat /\ committed \in Nat /\ sequence \in Nat
    BY Sizes
  <2>4. pending' >= Len(tasks') + Cardinality(Busy') + Len(results')
    BY ONLY <2>1, <2>2, <2>3
  <2>5. deaths' = 0 => pending' = Len(tasks') + Cardinality(Busy') + Len(results')
    BY ONLY <2>1, <2>2, <2>3
  <2>6. sequence' = committed' + Cardinality(held') + pending'
    <3>1. committed' + Cardinality(held') + pending' = committed + Cardinality(held) + (pending + 1)
      BY ONLY <2>1
    <3>2. sequence = committed + Cardinality(held) + pending
      BY <2>2
    <3>3. sequence + 1 = committed + Cardinality(held) + (pending + 1)
      BY ONLY <3>2, <2>3
    <3> QED BY ONLY <2>1, <3>1, <3>3
  <2> QED BY <2>1, <2>4, <2>5, <2>6 DEF Counted
<1>6. Places' /\ Progress'
  BY <1>0, <1>1, Sizes DEF Places, Progress, Looping, assemblyVars, NextFile
<1> QED
  BY <1>3, <1>4, <1>5, <1>6

\* A frame is read and submitted to a worker.
LEMMA ReadOK == ASSUME IInv, Read PROVE IInv'
<1> USE DEF IInv
<1>1. CASE NextFile = "unloadable" /\ thread' = "closing" /\ error' = TRUE
           /\ UNCHANGED <<sequence, tasks, pending, exhausted>>
  <2>1. InOnePlace' /\ Busy' = Busy
    BY <1>1, StillApart DEF Read, assemblyVars, Looping
  <2>2. ReplayTypeOK'
    BY <1>1 DEF Read, ReplayTypeOK, Frames, assemblyVars
  <2>3. Counted' /\ Places' /\ Progress'
    BY <1>1 DEF Read, Counted, Places, Progress, Looping, assemblyVars
  <2> QED BY <2>1, <2>2, <2>3 DEF Read
<1>2. CASE NextFile # "unloadable" /\ (stop \/ NextFile = "none")
           /\ thread' = "draining" /\ exhausted' = TRUE
           /\ UNCHANGED <<sequence, tasks, pending, error>>
  <2>1. InOnePlace' /\ Busy' = Busy
    BY <1>2, StillApart DEF Read, assemblyVars, Looping
  <2>2. ReplayTypeOK'
    BY <1>2 DEF Read, ReplayTypeOK, Frames, assemblyVars
  <2>3. NextFile = "none" => sequence = Len(recording)
    <3>1. CASE sequence # Len(recording)
      <4>1. recording[sequence + 1] \in Recorded
        BY <3>1, Sizes DEF ReplayTypeOK
      <4> QED BY <4>1, RecordedAssumption DEF NextFile
    <3> QED BY <3>1
  <2>4. Counted'
    BY <1>2, <2>1 DEF Read, Counted, Looping, assemblyVars
  <2>5. Places' /\ Progress'
    BY <1>2, <2>3 DEF Read, Places, Progress, Looping, assemblyVars
  <2> QED BY <2>1, <2>2, <2>4, <2>5 DEF Read
<1>3. CASE NextFile \notin {"none", "unloadable"} /\ ~stop /\ HasRoom
           /\ sequence' = sequence + 1 /\ tasks' = Append(tasks, sequence')
           /\ pending' = pending + 1 /\ thread' = "filling"
           /\ UNCHANGED <<exhausted, error>>
  BY <1>3, SubmitOK DEF Read
<1> QED
  BY <1>1, <1>2, <1>3 DEF Read

\* The recording is read to its end.
LEMMA ReadOnOK == ASSUME IInv, ReadOn PROVE IInv'
<1> USE DEF IInv, ReadOn
<1>1. InOnePlace' /\ Busy' = Busy
  BY StillApart DEF poolVars, assemblyVars, Looping
<1>2. ReplayTypeOK'
  BY DEF ReplayTypeOK, Frames, poolVars, assemblyVars
<1>3. Counted'
  BY <1>1, Sizes DEF Counted, Looping, MustCollect, poolVars, assemblyVars
<1>4. Places' /\ Progress'
  BY DEF Places, Progress, Looping, poolVars, assemblyVars
<1> QED
  BY <1>1, <1>2, <1>3, <1>4 DEF poolVars

\* Every result in turn was taken.
LEMMA CommitsDoneOK == ASSUME IInv, CommitsDone PROVE IInv'
<1> USE DEF IInv, CommitsDone
<1>1. InOnePlace' /\ Busy' = Busy
  BY StillApart DEF poolVars, assemblyVars, Looping
<1>2. ReplayTypeOK'
  BY DEF ReplayTypeOK, Frames, poolVars, assemblyVars
<1>3. Counted'
  BY <1>1, Sizes DEF Counted, Looping, poolVars, assemblyVars
<1>4. committed + 1 \notin held
  BY Sizes DEF NextHeld
<1>5. Places' /\ Progress'
  BY <1>4 DEF Places, Progress, Looping, poolVars, assemblyVars
<1> QED
  BY <1>1, <1>2, <1>3, <1>5 DEF poolVars

\* With nothing pending all that was read and not committed is held, and the
\* next to commit is not: so all is committed.
LEMMA NothingHeld ==
  ASSUME IInv, parallel, thread = "draining", pending = 0
  PROVE  sequence = committed
<1> USE DEF IInv
<1>1. held \subseteq committed + 2..sequence
  <2>1. held \subseteq committed + 1..sequence /\ committed + 1 \notin held
    BY DEF InOnePlace, Progress
  <2> QED BY <2>1, Sizes
<1>2. sequence = committed + Cardinality(held)
  BY Sizes DEF Counted, Looping
<1>3. /\ IsFiniteSet(committed + 2..sequence)
      /\ Cardinality(committed + 2..sequence)
            = IF committed + 2 > sequence THEN 0 ELSE sequence - (committed + 2) + 1
  <2>1. committed + 2 \in Int /\ sequence \in Int
    BY Sizes
  <2> QED BY ONLY <2>1, FS_Interval
<1>4. Cardinality(held) <= Cardinality(committed + 2..sequence)
  BY <1>1, <1>3, FS_Subset
<1> QED
  BY <1>2, <1>3, <1>4, Sizes DEF ReplayTypeOK

\* Nothing is pending any more.
LEMMA DrainedOK == ASSUME IInv, Drained PROVE IInv'
<1> USE DEF IInv, Drained
<1>1. InOnePlace' /\ Busy' = Busy
  BY StillApart DEF poolVars, assemblyVars, Looping
<1>2. ReplayTypeOK'
  BY DEF ReplayTypeOK, Frames, poolVars, assemblyVars
<1>3. Counted' /\ Places'
  BY DEF Counted, Places, Looping, poolVars, assemblyVars
<1>4. Progress'
  BY NothingHeld DEF Progress, Looping, poolVars, assemblyVars
<1> QED
  BY <1>1, <1>2, <1>3, <1>4 DEF poolVars

\* A result moves into the reorder buffer, and is pending no more.
LEMMA CollectOK == ASSUME IInv, Collect PROVE IInv'
<1> USE DEF IInv, Collect
<1> DEFINE first == Head(results)
<1>0. /\ Looping /\ Looping' /\ Busy' = Busy /\ committed' = committed /\ asm' = asm
      /\ sequence' = sequence /\ tasks' = tasks
  BY DEF Looping, Busy, assemblyVars
<1>1. /\ results \in Seq(Frames) /\ results # <<>>
      /\ first = results[1] /\ 1 \in DOMAIN results /\ first \in Frames
      /\ results' \in Seq(Frames) /\ Len(results') = Len(results) - 1
      /\ \A i \in DOMAIN results' :
            i + 1 \in DOMAIN results /\ i + 1 # 1 /\ results'[i] = results[i + 1]
  BY DEF ReplayTypeOK
<1>2. first \notin held /\ first \in InResults
  BY <1>1 DEF InOnePlace, InResults
<1>3. pending' \in 0..MaxPending /\ pending' = pending - 1 /\ pending \in Nat /\ pending > 0
  <2>1. pending >= Len(tasks) + Cardinality(Busy) + Len(results) /\ Len(results) > 0
    BY <1>0, <1>1, Sizes DEF Counted
  <2> QED BY <2>1, Sizes DEF ReplayTypeOK
<1>4. ReplayTypeOK'
  BY <1>0, <1>1, <1>3 DEF ReplayTypeOK, Frames, assemblyVars
<1>5. InOnePlace'
  <2>1. InResults' \subseteq InResults /\ first \notin InResults'
    BY <1>1 DEF InResults, InOnePlace, NoFrameTwice
  <2>2. InTasks' = InTasks /\ InWork' = InWork
    BY <1>0 DEF InTasks, InWork
  <2>3. NoFrameTwice'
    <3>1. \A i, j \in DOMAIN results' : results'[i] = results'[j] => i = j
      <4> SUFFICES ASSUME NEW i \in DOMAIN results', NEW j \in DOMAIN results', results'[i] = results'[j]
                   PROVE  i = j
        OBVIOUS
      <4>1. i + 1 = j + 1
        BY <1>1 DEF InOnePlace, NoFrameTwice
      <4> QED BY <4>1, <1>1
    <3> QED BY <3>1, <1>0 DEF InOnePlace, NoFrameTwice
  <2>4. held' = held \cup {first}
    OBVIOUS
  <2> HIDE DEF first
  <2>5. /\ InTasks' \cap InResults' = {} /\ InTasks' \cap InWork' = {} /\ InResults' \cap InWork' = {}
        /\ held' \cap (InTasks' \cup InResults' \cup InWork') = {}
        /\ InTasks' \cup InResults' \cup InWork' \cup held' \subseteq committed + 1..sequence
    BY <2>1, <2>2, <2>4, <1>2 DEF InOnePlace
  <2> QED BY <2>3, <2>5, <1>0 DEF InOnePlace
<1>6. Counted'
  <2>1. Cardinality(held') = Cardinality(held) + 1
    BY <1>2, Sizes, FS_AddElement
  <2>2. /\ pending >= Len(tasks) + Cardinality(Busy) + Len(results)
        /\ deaths = 0 => pending = Len(tasks) + Cardinality(Busy) + Len(results)
        /\ sequence = committed + Cardinality(held) + pending
    BY <1>0 DEF Counted
  <2>3. /\ Len(tasks) \in Nat /\ Cardinality(Busy) \in Nat /\ Len(results) \in Nat
        /\ Cardinality(held) \in Nat /\ committed \in Nat /\ sequence \in Nat
    BY Sizes
  <2>4. pending' >= Len(tasks') + Cardinality(Busy') + Len(results')
    BY <1>0, <1>1, <1>3, <2>2, <2>3
  <2>5. deaths' = 0 => pending' = Len(tasks') + Cardinality(Busy') + Len(results')
    BY <1>0, <1>1, <1>3, <2>2, <2>3
  <2>6. sequence' = committed' + Cardinality(held') + pending'
    BY <1>0, <1>3, <2>1, <2>2, <2>3
  <2> QED BY <2>4, <2>5, <2>6 DEF Counted
<1>7. Places' /\ Progress'
  BY <1>0 DEF Places, Progress, Looping, assemblyVars
<1> QED
  BY <1>4, <1>5, <1>6, <1>7

\* What is committed is the next frame, and it leaves the buffer.
LEMMA NextIsHeld ==
  ASSUME IInv, parallel, thread = "committing", NextHeld # 0
  PROVE  /\ NextHeld = committed + 1 /\ committed + 1 \in held
         /\ committed + 1 \in 1..Len(recording) /\ committed + 1 <= sequence
<1>1. NextHeld = committed + 1 /\ committed + 1 \in held
  BY DEF NextHeld
<1>2. committed + 1 \in committed + 1..sequence
  BY <1>1 DEF IInv, InOnePlace
<1> QED
  BY <1>1, <1>2, Sizes DEF IInv, ReplayTypeOK

\* The next result in order is taken.
LEMMA CommitOK == ASSUME IInv, Commit PROVE IInv'
<1> USE DEF IInv
<1> DEFINE last == Refused(recording[NextHeld]) \/ Complete(asm')
<1>0. /\ parallel /\ thread = "committing" /\ NextHeld # 0
      /\ held' = held \ {NextHeld}
      /\ error' = (error \/ Refused(recording[NextHeld])) /\ stop' = (stop \/ Complete(asm'))
      /\ committed' = IF Complete(asm') THEN committed ELSE committed + 1
      /\ thread' = IF last THEN "closing" ELSE "committing"
      /\ decodeOk' \in {decodeOk, decodeOk + 1}
      /\ UNCHANGED <<recording, parallel, sequence, tasks, working, results, pending,
                     exhausted, sentinels, deaths>>
  BY DEF Commit, Handled
<1>1. /\ NextHeld = committed + 1 /\ committed + 1 \in held
      /\ committed + 1 <= sequence
  BY <1>0, NextIsHeld
<1>2. Looping /\ Busy' = Busy
  BY <1>0 DEF Looping, Busy
<1>3. ReplayTypeOK'
  <2>1. committed' \in 0..sequence' /\ decodeOk' \in 0..sequence'
    BY <1>0, <1>1, <1>2, Sizes DEF Progress, ReplayTypeOK
  <2>2. held' \subseteq Frames' /\ tasks' \in Seq(Frames \cup {Sentinel})' /\ results' \in Seq(Frames)'
        /\ working' \in [Workers -> Frames \cup {Idle, Gone}]'
    BY <1>0 DEF ReplayTypeOK, Frames
  <2>3. error' \in BOOLEAN /\ stop' \in BOOLEAN
    BY <1>0
  <2>4. thread' \in {"closing", "committing"}
    BY <1>0
  <2> HIDE DEF last
  <2> QED BY <1>0, <2>1, <2>2, <2>3, <2>4 DEF ReplayTypeOK
<1>4. InOnePlace'
  <2>1. InTasks' = InTasks /\ InResults' = InResults /\ InWork' = InWork
    BY <1>0, <1>2 DEF InTasks, InResults, InWork
  <2>2. NoFrameTwice'
    BY <1>0, <1>2 DEF InOnePlace, NoFrameTwice
  <2>3. held' \subseteq held /\ committed + 1 \notin InTasks' \cup InResults' \cup InWork' \cup held'
    BY <1>0, <1>1, <2>1 DEF InOnePlace
  <2>4. InTasks' \cup InResults' \cup InWork' \cup held' \subseteq committed + 1..sequence
    BY <2>1, <2>3 DEF InOnePlace
  <2>5. \A f \in committed + 1..sequence : f = committed + 1 \/ f \in committed + 2..sequence
    BY Sizes
  <2>6. InTasks' \cup InResults' \cup InWork' \cup held' \subseteq committed' + 1..sequence'
    <3>1. CASE Complete(asm')
      BY <3>1, <2>4, <1>0
    <3>2. CASE ~Complete(asm')
      BY <3>2, <2>3, <2>4, <2>5, <1>0, Sizes
    <3> QED BY <3>1, <3>2
  <2>7. Looping' => \A i \in DOMAIN tasks' : tasks'[i] # Sentinel
    BY <1>0, <1>2 DEF InOnePlace
  <2>8. /\ InTasks' \cap InResults' = {} /\ InTasks' \cap InWork' = {} /\ InResults' \cap InWork' = {}
        /\ held' \cap (InTasks' \cup InResults' \cup InWork') = {}
    BY <2>1, <2>3 DEF InOnePlace
  <2> QED BY <2>2, <2>6, <2>7, <2>8 DEF InOnePlace
<1>5. Counted'
  <2>1. CASE last
    BY <2>1, <1>0 DEF Counted, Looping
  <2>2. CASE ~last
    <3>1. Cardinality(held') = Cardinality(held) - 1
      BY <1>0, <1>1, Sizes, FS_RemoveElement
    <3>2. /\ pending >= Len(tasks) + Cardinality(Busy) + Len(results)
          /\ deaths = 0 => pending = Len(tasks) + Cardinality(Busy) + Len(results)
          /\ sequence = committed + Cardinality(held) + pending
      BY <1>0, <1>2 DEF Counted
    <3>3. sequence' = committed' + Cardinality(held') + pending'
      BY <2>2, <3>1, <3>2, <1>0, Sizes
    <3>4. thread' # "reading" /\ pending' = pending /\ tasks' = tasks /\ results' = results /\ deaths' = deaths
      BY <2>2, <1>0
    <3> QED BY <1>2, <3>2, <3>3, <3>4 DEF Counted
  <2> QED BY <2>1, <2>2
<1>6. Places'
  BY <1>0 DEF Places
<1>7. Progress'
  <2>1. CASE last
    BY <2>1, <1>0, <1>2 DEF Progress, Looping
  <2>2. CASE ~last
    <3>1. ~Complete(asm') /\ decodeOk' <= committed'
      BY <2>2, <1>0, <1>2, Sizes DEF Progress, ReplayTypeOK
    <3> QED BY <3>1, <2>2, <1>0, <1>2 DEF Progress, Looping
  <2> QED BY <2>1, <2>2
<1> QED
  BY <1>0, <1>3, <1>4, <1>5, <1>6, <1>7
-----------------------------------------------------------------------------
(* Closing the pool.                                                         *)

\* A worker is told to leave.
LEMMA PutSentinelOK == ASSUME IInv, PutSentinel PROVE IInv'
<1> USE DEF IInv, PutSentinel
<1>0. /\ ~Looping /\ ~Looping' /\ Busy' = Busy /\ parallel /\ committed' = committed
      /\ asm' = asm /\ decodeOk' = decodeOk
  BY DEF Looping, Busy, Places, assemblyVars
<1>1. /\ tasks \in Seq(Frames \cup {Sentinel})
      /\ tasks' \in Seq(Frames \cup {Sentinel}) /\ Len(tasks') = Len(tasks) + 1
      /\ \A i \in DOMAIN tasks' : \/ i \in DOMAIN tasks /\ tasks'[i] = tasks[i]
                                  \/ tasks'[i] = Sentinel
      /\ \A i \in DOMAIN tasks : i \in DOMAIN tasks' /\ tasks'[i] = tasks[i]
  BY DEF ReplayTypeOK, Sentinel
<1>2. sentinels' \in 0..Cardinality(Workers) /\ Len(tasks') <= MaxPending
  BY <1>1, Sizes DEF ReplayTypeOK, HasRoom
<1>3. ReplayTypeOK'
  BY <1>0, <1>1, <1>2 DEF ReplayTypeOK, Frames
<1>4. InOnePlace'
  <2>1. InTasks' = InTasks /\ InResults' = InResults /\ InWork' = InWork
    BY <1>0, <1>1 DEF InTasks, InResults, InWork
  <2>2. NoFrameTwice'
    BY <1>0, <1>1 DEF InOnePlace, NoFrameTwice
  <2> QED BY <1>0, <2>1, <2>2 DEF InOnePlace
<1>5. Counted' /\ Places' /\ Progress'
  BY <1>0 DEF Counted, Places, Progress, Looping
<1> QED
  BY <1>3, <1>4, <1>5

\* The pool is given up.
LEMMA CloseOK == ASSUME IInv, Close PROVE IInv'
<1> USE DEF IInv, Close
<1>1. InOnePlace'
  BY StillApart DEF poolVars, assemblyVars, Looping
<1>2. ReplayTypeOK'
  BY DEF ReplayTypeOK, Frames, poolVars, assemblyVars
<1>3. Counted' /\ Places' /\ Progress'
  BY DEF Counted, Places, Progress, Looping, poolVars, assemblyVars
<1> QED
  BY <1>1, <1>2, <1>3 DEF poolVars

\* A worker that goes leaves the other frames where they are.
LEMMA GoneIsApart ==
  ASSUME InOnePlace, working \in [Workers -> Frames \cup {Idle, Gone}], NEW w \in Workers,
         working' = [working EXCEPT ![w] = Gone],
         UNCHANGED <<thread, tasks, results, held, committed, sequence>>
  PROVE  InOnePlace' /\ Busy' \subseteq Busy
<1>1. Busy' \subseteq Busy /\ \A v \in Busy' : working'[v] = working[v]
  BY DEF Busy, Gone
<1>2. InTasks' = InTasks /\ InResults' = InResults /\ InWork' \subseteq InWork
  BY <1>1 DEF InTasks, InResults, InWork
<1>3. NoFrameTwice'
  BY <1>1 DEF InOnePlace, NoFrameTwice
<1> QED
  BY <1>1, <1>2, <1>3 DEF InOnePlace, Looping

\* A worker is terminated.
LEMMA TerminateOK == ASSUME IInv, NEW w \in Workers, Terminate(w) PROVE IInv'
<1> USE DEF IInv, Terminate
<1>1. InOnePlace'
  BY GoneIsApart DEF ReplayTypeOK, assemblyVars
<1>2. ReplayTypeOK'
  BY DEF ReplayTypeOK, Frames, assemblyVars
<1>3. Counted' /\ Places' /\ Progress'
  BY DEF Counted, Places, Progress, Looping, assemblyVars
<1> QED
  BY <1>1, <1>2, <1>3

-----------------------------------------------------------------------------
(* The workers.                                                              *)

\* There is a pool when a worker has something to do.
LEMMA PoolRuns ==
  ASSUME IInv, NEW w \in Workers, working[w] # Gone
  PROVE  parallel /\ thread # "unstarted"
BY DEF IInv, Places, NoPool

\* A task moves from the queue into a worker.
LEMMA TakeOK == ASSUME IInv, NEW w \in Workers, Take(w) PROVE IInv'
<1> USE DEF IInv, Take
<1> DEFINE task == Head(tasks)
<1>0. /\ parallel /\ thread # "unstarted" /\ (Looping' <=> Looping)
      /\ committed' = committed /\ asm' = asm /\ decodeOk' = decodeOk /\ results' = results
      /\ sequence' = sequence /\ held' = held
  BY PoolRuns DEF Looping, workerUnchanged, assemblyVars, Idle, Gone
<1>1. /\ tasks \in Seq(Frames \cup {Sentinel}) /\ tasks # <<>>
      /\ task = tasks[1] /\ 1 \in DOMAIN tasks /\ task \in Frames \cup {Sentinel}
      /\ tasks' \in Seq(Frames \cup {Sentinel}) /\ Len(tasks') = Len(tasks) - 1
      /\ \A i \in DOMAIN tasks' :
            i + 1 \in DOMAIN tasks /\ i + 1 # 1 /\ tasks'[i] = tasks[i + 1]
  BY DEF ReplayTypeOK
<1>2. /\ working \in [Workers -> Frames \cup {Idle, Gone}] /\ w \notin Busy
      /\ working' = [working EXCEPT ![w] = IF task = Sentinel THEN Gone ELSE task]
  BY DEF ReplayTypeOK, Busy, Idle
<1>3. ReplayTypeOK'
  <2>1. working' \in [Workers -> Frames \cup {Idle, Gone}]
    BY <1>1, <1>2
  <2>2. Len(tasks') <= MaxPending
    BY <1>1, Sizes DEF ReplayTypeOK
  <2> QED BY <1>1, <2>1, <2>2 DEF ReplayTypeOK, Frames, workerUnchanged, assemblyVars
<1>4. Busy' = IF task = Sentinel THEN Busy ELSE Busy \cup {w}
  <2>1. task # Sentinel => task > 0
    BY <1>1 DEF Frames, Sentinel
  <2> HIDE DEF task
  <2> QED BY <1>2, <2>1 DEF Busy, Gone
<1>5. \A v \in Busy : working'[v] = working[v]
  BY <1>2
<1>6. InOnePlace'
  <2>1. InTasks' \subseteq InTasks /\ task \notin InTasks'
    BY <1>1 DEF InTasks, InOnePlace, NoFrameTwice
  <2>2. task # Sentinel => task \in InTasks
    BY <1>1 DEF InTasks
  <2>3. InResults' = InResults
    BY <1>0 DEF InResults
  <2>4. InWork' = IF task = Sentinel THEN InWork ELSE InWork \cup {task}
    <3> HIDE DEF task
    <3>1. task # Sentinel => working'[w] = task
      BY <1>2
    <3> QED BY <1>4, <1>5, <3>1 DEF InWork
  <2>5. NoFrameTwice'
    <3>1. ASSUME NEW i \in DOMAIN tasks', NEW j \in DOMAIN tasks', tasks'[i] = tasks'[j], tasks'[i] # Sentinel
          PROVE  i = j
      <4>1. i + 1 = j + 1
        BY <3>1, <1>1 DEF InOnePlace, NoFrameTwice
      <4> QED BY <4>1, <1>1
    <3>2. ASSUME NEW u \in Busy', NEW v \in Busy', working'[u] = working'[v]
          PROVE  u = v
      <4>1. task # Sentinel => \A x \in Busy : working[x] # task
        BY <2>2 DEF InOnePlace, InWork
      <4>2. task # Sentinel => working'[w] = task
        BY <1>2
      <4> HIDE DEF task
      <4> QED BY <3>2, <4>1, <4>2, <1>4, <1>5 DEF InOnePlace, NoFrameTwice
    <3> QED BY <3>1, <3>2, <1>0 DEF NoFrameTwice, InOnePlace
  <2>6. Looping' => \A i \in DOMAIN tasks' : tasks'[i] # Sentinel
    BY <1>0, <1>1 DEF InOnePlace
  <2> HIDE DEF task
  <2>7. /\ InTasks' \cap InResults' = {} /\ InTasks' \cap InWork' = {} /\ InResults' \cap InWork' = {}
        /\ held' \cap (InTasks' \cup InResults' \cup InWork') = {}
        /\ InTasks' \cup InResults' \cup InWork' \cup held' \subseteq committed' + 1..sequence'
    BY <1>0, <2>1, <2>2, <2>3, <2>4 DEF InOnePlace
  <2> QED BY <2>5, <2>6, <2>7 DEF InOnePlace
<1>7. Counted'
  <2> SUFFICES ASSUME Looping PROVE Counted'
    BY <1>0 DEF Counted
  <2>1. task # Sentinel
    BY <1>1 DEF InOnePlace
  <2>2. Cardinality(Busy') = Cardinality(Busy) + 1
    BY <2>1, <1>2, <1>4, Sizes, FS_AddElement
  <2>3. Len(tasks') + Cardinality(Busy') + Len(results') = Len(tasks) + Cardinality(Busy) + Len(results)
    BY <2>2, <1>0, <1>1, Sizes
  <2> QED BY <2>3, <1>0 DEF Counted, workerUnchanged
<1>8. Places' /\ Progress'
  BY <1>0 DEF Places, Progress, Looping, workerUnchanged
<1> QED
  BY <1>3, <1>6, <1>7, <1>8 DEF workerUnchanged

\* A frame moves from a worker into the results.
LEMMA FinishOK == ASSUME IInv, NEW w \in Workers, Finish(w) PROVE IInv'
<1> USE DEF IInv, Finish
<1> DEFINE frame == working[w]
<1>0. /\ parallel /\ thread # "unstarted" /\ (Looping' <=> Looping)
      /\ committed' = committed /\ asm' = asm /\ decodeOk' = decodeOk /\ tasks' = tasks
      /\ sequence' = sequence /\ held' = held
  BY PoolRuns DEF Looping, workerUnchanged, assemblyVars, Gone
<1>1. /\ working \in [Workers -> Frames \cup {Idle, Gone}] /\ w \in Busy
      /\ frame \in Frames /\ frame \in InWork
  BY DEF ReplayTypeOK, Busy, InWork, Idle, Gone
<1>2. /\ results \in Seq(Frames)
      /\ results' \in Seq(Frames) /\ Len(results') = Len(results) + 1
      /\ DOMAIN results' = 1..Len(results) + 1 /\ results'[Len(results) + 1] = frame
      /\ \A i \in DOMAIN results : i \in DOMAIN results' /\ results'[i] = results[i]
      /\ \A i \in DOMAIN results' : i \in DOMAIN results \/ i = Len(results) + 1
  BY <1>1 DEF ReplayTypeOK
<1>3. Busy' = Busy \ {w} /\ \A v \in Busy' : working'[v] = working[v]
  BY <1>1 DEF Busy, Idle
<1>4. ReplayTypeOK'
  <2>1. working' \in [Workers -> Frames \cup {Idle, Gone}]
    BY <1>1
  <2> QED BY <1>2, <2>1 DEF ReplayTypeOK, Frames, workerUnchanged, assemblyVars
<1>5. InOnePlace'
  <2>1. InWork' = InWork \ {frame}
    BY <1>1, <1>3 DEF InWork, InOnePlace, NoFrameTwice
  <2>2. InResults' = InResults \cup {frame}
    BY <1>2 DEF InResults
  <2>3. InTasks' = InTasks
    BY <1>0 DEF InTasks
  <2>4. NoFrameTwice'
    <3>1. \A i \in DOMAIN results : results[i] # frame
      BY <1>1 DEF InOnePlace, InResults
    <3>2. \A i, j \in DOMAIN results' : results'[i] = results'[j] => i = j
      <4> HIDE DEF frame
      <4> QED BY <1>2, <3>1 DEF InOnePlace, NoFrameTwice
    <3> QED BY <3>2, <1>0, <1>3 DEF InOnePlace, NoFrameTwice
  <2> HIDE DEF frame
  <2>5. /\ InTasks' \cap InResults' = {} /\ InTasks' \cap InWork' = {} /\ InResults' \cap InWork' = {}
        /\ held' \cap (InTasks' \cup InResults' \cup InWork') = {}
        /\ InTasks' \cup InResults' \cup InWork' \cup held' \subseteq committed' + 1..sequence'
    BY <1>0, <1>1, <2>1, <2>2, <2>3 DEF InOnePlace
  <2> QED BY <1>0, <2>4, <2>5 DEF InOnePlace
<1>6. Counted'
  <2>1. Cardinality(Busy') = Cardinality(Busy) - 1
    BY <1>1, <1>3, Sizes, FS_RemoveElement
  <2>2. Len(tasks) \in Nat /\ Cardinality(Busy) \in Nat /\ Len(results) \in Nat
    BY Sizes
  <2>3. tasks' = tasks /\ Len(results') = Len(results) + 1
    BY <1>0, <1>2
  <2>4. Len(tasks') + Cardinality(Busy') + Len(results') = Len(tasks) + Cardinality(Busy) + Len(results)
    BY ONLY <2>1, <2>2, <2>3
  <2> QED BY <2>4, <1>0 DEF Counted, workerUnchanged
<1>7. Places' /\ Progress'
  BY <1>0 DEF Places, Progress, Looping, workerUnchanged
<1> QED
  BY <1>4, <1>5, <1>6, <1>7 DEF workerUnchanged

\* A frame may be lost with its worker, but stays pending.
LEMMA DieOK == ASSUME IInv, NEW w \in Workers, Die(w) PROVE IInv'
<1> USE DEF IInv, Die
<1>0. /\ parallel /\ thread # "unstarted" /\ (Looping' <=> Looping)
      /\ committed' = committed /\ asm' = asm /\ decodeOk' = decodeOk
  BY PoolRuns DEF Looping, workerUnchanged, assemblyVars
<1>1. InOnePlace' /\ Busy' \subseteq Busy
  BY <1>0, GoneIsApart DEF ReplayTypeOK, workerUnchanged
<1>2. deaths' \in 0..MaxDeaths /\ deaths' # 0
  BY PoolAssumption DEF ReplayTypeOK
<1>3. ReplayTypeOK'
  BY <1>2 DEF ReplayTypeOK, Frames, workerUnchanged, assemblyVars
<1>4. Counted'
  <2>1. Cardinality(Busy') \in Nat /\ Cardinality(Busy') <= Cardinality(Busy)
    BY <1>1, Sizes, FS_Subset, FS_CardinalityType
  <2>2. ASSUME Looping PROVE pending >= Len(tasks) + Cardinality(Busy') + Len(results)
    BY <2>1, <2>2, Sizes DEF Counted
  <2> QED BY <1>0, <1>2, <2>2 DEF Counted, workerUnchanged
<1>5. Places' /\ Progress'
  BY <1>0 DEF Places, Progress, Looping, workerUnchanged
<1> QED
  BY <1>1, <1>3, <1>4, <1>5 DEF workerUnchanged
-----------------------------------------------------------------------------
\* stop() of the caller.
LEMMA StopReplayOK ==
  ASSUME IInv, stop' = TRUE, UNCHANGED <<recording, parallel, thread, sequence, poolVars, assemblyVars, error>>
  PROVE  IInv'
<1> USE DEF IInv
<1>1. InOnePlace' /\ Busy' = Busy
  BY StillApart DEF poolVars, assemblyVars, Looping
<1>2. ReplayTypeOK'
  BY DEF ReplayTypeOK, Frames, poolVars, assemblyVars
<1>3. Counted'
  BY <1>1 DEF Counted, Looping, poolVars, assemblyVars
<1>4. Places' /\ Progress'
  BY DEF Places, NoPool, Progress, Looping, poolVars, assemblyVars
<1> QED
  BY <1>1, <1>2, <1>3, <1>4 DEF poolVars

\* Nothing happens.
LEMMA StutterOK == ASSUME IInv, UNCHANGED replayVars PROVE IInv'
<1> USE DEF IInv, replayVars
<1>1. InOnePlace' /\ Busy' = Busy
  BY StillApart DEF Looping
<1>2. ReplayTypeOK'
  BY DEF ReplayTypeOK, Frames
<1>3. Counted'
  BY <1>1 DEF Counted, Looping
<1>4. Places' /\ Progress'
  BY DEF Places, NoPool, Progress, Looping
<1> QED
  BY <1>1, <1>2, <1>3, <1>4

\* The steps of the thread and its pool, which a Session takes as they are.
LEMMA PipelineOK ==
  ASSUME IInv, ThreadStep \/ \E w \in Workers : WorkerStep(w) \/ Die(w) \/ Terminate(w)
  PROVE  IInv'
  BY SequentialReadOK, SequentialDecodeOK, ReadOK, ReadOnOK, CollectOK, CommitOK,
     CommitsDoneOK, DrainedOK, PutSentinelOK, CloseOK, TakeOK, FinishOK, DieOK, TerminateOK
     DEF ThreadStep, WorkerStep

\* Every step keeps the invariant.
LEMMA NextOK == IInv /\ [ReplayNext]_replayVars => IInv'
<1> SUFFICES ASSUME IInv, [ReplayNext]_replayVars PROVE IInv'
  OBVIOUS
<1>1. CASE \E frames \in Seq(Recorded) : Start(frames)
  BY <1>1, StartOK
<1>2. CASE StopReplay
  BY <1>2, StopReplayOK DEF StopReplay
<1>3. CASE UNCHANGED replayVars
  BY <1>3, StutterOK
<1> QED
  BY <1>1, <1>2, <1>3, PipelineOK DEF ReplayNext

\* The invariant always holds.
LEMMA AlwaysInvariant == ReplaySpec => []IInv
<1> QED
  BY InitOK, NextOK, PTL DEF ReplaySpec

\* Every variable of the replay keeps its type, with the queue of tasks and the
\* count of pending frames within their bounds (replay.py).
THEOREM TypeCorrect == ReplaySpec => []ReplayTypeOK
<1>1. IInv => ReplayTypeOK
  BY DEF IInv
<1> QED
  BY AlwaysInvariant, <1>1, PTL

\* The invariant's count of pending frames is the property's.
LEMMA IsExact == IInv => PendingIsExact
<1> SUFFICES ASSUME IInv, deaths = 0, Looping
             PROVE  pending = Cardinality(Queued) + Cardinality(Busy) + Len(results)
  BY DEF PendingIsExact, Looping
<1>1. Queued = 1..Len(tasks)
  BY DEF IInv, InOnePlace, Queued, ReplayTypeOK
<1>2. Len(tasks) \in Nat
  BY Sizes DEF IInv
<1>3. Cardinality(1..Len(tasks)) = Len(tasks)
  <2>1. 1 \in Int /\ Len(tasks) \in Int
    BY <1>2
  <2>2. Cardinality(1..Len(tasks)) = IF 1 > Len(tasks) THEN 0 ELSE Len(tasks) - 1 + 1
    BY ONLY <2>1, FS_Interval
  <2> QED BY <1>2, <2>2
<1> QED BY <1>1, <1>3 DEF IInv, Counted

\* pending_count is exact while no worker was killed: the thread never waits for
\* an answer that is not to come, nor leaves one behind (_run_parallel_stateless).
THEOREM CountIsExact == ReplaySpec => []PendingIsExact
  BY AlwaysInvariant, IsExact, PTL

\* A replay that ends of itself, with or without a pool and even when workers were
\* killed, has given every recorded frame to the assembler.
THEOREM NothingIsLeftBehind == ReplaySpec => []NothingLeftBehind
<1>1. IInv => NothingLeftBehind
  BY DEF IInv, Progress, NothingLeftBehind, Looping
<1> QED
  BY AlwaysInvariant, <1>1, PTL

-----------------------------------------------------------------------------
(* The replay thread implements InOrder.                                     *)

\* One frame is committed, or nothing that InOrder sees happens.
LEMMA OneCommit ==
  ASSUME IInv, committed + 1 \in 1..Len(recording), ~Complete(asm),
         asm' = Given(asm, recording[committed + 1]),
         committed' = IF Complete(asm') THEN committed ELSE committed + 1
  PROVE  [Ordered!Commit]_(Ordered!vars)
  BY Sizes DEF IInv, Ordered!Commit, Ordered!vars

\* A step that takes no result stutters.
LEMMA NoCommit ==
  ASSUME UNCHANGED <<committed, asm>>
  PROVE  [Ordered!Commit]_(Ordered!vars)
  BY DEF Ordered!vars

\* A step of the thread or of a worker takes the next frame or none.
LEMMA PipelineInOrder ==
  ASSUME IInv, ThreadStep \/ \E w \in Workers : WorkerStep(w) \/ Die(w) \/ Terminate(w)
  PROVE  [Ordered!Commit]_(Ordered!vars)
<1>1. CASE SequentialDecode
  <2>1. /\ sequence = committed + 1 /\ committed + 1 \in 1..Len(recording)
        /\ ~Complete(asm)
    BY <1>1, Sizes DEF IInv, SequentialDecode, Places, Progress, Looping, ReplayTypeOK
  <2> QED BY <1>1, <2>1, OneCommit DEF SequentialDecode, Handled
<1>2. CASE Commit
  <2>1. /\ NextHeld = committed + 1 /\ committed + 1 \in 1..Len(recording)
        /\ ~Complete(asm)
    BY <1>2, NextIsHeld DEF IInv, Commit, Progress, Looping
  <2> QED BY <1>2, <2>1, OneCommit DEF Commit, Handled
<1>3. CASE UNCHANGED <<committed, asm>>
  BY <1>3, NoCommit
<1> QED
  BY <1>1, <1>2, <1>3
     DEF ThreadStep, WorkerStep, SequentialRead, Read, ReadOn, Collect, CommitsDone, Drained,
         PutSentinel, Close, Take, Finish, Die, Terminate, workerUnchanged, assemblyVars

\* Whatever the workers do and in whatever order they answer, the assembler is
\* given the frames one at a time in the order of the recording, each once, until
\* it is complete (pending_results and next_commit).
THEOREM ReplayInOrder == ReplaySpec => CommitsInOrder
<1>1. ReplayInit => Ordered!Init
  BY DEF ReplayInit, Ordered!Init, Complete, EmptyAssembler
<1>2. IInv /\ [ReplayNext]_replayVars => [Ordered!Commit]_(Ordered!vars)
  <2> SUFFICES ASSUME IInv, [ReplayNext]_replayVars PROVE [Ordered!Commit]_(Ordered!vars)
    OBVIOUS
  <2>1. CASE UNCHANGED <<committed, asm>>
    BY <2>1, NoCommit
  <2> QED BY <2>1, PipelineInOrder DEF ReplayNext, Start, StopReplay, assemblyVars, replayVars
<1> QED
  BY <1>1, <1>2, AlwaysInvariant, PTL DEF ReplaySpec, CommitsInOrder, Ordered!Spec

-----------------------------------------------------------------------------
(* The session.                                                              *)

\* A session over the screen has no replay.
Untouched == thread = "unstarted" /\ NoPool /\ deaths = 0

SInv ==
    /\ setup \in Setups
    /\ setup.source = "replay" => IInv
    /\ setup.source # "replay" => Untouched

\* A session starts with a replay that has done nothing.
LEMMA SessionInitOK == SessionInit => SInv
<1>1. SessionInit => setup \in Setups
  BY DEF SessionInit, Init
<1>2. SessionInit => IInv
  BY InitOK DEF SessionInit
<1>3. SessionInit => Untouched
  BY DEF SessionInit, ReplayInit, Untouched, NoPool
<1> QED
  BY <1>1, <1>2, <1>3 DEF SInv

\* What a step of the session is to the replay.
LEMMA StepOfReplay ==
  ASSUME setup \in Setups, setup.source = "replay", [SessionNext]_sessionVars
  PROVE  /\ setup' = setup
         /\ \/ \E frames \in Seq(Recorded) : Start(frames)
            \/ ThreadStep
            \/ \E w \in Workers : WorkerStep(w) \/ Die(w) \/ Terminate(w)
            \/ /\ stop' = TRUE
               /\ UNCHANGED <<recording, parallel, thread, sequence, poolVars, assemblyVars, error>>
            \/ UNCHANGED replayVars
<1>1. CASE ScreenStep
  BY <1>1 DEF ScreenStep, ScreenRuns
<1>2. CASE ReplayStep
  BY <1>2 DEF ReplayStep, transferVars
<1>3. CASE Tick \/ Rest \/ UNCHANGED sessionVars
  BY <1>3 DEF Tick, Rest, sessionVars, transferVars
<1>4. CASE StartPipeline
  BY <1>4, SessionAssumption DEF StartPipeline, transferVars
<1>5. CASE Test \/ Watch \/ Restore \/ Join \/ Exit
  BY <1>5 DEF Test, Watch, Restore, Join, Exit, pipelineVars, transferVars
<1>6. CASE Interrupt \/ StopPipeline
  BY <1>6 DEF Interrupt, StopPipeline, transferVars
<1> QED
  BY <1>1, <1>2, <1>3, <1>4, <1>5, <1>6 DEF SessionNext, RunnerStep

\* A session over the screen leaves the replay alone.
LEMMA StepOfScreen ==
  ASSUME setup \in Setups, setup.source # "replay", Untouched, [SessionNext]_sessionVars
  PROVE  setup' = setup /\ Untouched'
<1>1. CASE ScreenStep
  <2>1. setup' = setup
    BY <1>1 DEF ScreenStep, Next, Show, Reset, Capture, Deliver
  <2> QED BY <1>1, <2>1 DEF ScreenStep, Untouched, NoPool, poolVars
<1>2. CASE ReplayStep
  <2>1. ~ThreadStep
    BY DEF Untouched, ThreadStep, SequentialRead, SequentialDecode, Read, ReadOn, Collect,
           Commit, CommitsDone, Drained, PutSentinel, Close
  <2>2. \A w \in Workers : working[w] = Gone
    BY DEF Untouched, NoPool
  <2>3. \A w \in Workers : ~WorkerStep(w) /\ ~Die(w) /\ ~Terminate(w)
    BY <2>2 DEF WorkerStep, Take, Finish, Die, Terminate, Idle, Gone
  <2> QED BY <1>2, <2>1, <2>3 DEF ReplayStep
<1>3. CASE Tick \/ Rest \/ UNCHANGED sessionVars
  BY <1>3 DEF Tick, Rest, sessionVars, transferVars, replayVars, Untouched, NoPool
<1>4. CASE StartPipeline
  <2>1. setup.source = "screen"
    BY SessionAssumption
  <2> QED BY <1>4, <2>1 DEF StartPipeline, transferVars, replayVars, Untouched, NoPool
<1>5. CASE Test \/ Watch \/ Restore \/ Join \/ Exit
  BY <1>5 DEF Test, Watch, Restore, Join, Exit, pipelineVars, transferVars, replayVars,
              Untouched, NoPool
<1>6. CASE Interrupt \/ StopPipeline
  BY <1>6 DEF Interrupt, StopPipeline, transferVars, poolVars, Untouched, NoPool
<1> QED
  BY <1>1, <1>2, <1>3, <1>4, <1>5, <1>6 DEF SessionNext, RunnerStep

\* Every step of a session is a step of its replay or leaves it alone.
LEMMA SessionStepOK == SInv /\ [SessionNext]_sessionVars => SInv'
<1> SUFFICES ASSUME SInv, [SessionNext]_sessionVars PROVE SInv'
  OBVIOUS
<1>1. CASE setup.source = "replay"
  <2>1. IInv /\ setup \in Setups /\ setup' = setup
    BY <1>1, StepOfReplay DEF SInv
  <2>2. IInv'
    BY <1>1, <2>1, StepOfReplay, StartOK, PipelineOK, StopReplayOK, StutterOK
  <2> QED BY <1>1, <2>1, <2>2 DEF SInv
<1>2. CASE setup.source # "replay"
  BY <1>2, StepOfScreen DEF SInv
<1> QED
  BY <1>1, <1>2

\* A session keeps the invariant of its replay.
LEMMA SessionInvariant == SessionSpec => []SInv
  BY SessionInitOK, SessionStepOK, PTL DEF SessionSpec

\* pending_count is exact in every session while no worker was killed, whenever
\* the main thread stops the pipeline (_run_parallel_stateless).
THEOREM SessionCountIsExact == SessionSpec => []PendingIsExact
<1>1. IInv => PendingIsExact
  BY IsExact
<1>2. Untouched => PendingIsExact
  <2> SUFFICES ASSUME Untouched PROVE PendingIsExact
    OBVIOUS
  <2>1. Queued = {} /\ Busy = {} /\ Len(results) = 0 /\ pending = 0
    BY DEF Untouched, NoPool, Queued, Busy, Gone
  <2> QED BY <2>1, FS_EmptySet DEF PendingIsExact
<1>3. SInv => PendingIsExact
  BY <1>1, <1>2 DEF SInv
<1> QED
  BY SessionInvariant, <1>3, PTL

\* A replay that neither failed nor was stopped has given every recorded frame to
\* the assembler, whatever workers were killed (_run_sequential and
\* _run_parallel_stateless).
THEOREM SessionLeavesNothing == SessionSpec => []NothingLeftBehind
<1>1. IInv => NothingLeftBehind
  BY DEF IInv, Progress, NothingLeftBehind, Looping
<1>2. Untouched => NothingLeftBehind
  BY DEF Untouched, NothingLeftBehind
<1>3. SInv => NothingLeftBehind
  BY <1>1, <1>2 DEF SInv
<1> QED
  BY SessionInvariant, <1>3, PTL

\* In every session over recorded frames the assembler is given them one at a time
\* and in order, each once, until it is complete (pending_results and next_commit).
THEOREM SessionInOrder == SessionSpec => ReplaysInOrder
<1>1. SessionInit => (setup.source = "replay" => Ordered!Init)
  BY DEF SessionInit, ReplayInit, Ordered!Init, Complete, EmptyAssembler
<1>2. SInv /\ [SessionNext]_sessionVars
        => [setup.source = "replay" => [Ordered!Commit]_(Ordered!vars)]_sessionVars
  <2> SUFFICES ASSUME SInv, [SessionNext]_sessionVars, setup.source = "replay"
               PROVE  [Ordered!Commit]_(Ordered!vars)
    OBVIOUS
  <2>1. IInv /\ setup \in Setups
    BY DEF SInv
  <2>2. \/ ThreadStep
        \/ \E w \in Workers : WorkerStep(w) \/ Die(w) \/ Terminate(w)
        \/ UNCHANGED <<committed, asm>>
    BY <2>1, StepOfReplay DEF Start, assemblyVars, replayVars
  <2> QED BY <2>1, <2>2, PipelineInOrder, NoCommit
<1> QED
  BY <1>1, <1>2, SessionInvariant, PTL DEF SessionSpec, ReplaysInOrder

-----------------------------------------------------------------------------
(* Idleness.                                                                 *)

\* While no progress is unread, last_good_time is no older than the last frame
\* decoded but for the round in which that was read.
ClockOK ==
    /\ idle \in 0..MaxIdle + 1 /\ round \in 0..MaxIdle + 1 /\ quiet \in 0..MaxIdle + 1
    /\ decodeOk \in Nat /\ seen \in 0..decodeOk
    /\ runner = "watching" => round <= 1 /\ (polled => round = 0)
    /\ decodeOk = seen => idle <= quiet + 1

\* decode_ok only grows.
LEMMA DecodesGrow ==
  ASSUME decodeOk \in Nat, ThreadStep \/ \E w \in Workers : WorkerStep(w) \/ Die(w) \/ Terminate(w)
  PROVE  decodeOk' \in {decodeOk, decodeOk + 1}
BY DEF ThreadStep, SequentialRead, SequentialDecode, Read, ReadOn, Collect, Commit, CommitsDone,
       Drained, PutSentinel, Close, WorkerStep, Take, Finish, Die, Terminate, Handled,
       workerUnchanged, assemblyVars

\* The counters of the clock start at zero.
LEMMA ClockInit == SessionInit => ClockOK
<1> SUFFICES ASSUME SessionInit PROVE ClockOK
  OBVIOUS
<1>1. /\ idle = 0 /\ round = 0 /\ quiet = 0 /\ polled = FALSE /\ decodeOk = 0 /\ seen = 0
      /\ runner = "starting" /\ MaxIdle \in Nat
  BY SessionAssumption DEF SessionInit, ReplayInit
<1> QED BY <1>1 DEF ClockOK

\* Every step keeps the counters of the clock in step.
LEMMA ClockStep == ClockOK /\ [SessionNext]_sessionVars => ClockOK'
<1> SUFFICES ASSUME ClockOK, [SessionNext]_sessionVars PROVE ClockOK'
  OBVIOUS
<1> USE SessionAssumption
<1>1. CASE ReplayStep
  <2>1. decodeOk' \in {decodeOk, decodeOk + 1}
    BY <1>1, DecodesGrow DEF ReplayStep, ClockOK
  <2>2. UNCHANGED <<idle, round, polled, runner, seen>>
        /\ quiet' = IF decodeOk' > decodeOk THEN 0 ELSE quiet
    BY <1>1 DEF ReplayStep, runnerVars
  <2> QED BY <2>1, <2>2 DEF ClockOK
<1>2. CASE Tick
  <2>1. /\ idle' = IF idle + 1 <= MaxIdle + 1 THEN idle + 1 ELSE MaxIdle + 1
        /\ round' = IF round + 1 <= MaxIdle + 1 THEN round + 1 ELSE MaxIdle + 1
        /\ quiet' = IF quiet + 1 <= MaxIdle + 1 THEN quiet + 1 ELSE MaxIdle + 1
    BY <1>2, MinOfTwo DEF Tick, ClockOK
  <2>2. polled /\ ~polled' /\ UNCHANGED <<runner, seen, decodeOk>>
    BY <1>2 DEF Tick, runnerVars, replayVars
  <2>3. idle' \in 0..MaxIdle + 1 /\ round' \in 0..MaxIdle + 1 /\ quiet' \in 0..MaxIdle + 1
    BY <2>1 DEF ClockOK
  <2>4. runner' = "watching" => round' <= 1 /\ (polled' => round' = 0)
    BY <2>1, <2>2 DEF ClockOK
  <2>5. decodeOk' = seen' => idle' <= quiet' + 1
    BY <2>1, <2>2 DEF ClockOK
  <2> QED BY <2>2, <2>3, <2>4, <2>5 DEF ClockOK
<1>3. CASE ScreenStep \/ Rest \/ UNCHANGED sessionVars
  BY <1>3 DEF ScreenStep, Rest, sessionVars, clockVars, runnerVars, replayVars, ClockOK
<1>4. CASE StartPipeline
  BY <1>4 DEF StartPipeline, Start, clockVars, replayVars, assemblyVars, ClockOK
<1>5. CASE Test
  <2>1. /\ UNCHANGED <<seen, idle, quiet, decodeOk>>
        /\ \/ runner' = "stopping" /\ UNCHANGED <<round, polled>>
           \/ round' = 0 /\ polled' = TRUE
    BY <1>5 DEF Test, Leave, pipelineVars, replayVars
  <2> QED BY <2>1 DEF ClockOK
<1>6. CASE Watch
  BY <1>6 DEF Watch, pipelineVars, replayVars, ClockOK
<1>7. CASE Restore \/ Join \/ Exit
  BY <1>7 DEF Restore, Leave, Join, Exit, clockVars, pipelineVars, replayVars, ClockOK
<1>8. CASE Interrupt \/ StopPipeline
  BY <1>8 DEF Interrupt, Leave, StopPipeline, clockVars, assemblyVars, ClockOK
<1> QED
  BY <1>1, <1>2, <1>3, <1>4, <1>5, <1>6, <1>7, <1>8 DEF SessionNext, RunnerStep

\* A session is given up for idleness only when no frame was decoded for
\* max_idle_seconds, whatever the pipeline and the main thread do in between: only
\* a frame decoded since the last round escapes the comparison (_check_timeouts).
THEOREM SessionIdleMeansIdle == SessionSpec => IdleMeansIdle
<1>1. ClockOK /\ [SessionNext]_sessionVars
        => [verdict' = "timeout_idle" /\ verdict # verdict'
              => (quiet >= MaxIdle \/ decodeOk > seen)]_sessionVars
  <2> SUFFICES ASSUME ClockOK, [SessionNext]_sessionVars,
                      verdict' = "timeout_idle", verdict # verdict'
               PROVE  quiet >= MaxIdle \/ decodeOk > seen
    OBVIOUS
  <2>1. TimedOut
    BY DEF SessionNext, RunnerStep, ScreenStep, ReplayStep, Tick, Rest, StartPipeline, Test, Watch,
           Restore, Join, Exit, Interrupt, StopPipeline, Leave, sessionVars, runnerVars
  <2> QED BY <2>1, SessionAssumption DEF TimedOut, ClockOK
<1> QED
  BY <1>1, ClockInit, ClockStep, PTL DEF SessionSpec, IdleMeansIdle

-----------------------------------------------------------------------------
(* The assembler, when everything it is given belongs to one plan and every  *)
(* unit to the generation it is taken for.                                   *)

Gen(plan, id) == GenerationPlans(plan)[id + 1]

Ids(plan) == 0..Len(GenerationPlans(plan)) - 1

ChunkMaps(plan) == UNION {[T -> PayloadChunk] : T \in SUBSET DOMAIN plan.payload}

StoreMaps(plan) == UNION {[T -> SolverStates] : T \in SUBSET Ids(plan)}

Controls(plan) == {GenerationControl(plan, Gen(plan, g)) : g \in Ids(plan)}

ControlMaps(plan) == UNION {[T -> Controls(plan)] : T \in SUBSET Ids(plan)}

Assemblers(plan) ==
    [chunks : ChunkMaps(plan), received : Nat, total : {None, Len(plan.payload)},
     digest : {None, plan.payload}, generations : ControlMaps(plan), active : Ids(plan),
     store : StoreMaps(plan)]

StoreOK(store, plan) ==
    store \in StoreMaps(plan) /\ \A g \in DOMAIN store : SolverOK(store[g], Gen(plan, g))

\* Announced generations have a solver of their size; one of them is the active one.
AnnouncedOK(asm_, plan) ==
    /\ \A g \in DOMAIN asm_.generations :
          /\ asm_.generations[g] = GenerationControl(plan, Gen(plan, g))
          /\ g \in DOMAIN asm_.store /\ asm_.store[g].size = Gen(plan, g).size
    /\ DOMAIN asm_.generations # {} => asm_.active \in DOMAIN asm_.generations

AsmOK(asm_, plan) ==
    /\ asm_ \in Assemblers(plan)
    /\ \A c \in DOMAIN asm_.chunks : asm_.chunks[c] = plan.payload[c]
    /\ asm_.received = Cardinality(DOMAIN asm_.chunks)
    /\ AnnouncedOK(asm_, plan)
    /\ StoreOK(asm_.store, plan)

\* The generations by their ids.
LEMMA GenType ==
  ASSUME NEW plan \in Plans, NEW g \in Ids(plan)
  PROVE  /\ Gen(plan, g) \in Generations /\ Gen(plan, g).id = g
         /\ Gen(plan, g).size \in 1..MaxSize /\ Gen(plan, g).size \in Nat \ {0}
         /\ \A i \in 1..Gen(plan, g).size :
               /\ Gen(plan, g).base + i - 1 \in DOMAIN plan.payload
               /\ Gen(plan, g).chunks[i] = plan.payload[Gen(plan, g).base + i - 1]
<1>1. /\ g + 1 \in 1..Len(GenerationPlans(plan)) /\ (g + 1) - 1 = g
  BY GenerationsOfPlan DEF Ids
<1>2. DOMAIN plan.payload = 1..Len(plan.payload)
  BY LenProperties DEF Plans
<1> DEFINE gs == GenerationPlans(plan)  k == g + 1
<1>3. /\ gs[k] \in Generations /\ gs[k].id = k - 1 /\ gs[k].size \in 1..MaxSize
      /\ \A i \in 1..gs[k].size :
            /\ gs[k].base + i - 1 \in 1..Len(plan.payload)
            /\ gs[k].chunks[i] = plan.payload[gs[k].base + i - 1]
  BY <1>1, GenerationsOfPlan
<1>4. gs[k].size \in Nat \ {0}
  BY <1>3, MaxSizeAssumption
<1> QED
  BY <1>1, <1>2, <1>3, <1>4 DEF Gen

\* A solver of a generation is one.
LEMMA StateOfGeneration ==
  ASSUME NEW generation \in Generations, NEW state, SolverOK(state, generation)
  PROVE  /\ state \in SolverStates
         /\ \E v \in Vectors : TrueFor(v, generation) /\ SoundState(state, v)
<1> DEFINE v == Padded(generation, 0, 0)
<1>1. 0 \in Elements
  BY DEF Elements
<1>2. 0 \notin 1..generation.size
  OBVIOUS
<1>3. v \in Vectors /\ TrueFor(v, generation)
  BY <1>1, <1>2, PaddedType
<1> HIDE DEF v
<1>4. SoundState(state, v)
  BY <1>3 DEF SolverOK, GenerationOK
<1> QED
  BY <1>3, <1>4 DEF SoundState

\* A new state holds nothing that could be false.
LEMMA EmptyStateOK ==
  ASSUME NEW generation \in Generations, NEW size \in Nat
  PROVE  /\ EmptyState(size) \in SolverStates /\ EmptyState(size).size = size
         /\ SolverOK(EmptyState(size), generation)
<1> DEFINE state == EmptyState(size)
<1>1. /\ state.size = size /\ state.symbolSize = 0 /\ state.known = <<>>
      /\ state.systematic = {} /\ state.equations = <<>> /\ state.received = {}
      /\ state.rank = 0 /\ state.solvable = FALSE
  BY DEF EmptyState
<1>2. DOMAIN <<>> = {}
  OBVIOUS
<1>3. <<>> \in KnownMaps /\ <<>> \in EquationMaps
  <2>1. <<>> \in [{} -> Payloads] /\ <<>> \in [{} -> Rows] /\ {} \in SUBSET Sources /\ {} \in SUBSET Nat
    OBVIOUS
  <2> QED BY <2>1 DEF KnownMaps, EquationMaps
<1>4. state \in SolverStates
  BY <1>3 DEF EmptyState, SolverStates
<1>5. IsFiniteSet({}) /\ Cardinality({}) = 0
  BY FS_EmptySet
<1> HIDE DEF state
<1>6. \A v \in Vectors : SoundState(state, v)
  BY <1>1, <1>2, <1>4, <1>5 DEF SoundState, Agrees, TrueEquations
<1>7. PivotRows(<<>>, <<>>) = <<>>
  BY NoPivots
<1>8. Settled(state)
  BY <1>1, <1>2, <1>7 DEF Settled, NothingGiven
<1>9. SolverOK(state, generation)
  BY <1>1, <1>2, <1>6, <1>8 DEF SolverOK, GenerationOK
<1> QED
  BY <1>1, <1>4, <1>9 DEF state

\* The size of a state says nothing of its symbols.
LEMMA ResizedOK ==
  ASSUME NEW generation \in Generations, NEW state \in SolverStates,
         SolverOK(state, generation), NEW size \in Nat
  PROVE  /\ [state EXCEPT !.size = size] \in SolverStates
         /\ [state EXCEPT !.size = size].size = size
         /\ SolverOK([state EXCEPT !.size = size], generation)
<1> DEFINE new == [state EXCEPT !.size = size]
<1>1. new \in SolverStates
  BY DEF SolverStates
<1>2. /\ new.size = size /\ new.symbolSize = state.symbolSize /\ new.known = state.known
      /\ new.systematic = state.systematic /\ new.equations = state.equations
      /\ new.rank = state.rank
  BY DEF SolverStates
<1> HIDE DEF new
<1>3. \A v \in Vectors : TrueFor(v, generation) => SoundState(new, v)
  BY <1>1, <1>2 DEF SolverOK, GenerationOK, SoundState
<1>4. SolverOK(new, generation)
  BY <1>2, <1>3 DEF SolverOK, GenerationOK, Settled
<1> QED
  BY <1>1, <1>2, <1>4 DEF new

\* A state put into the store.
LEMMA StorePut ==
  ASSUME NEW plan \in Plans, NEW store, StoreOK(store, plan),
         NEW id \in Ids(plan), NEW state \in SolverStates, SolverOK(state, Gen(plan, id)),
         NEW new, new = [g \in DOMAIN store \cup {id} |-> IF g = id THEN state ELSE store[g]]
  PROVE  StoreOK(new, plan)
<1>1. DOMAIN store \in SUBSET Ids(plan) /\ \A g \in DOMAIN store : store[g] \in SolverStates
  BY DEF StoreOK, StoreMaps
<1>2. DOMAIN new \in SUBSET Ids(plan) /\ DOMAIN new = DOMAIN store \cup {id}
  BY <1>1
<1>3. new \in [DOMAIN new -> SolverStates]
  BY <1>1
<1>4. new \in StoreMaps(plan)
  BY <1>2, <1>3 DEF StoreMaps
<1>5. \A g \in DOMAIN new : SolverOK(new[g], Gen(plan, g))
  BY DEF StoreOK
<1> QED
  BY <1>4, <1>5 DEF StoreOK

\* A store after a generation was looked up: it has it, and those of a size are the same.
LookedUp(new, store, plan, id) ==
    /\ StoreOK(new, plan)
    /\ DOMAIN new = DOMAIN store \cup {id}
    /\ \A g \in DOMAIN store : store[g].size # 0 => new[g] = store[g]

\* A generation looked up is created, sized or left as it is.
LEMMA GetOrCreateOK ==
  ASSUME NEW plan \in Plans, NEW store, StoreOK(store, plan), NEW id \in Ids(plan), NEW size \in Nat
  PROVE  LookedUp(GetOrCreate(store, id, size), store, plan, id)
<1> DEFINE new == GetOrCreate(store, id, size)
<1>1. Gen(plan, id) \in Generations
  BY GenType
<1>2. /\ \A g \in DOMAIN store : store[g] \in SolverStates /\ SolverOK(store[g], Gen(plan, g))
      /\ store = [g \in DOMAIN store |-> store[g]]
  BY DEF StoreOK, StoreMaps
<1>3. CASE id \notin DOMAIN store
  <2>1. new = [g \in DOMAIN store \cup {id} |-> IF g = id THEN EmptyState(size) ELSE store[g]]
    BY <1>3 DEF GetOrCreate, With
  <2>2. EmptyState(size) \in SolverStates /\ SolverOK(EmptyState(size), Gen(plan, id))
    BY <1>1, EmptyStateOK
  <2> HIDE DEF new
  <2>3. StoreOK(new, plan)
    BY <2>1, <2>2, StorePut
  <2> QED BY <1>3, <2>1, <2>3 DEF new, LookedUp
<1>4. CASE id \in DOMAIN store /\ size > 0 /\ store[id].size = 0
  <2> DEFINE state == [store[id] EXCEPT !.size = size]
  <2>1. new = [store EXCEPT ![id].size = size]
    BY <1>4 DEF GetOrCreate
  <2>2. new = [g \in DOMAIN store \cup {id} |-> IF g = id THEN state ELSE store[g]]
    BY <1>2, <1>4, <2>1
  <2>3. state \in SolverStates /\ SolverOK(state, Gen(plan, id))
    BY <1>1, <1>2, <1>4, ResizedOK
  <2> HIDE DEF new, state
  <2>4. StoreOK(new, plan)
    BY <2>2, <2>3, StorePut
  <2> QED BY <1>4, <2>2, <2>4 DEF new, LookedUp
<1>5. CASE id \in DOMAIN store /\ ~(size > 0 /\ store[id].size = 0)
  <2>1. new = store
    BY <1>5 DEF GetOrCreate
  <2> QED BY <1>5, <2>1 DEF LookedUp
<1> QED
  BY <1>3, <1>4, <1>5

\* A store after a size was announced: a generation has it, the others are the same.
Resized(new, store, plan, id, size) ==
    /\ StoreOK(new, plan)
    /\ DOMAIN new = DOMAIN store \cup {id}
    /\ new[id].size = size
    /\ \A g \in DOMAIN store : store[g].size # 0 /\ g # id => new[g] = store[g]

\* A size announced is the state's size.
LEMMA UpdateSizeOK ==
  ASSUME NEW plan \in Plans, NEW store, StoreOK(store, plan), NEW id \in Ids(plan),
         NEW size \in Nat \ {0}
  PROVE  Resized(UpdateGenerationSize(store, id, size), store, plan, id, size)
<1> DEFINE mid == GetOrCreate(store, id, size)
           new == UpdateGenerationSize(store, id, size)
           state == [mid[id] EXCEPT !.size = size]
<1>0. size \in Nat /\ size > 0
  OBVIOUS
<1>1. /\ StoreOK(mid, plan) /\ DOMAIN mid = DOMAIN store \cup {id}
      /\ \A g \in DOMAIN store : store[g].size # 0 => mid[g] = store[g]
  <2>1. LookedUp(GetOrCreate(store, id, size), store, plan, id)
    BY <1>0, GetOrCreateOK
  <2> QED BY <2>1 DEF LookedUp
<1>2. new = [mid EXCEPT ![id].size = size]
  <2>1. new = [mid EXCEPT ![id].size = IF size > 0 THEN size ELSE @]
    BY DEF UpdateGenerationSize
  <2> HIDE DEF new, mid, state
  <2> QED BY <1>0, <2>1
<1> HIDE DEF mid, new
<1>3. /\ mid[id] \in SolverStates /\ SolverOK(mid[id], Gen(plan, id))
      /\ mid = [g \in DOMAIN mid |-> mid[g]]
  BY <1>1 DEF StoreOK, StoreMaps
<1>4. state \in SolverStates /\ SolverOK(state, Gen(plan, id)) /\ state.size = size
  BY <1>3, GenType, ResizedOK
<1>5. new = [g \in DOMAIN mid \cup {id} |-> IF g = id THEN state ELSE mid[g]]
  BY <1>1, <1>2, <1>3
<1> HIDE DEF state
<1>6. StoreOK(new, plan)
  BY <1>1, <1>4, <1>5, StorePut
<1>7. DOMAIN new = DOMAIN store \cup {id} /\ new[id] = state
  BY <1>1, <1>5
<1>8. \A g \in DOMAIN store : store[g].size # 0 /\ g # id => new[g] = store[g]
  BY <1>1, <1>5
<1> QED
  BY <1>4, <1>6, <1>7, <1>8 DEF new, Resized

\* What is left of an assembler when only chunks and solvers may have changed.
Grown(new, a) ==
    /\ new.total = a.total /\ new.digest = a.digest
    /\ new.generations = a.generations /\ new.active = a.active
    /\ DOMAIN a.chunks \subseteq DOMAIN new.chunks

\* The fields of an assembler.
LEMMA FieldsOf ==
  ASSUME NEW plan \in Plans, NEW a, AsmOK(a, plan)
  PROVE  /\ a = [chunks |-> a.chunks, received |-> a.received, total |-> a.total,
                 digest |-> a.digest, generations |-> a.generations, active |-> a.active,
                 store |-> a.store]
         /\ a.chunks \in ChunkMaps(plan) /\ a.received \in Nat
         /\ a.total \in {None, Len(plan.payload)} /\ a.digest \in {None, plan.payload}
         /\ a.generations \in ControlMaps(plan) /\ a.active \in Ids(plan)
         /\ a.store \in StoreMaps(plan)
BY DEF AsmOK, Assemblers

\* A store put into the assembler.
LEMMA WithStoreOK ==
  ASSUME NEW plan \in Plans, NEW a, AsmOK(a, plan), NEW store, StoreOK(store, plan),
         \A g \in DOMAIN a.generations : g \in DOMAIN store /\ store[g].size = Gen(plan, g).size
  PROVE  /\ AsmOK([a EXCEPT !.store = store], plan) /\ Grown([a EXCEPT !.store = store], a)
         /\ [a EXCEPT !.store = store].store = store
         /\ [a EXCEPT !.store = store].chunks = a.chunks
<1> DEFINE new == [a EXCEPT !.store = store]
<1>1. /\ new.chunks = a.chunks /\ new.received = a.received /\ new.total = a.total
      /\ new.digest = a.digest /\ new.generations = a.generations /\ new.active = a.active
      /\ new.store = store
      /\ new = [chunks |-> a.chunks, received |-> a.received, total |-> a.total,
                digest |-> a.digest, generations |-> a.generations, active |-> a.active,
                store |-> store]
  BY FieldsOf
<1> HIDE DEF new
<1>2. store \in StoreMaps(plan)
  BY DEF StoreOK
<1>3. new \in Assemblers(plan)
  BY <1>1, <1>2, FieldsOf DEF Assemblers
<1>4. AnnouncedOK(new, plan)
  BY <1>1 DEF AsmOK, AnnouncedOK
<1>5. AsmOK(new, plan)
  BY <1>1, <1>3, <1>4 DEF AsmOK
<1> QED
  BY <1>1, <1>5 DEF new, Grown

\* The solver the acceptor looks up.
LEMMA StoreForOK ==
  ASSUME NEW plan \in Plans, NEW a, AsmOK(a, plan)
  PROVE  /\ ResolvedGeneration(a) \in Ids(plan) /\ DefaultGenerationSize(a) \in Nat
         /\ LookedUp(StoreFor(a), a.store, plan, ResolvedGeneration(a))
<1> DEFINE id == ResolvedGeneration(a)
           size == IF HasActive(a) THEN ResolvedSize(a) ELSE DefaultGenerationSize(a)
<1>1. 0 \in Ids(plan)
  BY GenerationsOfPlan DEF Ids
<1>2. id \in Ids(plan)
  BY <1>1, FieldsOf DEF ResolvedGeneration
<1>3. ResolvedSize(a) \in Nat
  <2>1. CASE HasActive(a)
    <3>1. a.generations[a.active] = GenerationControl(plan, Gen(plan, a.active))
      BY <2>1 DEF HasActive, AsmOK, AnnouncedOK
    <3>2. a.generations[a.active].size \in Nat
      BY <3>1, FieldsOf, GenType DEF GenerationControl
    <3> QED BY <2>1, <3>2 DEF ResolvedSize
  <2>2. CASE ~HasActive(a)
    BY <2>2 DEF ResolvedSize
  <2> QED BY <2>1, <2>2
<1>4. DefaultGenerationSize(a) \in Nat
  <2>1. Len(plan.payload) \in Nat
    BY LenProperties DEF Plans
  <2> QED BY <1>3, <2>1, FieldsOf DEF DefaultGenerationSize
<1>5. size \in Nat
  BY <1>3, <1>4
<1>6. StoreFor(a) = GetOrCreate(a.store, id, size) /\ StoreOK(a.store, plan)
  BY DEF StoreFor, AsmOK
<1> HIDE DEF id, size
<1>7. LookedUp(GetOrCreate(a.store, id, size), a.store, plan, id)
  BY <1>2, <1>5, <1>6, GetOrCreateOK
<1> QED
  BY <1>2, <1>4, <1>6, <1>7 DEF id

\* The solver looked up is one of its generation, of its size once that is announced.
LEMMA StateForOK ==
  ASSUME NEW plan \in Plans, NEW a, AsmOK(a, plan)
  PROVE  /\ StateFor(a) \in SolverStates
         /\ SolverOK(StateFor(a), Gen(plan, ResolvedGeneration(a)))
         /\ HasActive(a) => StateFor(a).size = Gen(plan, a.active).size
<1> DEFINE id == ResolvedGeneration(a)
<1>1. /\ StoreOK(StoreFor(a), plan) /\ DOMAIN StoreFor(a) = DOMAIN a.store \cup {id}
      /\ \A g \in DOMAIN a.store : a.store[g].size # 0 => StoreFor(a)[g] = a.store[g]
  BY StoreForOK DEF LookedUp
<1>2. StateFor(a) = StoreFor(a)[id]
  BY DEF StateFor
<1>3. StateFor(a) \in SolverStates
  BY <1>1, <1>2 DEF StoreOK, StoreMaps
<1>4. SolverOK(StateFor(a), Gen(plan, id))
  BY <1>1, <1>2 DEF StoreOK
<1>5. HasActive(a) => StateFor(a).size = Gen(plan, a.active).size
  <2> SUFFICES ASSUME HasActive(a) PROVE StateFor(a).size = Gen(plan, a.active).size
    OBVIOUS
  <2>1. id = a.active
    BY DEF ResolvedGeneration
  <2>2. a.active \in DOMAIN a.store /\ a.store[a.active].size = Gen(plan, a.active).size
    BY DEF HasActive, AsmOK, AnnouncedOK
  <2>3. a.store[a.active].size # 0
    BY <2>2, FieldsOf, GenType
  <2> QED BY <1>1, <1>2, <2>1, <2>2, <2>3
<1> QED
  BY <1>3, <1>4, <1>5

\* The solver put back.
LEMMA WithStateOK ==
  ASSUME NEW plan \in Plans, NEW a, AsmOK(a, plan), NEW state \in SolverStates,
         SolverOK(state, Gen(plan, ResolvedGeneration(a))), state.size = StateFor(a).size
  PROVE  /\ AsmOK(WithState(a, state), plan) /\ Grown(WithState(a, state), a)
         /\ WithState(a, state).chunks = a.chunks
<1> DEFINE id == ResolvedGeneration(a)
           mid == StoreFor(a)
           store == [mid EXCEPT ![id] = state]
<1>1. /\ StoreOK(mid, plan) /\ DOMAIN mid = DOMAIN a.store \cup {id} /\ id \in Ids(plan)
      /\ \A g \in DOMAIN a.store : a.store[g].size # 0 => mid[g] = a.store[g]
  BY StoreForOK DEF LookedUp
<1>2. mid = [g \in DOMAIN mid |-> mid[g]] /\ StateFor(a) = mid[id]
  BY <1>1 DEF StoreOK, StoreMaps, StateFor
<1> HIDE DEF mid
<1>3. store = [g \in DOMAIN mid \cup {id} |-> IF g = id THEN state ELSE mid[g]]
  BY <1>1, <1>2
<1>4. WithState(a, state) = [a EXCEPT !.store = store]
  BY DEF WithState, mid
<1> HIDE DEF store, id
<1>5. SolverOK(state, Gen(plan, id))
  BY DEF id
<1>6. StoreOK(store, plan)
  BY <1>1, <1>3, <1>5, StorePut
<1>7. ASSUME NEW g \in DOMAIN a.generations
      PROVE  g \in DOMAIN store /\ store[g].size = Gen(plan, g).size
  <2>1. g \in DOMAIN a.store /\ a.store[g].size = Gen(plan, g).size
    BY DEF AsmOK, AnnouncedOK
  <2>2. g \in Ids(plan)
    BY FieldsOf DEF ControlMaps
  <2>3. a.store[g].size # 0
    BY <2>1, <2>2, GenType
  <2>4. mid[g] = a.store[g] /\ g \in DOMAIN mid
    BY <1>1, <2>1, <2>3
  <2>5. g \in DOMAIN store /\ store[g] = IF g = id THEN state ELSE mid[g]
    BY <1>3, <2>4
  <2> QED BY <1>2, <2>1, <2>4, <2>5
<1> QED
  BY <1>4, <1>6, <1>7, WithStoreOK

\* A chunk of the payload's, put in its place.
LEMMA StoreChunkOK ==
  ASSUME NEW plan \in Plans, NEW a, AsmOK(a, plan), NEW index, NEW payload,
         GlobalChunkId(a, index) \in DOMAIN plan.payload,
         payload = plan.payload[GlobalChunkId(a, index)]
  PROVE  /\ AsmOK(StoreChunk(a, index, payload), plan)
         /\ Grown(StoreChunk(a, index, payload), a)
         /\ StoreChunk(a, index, payload).store = a.store
         /\ GlobalChunkId(a, index) \in DOMAIN StoreChunk(a, index, payload).chunks
<1> DEFINE id == GlobalChunkId(a, index)
           new == StoreChunk(a, index, payload)
<1>1. CASE id \in DOMAIN a.chunks
  <2>1. new = a
    BY <1>1 DEF StoreChunk
  <2> QED BY <1>1, <2>1 DEF Grown
<1>2. CASE id \notin DOMAIN a.chunks
  <2> DEFINE chunks == With(a.chunks, id, payload)
  <2>1. new = [a EXCEPT !.chunks = chunks, !.received = a.received + 1]
    BY <1>2 DEF StoreChunk
  <2>2. /\ new.chunks = chunks /\ new.received = a.received + 1 /\ new.total = a.total
        /\ new.digest = a.digest /\ new.generations = a.generations /\ new.active = a.active
        /\ new.store = a.store
        /\ new = [chunks |-> chunks, received |-> a.received + 1, total |-> a.total,
                  digest |-> a.digest, generations |-> a.generations, active |-> a.active,
                  store |-> a.store]
    BY <2>1, FieldsOf
  <2>3. /\ DOMAIN chunks = DOMAIN a.chunks \cup {id} /\ chunks[id] = payload
        /\ \A c \in DOMAIN a.chunks : chunks[c] = a.chunks[c]
        /\ chunks = [c \in DOMAIN chunks |-> chunks[c]]
    BY <1>2 DEF With
  <2> HIDE DEF new, chunks, id
  <2>4. DOMAIN chunks \in SUBSET DOMAIN plan.payload
    BY <2>3, FieldsOf DEF ChunkMaps, id
  <2>5. \A c \in DOMAIN chunks : chunks[c] = plan.payload[c]
    BY <2>3 DEF AsmOK, id
  <2>6. \A c \in DOMAIN plan.payload : plan.payload[c] \in PayloadChunk
    BY LenProperties, ElementOfSeq DEF Plans
  <2>7. chunks \in [DOMAIN chunks -> PayloadChunk]
    BY <2>3, <2>4, <2>5, <2>6
  <2>8. chunks \in ChunkMaps(plan)
    BY <2>4, <2>7 DEF ChunkMaps
  <2>9. IsFiniteSet(DOMAIN a.chunks)
    <3>1. DOMAIN plan.payload = 1..Len(plan.payload) /\ Len(plan.payload) \in Nat
      BY LenProperties DEF Plans
    <3>2. IsFiniteSet(DOMAIN plan.payload)
      BY <3>1, FS_Interval
    <3>3. DOMAIN a.chunks \in SUBSET DOMAIN plan.payload
      BY FieldsOf DEF ChunkMaps
    <3> QED BY <3>2, <3>3, FS_Subset
  <2>10. Cardinality(DOMAIN chunks) = Cardinality(DOMAIN a.chunks) + 1
    BY <1>2, <2>3, <2>9, FS_AddElement DEF id
  <2>11. new.received = Cardinality(DOMAIN new.chunks) /\ new.received \in Nat
    BY <2>2, <2>10, FieldsOf DEF AsmOK
  <2>12. new \in Assemblers(plan)
    BY <2>2, <2>8, <2>11, FieldsOf DEF Assemblers
  <2>13. AnnouncedOK(new, plan) /\ StoreOK(new.store, plan)
    BY <2>2 DEF AsmOK, AnnouncedOK
  <2>14. AsmOK(new, plan)
    BY <2>2, <2>5, <2>11, <2>12, <2>13 DEF AsmOK
  <2> QED BY <2>2, <2>3, <2>14 DEF new, Grown, id
<1> QED
  BY <1>1, <1>2

\* Storing the symbols one after the other stays where every one of them does.
LEMMA MaterializedStays ==
  ASSUME NEW a, NEW before, NEW state, NEW D, WithState(a, state) \in D,
         \A b \in D, k \in 1..MaxSize : StoreSymbol(b, k, state.known, before) \in D
  PROVE  Materialized(a, before, state) \in D
<1> DEFINE n == MaxSize
           start == WithState(a, state)
           Step(b, k) == StoreSymbol(b, k, state.known, before)
           F == [x \in D \X (1..n) |-> Step(x[1], x[2])]
           Run(after) == after = [k \in 0..n |-> IF k = 0 THEN start ELSE Step(after[k - 1], k)]
           chosen == CHOOSE after : Run(after)
<1>1. n \in Nat
  BY MaxSizeAssumption
<1>2. start \in D /\ \A b \in D, k \in 1..n : Step(b, k) \in D
  OBVIOUS
<1>3. \A b \in D, k \in 1..n : F[<<b, k>>] = Step(b, k)
  <2> HIDE DEF n
  <2> QED OBVIOUS
<1>4. Materialized(a, before, state) = chosen[n]
  BY DEF Materialized, Repeated
<1> HIDE DEF n, Step, F, start
<1>5. \E after : Run(after)
  <2>1. Stays(D, n, F)
    BY <1>2, <1>3 DEF Stays
  <2>2. PICK after \in [0..n -> D] : IsRun(after, n, start, F)
    BY <1>1, <1>2, <2>1, RunExists
  <2>3. ASSUME NEW k \in 0..n
        PROVE  after[k] = IF k = 0 THEN start ELSE Step(after[k - 1], k)
    <3>1. CASE k = 0
      BY <2>2, <3>1 DEF IsRun
    <3>2. CASE k # 0
      <4>1. k \in 1..n /\ k - 1 \in 0..n
        BY <1>1, <3>2
      <4>2. after[k - 1] \in D
        BY <4>1
      <4> QED BY <1>3, <2>2, <3>2, <4>1, <4>2 DEF IsRun
    <3> QED BY <3>1, <3>2
  <2>4. Run(after)
    BY <2>2, <2>3
  <2> QED BY <2>4
<1>6. Run(chosen)
  <2> HIDE DEF Run
  <2> QED BY <1>5
<1>7. chosen[0] = start /\ \A k \in 1..n : chosen[k] = Step(chosen[k - 1], k)
  <2> HIDE DEF chosen
  <2>1. chosen = [k \in 0..n |-> IF k = 0 THEN start ELSE Step(chosen[k - 1], k)]
    BY <1>6
  <2>2. \A k \in 0..n : chosen[k] = IF k = 0 THEN start ELSE Step(chosen[k - 1], k)
    BY <2>1
  <2>3. 0 \in 0..n /\ \A k \in 1..n : k \in 0..n /\ k # 0
    BY <1>1
  <2> HIDE DEF Run
  <2>4. chosen[0] = start
    BY <2>2, <2>3
  <2>5. \A k \in 1..n : chosen[k] = Step(chosen[k - 1], k)
    BY <2>2, <2>3
  <2> QED BY <2>4, <2>5
<1> HIDE DEF chosen
<1>8. \A k \in 0..n : chosen[k] \in D
  <2>1. chosen[0] \in D
    BY <1>2, <1>7
  <2>2. ASSUME NEW k \in 0..n - 1, chosen[k] \in D PROVE chosen[k + 1] \in D
    <3>1. k + 1 \in 1..n /\ (k + 1) - 1 = k
      BY <1>1
    <3> QED BY <1>2, <1>7, <2>2, <3>1
  <2> QED BY <1>1, <2>1, <2>2, RunStays
<1> QED
  BY <1>1, <1>4, <1>8

\* Where the acceptor puts the symbols of the generation it takes a unit for.
LEMMA PlaceOf ==
  ASSUME NEW plan \in Plans, NEW a, AsmOK(a, plan), HasActive(a) \/ OneGeneration(plan),
         NEW i \in 1..Gen(plan, ResolvedGeneration(a)).size
  PROVE  /\ GlobalChunkId(a, i) = Gen(plan, ResolvedGeneration(a)).base + i - 1
         /\ GlobalChunkId(a, i) \in DOMAIN plan.payload
         /\ plan.payload[GlobalChunkId(a, i)] = Gen(plan, ResolvedGeneration(a)).chunks[i]
<1> DEFINE id == ResolvedGeneration(a)
           generation == Gen(plan, id)
<1>1. id \in Ids(plan)
  BY StoreForOK
<1>2. /\ generation.base + i - 1 \in DOMAIN plan.payload
      /\ generation.chunks[i] = plan.payload[generation.base + i - 1]
      /\ i \in Nat
  BY <1>1, GenType
<1>3. GlobalChunkId(a, i) = generation.base + i - 1
  <2>1. CASE HasActive(a)
    <3>1. id = a.active /\ a.generations[a.active] = GenerationControl(plan, generation)
      BY <2>1 DEF ResolvedGeneration, HasActive, AsmOK, AnnouncedOK
    <3>2. a.generations[a.active].base = generation.base
      BY <3>1 DEF GenerationControl
    <3> QED BY <2>1, <3>2 DEF GlobalChunkId
  <2>2. CASE ~HasActive(a)
    <3>1. id = 0 /\ OneGeneration(plan)
      BY <2>2 DEF ResolvedGeneration
    <3>2. generation.base = 1
      BY <3>1, GenerationsOfPlan DEF Gen
    <3> QED BY <1>2, <2>2, <3>2 DEF GlobalChunkId
  <2> QED BY <2>1, <2>2
<1> QED
  BY <1>2, <1>3

\* The recovered symbols, each put in its place.
LEMMA MaterializedOK ==
  ASSUME NEW plan \in Plans, NEW a, AsmOK(a, plan), HasActive(a), NEW before,
         NEW state \in SolverStates, SolverOK(state, Gen(plan, ResolvedGeneration(a))),
         state.size = StateFor(a).size
  PROVE  AsmOK(Materialized(a, before, state), plan) /\ Grown(Materialized(a, before, state), a)
<1> DEFINE D == {b \in Assemblers(plan) : AsmOK(b, plan) /\ Grown(b, a)}
<1>1. WithState(a, state) \in D
  <2>1. AsmOK(WithState(a, state), plan) /\ Grown(WithState(a, state), a)
    BY WithStateOK
  <2> QED BY <2>1 DEF AsmOK
<1>2. ASSUME NEW b \in D, NEW k \in 1..MaxSize
      PROVE  StoreSymbol(b, k, state.known, before) \in D
  <2>1. CASE k \notin DOMAIN state.known \ DOMAIN before
    BY <2>1 DEF StoreSymbol
  <2>2. CASE k \in DOMAIN state.known \ DOMAIN before
    <3> DEFINE new == StoreChunk(b, k, state.known[k])
    <3>1. AsmOK(b, plan) /\ Grown(b, a)
      OBVIOUS
    <3>2. HasActive(b) /\ ResolvedGeneration(b) = ResolvedGeneration(a)
      BY <3>1 DEF Grown, HasActive, ResolvedGeneration
    <3>3. /\ k \in 1..Gen(plan, ResolvedGeneration(b)).size
          /\ state.known[k] = Gen(plan, ResolvedGeneration(b)).chunks[k]
      BY <2>2, <3>2 DEF SolverOK, GenerationOK
    <3> HIDE DEF D
    <3>4. /\ GlobalChunkId(b, k) \in DOMAIN plan.payload
          /\ state.known[k] = plan.payload[GlobalChunkId(b, k)]
      BY <3>1, <3>2, <3>3, PlaceOf
    <3>5. AsmOK(new, plan) /\ Grown(new, b)
      BY <3>1, <3>4, StoreChunkOK
    <3>6. Grown(new, a)
      BY <3>1, <3>5 DEF Grown
    <3>7. StoreSymbol(b, k, state.known, before) = new
      BY <2>2 DEF StoreSymbol
    <3> QED BY <3>5, <3>6, <3>7 DEF D, AsmOK
  <2> QED BY <2>1, <2>2
<1>3. Materialized(a, before, state) \in D
  <2> HIDE DEF D
  <2> QED BY <1>1, <1>2, MaterializedStays
<1> QED
  BY <1>3

\* A frame that the assembler in state a takes for what it is.
Fits(frame, a, plan) ==
    /\ UnitOf(frame, Gen(plan, ResolvedGeneration(a)))
    /\ HasActive(a) \/ OneGeneration(plan)

Belongs(frame, a, plan) ==
    \/ frame = Manifest(plan)
    \/ \E g \in Ids(plan) : frame = GenerationControl(plan, Gen(plan, g))
    \/ Fits(frame, a, plan)
    \/ frame = [kind |-> "end"]

\* What a frame leaves in the assembler.
Absorbed(new, a, frame) ==
    /\ DOMAIN a.chunks \subseteq DOMAIN new.chunks
    /\ a.total # None => new.total # None
    /\ frame.kind = "manifest" => new.total # None
    /\ frame.kind = "systematic" => frame.chunk \in DOMAIN new.chunks
    /\ frame.kind = "generation" =>
          /\ new.active = frame.id
          /\ DOMAIN new.generations = DOMAIN a.generations \cup {frame.id}
    /\ frame.kind # "generation" => new.active = a.active /\ new.generations = a.generations

\* The manifest gives the total and the digest, and a size if nothing else did.
LEMMA AddManifestOK ==
  ASSUME NEW plan \in Plans, None # Len(plan.payload), NEW a, AsmOK(a, plan)
  PROVE  /\ AsmOK(Add(a, Manifest(plan)), plan) /\ ~Raises(a, Manifest(plan))
         /\ Absorbed(Add(a, Manifest(plan)), a, Manifest(plan))
<1> DEFINE frame == Manifest(plan)
           new == AddManifest(a, frame)
           total == Len(plan.payload)
<1>1. frame.kind = "manifest" /\ frame.total = total /\ frame.digest = plan.payload
  BY DEF Manifest
<1>2. Add(a, frame) = new /\ ~Raises(a, frame)
  BY <1>1 DEF Add, Raises
<1>3. total \in Nat \ {0} /\ total # None
  BY LenProperties, EmptySeq DEF Plans
<1>4. CASE a.total # None
  <2>1. new = a
    BY <1>4 DEF AddManifest
  <2> QED BY <1>1, <1>2, <1>4, <2>1 DEF Absorbed
<1>5. CASE a.total = None
  <2> DEFINE store == IF DOMAIN a.generations = {} THEN UpdateGenerationSize(a.store, 0, total)
                      ELSE a.store
  <2>1. new = [a EXCEPT !.total = total, !.digest = plan.payload, !.store = store]
    BY <1>1, <1>5 DEF AddManifest
  <2>2. /\ new.chunks = a.chunks /\ new.received = a.received /\ new.total = total
        /\ new.digest = plan.payload /\ new.generations = a.generations
        /\ new.active = a.active /\ new.store = store
        /\ new = [chunks |-> a.chunks, received |-> a.received, total |-> total,
                  digest |-> plan.payload, generations |-> a.generations, active |-> a.active,
                  store |-> store]
    BY <2>1, FieldsOf
  <2>3. StoreOK(store, plan)
    <3>1. StoreOK(a.store, plan)
      BY DEF AsmOK
    <3>2. 0 \in Ids(plan)
      BY GenerationsOfPlan DEF Ids
    <3> HIDE DEF total
    <3>3. Resized(UpdateGenerationSize(a.store, 0, total), a.store, plan, 0, total)
      BY <1>3, <3>1, <3>2, UpdateSizeOK
    <3> QED BY <3>1, <3>3 DEF Resized
  <2>4. DOMAIN a.generations # {} => store = a.store
    OBVIOUS
  <2> HIDE DEF new, store, frame
  <2>5. store \in StoreMaps(plan)
    BY <2>3 DEF StoreOK
  <2>6. new \in Assemblers(plan)
    BY <2>2, <2>5, FieldsOf DEF Assemblers
  <2>7. AnnouncedOK(new, plan)
    BY <2>2, <2>4 DEF AsmOK, AnnouncedOK
  <2>8. AsmOK(new, plan)
    BY <2>2, <2>3, <2>6, <2>7 DEF AsmOK
  <2> QED BY <1>1, <1>2, <1>3, <2>2, <2>8 DEF Absorbed, frame
<1> QED
  BY <1>4, <1>5

\* A generation control announces its generation and makes it the active one.
LEMMA AddGenerationOK ==
  ASSUME NEW plan \in Plans, NEW a, AsmOK(a, plan), NEW g \in Ids(plan)
  PROVE  LET frame == GenerationControl(plan, Gen(plan, g))
         IN  AsmOK(Add(a, frame), plan) /\ ~Raises(a, frame) /\ Absorbed(Add(a, frame), a, frame)
<1> DEFINE frame == GenerationControl(plan, Gen(plan, g))
           new == AddGeneration(a, frame)
           size == Gen(plan, g).size
           store == UpdateGenerationSize(a.store, g, size)
           generations == With(a.generations, g, frame)
<1>1. frame.kind = "generation" /\ frame.id = g /\ frame.size = size /\ size \in Nat \ {0}
  BY GenType DEF GenerationControl
<1>2. Add(a, frame) = new /\ ~Raises(a, frame)
  BY <1>1 DEF Add, Raises
<1> HIDE DEF size
<1>3. Resized(store, a.store, plan, g, size)
  <2>1. StoreOK(a.store, plan)
    BY DEF AsmOK
  <2> QED BY <1>1, <2>1, UpdateSizeOK
<1>4. new = [a EXCEPT !.generations = generations, !.active = g, !.store = store]
  BY <1>1 DEF AddGeneration
<1> HIDE DEF frame, store
<1>5. /\ DOMAIN generations = DOMAIN a.generations \cup {g} /\ generations[g] = frame
      /\ \A h \in DOMAIN a.generations : h # g => generations[h] = a.generations[h]
      /\ generations = [h \in DOMAIN generations |-> generations[h]]
  BY DEF With
<1> HIDE DEF generations
<1>6. /\ new.chunks = a.chunks /\ new.received = a.received /\ new.total = a.total
      /\ new.digest = a.digest /\ new.generations = generations
      /\ new.active = g /\ new.store = store
      /\ new = [chunks |-> a.chunks, received |-> a.received, total |-> a.total,
                digest |-> a.digest, generations |-> generations, active |-> g,
                store |-> store]
  BY <1>4, FieldsOf
<1> HIDE DEF new
<1>7. ASSUME NEW h \in DOMAIN generations
      PROVE  /\ h \in Ids(plan) /\ generations[h] = GenerationControl(plan, Gen(plan, h))
             /\ h \in DOMAIN store /\ store[h].size = Gen(plan, h).size
  <2>1. CASE h = g
    BY <1>3, <1>5, <2>1 DEF Resized, size, frame
  <2>2. CASE h # g
    <3>1. h \in DOMAIN a.generations /\ generations[h] = a.generations[h]
      BY <1>5, <2>2
    <3>2. h \in Ids(plan)
      BY <3>1, FieldsOf DEF ControlMaps
    <3>3. /\ a.generations[h] = GenerationControl(plan, Gen(plan, h))
          /\ h \in DOMAIN a.store /\ a.store[h].size = Gen(plan, h).size
      BY <3>1 DEF AsmOK, AnnouncedOK
    <3>4. a.store[h].size # 0
      BY <3>2, <3>3, GenType
    <3>5. h \in DOMAIN store /\ store[h] = a.store[h]
      BY <1>3, <2>2, <3>3, <3>4 DEF Resized
    <3> QED BY <3>1, <3>2, <3>3, <3>5
  <2> QED BY <2>1, <2>2
<1>8. generations \in ControlMaps(plan)
  <2>1. DOMAIN generations \in SUBSET Ids(plan)
    BY <1>7
  <2>2. \A h \in DOMAIN generations : generations[h] \in Controls(plan)
    BY <1>7 DEF Controls
  <2> QED BY <1>5, <2>1, <2>2 DEF ControlMaps
<1>9. new \in Assemblers(plan)
  BY <1>3, <1>6, <1>8, FieldsOf DEF Assemblers, Resized, StoreOK
<1>10. AnnouncedOK(new, plan)
  BY <1>5, <1>6, <1>7 DEF AnnouncedOK
<1>11. AsmOK(new, plan)
  BY <1>3, <1>6, <1>9, <1>10 DEF AsmOK, Resized
<1>12. Absorbed(new, a, frame)
  BY <1>1, <1>5, <1>6 DEF Absorbed
<1> QED
  BY <1>2, <1>11, <1>12 DEF frame

\* A symbol goes to the solver and the chunk of its generation.
LEMMA AddSystematicOK ==
  ASSUME NEW plan \in Plans, NEW a, AsmOK(a, plan), NEW frame, Fits(frame, a, plan),
         frame.kind = "systematic"
  PROVE  AsmOK(Add(a, frame), plan) /\ ~Raises(a, frame) /\ Absorbed(Add(a, frame), a, frame)
<1> DEFINE generation == Gen(plan, ResolvedGeneration(a))
           state == StateFor(a)
           ingested == IF frame.index \in state.systematic THEN state
                       ELSE IngestSystematic(state, frame)
           mid == WithState(a, ingested)
           new == StoreChunk(mid, frame.index, frame.payload)
<1>1. generation \in Generations
  BY StoreForOK, GenType
<1>2. IsSystematic(frame, generation) /\ frame.chunk = generation.base + frame.index - 1
  BY DEF Fits, UnitOf
<1>3. state \in SolverStates /\ SolverOK(state, generation)
  BY StateForOK
<1>4. /\ SolverOK(IngestSystematic(state, frame), generation)
      /\ IngestSystematic(state, frame).size = state.size
      /\ ~SystematicRaises(state, frame)
  BY <1>1, <1>2, <1>3, SystematicOK DEF SolverOK
<1>5. Add(a, frame) = new /\ ~Raises(a, frame)
  BY <1>4 DEF Add, AddSystematic, Raises
<1> HIDE DEF generation, state
<1>6. IngestSystematic(state, frame) \in SolverStates
  BY <1>1, <1>4, StateOfGeneration
<1>7. ingested \in SolverStates /\ SolverOK(ingested, generation) /\ ingested.size = state.size
  BY <1>3, <1>4, <1>6
<1> HIDE DEF ingested
<1>8. AsmOK(mid, plan) /\ Grown(mid, a)
  BY <1>7, WithStateOK DEF generation, state
<1>9. /\ HasActive(mid) <=> HasActive(a)
      /\ ResolvedGeneration(mid) = ResolvedGeneration(a)
  BY <1>8 DEF Grown, HasActive, ResolvedGeneration
<1> HIDE DEF mid
<1>10. frame.index \in 1..generation.size /\ frame.payload = generation.chunks[frame.index]
  BY <1>2 DEF IsSystematic
<1>11. HasActive(mid) \/ OneGeneration(plan)
  BY <1>9 DEF Fits
<1>12. /\ GlobalChunkId(mid, frame.index) = generation.base + frame.index - 1
       /\ GlobalChunkId(mid, frame.index) \in DOMAIN plan.payload
       /\ plan.payload[GlobalChunkId(mid, frame.index)] = generation.chunks[frame.index]
  BY <1>8, <1>9, <1>10, <1>11, PlaceOf DEF generation
<1>13. /\ AsmOK(new, plan) /\ Grown(new, mid)
       /\ GlobalChunkId(mid, frame.index) \in DOMAIN new.chunks
  BY <1>8, <1>10, <1>12, StoreChunkOK
<1> HIDE DEF new
<1>14. Absorbed(new, a, frame)
  BY <1>2, <1>8, <1>12, <1>13 DEF Absorbed, Grown
<1> QED
  BY <1>5, <1>13, <1>14

\* An equation goes to the solver, and what it recovers to its chunks.
LEMMA AddCodedOK ==
  ASSUME NEW plan \in Plans, NEW a, AsmOK(a, plan), NEW frame, Fits(frame, a, plan),
         frame.kind = "coded"
  PROVE  AsmOK(Add(a, frame), plan) /\ ~Raises(a, frame) /\ Absorbed(Add(a, frame), a, frame)
<1> DEFINE generation == Gen(plan, ResolvedGeneration(a))
           state == StateFor(a)
           new == Add(a, frame)
<1>1. generation \in Generations
  BY StoreForOK, GenType
<1>2. IsCoded(frame, generation)
  BY DEF Fits, UnitOf
<1>3. state \in SolverStates /\ SolverOK(state, generation)
  BY StateForOK
<1>4. AsmOK(new, plan) /\ Grown(new, a) /\ ~Raises(a, frame)
  <2>1. CASE ~AcceptsCoded(a)
    <3> DEFINE store == GetOrCreate(a.store, a.active, DefaultGenerationSize(a))
    <3>1. new = [a EXCEPT !.store = store] /\ ~Raises(a, frame)
      BY <2>1 DEF Add, AddCoded, Raises
    <3>2. StoreOK(a.store, plan) /\ a.active \in Ids(plan) /\ DefaultGenerationSize(a) \in Nat
      BY FieldsOf, StoreForOK DEF AsmOK
    <3>3. LookedUp(store, a.store, plan, a.active)
      BY <3>2, GetOrCreateOK
    <3> HIDE DEF new, store
    <3>4. ASSUME NEW g \in DOMAIN a.generations
          PROVE  g \in DOMAIN store /\ store[g].size = Gen(plan, g).size
      <4>1. g \in DOMAIN a.store /\ a.store[g].size = Gen(plan, g).size /\ g \in Ids(plan)
        BY FieldsOf DEF AsmOK, AnnouncedOK, ControlMaps
      <4>2. a.store[g].size # 0
        BY <4>1, GenType
      <4> QED BY <3>3, <4>1, <4>2 DEF LookedUp
    <3>5. StoreOK(store, plan)
      BY <3>3 DEF LookedUp
    <3> QED BY <3>1, <3>4, <3>5, WithStoreOK
  <2>2. CASE AcceptsCoded(a)
    <3>1. HasActive(a) /\ ResolvedGeneration(a) = a.active
      BY <2>2 DEF AcceptsCoded, ResolvedGeneration
    <3>2. state.size = generation.size
      BY <3>1, StateForOK
    <3>3. /\ Raises(a, frame) <=> CodedRaises(state, state.size, frame)
          /\ new = IF frame.equation \in state.received THEN WithState(a, state)
                   ELSE Materialized(a, state.known, IngestCoded(state, state.size, frame))
      BY <2>2 DEF Add, AddCoded, Raises
    <3> DEFINE ingested == IngestCoded(state, state.size, frame)
    <3> HIDE DEF new, generation, state
    <3>4. /\ SolverOK(ingested, generation) /\ ingested.size = state.size
          /\ ~CodedRaises(state, state.size, frame)
      BY <1>1, <1>2, <1>3, <3>2, CodedOK
    <3> HIDE DEF ingested
    <3>5. ingested \in SolverStates
      BY <1>1, <3>4, StateOfGeneration
    <3>6. AsmOK(WithState(a, state), plan) /\ Grown(WithState(a, state), a)
      BY <1>3, WithStateOK DEF generation, state
    <3>7. /\ AsmOK(Materialized(a, state.known, ingested), plan)
          /\ Grown(Materialized(a, state.known, ingested), a)
      BY <3>1, <3>4, <3>5, MaterializedOK DEF generation, state
    <3> QED BY <3>3, <3>4, <3>6, <3>7 DEF ingested
  <2> QED BY <2>1, <2>2
<1>5. Absorbed(new, a, frame)
  <2> HIDE DEF new
  <2> QED BY <1>4 DEF Absorbed, Grown
<1> QED
  BY <1>4, <1>5

\* Frames that belong where they are taken to keep the assembler right, and none of
\* them is refused.
LEMMA AddOK ==
  ASSUME NEW plan \in Plans, None # Len(plan.payload), NEW a, AsmOK(a, plan),
         NEW frame, Belongs(frame, a, plan)
  PROVE  AsmOK(Add(a, frame), plan) /\ ~Raises(a, frame) /\ Absorbed(Add(a, frame), a, frame)
<1>1. CASE frame = Manifest(plan)
  BY <1>1, AddManifestOK
<1>2. CASE \E g \in Ids(plan) : frame = GenerationControl(plan, Gen(plan, g))
  BY <1>2, AddGenerationOK
<1>3. CASE Fits(frame, a, plan)
  <2>1. frame.kind = "systematic" \/ frame.kind = "coded"
    BY <1>3 DEF Fits, UnitOf
  <2> QED BY <1>3, <2>1, AddSystematicOK, AddCodedOK
<1>4. CASE frame = [kind |-> "end"]
  <2>1. frame.kind = "end"
    BY <1>4
  <2>2. Add(a, frame) = a /\ ~Raises(a, frame)
    BY <2>1 DEF Add, Raises
  <2> QED BY <2>1, <2>2 DEF Absorbed
<1> QED
  BY <1>1, <1>2, <1>3, <1>4 DEF Belongs

-----------------------------------------------------------------------------
(* Orderly sessions.                                                         *)

OwnerOf(plan) == CHOOSE owner : EpochOwned(Epoch(plan), plan, owner)

\* An epoch's frames and the generations they belong to.
LEMMA FrameAt ==
  ASSUME NEW plan \in Plans
  PROVE  /\ Len(Epoch(plan)) \in Nat /\ Len(Epoch(plan)) >= 2
         /\ DOMAIN Epoch(plan) = 1..Len(Epoch(plan))
         /\ Epoch(plan)[1] = Manifest(plan)
         /\ Epoch(plan)[Len(Epoch(plan))] = [kind |-> "end"]
         /\ \A p \in 2..Len(Epoch(plan)) - 1 :
               LET g == OwnerOf(plan)[p] - 1
               IN  /\ g \in Ids(plan)
                   /\ \/ Epoch(plan)[p] = GenerationControl(plan, Gen(plan, g))
                      \/ /\ UnitOf(Epoch(plan)[p], Gen(plan, g))
                         /\ p > 2 /\ OwnerOf(plan)[p - 1] - 1 = g
<1> DEFINE epoch == Epoch(plan)  owner == OwnerOf(plan)  n == Len(GenerationPlans(plan))
<1>1. EpochOwned(epoch, plan, owner)
  BY EpochFrames DEF OwnerOf
<1>2. n \in Nat
  BY GenerationsOfPlan
<1> HIDE DEF epoch, owner, n
<1>3. /\ Len(epoch) \in Nat /\ Len(epoch) >= 2 /\ DOMAIN epoch = 1..Len(epoch)
      /\ epoch[1] = Manifest(plan) /\ epoch[Len(epoch)] = [kind |-> "end"]
  BY <1>1 DEF EpochOwned
<1>4. ASSUME NEW p \in 2..Len(epoch) - 1
      PROVE  /\ owner[p] - 1 \in Ids(plan)
             /\ \/ epoch[p] = GenerationControl(plan, Gen(plan, owner[p] - 1))
                \/ /\ UnitOf(epoch[p], Gen(plan, owner[p] - 1))
                   /\ p > 2 /\ owner[p - 1] - 1 = owner[p] - 1
  <2>1. /\ owner[p] \in 1..n
        /\ \/ epoch[p] = GenerationControl(plan, GenerationPlans(plan)[owner[p]])
           \/ /\ UnitOf(epoch[p], GenerationPlans(plan)[owner[p]])
              /\ p > 2 /\ owner[p - 1] = owner[p]
    BY <1>1 DEF EpochOwned, n
  <2>2. owner[p] - 1 \in 0..n - 1 /\ (owner[p] - 1) + 1 = owner[p]
    BY <1>2, <2>1
  <2>3. GenerationPlans(plan)[owner[p]] = Gen(plan, owner[p] - 1)
    BY <2>2 DEF Gen
  <2> QED BY <2>1, <2>2, <2>3 DEF Ids, n
<1> QED
  BY <1>3, <1>4 DEF epoch, owner

\* What is heard of generation id: its control is the next to be assembled, or it
\* is the active one.
Hears(id) ==
    IF flight # <<>> /\ flight[1].kind = "generation" THEN flight[1].id = id
    ELSE HasActive(asm) /\ asm.active = id

\* While every control is captured and the results come in order, the units shown
\* and those in flight are of the generation heard of.
Followed(plan) ==
    /\ position \in 2..Len(stream) - 1 /\ (captured \/ IsUnit(stream[position]))
          => Hears(OwnerOf(plan)[position] - 1)
    /\ flight # <<>> => Belongs(flight[1], asm, plan)

OInv ==
    LET plan == setup.plans[1]
    IN  /\ setup \in Setups /\ Orderly
        /\ build = 1 /\ stream = Epoch(plan) /\ position \in 1..Len(stream)
        /\ flight \in Seq({stream[p] : p \in 1..Len(stream)}) /\ Len(flight) <= setup.lanes
        /\ AsmOK(asm, plan) /\ error = FALSE
        /\ OneGeneration(plan)
           \/ (setup.lanes = 1 /\ setup.controlKept /\ (Receiving => Followed(plan)))

\* The plan of an orderly session.
LEMMA OnePlan ==
  ASSUME setup \in Setups, Orderly
  PROVE  /\ setup.plans[1] \in Plans /\ setup.source = "screen" /\ Len(setup.plans) = 1
         /\ setup.lanes \in Nat \ {0} /\ setup.joins \subseteq DOMAIN Epoch(setup.plans[1])
         /\ None # Len(setup.plans[1].payload)
<1>1. /\ setup.source = "screen" /\ Len(setup.plans) = 1 /\ setup.plans \in Seq(Plans)
      /\ setup.lanes \in Nat \ {0} /\ setup.joins \subseteq DOMAIN Epoch(setup.plans[1])
  BY SetupsAssumption DEF Orderly
<1>2. setup.plans[1] \in Plans
  BY <1>1, ElementOfSeq
<1>3. Len(setup.plans[1].payload) \in Nat
  BY <1>2, LenProperties DEF Plans
<1> QED
  BY <1>1, <1>2, <1>3, NoneAssumption

\* The assembler at first.
LEMMA EmptyAsmOK ==
  ASSUME NEW plan \in Plans
  PROVE  AsmOK(EmptyAssembler, plan)
<1> DEFINE a == EmptyAssembler
<1>1. /\ a.chunks = <<>> /\ a.received = 0 /\ a.total = None /\ a.digest = None
      /\ a.generations = <<>> /\ a.active = 0 /\ a.store = <<>>
      /\ a = [chunks |-> a.chunks, received |-> a.received, total |-> a.total,
              digest |-> a.digest, generations |-> a.generations, active |-> a.active,
              store |-> a.store]
  BY DEF EmptyAssembler
<1> HIDE DEF a
<1>2. DOMAIN <<>> = {} /\ \A S : <<>> \in [{} -> S]
  OBVIOUS
<1>3. /\ <<>> \in ChunkMaps(plan) /\ <<>> \in ControlMaps(plan) /\ <<>> \in StoreMaps(plan)
  <2>1. \A S : {} \in SUBSET S
    OBVIOUS
  <2> QED BY <1>2, <2>1 DEF ChunkMaps, ControlMaps, StoreMaps
<1>4. 0 \in Ids(plan)
  BY GenerationsOfPlan DEF Ids
<1>5. a \in Assemblers(plan)
  BY <1>1, <1>3, <1>4 DEF Assemblers
<1>6. Cardinality({}) = 0
  BY FS_EmptySet
<1> QED
  BY <1>1, <1>2, <1>3, <1>5, <1>6 DEF AsmOK, AnnouncedOK, StoreOK, a

\* An orderly session starts right.
LEMMA OrderlyInit ==
  ASSUME SessionInit, Orderly
  PROVE  OInv
<1> DEFINE plan == setup.plans[1]
<1>1. /\ setup \in Setups /\ build = 1 /\ stream = Epoch(plan) /\ position \in setup.joins
      /\ captured = FALSE /\ flight = <<>> /\ asm = EmptyAssembler /\ error = FALSE
  BY DEF SessionInit, Init
<1>2. /\ plan \in Plans /\ setup.lanes \in Nat \ {0} /\ setup.joins \subseteq DOMAIN Epoch(plan)
  BY <1>1, OnePlan
<1> HIDE DEF plan
<1>3. position \in 1..Len(stream)
  BY <1>1, <1>2, FrameAt
<1>4. /\ flight \in Seq({stream[p] : p \in 1..Len(stream)}) /\ Len(flight) = 0
      /\ Len(flight) <= setup.lanes
  <2>1. \A S : <<>> \in Seq(S)
    BY EmptySeq
  <2>2. Len(<<>>) = 0
    BY EmptySeq
  <2> QED BY <1>1, <1>2, <2>1, <2>2
<1>5. AsmOK(asm, plan)
  BY <1>1, <1>2, EmptyAsmOK
<1>6. OneGeneration(plan)
      \/ (setup.lanes = 1 /\ setup.controlKept /\ (Receiving => Followed(plan)))
  <2> SUFFICES ASSUME ~OneGeneration(plan)
               PROVE  setup.lanes = 1 /\ setup.controlKept /\ Followed(plan)
    OBVIOUS
  <2>1. setup.lanes = 1 /\ setup.controlKept /\ setup.joins = {1}
    BY DEF Orderly, plan
  <2>2. position = 1 /\ 1 \notin 2..Len(stream) - 1
    BY <1>1, <2>1
  <2> QED BY <1>1, <2>1, <2>2 DEF Followed
<1> QED
  BY <1>1, <1>3, <1>4, <1>5, <1>6 DEF OInv, plan

\* What a step of a session over the screen is to the transfer.
LEMMA StepOfTransfer ==
  ASSUME SInv, setup.source # "replay", [SessionNext]_sessionVars
  PROVE  \/ Next
         \/ UNCHANGED <<transferVars, asm, error>> /\ (stop' = stop \/ stop' = TRUE)
<1>1. CASE ScreenStep
  BY <1>1 DEF ScreenStep
<1>2. CASE ReplayStep
  <2>1. Untouched
    BY DEF SInv
  <2>2. ~ThreadStep
    BY <2>1 DEF Untouched, ThreadStep, SequentialRead, SequentialDecode, Read, ReadOn, Collect,
           Commit, CommitsDone, Drained, PutSentinel, Close
  <2>3. \A w \in Workers : working[w] = Gone
    BY <2>1 DEF Untouched, NoPool
  <2>4. \A w \in Workers : ~WorkerStep(w) /\ ~Die(w) /\ ~Terminate(w)
    BY <2>3 DEF WorkerStep, Take, Finish, Die, Terminate, Idle, Gone
  <2> QED BY <1>2, <2>2, <2>4 DEF ReplayStep
<1>3. CASE Tick \/ Rest \/ UNCHANGED sessionVars
  BY <1>3 DEF Tick, Rest, sessionVars, replayVars
<1>4. CASE StartPipeline
  <2>1. setup.source = "screen"
    BY SessionAssumption DEF SInv
  <2> QED BY <1>4, <2>1 DEF StartPipeline, replayVars
<1>5. CASE Test \/ Watch \/ Restore \/ Join \/ Exit
  BY <1>5 DEF Test, Watch, Restore, Join, Exit, pipelineVars, replayVars
<1>6. CASE Interrupt \/ StopPipeline
  BY <1>6 DEF Interrupt, StopPipeline, assemblyVars
<1> QED
  BY <1>1, <1>2, <1>3, <1>4, <1>5, <1>6 DEF SessionNext, RunnerStep

\* The next frame is shown.
LEMMA ShowOK ==
  ASSUME OInv, Show
  PROVE  OInv'
<1> DEFINE plan == setup.plans[1]
<1>1. /\ setup' = setup /\ flight' = flight /\ asm' = asm /\ error' = error /\ stop' = stop
      /\ captured' = FALSE
  BY DEF Show
<1>2. setup \in Setups /\ Orderly /\ Len(setup.plans) = 1 /\ plan \in Plans
  BY OnePlan DEF OInv
<1> HIDE DEF plan
<1>3. /\ build = 1 /\ stream = Epoch(plan) /\ position \in 1..Len(stream)
      /\ flight \in Seq({stream[p] : p \in 1..Len(stream)}) /\ Len(flight) <= setup.lanes
      /\ AsmOK(asm, plan) /\ error = FALSE
      /\ OneGeneration(plan)
         \/ (setup.lanes = 1 /\ setup.controlKept /\ (Receiving => Followed(plan)))
  BY DEF OInv, plan
<1>4. build' = build /\ stream' = stream
  BY <1>2, <1>3 DEF Show, Rebuild
<1>5. /\ position' = IF position < Len(stream) THEN position + 1 ELSE 1
      /\ Len(stream) \in Nat /\ Len(stream) >= 2
  BY <1>2, <1>3, FrameAt DEF Show
<1>6. position' \in 1..Len(stream)
  BY <1>3, <1>5
<1>7. ASSUME ~OneGeneration(plan), Receiving PROVE Followed(plan)'
  <2>1. /\ setup.controlKept /\ Followed(plan)
        /\ IsGenerationControl(stream[position]) => captured
    BY <1>3, <1>7 DEF Show, MustCapture
  <2>2. ASSUME position' \in 2..Len(stream) - 1, IsUnit(stream[position'])
        PROVE  Hears(OwnerOf(plan)[position'] - 1)
    <3> DEFINE p == position'  g == OwnerOf(plan)[p] - 1
    <3>1. /\ stream[p] = GenerationControl(plan, Gen(plan, g))
             \/ (p > 2 /\ OwnerOf(plan)[p - 1] - 1 = g)
      BY <1>2, <1>3, <2>2, FrameAt
    <3>2. stream[p] # GenerationControl(plan, Gen(plan, g))
      BY <2>2 DEF IsUnit, GenerationControl
    <3>3. p = position + 1 /\ position \in 2..Len(stream) - 1 /\ p - 1 = position
      BY <1>3, <1>5, <2>2, <3>1, <3>2
    <3>4. OwnerOf(plan)[position] - 1 = g
      BY <3>1, <3>2, <3>3
    <3>5. captured \/ IsUnit(stream[position])
      <4>1. \/ stream[position] = GenerationControl(plan, Gen(plan, OwnerOf(plan)[position] - 1))
            \/ UnitOf(stream[position], Gen(plan, OwnerOf(plan)[position] - 1))
        BY <1>2, <1>3, <3>3, FrameAt
      <4> QED BY <2>1, <4>1 DEF IsGenerationControl, IsUnit, UnitOf, GenerationControl
    <3> QED BY <2>1, <3>3, <3>4, <3>5 DEF Followed
  <2>3. flight # <<>> => Belongs(flight[1], asm, plan)
    BY <2>1 DEF Followed
  <2>4. plan' = plan
    BY <1>1 DEF plan
  <2> QED BY <1>1, <1>4, <2>2, <2>3, <2>4 DEF Followed, Hears
<1>8. plan' = plan /\ (Receiving' <=> Receiving) /\ (Orderly' <=> Orderly)
  BY <1>1 DEF plan, Receiving, Orderly
<1>9. setup' \in Setups /\ Orderly'
  BY <1>1, <1>2, <1>8
<1> QED
  BY <1>1, <1>3, <1>4, <1>6, <1>7, <1>8, <1>9 DEF OInv, plan

\* One of a sequence removed.
LEMMA RemovedOne ==
  ASSUME NEW S, NEW s \in Seq(S), NEW i \in 1..Len(s)
  PROVE  RemoveAt(s, i) \in Seq(S) /\ Len(RemoveAt(s, i)) = Len(s) - 1
<1>1. Len(s) \in Nat /\ i \in Nat /\ 1 <= i /\ i <= Len(s)
  BY LenProperties
<1> DEFINE a == SubSeq(s, 1, i - 1)  b == SubSeq(s, i + 1, Len(s))
<1>2. a \in Seq(S) /\ Len(a) = i - 1
  <2>1. \A k \in 1..i - 1 : s[k] \in S
    BY <1>1, ElementOfSeq
  <2> QED BY <1>1, <2>1, SubSeqProperties
<1>3. b \in Seq(S) /\ Len(b) = Len(s) - i
  <2>1. \A k \in i + 1..Len(s) : s[k] \in S
    BY <1>1, ElementOfSeq
  <2> QED BY <1>1, <2>1, SubSeqProperties
<1>4. RemoveAt(s, i) = a \o b
  BY DEF RemoveAt
<1> HIDE DEF a, b
<1>5. a \o b \in Seq(S) /\ Len(a \o b) = Len(a) + Len(b)
  BY <1>2, <1>3, ConcatProperties
<1> QED
  BY <1>1, <1>2, <1>3, <1>4, <1>5

\* Where there is one generation, every frame belongs to it.
LEMMA BelongsAnywhere ==
  ASSUME NEW plan \in Plans, OneGeneration(plan), NEW a, AsmOK(a, plan),
         NEW p \in 1..Len(Epoch(plan))
  PROVE  Belongs(Epoch(plan)[p], a, plan)
<1> DEFINE g == OwnerOf(plan)[p] - 1  n == Len(Epoch(plan))
<1>1. CASE p = 1
  BY <1>1, FrameAt DEF Belongs
<1>2. CASE p = n
  BY <1>2, FrameAt DEF Belongs
<1>3. CASE p # 1 /\ p # n
  <2>1. n \in Nat
    BY FrameAt
  <2>2. p \in 2..n - 1
    BY <1>3, <2>1
  <2>3. /\ g \in Ids(plan)
        /\ \/ Epoch(plan)[p] = GenerationControl(plan, Gen(plan, g))
           \/ UnitOf(Epoch(plan)[p], Gen(plan, g))
    BY <2>2, FrameAt
  <2>4. Ids(plan) = {0}
    <3>1. Len(GenerationPlans(plan)) = 1
      BY GenerationsOfPlan
    <3> QED BY <3>1 DEF Ids
  <2>5. ResolvedGeneration(a) \in Ids(plan)
    BY StoreForOK
  <2> HIDE DEF g
  <2>6. ResolvedGeneration(a) = g
    BY <2>3, <2>4, <2>5
  <2> QED BY <2>3, <2>6 DEF Belongs, Fits
<1> QED
  BY <1>1, <1>2, <1>3

\* What is in a sequence of one at most.
LEMMA OnlyOne ==
  ASSUME NEW n \in Nat, n <= 1, NEW k \in 1..n
  PROVE  n = 1 /\ k = 1
OBVIOUS

\* A frame is captured for a lane.
LEMMA CaptureOK ==
  ASSUME OInv, Capture
  PROVE  OInv'
<1> DEFINE plan == setup.plans[1]
<1>1. /\ UNCHANGED <<setup, build, stream, position, asm, error, stop>>
      /\ Receiving /\ Len(flight) < setup.lanes
      /\ flight' = Append(flight, stream[position]) /\ captured' = TRUE
  BY DEF Capture
<1>2. setup \in Setups /\ Orderly /\ plan \in Plans /\ setup.lanes \in Nat
  BY OnePlan DEF OInv
<1> HIDE DEF plan
<1> DEFINE S == {stream[p] : p \in 1..Len(stream)}
<1>3. /\ build = 1 /\ stream = Epoch(plan) /\ position \in 1..Len(stream)
      /\ flight \in Seq(S) /\ Len(flight) <= setup.lanes
      /\ AsmOK(asm, plan) /\ error = FALSE
      /\ OneGeneration(plan)
         \/ (setup.lanes = 1 /\ setup.controlKept /\ (Receiving => Followed(plan)))
  BY DEF OInv, plan
<1>4. plan' = plan /\ (Receiving' <=> Receiving) /\ (Orderly' <=> Orderly) /\ S' = S
  BY <1>1 DEF plan, Receiving, Orderly
<1>5. stream[position] \in S
  BY <1>3
<1> HIDE DEF S
<1>6. flight' \in Seq(S) /\ Len(flight') = Len(flight) + 1 /\ Len(flight') <= setup.lanes
  <2>1. flight' \in Seq(S) /\ Len(flight') = Len(flight) + 1 /\ Len(flight) \in Nat
    BY <1>1, <1>3, <1>5, AppendProperties, LenProperties
  <2> QED BY <1>1, <1>2, <2>1
<1>7. ASSUME ~OneGeneration(plan) PROVE Followed(plan)'
  <2> DEFINE f == stream[position]  g == OwnerOf(plan)[position] - 1
  <2>1. setup.lanes = 1 /\ Followed(plan)
    BY <1>1, <1>3, <1>7
  <2>2. flight = <<>> /\ flight' = <<f>>
    <3>1. Len(flight) \in Nat /\ Len(flight) < 1
      BY <1>1, <1>3, <2>1, LenProperties
    <3>2. flight = <<>>
      BY <1>3, <3>1, EmptySeq
    <3> QED BY <1>1, <3>2
  <2>3. flight' # <<>> /\ flight'[1] = f
    BY <2>2
  <2>4. Len(stream) \in Nat /\ Len(stream) >= 2
    BY <1>2, <1>3, FrameAt
  <2>5. CASE position = 1
    <3>1. f = Manifest(plan)
      BY <1>2, <1>3, <2>5, FrameAt
    <3>2. position' \notin 2..Len(stream') - 1
      BY <1>1, <2>5
    <3> QED BY <1>1, <1>4, <2>3, <3>1, <3>2 DEF Followed, Belongs
  <2>6. CASE position = Len(stream)
    <3>1. f = [kind |-> "end"]
      BY <1>2, <1>3, <2>6, FrameAt
    <3>2. position' \notin 2..Len(stream') - 1
      BY <1>1, <2>4, <2>6
    <3> QED BY <1>1, <1>4, <2>3, <3>1, <3>2 DEF Followed, Belongs
  <2>7. CASE position # 1 /\ position # Len(stream)
    <3>1. position \in 2..Len(stream) - 1
      BY <1>3, <2>4, <2>7
    <3>2. g \in Ids(plan)
      BY <1>2, <1>3, <3>1, FrameAt
    <3>3. CASE f = GenerationControl(plan, Gen(plan, g))
      <4>1. f.kind = "generation" /\ f.id = g
        BY <1>2, <3>2, <3>3, GenType DEF GenerationControl
      <4>2. Hears(g)'
        BY <1>1, <1>4, <2>3, <4>1 DEF Hears
      <4>3. Belongs(f, asm, plan)
        BY <3>2, <3>3 DEF Belongs
      <4> QED BY <1>1, <1>4, <2>3, <4>2, <4>3 DEF Followed
    <3>4. CASE UnitOf(f, Gen(plan, g))
      <4>1. f.kind \in {"systematic", "coded"}
        BY <3>4 DEF UnitOf
      <4>2. Hears(g)
        BY <2>1, <3>1, <4>1 DEF Followed, IsUnit
      <4>3. HasActive(asm) /\ asm.active = g
        BY <2>2, <4>2 DEF Hears
      <4>4. Belongs(f, asm, plan)
        BY <3>4, <4>3 DEF Belongs, Fits, ResolvedGeneration
      <4>5. HasActive(asm') /\ asm'.active = g /\ flight'[1].kind # "generation"
        BY <1>1, <2>3, <4>1, <4>3
      <4>6. Hears(g)'
        BY <4>5, <1>4, <1>1 DEF Hears
      <4> QED BY <1>1, <1>4, <2>3, <4>4, <4>6 DEF Followed
    <3> QED BY <1>2, <1>3, <3>1, <3>3, <3>4, FrameAt
  <2> QED BY <2>5, <2>6, <2>7
<1> QED
  BY <1>1, <1>2, <1>3, <1>4, <1>6, <1>7 DEF OInv, plan, S

\* A lane delivers its oldest frame.
LEMMA DeliverOK ==
  ASSUME OInv, NEW lane \in DOMAIN flight, Deliver(lane)
  PROVE  OInv'
<1> DEFINE plan == setup.plans[1]
           S == {stream[p] : p \in 1..Len(stream)}
           f == flight[lane]
<1>1. setup \in Setups /\ Orderly /\ plan \in Plans /\ setup.lanes \in Nat /\ None # Len(plan.payload)
  BY OnePlan DEF OInv
<1> HIDE DEF plan, f
<1>2. /\ build = 1 /\ stream = Epoch(plan) /\ position \in 1..Len(stream)
      /\ flight \in Seq(S) /\ Len(flight) <= setup.lanes
      /\ AsmOK(asm, plan) /\ error = FALSE
      /\ OneGeneration(plan)
         \/ (setup.lanes = 1 /\ setup.controlKept /\ (Receiving => Followed(plan)))
  BY DEF OInv, plan
<1>3. UNCHANGED <<setup, build, stream, position, captured>> /\ Receiving
      /\ flight' = RemoveAt(flight, lane)
  BY DEF Deliver
<1>4. plan' = plan /\ S' = S /\ (Orderly' <=> Orderly)
  BY <1>3 DEF plan, Orderly
<1>5. lane \in 1..Len(flight) /\ Len(flight) \in Nat /\ f \in S
  <2>1. lane \in 1..Len(flight) /\ Len(flight) \in Nat
    BY <1>2, LenProperties
  <2> HIDE DEF S
  <2> QED BY <1>2, <2>1, ElementOfSeq DEF f
<1>6. flight' \in Seq(S) /\ Len(flight') = Len(flight) - 1 /\ Len(flight') <= setup.lanes
  <2> HIDE DEF S
  <2>1. flight' \in Seq(S) /\ Len(flight') = Len(flight) - 1
    BY <1>2, <1>3, <1>5, RemovedOne
  <2> QED BY <1>1, <1>2, <1>5, <2>1
<1>7. Belongs(f, asm, plan)
  <2>1. CASE OneGeneration(plan)
    <3>1. PICK p \in 1..Len(stream) : f = stream[p]
      BY <1>5
    <3> QED BY <1>1, <1>2, <2>1, <3>1, BelongsAnywhere
  <2>2. CASE ~OneGeneration(plan)
    <3>1. Len(flight) = 1 /\ lane = 1 /\ flight # <<>>
      <4>1. Len(flight) <= 1 /\ lane \in 1..Len(flight) /\ Len(flight) \in Nat
        BY <1>2, <1>5, <2>2
      <4>2. Len(flight) = 1 /\ lane = 1
        BY <4>1, OnlyOne
      <4> QED BY <4>2, EmptySeq
    <3> QED BY <1>2, <1>3, <2>2, <3>1 DEF Followed, f
  <2> QED BY <2>1, <2>2
<1>8. AsmOK(Add(asm, f), plan) /\ ~Raises(asm, f) /\ Absorbed(Add(asm, f), asm, f)
  BY <1>1, <1>2, <1>7, AddOK
<1>9. asm' = Add(asm, f) /\ error' = error
  BY <1>8 DEF Deliver, f
<1>10. ASSUME ~OneGeneration(plan) PROVE Followed(plan)'
  <2>1. setup.lanes = 1 /\ Followed(plan)
    BY <1>2, <1>3, <1>10
  <2>2. flight' = <<>> /\ flight # <<>> /\ f = flight[1]
    <3>1. Len(flight) <= 1 /\ lane \in 1..Len(flight) /\ Len(flight) \in Nat
          /\ Len(flight') = Len(flight) - 1
      BY <1>2, <1>5, <1>6, <2>1
    <3>2. Len(flight) = 1 /\ lane = 1 /\ Len(flight') = 0
      BY <3>1, OnlyOne
    <3> HIDE DEF S
    <3>3. flight # <<>>
      BY <3>2, EmptySeq
    <3>4. flight' = <<>>
      BY <1>6, <3>2, EmptySeq
    <3> QED BY <3>2, <3>3, <3>4 DEF f
  <2>3. ASSUME NEW g, Hears(g) PROVE Hears(g)'
    <3>1. CASE f.kind = "generation"
      <4>1. f.id = g /\ asm'.active = g /\ g \in DOMAIN asm'.generations
        BY <1>8, <1>9, <2>2, <2>3, <3>1 DEF Hears, Absorbed
      <4> QED BY <2>2, <4>1 DEF Hears, HasActive
    <3>2. CASE f.kind # "generation"
      <4>1. asm'.active = asm.active /\ asm'.generations = asm.generations
        BY <1>8, <1>9, <3>2 DEF Absorbed
      <4> QED BY <2>2, <2>3, <3>2, <4>1 DEF Hears, HasActive
    <3> QED BY <3>1, <3>2
  <2> QED BY <1>3, <1>4, <2>1, <2>2, <2>3 DEF Followed
<1> QED
  BY <1>1, <1>2, <1>3, <1>4, <1>6, <1>8, <1>9, <1>10 DEF OInv, plan

\* Every step keeps an orderly session right.
LEMMA OrderlyStep ==
  ASSUME SInv, Orderly => OInv, [SessionNext]_sessionVars
  PROVE  Orderly' => OInv'
<1> SUFFICES ASSUME Orderly' PROVE OInv'
  OBVIOUS
<1>1. setup' = setup /\ setup \in Setups
  BY StepOfReplay, StepOfScreen DEF SInv
<1>2. Orderly /\ OInv /\ setup.source # "replay"
  BY <1>1 DEF Orderly
<1>3. CASE Next
  <2>1. ~Reset
    <3>1. build = 1 /\ Len(setup.plans) = 1
      BY <1>2, OnePlan DEF OInv
    <3> QED BY <3>1 DEF Reset
  <2> QED BY <1>2, <1>3, <2>1, ShowOK, CaptureOK, DeliverOK DEF Next
<1>4. CASE UNCHANGED <<transferVars, asm, error>> /\ (stop' = stop \/ stop' = TRUE)
  <2>1. /\ UNCHANGED <<setup, build, stream, position, captured, flight, asm, error>>
        /\ Receiving' => Receiving
    BY <1>4 DEF transferVars, Receiving
  <2>2. \A plan : Followed(plan)' <=> Followed(plan)
    BY <2>1 DEF Followed, Hears
  <2> QED BY <1>2, <2>1, <2>2 DEF OInv, Orderly
<1> QED
  BY <1>2, <1>3, <1>4, StepOfTransfer

\* An orderly session is always right.
LEMMA OrderlyInvariant == SessionSpec => [](SInv /\ (Orderly => OInv))
<1>1. SessionInit => SInv /\ (Orderly => OInv)
  BY SessionInitOK, OrderlyInit
<1>2. SInv /\ (Orderly => OInv) /\ [SessionNext]_sessionVars => (SInv /\ (Orderly => OInv))'
  <2> SUFFICES ASSUME SInv, Orderly => OInv, [SessionNext]_sessionVars
               PROVE  SInv' /\ (Orderly' => OInv')
    OBVIOUS
  <2> QED BY SessionStepOK, OrderlyStep
<1> QED
  BY <1>1, <1>2, PTL DEF SessionSpec

\* In an orderly session no chunk is ever in the wrong place, for every payload and
\* schedule, however frames are lost, repeated or, within one generation, reordered:
\* neither a unit whose generation is resolved too late nor an elimination can do it.
THEOREM SessionChunksAreRight == SessionSpec => []OrderlyChunksAreRight
<1>1. (Orderly => OInv) => OrderlyChunksAreRight
  <2> SUFFICES ASSUME Orderly, OInv PROVE ChunksAreRight
    BY DEF OrderlyChunksAreRight
  <2> DEFINE plan == setup.plans[1]
  <2>1. plan \in Plans /\ AsmOK(asm, plan)
    BY OnePlan DEF OInv
  <2> HIDE DEF plan
  <2>2. DOMAIN asm.chunks \in SUBSET DOMAIN plan.payload
    BY <2>1, FieldsOf DEF ChunkMaps
  <2>3. \A c \in DOMAIN asm.chunks : asm.chunks[c] = plan.payload[c]
    BY <2>1 DEF AsmOK
  <2> QED BY <2>2, <2>3 DEF ChunksAreRight, Sent, plan
<1> QED
  BY <1>1, OrderlyInvariant, PTL

\* Whatever the solvers of an orderly session know, received or recovered, is the
\* symbol the sender cut from the payload (solver_state.py, _solve).
THEOREM SessionSymbolsAreTrue == SessionSpec => []OrderlySymbolsAreTrue
<1>1. (Orderly => OInv) => OrderlySymbolsAreTrue
  <2> SUFFICES ASSUME Orderly, OInv PROVE KnownSymbolsAreTrue
    BY DEF OrderlySymbolsAreTrue
  <2> DEFINE plan == setup.plans[1]
  <2>1. StoreOK(asm.store, plan)
    BY DEF OInv, AsmOK
  <2>2. ASSUME NEW g \in DOMAIN asm.store, NEW i \in DOMAIN asm.store[g].known
        PROVE  asm.store[g].known[i] = TrueSymbol(g, i)
    <3>1. asm.store[g].known[i] = Gen(plan, g).chunks[i]
      BY <2>1 DEF StoreOK, SolverOK, GenerationOK
    <3> QED BY <3>1 DEF Gen, TrueSymbol
  <2> QED BY <2>2 DEF KnownSymbolsAreTrue
<1> QED
  BY <1>1, OrderlyInvariant, PTL

\* In an orderly session recovery is complete: as soon as the symbols received and
\* the equations held leave one value only for the symbols of an announced
\* generation, its solver knows them all (the elimination, the back substitution and
\* the repeated passes of solver_state.py, _solve).
THEOREM SessionRecoveryIsComplete == SessionSpec => []OrderlyRecoveryIsComplete
<1>1. (Orderly => OInv) => OrderlyRecoveryIsComplete
  <2> SUFFICES ASSUME Orderly, OInv PROVE DeterminedIsSolved
    BY DEF OrderlyRecoveryIsComplete
  <2> DEFINE plan == setup.plans[1]
  <2>1. plan \in Plans /\ AsmOK(asm, plan)
    BY OnePlan DEF OInv
  <2> HIDE DEF plan
  <2> SUFFICES ASSUME NEW g \in DOMAIN asm.generations, NEW state, state = asm.store[g],
                      Cardinality({x \in [1..state.size -> Elements] : Satisfies(x, state)}) = 1
               PROVE  1..state.size \subseteq DOMAIN state.known
    BY DEF DeterminedIsSolved
  <2>2. g \in Ids(plan) /\ g \in DOMAIN asm.store /\ state.size = Gen(plan, g).size
    BY <2>1, FieldsOf DEF AsmOK, AnnouncedOK, ControlMaps
  <2>3. SolverOK(state, Gen(plan, g))
    BY <2>1, <2>2 DEF AsmOK, StoreOK
  <2>4. Gen(plan, g) \in Generations
    BY <2>1, <2>2, GenType
  <2> QED BY <2>2, <2>3, <2>4, DeterminedSolved DEF SolverOK
<1> QED
  BY <1>1, OrderlyInvariant, PTL

\* When the count of chunks of an orderly session has reached the manifest's total,
\* exactly the payload sent can be put together (complete and payload).
THEOREM SessionIsRestorable == SessionSpec => []OrderlyIsRestorable
<1>1. (Orderly => OInv) => OrderlyIsRestorable
  <2> SUFFICES ASSUME Orderly, OInv, Complete(asm)
               PROVE  \A c \in DOMAIN Sent : c \in DOMAIN asm.chunks /\ asm.chunks[c] = Sent[c]
    BY DEF OrderlyIsRestorable, CompleteIsRestorable
  <2> DEFINE plan == setup.plans[1]  n == Len(plan.payload)  T == DOMAIN asm.chunks
  <2>1. plan \in Plans /\ AsmOK(asm, plan)
    BY OnePlan DEF OInv
  <2>2. n \in Nat /\ DOMAIN plan.payload = 1..n
    BY <2>1, LenProperties DEF Plans
  <2>3. Sent = plan.payload
    BY DEF Sent
  <2> HIDE DEF plan
  <2>4. asm.received >= n /\ asm.received = Cardinality(T)
    BY <2>1, FieldsOf DEF Complete, AsmOK
  <2>5. T \in SUBSET (1..n)
    BY <2>1, <2>2, FieldsOf DEF ChunkMaps
  <2> HIDE DEF T, n
  <2>6. IsFiniteSet(1..n) /\ Cardinality(1..n) = n
    BY <2>2, FS_Interval
  <2>7. T = 1..n
    <3>1. Cardinality(T) <= Cardinality(1..n) /\ (Cardinality(T) = Cardinality(1..n) => T = 1..n)
      BY <2>5, <2>6, FS_Subset
    <3>2. Cardinality(T) \in Nat
      BY <2>5, <2>6, FS_Subset, FS_CardinalityType
    <3> QED BY <2>2, <2>4, <2>6, <3>1, <3>2
  <2> QED BY <2>1, <2>2, <2>3, <2>7 DEF AsmOK, T
<1> QED
  BY <1>1, OrderlyInvariant, PTL

-----------------------------------------------------------------------------
(* Every session.  Nothing is known here of chunks and symbols: the manifest's *)
(* digest alone decides what is restored.                                    *)

\* A frame that came off the wire whole, with a manifest of one of these payloads.
Readable(frame, sents) ==
    /\ frame.kind \in {"manifest", "generation", "systematic", "coded", "end"}
    /\ frame.kind = "manifest" => frame.digest \in sents

\* An assembler of whatever contents, with the digest of one of these payloads.
Loose(a, sents) ==
    /\ a = [chunks |-> a.chunks, received |-> a.received, total |-> a.total,
            digest |-> a.digest, generations |-> a.generations, active |-> a.active,
            store |-> a.store]
    /\ a.chunks = [c \in DOMAIN a.chunks |-> a.chunks[c]] /\ a.received \in Nat
    /\ a.total # None => a.digest \in sents

\* The same but for chunks and solvers.
Alike(new, a) ==
    /\ new.total = a.total /\ new.digest = a.digest
    /\ new.generations = a.generations /\ new.active = a.active

\* Fields of a record replaced.
LEMMA TotalReplaced ==
  ASSUME NEW a, a = [chunks |-> a.chunks, received |-> a.received, total |-> a.total,
                     digest |-> a.digest, generations |-> a.generations, active |-> a.active,
                     store |-> a.store],
         NEW x, NEW y, NEW z, NEW b, b = [a EXCEPT !.total = x, !.digest = y, !.store = z]
  PROVE  b = [chunks |-> a.chunks, received |-> a.received, total |-> x,
              digest |-> y, generations |-> a.generations, active |-> a.active, store |-> z]
OBVIOUS

\* Other fields of it.
LEMMA ActiveReplaced ==
  ASSUME NEW a, a = [chunks |-> a.chunks, received |-> a.received, total |-> a.total,
                     digest |-> a.digest, generations |-> a.generations, active |-> a.active,
                     store |-> a.store],
         NEW x, NEW y, NEW z, NEW b, b = [a EXCEPT !.generations = x, !.active = y, !.store = z]
  PROVE  b = [chunks |-> a.chunks, received |-> a.received, total |-> a.total,
              digest |-> a.digest, generations |-> x, active |-> y, store |-> z]
OBVIOUS

\* Solvers do not matter.
LEMMA LooseStore ==
  ASSUME NEW sents, NEW a, Loose(a, sents), NEW store
  PROVE  /\ Loose([a EXCEPT !.store = store], sents)
         /\ [a EXCEPT !.store = store] =
               [chunks |-> a.chunks, received |-> a.received, total |-> a.total,
                digest |-> a.digest, generations |-> a.generations, active |-> a.active,
                store |-> store]
<1> DEFINE new == [a EXCEPT !.store = store]
<1>1. /\ new = [chunks |-> a.chunks, received |-> a.received, total |-> a.total,
                digest |-> a.digest, generations |-> a.generations, active |-> a.active,
                store |-> store]
      /\ new.chunks = a.chunks /\ new.received = a.received /\ new.total = a.total
      /\ new.digest = a.digest /\ new.generations = a.generations /\ new.active = a.active
      /\ new.store = store
  BY DEF Loose
<1> HIDE DEF new
<1>2. Loose(new, sents)
  BY <1>1 DEF Loose
<1> QED
  BY <1>1, <1>2 DEF new

\* Nor do chunks.
LEMMA LooseChunk ==
  ASSUME NEW sents, NEW a, Loose(a, sents), NEW index, NEW payload
  PROVE  /\ Loose(StoreChunk(a, index, payload), sents)
         /\ StoreChunk(a, index, payload) \in
               {a, [chunks |-> With(a.chunks, GlobalChunkId(a, index), payload),
                    received |-> a.received + 1, total |-> a.total,
                    digest |-> a.digest, generations |-> a.generations, active |-> a.active,
                    store |-> a.store]}
<1> DEFINE new == StoreChunk(a, index, payload)
           id == GlobalChunkId(a, index)
           chunks == With(a.chunks, id, payload)
<1>1. CASE id \in DOMAIN a.chunks
  BY <1>1 DEF StoreChunk
<1>2. CASE id \notin DOMAIN a.chunks
  <2>1. new = [a EXCEPT !.chunks = chunks, !.received = a.received + 1]
    BY <1>2 DEF StoreChunk
  <2>2. chunks = [c \in DOMAIN chunks |-> chunks[c]]
    BY DEF With
  <2> HIDE DEF chunks, new
  <2>3. /\ new = [chunks |-> chunks, received |-> a.received + 1, total |-> a.total,
                  digest |-> a.digest, generations |-> a.generations, active |-> a.active,
                  store |-> a.store]
        /\ new.chunks = chunks /\ new.received = a.received + 1 /\ new.total = a.total
        /\ new.digest = a.digest /\ new.generations = a.generations
        /\ new.active = a.active /\ new.store = a.store
    BY <2>1 DEF Loose
  <2>4. a.received + 1 \in Nat
    BY DEF Loose
  <2>5. Loose(new, sents)
    BY <2>2, <2>3, <2>4 DEF Loose
  <2> QED BY <2>3, <2>5 DEF new, chunks
<1> QED
  BY <1>1, <1>2

\* The chunks that materializing can put together.
LEMMA LooseMaterialized ==
  ASSUME NEW sents, NEW a, Loose(a, sents), NEW before, NEW state
  PROVE  Loose(Materialized(a, before, state), sents)
<1> DEFINE start == WithState(a, state)
           V == {start.chunks[c] : c \in DOMAIN start.chunks} \cup {state.known[i] : i \in 1..MaxSize}
           W == DOMAIN start.chunks \cup {GlobalChunkId(start, i) : i \in 1..MaxSize}
           C == UNION {[T -> V] : T \in SUBSET W}
           Full(c, r) == [chunks |-> c, received |-> r, total |-> start.total,
                          digest |-> start.digest, generations |-> start.generations,
                          active |-> start.active, store |-> start.store]
           D == {Full(c, r) : c \in C, r \in Nat}
<1>1. Loose(start, sents)
  BY LooseStore DEF WithState
<1> HIDE DEF start
<1>2. start \in D
  <2>1. start.chunks \in [DOMAIN start.chunks -> V] /\ DOMAIN start.chunks \in SUBSET W
    BY <1>1 DEF Loose
  <2> HIDE DEF V, W
  <2>2. start.chunks \in C
    BY <2>1
  <2>3. start = Full(start.chunks, start.received) /\ start.received \in Nat
    BY <1>1 DEF Loose
  <2> HIDE DEF C, Full
  <2> QED BY <2>2, <2>3
<1>3. ASSUME NEW b \in D
      PROVE  Loose(b, sents) /\ Alike(b, start) /\ b.chunks \in C /\ b.store = start.store
  <2>1. PICK c \in C, r \in Nat : b = Full(c, r)
    OBVIOUS
  <2>2. c = [x \in DOMAIN c |-> c[x]]
    BY <2>1
  <2> HIDE DEF C, D
  <2>3. /\ b.chunks = c /\ b.received = r /\ b.total = start.total /\ b.digest = start.digest
        /\ b.generations = start.generations /\ b.active = start.active /\ b.store = start.store
    BY <2>1
  <2>4. Loose(b, sents)
    BY <1>1, <2>1, <2>2, <2>3 DEF Loose
  <2> QED BY <2>1, <2>3, <2>4 DEF Alike
<1>4. ASSUME NEW b \in D, NEW k \in 1..MaxSize
      PROVE  StoreSymbol(b, k, state.known, before) \in D
  <2>1. CASE k \notin DOMAIN state.known \ DOMAIN before
    <3> HIDE DEF D
    <3> QED BY <2>1 DEF StoreSymbol
  <2>2. CASE k \in DOMAIN state.known \ DOMAIN before
    <3> DEFINE id == GlobalChunkId(b, k)
               chunks == With(b.chunks, id, state.known[k])
    <3>1. Loose(b, sents) /\ Alike(b, start) /\ b.chunks \in C /\ b.store = start.store
      BY <1>3
    <3>2. id = GlobalChunkId(start, k)
      BY <3>1 DEF Alike, GlobalChunkId, HasActive
    <3>3. id \in W /\ state.known[k] \in V
      BY <3>2
    <3> HIDE DEF D, W, V, id
    <3>4. chunks \in C
      <4>1. PICK T \in SUBSET W : b.chunks \in [T -> V]
        BY <3>1
      <4>2. chunks \in [T \cup {id} -> V]
        BY <3>3, <4>1 DEF With
      <4>3. T \cup {id} \in SUBSET W
        BY <3>3
      <4> QED BY <4>2, <4>3
    <3> HIDE DEF C, chunks
    <3>5. Full(chunks, b.received + 1) \in D
      <4>1. b.received + 1 \in Nat
        BY <3>1 DEF Loose
      <4> HIDE DEF Full
      <4> QED BY <3>4, <4>1 DEF D
    <3>6. StoreSymbol(b, k, state.known, before) = StoreChunk(b, k, state.known[k])
      BY <2>2 DEF StoreSymbol
    <3>7. StoreChunk(b, k, state.known[k]) \in {b, Full(chunks, b.received + 1)}
      BY <3>1, LooseChunk DEF Alike, chunks, id
    <3> QED BY <3>5, <3>6, <3>7
  <2> HIDE DEF D
  <2> QED BY <2>1, <2>2
<1> HIDE DEF D
<1>5. Materialized(a, before, state) \in D
  BY <1>2, <1>4, MaterializedStays DEF start
<1> QED
  BY <1>3, <1>5

\* Whatever is added: a digest came with a manifest.
LEMMA LooseAdd ==
  ASSUME NEW sents, NEW a, Loose(a, sents), NEW frame, Readable(frame, sents)
  PROVE  Loose(Add(a, frame), sents)
<1>1. CASE frame.kind = "manifest"
  <2>1. Add(a, frame) = AddManifest(a, frame)
    BY <1>1 DEF Add
  <2>2. CASE a.total # None
    BY <2>1, <2>2 DEF AddManifest
  <2>3. CASE a.total = None
    <3> DEFINE store == IF DOMAIN a.generations = {} THEN UpdateGenerationSize(a.store, 0, frame.total)
                        ELSE a.store
               new == [a EXCEPT !.total = frame.total, !.digest = frame.digest, !.store = store]
    <3>1. AddManifest(a, frame) = new
      BY <2>3 DEF AddManifest
    <3> HIDE DEF store
    <3>2. new = [chunks |-> a.chunks, received |-> a.received, total |-> frame.total,
                    digest |-> frame.digest, generations |-> a.generations,
                    active |-> a.active, store |-> store]
      <4>1. a = [chunks |-> a.chunks, received |-> a.received, total |-> a.total,
                 digest |-> a.digest, generations |-> a.generations, active |-> a.active,
                 store |-> a.store]
        BY DEF Loose
      <4>2. new = [a EXCEPT !.total = frame.total, !.digest = frame.digest, !.store = store]
        OBVIOUS
      <4> HIDE DEF new
      <4> QED BY <4>1, <4>2, TotalReplaced
    <3> HIDE DEF new
    <3>3. Loose(new, sents)
      BY <1>1, <3>2 DEF Loose, Readable
    <3> QED BY <2>1, <3>1, <3>3
  <2> QED BY <2>2, <2>3
<1>2. CASE frame.kind = "generation"
  <2> DEFINE generations == With(a.generations, frame.id, frame)
             store == UpdateGenerationSize(a.store, frame.id, frame.size)
             new == [a EXCEPT !.generations = generations, !.active = frame.id, !.store = store]
  <2>1. Add(a, frame) = new
    BY <1>2 DEF Add, AddGeneration
  <2> HIDE DEF generations, store
  <2>2. new = [chunks |-> a.chunks, received |-> a.received, total |-> a.total,
               digest |-> a.digest, generations |-> generations,
                  active |-> frame.id, store |-> store]
    <3>1. a = [chunks |-> a.chunks, received |-> a.received, total |-> a.total,
               digest |-> a.digest, generations |-> a.generations, active |-> a.active,
               store |-> a.store]
      BY DEF Loose
    <3>2. new = [a EXCEPT !.generations = generations, !.active = frame.id, !.store = store]
      OBVIOUS
    <3> HIDE DEF new
    <3> QED BY <3>1, <3>2, ActiveReplaced
  <2> HIDE DEF new
  <2>3. Loose(new, sents)
    BY <2>2 DEF Loose
  <2> QED BY <2>1, <2>3
<1>3. CASE frame.kind = "systematic"
  <2>1. PICK state :
           Add(a, frame) \in {WithState(a, state),
                              StoreChunk(WithState(a, state), frame.index, frame.payload)}
    BY <1>3 DEF Add, AddSystematic
  <2>2. Loose(WithState(a, state), sents)
    BY LooseStore DEF WithState
  <2> QED BY <2>1, <2>2, LooseChunk
<1>4. CASE frame.kind = "coded"
  <2>1. CASE ~AcceptsCoded(a)
    <3> DEFINE store == GetOrCreate(a.store, a.active, DefaultGenerationSize(a))
    <3>1. Add(a, frame) = [a EXCEPT !.store = store]
      BY <1>4, <2>1 DEF Add, AddCoded
    <3> HIDE DEF store
    <3>2. Loose([a EXCEPT !.store = store], sents)
      BY LooseStore
    <3> QED BY <3>1, <3>2
  <2>2. CASE AcceptsCoded(a)
    <3>1. PICK before, state :
             Add(a, frame) \in {WithState(a, StateFor(a)), Materialized(a, before, state)}
      BY <1>4, <2>2 DEF Add, AddCoded
    <3>2. Loose(WithState(a, StateFor(a)), sents)
      BY LooseStore DEF WithState
    <3> QED BY <3>1, <3>2, LooseMaterialized
  <2> QED BY <2>1, <2>2
<1>5. CASE frame.kind = "end"
  BY <1>5 DEF Add
<1> QED
  BY <1>1, <1>2, <1>3, <1>4, <1>5 DEF Readable

Sents == {setup.plans[b].payload : b \in DOMAIN setup.plans}

FramesOfEpoch(plan) == {Epoch(plan)[p] : p \in 1..Len(Epoch(plan))}

KnownFrames == UNION {FramesOfEpoch(setup.plans[b]) : b \in DOMAIN setup.plans}

\* What can be captured or was recorded, and what the assembler makes of it.
RInv ==
    /\ \E b \in DOMAIN setup.plans : stream = Epoch(setup.plans[b])
    /\ build \in DOMAIN setup.plans /\ position \in 1..Len(stream)
    /\ flight \in Seq(KnownFrames)
    /\ recording \in {<<>>, setup.recorded}
    /\ Loose(asm, Sents)

\* The main thread reports once.
VInv ==
    /\ runner \in {"starting", "testing", "watching", "stopping", "joining", "exiting", "exited"}
    /\ verdict \in Verdicts \cup {None}
    /\ runner \in {"starting", "testing", "watching"} => verdict = None
    /\ verdict = "ok" => restored \in Sents
    /\ verdict # "ok" => restored = None

\* The plans of a session.
LEMMA PlansType ==
  ASSUME setup \in Setups
  PROVE  /\ DOMAIN setup.plans = 1..Len(setup.plans) /\ Len(setup.plans) \in Nat \ {0}
         /\ \A b \in DOMAIN setup.plans : setup.plans[b] \in Plans /\ setup.plans[b].payload # None
         /\ setup.joins \subseteq DOMAIN Epoch(setup.plans[1])
         /\ setup.recorded \in Seq(Recorded) /\ setup.lanes \in Nat \ {0}
<1>1. setup.plans \in Seq(Plans) /\ setup.plans # <<>>
      /\ setup.joins \subseteq DOMAIN Epoch(setup.plans[1]) /\ setup.lanes \in Nat \ {0}
  BY SetupsAssumption
<1>2. DOMAIN setup.plans = 1..Len(setup.plans) /\ Len(setup.plans) \in Nat
  BY <1>1, LenProperties
<1>3. Len(setup.plans) # 0
  BY <1>1, EmptySeq
<1>4. \A b \in DOMAIN setup.plans : setup.plans[b] \in Plans
  BY <1>1, <1>2, ElementOfSeq
<1>5. /\ setup.recorded \in Seq(Recorded)
      /\ \A b \in DOMAIN setup.plans : setup.plans[b].payload # None
  BY SessionAssumption
<1> QED
  BY <1>1, <1>2, <1>3, <1>4, <1>5

\* Every frame of an epoch can be read.
LEMMA EpochReadable ==
  ASSUME setup \in Setups, NEW frame \in KnownFrames
  PROVE  Readable(frame, Sents)
<1>1. PICK b \in DOMAIN setup.plans : frame \in FramesOfEpoch(setup.plans[b])
  BY DEF KnownFrames
<1> DEFINE plan == setup.plans[b]  n == Len(Epoch(plan))
<1>2. plan \in Plans /\ plan.payload \in Sents
  BY <1>1, PlansType DEF Sents
<1> HIDE DEF plan
<1>3. PICK p \in 1..n : frame = Epoch(plan)[p]
  BY <1>1 DEF FramesOfEpoch, plan
<1>4. CASE p = 1
  <2>1. frame = Manifest(plan)
    BY <1>2, <1>3, <1>4, FrameAt
  <2> QED BY <1>2, <2>1 DEF Manifest, Readable
<1>5. CASE p = n
  <2>1. frame = [kind |-> "end"]
    BY <1>2, <1>3, <1>5, FrameAt
  <2> QED BY <2>1 DEF Readable
<1>6. CASE p # 1 /\ p # n
  <2>1. n \in Nat
    BY <1>2, FrameAt
  <2>2. p \in 2..n - 1
    BY <1>6, <2>1
  <2> DEFINE g == OwnerOf(plan)[p] - 1
  <2>3. frame = GenerationControl(plan, Gen(plan, g)) \/ UnitOf(frame, Gen(plan, g))
    BY <1>2, <1>3, <2>2, FrameAt
  <2> HIDE DEF g
  <2>4. frame.kind \in {"generation", "systematic", "coded"}
    BY <2>3 DEF GenerationControl, UnitOf
  <2> QED BY <2>4 DEF Readable
<1> QED
  BY <1>4, <1>5, <1>6

\* What was recorded and can be read is a frame of an epoch.
LEMMA RecordedKnown ==
  ASSUME setup \in Setups, NEW i \in DOMAIN setup.recorded, setup.recorded[i].legible = "yes"
  PROVE  setup.recorded[i].frame \in KnownFrames
<1>1. PICK b \in DOMAIN setup.plans : setup.recorded[i].frame \in Range(Epoch(setup.plans[b]))
  BY SessionAssumption
<1>2. DOMAIN Epoch(setup.plans[b]) = 1..Len(Epoch(setup.plans[b]))
  BY PlansType, FrameAt
<1>3. setup.recorded[i].frame \in FramesOfEpoch(setup.plans[b])
  BY <1>1, <1>2 DEF Range, FramesOfEpoch
<1> QED
  BY <1>3 DEF KnownFrames

\* At first nothing was received and nothing restored.
LEMMA RestoreInit ==
  ASSUME SessionInit
  PROVE  RInv /\ VInv
<1>1. /\ setup \in Setups /\ build = 1 /\ stream = Epoch(setup.plans[1]) /\ position \in setup.joins
      /\ flight = <<>> /\ asm = EmptyAssembler /\ recording = <<>>
      /\ runner = "starting" /\ verdict = None /\ restored = None
  BY DEF SessionInit, Init, ReplayInit
<1>2. 1 \in DOMAIN setup.plans /\ setup.plans[1] \in Plans
      /\ setup.joins \subseteq DOMAIN Epoch(setup.plans[1])
  BY <1>1, PlansType
<1>3. position \in 1..Len(stream)
  BY <1>1, <1>2, FrameAt
<1>4. flight \in Seq(KnownFrames)
  BY <1>1, EmptySeq
<1>5. Loose(asm, Sents)
  <2> DEFINE a == EmptyAssembler
  <2>1. /\ a.chunks = <<>> /\ a.received = 0 /\ a.total = None
        /\ a = [chunks |-> a.chunks, received |-> a.received, total |-> a.total,
                digest |-> a.digest, generations |-> a.generations, active |-> a.active,
                store |-> a.store]
    BY DEF EmptyAssembler
  <2>2. <<>> = [c \in DOMAIN <<>> |-> <<>>[c]]
    OBVIOUS
  <2> HIDE DEF a
  <2>3. Loose(a, Sents)
    BY <2>1, <2>2 DEF Loose
  <2> QED BY <1>1, <2>3 DEF a
<1>6. verdict # "ok"
  BY <1>1, SessionAssumption DEF Verdicts
<1> QED
  BY <1>1, <1>2, <1>3, <1>4, <1>5, <1>6 DEF RInv, VInv

\* What a step of a session over recorded frames does outside the replay.
LEMMA StepOfRecording ==
  ASSUME setup \in Setups, [SessionNext]_sessionVars
  PROVE  /\ setup' = setup /\ recording' \in {recording, setup.recorded}
         /\ setup.source = "replay" => UNCHANGED transferVars
<1>1. CASE ScreenStep
  <2>1. setup' = setup
    BY <1>1 DEF ScreenStep, Next, Show, Reset, Capture, Deliver
  <2> QED BY <1>1, <2>1 DEF ScreenStep, ScreenRuns
<1>2. CASE ReplayStep
  <2>1. recording' = recording
    BY <1>2 DEF ReplayStep, ThreadStep, SequentialRead, SequentialDecode, Read, ReadOn, Collect,
           Commit, CommitsDone, Drained, PutSentinel, Close, WorkerStep, Take, Finish, Die,
           Terminate, workerUnchanged
  <2> QED BY <1>2, <2>1 DEF ReplayStep, transferVars
<1>3. CASE Tick \/ Rest \/ UNCHANGED sessionVars
  BY <1>3 DEF Tick, Rest, sessionVars, transferVars, replayVars
<1>4. CASE StartPipeline
  BY <1>4 DEF StartPipeline, Start, transferVars, replayVars
<1>5. CASE Test \/ Watch \/ Restore \/ Join \/ Exit
  BY <1>5 DEF Test, Watch, Restore, Join, Exit, pipelineVars, transferVars, replayVars
<1>6. CASE Interrupt \/ StopPipeline
  BY <1>6 DEF Interrupt, StopPipeline, transferVars
<1> QED
  BY <1>1, <1>2, <1>3, <1>4, <1>5, <1>6 DEF SessionNext, RunnerStep

\* How many frames of the recording the assembler was given.
Upto == IF Complete(asm) THEN committed + 1 ELSE committed

\* What the replay gives the assembler.
LEMMA StepOfAssembler ==
  ASSUME SInv, setup.source = "replay", [SessionNext]_sessionVars
  PROVE  /\ committed \in Nat /\ Upto \in Nat
         /\ \/ asm' = asm /\ Upto' = Upto
            \/ /\ ~Complete(asm) /\ Upto + 1 \in 1..Len(recording) /\ Upto' = Upto + 1
               /\ asm' = Given(asm, recording[Upto + 1])
<1>1. IInv /\ setup \in Setups
  BY DEF SInv
<1>2. committed \in Nat /\ Len(recording) \in Nat
  BY <1>1, Sizes DEF IInv
<1>3. \/ ThreadStep
      \/ \E w \in Workers : WorkerStep(w) \/ Die(w) \/ Terminate(w)
      \/ UNCHANGED <<committed, asm>>
  BY <1>1, StepOfReplay DEF Start, assemblyVars, replayVars
<1>4. [Ordered!Commit]_(Ordered!vars)
  BY <1>1, <1>3, PipelineInOrder, NoCommit
<1>5. Upto \in Nat
  BY <1>2 DEF Upto
<1>6. \/ asm' = asm /\ Upto' = Upto
      \/ /\ Upto < Len(recording) /\ ~Complete(asm) /\ Upto' = Upto + 1
         /\ asm' = Given(asm, recording[Upto + 1])
  BY <1>4 DEF Ordered!Commit, Ordered!vars, Upto
<1> QED
  BY <1>2, <1>5, <1>6

\* Every step keeps what was received among what was sent.
LEMMA RestoreStep ==
  ASSUME SInv, RInv, [SessionNext]_sessionVars
  PROVE  RInv'
<1>1. setup' = setup /\ setup \in Setups /\ recording' \in {recording, setup.recorded}
  BY StepOfRecording DEF SInv
<1>2. Sents' = Sents /\ KnownFrames' = KnownFrames
  BY <1>1 DEF Sents, KnownFrames
<1>3. recording' \in {<<>>, setup'.recorded}
  BY <1>1 DEF RInv
<1>4. CASE setup.source = "replay"
  <2>1. UNCHANGED <<setup, build, stream, position, flight>>
    BY <1>1, <1>4, StepOfRecording DEF transferVars
  <2>2. Loose(asm', Sents)
    <3>1. CASE asm' = asm
      BY <3>1 DEF RInv
    <3>2. CASE Upto + 1 \in 1..Len(recording) /\ asm' = Given(asm, recording[Upto + 1])
      <4> DEFINE item == recording[Upto + 1]
      <4>1. recording = setup.recorded
        <5>1. recording # <<>>
          <6>1. Len(<<>>) = 0
            BY EmptySeq
          <6> QED BY <3>2, <6>1
        <5> QED BY <5>1 DEF RInv
      <4>2. DOMAIN recording = 1..Len(recording)
        BY <1>1, <4>1, PlansType, LenProperties
      <4>3. item.legible = "yes" => Readable(item.frame, Sents)
        BY <1>1, <3>2, <4>1, <4>2, RecordedKnown, EpochReadable
      <4> HIDE DEF item
      <4>4. asm' = Given(asm, item) /\ Loose(asm, Sents)
        BY <3>2 DEF item, RInv
      <4> QED BY <4>3, <4>4, LooseAdd DEF Given
    <3> QED BY <1>4, <3>1, <3>2, StepOfAssembler
  <2> QED BY <1>1, <1>2, <1>3, <2>1, <2>2 DEF RInv
<1>5. CASE setup.source # "replay"
  <2>1. CASE UNCHANGED <<transferVars, asm, error>>
    <3>1. UNCHANGED <<build, stream, position, flight, asm>>
      BY <2>1 DEF transferVars
    <3> QED BY <1>1, <1>2, <1>3, <3>1 DEF RInv
  <2>2. PICK b \in DOMAIN setup.plans : stream = Epoch(setup.plans[b])
    BY DEF RInv
  <2>3. /\ Len(stream) \in Nat /\ Len(stream) >= 2 /\ DOMAIN stream = 1..Len(stream)
        /\ build \in 1..Len(setup.plans) /\ Len(setup.plans) \in Nat
        /\ DOMAIN setup.plans = 1..Len(setup.plans) /\ position \in 1..Len(stream)
        /\ flight \in Seq(KnownFrames) /\ Loose(asm, Sents)
    BY <1>1, <2>2, PlansType, FrameAt DEF RInv
  <2>4. ASSUME NEW c \in DOMAIN setup.plans
        PROVE  1 \in 1..Len(Epoch(setup.plans[c]))
    <3>1. Len(Epoch(setup.plans[c])) \in Nat /\ Len(Epoch(setup.plans[c])) >= 2
      BY <1>1, PlansType, FrameAt
    <3> QED BY <3>1
  <2>5. Rebuild => /\ build' \in DOMAIN setup.plans
                   /\ \E c \in DOMAIN setup.plans : stream' = Epoch(setup.plans[c])
                   /\ 1 \in 1..Len(stream')
    <3> SUFFICES ASSUME Rebuild
                 PROVE  /\ build' \in DOMAIN setup.plans
                        /\ \E c \in DOMAIN setup.plans : stream' = Epoch(setup.plans[c])
                        /\ 1 \in 1..Len(stream')
      OBVIOUS
    <3>1. CASE build < Len(setup.plans) /\ build' = build + 1 /\ stream' = Epoch(setup.plans[build'])
      <4>1. build' \in DOMAIN setup.plans
        BY <2>3, <3>1
      <4> QED BY <2>4, <3>1, <4>1
    <3>2. CASE UNCHANGED <<build, stream>>
      BY <2>2, <2>3, <2>4, <3>2
    <3> QED BY <3>1, <3>2 DEF Rebuild
  <2>6. CASE Show
    <3>1. UNCHANGED <<flight, asm>>
      BY <2>6 DEF Show
    <3>2. CASE position < Len(stream)
      <4>1. position' = position + 1 /\ UNCHANGED <<build, stream>>
        BY <2>6, <3>2 DEF Show
      <4>2. position' \in 1..Len(stream')
        BY <2>3, <3>2, <4>1
      <4> QED BY <1>1, <1>2, <1>3, <2>2, <2>3, <3>1, <4>1, <4>2 DEF RInv
    <3>3. CASE ~(position < Len(stream))
      <4>1. position' = 1 /\ Rebuild
        BY <2>6, <3>3 DEF Show
      <4> QED BY <1>1, <1>2, <1>3, <2>3, <2>5, <3>1, <4>1 DEF RInv
    <3> QED BY <3>2, <3>3
  <2>7. CASE Reset
    <3>1. UNCHANGED <<flight, asm>> /\ position' = 1 /\ Rebuild
      BY <2>7 DEF Reset
    <3> QED BY <1>1, <1>2, <1>3, <2>3, <2>5, <3>1 DEF RInv
  <2>8. CASE Capture
    <3>1. UNCHANGED <<build, stream, position, asm>> /\ flight' = Append(flight, stream[position])
      BY <2>8 DEF Capture
    <3>2. stream[position] \in KnownFrames
      <4> DEFINE epoch == Epoch(setup.plans[b])
      <4>1. stream = epoch /\ position \in 1..Len(epoch)
        BY <2>2, <2>3
      <4>2. epoch[position] \in FramesOfEpoch(setup.plans[b])
        BY <4>1 DEF FramesOfEpoch
      <4> HIDE DEF epoch
      <4> QED BY <4>1, <4>2 DEF KnownFrames
    <3>3. flight' \in Seq(KnownFrames)
      BY <2>3, <3>1, <3>2, AppendProperties
    <3> QED BY <1>1, <1>2, <1>3, <2>2, <2>3, <3>1, <3>3 DEF RInv
  <2>9. CASE \E lane \in DOMAIN flight : Deliver(lane)
    <3>1. PICK lane \in DOMAIN flight : Deliver(lane)
      BY <2>9
    <3>2. /\ UNCHANGED <<build, stream, position>> /\ flight' = RemoveAt(flight, lane)
          /\ asm' = asm \/ asm' = Add(asm, flight[lane])
      BY <3>1 DEF Deliver
    <3>3. lane \in 1..Len(flight) /\ flight[lane] \in KnownFrames
      BY <2>3, LenProperties, ElementOfSeq
    <3>4. flight' \in Seq(KnownFrames)
      BY <2>3, <3>2, <3>3, RemovedOne
    <3>5. Loose(asm', Sents)
      BY <1>1, <2>3, <3>2, <3>3, EpochReadable, LooseAdd
    <3> QED BY <1>1, <1>2, <1>3, <2>2, <2>3, <3>2, <3>4, <3>5 DEF RInv
  <2> QED BY <1>5, <2>1, <2>6, <2>7, <2>8, <2>9, StepOfTransfer DEF Next
<1> QED
  BY <1>4, <1>5

\* A payload is restored only when its digest matched.
LEMMA VerdictStep ==
  ASSUME setup \in Setups, RInv, VInv, [SessionNext]_sessionVars
  PROVE  VInv'
<1>1. setup' = setup /\ Sents' = Sents
  BY StepOfRecording DEF Sents
<1>2. CASE ScreenStep \/ ReplayStep \/ Tick \/ Rest \/ UNCHANGED sessionVars
  <2>1. UNCHANGED <<runner, verdict, restored>>
    BY <1>2 DEF ScreenStep, ReplayStep, Tick, Rest, sessionVars, runnerVars
  <2> QED BY <1>1, <2>1 DEF VInv
<1>3. CASE StartPipeline \/ Watch \/ StopPipeline \/ Join \/ Exit
  <2>1. UNCHANGED <<verdict, restored>>
        /\ \/ runner' = "testing" /\ runner \in {"starting", "watching"}
           \/ runner' \in {"joining", "exiting", "exited"}
    BY <1>3 DEF StartPipeline, Watch, StopPipeline, Join, Exit
  <2> QED BY <1>1, <2>1 DEF VInv
<1>4. CASE Test \/ Interrupt
  <2>1. /\ UNCHANGED restored /\ runner \in {"testing", "watching"}
        /\ \/ runner' = "stopping" /\ verdict' \in {"error", "timeout_idle", "aborted"}
           \/ runner' = "watching" /\ UNCHANGED verdict
    BY <1>4 DEF Test, Interrupt, Leave
  <2>2. verdict = None /\ None # "ok"
    BY <2>1, SessionAssumption DEF VInv, Verdicts
  <2> QED BY <1>1, <2>1, <2>2 DEF VInv, Verdicts
<1>5. CASE Restore
  <2>1. Complete(asm) /\ runner = "testing" /\ runner' = "stopping"
    BY <1>5 DEF Restore, Leave
  <2>2. verdict = None /\ None # "ok"
    BY <2>1, SessionAssumption DEF VInv, Verdicts
  <2>3. asm.digest \in Sents
    BY <2>1 DEF Complete, RInv, Loose
  <2>4. \/ verdict' = "error" /\ UNCHANGED restored
        \/ verdict' = "ok" /\ restored' = asm.digest
    BY <1>5 DEF Restore, Leave
  <2> QED BY <1>1, <2>1, <2>2, <2>3, <2>4 DEF VInv, Verdicts
<1> QED
  BY <1>2, <1>3, <1>4, <1>5 DEF SessionNext, RunnerStep

\* What was received, and what is restored, was always sent.
LEMMA RestoreInvariant == SessionSpec => [](SInv /\ RInv /\ VInv)
<1>1. SessionInit => SInv /\ RInv /\ VInv
  BY SessionInitOK, RestoreInit
<1>2. SInv /\ RInv /\ VInv /\ [SessionNext]_sessionVars => (SInv /\ RInv /\ VInv)'
  <2> SUFFICES ASSUME SInv, RInv, VInv, [SessionNext]_sessionVars
               PROVE  SInv' /\ RInv' /\ VInv'
    OBVIOUS
  <2> QED BY SessionStepOK, RestoreStep, VerdictStep DEF SInv
<1> QED
  BY <1>1, <1>2, PTL DEF SessionSpec

\* However frames are lost, repeated, reordered, mixed from two builds of the stream
\* or assembled in the wrong place, by whatever pipeline: what the program restores
\* is a payload that the sender showed (the digest in restore_payload).
THEOREM SessionRestoresWhatWasSent == SessionSpec => []RestoredIsSent
<1>1. VInv => RestoredIsSent
  BY DEF VInv, RestoredIsSent, Sents
<1> QED
  BY <1>1, RestoreInvariant, PTL

-----------------------------------------------------------------------------
(* The types.                                                                *)

\* A replay that never starts, beside a pipeline over the screen.
Still ==
    /\ recording = <<>> /\ sequence = 0 /\ committed = 0 /\ decodeOk = 0 /\ sentinels = 0
    /\ exhausted = FALSE /\ parallel \in BOOLEAN /\ stop \in BOOLEAN /\ error \in BOOLEAN

TInv ==
    /\ setup.source # "replay" => Still
    /\ polled \in BOOLEAN

\* The types hold at first.
LEMMA TypeInit == SessionInit => TInv
BY DEF SessionInit, Init, ReplayInit, TInv, Still

\* What a step of a session over the screen leaves of the replay.
LEMMA StillStep ==
  ASSUME SInv, setup.source # "replay", Still, [SessionNext]_sessionVars
  PROVE  Still'
<1>1. CASE ScreenStep
  <2>1. stop' \in BOOLEAN /\ error' \in BOOLEAN
    BY <1>1 DEF ScreenStep, Next, Show, Reset, Capture, Deliver, Complete, Still
  <2> QED BY <1>1, <2>1 DEF ScreenStep, poolVars, Still
<1>2. CASE ReplayStep
  <2>1. Untouched
    BY DEF SInv
  <2>2. ~ThreadStep
    BY <2>1 DEF Untouched, ThreadStep, SequentialRead, SequentialDecode, Read, ReadOn, Collect,
           Commit, CommitsDone, Drained, PutSentinel, Close
  <2>3. \A w \in Workers : working[w] = Gone
    BY <2>1 DEF Untouched, NoPool
  <2>4. \A w \in Workers : ~WorkerStep(w) /\ ~Die(w) /\ ~Terminate(w)
    BY <2>3 DEF WorkerStep, Take, Finish, Die, Terminate, Idle, Gone
  <2> QED BY <1>2, <2>2, <2>4 DEF ReplayStep
<1>3. CASE Tick \/ Rest \/ UNCHANGED sessionVars
  BY <1>3 DEF Tick, Rest, sessionVars, replayVars, Still
<1>4. CASE StartPipeline
  <2>1. setup.source = "screen"
    BY SessionAssumption DEF SInv
  <2> QED BY <1>4, <2>1 DEF StartPipeline, replayVars, Still
<1>5. CASE Test \/ Watch \/ Restore \/ Join \/ Exit
  BY <1>5 DEF Test, Watch, Restore, Join, Exit, pipelineVars, replayVars, Still
<1>6. CASE Interrupt \/ StopPipeline
  BY <1>6 DEF Interrupt, StopPipeline, assemblyVars, poolVars, Still
<1> QED
  BY <1>1, <1>2, <1>3, <1>4, <1>5, <1>6 DEF SessionNext, RunnerStep

\* Every step keeps the types.
LEMMA TypeStep ==
  ASSUME SInv, TInv, [SessionNext]_sessionVars
  PROVE  TInv'
<1>1. setup' = setup
  BY StepOfRecording DEF SInv
<1>2. polled' \in BOOLEAN
  BY DEF TInv, SessionNext, RunnerStep, ScreenStep, ReplayStep, Tick, Rest, StartPipeline, Test,
         Watch, Restore, Join, Exit, Interrupt, StopPipeline, sessionVars, clockVars
<1>3. setup.source # "replay" => Still'
  BY StillStep DEF TInv
<1> QED
  BY <1>1, <1>2, <1>3 DEF TInv

\* The types of a transfer, of its solvers too.
LEMMA OrderlyTypes ==
  ASSUME OInv
  PROVE  TypeOK
<1> DEFINE plan == setup.plans[1]
           S == {stream[p] : p \in 1..Len(stream)}
<1>1. /\ plan \in Plans /\ stream = Epoch(plan) /\ position \in 1..Len(stream)
      /\ flight \in Seq(S) /\ Len(flight) <= setup.lanes /\ AsmOK(asm, plan)
  BY OnePlan DEF OInv
<1> HIDE DEF plan
<1>2. DOMAIN stream = 1..Len(stream)
  BY <1>1, FrameAt
<1>3. \A f \in Range(flight) : f \in Range(stream)
  <2>1. \A f \in Range(flight) : f \in S
    <3> HIDE DEF S
    <3> QED BY <1>1, LenProperties, ElementOfSeq DEF Range
  <2> QED BY <1>2, <2>1 DEF Range
<1>4. /\ asm.received \in Nat /\ asm.total \in {None, Len(Sent)}
      /\ asm.active \in 0..Len(GenerationPlans(plan)) - 1
  BY <1>1, FieldsOf DEF Sent, plan, Ids
<1>5. \A c \in DOMAIN asm.chunks : asm.chunks[c] \in PayloadChunk
  BY <1>1, FieldsOf DEF ChunkMaps
<1>6. ASSUME NEW g \in DOMAIN asm.store
      PROVE  /\ asm.store[g].systematic \subseteq DOMAIN asm.store[g].known
             /\ asm.store[g].solvable \in BOOLEAN
             /\ asm.store[g].rank <= Cardinality(DOMAIN asm.store[g].equations)
  <2>1. SolverOK(asm.store[g], Gen(plan, g)) /\ g \in Ids(plan)
    BY <1>1 DEF AsmOK, StoreOK, StoreMaps
  <2>2. Gen(plan, g) \in Generations
    BY <1>1, <2>1, GenType
  <2>3. PICK v \in Vectors : SoundState(asm.store[g], v)
    BY <2>1, <2>2, StateOfGeneration
  <2> QED BY <2>3 DEF SoundState, SolverStates
<1> QED
  BY <1>1, <1>3, <1>4, <1>5, <1>6 DEF TypeOK, plan

\* Every variable of a session keeps its type; in an orderly one the assembler and
\* the solvers do too, and no solver claims a rank above its number of equations.
THEOREM SessionTypes == SessionSpec => []SessionTypeOK
<1>1. SInv /\ TInv /\ (setup.source # "replay" => Untouched) => ReplayTypeOK
  <2> SUFFICES ASSUME SInv, TInv PROVE ReplayTypeOK
    OBVIOUS
  <2>1. CASE setup.source = "replay"
    BY <2>1 DEF SInv, IInv
  <2>2. CASE setup.source # "replay"
    <3>1. Still /\ Untouched
      BY <2>2 DEF SInv, TInv
    <3>2. <<>> \in Seq(Frames \cup {Sentinel}) /\ <<>> \in Seq(Frames) /\ Len(<<>>) = 0
      BY EmptySeq
    <3>3. Cardinality(Workers) \in Nat
      BY PoolAssumption, FS_CardinalityType
    <3>4. /\ sequence \in 0..Len(recording) /\ committed \in 0..sequence
          /\ sentinels \in 0..Cardinality(Workers) /\ decodeOk \in 0..sequence
          /\ pending \in 0..MaxPending /\ deaths \in 0..MaxDeaths
      BY <3>1, <3>2, <3>3, PoolAssumption DEF Still, Untouched, NoPool
    <3>5. working \in [Workers -> Frames \cup {Idle, Gone}] /\ held \subseteq Frames
      BY <3>1 DEF Untouched, NoPool
    <3>6. /\ tasks \in Seq(Frames \cup {Sentinel}) /\ Len(tasks) <= MaxPending
          /\ results \in Seq(Frames)
      BY <3>1, <3>2, PoolAssumption DEF Untouched, NoPool
    <3> QED BY <3>1, <3>4, <3>5, <3>6 DEF ReplayTypeOK, Still, Untouched
  <2> QED BY <2>1, <2>2
<1>2. SInv /\ VInv => (verdict = "ok" <=> restored # None)
  <2>1. setup \in Setups => \A p \in Sents : p # None
    BY PlansType DEF Sents
  <2> QED BY <2>1 DEF SInv, VInv
<1>3. ClockOK => {idle, round, quiet} \subseteq 0..MaxIdle + 1
  BY DEF ClockOK
<1>4. SInv /\ TInv /\ VInv /\ ClockOK /\ (Orderly => OInv) => SessionTypeOK
  BY <1>1, <1>2, <1>3, OrderlyTypes DEF SessionTypeOK, SInv, TInv, VInv
<1>5. SessionSpec => [](SInv /\ TInv)
  <2>1. SInv /\ TInv /\ [SessionNext]_sessionVars => (SInv /\ TInv)'
    <3> SUFFICES ASSUME SInv, TInv, [SessionNext]_sessionVars PROVE SInv' /\ TInv'
      OBVIOUS
    <3> QED BY SessionStepOK, TypeStep
  <2> QED BY <2>1, SessionInitOK, TypeInit, PTL DEF SessionSpec
<1>6. SessionSpec => []ClockOK
  BY ClockInit, ClockStep, PTL DEF SessionSpec
<1> QED
  BY <1>4, <1>5, <1>6, OrderlyInvariant, RestoreInvariant, PTL

-----------------------------------------------------------------------------
(* A recording of a whole epoch of one generation.                           *)

\* What the assembler keeps of a frame it was given.
Kept(frame, a) ==
    /\ frame.kind = "manifest" => a.total # None
    /\ frame.kind = "systematic" => frame.chunk \in DOMAIN a.chunks

WInv ==
    LET plan == setup.plans[1]
    IN  /\ AsmOK(asm, plan) /\ error = FALSE
        /\ thread = "unstarted" => Upto = 0
        /\ thread # "unstarted" => recording = setup.recorded
        /\ \A k \in 1..Upto : k \in 1..Len(recording) /\ Kept(recording[k].frame, asm)

\* The one plan of a dump.
LEMMA PlanOfDump ==
  ASSUME setup \in Setups, WholeDump
  PROVE  /\ setup.plans[1] \in Plans /\ OneGeneration(setup.plans[1])
         /\ setup.source = "replay" /\ None # Len(setup.plans[1].payload)
<1>1. setup.plans[1] \in Plans
  <2>1. 1 \in DOMAIN setup.plans
    BY PlansType DEF WholeDump
  <2> QED BY <2>1, PlansType
<1>2. Len(setup.plans[1].payload) \in Nat
  BY <1>1, LenProperties DEF Plans
<1> QED
  BY <1>1, <1>2, NoneAssumption DEF WholeDump

\* Every frame of the dump is a frame of the epoch, and the other way about.
LEMMA FramesOfDump ==
  ASSUME setup \in Setups, WholeDump
  PROVE  /\ Len(setup.recorded) \in Nat
         /\ \A i \in 1..Len(setup.recorded) :
               /\ setup.recorded[i].legible = "yes"
               /\ \E p \in 1..Len(Epoch(setup.plans[1])) :
                     setup.recorded[i].frame = Epoch(setup.plans[1])[p]
         /\ \A p \in 1..Len(Epoch(setup.plans[1])) : \E i \in 1..Len(setup.recorded) :
               setup.recorded[i].frame = Epoch(setup.plans[1])[p]
<1> DEFINE epoch == Epoch(setup.plans[1])  dump == setup.recorded
<1>1. DOMAIN epoch = 1..Len(epoch)
  BY PlanOfDump, FrameAt
<1>2. DOMAIN dump = 1..Len(dump) /\ Len(dump) \in Nat
  BY PlansType, LenProperties
<1>3. /\ \A i \in DOMAIN dump : dump[i].legible = "yes"
      /\ {epoch[p] : p \in DOMAIN epoch} = {dump[i].frame : i \in DOMAIN dump}
  BY DEF WholeDump, Range
<1> HIDE DEF epoch, dump
<1>4. /\ \A i \in DOMAIN dump : \E p \in DOMAIN epoch : dump[i].frame = epoch[p]
      /\ \A p \in DOMAIN epoch : \E i \in DOMAIN dump : dump[i].frame = epoch[p]
  BY <1>3
<1>5. /\ Len(dump) \in Nat
      /\ \A i \in 1..Len(dump) :
            dump[i].legible = "yes" /\ \E p \in 1..Len(epoch) : dump[i].frame = epoch[p]
      /\ \A p \in 1..Len(epoch) : \E i \in 1..Len(dump) : dump[i].frame = epoch[p]
  BY <1>1, <1>2, <1>3, <1>4
<1> QED
  BY <1>5 DEF epoch, dump

\* When the replay begins, and what may fail it.
LEMMA StepOfThread ==
  ASSUME SInv, setup.source = "replay", [SessionNext]_sessionVars
  PROVE  /\ thread = "unstarted" => UNCHANGED <<asm, committed>>
         /\ thread' # "unstarted" =>
               recording' = IF thread = "unstarted" THEN setup.recorded ELSE recording
         /\ thread' = "unstarted" => thread = "unstarted"
         /\ \/ error' = error
            \/ error' = (NextFile = "unloadable")
            \/ error' = TRUE /\ NextFile = "unloadable"
            \/ \E i \in 1..Len(recording) : error' = (error \/ Refused(recording[i]))
<1>1. CASE ScreenStep
  BY <1>1 DEF ScreenStep, ScreenRuns
<1>2. CASE ReplayStep
  <2>1. recording' = recording
    BY <1>2 DEF ReplayStep, ThreadStep, SequentialRead, SequentialDecode, Read, ReadOn, Collect,
           Commit, CommitsDone, Drained, PutSentinel, Close, WorkerStep, Take, Finish, Die,
           Terminate, workerUnchanged
  <2>2. CASE \E w \in Workers : WorkerStep(w) \/ Die(w) \/ Terminate(w)
    <3>1. UNCHANGED <<thread, asm, committed, error>>
      BY <2>2 DEF WorkerStep, Take, Finish, Die, Terminate, workerUnchanged, assemblyVars
    <3> QED BY <2>1, <3>1
  <2>3. CASE SequentialRead
    BY <2>1, <2>3 DEF SequentialRead
  <2>4. CASE SequentialDecode
    BY <2>1, <2>4 DEF SequentialDecode
  <2>5. CASE Read
    BY <2>1, <2>5 DEF Read
  <2>6. CASE Commit
    <3>1. NextHeld \in 1..Len(recording)
      BY <2>6 DEF SInv, IInv, ReplayTypeOK, Frames, Commit, NextHeld
    <3>2. /\ error' = (error \/ Refused(recording[NextHeld]))
          /\ thread = "committing" /\ thread' # "unstarted"
      BY <2>6 DEF Commit
    <3> QED BY <2>1, <3>1, <3>2
  <2>7. CASE ReadOn \/ Collect \/ CommitsDone \/ Drained \/ PutSentinel \/ Close
    BY <2>1, <2>7 DEF ReadOn, Collect, CommitsDone, Drained, PutSentinel, Close
  <2> QED BY <1>2, <2>2, <2>3, <2>4, <2>5, <2>6, <2>7 DEF ReplayStep, ThreadStep
<1>3. CASE Tick \/ Rest \/ UNCHANGED sessionVars
  BY <1>3 DEF Tick, Rest, sessionVars, replayVars
<1>4. CASE StartPipeline
  BY <1>4 DEF StartPipeline, Start, replayVars, assemblyVars
<1>5. CASE Test \/ Watch \/ Restore \/ Join \/ Exit
  BY <1>5 DEF Test, Watch, Restore, Join, Exit, pipelineVars, replayVars
<1>6. CASE Interrupt \/ StopPipeline
  BY <1>6 DEF Interrupt, StopPipeline, assemblyVars
<1> QED
  BY <1>1, <1>2, <1>3, <1>4, <1>5, <1>6 DEF SessionNext, RunnerStep

\* At first no frame of a whole dump was given.
LEMMA DumpInit ==
  ASSUME SessionInit, WholeDump
  PROVE  WInv
<1>1. /\ setup \in Setups /\ asm = EmptyAssembler /\ error = FALSE /\ thread = "unstarted"
      /\ committed = 0
  BY DEF SessionInit, Init, ReplayInit
<1>2. AsmOK(asm, setup.plans[1])
  BY <1>1, PlanOfDump, EmptyAsmOK
<1>3. ~Complete(asm)
  BY <1>1 DEF Complete, EmptyAssembler
<1>4. Upto = 0
  BY <1>1, <1>3 DEF Upto
<1>5. \A k \in 1..Upto : FALSE
  BY <1>4
<1> QED
  BY <1>1, <1>2, <1>4, <1>5 DEF WInv

\* A frame of the dump is taken in.
LEMMA TakenIn ==
  ASSUME setup \in Setups, WholeDump, NEW a, AsmOK(a, setup.plans[1]),
         NEW i \in 1..Len(setup.recorded)
  PROVE  LET frame == setup.recorded[i].frame
             new == Given(a, setup.recorded[i])
         IN  /\ ~Raises(a, frame) /\ AsmOK(new, setup.plans[1]) /\ Kept(frame, new)
             /\ DOMAIN a.chunks \subseteq DOMAIN new.chunks
             /\ a.total # None => new.total # None
<1> DEFINE plan == setup.plans[1]  frame == setup.recorded[i].frame  new == Add(a, frame)
<1>1. plan \in Plans /\ OneGeneration(plan) /\ None # Len(plan.payload)
  BY PlanOfDump
<1>2. setup.recorded[i].legible = "yes" /\ \E p \in 1..Len(Epoch(plan)) : frame = Epoch(plan)[p]
  BY FramesOfDump
<1> HIDE DEF plan, frame
<1>3. AsmOK(a, plan)
  BY DEF plan
<1>4. Belongs(frame, a, plan)
  BY <1>1, <1>2, <1>3, BelongsAnywhere
<1>5. AsmOK(new, plan) /\ ~Raises(a, frame) /\ Absorbed(new, a, frame)
  BY <1>1, <1>3, <1>4, AddOK
<1>6. Given(a, setup.recorded[i]) = new
  BY <1>2, <1>5 DEF Given, frame
<1>7. /\ Kept(frame, new) /\ DOMAIN a.chunks \subseteq DOMAIN new.chunks
      /\ a.total # None => new.total # None
  BY <1>5 DEF Absorbed, Kept
<1> QED
  BY <1>5, <1>6, <1>7 DEF plan, frame

\* Every step keeps the record of the frames given.
LEMMA DumpStep ==
  ASSUME SInv, WholeDump, WInv, [SessionNext]_sessionVars
  PROVE  WInv'
<1> DEFINE plan == setup.plans[1]
<1>1. setup' = setup /\ setup \in Setups /\ setup.source = "replay" /\ IInv
  BY StepOfRecording DEF SInv, WholeDump
<1>2. AsmOK(asm, plan) /\ error = FALSE
      /\ \A k \in 1..Upto : k \in 1..Len(recording) /\ Kept(recording[k].frame, asm)
  BY DEF WInv
<1>3. /\ committed \in Nat /\ Upto \in Nat
      /\ \/ asm' = asm /\ Upto' = Upto
         \/ /\ ~Complete(asm) /\ Upto + 1 \in 1..Len(recording) /\ Upto' = Upto + 1
            /\ asm' = Given(asm, recording[Upto + 1])
  BY <1>1, StepOfAssembler
<1>4. Upto' = IF Complete(asm') THEN committed' + 1 ELSE committed'
  BY DEF Upto
<1>5. CASE thread = "unstarted"
  <2>1. UNCHANGED <<asm, committed>> /\ Upto = 0
    BY <1>1, <1>5, StepOfThread DEF WInv
  <2>2. Upto' = 0
    BY <1>4, <2>1 DEF Upto
  <2>3. \A k \in 1..Upto' : FALSE
    BY <2>2
  <2>4. thread' # "unstarted" => recording' = setup.recorded
    BY <1>1, <1>5, StepOfThread
  <2>5. error' = FALSE
    <3>1. ~ThreadStep
      BY <1>5 DEF ThreadStep, SequentialRead, SequentialDecode, Read, ReadOn, Collect,
         Commit, CommitsDone, Drained, PutSentinel, Close
    <3> QED BY <1>1, <1>2, <3>1, StepOfReplay DEF Start, WorkerStep, Take, Finish, Die,
         Terminate, workerUnchanged, replayVars
  <2> QED BY <1>1, <1>2, <2>1, <2>2, <2>3, <2>4, <2>5 DEF WInv
<1>6. CASE thread # "unstarted"
  <2>1. recording = setup.recorded /\ recording' = recording /\ thread' # "unstarted"
    BY <1>1, <1>6, StepOfThread DEF WInv
  <2>2. AsmOK(asm', plan)
        /\ \A k \in 1..Upto' : k \in 1..Len(recording) /\ Kept(recording[k].frame, asm')
    <3>1. CASE asm' = asm /\ Upto' = Upto
      BY <1>2, <3>1
    <3>2. CASE /\ Upto + 1 \in 1..Len(recording) /\ Upto' = Upto + 1
               /\ asm' = Given(asm, recording[Upto + 1])
      <4>1. /\ AsmOK(asm', plan) /\ Kept(recording[Upto + 1].frame, asm')
            /\ DOMAIN asm.chunks \subseteq DOMAIN asm'.chunks
            /\ asm.total # None => asm'.total # None
        BY <1>1, <1>2, <2>1, <3>2, TakenIn
      <4>2. ASSUME NEW k \in 1..Upto'
            PROVE  k \in 1..Len(recording) /\ Kept(recording[k].frame, asm')
        <5>1. CASE k = Upto + 1
          BY <3>2, <4>1, <5>1
        <5>2. CASE k # Upto + 1
          <6>1. k \in 1..Upto
            BY <1>3, <3>2, <5>2
          <6>2. k \in 1..Len(recording) /\ Kept(recording[k].frame, asm)
            BY <1>2, <6>1
          <6> QED BY <4>1, <6>2 DEF Kept
        <5> QED BY <5>1, <5>2
      <4> QED BY <4>1, <4>2
    <3> QED BY <1>3, <3>1, <3>2
  <2>3. error' = FALSE
    <3>1. \A i \in 1..Len(recording) : recording[i].legible = "yes"
      BY <1>1, <2>1, FramesOfDump
    <3>2. NextFile # "unloadable"
      <4>1. Len(recording) \in Nat /\ sequence \in 0..Len(recording)
        BY <1>1, Sizes DEF IInv, ReplayTypeOK
      <4>2. sequence # Len(recording) => sequence + 1 \in 1..Len(recording)
        BY <4>1
      <4> QED BY <3>1, <4>2 DEF NextFile
    <3>3. \A i \in 1..Len(recording) : ~Refused(recording[i])
      BY <1>1, <1>2, <2>1, TakenIn DEF Refused
    <3> QED BY <1>1, <1>2, <3>2, <3>3, StepOfThread
  <2> QED BY <1>1, <2>1, <2>2, <2>3 DEF WInv
<1> QED
  BY <1>5, <1>6

\* The frames given from a whole dump are always kept.
LEMMA DumpInvariant == SessionSpec => [](SInv /\ (WholeDump => WInv))
<1>1. SessionInit => SInv /\ (WholeDump => WInv)
  BY SessionInitOK, DumpInit
<1>2. SInv /\ (WholeDump => WInv) /\ [SessionNext]_sessionVars => (SInv /\ (WholeDump => WInv))'
  <2> SUFFICES ASSUME SInv, WholeDump => WInv, [SessionNext]_sessionVars
               PROVE  SInv' /\ (WholeDump' => WInv')
    OBVIOUS
  <2>1. setup' = setup
    BY StepOfRecording DEF SInv
  <2>2. WholeDump' <=> WholeDump
    BY <2>1 DEF WholeDump
  <2> QED BY <2>2, SessionStepOK, DumpStep
<1> QED
  BY <1>1, <1>2, PTL DEF SessionSpec

\* A recording of one whole epoch of one generation, however large and in whatever
\* order its frames are read, completes: decoded by however many workers, each unit
\* finds its chunk before any control has explained it (_resolve_generation_id).
THEOREM SessionCompletesDumps == SessionSpec => []WholeDumpCompletes
<1>1. SInv /\ (WholeDump => WInv) => WholeDumpCompletes
  <2> SUFFICES ASSUME SInv, WInv, WholeDump, thread = "ended", ~stop, ~Complete(asm)
               PROVE  FALSE
    BY DEF WholeDumpCompletes
  <2> DEFINE plan == setup.plans[1]  n == Len(plan.payload)  T == DOMAIN asm.chunks
  <2>1. setup \in Setups /\ IInv
    BY DEF SInv, WholeDump
  <2>2. /\ AsmOK(asm, plan) /\ error = FALSE /\ recording = setup.recorded
        /\ \A k \in 1..Upto : Kept(recording[k].frame, asm)
    BY DEF WInv
  <2>3. Upto = Len(recording)
    BY <2>1, <2>2 DEF IInv, Progress, Looping, Upto
  <2>4. plan \in Plans /\ OneGeneration(plan)
    BY <2>1, PlanOfDump
  <2>5. \A p \in 1..Len(Epoch(plan)) : Kept(Epoch(plan)[p], asm)
    BY <2>1, <2>2, <2>3, FramesOfDump
  <2> HIDE DEF plan
  <2>6. n \in Nat /\ DOMAIN plan.payload = 1..n
    BY <2>4, LenProperties DEF Plans
  <2>7. asm.total = n
    <3>1. 1 \in 1..Len(Epoch(plan)) /\ Epoch(plan)[1] = Manifest(plan)
      BY <2>4, FrameAt
    <3>2. Kept(Manifest(plan), asm)
      BY <2>5, <3>1
    <3>3. asm.total # None
      BY <3>2 DEF Kept, Manifest
    <3> QED BY <2>2, <2>4, <3>3, FieldsOf
  <2>8. \A c \in 1..n : c \in T
    <3> TAKE c \in 1..n
    <3> DEFINE g == GenerationPlans(plan)[1]  f == SystematicUnits(g)[c]
    <3>1. Len(GenerationPlans(plan)) = 1 /\ g.base = 1 /\ g.size = n
      BY <2>4, GenerationsOfPlan
    <3>2. f = [kind |-> "systematic", index |-> c, payload |-> g.chunks[c],
               chunk |-> g.base + c - 1]
      BY <3>1 DEF SystematicUnits
    <3>3. HasFrame(Epoch(plan), f)
      <4>1. \A x \in 1..Len(GenerationPlans(plan)) : \A i \in 1..GenerationPlans(plan)[x].size :
               HasFrame(Epoch(plan), SystematicUnits(GenerationPlans(plan)[x])[i])
        BY <2>4, EpochFrames
      <4> QED BY <3>1, <4>1
    <3> HIDE DEF f, g
    <3>4. f.kind = "systematic" /\ f.chunk = g.base + c - 1
      BY <3>2
    <3>5. f.chunk = c
      BY <2>6, <3>1, <3>4
    <3>6. Kept(f, asm)
      BY <2>5, <3>3 DEF HasFrame
    <3> QED BY <3>4, <3>5, <3>6 DEF Kept
  <2>9. T \in SUBSET (1..n)
    BY <2>2, <2>4, <2>6, FieldsOf DEF ChunkMaps
  <2>10. asm.received = Cardinality(T)
    BY <2>2 DEF AsmOK
  <2> HIDE DEF T, n
  <2>11. T = 1..n
    BY <2>8, <2>9
  <2>12. Cardinality(1..n) = n
    BY <2>6, FS_Interval
  <2>13. asm.received = n
    BY <2>10, <2>11, <2>12
  <2>14. None # n
    BY <2>6, NoneAssumption
  <2> QED BY <2>6, <2>7, <2>13, <2>14 DEF Complete
<1> QED
  BY <1>1, DumpInvariant, PTL
=============================================================================
