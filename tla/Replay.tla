------------------------------- MODULE Replay -------------------------------
(***************************************************************************)
(* receiver/pipeline/replay.py: frames recorded in a directory are decoded *)
(* and given to the assembler, by the replay thread alone (_run_sequential)*)
(* or with a pool of worker processes behind a bounded task queue          *)
(* (_run_parallel_stateless).  In the pool frames finish in any order; the *)
(* thread holds results back and commits them in the order of the          *)
(* recording.                                                              *)
(*                                                                         *)
(* A frame is known by its place in the recording, from 1; its decode has  *)
(* the same result whichever worker does it, so a result on its way is its *)
(* frame's place.  Left out: the counters that only a report shows and the *)
(* geometry tracker of the stateful mode (LiveGeometry has the tracker),   *)
(* for which a frame that finds no geometry is one more illegible frame.   *)
(***************************************************************************)
EXTENDS Receiver

CONSTANTS
    Workers,       \* the worker processes (_decode_workers of them)
    MaxPending,    \* max_pending, four times as many
    MaxDeaths,     \* bound of the model on workers killed from outside
    Recorded       \* what a recording may hold: items [legible, frame]

ASSUME PoolAssumption ==
    /\ IsFiniteSet(Workers) /\ Workers # {}
    /\ MaxPending \in Nat /\ MaxPending >= Cardinality(Workers)
    /\ MaxDeaths \in Nat

ASSUME RecordedAssumption ==
    \A item \in Recorded : item.legible \in {"yes", "no", "unloadable"}

VARIABLES
    recording,     \* the frames to replay; legible: "yes", "no", "unloadable"
    parallel,      \* _parallel_decode_enabled
    thread,        \* where the replay thread is
    sequence,      \* next_sequence: the frames read so far (stats.captured)
    tasks,         \* task_queue
    working,       \* worker -> the frame it decodes, Idle or Gone
    results,       \* result_queue
    held,          \* pending_results: frames decoded but not yet committed
    pending,       \* pending_count
    exhausted,     \* has the loop over the recording been left?
    committed,     \* next_commit; in sequence, the frames dealt with
    sentinels,     \* sentinels yet to be put
    decodeOk,      \* stats.decode_ok
    deaths         \* workers killed

replayVars == <<recording, parallel, thread, sequence, tasks, working, results,
                held, pending, exhausted, committed, sentinels, asm, decodeOk,
                stop, error, deaths>>

poolVars == <<tasks, working, results, held, pending, exhausted, sentinels, deaths>>
assemblyVars == <<committed, asm, decodeOk>>

Sentinel == 0
Idle == 0
Gone == -1

Frames == 1..Len(recording)

ReplayInit ==
    /\ recording = <<>>
    /\ parallel \in BOOLEAN
    /\ thread = "unstarted"
    /\ sequence = 0
    /\ tasks = <<>>
    /\ working = [w \in Workers |-> Gone]
    /\ results = <<>>
    /\ held = {}
    /\ pending = 0
    /\ exhausted = FALSE
    /\ committed = 0
    /\ sentinels = 0
    /\ asm = EmptyAssembler
    /\ decodeOk = 0
    /\ stop = FALSE
    /\ error = FALSE
    /\ deaths = 0

\* start(): the thread begins, and with it the pool.  The recording is what the
\* directory holds then.
Start(frames) ==
    /\ thread = "unstarted"
    /\ thread' = "reading"
    /\ recording' = frames
    /\ working' = [w \in Workers |-> IF parallel THEN Idle ELSE Gone]
    /\ sentinels' = IF parallel THEN Cardinality(Workers) ELSE 0
    /\ UNCHANGED <<parallel, sequence, tasks, results, held, pending, exhausted, deaths,
                   assemblyVars, stop, error>>

-----------------------------------------------------------------------------
(* Giving one result to the assembler.                                       *)

\* A control the assembler refuses is ignored; a unit it refuses raises.
Refused(item) == item.legible = "yes" /\ Raises(asm, item.frame)

\* An illegible frame leaves the assembler as it is; one that is refused leaves its
\* record in the generation's state.
Given(a, item) == IF item.legible = "yes" THEN Add(a, item.frame) ELSE a

\* _handle_decode_success or _handle_decode_failure.  decode_ok is counted
\* before the unit is added.
Handled(item) ==
    /\ decodeOk' = IF item.legible = "yes" THEN decodeOk + 1 ELSE decodeOk
    /\ asm' = Given(asm, item)

-----------------------------------------------------------------------------
(* _run_sequential.                                                          *)

\* The loop over the recording: a frame is loaded, and one that cannot be read
\* raises, before the stop event is looked at.
NextFile == IF sequence = Len(recording) THEN "none" ELSE recording[sequence + 1].legible

SequentialRead ==
    /\ ~parallel /\ thread = "reading"
    /\ IF NextFile \notin {"none", "unloadable"} /\ ~stop
       THEN thread' = "decoding" /\ sequence' = sequence + 1
       ELSE thread' = "ended" /\ UNCHANGED sequence
    /\ error' = (NextFile = "unloadable")
    /\ UNCHANGED <<recording, parallel, poolVars, assemblyVars, stop>>

\* A unit the assembler refuses is caught with the decode's own exceptions.
SequentialDecode ==
    LET item == recording[sequence]
    IN  /\ ~parallel /\ thread = "decoding"
        /\ Handled(item)
        /\ committed' = IF Complete(asm') THEN committed ELSE committed + 1
        /\ thread' = IF Complete(asm') THEN "ended" ELSE "reading"
        /\ UNCHANGED <<recording, parallel, poolVars, sequence, stop, error>>

-----------------------------------------------------------------------------
(* _run_parallel_stateless.                                                  *)

\* The task queue holds as many tasks as may be pending.
HasRoom == Len(tasks) < MaxPending

\* The same loop; the stop event or the last frame end only the loop.
Read ==
    /\ parallel /\ thread = "reading"
    /\ \/ /\ NextFile = "unloadable"
          /\ thread' = "closing" /\ error' = TRUE
          /\ UNCHANGED <<sequence, tasks, pending, exhausted>>
       \/ /\ NextFile # "unloadable" /\ (stop \/ NextFile = "none")
          /\ thread' = "draining" /\ exhausted' = TRUE
          /\ UNCHANGED <<sequence, tasks, pending, error>>
       \/ /\ NextFile \notin {"none", "unloadable"} /\ ~stop /\ HasRoom
          /\ sequence' = sequence + 1
          /\ tasks' = Append(tasks, sequence')
          /\ pending' = pending + 1
          /\ thread' = "filling"
          /\ UNCHANGED <<exhausted, error>>
    /\ UNCHANGED <<recording, parallel, working, results, held, sentinels, deaths,
                   assemblyVars, stop>>

\* The inner loop is left once fewer than max_pending results are outstanding.
MustCollect == pending >= MaxPending \/ stop

ReadOn ==
    /\ parallel /\ thread = "filling"
    /\ ~MustCollect
    /\ thread' = "reading"
    /\ UNCHANGED <<recording, parallel, sequence, poolVars, assemblyVars, stop, error>>

\* A defect: what is collected stays counted.
CollectUncounted ==
    /\ parallel
    /\ thread \in {"filling", "draining"} /\ (thread = "filling" => MustCollect)
    /\ results # <<>>
    /\ held' = held \cup {Head(results)}
    /\ results' = Tail(results)
    /\ thread' = "committing"
    /\ UNCHANGED <<recording, parallel, sequence, tasks, working, pending, exhausted,
                   sentinels, deaths, assemblyVars, stop, error>>

\* result_queue.get(), which waits for a result for ever.
Collect ==
    /\ parallel
    /\ \/ thread = "filling" /\ MustCollect
       \/ thread = "draining" /\ pending > 0
    /\ results # <<>>
    /\ held' = held \cup {Head(results)}
    /\ results' = Tail(results)
    /\ pending' = pending - 1
    /\ thread' = "committing"
    /\ UNCHANGED <<recording, parallel, sequence, tasks, working, exhausted,
                   sentinels, deaths, assemblyVars, stop, error>>

\* A defect: any result held is committed, as it came.
NextHeldAny == CHOOSE i \in held \cup {0} : held # {} => i \in held

\* while next_commit in pending_results
NextHeld == IF committed + 1 \in held THEN committed + 1 ELSE 0

\* One turn of the commit loop.  A completed assembly returns before next_commit
\* moves on; a unit the assembler refuses raises, out of the whole run (and counts
\* as given, though nobody reads next_commit any more).
Commit ==
    /\ parallel /\ thread = "committing" /\ NextHeld # 0
    /\ LET item == recording[NextHeld]
       IN  /\ Handled(item)
           /\ held' = held \ {NextHeld}
           /\ error' = (error \/ Refused(item))
           /\ stop' = (stop \/ Complete(asm'))
           /\ committed' = IF Complete(asm') THEN committed ELSE committed + 1
           /\ thread' = IF Refused(item) \/ Complete(asm') THEN "closing" ELSE thread
    /\ UNCHANGED <<recording, parallel, sequence, tasks, working, results, pending,
                   exhausted, sentinels, deaths>>

CommitsDone ==
    /\ parallel /\ thread = "committing" /\ NextHeld = 0
    /\ thread' = IF exhausted THEN "draining" ELSE "filling"
    /\ UNCHANGED <<recording, parallel, sequence, poolVars, assemblyVars, stop, error>>

\* A defect: an empty task queue is taken for an idle pool.
DrainedOfTasks ==
    /\ parallel /\ thread = "draining" /\ tasks = <<>>
    /\ thread' = "closing"
    /\ UNCHANGED <<recording, parallel, sequence, poolVars, assemblyVars, stop, error>>

Drained ==
    /\ parallel /\ thread = "draining" /\ pending = 0
    /\ thread' = "closing"
    /\ UNCHANGED <<recording, parallel, sequence, poolVars, assemblyVars, stop, error>>

\* A defect: a sentinel needs no room.
PutSentinelAnyway ==
    /\ thread = "closing" /\ sentinels > 0
    /\ tasks' = Append(tasks, Sentinel)
    /\ sentinels' = sentinels - 1
    /\ UNCHANGED <<recording, parallel, thread, sequence, working, results, held,
                   pending, exhausted, deaths, assemblyVars, stop, error>>

\* The finally clause: a sentinel for each worker, then each is joined, and
\* terminated when five seconds do not suffice.
PutSentinel ==
    /\ thread = "closing" /\ sentinels > 0 /\ HasRoom
    /\ tasks' = Append(tasks, Sentinel)
    /\ sentinels' = sentinels - 1
    /\ UNCHANGED <<recording, parallel, thread, sequence, working, results, held,
                   pending, exhausted, deaths, assemblyVars, stop, error>>

Terminate(w) ==
    /\ thread = "closing" /\ sentinels = 0
    /\ working[w] # Gone
    /\ working' = [working EXCEPT ![w] = Gone]
    /\ UNCHANGED <<recording, parallel, thread, sequence, tasks, results, held,
                   pending, exhausted, sentinels, deaths, assemblyVars, stop, error>>

Close ==
    /\ thread = "closing" /\ sentinels = 0
    /\ \A w \in Workers : working[w] = Gone
    /\ thread' = "ended"
    /\ UNCHANGED <<recording, parallel, sequence, poolVars, assemblyVars, stop, error>>

-----------------------------------------------------------------------------
(* _replay_decode_worker_main.                                               *)

workerUnchanged == <<recording, parallel, thread, sequence, held, pending, exhausted,
                     sentinels, assemblyVars, stop, error>>

Take(w) ==
    /\ working[w] = Idle /\ tasks # <<>>
    /\ working' = [working EXCEPT ![w] = IF Head(tasks) = Sentinel THEN Gone ELSE Head(tasks)]
    /\ tasks' = Tail(tasks)
    /\ UNCHANGED <<results, deaths, workerUnchanged>>

\* The decode's result, or its exception.
Finish(w) ==
    /\ working[w] > 0
    /\ results' = Append(results, working[w])
    /\ working' = [working EXCEPT ![w] = Idle]
    /\ UNCHANGED <<tasks, deaths, workerUnchanged>>

\* A worker killed from outside: nobody watches the pool.
Die(w) ==
    /\ deaths < MaxDeaths
    /\ working[w] # Gone
    /\ working' = [working EXCEPT ![w] = Gone]
    /\ deaths' = deaths + 1
    /\ UNCHANGED <<tasks, results, workerUnchanged>>

WorkerStep(w) == Take(w) \/ Finish(w)

ThreadStep ==
    \/ SequentialRead \/ SequentialDecode
    \/ Read \/ ReadOn \/ Collect \/ Commit \/ CommitsDone \/ Drained
    \/ PutSentinel \/ Close

-----------------------------------------------------------------------------
(* The pipeline by itself, with a caller that may stop it at any time.       *)

StopReplay ==
    /\ ~stop
    /\ stop' = TRUE
    /\ UNCHANGED <<recording, parallel, thread, sequence, poolVars, assemblyVars, error>>

ReplayNext ==
    \/ \E frames \in Seq(Recorded) : Start(frames)
    \/ ThreadStep
    \/ \E w \in Workers : WorkerStep(w) \/ Die(w) \/ Terminate(w)
    \/ StopReplay

ReplaySpec == ReplayInit /\ [][ReplayNext]_replayVars
-----------------------------------------------------------------------------
(* Correctness.                                                              *)

ReplayTypeOK ==
    /\ thread \in {"unstarted", "reading", "decoding", "filling", "draining",
                   "committing", "closing", "ended"}
    /\ sequence \in 0..Len(recording) /\ committed \in 0..sequence
    /\ tasks \in Seq(Frames \cup {Sentinel}) /\ Len(tasks) <= MaxPending
    /\ results \in Seq(Frames)
    /\ working \in [Workers -> Frames \cup {Idle, Gone}]
    /\ held \subseteq Frames
    /\ pending \in 0..MaxPending /\ sentinels \in 0..Cardinality(Workers)
    /\ deaths \in 0..MaxDeaths /\ decodeOk \in 0..sequence
    /\ parallel \in BOOLEAN /\ exhausted \in BOOLEAN /\ stop \in BOOLEAN /\ error \in BOOLEAN

\* The assembler sees the recording in order, each frame once, although the
\* frames finish in any order: the replay thread implements InOrder.
Ordered == INSTANCE InOrder WITH
    Given <- Given, Done <- Complete, Unused <- EmptyAssembler,
    committed <- IF Complete(asm) THEN committed + 1 ELSE committed

CommitsInOrder == Ordered!Spec

\* What pending_count counts are frames that a worker will answer: those queued,
\* being decoded and answered.  With a count too high the thread waits for ever,
\* with one too low it leaves frames behind.
Queued == {i \in DOMAIN tasks : tasks[i] # Sentinel}
Busy == {w \in Workers : working[w] > 0}

PendingIsExact ==
    deaths = 0 /\ thread # "closing" /\ thread # "ended" =>
        pending = Cardinality(Queued) + Cardinality(Busy) + Len(results)

\* A replay that ends of itself has given every frame to the assembler.
NothingLeftBehind ==
    (thread = "ended" /\ ~stop /\ ~error /\ ~Complete(asm)) => committed = Len(recording)
=============================================================================
