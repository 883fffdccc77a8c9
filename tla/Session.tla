------------------------------ MODULE Session ------------------------------
(***************************************************************************)
(* A run of the receiver program (receiver/cli.py main): a pipeline, fed   *)
(* by the screen (Transfer) or by recorded frames (Replay), and            *)
(* PipelineRunner, which watches it on the main thread until the assembler *)
(* is complete, the pipeline fails, nothing has come for too long or the   *)
(* user interrupts; then it stops the pipeline, joins it and exits.        *)
(*                                                                         *)
(* How a live pipeline shuts down is in Shutdown; here it is gone when it  *)
(* is joined, and its timeouts are off.  The replay thread is a daemon, its*)
(* worker processes are not: an exiting interpreter waits for them.        *)
(***************************************************************************)
EXTENDS Transfer, Replay

CONSTANTS
    MaxIdle        \* max_idle_seconds, in ticks of the model's clock
(* A setup has further fields:                                             *)
(*   source       "screen" or "replay" (--source)                          *)
(*   recorded     the recording a replay finds                            *)
(*   parallel     --decode-workers > 1 with the stateless mode             *)
(*   interrupted  may the user interrupt?                                  *)

Verdicts == {"ok", "error", "timeout_idle", "aborted"}

ASSUME SessionAssumption ==
    /\ MaxIdle \in Nat
    /\ None \notin Verdicts
    /\ \A s \in Setups :
          /\ s.source \in {"screen", "replay"} /\ s.recorded \in Seq(Recorded)
          /\ \A b \in DOMAIN s.plans : s.plans[b].payload # None
          /\ \A i \in DOMAIN s.recorded : s.recorded[i].legible = "yes" =>
                \E b \in DOMAIN s.plans : s.recorded[i].frame \in Range(Epoch(s.plans[b]))

VARIABLES
    runner,        \* where the main thread is
    verdict,       \* the status reported, or how run() was left
    restored,      \* the payload given to restore_payload, None before
    idle,          \* ticks since last_good_time
    round,         \* ticks since the round's now
    seen,          \* _last_decode_ok
    quiet,         \* ticks since a frame was decoded (of the model)
    polled         \* has a round begun since the last tick? (of the model)

clockVars == <<idle, round, quiet, polled>>
runnerVars == <<runner, verdict, restored, seen>>
sessionVars == <<transferVars, clockVars, runnerVars, replayVars>>

SessionInit ==
    /\ Init
    /\ ReplayInit
    /\ parallel = setup.parallel
    /\ idle = 0 /\ round = 0 /\ quiet = 0 /\ polled = FALSE
    /\ runner = "starting" /\ verdict = None /\ restored = None /\ seen = 0

-----------------------------------------------------------------------------
(* The pipelines, as they run beside the main thread.                        *)

ScreenRuns == setup.source = "screen" /\ runner # "starting"

ScreenStep ==
    /\ ScreenRuns
    /\ Next
    /\ UNCHANGED <<recording, parallel, thread, sequence, poolVars, committed, decodeOk,
                   clockVars, runnerVars>>

\* The program's exit ends its daemon thread.
ReplayStep ==
    /\ runner # "exited"
    /\ \/ ThreadStep
       \/ \E w \in Workers : WorkerStep(w) \/ Die(w) \/ Terminate(w)
    /\ quiet' = IF decodeOk' > decodeOk THEN 0 ELSE quiet
    /\ UNCHANGED <<transferVars, idle, round, polled, runnerVars>>

\* A round takes a tenth of a second, a tick a second.
Tick ==
    /\ setup.source = "replay" /\ polled
    /\ runner \in {"testing", "watching"}
    /\ idle' = Min({idle + 1, MaxIdle + 1})
    /\ round' = Min({round + 1, MaxIdle + 1})
    /\ quiet' = Min({quiet + 1, MaxIdle + 1})
    /\ polled' = FALSE
    /\ UNCHANGED <<transferVars, runnerVars, replayVars>>

-----------------------------------------------------------------------------
(* The main thread.                                                          *)

pipelineVars == <<transferVars, replayVars>>

StartPipeline ==
    /\ runner = "starting"
    /\ runner' = "testing"
    /\ IF setup.source = "screen" THEN UNCHANGED replayVars
       ELSE Start(setup.recorded)
    /\ UNCHANGED <<transferVars, clockVars, verdict, restored, seen>>

\* run() has a result or an exception: either way it stops the pipeline.
Leave(result) == verdict' = result /\ runner' = "stopping"

\* An exception of the pipeline is set once its thread has cleaned up.
Published == error /\ thread \in {"unstarted", "ended"}

TimedOut == idle > MaxIdle /\ setup.source = "replay"

\* The top of _run_loop, check_errors and _check_timeouts.  Where no time can run
\* out, a round that finds nothing changes nothing.
Test ==
    /\ runner = "testing" /\ ~Complete(asm)
    /\ \/ Published /\ Leave("error") /\ UNCHANGED <<round, polled>>
       \/ ~Published /\ TimedOut /\ Leave("timeout_idle") /\ UNCHANGED <<round, polled>>
       \/ /\ ~Published /\ ~TimedOut /\ setup.source = "replay"
          /\ runner' = "watching" /\ round' = 0 /\ polled' = TRUE
          /\ UNCHANGED verdict
    /\ UNCHANGED <<pipelineVars, restored, seen, idle, quiet>>

\* A defect: only the first frame counts as progress.
WatchFirst ==
    /\ runner = "watching"
    /\ runner' = "testing"
    /\ seen' = decodeOk
    /\ idle' = IF decodeOk > 0 /\ seen = 0 THEN round ELSE idle
    /\ UNCHANGED <<pipelineVars, verdict, restored, round, quiet, polled>>

\* snapshot and _refresh_last_good_time: the time of progress is the round's now.
\* The count of assembled chunks grows only with decode_ok.
Watch ==
    /\ runner = "watching"
    /\ runner' = "testing"
    /\ seen' = decodeOk
    /\ idle' = IF decodeOk > seen THEN round ELSE idle
    /\ UNCHANGED <<pipelineVars, verdict, restored, round, quiet, polled>>

\* A defect: the digest is not compared.
RestoreUnchecked ==
    /\ runner = "testing" /\ Complete(asm)
    /\ IF Missing(asm) # {}
       THEN Leave("error") /\ UNCHANGED restored
       ELSE Leave("ok") /\ restored' = Payload(asm)
    /\ UNCHANGED <<pipelineVars, clockVars, seen>>

\* _handle_success: payload() wants chunks 1 to total, restore_payload the digest
\* of the manifest.
Restore ==
    /\ runner = "testing" /\ Complete(asm)
    /\ IF Missing(asm) # {} \/ Payload(asm) # asm.digest
       THEN Leave("error") /\ UNCHANGED restored
       ELSE Leave("ok") /\ restored' = Payload(asm)
    /\ UNCHANGED <<pipelineVars, clockVars, seen>>

\* SIGINT or SIGTERM while run() is in its loop: the handler stops the pipeline
\* and raises KeyboardInterrupt.
Interrupt ==
    /\ setup.interrupted /\ runner \in {"testing", "watching"}
    /\ stop' = TRUE
    /\ Leave("aborted")
    /\ UNCHANGED <<transferVars, clockVars, restored, seen, recording, parallel, thread,
                   sequence, poolVars, assemblyVars, error>>

StopPipeline ==
    /\ runner = "stopping"
    /\ stop' = TRUE
    /\ runner' = "joining"
    /\ UNCHANGED <<transferVars, clockVars, verdict, restored, seen, recording, parallel,
                   thread, sequence, poolVars, assemblyVars, error>>

\* join() waits ten seconds for the thread, which need not have ended.
Join ==
    /\ runner = "joining"
    /\ runner' = "exiting"
    /\ UNCHANGED <<pipelineVars, clockVars, verdict, restored, seen>>

Exit ==
    /\ runner = "exiting"
    /\ \A w \in Workers : working[w] = Gone
    /\ runner' = "exited"
    /\ UNCHANGED <<pipelineVars, clockVars, verdict, restored, seen>>

RunnerStep ==
    StartPipeline \/ Test \/ Watch \/ Restore \/ StopPipeline \/ Join \/ Exit

\* The replay thread waits for a result that no worker will ever give: it was told
\* to stop with nothing outstanding, or a worker was killed.
Starved ==
    /\ \/ thread = "draining" /\ pending > 0
       \/ thread = "filling" /\ MustCollect
    /\ results = <<>>
    /\ \A w \in Workers : working[w] = Gone \/ (working[w] = Idle /\ tasks = <<>>)

\* The program has exited, or never will.
Rest == (runner = "exited" \/ Starved) /\ UNCHANGED sessionVars

SessionNext == ScreenStep \/ ReplayStep \/ Tick \/ RunnerStep \/ Interrupt \/ Rest

\* No step of the replay can be taken (a disabled ReplayStep, said in a way that
\* TLC evaluates quickly).
ReplayRests ==
    \/ thread = "unstarted" \/ Starved \/ runner = "exited"
    \/ thread = "ended" /\ \A w \in Workers : working[w] = Gone

\* Of a screen what Transfer asks.  Otherwise time passes, and the program goes on,
\* which has to be asked only of the main thread and of the replay as a whole.
SessionFairness ==
    /\ WF_position(ScreenRuns /\ Show)
    /\ WF_flight(ScreenRuns /\ Delivered)
    /\ WF_flight(ScreenRuns /\ MustCapture /\ Capture)
    /\ []<>(ScreenRuns /\ Receiving /\ NewsShown)
          => []<><<NewsCaptured>>_flight
    /\ WF_runner(RunnerStep)
    /\ WF_polled(Tick)
    /\ []<>ReplayRests \/ []<><<TRUE>>_<<thread, working, committed, sentinels>>

SessionSpec == SessionInit /\ [][SessionNext]_sessionVars /\ SessionFairness
-----------------------------------------------------------------------------
\* Units find their places when nothing can be told apart wrongly: the stream is
\* built once, and either there is one generation only, or each is announced to a
\* receiver that joins at the start and keeps the results of decoding in order.
Orderly ==
    /\ setup.source = "screen" /\ Len(setup.plans) = 1
    /\ \/ OneGeneration(setup.plans[1])
       \/ setup.lanes = 1 /\ setup.joins = {1} /\ setup.controlKept

\* A recording of one epoch of one generation, all of it and all of it legible.
WholeDump ==
    /\ setup.source = "replay" /\ Len(setup.plans) = 1 /\ OneGeneration(setup.plans[1])
    /\ \A i \in DOMAIN setup.recorded : setup.recorded[i].legible = "yes"
    /\ Range(Epoch(setup.plans[1])) = {setup.recorded[i].frame : i \in DOMAIN setup.recorded}

SessionTypeOK ==
    /\ Orderly => TypeOK
    /\ ReplayTypeOK
    /\ runner \in {"starting", "testing", "watching", "stopping", "joining", "exiting", "exited"}
    /\ verdict \in Verdicts \cup {None}
    /\ verdict = "ok" <=> restored # None
    /\ {idle, round, quiet} \subseteq 0..MaxIdle + 1 /\ polled \in BOOLEAN

\* In an orderly session the assembler and the solver are right, for every way the
\* frames may come (Transfer states the properties).
OrderlyChunksAreRight == Orderly => ChunksAreRight
OrderlySymbolsAreTrue == Orderly => KnownSymbolsAreTrue
OrderlyRecoveryIsComplete == Orderly => DeterminedIsSolved
OrderlyIsRestorable == Orderly => CompleteIsRestorable

\* However frames were lost, reordered, taken from two builds of the stream or put
\* in the wrong place: what the program restores is a payload the sender showed
\* (assembler.payload and the digest in restore_payload, against misplaced chunks).
RestoredIsSent ==
    verdict = "ok" => restored \in {setup.plans[b].payload : b \in DOMAIN setup.plans}

\* A replay implements InOrder (CommitsInOrder), whatever the main thread does.
ReplaysInOrder ==
    /\ setup.source = "replay" => Ordered!Init
    /\ [][setup.source = "replay" => [Ordered!Commit]_(Ordered!vars)]_sessionVars

\* A session is given up for idleness only when no frame was decoded for
\* max_idle_seconds, but for one decoded since the last round: _check_timeouts
\* compares before the counters of its round are read.
IdleMeansIdle ==
    [][verdict' = "timeout_idle" /\ verdict # verdict' => (quiet >= MaxIdle \/ decodeOk > seen)]_sessionVars

\* A replay that reads a whole epoch of one generation completes, although the
\* names of dumped frames put every unit before the controls that explain it.
WholeDumpCompletes == (WholeDump /\ thread = "ended" /\ ~stop) => Complete(asm)

\* The program exits, and an orderly transfer from the screen succeeds, however
\* many frames are lost; only a starved replay thread keeps it, for its pool is
\* never told to leave (runner.run, _run_parallel_stateless).
SessionEnds ==
    /\ setup.source = "replay" => <>(runner = "exited" \/ Starved)
    /\ Orderly => <>(runner = "exited" /\ verdict = "ok")
=============================================================================
