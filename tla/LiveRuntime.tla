----------------------------- MODULE LiveRuntime -----------------------------
(***************************************************************************)
(* One capture session of the live receiver: the path a captured frame takes *)
(* through the slot bridge, the grab loop and its copy workers               *)
(* (runtime/workers.py), the prep stage (runtime/prep_strategy.py, or prep   *)
(* processes), the coordinator (runtime/coordinator.py) and the decode       *)
(* workers, and the path its slot takes back.  The coordinator's tasks run   *)
(* on one event loop, so each handler is one action up to its next await;    *)
(* everything else is a thread or a process of its own.                      *)
(*                                                                           *)
(* A slot travels as an item through channels: the real queues, and for each *)
(* thread a "hand" of capacity one, the item it is working on.               *)
(*                                                                           *)
(* Left out: the events that only feed metrics (starvation, raw_grab_stats,  *)
(* slot_wait_ms), fatal errors, the shutdown that follows stop_event, the    *)
(* geometry and the assembler (any decode result may be the last one), and   *)
(* dumps, which the coordinator never starts: dump_requested is False in     *)
(* every descriptor.                                                         *)
(***************************************************************************)
EXTENDS SlotRegistry

CONSTANTS
  CopyWorkers,      \* the copy threads (_COPY_WORKERS = 2 of them)
  AsyncPrep,        \* whether prep is a task of the coordinator or a process
  SlotPrefetch,     \* _SLOT_PREFETCH
  CopyQueueDepth,   \* _COPY_QUEUE_DEPTH
  FrameQueueSize,   \* frame_queue_size
  ResultQueueSize,  \* result_queue_size
  GrabLoop          \* the grab loop itself, when it copies inline

ASSUME WorkersAssumption ==
  /\ IsFiniteSet(Workers) /\ Workers # {}
  /\ Workers = 0 .. Cardinality(Workers) - 1
ASSUME WritersAssumption == Writers = {"grab"}
ASSUME GrabLoopAssumption == GrabLoop \notin CopyWorkers
ASSUME QueuesAssumption ==
  {SlotPrefetch, CopyQueueDepth, FrameQueueSize, ResultQueueSize} \subseteq Nat \ {0}
ASSUME AsyncPrepAssumption == AsyncPrep \in BOOLEAN

VARIABLES
  registry,      \* the SlotManager's registry
  queue,         \* channel -> the items in it, oldest first
  pixels,        \* slot -> the capture its pixels show; None while torn
  captureIndex,  \* capture_index of the grab loop
  nextWorker,    \* _next_worker, the round robin of the coordinator
  leaked,        \* slots in decode that no decode worker was given
  lost,          \* slots whose item was dropped on the way
  decoded,       \* captures whose decode result reached the assembler
  deadCopiers,   \* copy threads ended by an exception
  stopped,       \* stop_event
  lastTurn       \* coordinator tasks that may still handle one fetched item

vars == <<registry, queue, pixels, captureIndex, nextWorker, leaked, lost,
          decoded, deadCopiers, stopped, lastTurn>>

-----------------------------------------------------------------------------
(* Channels.                                                                 *)

Copiers == CopyWorkers \cup {GrabLoop}

SlotQueue  == <<"slotQueue">>    \* _grab_slot_queue
LocalSlots == <<"localSlots">>   \* local_slot_queue of the grab process
GrabHand   == <<"grabHand">>
CopyQueue  == <<"copyQueue">>
GrabEvents == <<"grabEvents">>   \* _grab_event_queue
Submitting == <<"submitting">>   \* the grab task awaiting submit()
PrepIn     == <<"prepIn">>
Prepping   == <<"prepping">>
PrepOut    == <<"prepOut">>
Results    == <<"results">>      \* _decode_result_queue
Answering  == <<"answering">>    \* the result the coordinator is handling
Copying(k)     == <<"copying", k>>
Assignments(w) == <<"assignments", w>>
Decoding(w)    == <<"decoding", w>>

\* Where a slot waits for its frame, where the frame waits for the dedup
\* decision, and where it waits for its decode.
GrabSide ==
  {SlotQueue, LocalSlots, GrabHand, CopyQueue, GrabEvents}
    \cup {Copying(k) : k \in Copiers}
PrepSide == {Submitting, PrepIn, Prepping, PrepOut}
DecodeSide ==
  {Results, Answering} \cup {Assignments(w) : w \in Workers} \cup {Decoding(w) : w \in Workers}

Chan == GrabSide \cup PrepSide \cup DecodeSide

\* The channels whose items name a frame that is complete in shared memory.
FrameChannels == {GrabEvents} \cup PrepSide \cup DecodeSide

Item ==
  [slot : Slots, generation : Nat, capture : Captures \cup {None},
   worker : Workers \cup {None}]

\* The queues with a maxsize: everything else that is no hand is unbounded.
Hands ==
  {GrabHand, Submitting, Prepping, Answering}
    \cup {Copying(k) : k \in Copiers} \cup {Decoding(w) : w \in Workers}

Capacity(c) ==
  CASE c \in Hands      -> 1
    [] c = LocalSlots   -> SlotPrefetch
    [] c = CopyQueue    -> CopyQueueDepth
    [] c = Results      -> ResultQueueSize
    [] OTHER            -> FrameQueueSize

Unbounded == {SlotQueue} \cup (IF AsyncPrep THEN {PrepIn, PrepOut} ELSE {})

HasRoom(c) == c \in Unbounded \/ Len(queue[c]) < Capacity(c)

HasItem(c) == queue[c] # << >>

Taken(q, c) == [q EXCEPT ![c] = Tail(@)]

Put(q, c, item) == [q EXCEPT ![c] = Append(@, item)]

\* The head of c becomes, as item, the last of d.
Moved(c, d, item) == Put(Taken(queue, c), d, item)

Move(c, d) == queue' = Moved(c, d, Head(queue[c]))

SlotsIn(c) == {queue[c][i].slot : i \in DOMAIN queue[c]}

\* Slots whose frame waits for a copy that nobody will make: the grab loop puts
\* its jobs on the copy queue and never takes one back.
Stranded == IF deadCopiers = CopyWorkers THEN SlotsIn(CopyQueue) ELSE {}

-----------------------------------------------------------------------------
(* Start: _prime_grab_slots has handed every slot to the grab process.       *)

PrimedRegistry ==
  [slots |-> [s \in Slots |-> Bare(1, "filling", "grab")], free |-> << >>]

Token(s, g) == [slot |-> s, generation |-> g, capture |-> None, worker |-> None]

PrimedTokens == [i \in 1 .. SlotCount |-> Token(i - 1, 1)]

Init ==
  /\ registry = PrimedRegistry
  /\ queue = [c \in Chan |-> IF c = SlotQueue THEN PrimedTokens ELSE << >>]
  /\ pixels = [s \in Slots |-> None]
  /\ captureIndex = 0
  /\ nextWorker = 0
  /\ leaked = {}
  /\ lost = {}
  /\ decoded = {}
  /\ deadCopiers = {}
  /\ stopped = FALSE
  /\ lastTurn = {}

-----------------------------------------------------------------------------
(* The grab process.                                                         *)

coordinatorVars == <<nextWorker, leaked, decoded, stopped, lastTurn>>

\* _slot_bridge_loop: a blocking get and a blocking put.  Its hand counts as
\* the front of the unbounded slot queue.
Bridge ==
  /\ HasItem(SlotQueue)
  /\ HasRoom(LocalSlots)
  /\ Move(SlotQueue, LocalSlots)
  /\ UNCHANGED <<registry, pixels, captureIndex, lost, deadCopiers, coordinatorVars>>

\* One deadline of _async_grab_loop with a slot at hand: the token gets the
\* frame just grabbed.  The grab loop is busy while it copies inline.
Grab ==
  /\ HasItem(LocalSlots)
  /\ HasRoom(GrabHand)
  /\ HasRoom(Copying(GrabLoop))
  /\ captureIndex \in Captures
  /\ queue' = Moved(LocalSlots, GrabHand,
                    [Head(queue[LocalSlots]) EXCEPT !.capture = captureIndex])
  /\ captureIndex' = captureIndex + 1
  /\ UNCHANGED <<registry, pixels, lost, deadCopiers, coordinatorVars>>

\* copy_queue.put_nowait(job)
EnqueueCopy ==
  /\ HasItem(GrabHand)
  /\ HasRoom(CopyQueue)
  /\ Move(GrabHand, CopyQueue)
  /\ UNCHANGED <<registry, pixels, captureIndex, lost, deadCopiers, coordinatorVars>>

\* A copy begins: from now until it ends the slot's pixels are torn.
BeginCopy(k, source) ==
  /\ HasItem(source)
  /\ HasRoom(Copying(k))
  /\ Move(source, Copying(k))
  /\ pixels' = [pixels EXCEPT ![Head(queue[source]).slot] = None]
  /\ UNCHANGED <<registry, captureIndex, lost, deadCopiers, coordinatorVars>>

\* _copy_worker_loop takes a job.
WorkerCopies(k) == k \notin deadCopiers /\ BeginCopy(k, CopyQueue)

\* queue.Full: the grab loop copies the frame itself.
InlineCopy == ~HasRoom(CopyQueue) /\ BeginCopy(GrabLoop, GrabHand)

\* The defect of announcing the frame when the copy begins: the pixels are
\* still torn when the event goes out.
EndCopyUnwritten(k) ==
  /\ HasItem(Copying(k))
  /\ HasRoom(GrabEvents)
  /\ Move(Copying(k), GrabEvents)
  /\ UNCHANGED <<registry, pixels, captureIndex, lost, deadCopiers, coordinatorVars>>

\* The copy ends, and then _emit_filled_slot puts the event (blocking).
EndCopy(k) ==
  /\ HasItem(Copying(k))
  /\ HasRoom(GrabEvents)
  /\ Move(Copying(k), GrabEvents)
  /\ LET item == Head(queue[Copying(k)])
     IN  pixels' = [pixels EXCEPT ![item.slot] = item.capture]
  /\ UNCHANGED <<registry, captureIndex, lost, deadCopiers, coordinatorVars>>

\* _rgba_zero_copy raises (a frame of another size): _copy_worker_loop has no
\* except clause, so the thread ends and the slot it had is never announced.
CopyRaises(k) ==
  /\ HasItem(Copying(k))
  /\ queue' = Taken(queue, Copying(k))
  /\ lost' = lost \cup {Head(queue[Copying(k)]).slot}
  /\ deadCopiers' = deadCopiers \cup {k}
  /\ UNCHANGED <<registry, pixels, captureIndex, coordinatorVars>>

-----------------------------------------------------------------------------
(* Prep: either the coordinator's _prep_loop task or the one prep process.   *)

prepVars == <<registry, pixels, captureIndex, nextWorker, leaked, lost,
              decoded, deadCopiers, stopped, lastTurn>>

\* ProcessPrepStrategy.submit: a blocking put in a thread, which the grab task
\* awaits.
Submit ==
  /\ HasItem(Submitting)
  /\ HasRoom(PrepIn)
  /\ Move(Submitting, PrepIn)
  /\ UNCHANGED prepVars

StartPrep ==
  /\ HasItem(PrepIn)
  /\ HasRoom(Prepping)
  /\ Move(PrepIn, Prepping)
  /\ UNCHANGED prepVars

\* The fingerprint, or prep_skip when computing it raised: the coordinator
\* decides what follows (HandlePrepResult).
EndPrep ==
  /\ HasItem(Prepping)
  /\ HasRoom(PrepOut)
  /\ Move(Prepping, PrepOut)
  /\ UNCHANGED prepVars

-----------------------------------------------------------------------------
(* The decode workers.                                                       *)

StartDecode(w) ==
  /\ HasItem(Assignments(w))
  /\ HasRoom(Decoding(w))
  /\ Move(Assignments(w), Decoding(w))
  /\ UNCHANGED prepVars

\* A DecodeCompletion, of a success or a failure, under the worker's id.
EndDecode(w) ==
  /\ HasItem(Decoding(w))
  /\ HasRoom(Results)
  /\ queue' = Moved(Decoding(w), Results,
                    [Head(queue[Decoding(w)]) EXCEPT !.worker = w])
  /\ UNCHANGED prepVars

-----------------------------------------------------------------------------
(* The coordinator.                                                          *)

\* A task goes on while stop_event is clear; one that had fetched an item when
\* it was set handles that one.
MayHandle(task) == ~stopped \/ task \in lastTurn

TurnTaken(task) == lastTurn' = lastTurn \ {task}

\* A defect: the token carries the generation before the allocation.
HandedOutStale(r, q) ==
  LET s == Head(r.free)
  IN  /\ registry' = Allocated(r, "grab")
      /\ queue' = Put(q, SlotQueue, Token(s, r.slots[s].generation))

\* The slot allocated goes to the grab process under its new generation.
HandedOut(r, q) ==
  LET s == Head(r.free)
  IN  /\ registry' = Allocated(r, "grab")
      /\ queue' = Put(q, SlotQueue, Token(s, r.slots[s].generation + 1))

\* A defect: the session's end does not stop the dispatch.
DispatchedAlways(r, q) ==
  IF r.free # << >> THEN HandedOut(r, q) ELSE registry' = r /\ queue' = q

\* _dispatch_slot_to_grab, from registry r and channels q: a free slot, else
\* the oldest frame that waits undecoded, else nothing; and nothing any more
\* once the session is stopped.
Dispatched(r, q) ==
  \/ ~stopped /\ r.free # << >> /\ HandedOut(r, q)
  \/ /\ ~stopped /\ r.free = << >>
     /\ \E s \in Slots : IsOldest(r, s) /\ HandedOut(Reclaimed(r, s), q)
  \/ /\ stopped \/ (r.free = << >> /\ Overwritable(r) = {})
     /\ registry' = r
     /\ queue' = q

\* mark_duplicate_and_release, which changes nothing on a mismatch.
ReleasedIfMatching(r, item) ==
  IF Matches(r, item.slot, item.generation) THEN Released(r, item.slot) ELSE r

\* _handle_grab_event: mark_filled and submit; an event mark_filled refuses is
\* dropped.  The grab task is not back for the next event before the submit is.
HandleGrabEvent ==
  /\ MayHandle("grab")
  /\ HasRoom(Submitting)
  /\ HasItem(GrabEvents)
  /\ LET item == Head(queue[GrabEvents])
         next == IF AsyncPrep THEN PrepIn ELSE Submitting
     IN  IF MayFill(registry, item.slot, item.generation, "grab")
         THEN /\ registry' = Filled(registry, item.slot, item.capture)
              /\ Move(GrabEvents, next)
              /\ UNCHANGED lost
         ELSE /\ queue' = Taken(queue, GrabEvents)
              /\ lost' = lost \cup {item.slot}
              /\ UNCHANGED registry
  /\ TurnTaken("grab")
  /\ UNCHANGED <<pixels, captureIndex, nextWorker, leaked, decoded, deadCopiers,
                 stopped>>

\* A defect: the slot is released and nothing is dispatched for it.
RejectFrameSilently ==
  /\ MayHandle("prep")
  /\ HasItem(PrepOut)
  /\ registry' = ReleasedIfMatching(registry, Head(queue[PrepOut]))
  /\ queue' = Taken(queue, PrepOut)
  /\ TurnTaken("prep")
  /\ UNCHANGED <<pixels, captureIndex, nextWorker, leaked, lost, decoded,
                 deadCopiers, stopped>>

\* A prep result that is a prep_skip or a duplicate: the slot goes back to grab.
RejectFrame ==
  /\ MayHandle("prep")
  /\ HasItem(PrepOut)
  /\ Dispatched(ReleasedIfMatching(registry, Head(queue[PrepOut])),
                Taken(queue, PrepOut))
  /\ TurnTaken("prep")
  /\ UNCHANGED <<pixels, captureIndex, nextWorker, leaked, lost, decoded,
                 deadCopiers, stopped>>

\* assign_decode, whose result _build_assignment ignores.
AssignedIfPossible(r, item, w) ==
  IF MayAssign(r, item.slot, item.generation) THEN Assigned(r, item.slot, w) ELSE r

\* A defect: the round robin runs past the last worker.
NextInTurnUnwrapped(w) == w + 1

\* _next_worker moves on, whether or not the put succeeds.
NextInTurn(w) == (w + 1) % Cardinality(Workers)

\* A defect: one place of the assignment queue is never used.
RoomForAssignmentShort(w) == Len(queue[Assignments(w)]) < FrameQueueSize - 1

\* put_nowait raises Full otherwise.
RoomForAssignment(w) == HasRoom(Assignments(w))

\* A defect: a slot is dispatched although none came free.
DroppedAtFullQueueAndReplaced(r, item) ==
  /\ Dispatched(r, Taken(queue, PrepOut))
  /\ leaked' = leaked \cup {item.slot}

\* Full: the frame is counted as dropped, and that is all.  Its slot stays
\* assigned, and nothing is dispatched for it.
DroppedAtFullQueue(r, item) ==
  /\ registry' = r
  /\ queue' = Taken(queue, PrepOut)
  /\ leaked' = leaked \cup {item.slot}

\* A prep result with a new frame: it is assigned to the next worker in turn
\* and put on that worker's queue.  Only the results of prep processes are
\* tested for currency first.
AcceptFrame ==
  /\ MayHandle("prep")
  /\ HasItem(PrepOut)
  /\ LET item == Head(queue[PrepOut])
         w    == nextWorker
         r    == AssignedIfPossible(registry, item, w)
     IN  IF ~AsyncPrep /\ ~IsCurrent(registry, item.slot, item.generation)
         THEN /\ queue' = Taken(queue, PrepOut)
              /\ lost' = lost \cup {item.slot}
              /\ UNCHANGED <<registry, nextWorker, leaked>>
         ELSE /\ nextWorker' = NextInTurn(w)
              /\ \/ /\ RoomForAssignment(w)
                    /\ registry' = r
                    /\ Move(PrepOut, Assignments(w))
                    /\ UNCHANGED leaked
                 \/ ~RoomForAssignment(w) /\ DroppedAtFullQueue(r, item)
              /\ UNCHANGED lost
  /\ TurnTaken("prep")
  /\ UNCHANGED <<pixels, captureIndex, decoded, deadCopiers, stopped>>

\* A defect: a result is taken for delivered without complete_decode.
CompletedNever(r, item) == r

\* complete_decode, which changes nothing on a mismatch.
CompletedIfMatching(r, item) ==
  IF MayComplete(r, item.slot, item.generation, item.worker)
  THEN Completed(r, item.slot) ELSE r

\* A defect: the slot goes back to grab before the frame callback has read it.
CallbackAfterDispatch ==
  /\ HasItem(Results)
  /\ HasRoom(Answering)
  /\ MayHandle("decode")
  /\ Dispatched(CompletedIfMatching(registry, Head(queue[Results])),
                Moved(Results, Answering, Head(queue[Results])))
  /\ TurnTaken("decode")
  /\ UNCHANGED <<pixels, captureIndex, nextWorker, leaked, lost, decoded,
                 deadCopiers, stopped>>

\* _process_decode_events takes the next result.
FetchDecodeResult ==
  /\ MayHandle("decode")
  /\ HasItem(Results)
  /\ HasRoom(Answering)
  /\ Move(Results, Answering)
  /\ TurnTaken("decode")
  /\ UNCHANGED <<registry, pixels, captureIndex, nextWorker, leaked, lost, decoded,
                 deadCopiers, stopped>>

\* _handle_decode_completion and _handle_decode_failure: the frame callback may
\* read the slot's pixels until here, where complete_decode gives it back.  A
\* result that completed the assembly sets stop_event; the other tasks may have
\* an item fetched at that time.
HandleDecodeResult ==
  /\ HasItem(Answering)
  /\ Dispatched(CompletedIfMatching(registry, Head(queue[Answering])),
                Taken(queue, Answering))
  /\ decoded' = decoded \cup {Head(queue[Answering]).capture}
  /\ stopped' \in {stopped, TRUE}
  /\ lastTurn' = IF ~stopped /\ stopped' THEN {"grab", "prep"} ELSE lastTurn
  /\ UNCHANGED <<pixels, captureIndex, nextWorker, leaked, lost, deadCopiers>>

\* stop(): the caller's thread sets stop_event, at any time.
Stop ==
  /\ ~stopped
  /\ stopped' = TRUE
  /\ lastTurn' = {"grab", "prep"} \cup {t \in {"decode"} : ~HasItem(Answering)}
  /\ UNCHANGED <<registry, queue, pixels, captureIndex, nextWorker, leaked, lost,
                 decoded, deadCopiers>>

\* Nothing is on its way and no frame can be captured any more: the session is
\* stopped, the bound on captures is reached, or no slot is left.
Finished ==
  /\ \/ stopped
     \/ /\ \A c \in Chan \ {SlotQueue, LocalSlots} : SlotsIn(c) \subseteq Stranded
        /\ captureIndex \in Captures => leaked \cup lost \cup Stranded = Slots
  /\ UNCHANGED vars

Next ==
  \/ Bridge
  \/ Grab
  \/ EnqueueCopy
  \/ \E k \in CopyWorkers : WorkerCopies(k) \/ CopyRaises(k)
  \/ InlineCopy
  \/ \E k \in Copiers : EndCopy(k)
  \/ Submit
  \/ StartPrep
  \/ EndPrep
  \/ \E w \in Workers : StartDecode(w) \/ EndDecode(w)
  \/ HandleGrabEvent
  \/ RejectFrame
  \/ AcceptFrame
  \/ FetchDecodeResult
  \/ HandleDecodeResult
  \/ Stop
  \/ Finished

Spec == Init /\ [][Next]_vars

\* Every thread, process and task that can go on does: each waits on one
\* blocking queue operation, or polls one queue.  Nothing is assumed of the
\* screen (Grab), of copies that raise, or of the dedup decision.
Fairness ==
  /\ WF_vars(Bridge)
  /\ WF_vars(EnqueueCopy)
  /\ WF_vars(InlineCopy)
  /\ \A k \in CopyWorkers : WF_vars(WorkerCopies(k))
  /\ \A k \in Copiers : WF_vars(EndCopy(k))
  /\ WF_vars(Submit)
  /\ WF_vars(StartPrep) /\ WF_vars(EndPrep)
  /\ \A w \in Workers : WF_vars(StartDecode(w)) /\ WF_vars(EndDecode(w))
  /\ WF_vars(HandleGrabEvent)
  /\ WF_vars(RejectFrame \/ AcceptFrame)
  /\ WF_vars(FetchDecodeResult) /\ WF_vars(HandleDecodeResult)

FairSpec == Spec /\ Fairness

-----------------------------------------------------------------------------
(* Correctness.                                                              *)

TypeOK ==
  /\ registry \in [slots : [Slots -> SlotRecord], free : Seq(Slots)]
  /\ queue \in [Chan -> Seq(Item)]
  /\ pixels \in [Slots -> Captures \cup {None}]
  /\ captureIndex \in Nat
  /\ nextWorker \in Workers
  /\ leaked \subseteq Slots
  /\ lost \subseteq Slots
  /\ decoded \subseteq Captures
  /\ deadCopiers \subseteq CopyWorkers
  /\ stopped \in BOOLEAN
  /\ lastTurn \subseteq {"grab", "prep", "decode"}

\* No slot is ever in two hands or two queues at once, and while the session
\* runs none vanishes unaccounted: it travels, or it is one of the two known
\* losses.  The coordinator keeps no such ledger; it hands a token out for
\* whatever slot happens to be free.
SlotsTravelOnce ==
  /\ \A c, d \in Chan : \A i \in DOMAIN queue[c], j \in DOMAIN queue[d] :
       queue[c][i].slot = queue[d][j].slot => c = d /\ i = j
  /\ \A s \in Slots :
       \/ s \in leaked \cup lost
       \/ \E c \in Chan : s \in SlotsIn(c)
       \/ stopped /\ s \in Range(registry.free)

\* The state of a slot whose item is in channel c.
StageOf(c) ==
  IF c \in GrabSide THEN "filling"
  ELSE IF c \in PrepSide THEN "filled"
  ELSE "in_decode"

\* Every descriptor in flight is current, and the registry knows the stage its
\* frame is in.  The asynchronous prep path never tests this (it assigns and
\* ignores assign_decode's answer), and it is why it need not.
DescriptorsCurrent ==
  \A c \in Chan : \A i \in DOMAIN queue[c] :
    LET item == queue[c][i]
        slot == registry.slots[item.slot]
    IN  /\ item.generation = slot.generation
        /\ slot.state = StageOf(c)
        /\ slot.state # "filling" => slot.capture = item.capture

\* Nobody reads torn or foreign pixels: from the filled event to the end of the
\* decode, the slot shows exactly the capture its descriptor names, although
\* readers take no lock.
FrameIntact ==
  \A c \in FrameChannels : \A i \in DOMAIN queue[c] :
    pixels[queue[c][i].slot] = queue[c][i].capture

\* A captured frame that waits for its decode is never given up for a newer
\* one: only its own rejection takes a FILLED slot back to grab.  The overwrite
\* the dispatcher falls back to is never taken.
FilledFramesKept ==
  [][\A s \in Slots :
       registry.slots[s].state = "filled" /\ registry'.slots[s].state = "filling"
         => HasItem(PrepOut) /\ Head(queue[PrepOut]).slot = s]_vars

\* Slots leaked by full decode queues do not starve the receiver: a full queue's
\* worth of slots always stays in circulation (or was lost by dead copiers).
LeakFloor ==
  leaked # {} => SlotCount - Cardinality(leaked) >= FrameQueueSize

\* What the design document promises of every filled slot: once assigned to a
\* decode, it is on its way to the release.
AssignedFramesAreDecoded ==
  \A s \in Slots :
    registry.slots[s].state = "in_decode" => \E c \in DecodeSide : s \in SlotsIn(c)

\* The grab process may write slot s next.
WaitsForGrab(s) == s \in SlotsIn(SlotQueue) \cup SlotsIn(LocalSlots)

\* Back-pressure never wedges the ring: as long as the session runs, every
\* slot comes back to the grab loop again and again, however the queues fill,
\* unless it was leaked or lost for good, or waits for a copy when no copy thread
\* is left to make it.
SlotsComeBack ==
  \A s \in Slots : []<>(WaitsForGrab(s) \/ s \in leaked \cup lost \cup Stranded \/ stopped)

-----------------------------------------------------------------------------
(* The promise of FrameCycle, read off the registry.                         *)

CycleStage(s) ==
  IF s \in leaked \cup lost THEN "abandoned"
  ELSE CASE registry.slots[s].state = "filling"   -> "writable"
         [] registry.slots[s].state = "filled"    -> "filled"
         [] registry.slots[s].state = "in_decode" -> "decoding"
         [] registry.slots[s].state = "free"      -> "idle"

Cycle == INSTANCE FrameCycle WITH
  stage     <- [s \in Slots |-> CycleStage(s)],
  frame     <- [s \in Slots |-> registry.slots[s].capture],
  delivered <- decoded,
  running   <- ~stopped

\* The whole pipeline keeps to the cycle of a frame: with all its queues,
\* threads and races, a frame is decided on once, delivered at most once, and
\* its slot rewritten only after that.
ImplementsFrameCycle == Cycle!Spec

\* And under the fairness of its threads it goes through with it: every filled
\* slot is decided on and every assigned frame delivered while the session runs.
CompletesFrameCycle == Cycle!FairSpec

=============================================================================
