-------------------------- MODULE AudioBridgeProofs --------------------------
(***************************************************************************)
(* AudioBridge for any tasks, transcripts, buffer and queue sizes.  The    *)
(* argument: _stop_event is set in the same step as the first caller of    *)
(* stop enters it, so there is one stopper at most and it has not reported *)
(* while it drains (OneStopper); from then on nothing is scheduled, so the *)
(* sentinel stays last in the queue (SentinelLast); and a task that drains *)
(* is still the one _processing stands for (StopperWaits).  The end that   *)
(* the first caller owes is accounted for until it is recorded: the caller *)
(* drains, or was cancelled with the pipeline it ran in (StopFate,         *)
(* StoppingDrains).                                                        *)
(***************************************************************************)
EXTENDS AudioBridge, TLAPS

\* A pipeline that called stop waits for it.
StopperWaits ==
    \A t \in Tasks : stop[t] = "draining" => task[t].pc = "stopping"

\* Only one caller gets past the flag, and it reports when it has drained.
OneStopper ==
    /\ reported \in {0, 1}
    /\ ~stopEvent => reported = 0
    /\ \A s \in Stoppers : stop[s] = "draining" =>
          /\ stopEvent
          /\ reported = 0
          /\ \A u \in Stoppers : stop[u] = "draining" => u = s

\* The sentinel is queued by the stop and nothing comes after it.
SentinelLast ==
    /\ \A i \in 1..Len(queue) : queue[i] = Sentinel => stopEvent /\ i = Len(queue)
    /\ worker = "drained" => stopEvent /\ queue = <<>>

IInv == TypeOK /\ OnePipeline /\ StopperWaits /\ OneStopper /\ SentinelLast

Items == Turns \cup {Sentinel}

-----------------------------------------------------------------------------
(* The transcript queue *)

\* Scheduling a turn keeps the queue in its type and adds no sentinel; once the
\* call is stopping it changes nothing.
LEMMA ScheduleLemma ==
    ASSUME TypeOK, SentinelLast, NEW turn \in Turns
    PROVE  /\ Schedule(turn) \in Seq(Items)
           /\ Len(Schedule(turn)) <= QueueMax
           /\ stopEvent => Schedule(turn) = queue
           /\ ~stopEvent => \A i \in 1..Len(Schedule(turn)) : Schedule(turn)[i] # Sentinel
<1> DEFINE new == Append(queue, turn)
<1>1. queue \in Seq(Items) /\ Len(queue) <= QueueMax /\ turn \in Items /\ turn # Sentinel
    BY DEF TypeOK, Items, Turns, Sentinel
<1>2. new \in Seq(Items) /\ Len(new) = Len(queue) + 1
    BY <1>1
<1>3. \A i \in 1..Len(new) : new[i] = IF i = Len(queue) + 1 THEN turn ELSE queue[i]
    BY <1>1
<1>4. ~stopEvent => \A i \in 1..Len(queue) : queue[i] # Sentinel
    BY DEF SentinelLast
<1>5. CASE stopEvent \/ Len(queue) = QueueMax
    BY <1>1, <1>4, <1>5 DEF Schedule
<1>6. CASE ~stopEvent /\ Len(queue) # QueueMax
    <2>1. Schedule(turn) = new
        BY <1>6 DEF Schedule
    <2>2. Len(queue) \in Nat /\ QueueMax \in Nat
        BY <1>1, BridgeAssumption
    <2>3. Len(new) <= QueueMax
        BY <1>1, <1>2, <1>6, <2>2
    <2>4. \A i \in 1..Len(new) : new[i] # Sentinel
        BY <1>1, <1>2, <1>3, <1>4, <1>6, <2>2
    <2> QED
        BY <1>2, <1>6, <2>1, <2>3, <2>4
<1> QED
    BY <1>5, <1>6

\* What scheduling a turn means for the invariant.
LEMMA ScheduleKeeps ==
    ASSUME TypeOK, SentinelLast, NEW turn \in Turns,
           queue' = Schedule(turn), UNCHANGED <<stopEvent, worker>>
    PROVE  /\ queue' \in Seq(Items) /\ Len(queue') <= QueueMax
           /\ SentinelLast'
<1>1. CASE stopEvent
    <2>1. queue' = queue
        BY <1>1, ScheduleLemma
    <2> QED
        BY <2>1, ScheduleLemma DEF SentinelLast
<1>2. CASE ~stopEvent
    <2>1. \A i \in 1..Len(queue') : queue'[i] # Sentinel
        BY <1>2, ScheduleLemma
    <2>2. worker' # "drained"
        BY <1>2 DEF SentinelLast
    <2> QED
        BY <2>1, <2>2, ScheduleLemma DEF SentinelLast
<1> QED
    BY <1>1, <1>2

-----------------------------------------------------------------------------
(* stop *)

\* The first caller of stop sets the flag, becomes the only stopper or reports
\* at once, and puts the sentinel last.
LEMMA BeginStopLemma ==
    ASSUME IInv, NEW s \in Stoppers, NEW turns,
           turns \in Seq(Items), Len(turns) <= QueueMax,
           \A i \in 1..Len(turns) : turns[i] # Sentinel,
           BeginStop(s, turns)
    PROVE  /\ stopEvent' = TRUE
           /\ stop' \in [Stoppers -> {"none", "draining", "returned", "cancelled"}]
           /\ \A u \in Stoppers : u # s => stop'[u] # "draining"
           /\ queue' \in Seq(Items) /\ Len(queue') <= QueueMax
           /\ worker' \in {"none", "waiting", "sending", "drained", "cancelled"}
           /\ reported' \in Nat
           /\ OneStopper'
           /\ SentinelLast'
<1>1. /\ ~stopEvent /\ reported = 0
      /\ \A u \in Stoppers : stop[u] # "draining"
      /\ stop \in [Stoppers -> {"none", "draining", "returned", "cancelled"}]
      /\ worker \in {"none", "waiting", "sending", "drained", "cancelled"}
      /\ worker # "drained"
    BY DEF BeginStop, IInv, OneStopper, TypeOK, SentinelLast
<1>2. QueueMax \in Nat /\ Len(turns) \in Nat
    BY BridgeAssumption
<1>3. CASE DrainWorker(s, turns)
    <2>1. /\ stopEvent' = TRUE /\ queue' = Append(turns, Sentinel)
          /\ stop' = [stop EXCEPT ![s] = "draining"]
          /\ worker' = worker /\ reported' = 0
          /\ Len(turns) < QueueMax
        BY <1>1, <1>3 DEF DrainWorker
    <2>2. Sentinel \in Items
        BY DEF Items
    <2>3. queue' \in Seq(Items) /\ Len(queue') = Len(turns) + 1
        BY <2>1, <2>2
    <2>4. \A i \in 1..Len(queue') : queue'[i] = Sentinel => i = Len(queue')
        BY <2>1, <2>2, <2>3, <1>2
    <2>5. SentinelLast'
        BY <2>1, <2>4, <1>1 DEF SentinelLast
    <2>6. OneStopper'
        BY <1>1, <2>1 DEF OneStopper
    <2> QED
        BY <1>1, <1>2, <2>1, <2>3, <2>5, <2>6
<1>4. CASE CancelWorker(s, turns) \/ NoWorker(s, turns)
    <2>1. /\ stopEvent' = TRUE /\ queue' = turns
          /\ stop' = [stop EXCEPT ![s] = "returned"]
          /\ reported' = 1
          /\ worker' \in {"none", "waiting", "sending", "drained", "cancelled"}
          /\ worker' # "drained"
        BY <1>1, <1>4 DEF CancelWorker, NoWorker
    <2>2. \A u \in Stoppers : stop'[u] # "draining"
        BY <1>1, <2>1
    <2>3. OneStopper'
        BY <2>1, <2>2 DEF OneStopper
    <2>4. SentinelLast'
        BY <2>1 DEF SentinelLast
    <2>5. stop' \in [Stoppers -> {"none", "draining", "returned", "cancelled"}]
        BY <1>1, <2>1
    <2> QED
        BY <2>1, <2>2, <2>3, <2>4, <2>5
<1> QED
    BY <1>3, <1>4 DEF BeginStop

\* An idle queue before the stop holds no sentinel.
LEMMA QueueBeforeStop ==
    ASSUME IInv, ~stopEvent
    PROVE  /\ queue \in Seq(Items) /\ Len(queue) <= QueueMax
           /\ \A i \in 1..Len(queue) : queue[i] # Sentinel
BY DEF IInv, TypeOK, SentinelLast, Items

\* A caller of stop that is not a task changes nothing the tasks see.
LEMMA OutsideStop ==
    ASSUME IInv, NEW s \in {"owner", "room"}, BeginStop(s, queue),
           startPc' \in {"publishing", "started", "failed"},
           UNCHANGED <<turnVars, greeting>>
    PROVE  IInv'
<1>1. s \in Stoppers /\ s \notin Tasks
    BY BridgeAssumption DEF Stoppers
<1>2. ~stopEvent
    BY DEF BeginStop
<1>3. /\ stopEvent' = TRUE
      /\ stop' \in [Stoppers -> {"none", "draining", "returned", "cancelled"}]
      /\ \A u \in Stoppers : u # s => stop'[u] # "draining"
      /\ queue' \in Seq(Items) /\ Len(queue') <= QueueMax
      /\ worker' \in {"none", "waiting", "sending", "drained", "cancelled"}
      /\ reported' \in Nat
      /\ OneStopper'
      /\ SentinelLast'
    BY <1>1, <1>2, BeginStopLemma, QueueBeforeStop
<1>4. TypeOK'
    BY <1>3 DEF IInv, TypeOK, turnVars, Items
<1>5. OnePipeline'
    BY DEF IInv, OnePipeline, turnVars, Idle
<1>6. StopperWaits'
    BY <1>1, <1>3 DEF StopperWaits, Stoppers
<1> QED
    BY <1>3, <1>4, <1>5, <1>6 DEF IInv

-----------------------------------------------------------------------------
(* Tasks *)

\* Steps that leave the life of the bridge and its transcript alone.
Quiet == UNCHANGED <<lifeVars, transcriptVars>>

LEMMA QuietKeeps ==
    ASSUME IInv, Quiet
    PROVE  OneStopper' /\ SentinelLast'
BY DEF IInv, Quiet, OneStopper, SentinelLast, lifeVars, transcriptVars

\* Moving a task that is in a turn, to a place other than idle.
LEMMA MoveLemma ==
    ASSUME IInv, NEW t \in Tasks, NEW record \in TaskRecords,
           task[t] # Idle, record # Idle, task' = [task EXCEPT ![t] = record],
           processing' = processing
    PROVE  task' \in [Tasks -> TaskRecords] /\ OnePipeline'
<1>1. task \in [Tasks -> TaskRecords]
    BY DEF IInv, TypeOK
<1>2. task'[t] # Idle /\ \A u \in Tasks : u # t => task'[u] = task[u]
    BY <1>1
<1>3. OnePipeline'
    BY <1>2 DEF IInv, OnePipeline, Idle
<1> QED
    BY <1>1, <1>3

LEMMA GotoLemma ==
    ASSUME IInv, NEW t \in Tasks, NEW label \in InPipeline \cup InApology,
           task[t].pc # "idle", Goto(t, label), processing' = processing
    PROVE  /\ task' \in [Tasks -> TaskRecords] /\ OnePipeline'
           /\ \A u \in Tasks : task'[u].pc = IF u = t THEN label ELSE task[u].pc
<1>1. task \in [Tasks -> TaskRecords]
    BY DEF IInv, TypeOK
<1> DEFINE record == [task[t] EXCEPT !.pc = label]
<1>2. record \in TaskRecords /\ record.pc = label
    BY <1>1 DEF TaskRecords, InPipeline, InApology
<1>3. record # Idle /\ task[t] # Idle
    BY <1>2 DEF Idle, InPipeline, InApology
<1>4. task' = [task EXCEPT ![t] = record]
    BY <1>1 DEF Goto
<1>5. task' \in [Tasks -> TaskRecords] /\ OnePipeline'
    BY <1>2, <1>3, <1>4, MoveLemma
<1> QED
    BY <1>1, <1>2, <1>4, <1>5

\* The end of the only pipeline.
LEMMA ReleaseLemma ==
    ASSUME IInv, NEW t \in Tasks, task[t].pc # "idle", Release(t)
    PROVE  /\ task' \in [Tasks -> TaskRecords] /\ processing' = FALSE /\ fallback' = 0
           /\ OnePipeline'
           /\ \A u \in Tasks : task'[u] = Idle
<1>1. task \in [Tasks -> TaskRecords]
    BY DEF IInv, TypeOK
<1>2. \A u \in Tasks : u # t => task[u] = Idle
    BY DEF IInv, OnePipeline, Idle
<1>3. Idle \in TaskRecords
    BY DEF Idle, TaskRecords
<1>4. \A u \in Tasks : task'[u] = Idle
    BY <1>1, <1>2 DEF Release
<1> QED
    BY <1>1, <1>3, <1>4 DEF Release, OnePipeline

\* An utterance is submitted only while no task runs.
LEMMA SubmitLemma ==
    ASSUME IInv, NEW t \in Tasks, ~processing, Submit(t)
    PROVE  IInv'
<1>1. task \in [Tasks -> TaskRecords]
    BY DEF IInv, TypeOK
<1>2. \A u \in Tasks : task[u] = Idle
    BY DEF IInv, OnePipeline
<1> DEFINE record == [task[t] EXCEPT !.pc = "stt"]
<1>3. task' = [task EXCEPT ![t] = record]
    BY <1>1 DEF Submit, Goto
<1>4. record \in TaskRecords /\ record # Idle
    <2>1. record \in TaskRecords /\ record.pc = "stt"
        BY <1>1 DEF TaskRecords, InPipeline
    <2> QED
        BY <2>1 DEF Idle
<1>5. task' \in [Tasks -> TaskRecords] /\ processing' = TRUE
    BY <1>1, <1>3, <1>4 DEF Submit
<1>6. \A u \in Tasks : task'[u] = IF u = t THEN record ELSE Idle
    BY <1>1, <1>2, <1>3
<1>7. TypeOK'
    <2>1. 0 \in 0..(FallbackChunks - 1)
        BY BridgeAssumption
    <2> QED
        BY <1>5, <2>1 DEF IInv, TypeOK, Submit, lifeVars, transcriptVars
<1>8. OnePipeline'
    BY <1>4, <1>5, <1>6 DEF OnePipeline
<1>9. StopperWaits'
    BY <1>2 DEF IInv, StopperWaits, Idle, Submit, lifeVars
<1>10. OneStopper' /\ SentinelLast'
    BY QuietKeeps DEF Submit, Quiet
<1> QED
    BY <1>7, <1>8, <1>9, <1>10 DEF IInv

\* While a pipeline runs, no other task is in stop.
LEMMA OtherTasksAreOut ==
    ASSUME IInv, NEW t \in Tasks, task[t].pc # "idle"
    PROVE  \A u \in Tasks : u # t => task[u] = Idle /\ stop[u] # "draining"
<1>1. \A u \in Tasks : u # t => task[u] = Idle
    BY DEF IInv, OnePipeline, Idle
<1> QED
    BY <1>1 DEF IInv, StopperWaits, Idle

\* A step within a pipeline that is not in stop, and that only moves it on.
LEMMA WithinPipeline ==
    ASSUME IInv, NEW t \in Tasks, NEW label \in InPipeline \cup InApology,
           task[t].pc \notin {"idle", "stopping"}, Goto(t, label),
           UNCHANGED <<processing, stop>>
    PROVE  task' \in [Tasks -> TaskRecords] /\ OnePipeline' /\ StopperWaits'
<1>1. /\ task' \in [Tasks -> TaskRecords] /\ OnePipeline'
      /\ \A u \in Tasks : task'[u].pc = IF u = t THEN label ELSE task[u].pc
    BY GotoLemma
<1>2. StopperWaits'
    BY <1>1 DEF IInv, StopperWaits
<1> QED
    BY <1>1, <1>2

\* The end of a pipeline that is not in stop.
LEMMA OutOfPipeline ==
    ASSUME IInv, NEW t \in Tasks, task[t].pc \notin {"idle", "stopping"}, Release(t),
           UNCHANGED stop
    PROVE  /\ task' \in [Tasks -> TaskRecords] /\ processing' = FALSE /\ fallback' = 0
           /\ OnePipeline' /\ StopperWaits'
<1>1. \A u \in Tasks : stop'[u] # "draining"
    BY OtherTasksAreOut DEF IInv, StopperWaits
<1> QED
    BY <1>1, ReleaseLemma DEF StopperWaits

\* An empty buffer is a legal one.
LEMMA EmptyBuffer == 0 \in 0..(FallbackChunks - 1)
BY BridgeAssumption

-----------------------------------------------------------------------------
(* The life of the bridge *)

LEMMA StartCompletesStep == ASSUME IInv, StartCompletes PROVE IInv'
<1>1. TypeOK'
    BY DEF IInv, TypeOK, StartCompletes, turnVars
<1>2. OnePipeline' /\ StopperWaits' /\ OneStopper'
    BY DEF IInv, OnePipeline, StopperWaits, OneStopper, StartCompletes, turnVars
<1>3. SentinelLast'
    BY DEF IInv, SentinelLast, StartCompletes
<1> QED
    BY <1>1, <1>2, <1>3 DEF IInv

LEMMA StartFailsStep == ASSUME IInv, StartFails PROVE IInv'
<1>1. CASE BeginStop("owner", queue)
    BY <1>1, OutsideStop DEF StartFails
<1>2. CASE UNCHANGED <<stopEvent, stop, reported, transcriptVars>>
    <2>1. TypeOK'
        BY <1>2 DEF IInv, TypeOK, StartFails, turnVars, transcriptVars
    <2>2. OnePipeline' /\ StopperWaits' /\ OneStopper' /\ SentinelLast'
        BY <1>2 DEF IInv, OnePipeline, StopperWaits, OneStopper, SentinelLast, StartFails,
                    turnVars, transcriptVars
    <2> QED
        BY <2>1, <2>2 DEF IInv
<1> QED
    BY <1>1, <1>2 DEF StartFails

LEMMA OwnerStopsStep == ASSUME IInv, OwnerStops PROVE IInv'
BY OutsideStop DEF OwnerStops, IInv, TypeOK

LEMMA RoomDisconnectedStep == ASSUME IInv, RoomDisconnected PROVE IInv'
BY OutsideStop DEF RoomDisconnected, IInv, TypeOK

\* The only stopper reports and nobody drains any more.
LEMMA StopEndsStep == ASSUME IInv, NEW s \in Stoppers, StopEnds(s) PROVE IInv'
<1>1. /\ stop[s] = "draining" /\ ReturnFromStop(s)
      /\ worker' \in {worker, "cancelled"}
    BY DEF StopEnds, Drained, DrainTimesOut
<1>2. /\ stopEvent /\ stopEvent' = stopEvent /\ reported' = 1
      /\ \A u \in Stoppers : stop[u] = "draining" => u = s
    BY <1>1 DEF IInv, OneStopper, ReturnFromStop
<1>3. /\ stop' \in [Stoppers -> {"none", "draining", "returned", "cancelled"}]
      /\ \A u \in Stoppers : stop'[u] # "draining"
    BY <1>1, <1>2 DEF IInv, TypeOK, ReturnFromStop
<1>4. /\ task' \in [Tasks -> TaskRecords] /\ OnePipeline'
      /\ processing' \in BOOLEAN /\ fallback' \in 0..(FallbackChunks - 1)
    <2>1. CASE s \in Tasks
        <3>1. task[s].pc # "idle"
            BY <1>1, <2>1 DEF IInv, StopperWaits
        <3>2. Release(s)
            BY <1>1, <2>1 DEF ReturnFromStop
        <3> QED
            BY <2>1, <3>1, <3>2, ReleaseLemma, EmptyBuffer
    <2>2. CASE s \notin Tasks
        <3>1. UNCHANGED <<task, processing, fallback>>
            BY <1>1, <2>2 DEF ReturnFromStop
        <3> QED
            BY <3>1 DEF IInv, TypeOK, OnePipeline, Idle
    <2> QED
        BY <2>1, <2>2
<1>5. TypeOK'
    BY <1>1, <1>2, <1>3, <1>4 DEF IInv, TypeOK, ReturnFromStop
<1>6. StopperWaits' /\ OneStopper'
    BY <1>2, <1>3 DEF StopperWaits, OneStopper, Stoppers
<1>7. SentinelLast'
    BY <1>1 DEF IInv, SentinelLast, ReturnFromStop
<1> QED
    BY <1>4, <1>5, <1>6, <1>7 DEF IInv

-----------------------------------------------------------------------------
(* The receive loop *)

\* Steps that change neither who runs nor the life of the bridge.
LEMMA SameTasksKeep ==
    ASSUME IInv, TypeOK', Quiet, UNCHANGED <<task, processing>>
    PROVE  IInv'
<1>1. OnePipeline' /\ StopperWaits'
    BY DEF IInv, OnePipeline, StopperWaits, Quiet, lifeVars, Idle
<1> QED
    BY <1>1, QuietKeeps DEF IInv

LEMMA DropInputStep == ASSUME IInv, DropInput PROVE IInv'
<1>1. TypeOK'
    BY EmptyBuffer DEF IInv, TypeOK, DropInput, lifeVars, transcriptVars
<1> QED
    BY <1>1, SameTasksKeep DEF DropInput, Quiet

LEMMA BufferChunkStep == ASSUME IInv, BufferChunk PROVE IInv'
<1>1. fallback' \in 0..(FallbackChunks - 1)
    BY BridgeAssumption DEF IInv, TypeOK, BufferChunk
<1>2. TypeOK'
    BY <1>1 DEF IInv, TypeOK, BufferChunk, lifeVars, transcriptVars
<1> QED
    BY <1>2, SameTasksKeep DEF BufferChunk, Quiet

LEMMA SubmissionStep ==
    ASSUME IInv, NEW t \in Tasks, UtteranceComplete(t) \/ FlushFallback(t)
    PROVE  IInv'
BY SubmitLemma DEF UtteranceComplete, FlushFallback

-----------------------------------------------------------------------------
(* The pipeline *)

\* A pipeline that moves on, and touches no more than the flags of the call.
LEMMA QuietMove ==
    ASSUME IInv, NEW t \in Tasks, NEW label \in InPipeline \cup InApology,
           task[t].pc \notin {"idle", "stopping"}, Goto(t, label), Quiet,
           UNCHANGED <<processing, fallback, lastText, greeting>>,
           speaking' \in BOOLEAN
    PROVE  IInv'
<1>1. task' \in [Tasks -> TaskRecords] /\ OnePipeline' /\ StopperWaits'
    BY WithinPipeline DEF Quiet, lifeVars
<1>2. TypeOK'
    BY <1>1 DEF IInv, TypeOK, Quiet, lifeVars, transcriptVars
<1> QED
    BY <1>1, <1>2, QuietKeeps DEF IInv

\* A pipeline that returns without scheduling a turn.
LEMMA QuietFinish ==
    ASSUME IInv, NEW t \in Tasks, task[t].pc \notin {"idle", "stopping"}, Finish(t),
           UNCHANGED <<speaking, queue>>
    PROVE  IInv'
<1>1. /\ task' \in [Tasks -> TaskRecords] /\ processing' = FALSE
      /\ fallback' \in 0..(FallbackChunks - 1)
      /\ OnePipeline' /\ StopperWaits'
    BY OutOfPipeline, EmptyBuffer DEF Finish, lifeVars
<1>2. TypeOK'
    BY <1>1 DEF IInv, TypeOK, Finish, lifeVars
<1>3. OneStopper' /\ SentinelLast'
    BY QuietKeeps DEF Quiet, Finish, transcriptVars
<1> QED
    BY <1>1, <1>2, <1>3 DEF IInv

LEMMA SttStep ==
    ASSUME IInv, NEW t \in Tasks, SttEmpty(t) \/ SttDuplicate(t) \/ SttText(t)
    PROVE  IInv'
<1>1. CASE SttEmpty(t)
    BY <1>1, QuietFinish DEF SttEmpty
<1>2. CASE SttDuplicate(t)
    BY <1>2, QuietFinish DEF SttDuplicate
<1>3. CASE SttText(t)
    <2>1. task' \in [Tasks -> TaskRecords] /\ OnePipeline' /\ StopperWaits'
        BY <1>3, WithinPipeline DEF SttText, InPipeline, lifeVars
    <2>2. queue' \in Seq(Items) /\ Len(queue') <= QueueMax /\ SentinelLast'
        <3>1. "caller" \in Turns
            BY DEF Turns
        <3> QED
            BY <1>3, <3>1, ScheduleKeeps DEF SttText, IInv, lifeVars
    <2>3. TypeOK'
        BY <1>3, <2>1, <2>2 DEF IInv, TypeOK, SttText, lifeVars, Items
    <2>4. OneStopper'
        BY <1>3 DEF IInv, OneStopper, SttText, lifeVars
    <2> QED
        BY <2>1, <2>2, <2>3, <2>4 DEF IInv
<1> QED
    BY <1>1, <1>2, <1>3

LEMMA GraphAnswersStep ==
    ASSUME IInv, NEW t \in Tasks, GraphAnswers(t)
    PROVE  IInv'
<1>1. PICK escalates \in BOOLEAN :
          task' = [task EXCEPT ![t] = [pc |-> "tts", escalates |-> escalates]]
    BY DEF GraphAnswers
<1> DEFINE record == [pc |-> "tts", escalates |-> escalates]
<1>2. record \in TaskRecords /\ record # Idle /\ task[t] # Idle
    BY DEF TaskRecords, InPipeline, Idle, GraphAnswers
<1>3. Quiet /\ processing' = processing
    BY DEF GraphAnswers, Quiet
<1>4. task' \in [Tasks -> TaskRecords] /\ OnePipeline'
    BY <1>1, <1>2, <1>3, MoveLemma
<1>5. StopperWaits'
    <2>1. stop[t] # "draining"
        BY DEF IInv, StopperWaits, GraphAnswers
    <2>2. \A u \in Tasks : u # t => task'[u] = task[u]
        BY <1>1 DEF IInv, TypeOK
    <2> QED
        BY <1>3, <2>1, <2>2 DEF IInv, StopperWaits, Quiet, lifeVars
<1>6. TypeOK'
    BY <1>4 DEF IInv, TypeOK, GraphAnswers, lifeVars, transcriptVars
<1> QED
    BY <1>3, <1>4, <1>5, <1>6, QuietKeeps DEF IInv

LEMMA TtsReadyStep == ASSUME IInv, NEW t \in Tasks, TtsReady(t) PROVE IInv'
BY QuietMove DEF TtsReady, InPipeline, Quiet

LEMMA PipelineFailsStep == ASSUME IInv, NEW t \in Tasks, PipelineFails(t) PROVE IInv'
<1>1. speaking' \in BOOLEAN
    BY DEF PipelineFails, IInv, TypeOK
<1> QED
    BY <1>1, QuietMove DEF PipelineFails, InApology, Quiet

\* The answer is over: the pipeline ends, stops the call and waits, or stops it
\* and ends.
LEMMA AnswerSpokenStep == ASSUME IInv, NEW t \in Tasks, AnswerSpoken(t) PROVE IInv'
<1>1. /\ task[t].pc \notin {"idle", "stopping"}
      /\ speaking' \in BOOLEAN
      /\ UNCHANGED <<startPc, lastText, greeting>>
    BY DEF AnswerSpoken, IInv, TypeOK
<1>2. "agent" \in Turns
    BY DEF Turns
<1>3. CASE /\ Release(t)
           /\ queue' = Schedule("agent")
           /\ UNCHANGED <<stopEvent, stop, reported, worker>>
    <2>1. /\ task' \in [Tasks -> TaskRecords] /\ processing' = FALSE
          /\ fallback' \in 0..(FallbackChunks - 1)
          /\ OnePipeline' /\ StopperWaits'
        BY <1>1, <1>3, OutOfPipeline, EmptyBuffer
    <2>2. queue' \in Seq(Items) /\ Len(queue') <= QueueMax /\ SentinelLast'
        BY <1>2, <1>3, ScheduleKeeps DEF IInv
    <2>3. TypeOK'
        BY <1>1, <1>3, <2>1, <2>2 DEF IInv, TypeOK, Items
    <2>4. OneStopper'
        BY <1>3 DEF IInv, OneStopper
    <2> QED
        BY <2>1, <2>2, <2>3, <2>4 DEF IInv
<1>4. CASE /\ BeginStop(t, Schedule("agent"))
           /\ IF stop'[t] = "draining"
              THEN Goto(t, "stopping") /\ UNCHANGED <<processing, fallback>>
              ELSE Release(t)
    <2>1. t \in Stoppers /\ ~stopEvent
        BY <1>4 DEF Stoppers, BeginStop
    <2>2. /\ Schedule("agent") \in Seq(Items) /\ Len(Schedule("agent")) <= QueueMax
          /\ \A i \in 1..Len(Schedule("agent")) : Schedule("agent")[i] # Sentinel
        BY <1>2, <2>1, ScheduleLemma DEF IInv
    <2>3. /\ stopEvent' = TRUE
          /\ stop' \in [Stoppers -> {"none", "draining", "returned", "cancelled"}]
          /\ \A u \in Stoppers : u # t => stop'[u] # "draining"
          /\ queue' \in Seq(Items) /\ Len(queue') <= QueueMax
          /\ worker' \in {"none", "waiting", "sending", "drained", "cancelled"}
          /\ reported' \in Nat
          /\ OneStopper'
          /\ SentinelLast'
        BY <1>4, <2>1, <2>2, BeginStopLemma
    <2>4. /\ task' \in [Tasks -> TaskRecords] /\ processing' \in BOOLEAN
          /\ fallback' \in 0..(FallbackChunks - 1)
          /\ OnePipeline' /\ StopperWaits'
        <3>1. CASE stop'[t] = "draining"
            <4>1. Goto(t, "stopping") /\ UNCHANGED <<processing, fallback>>
                BY <1>4, <3>1
            <4>2. /\ task' \in [Tasks -> TaskRecords] /\ OnePipeline'
                  /\ \A u \in Tasks :
                        task'[u].pc = IF u = t THEN "stopping" ELSE task[u].pc
                BY <1>1, <4>1, GotoLemma DEF InPipeline
            <4>3. StopperWaits'
                BY <2>3, <4>2 DEF StopperWaits, Stoppers
            <4> QED
                BY <4>1, <4>2, <4>3 DEF IInv, TypeOK
        <3>2. CASE stop'[t] # "draining"
            <4>1. Release(t)
                BY <1>4, <3>2
            <4>2. \A u \in Tasks : stop'[u] # "draining"
                BY <2>3, <3>2 DEF Stoppers
            <4> QED
                BY <1>1, <4>1, <4>2, ReleaseLemma, EmptyBuffer DEF StopperWaits
        <3> QED
            BY <3>1, <3>2
    <2>5. TypeOK'
        BY <1>1, <2>3, <2>4 DEF IInv, TypeOK, Items
    <2> QED
        BY <2>3, <2>4, <2>5 DEF IInv
<1> QED
    BY <1>3, <1>4 DEF AnswerSpoken

\* wait_for fires; a stop that is cut short neither reports nor drains on.
LEMMA PipelineTimesOutStep ==
    ASSUME IInv, NEW t \in Tasks, PipelineTimesOut(t)
    PROVE  IInv'
<1>1. CASE task[t].pc # "stopping"
    <2>1. speaking' \in BOOLEAN
        BY DEF PipelineTimesOut, IInv, TypeOK
    <2> QED
        BY <1>1, <2>1, QuietMove
        DEF PipelineTimesOut, InPipeline, InApology, Quiet, lifeVars, transcriptVars
<1>2. CASE task[t].pc = "stopping"
    <2>1. /\ stop' = [stop EXCEPT ![t] = "cancelled"]
          /\ worker' \in {worker, "cancelled"}
          /\ Goto(t, "apologyTts") /\ speaking' \in BOOLEAN
          /\ UNCHANGED <<startPc, stopEvent, reported, processing, fallback, lastText,
                         greeting, queue>>
        BY <1>2 DEF PipelineTimesOut, IInv, TypeOK
    <2>2. t \in Stoppers /\ stop \in [Stoppers -> {"none", "draining", "returned", "cancelled"}]
        BY DEF Stoppers, IInv, TypeOK
    <2>3. \A u \in Stoppers : stop'[u] = IF u = t THEN "cancelled" ELSE stop[u]
        BY <2>1, <2>2
    <2>4. /\ task' \in [Tasks -> TaskRecords] /\ OnePipeline'
          /\ \A u \in Tasks : task'[u].pc = IF u = t THEN "apologyTts" ELSE task[u].pc
        BY <1>2, <2>1, GotoLemma DEF InApology
    <2>5. TypeOK'
        BY <2>1, <2>2, <2>4 DEF IInv, TypeOK
    <2>6. StopperWaits'
        BY <2>3, <2>4 DEF IInv, StopperWaits, Stoppers
    <2>7. OneStopper'
        BY <2>1, <2>3 DEF IInv, OneStopper
    <2>8. SentinelLast'
        BY <2>1 DEF IInv, SentinelLast
    <2> QED
        BY <2>4, <2>5, <2>6, <2>7, <2>8 DEF IInv
<1> QED
    BY <1>1, <1>2

LEMMA ApologyStep == ASSUME IInv, NEW t \in Tasks, Apology(t) PROVE IInv'
<1>1. CASE ApologyReady(t)
    BY <1>1, QuietMove DEF ApologyReady, InApology, Quiet
<1>2. CASE ApologySpoken(t)
    <2>1. /\ task[t].pc \notin {"idle", "stopping"} /\ Finish(t)
          /\ queue' = Schedule("agent") /\ speaking' = FALSE
        BY <1>2 DEF ApologySpoken
    <2>2. /\ task' \in [Tasks -> TaskRecords] /\ processing' = FALSE
          /\ fallback' \in 0..(FallbackChunks - 1)
          /\ OnePipeline' /\ StopperWaits'
        BY <2>1, OutOfPipeline, EmptyBuffer DEF Finish, lifeVars
    <2>3. queue' \in Seq(Items) /\ Len(queue') <= QueueMax /\ SentinelLast'
        <3>1. "agent" \in Turns
            BY DEF Turns
        <3> QED
            BY <2>1, <3>1, ScheduleKeeps DEF Finish, IInv, lifeVars
    <2>4. TypeOK'
        BY <2>1, <2>2, <2>3 DEF IInv, TypeOK, Finish, lifeVars, Items
    <2>5. OneStopper'
        BY <2>1 DEF IInv, OneStopper, Finish, lifeVars
    <2> QED
        BY <2>2, <2>3, <2>4, <2>5 DEF IInv
<1>3. CASE ApologyFails(t)
    BY <1>3, QuietFinish DEF ApologyFails
<1> QED
    BY <1>1, <1>2, <1>3 DEF Apology

-----------------------------------------------------------------------------
(* The window, the greeting and the worker *)

LEMMA WindowClosesStep == ASSUME IInv, WindowCloses PROVE IInv'
<1>1. TypeOK'
    BY DEF IInv, TypeOK, WindowCloses, lifeVars, transcriptVars
<1> QED
    BY <1>1, SameTasksKeep DEF WindowCloses, Quiet

LEMMA GreetingStep ==
    ASSUME IInv, GreetingReady \/ GreetingSpoken \/ GreetingFails
    PROVE  IInv'
<1>1. CASE GreetingReady
    <2>1. TypeOK'
        BY <1>1 DEF IInv, TypeOK, GreetingReady, lifeVars, transcriptVars
    <2> QED
        BY <1>1, <2>1, SameTasksKeep DEF GreetingReady, Quiet
<1>2. CASE GreetingFails
    <2>1. TypeOK'
        BY <1>2 DEF IInv, TypeOK, GreetingFails, lifeVars, turnVars, transcriptVars
    <2> QED
        BY <1>2, <2>1, SameTasksKeep DEF GreetingFails, Quiet, turnVars
<1>3. CASE GreetingSpoken
    <2>1. queue' \in Seq(Items) /\ Len(queue') <= QueueMax /\ SentinelLast'
        <3>1. "agent" \in Turns
            BY DEF Turns
        <3> QED
            BY <1>3, <3>1, ScheduleKeeps DEF GreetingSpoken, IInv, lifeVars
    <2>2. TypeOK'
        BY <1>3, <2>1 DEF IInv, TypeOK, GreetingSpoken, lifeVars, Items
    <2>3. OnePipeline' /\ StopperWaits' /\ OneStopper'
        BY <1>3 DEF IInv, OnePipeline, StopperWaits, OneStopper, GreetingSpoken, lifeVars,
                    Idle
    <2> QED
        BY <2>1, <2>2, <2>3 DEF IInv
<1> QED
    BY <1>1, <1>2, <1>3

\* The sentinel is the last item the worker takes.
LEMMA WorkerTakesStep == ASSUME IInv, WorkerTakes PROVE IInv'
<1>1. /\ queue \in Seq(Items) /\ queue # <<>> /\ Len(queue) <= QueueMax
      /\ queue' = Tail(queue)
      /\ worker' = IF Head(queue) = Sentinel THEN "drained" ELSE "sending"
      /\ UNCHANGED <<lifeVars, turnVars, greeting>>
    BY DEF IInv, TypeOK, WorkerTakes, Items
<1>2. /\ queue' \in Seq(Items) /\ Len(queue') = Len(queue) - 1 /\ Len(queue) \in Nat \ {0}
      /\ Head(queue) = queue[1]
      /\ \A i \in 1..Len(queue') : queue'[i] = queue[i + 1]
    BY <1>1
<1>3. Len(queue') <= QueueMax
    BY <1>1, <1>2, BridgeAssumption
<1>4. SentinelLast'
    <2>1. \A i \in 1..Len(queue') : queue'[i] = Sentinel => stopEvent' /\ i = Len(queue')
        <3>1. \A i \in 1..Len(queue') : i + 1 \in 1..Len(queue)
            BY <1>2
        <3>2. \A j \in 1..Len(queue) : queue[j] = Sentinel => stopEvent /\ j = Len(queue)
            BY DEF IInv, SentinelLast
        <3>3. ASSUME NEW i \in 1..Len(queue'), queue'[i] = Sentinel
              PROVE  stopEvent /\ i = Len(queue')
            <4>1. queue[i + 1] = Sentinel
                BY <1>2, <3>3
            <4>2. stopEvent /\ i + 1 = Len(queue)
                BY <3>1, <3>2, <4>1
            <4> QED
                BY <1>2, <4>2
        <3> QED
            BY <1>1, <3>3 DEF lifeVars
    <2>2. ASSUME worker' = "drained" PROVE stopEvent' /\ queue' = <<>>
        <3>1. queue[1] = Sentinel /\ 1 \in 1..Len(queue)
            BY <1>1, <1>2, <2>2
        <3>2. stopEvent /\ Len(queue) = 1
            BY <3>1 DEF IInv, SentinelLast
        <3>3. Len(queue') = 0
            BY <1>2, <3>2
        <3> QED
            BY <1>1, <1>2, <3>2, <3>3 DEF lifeVars
    <2> QED
        BY <2>1, <2>2 DEF SentinelLast
<1>5. TypeOK'
    BY <1>1, <1>2, <1>3 DEF IInv, TypeOK, lifeVars, turnVars, Items
<1>6. OnePipeline' /\ StopperWaits' /\ OneStopper'
    BY <1>1 DEF IInv, OnePipeline, StopperWaits, OneStopper, lifeVars, turnVars, Idle
<1> QED
    BY <1>4, <1>5, <1>6 DEF IInv

LEMMA WorkerSentStep == ASSUME IInv, WorkerSent PROVE IInv'
<1>1. TypeOK'
    BY DEF IInv, TypeOK, WorkerSent, lifeVars, turnVars
<1>2. OnePipeline' /\ StopperWaits' /\ OneStopper' /\ SentinelLast'
    BY DEF IInv, OnePipeline, StopperWaits, OneStopper, SentinelLast, WorkerSent,
           lifeVars, turnVars, Idle
<1> QED
    BY <1>1, <1>2 DEF IInv

-----------------------------------------------------------------------------
(* The inductive invariant *)

\* A new bridge has no task, no stopper and an empty queue.
LEMMA InitLemma == Init => IInv
<1> SUFFICES ASSUME Init PROVE IInv
    OBVIOUS
<1>1. TypeOK
    <2>1. Idle \in TaskRecords
        BY DEF Idle, TaskRecords
    <2>2. queue \in Seq(Turns \cup {Sentinel}) /\ Len(queue) <= QueueMax
        BY BridgeAssumption DEF Init
    <2>3. task \in [Tasks -> TaskRecords] /\ fallback \in 0..(FallbackChunks - 1)
        BY <2>1, EmptyBuffer DEF Init
    <2> QED
        BY <2>2, <2>3 DEF Init, TypeOK
<1>2. OnePipeline /\ StopperWaits
    BY DEF Init, OnePipeline, StopperWaits, Stoppers
<1>3. OneStopper /\ SentinelLast
    BY DEF Init, OneStopper, SentinelLast
<1> QED
    BY <1>1, <1>2, <1>3 DEF IInv

\* Every step of every coroutine of the bridge keeps the invariant.
LEMMA StepLemma == IInv /\ [Next]_vars => IInv'
<1> SUFFICES ASSUME IInv, [Next]_vars PROVE IInv'
    OBVIOUS
<1>1. CASE StartFails
    BY <1>1, StartFailsStep
<1>2. CASE StartCompletes
    BY <1>2, StartCompletesStep
<1>3. CASE OwnerStops
    BY <1>3, OwnerStopsStep
<1>4. CASE RoomDisconnected
    BY <1>4, RoomDisconnectedStep
<1>5. CASE \E s \in Stoppers : StopEnds(s)
    BY <1>5, StopEndsStep
<1>6. CASE DropInput
    BY <1>6, DropInputStep
<1>7. CASE BufferChunk
    BY <1>7, BufferChunkStep
<1>8. CASE \E t \in Tasks : UtteranceComplete(t) \/ FlushFallback(t)
    BY <1>8, SubmissionStep
<1>9. CASE \E t \in Tasks : Pipeline(t) \/ PipelineTimesOut(t) \/ Apology(t)
    <2>1. PICK t \in Tasks : Pipeline(t) \/ PipelineTimesOut(t) \/ Apology(t)
        BY <1>9
    <2>2. CASE Pipeline(t)
        BY <2>2, SttStep, GraphAnswersStep, TtsReadyStep, AnswerSpokenStep,
           PipelineFailsStep DEF Pipeline
    <2> QED
        BY <2>1, <2>2, PipelineTimesOutStep, ApologyStep
<1>10. CASE WindowCloses
    BY <1>10, WindowClosesStep
<1>11. CASE GreetingReady \/ GreetingSpoken \/ GreetingFails
    BY <1>11, GreetingStep
<1>12. CASE WorkerTakes
    BY <1>12, WorkerTakesStep
<1>13. CASE WorkerSent
    BY <1>13, WorkerSentStep
<1>14. CASE UNCHANGED vars
    <2>1. Quiet /\ UNCHANGED <<turnVars, startPc, greeting>>
        BY <1>14 DEF vars, Quiet, lifeVars
    <2>2. TypeOK'
        BY <2>1 DEF IInv, TypeOK, Quiet, lifeVars, turnVars, transcriptVars
    <2> QED
        BY <2>1, <2>2, SameTasksKeep DEF turnVars
<1> QED
    BY <1>1, <1>2, <1>3, <1>4, <1>5, <1>6, <1>7, <1>8, <1>9, <1>10, <1>11, <1>12,
       <1>13, <1>14 DEF Next

-----------------------------------------------------------------------------
(* What becomes of a stop *)

\* The flag, the calls of stop and the record of the end tell the same story: one
\* caller of stop gets past the flag, it reports when it returns, and only a
\* pipeline is ever cut short in it.
StopFate ==
    /\ stopEvent <=> \E s \in Stoppers : stop[s] # "none"
    /\ \A s, u \in Stoppers : stop[s] # "none" /\ stop[u] # "none" => s = u
    /\ reported = IF \E s \in Stoppers : stop[s] = "returned" THEN 1 ELSE 0
    /\ \A s \in Stoppers : stop[s] = "cancelled" => s \in Tasks

\* A step that calls no stop and ends none.
LEMMA SameStopKeeps ==
    ASSUME StopFate, UNCHANGED <<stopEvent, stop, reported>>
    PROVE  StopFate'
BY DEF StopFate

\* The first caller of stop is the only one.
LEMMA BeginStopFate ==
    ASSUME TypeOK, StopFate, NEW s \in Stoppers, NEW turns, BeginStop(s, turns)
    PROVE  StopFate'
<1>1. ~stopEvent
    BY DEF BeginStop
<1>2. \A u \in Stoppers : stop[u] = "none"
    BY <1>1 DEF StopFate
<1>3. reported = 0
    BY <1>2 DEF StopFate
<1>4. /\ stopEvent'
      /\ \/ stop' = [stop EXCEPT ![s] = "draining"] /\ reported' = reported
         \/ stop' = [stop EXCEPT ![s] = "returned"] /\ reported' = reported + 1
    BY DEF BeginStop, DrainWorker, CancelWorker, NoWorker
<1>5. PICK label \in {"draining", "returned"} :
          /\ stop' = [stop EXCEPT ![s] = label]
          /\ label = "draining" => reported' = 0
          /\ label = "returned" => reported' = 1
    <2>1. CASE stop' = [stop EXCEPT ![s] = "draining"] /\ reported' = reported
        BY <1>3, <2>1
    <2>2. CASE stop' = [stop EXCEPT ![s] = "returned"] /\ reported' = reported + 1
        BY <1>3, <2>2
    <2> QED
        BY <1>4, <2>1, <2>2
<1>6. \A u \in Stoppers : stop'[u] = IF u = s THEN label ELSE "none"
    BY <1>2, <1>5 DEF TypeOK
<1>7. reported' = IF \E u \in Stoppers : stop'[u] = "returned" THEN 1 ELSE 0
    <2>1. CASE label = "returned"
        BY <1>5, <1>6, <2>1
    <2>2. CASE label = "draining"
        BY <1>5, <1>6, <2>2
    <2> QED
        BY <2>1, <2>2
<1> QED
    BY <1>4, <1>6, <1>7 DEF StopFate

\* The only stopper goes from draining to the end of its call.
LEMMA EndStopFate ==
    ASSUME TypeOK, StopFate, NEW s \in Stoppers, stop[s] = "draining",
           NEW label \in {"returned", "cancelled"},
           stop' = [stop EXCEPT ![s] = label], UNCHANGED stopEvent,
           reported' = IF label = "returned" THEN reported + 1 ELSE reported,
           label = "cancelled" => s \in Tasks
    PROVE  StopFate'
<1>1. \A u \in Stoppers : u # s => stop[u] = "none"
    BY DEF StopFate
<1>2. \A u \in Stoppers : stop'[u] = IF u = s THEN label ELSE "none"
    BY <1>1 DEF TypeOK
<1>3. reported = 0
    BY <1>1 DEF StopFate
<1>4. reported' = IF \E u \in Stoppers : stop'[u] = "returned" THEN 1 ELSE 0
    <2>1. CASE label = "returned"
        BY <1>2, <1>3, <2>1
    <2>2. CASE label = "cancelled"
        BY <1>2, <1>3, <2>2
    <2> QED
        BY <2>1, <2>2
<1> QED
    BY <1>2, <1>4 DEF StopFate

\* A pipeline that waits for the stop it called has not been answered yet.
StoppingDrains == \A t \in Tasks : task[t].pc = "stopping" => stop[t] = "draining"

LEMMA SameStopping ==
    ASSUME StoppingDrains,
           \A t \in Tasks : task'[t].pc = "stopping" =>
               \/ task[t].pc = "stopping" /\ stop'[t] = stop[t]
               \/ stop'[t] = "draining"
    PROVE  StoppingDrains'
BY DEF StoppingDrains

\* A task that goes anywhere but to stop, while the others stay where they are.
LEMMA MoveStopping ==
    ASSUME TypeOK, StoppingDrains, NEW t \in Tasks, NEW record \in TaskRecords,
           record.pc # "stopping", task' = [task EXCEPT ![t] = record],
           \A u \in Tasks : u # t => stop'[u] = stop[u]
    PROVE  StoppingDrains'
<1>1. \A u \in Tasks : task'[u] = IF u = t THEN record ELSE task[u]
    BY DEF TypeOK
<1> QED
    BY <1>1 DEF StoppingDrains

LEMMA GotoStopping ==
    ASSUME TypeOK, StoppingDrains, NEW t \in Tasks,
           NEW label \in InPipeline \cup InApology, label # "stopping", Goto(t, label),
           \A u \in Tasks : u # t => stop'[u] = stop[u]
    PROVE  StoppingDrains'
<1> DEFINE record == [task[t] EXCEPT !.pc = label]
<1>1. task[t] \in TaskRecords
    BY DEF TypeOK
<1>2. record \in TaskRecords /\ record.pc = label
    BY <1>1 DEF TaskRecords
<1>3. task' = [task EXCEPT ![t] = record]
    BY DEF Goto
<1> HIDE DEF record
<1> QED
    BY <1>2, <1>3, MoveStopping

LEMMA ReleaseStopping ==
    ASSUME TypeOK, StoppingDrains, NEW t \in Tasks, Release(t),
           \A u \in Tasks : u # t => stop'[u] = stop[u]
    PROVE  StoppingDrains'
<1>1. Idle \in TaskRecords /\ Idle.pc # "stopping"
    BY DEF Idle, TaskRecords
<1> QED
    BY <1>1, MoveStopping DEF Release

LEMMA StoppingStep == IInv /\ StoppingDrains /\ [Next]_vars => StoppingDrains'
<1> SUFFICES ASSUME IInv, StoppingDrains, [Next]_vars PROVE StoppingDrains'
    OBVIOUS
<1>0. TypeOK /\ "owner" \notin Tasks /\ "room" \notin Tasks /\ Tasks \subseteq Stoppers
    BY BridgeAssumption DEF IInv, Stoppers
<1>1. ASSUME NEW s \in Stoppers, NEW turns, BeginStop(s, turns)
      PROVE  /\ \A u \in Tasks : u # s => stop'[u] = stop[u]
             /\ stop'[s] \in {"draining", "returned"}
    <2>1. \E label \in {"draining", "returned"} : stop' = [stop EXCEPT ![s] = label]
        BY <1>1 DEF BeginStop, DrainWorker, CancelWorker, NoWorker
    <2> QED
        BY <1>0, <2>1 DEF TypeOK
<1>2. CASE StartFails \/ OwnerStops \/ RoomDisconnected
    <2>1. task' = task /\ \A u \in Tasks : stop'[u] = stop[u]
        BY <1>0, <1>1, <1>2
        DEF StartFails, OwnerStops, RoomDisconnected, turnVars, Stoppers
    <2> QED
        BY <2>1, SameStopping
<1>3. CASE UNCHANGED <<stop, task>>
    BY <1>3, SameStopping
<1>4. ASSUME NEW s \in Stoppers, StopEnds(s) PROVE StoppingDrains'
    <2>1. ReturnFromStop(s)
        BY <1>4 DEF StopEnds, Drained, DrainTimesOut
    <2>2. \A u \in Tasks : u # s => stop'[u] = stop[u]
        BY <1>0, <2>1 DEF ReturnFromStop, TypeOK
    <2>3. CASE s \in Tasks
        BY <1>0, <2>1, <2>2, <2>3, ReleaseStopping DEF ReturnFromStop
    <2>4. CASE s \notin Tasks
        BY <2>1, <2>2, <2>4, SameStopping DEF ReturnFromStop
    <2> QED
        BY <2>3, <2>4
<1>5. ASSUME NEW t \in Tasks, UtteranceComplete(t) \/ FlushFallback(t)
      PROVE  StoppingDrains'
    BY <1>0, <1>5, GotoStopping
    DEF UtteranceComplete, FlushFallback, Submit, lifeVars, InPipeline
<1>6. ASSUME NEW t \in Tasks, Pipeline(t) PROVE StoppingDrains'
    <2>1. CASE SttEmpty(t) \/ SttDuplicate(t)
        BY <1>0, <2>1, ReleaseStopping DEF SttEmpty, SttDuplicate, Finish, lifeVars
    <2>2. CASE SttText(t)
        BY <1>0, <2>2, GotoStopping DEF SttText, lifeVars, InPipeline
    <2>3. CASE GraphAnswers(t)
        <3>1. PICK escalates \in BOOLEAN :
                  task' = [task EXCEPT ![t] = [pc |-> "tts", escalates |-> escalates]]
            BY <2>3 DEF GraphAnswers
        <3>2. [pc |-> "tts", escalates |-> escalates] \in TaskRecords
            BY DEF TaskRecords, InPipeline
        <3> QED
            BY <1>0, <2>3, <3>1, <3>2, MoveStopping DEF GraphAnswers, lifeVars
    <2>4. CASE TtsReady(t)
        BY <1>0, <2>4, GotoStopping DEF TtsReady, lifeVars, InPipeline
    <2>5. CASE PipelineFails(t)
        BY <1>0, <2>5, GotoStopping DEF PipelineFails, lifeVars, InApology
    <2>6. CASE AnswerSpoken(t)
        <3>1. CASE Release(t) /\ UNCHANGED stop
            BY <1>0, <3>1, ReleaseStopping
        <3>2. CASE /\ BeginStop(t, Schedule("agent"))
                   /\ IF stop'[t] = "draining" THEN Goto(t, "stopping") ELSE Release(t)
            <4>1. \A u \in Tasks : u # t => stop'[u] = stop[u]
                BY <1>0, <1>1, <3>2
            <4>2. CASE stop'[t] = "draining"
                <5>1. \A u \in Tasks : u # t => task'[u] = task[u]
                    BY <1>0, <3>2, <4>2 DEF Goto, TypeOK
                <5> QED
                    BY <4>1, <4>2, <5>1, SameStopping
            <4>3. CASE stop'[t] # "draining"
                BY <1>0, <3>2, <4>1, <4>3, ReleaseStopping
            <4> QED
                BY <4>2, <4>3
        <3> QED
            BY <2>6, <3>1, <3>2 DEF AnswerSpoken
    <2> QED
        BY <1>6, <2>1, <2>2, <2>3, <2>4, <2>5, <2>6 DEF Pipeline
<1>7. ASSUME NEW t \in Tasks, PipelineTimesOut(t) PROVE StoppingDrains'
    <2>1. \A u \in Tasks : u # t => stop'[u] = stop[u]
        BY <1>0, <1>7 DEF PipelineTimesOut, TypeOK
    <2> QED
        BY <1>0, <1>7, <2>1, GotoStopping DEF PipelineTimesOut, InApology
<1>8. ASSUME NEW t \in Tasks, Apology(t) PROVE StoppingDrains'
    <2>1. UNCHANGED stop /\ (Release(t) \/ Goto(t, "apologyPublishing"))
        BY <1>8 DEF Apology, ApologyReady, ApologySpoken, ApologyFails, Finish, lifeVars
    <2> QED
        BY <1>0, <2>1, GotoStopping, ReleaseStopping DEF InApology
<1>9. CASE \/ StartCompletes \/ DropInput \/ BufferChunk \/ WindowCloses
           \/ GreetingReady \/ GreetingSpoken \/ GreetingFails
           \/ WorkerTakes \/ WorkerSent \/ UNCHANGED vars
    BY <1>3, <1>9
    DEF StartCompletes, DropInput, BufferChunk, WindowCloses, GreetingReady,
        GreetingSpoken, GreetingFails, WorkerTakes, WorkerSent, vars, lifeVars, turnVars
<1> QED
    BY <1>2, <1>4, <1>5, <1>6, <1>7, <1>8, <1>9 DEF Next

LEMMA StopFateStep == IInv /\ StoppingDrains /\ StopFate /\ [Next]_vars => StopFate'
<1> SUFFICES ASSUME IInv, StoppingDrains, StopFate, [Next]_vars PROVE StopFate'
    OBVIOUS
<1> USE DEF IInv
<1>0. {"owner", "room"} \cup Tasks = Stoppers
    BY DEF Stoppers
<1>1. CASE StartFails
    BY <1>0, <1>1, BeginStopFate, SameStopKeeps DEF StartFails
<1>2. CASE StartCompletes
    BY <1>2, SameStopKeeps DEF StartCompletes
<1>3. CASE OwnerStops \/ RoomDisconnected
    BY <1>0, <1>3, BeginStopFate DEF OwnerStops, RoomDisconnected
<1>4. ASSUME NEW s \in Stoppers, StopEnds(s) PROVE StopFate'
    BY <1>4, EndStopFate DEF StopEnds, Drained, DrainTimesOut, ReturnFromStop
<1>5. CASE DropInput \/ BufferChunk \/ WindowCloses
    BY <1>5, SameStopKeeps DEF DropInput, BufferChunk, WindowCloses, lifeVars
<1>6. ASSUME NEW t \in Tasks, UtteranceComplete(t) \/ FlushFallback(t) PROVE StopFate'
    BY <1>6, SameStopKeeps DEF UtteranceComplete, FlushFallback, Submit, lifeVars
<1>7. ASSUME NEW t \in Tasks, Pipeline(t) PROVE StopFate'
    <2>1. CASE AnswerSpoken(t)
        BY <1>0, <2>1, BeginStopFate, SameStopKeeps DEF AnswerSpoken
    <2>2. CASE SttEmpty(t) \/ SttDuplicate(t) \/ SttText(t)
        BY <2>2, SameStopKeeps DEF SttEmpty, SttDuplicate, SttText, Finish, lifeVars
    <2>3. CASE GraphAnswers(t) \/ TtsReady(t) \/ PipelineFails(t)
        BY <2>3, SameStopKeeps DEF GraphAnswers, TtsReady, PipelineFails, lifeVars
    <2> QED
        BY <1>7, <2>1, <2>2, <2>3 DEF Pipeline
<1>8. ASSUME NEW t \in Tasks, PipelineTimesOut(t) PROVE StopFate'
    <2>1. CASE task[t].pc # "stopping"
        BY <1>8, <2>1, SameStopKeeps DEF PipelineTimesOut
    <2>2. CASE task[t].pc = "stopping" /\ stop[t] = "draining"
        BY <1>0, <1>8, <2>2, EndStopFate DEF PipelineTimesOut
    <2>3. task[t].pc = "stopping" => stop[t] = "draining"
        BY DEF StoppingDrains
    <2> QED
        BY <2>1, <2>2, <2>3
<1>9. ASSUME NEW t \in Tasks, Apology(t) PROVE StopFate'
    BY <1>9, SameStopKeeps
    DEF Apology, ApologyReady, ApologySpoken, ApologyFails, Finish, lifeVars
<1>10. CASE GreetingReady \/ GreetingSpoken \/ GreetingFails
    BY <1>10, SameStopKeeps DEF GreetingReady, GreetingSpoken, GreetingFails, lifeVars
<1>11. CASE WorkerTakes \/ WorkerSent
    BY <1>11, SameStopKeeps DEF WorkerTakes, WorkerSent, lifeVars
<1>12. CASE UNCHANGED vars
    BY <1>12, SameStopKeeps DEF vars, lifeVars
<1> QED
    BY <1>1, <1>2, <1>3, <1>4, <1>5, <1>6, <1>7, <1>8, <1>9, <1>10, <1>11, <1>12 DEF Next

-----------------------------------------------------------------------------
(* Results *)

\* The inductive invariant holds throughout a call, whatever the number of
\* utterances, the texts, the buffer and the queue.
THEOREM InductiveInvariant == Spec => []IInv
BY InitLemma, StepLemma, PTL DEF Spec, Safety

\* Every variable of the bridge keeps its type; the fallback buffer and the
\* transcript queue keep their bounds.
THEOREM TypeCorrectness == Spec => []TypeOK
<1>1. IInv => TypeOK
    BY DEF IInv
<1> QED
    BY <1>1, InductiveInvariant, PTL

\* One utterance is processed at a time, and _processing says so exactly
\* (_submit_utterance, _process_utterance).
THEOREM SinglePipeline == Spec => []OnePipeline
<1>1. IInv => OnePipeline
    BY DEF IInv
<1> QED
    BY <1>1, InductiveInvariant, PTL

\* The flag, the calls of stop and the record of the end agree throughout
\* (stop, _run_pipeline and the wait_for around it).
THEOREM StopInvariant == Spec => [](StopFate /\ StoppingDrains)
<1>1. Init => StopFate /\ StoppingDrains
    BY DEF Init, StopFate, StoppingDrains, Idle
<1> QED
    BY <1>1, StopFateStep, StoppingStep, InductiveInvariant, PTL DEF Spec, Safety

\* Whoever stops the call, its end is counted once at most, and is lost only to a
\* pipeline time-out; and no turn is left behind the sentinel (stop,
\* _schedule_transcript_turn and _transcript_worker).
THEOREM OneEnd == Spec => []EndsOnce
<1>1. IInv /\ StopFate => EndsOnce
    <2> SUFFICES ASSUME IInv, StopFate PROVE EndsOnce
        OBVIOUS
    <2>1. /\ reported <= (IF stopEvent THEN 1 ELSE 0)
          /\ worker = "drained" => queue = <<>>
        BY DEF IInv, OneStopper, SentinelLast
    <2>2. ASSUME stopEvent, reported = 0
          PROVE  \E s \in Stoppers :
                     stop[s] = "draining" \/ (s \in Tasks /\ stop[s] = "cancelled")
        <3>1. PICK s \in Stoppers : stop[s] # "none"
            BY <2>2 DEF StopFate
        <3>2. stop[s] # "returned"
            BY <2>2 DEF StopFate
        <3>3. stop[s] \in {"draining", "cancelled"}
            BY <3>1, <3>2 DEF IInv, TypeOK
        <3> QED
            BY <3>3 DEF StopFate
    <2> QED
        BY <2>1, <2>2 DEF EndsOnce
<1> QED
    BY <1>1, InductiveInvariant, StopInvariant, PTL

-----------------------------------------------------------------------------
(* What a step may do to a pipeline, and to a call that was stopped *)

\* The places a task may still come to.
StepsLeft ==
    [stt |-> 7, graph |-> 6, tts |-> 5, publishing |-> 4, stopping |-> 3,
     apologyTts |-> 2, apologyPublishing |-> 1, idle |-> 0]

\* A pipeline only ever moves on, the apology included: it takes seven steps at
\* most, and nothing another coroutine does sets it back.
PipelineMovesOn ==
    [][\A t \in Tasks : task[t] # Idle /\ task'[t] # task[t] =>
          StepsLeft[task'[t].pc] < StepsLeft[task[t].pc]]_vars

\* A call that was stopped winds down: it stays stopped, no utterance is started,
\* nothing is queued, and nobody begins to speak.
WindsDown ==
    [][stopEvent =>
          /\ stopEvent'
          /\ \A t \in Tasks : task[t] = Idle => task'[t] = Idle
          /\ Len(queue') <= Len(queue)
          /\ speaking' => speaking]_vars

\* One task moves to a place that comes later.
LEMMA MovesOn ==
    ASSUME TypeOK, NEW t \in Tasks, NEW record \in TaskRecords,
           task' = [task EXCEPT ![t] = record],
           StepsLeft[record.pc] < StepsLeft[task[t].pc]
    PROVE  \A u \in Tasks : task[u] # Idle /\ task'[u] # task[u] =>
               StepsLeft[task'[u].pc] < StepsLeft[task[u].pc]
BY DEF TypeOK

LEMMA GotoMovesOn ==
    ASSUME TypeOK, NEW t \in Tasks, NEW label \in InPipeline \cup InApology,
           Goto(t, label), StepsLeft[label] < StepsLeft[task[t].pc]
    PROVE  \A u \in Tasks : task[u] # Idle /\ task'[u] # task[u] =>
               StepsLeft[task'[u].pc] < StepsLeft[task[u].pc]
<1> DEFINE record == [task[t] EXCEPT !.pc = label]
<1>1. record \in TaskRecords /\ record.pc = label
    BY DEF TypeOK, TaskRecords
<1>2. task' = [task EXCEPT ![t] = record]
    BY DEF Goto
<1> HIDE DEF record
<1> QED
    BY <1>1, <1>2, MovesOn

LEMMA ReleaseMovesOn ==
    ASSUME TypeOK, NEW t \in Tasks, Release(t), task[t].pc # "idle"
    PROVE  \A u \in Tasks : task[u] # Idle /\ task'[u] # task[u] =>
               StepsLeft[task'[u].pc] < StepsLeft[task[u].pc]
<1>1. task[t].pc \in InPipeline \cup InApology
    BY DEF TypeOK, TaskRecords
<1>2. StepsLeft["idle"] < StepsLeft[task[t].pc]
    BY <1>1 DEF StepsLeft, InPipeline, InApology
<1>3. Idle \in TaskRecords /\ Idle.pc = "idle"
    BY DEF Idle, TaskRecords
<1> QED
    BY <1>2, <1>3, MovesOn DEF Release

LEMMA StepMovesOn ==
    ASSUME IInv, Next
    PROVE  \A u \in Tasks : task[u] # Idle /\ task'[u] # task[u] =>
               StepsLeft[task'[u].pc] < StepsLeft[task[u].pc]
<1>0. TypeOK
    BY DEF IInv
<1> DEFINE Goal == \A u \in Tasks : task[u] # Idle /\ task'[u] # task[u] =>
                       StepsLeft[task'[u].pc] < StepsLeft[task[u].pc]
<1>1. CASE task' = task
    BY <1>1
<1>2. ASSUME NEW s \in Stoppers, StopEnds(s) PROVE Goal
    <2>1. stop[s] = "draining" /\ ReturnFromStop(s)
        BY <1>2 DEF StopEnds, Drained, DrainTimesOut
    <2>2. CASE s \in Tasks
        BY <1>0, <2>1, <2>2, ReleaseMovesOn DEF ReturnFromStop, IInv, StopperWaits
    <2>3. CASE s \notin Tasks
        BY <2>1, <2>3, <1>1 DEF ReturnFromStop
    <2> QED
        BY <2>2, <2>3
<1>3. ASSUME NEW t \in Tasks, UtteranceComplete(t) \/ FlushFallback(t) PROVE Goal
    <2>1. task[t] = Idle /\ Goto(t, "stt")
        BY <1>3 DEF UtteranceComplete, FlushFallback, Submit
    <2>2. \A u \in Tasks : u # t => task'[u] = task[u]
        BY <1>0, <2>1 DEF Goto, TypeOK
    <2> QED
        BY <2>1, <2>2
<1>4. ASSUME NEW t \in Tasks, Pipeline(t) PROVE Goal
    <2>1. CASE SttEmpty(t) \/ SttDuplicate(t)
        BY <1>0, <2>1, ReleaseMovesOn DEF SttEmpty, SttDuplicate, Finish
    <2>2. CASE SttText(t)
        BY <1>0, <2>2, GotoMovesOn DEF SttText, InPipeline, StepsLeft
    <2>3. CASE GraphAnswers(t)
        <3>1. PICK escalates \in BOOLEAN :
                  task' = [task EXCEPT ![t] = [pc |-> "tts", escalates |-> escalates]]
            BY <2>3 DEF GraphAnswers
        <3>2. [pc |-> "tts", escalates |-> escalates] \in TaskRecords
            BY DEF TaskRecords, InPipeline
        <3>3. StepsLeft["tts"] < StepsLeft[task[t].pc]
            BY <2>3 DEF GraphAnswers, StepsLeft
        <3> QED
            BY <1>0, <3>1, <3>2, <3>3, MovesOn
    <2>4. CASE TtsReady(t)
        BY <1>0, <2>4, GotoMovesOn DEF TtsReady, InPipeline, StepsLeft
    <2>5. CASE PipelineFails(t)
        BY <1>0, <2>5, GotoMovesOn DEF PipelineFails, InApology, StepsLeft
    <2>6. CASE AnswerSpoken(t)
        <3>1. task[t].pc \in {"tts", "publishing"} /\ (Release(t) \/ Goto(t, "stopping"))
            BY <2>6 DEF AnswerSpoken
        <3> QED
            BY <1>0, <3>1, GotoMovesOn, ReleaseMovesOn DEF InPipeline, StepsLeft
    <2> QED
        BY <1>4, <2>1, <2>2, <2>3, <2>4, <2>5, <2>6 DEF Pipeline
<1>5. ASSUME NEW t \in Tasks, PipelineTimesOut(t) PROVE Goal
    BY <1>0, <1>5, GotoMovesOn DEF PipelineTimesOut, InPipeline, InApology, StepsLeft
<1>6. ASSUME NEW t \in Tasks, Apology(t) PROVE Goal
    <2>1. CASE ApologyReady(t)
        BY <1>0, <2>1, GotoMovesOn DEF ApologyReady, InApology, StepsLeft
    <2>2. CASE ApologySpoken(t) \/ ApologyFails(t)
        BY <1>0, <2>2, ReleaseMovesOn DEF ApologySpoken, ApologyFails, Finish
    <2> QED
        BY <1>6, <2>1, <2>2 DEF Apology
<1>7. CASE \/ StartFails \/ OwnerStops \/ RoomDisconnected
           \/ StartCompletes \/ DropInput \/ BufferChunk \/ WindowCloses
           \/ GreetingReady \/ GreetingSpoken \/ GreetingFails
           \/ WorkerTakes \/ WorkerSent
    BY <1>1, <1>7
    DEF StartFails, OwnerStops, RoomDisconnected, StartCompletes, DropInput, BufferChunk,
        WindowCloses, GreetingReady, GreetingSpoken, GreetingFails, WorkerTakes,
        WorkerSent, turnVars
<1> QED
    BY <1>2, <1>3, <1>4, <1>5, <1>6, <1>7 DEF Next

\* A turn of the call is bounded, whatever hangs and whoever interferes
\* (_process_utterance, _run_pipeline and the wait_for around it).
THEOREM TurnIsBounded == Spec => PipelineMovesOn
<1>1. IInv /\ [Next]_vars =>
          [\A t \in Tasks : task[t] # Idle /\ task'[t] # task[t] =>
              StepsLeft[task'[t].pc] < StepsLeft[task[t].pc]]_vars
    BY StepMovesOn
<1> QED
    BY <1>1, InductiveInvariant, PTL DEF Spec, Safety, PipelineMovesOn

\* After the stop nothing is scheduled: the queue stays or loses its head.
LEMMA QueueShrinks ==
    ASSUME IInv, stopEvent, Next
    PROVE  Len(queue') <= Len(queue)
<1>1. queue \in Seq(Items) /\ Len(queue) \in Nat
    BY DEF IInv, TypeOK, Items
<1>2. CASE queue' = queue
    BY <1>1, <1>2
<1>3. CASE WorkerTakes
    <2>1. queue # <<>> /\ queue' = Tail(queue)
        BY <1>3 DEF WorkerTakes
    <2>2. Len(queue') = Len(queue) - 1
        BY <1>1, <2>1
    <2> QED
        BY <1>1, <2>2
<1>4. \A turn : Schedule(turn) = queue
    BY DEF Schedule
<1>5. ASSUME NEW s, NEW turns PROVE ~BeginStop(s, turns)
    BY DEF BeginStop
<1>6. CASE \/ StartFails \/ OwnerStops \/ RoomDisconnected
           \/ StartCompletes \/ DropInput \/ BufferChunk \/ WindowCloses
           \/ GreetingReady \/ GreetingSpoken \/ GreetingFails \/ WorkerSent
    BY <1>2, <1>4, <1>5, <1>6
    DEF StartFails, OwnerStops, RoomDisconnected, StartCompletes, DropInput, BufferChunk,
        WindowCloses, GreetingReady, GreetingSpoken, GreetingFails, WorkerSent, turnVars,
        transcriptVars
<1>7. ASSUME NEW s \in Stoppers, StopEnds(s) PROVE queue' = queue
    BY <1>7 DEF StopEnds, Drained, DrainTimesOut, ReturnFromStop
<1>8. ASSUME NEW t \in Tasks, UtteranceComplete(t) \/ FlushFallback(t)
      PROVE  queue' = queue
    BY <1>8 DEF UtteranceComplete, FlushFallback, Submit, transcriptVars
<1>9. ASSUME NEW t \in Tasks, Pipeline(t) \/ PipelineTimesOut(t) \/ Apology(t)
      PROVE  queue' = queue
    <2>1. CASE AnswerSpoken(t)
        BY <1>4, <1>5, <2>1 DEF AnswerSpoken
    <2>2. CASE Pipeline(t) /\ ~AnswerSpoken(t)
        BY <1>4, <2>2
        DEF Pipeline, SttEmpty, SttDuplicate, SttText, GraphAnswers, TtsReady,
            PipelineFails, transcriptVars
    <2>3. CASE PipelineTimesOut(t) \/ Apology(t)
        BY <1>4, <2>3
        DEF PipelineTimesOut, Apology, ApologyReady, ApologySpoken, ApologyFails,
            transcriptVars
    <2> QED
        BY <1>9, <2>1, <2>2, <2>3
<1> QED
    BY <1>2, <1>3, <1>6, <1>7, <1>8, <1>9 DEF Next

\* After the stop no receive loop submits, and no one begins to publish.
LEMMA NothingBegins ==
    ASSUME IInv, stopEvent, Next
    PROVE  /\ stopEvent'
           /\ \A t \in Tasks : task[t] = Idle => task'[t] = Idle
           /\ speaking' => speaking
<1>0. speaking \in BOOLEAN /\ stopEvent = TRUE
    BY DEF IInv, TypeOK
<1>1. TypeOK /\ Idle.pc = "idle"
    BY DEF IInv, Idle
<1>2. ASSUME NEW s, NEW turns PROVE ~BeginStop(s, turns)
    BY DEF BeginStop
<1>3. CASE UNCHANGED <<stopEvent, task>> /\ (speaking' => speaking)
    BY <1>3
<1>4. CASE \/ StartFails \/ OwnerStops \/ RoomDisconnected
           \/ StartCompletes \/ DropInput \/ BufferChunk \/ WindowCloses
           \/ GreetingReady \/ GreetingSpoken \/ GreetingFails
           \/ WorkerTakes \/ WorkerSent
    BY <1>2, <1>3, <1>4
    DEF StartFails, OwnerStops, RoomDisconnected, StartCompletes, DropInput, BufferChunk,
        WindowCloses, GreetingReady, GreetingSpoken, GreetingFails, WorkerTakes,
        WorkerSent, lifeVars, turnVars
<1>5. ASSUME NEW s \in Stoppers, StopEnds(s)
      PROVE  /\ UNCHANGED <<stopEvent, speaking>>
             /\ \A t \in Tasks : task[t] = Idle => task'[t] = Idle
    BY <1>1, <1>5 DEF StopEnds, Drained, DrainTimesOut, ReturnFromStop, Release, TypeOK
<1>6. ASSUME NEW t \in Tasks PROVE ~UtteranceComplete(t) /\ ~FlushFallback(t)
    BY DEF UtteranceComplete, FlushFallback, Receiving
<1>7. ASSUME NEW t \in Tasks, Pipeline(t) \/ PipelineTimesOut(t) \/ Apology(t)
      PROVE  /\ stopEvent'
             /\ \A u \in Tasks : task[u] = Idle => task'[u] = Idle
             /\ speaking' => speaking
    <2>1. /\ stopEvent' = stopEvent
          /\ speaking' = speaking \/ speaking' = FALSE
          /\ task[t].pc # "idle"
        <3>1. CASE AnswerSpoken(t)
            BY <1>2, <3>1 DEF AnswerSpoken
        <3>2. CASE Pipeline(t) /\ ~AnswerSpoken(t)
            BY <3>2
            DEF Pipeline, SttEmpty, SttDuplicate, SttText, GraphAnswers, TtsReady,
                PipelineFails, Finish, lifeVars
        <3>3. CASE PipelineTimesOut(t)
            BY <3>3 DEF PipelineTimesOut, InPipeline
        <3>4. CASE Apology(t)
            BY <3>4
            DEF Apology, ApologyReady, ApologySpoken, ApologyFails, Finish, lifeVars
        <3> QED
            BY <1>7, <3>1, <3>2, <3>3, <3>4
    <2>2. \A u \in Tasks : u # t => task'[u] = task[u]
        BY <1>1, <1>7
        DEF Pipeline, SttEmpty, SttDuplicate, SttText, GraphAnswers, TtsReady,
            AnswerSpoken, PipelineFails, PipelineTimesOut, Apology, ApologyReady,
            ApologySpoken, ApologyFails, Finish, Goto, Release, TypeOK
    <2> QED
        BY <1>1, <2>1, <2>2
<1> QED
    BY <1>4, <1>5, <1>6, <1>7 DEF Next

\* Whatever is in flight when the call is stopped, nothing new begins
\* (_stop_event, in every coroutine of the bridge).
THEOREM StoppedCallWindsDown == Spec => WindsDown
<1>1. IInv /\ [Next]_vars =>
          [stopEvent =>
              /\ stopEvent'
              /\ \A t \in Tasks : task[t] = Idle => task'[t] = Idle
              /\ Len(queue') <= Len(queue)
              /\ speaking' => speaking]_vars
    BY NothingBegins, QueueShrinks
<1> QED
    BY <1>1, InductiveInvariant, PTL DEF Spec, Safety, WindsDown
=============================================================================
