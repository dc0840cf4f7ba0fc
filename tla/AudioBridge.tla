----------------------------- MODULE AudioBridge -----------------------------
(***************************************************************************)
(* LiveKitAudioBridge: one telephone call, from start to stop              *)
(* (backend/telephony/audio_bridge.py).                                    *)
(*                                                                         *)
(* The coroutines of a bridge share its flags and its transcript queue:    *)
(* a receive loop per audio track, the pipeline task of an utterance, the  *)
(* greeting, the transcript worker, and whoever calls stop: the pipeline   *)
(* after an escalation, the room's "disconnected" callback, and the owner  *)
(* (KoyalRoom.disconnect or the LiveKit worker).  An action is the code    *)
(* between two awaits; a pass of the receive loop holds none, so the track *)
(* it serves does not matter.                                              *)
(*                                                                         *)
(* The segmenter is a choice here (SpeechSegmenter models it), and so are  *)
(* the answers and failures of STT, the agent graph and TTS.  A transcript *)
(* is known by its normalised text.  Left out: audio, languages, metrics   *)
(* other than record_call_start and record_call_end, and the outcome label.*)
(* The 30-second cap of the receive loop is unreachable: the buffer it     *)
(* looks at is flushed at 3 seconds.                                       *)
(***************************************************************************)
EXTENDS Naturals, Sequences, FiniteSets

CONSTANTS Tasks,           \* identities of pipeline tasks
          Texts,           \* normalised transcripts
          NoText,          \* _last_transcript is empty or too old to count
          FallbackChunks,  \* chunks that fill FALLBACK_BUFFER_THRESHOLD
          QueueMax         \* _TRANSCRIPT_QUEUE_MAXSIZE

ASSUME BridgeAssumption ==
    /\ FallbackChunks \in Nat \ {0}
    /\ QueueMax \in Nat \ {0}
    /\ NoText \notin Texts
    /\ Tasks \cap {"owner", "room"} = {}

VARIABLES
    startPc,     \* where start is
    stopEvent,   \* _stop_event
    stop,        \* [Stoppers -> where its call of stop is]
    reported,    \* calls of record_call_end
    processing,  \* _processing
    speaking,    \* _is_speaking
    fallback,    \* chunks in _fallback_buffer
    task,        \* [Tasks -> the pipeline it runs]
    greeting,    \* where _play_greeting is
    lastText,    \* _last_transcript, while it is inside the dedup window
    queue,       \* _transcript_queue
    worker       \* where _transcript_worker is

lifeVars       == <<startPc, stopEvent, stop, reported>>
turnVars       == <<processing, speaking, fallback, task, lastText>>
transcriptVars == <<queue, worker>>
vars           == <<lifeVars, turnVars, greeting, transcriptVars>>

Stoppers == Tasks \cup {"owner", "room"}
Turns    == {"caller", "agent"}
Sentinel == "end"   \* the None that ends the worker

Idle == [pc |-> "idle", escalates |-> FALSE]
\* Inside wait_for(_run_pipeline), and after it has failed.
InPipeline == {"stt", "graph", "tts", "publishing", "stopping"}
InApology  == {"apologyTts", "apologyPublishing"}
TaskRecords == [pc : {"idle"} \cup InPipeline \cup InApology, escalates : BOOLEAN]

WorkerRuns == worker \in {"waiting", "sending"}

TypeOK ==
    /\ startPc \in {"publishing", "started", "failed"}
    /\ stopEvent \in BOOLEAN
    /\ stop \in [Stoppers -> {"none", "draining", "returned", "cancelled"}]
    /\ reported \in Nat
    /\ processing \in BOOLEAN
    /\ speaking \in BOOLEAN
    /\ fallback \in 0..(FallbackChunks - 1)
    /\ task \in [Tasks -> TaskRecords]
    /\ greeting \in {"none", "tts", "publishing", "done"}
    /\ lastText \in Texts \cup {NoText}
    /\ queue \in Seq(Turns \cup {Sentinel}) /\ Len(queue) <= QueueMax
    /\ worker \in {"none", "waiting", "sending", "drained", "cancelled"}

Init ==
    /\ startPc = "publishing"
    /\ stopEvent = FALSE
    /\ stop = [s \in Stoppers |-> "none"]
    /\ reported = 0
    /\ processing = FALSE
    /\ speaking = FALSE
    /\ fallback = 0
    /\ task = [t \in Tasks |-> Idle]
    /\ greeting = "none"
    /\ lastText = NoText
    /\ queue = <<>>
    /\ worker = "none"

Goto(t, label) == task' = [task EXCEPT ![t].pc = label]

-----------------------------------------------------------------------------
(* Transcript turns: _schedule_transcript_turn and _transcript_worker *)

\* The queue after a turn is scheduled: dropped once stopped, or when full.
Schedule(turn) ==
    IF stopEvent \/ Len(queue) = QueueMax THEN queue ELSE Append(queue, turn)

WorkerTakes ==
    /\ worker = "waiting" /\ queue # <<>>
    /\ queue' = Tail(queue)
    /\ worker' = IF Head(queue) = Sentinel THEN "drained" ELSE "sending"
    /\ UNCHANGED <<lifeVars, turnVars, greeting>>

\* broadcast returns or raises; a failure is logged.
WorkerSent ==
    /\ worker = "sending"
    /\ worker' = "waiting"
    /\ UNCHANGED <<lifeVars, turnVars, greeting, queue>>

-----------------------------------------------------------------------------
(* start and stop: the end of start *)

\* The track is published: the worker and the greeting are created, and
\* record_call_start is called, whether or not stop came in between.
StartCompletes ==
    /\ startPc = "publishing"
    /\ startPc' = "started"
    /\ worker' = "waiting"
    /\ greeting' = "tts"
    /\ UNCHANGED <<stopEvent, stop, reported, turnVars, queue>>

\* The worker is given its sentinel and waited for; the flag is set afterwards.
DrainWorkerFlagLate(s, turns) ==
    /\ WorkerRuns /\ Len(turns) < QueueMax
    /\ queue' = Append(turns, Sentinel)
    /\ stop' = [stop EXCEPT ![s] = "draining"]
    /\ UNCHANGED <<stopEvent, worker, reported>>

\* The worker is given its sentinel and waited for.
DrainWorker(s, turns) ==
    /\ WorkerRuns /\ Len(turns) < QueueMax
    /\ stopEvent' = TRUE
    /\ queue' = Append(turns, Sentinel)
    /\ stop' = [stop EXCEPT ![s] = "draining"]
    /\ UNCHANGED <<worker, reported>>

\* No room for the sentinel: the worker is cancelled.
CancelWorker(s, turns) ==
    /\ WorkerRuns /\ Len(turns) = QueueMax
    /\ stopEvent' = TRUE
    /\ queue' = turns
    /\ worker' = "cancelled"
    /\ stop' = [stop EXCEPT ![s] = "returned"]
    /\ reported' = reported + 1

NoWorker(s, turns) ==
    /\ ~WorkerRuns
    /\ stopEvent' = TRUE
    /\ queue' = turns
    /\ stop' = [stop EXCEPT ![s] = "returned"]
    /\ reported' = reported + 1
    /\ UNCHANGED worker

\* stop, by the first caller, with the turns queued when it is called.
BeginStop(s, turns) ==
    /\ ~stopEvent
    /\ DrainWorker(s, turns) \/ CancelWorker(s, turns) \/ NoWorker(s, turns)

\* The track is not published: the owner stops the bridge at once.
StartFails ==
    /\ startPc = "publishing"
    /\ startPc' = "failed"
    /\ \/ BeginStop("owner", queue)
       \/ stopEvent /\ UNCHANGED <<stopEvent, stop, reported, transcriptVars>>
    /\ UNCHANGED <<turnVars, greeting>>

OwnerStops ==
    /\ stop["owner"] = "none"
    /\ BeginStop("owner", queue)
    /\ UNCHANGED <<startPc, turnVars, greeting>>

RoomDisconnected ==
    /\ startPc = "started"
    /\ stop["room"] = "none"
    /\ BeginStop("room", queue)
    /\ UNCHANGED <<startPc, turnVars, greeting>>

\* The end of _process_utterance.
Release(t) ==
    /\ task' = [task EXCEPT ![t] = Idle]
    /\ processing' = FALSE
    /\ fallback' = 0

\* The end of stop: record_call_end; a pipeline that called it is over too.
ReturnFromStop(s) ==
    /\ stop' = [stop EXCEPT ![s] = "returned"]
    /\ reported' = reported + 1
    /\ IF s \in Tasks THEN Release(s) ELSE UNCHANGED <<task, processing, fallback>>
    /\ UNCHANGED <<startPc, stopEvent, speaking, greeting, lastText, queue>>

Drained(s) ==
    /\ stop[s] = "draining" /\ ~WorkerRuns
    /\ ReturnFromStop(s)
    /\ UNCHANGED worker

\* The worker is given up on only while it waits for a turn.
DrainTimesOutWaiting(s) ==
    /\ stop[s] = "draining" /\ worker = "waiting"
    /\ ReturnFromStop(s)
    /\ worker' = "cancelled"

\* _TRANSCRIPT_SHUTDOWN_TIMEOUT_SECONDS are over.
DrainTimesOut(s) ==
    /\ stop[s] = "draining" /\ WorkerRuns
    /\ ReturnFromStop(s)
    /\ worker' = "cancelled"

-----------------------------------------------------------------------------
(* _receive_audio_track *)

Receiving == startPc = "started" /\ ~stopEvent

Submit(t) ==
    /\ task[t] = Idle
    /\ processing' = TRUE
    /\ Goto(t, "stt")
    /\ fallback' = 0
    /\ UNCHANGED <<lifeVars, speaking, lastText, greeting, transcriptVars>>

\* Interruption suppression.
DropInput ==
    /\ Receiving
    /\ speaking \/ processing
    /\ fallback' = IF processing THEN 0 ELSE fallback
    /\ UNCHANGED <<lifeVars, processing, speaking, task, lastText, greeting,
                   transcriptVars>>

UtteranceComplete(t) ==
    /\ Receiving
    /\ ~speaking /\ ~processing
    /\ Submit(t)

\* Checks the buffer before the chunk is added.
BufferChunkUnchecked ==
    /\ Receiving
    /\ ~speaking /\ ~processing
    /\ fallback < FallbackChunks
    /\ fallback' = fallback + 1
    /\ UNCHANGED <<lifeVars, processing, speaking, task, lastText, greeting,
                   transcriptVars>>

\* No utterance is complete, or the segmenter raised.
BufferChunk ==
    /\ Receiving
    /\ ~speaking /\ ~processing
    /\ fallback + 1 < FallbackChunks
    /\ fallback' = fallback + 1
    /\ UNCHANGED <<lifeVars, processing, speaking, task, lastText, greeting,
                   transcriptVars>>

FlushFallback(t) ==
    /\ Receiving
    /\ ~speaking /\ ~processing
    /\ fallback + 1 >= FallbackChunks
    /\ Submit(t)

-----------------------------------------------------------------------------
(* _process_utterance and _run_pipeline *)

\* The pipeline returns.
Finish(t) ==
    /\ Release(t)
    /\ UNCHANGED <<lifeVars, lastText, greeting, worker>>

SttEmpty(t) ==
    /\ task[t].pc = "stt"
    /\ Finish(t)
    /\ UNCHANGED <<speaking, queue>>

\* The same text within the window: the utterance is skipped.
SttDuplicate(t) ==
    /\ task[t].pc = "stt"
    /\ lastText # NoText
    /\ Finish(t)
    /\ UNCHANGED <<speaking, queue>>

SttText(t) ==
    /\ task[t].pc = "stt"
    /\ \E text \in Texts \ {lastText} : lastText' = text
    /\ queue' = Schedule("caller")
    /\ Goto(t, "graph")
    /\ UNCHANGED <<lifeVars, processing, speaking, fallback, greeting, worker>>

GraphAnswers(t) ==
    /\ task[t].pc = "graph"
    /\ \E escalates \in BOOLEAN :
          task' = [task EXCEPT ![t] = [pc |-> "tts", escalates |-> escalates]]
    /\ UNCHANGED <<lifeVars, processing, speaking, fallback, lastText, greeting,
                   transcriptVars>>

TtsReady(t) ==
    /\ task[t].pc = "tts"
    /\ ~stopEvent
    /\ speaking' = TRUE
    /\ Goto(t, "publishing")
    /\ UNCHANGED <<lifeVars, processing, fallback, lastText, greeting,
                   transcriptVars>>

\* The answer has been published, or is not: the audio is empty, or the call
\* has stopped.  The agent's turn is scheduled, and an escalation ends the call.
AnswerSpoken(t) ==
    /\ task[t].pc \in {"tts", "publishing"}
    /\ \/ speaking' = FALSE /\ (task[t].pc = "publishing" \/ stopEvent)
       \/ UNCHANGED speaking /\ task[t].pc = "tts"
    /\ UNCHANGED <<startPc, lastText, greeting>>
    /\ \/ /\ ~task[t].escalates \/ stopEvent
          /\ Release(t)
          /\ queue' = Schedule("agent")
          /\ UNCHANGED <<stopEvent, stop, reported, worker>>
       \/ /\ task[t].escalates
          /\ BeginStop(t, Schedule("agent"))
          /\ IF stop'[t] = "draining"
             THEN Goto(t, "stopping") /\ UNCHANGED <<processing, fallback>>
             ELSE Release(t)

\* An exception of STT, the graph or TTS, or an empty answer.
PipelineFails(t) ==
    /\ task[t].pc \in {"stt", "graph", "tts"}
    /\ Goto(t, "apologyTts")
    /\ UNCHANGED <<lifeVars, processing, speaking, fallback, lastText, greeting,
                   transcriptVars>>

\* The processing flag is dropped with the pipeline.
PipelineTimesOutReleasing(t) ==
    /\ task[t].pc \in InPipeline \ {"stopping"}
    /\ Goto(t, "apologyTts")
    /\ speaking' = IF task[t].pc = "publishing" THEN FALSE ELSE speaking
    /\ processing' = FALSE
    /\ UNCHANGED <<lifeVars, fallback, lastText, greeting, transcriptVars>>

\* PIPELINE_TIMEOUT_SECONDS are over: what the pipeline awaits is cancelled,
\* stop included, which then neither records the end nor runs again.
PipelineTimesOut(t) ==
    /\ task[t].pc \in InPipeline
    /\ Goto(t, "apologyTts")
    /\ speaking' = IF task[t].pc = "publishing" THEN FALSE ELSE speaking
    /\ IF task[t].pc = "stopping"
       THEN /\ stop' = [stop EXCEPT ![t] = "cancelled"]
            /\ worker' = IF WorkerRuns THEN "cancelled" ELSE worker
       ELSE UNCHANGED <<stop, worker>>
    /\ UNCHANGED <<startPc, stopEvent, reported, processing, fallback, lastText,
                   greeting, queue>>

ApologyReady(t) ==
    /\ task[t].pc = "apologyTts"
    /\ ~stopEvent
    /\ speaking' = TRUE
    /\ Goto(t, "apologyPublishing")
    /\ UNCHANGED <<lifeVars, processing, fallback, lastText, greeting,
                   transcriptVars>>

\* After a stop the apology is not published, and its turn not scheduled.
ApologySpoken(t) ==
    /\ task[t].pc = "apologyPublishing" \/ (task[t].pc = "apologyTts" /\ stopEvent)
    /\ speaking' = FALSE
    /\ queue' = Schedule("agent")
    /\ Finish(t)

\* TTS fails or returns nothing.
ApologyFails(t) ==
    /\ task[t].pc = "apologyTts"
    /\ Finish(t)
    /\ UNCHANGED <<speaking, queue>>

\* _UTTERANCE_DEDUP_SECONDS are over.
WindowCloses ==
    /\ lastText # NoText
    /\ lastText' = NoText
    /\ UNCHANGED <<lifeVars, processing, speaking, fallback, task, greeting,
                   transcriptVars>>

-----------------------------------------------------------------------------
(* _play_greeting *)

GreetingReady ==
    /\ greeting = "tts"
    /\ ~stopEvent
    /\ speaking' = TRUE
    /\ greeting' = "publishing"
    /\ UNCHANGED <<lifeVars, processing, fallback, task, lastText,
                   transcriptVars>>

\* The flag is cleared even if an answer is being published at the same time.
GreetingSpoken ==
    /\ greeting = "publishing" \/ (greeting = "tts" /\ stopEvent)
    /\ speaking' = FALSE
    /\ queue' = Schedule("agent")
    /\ greeting' = "done"
    /\ UNCHANGED <<lifeVars, processing, fallback, task, lastText, worker>>

\* TTS fails or returns nothing.
GreetingFails ==
    /\ greeting = "tts"
    /\ greeting' = "done"
    /\ UNCHANGED <<lifeVars, turnVars, transcriptVars>>

-----------------------------------------------------------------------------

Pipeline(t) ==
    \/ SttEmpty(t)
    \/ SttDuplicate(t)
    \/ SttText(t)
    \/ GraphAnswers(t)
    \/ TtsReady(t)
    \/ AnswerSpoken(t)
    \/ PipelineFails(t)

Apology(t) == ApologyReady(t) \/ ApologySpoken(t) \/ ApologyFails(t)

StopEnds(s) == Drained(s) \/ DrainTimesOut(s)

Next ==
    \/ StartFails \/ StartCompletes
    \/ OwnerStops \/ RoomDisconnected
    \/ \E s \in Stoppers : StopEnds(s)
    \/ DropInput \/ BufferChunk
    \/ \E t \in Tasks : UtteranceComplete(t) \/ FlushFallback(t)
    \/ \E t \in Tasks : Pipeline(t) \/ PipelineTimesOut(t) \/ Apology(t)
    \/ WindowCloses
    \/ GreetingReady \/ GreetingSpoken \/ GreetingFails
    \/ WorkerTakes \/ WorkerSent

\* wait_for fires and the apology's TTS call, which retries a bounded number of
\* times with a timeout, returns.  Nothing is assumed of STT, the graph, TTS or
\* of the subscribers the worker sends to.
Fairness ==
    /\ \A t \in Tasks : WF_vars(PipelineTimesOut(t)) /\ WF_vars(Apology(t))
    /\ \A s \in Stoppers : WF_vars(StopEnds(s))

Safety == Init /\ [][Next]_vars
Spec == Safety /\ Fairness

-----------------------------------------------------------------------------
(* Properties *)

\* At most one pipeline runs, apology included, and exactly while _processing
\* is set: no receive loop starts a second one over an utterance in progress,
\* and no way out of the first leaves the call deaf.
OnePipeline ==
    /\ \A t, u \in Tasks : task[t] # Idle /\ task[u] # Idle => t = u
    /\ processing <=> \E t \in Tasks : task[t] # Idle

\* A call ends once and completely.  However many of the owner, the room and an
\* escalation stop it, its end is recorded at most once and only when it has been
\* stopped; and a worker that ended on its sentinel has sent every turn that was
\* accepted, none being queued behind the sentinel by a greeting, an answer or an
\* apology that finishes meanwhile.  A call that was stopped and is not recorded
\* is being recorded, or was stopped by an escalation whose pipeline timed out.
EndsOnce ==
    /\ reported <= (IF stopEvent THEN 1 ELSE 0)
    /\ stopEvent /\ reported = 0 =>
          \E s \in Stoppers : stop[s] = "draining" \/ (s \in Tasks /\ stop[s] = "cancelled")
    /\ worker = "drained" => queue = <<>>

\* Whatever hangs, a pipeline gives the call back and _processing does not stay
\* set; and stop returns, even if a subscriber never takes the turn the worker is
\* sending ("Drain transcript worker best-effort without hanging shutdown").
NothingWedges ==
    /\ processing ~> ~processing
    /\ \A s \in Stoppers : stop[s] = "draining" ~> stop[s] \in {"returned", "cancelled"}
=============================================================================
