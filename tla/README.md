# Verification of the Koyal voice backend

TLA+ models of the backend of Koyal AI, a multilingual voice agent for banking
calls: a caller speaks, over a browser WebSocket or over the telephone through
LiveKit and SIP; the audio is cut into utterances, each is transcribed, run
through an agent graph with safety rails, answered by text-to-speech, and played
back; dashboards follow the transcript; scripts fill the knowledge base and
provision the telephone numbers. The models are checked by TLC on small instances;
the main safety properties of all of them are proved by TLAPS for every value of
their constants, and so are three refinements of abstract specifications and the bounds
on progress that the liveness properties rest on.

Paths below are relative to `src/backend/` unless they say otherwise.

Run a model with `tlc -config X.cfg M`, proofs with `tlapm M.tla`. `PROJECT.json`
ties every definition to the lines it models, every property to a run and to a
plausible bug (a *mutant*, an operator defined before the one it stands in for)
that the property must catch.

## 1. Inventory

| component | state it keeps | operations | talks to |
|---|---|---|---|
| **Voice call handler** `voice/websocket_handler.py`, `voice/session_manager.py` | one task per WebSocket; per process `_sessions`, `_lock`, the `active_calls` gauge | admit/reject, receive loop, one turn (STT, strikes, graph, speech), end message, disconnect, cleanup | agent pipeline (await), Redis (await), STT/TTS, metrics |
| **Strike counters in Redis** `voice/session_manager.py:325-407` | `session:{id}:strikes` with a TTL, shared by all workers | load, save, delete, expiry | voice call handlers of any process |
| **Agent pipeline** `agents/`, `safety/guardrails_handler.py`, `safety/escalation_handler.py`, `observability/instrumented_graph.py` | the state of a turn, none between turns: the strike count is passed in and out | input rail, strike policy, safety gate, language bridge, retrieval, response, verification, output rail | Sarvam, Groq, Qdrant, NeMo moderator, emergency model |
| **Speech segmentation** `voice/vad.py` | ring of recent frames, speech buffer, two counters, partial frame | process_chunk, flush, reset | called by both kinds of call |
| **Telephone call bridge** `telephony/audio_bridge.py` | flags `_processing`, `_is_speaking`, `_stop_event`; fallback buffer; transcript queue; last transcript | start, stop, a receive loop per track, pipeline task, apology, greeting, transcript worker | LiveKit room callbacks, agent pipeline, transcript hub, KoyalRoom |
| **Room registry and webhooks** `telephony/inbound_handler.py`, `livekit_room.py`, `worker.py` | `active_rooms` by name; per KoyalRoom `_connected`, `bridge` | four webhooks, connect, disconnect | LiveKit, bridge |
| **Outbound dialer and campaigns** `telephony/outbound_dialer.py` | `_pending_dials`, entries of `active_rooms` | launch_campaign, dial, connect-and-monitor, hang-up, close | LiveKit SIP, registry |
| **Live transcript hub** `telephony/transcript_manager.py`, `transcript_ws.py` | subscribers per room | register, unregister, broadcast, prune | bridge's worker, dashboards |
| **Dashboard transcript client** `src/frontend/src/lib/websocket.ts`, `LiveKitCallRoom.tsx` | socket, room wanted, retry counter and timer, turns | connect, socket callbacks, retry with backoff, disconnect, unmount | transcript hub |
| **SIP provisioning** `telephony/sip_trunk.py`, `src/scripts/provision_sip.py` | trunks and dispatch rules in LiveKit | find, create, delete with `--recreate` | LiveKit |
| **Knowledge base** `rag/`, `src/scripts/ingest_all.py` | one Qdrant collection per tenant | drop-and-create, batched upsert with retries, retrieve | Qdrant |
| **STT and TTS clients** `voice/stt.py`, `voice/tts.py` | none | HTTP call with three attempts; chunked synthesis | hosted services |
| **Cost tracker** `cost_tracker.py` | Redis hashes and Prometheus counters | track, read, reset | Redis |
| evaluation, configuration, pages, deployment | none of their own, or static | | |

What makes the behaviour hard:

* **Interleaving of coroutines.** asyncio runs one coroutine at a time in a
  process, so code between two awaits is atomic, and everything else is not: a
  turn awaits Redis, a model or a speech service about ten times, and any other
  handler, webhook or callback may run at each. The models have one action per
  stretch between awaits that matters, and none finer.
* **Several processes, one store.** Sessions belong to a process, strikes do not.
  (`Dockerfile.backend` starts one API worker; `VoiceCall` takes any number.) The
  scripts that fill Qdrant and LiveKit may overlap each other and the calls.
* **Failure and time-outs.** Redis may be away, a graph node may raise, TTS may
  return nothing, `wait_for` may cancel a pipeline in the middle of stopping the
  call, LiveKit may repeat, delay or reorder webhooks, the answer to a request may
  be lost after it was carried out, a process may die with calls in it while the
  strikes survive, a script may be killed half-way.
* **Ends that meet.** A call can be ended by the caller, by an escalation, by the
  third strike, by the room, by a webhook, by a campaign that finishes; each end
  must be recorded once, with one outcome. A WebSocket has two ends, and each
  learns later than the other that it is gone.

The hazards, at their lines and with the properties that guard them, are in
`PROJECT.json`; those without a property say why.

## 2. Modules

| module | models | composed with |
|---|---|---|
| `AgentGraph` | one turn of the pipeline as the set of results its caller may get | extended by `VoiceCall` and `AgentPipeline` |
| `CallLedger` | abstract: a call is admitted, has one outcome, is ended and reported once | implemented by `VoiceCall` |
| `VoiceCall` | browser calls, sessions, strikes in Redis, crashes | `MCVoiceCall`, `VoiceCallProofs` |
| `AgentTurn` | abstract: a turn is answered once, with a result of `AgentGraph` | implemented by `AgentPipeline` |
| `AgentPipeline` | one turn node by node, with retries and failures of its services | `MCAgentPipeline`, `AgentPipelineProofs` |
| `SpeechSegmenter` | frame buffer and voice activity detector | `MCSpeechSegmenter`, `SpeechSegmenterProofs` |
| `AudioBridge` | one telephone call from start to stop | `MCAudioBridge`, `AudioBridgeProofs` |
| `RoomRegistry` | who answers a telephone room, and one campaign | `MCRoomRegistry`, `RoomRegistryProofs` |
| `TranscriptFeed` | abstract: what a viewer of a transcript is promised | implemented by `TranscriptHub` |
| `TranscriptHub` | manager, endpoint, sockets and dashboard hook together | `MCTranscriptHub`, `TranscriptHubProofs` |
| `KnowledgeBase` | ingestion runs and the searches of calls, over Qdrant | `MCKnowledgeBase`, `KnowledgeBaseProofs` |
| `SipProvisioning` | runs of the provisioning script, over LiveKit | `MCSipProvisioning`, `SipProvisioningProofs` |

### VoiceCall, CallLedger and AgentGraph

`pc[c]` names the await a handler is suspended at: `connecting` (accept),
`hydrating` (inside `create_session`, the lock held over the Redis GET), `registering`
(the answer is there, the session is not yet), `receive`, `stt`, `loading` (the GET of a
turn), `syncing` (its answer is there, the lock is not), `graph`, `saving`, then one of the
speeches, then the ways out
(`endDelete`, `cleanup`, `cleanupDelete`, `closing`, `done`, `rejected`, `dead`).
`sessions[w]` is `SessionManager._sessions` of a process; an entry is never removed
by the code, so a session id can be used once per process. `activeCalls[w]` is the
gauge, `strikeKey` the Redis key. `harm` and `tainted` are history variables: the
number of consecutive harmful turns as the policy means it, and whether Redis failed,
the key expired, or two handlers shared the id, when the count cannot be promised.
`loaded[c]` is what a GET has read and nobody has installed: `HydrateSession` reads and
`RegisterSession` assigns, `LoadTurnStrikes` reads and `SyncTurnStrikes` assigns once it
has the lock. Between the two another worker may SET or DEL the key, so that an old count
comes back (`voice/session_manager.py:238`, `voice/websocket_handler.py:204`).

Operations that need `SessionManager._lock` are enabled only when it is free
(`Unlocked`); the lock is held across steps in one place, so it appears as state
only there. `AgentGraph` says of an utterance only whether it holds an off-topic
word and whether it is an emergency; the LLM moderator, the detector's failure
and a raising node, before the rails or after them, are choices. `TurnResults(query, strikes)` is what
`observed_invoke_graph` may return.

`CallLedger` has no lock, no Redis and no awaits. An entry of a worker's ledger is a
call that is admitted when the worker is below its capacity and the id is free, gets an
outcome once, is ended, and is reported once with that outcome; a worker that restarts
forgets its calls. `VoiceCall` implements it: `Entry` and `Stage` compute the ledger from
`sessions`, `pc` and the reports, and the several awaits of an admission or of a clean-up
map to one step and stutters. `StrikesAreEarned` is about every id, tainted ones too:
counts may be lost or come back from a GET in flight, none is made up: a count that
appears in the key, in a session or in flight was in one of these places before, or is that
count and one more because of a refused turn.

`activeCalls` is moved by browser calls only; telephone calls move the same metric
(`telephony/audio_bridge.py:186`, 230), and `AudioBridge` counts their ends.

Barge-in is not an action: the receive loop awaits the whole of a turn, so it
never sees a frame while `_is_speaking` is set. `is_timed_out` is never consulted,
so no action ends an idle session.

### SpeechSegmenter

A frame is its position in the stream, its voicing a Boolean chosen when the
chunk that completes it arrives. `process_chunk` is synchronous: the frames it
still has to examine are `pending`, and no other operation starts before that is
empty. `heard` and `utterance` are history: what was heard, and the last utterance
returned.

### AudioBridge

Tasks (pipelines) have identities, so a second one could start over the first.
`stop` is a function from its callers (a pipeline that escalates, the room's
callback, the owner) to where their call is; the queue and worker are those of
the transcript. The segmenter is a choice here. A pass of the receive loop holds
no await, so the loops of several tracks need no state of their own. The 30-second
cap of the receive loop is unreachable, because the buffer it looks at is flushed
at three seconds, and has no action.

### RoomRegistry

What is done under `active_rooms_lock` contains no await, so each block is
atomic. A KoyalRoom is an object with its own place in `connect` (`connector`),
and each of those who may call `disconnect` on it (a webhook's task, `close`,
`connect` itself) has a place in that call (`disc`). LiveKit is the environment:
callers enter and leave, agents drop, webhooks arrive at any time after what they
report, any number of times. `room_finished` is only sent for a room with nobody in
it. A dialled name is fresh, so the duplicate check of `dial` never refuses;
nothing keeps `room_started` from answering the dialled room first.

### AgentPipeline and AgentTurn

One action per node of `build_koyal_graph`, or per attempt where a node retries a
service: `language_detect`, `input_guardrails`, `safety_gate`, `language_bridge`,
`retrieval`, `response`, `verification`, `translate_response`, `output_guardrails`,
`escalation`. `rail` holds the fields of the state that `observed_invoke_graph` reads,
computed with the operators of `AgentGraph`; `raw` and `final` are the answer before
and after the output rail; `prompts` is history: what the response and verification
models were told. A text is known by its kind and by whether the PII patterns match
it; a model's answer may contain anything. A query and a chunk have three values of PII:
none, plain, or missed by `mask_pii`, which replaces the first occurrence of the string it
matched and not the match (`safety/guardrails_handler.py:698`). A node that raises goes to the
fallback of `observed_invoke_graph`; `language_detect`, which precedes both rails, may.

`AgentTurn` says of a turn only that it is asked and then answered once, with a member
of `TurnResults`. `VoiceCall` uses that same set for its `graph` await: that
`AgentPipeline` implements `AgentTurn` is what justifies it.

### TranscriptHub and TranscriptFeed

The manager's critical sections contain no await, so each is an action; the sends of
a broadcast go between its snapshot and its pruning one by one (`pending`, `stale`).
`endpoint[s]` is where `transcript_ws` is for a socket, `up[s]` whether the connection
is there, `wire[s]` what it carries. `handler[s]` says whose callbacks are attached,
`ws`, `room`, `timer`, `tries`, `manual`, `mounted` are the refs of the hook. A socket
is used again once nothing holds it. `LiveKitCallRoom` connects by `LastSegment` of the
room name (`JoinCall`); a client that uses the name the endpoint documents is `Follow`.
Turns are numbered in each room; one bridge speaks in a room at a time.

`TranscriptFeed` has neither sockets nor retries: turns are spoken, viewers watch and
leave, and a turn that is shown belongs to the watched room, is newer than all that was
shown before, and was spoken after the watching began.

### KnowledgeBase

One action per request to Qdrant of `ingest_all`: drop, create, each attempt of
each batch. A request may fail, be carried out with its answer lost, or never
arrive, and a process may be killed between any two. Points carry the tenant and the
run that made them. `fresh[i]` and `overlap` are history: whether another run has
started since, and whether two were ever alive at once. A search answers with any few
points of a collection, and tries again as `retrieve` does. `ingested` is what a run reports.

### SipProvisioning

One action per request to LiveKit: the lists and deletions of `--recreate`, then per
tenant find-or-create of the inbound trunk, the rule, the outbound trunk. Requests
fail as above. `created` numbers what was ever created; `blind` and `ruleKept` record
that a run could not look for an outbound trunk, and that `--recreate` left a rule
behind, after which the code promises less.

## 3. Runs

| run | checks | shows |
|---|---|---|
| `voice_call` | `TypeOK`, `OneHandlerPerSession`, `CapacityRespected`, `GaugeBalanced`, `StrikesMatchHarm`, `StrikesAreEarned`, `LedgerIsKept`, `ThirdStrikeEndsCall` | two calls that share an id, a worker or both, one session slot, one crash, any failures of Redis and the pipeline: it implements `CallLedger`, and strikes are lost or come back but are never invented |
| `voice_live` | `DisconnectEndsCall`, `TurnCompletes` | a hang-up is noticed and every turn comes back to the loop or ends the call |
| `segmenter` | `TypeOK`, `UtteranceIsOneRun`, `CountsMatchBuffer`, `UtterancesDisjoint` | every stream of eleven frames in chunks of any size up to three frames, with flushes and resets in between |
| `audio_bridge` | `TypeOK`, `OnePipeline`, `EndsOnce`, `NothingWedges` | a whole telephone call with every interleaving of its tasks; its end is recorded once, and lost only when the pipeline of an escalation times out |
| `rooms` | `TypeOK`, `RegistryIsCurrent`, `LeftMeansGone`, `InboundUndisturbed`, `CampaignReturns` | an inbound call beside a campaign, with failing connects, lost agents and repeated webhooks |
| `transcripts` | `TypeOK`, `OneSource`, `LiveSocketSubscribed`, `FeedIsFaithful`, `GoneIsForgotten` | a viewer who changes rooms, retries, lost connections, restarts of the server: what is shown is what `TranscriptFeed` promises |
| `pipeline` | `TypeOK`, `NoPiiSpoken`, `PromptsPassRails`, `EmergencyReachesHuman`, `TurnIsAnswered`, `TurnEnds` | every turn through the graph, with every failure of its services: it implements `AgentTurn` |
| `knowledge` | `TypeOK`, `IngestedOnce`, `FoundIsOwn` | two ingestion runs, overlapping or not, killed or failing at any request, beside a searching call |
| `sip` | `TypeOK`, `NeverDuplicated`, `ReportIsTrue` | three runs of the provisioning script in two processes, failing at any request |

Three runs end in a counterexample. Each states what the repository says of itself and
the code does not do:

| run | promise | what happens |
|---|---|---|
| `emergency_strike` | "Emergency: Pass through (NOT a strike)" (`safety/guardrails_handler.py:25`) | "I want to kill myself" contains "kill", an off-topic word checked before any emergency: it is refused and counted as a strike |
| `campaign_hangup` | "Individual calls continue asynchronously inside LiveKit." (`telephony/outbound_dialer.py:422`) | leaving the `async with` disconnects every outbound room of the process |
| `transcript_key` | "room_name: The full LiveKit room name" (`telephony/transcript_ws.py:38`) | `LiveKitCallRoom.tsx` subscribes under the last segment of the name, where nothing is broadcast: its transcript stays empty |

### Bounds

* `voice_call`: two connections are enough for one to hold the lock, the slot or
  the id the other wants; with two workers and two ids `Init` covers every way two
  connections can share a worker and an id. The safety run starts from those where they share
  one of them at least (`MeetingSafety`): two calls with neither in common touch no variable of
  each other's. One crash puts a handler after a restart
  beside a session and a key from before it. Strikes are not bounded by a
  constant: three of them end a call, and a fourth is the most a reused key can
  reach. The moderator lets every utterance pass (`ModeratorAnswers = {FALSE}`): the
  off-topic list already gives turns that are refused and turns that are not, and the
  moderator is a second cause of the same verdict; the proofs are for any answers.
  599,875 states up to symmetry (1,397,262 with the calls that share nothing, with the same
  result). `Conns`, `Sids` and `Workers` are interchangeable, so the
  safety run uses their symmetry; the liveness run does not, and needs one worker
  and one id, since the lock and the session are what a handler can wait for.
* `segmenter`: both thresholds 2, so a run, a gap, and a run after a gap fit many
  times in eleven frames; `MinSpeechFrames` is 3, above the speech threshold, so that
  bursts are discarded, which the default configuration (8, 50, 5) never does.
  A frame has two bytes, so chunks end inside frames.
* `audio_bridge`: two task identities allow a second pipeline, two transcripts allow a
  repetition and a change, `QueueMax = 2` lets two turns fill the queue so that
  the sentinel does not fit, two chunks fill the fallback buffer.
* `rooms`: one inbound and one dialled name; two KoyalRooms, so that a webhook
  and `dial` can answer the same name, or a name be answered twice. A third would
  allow an object registered after both; every property relates two at most.
  One name dialled keeps the semaphore from being contended: that it holds for any
  number of names is proved (`SemaphoreHolds`).
* `transcripts`: two rooms, so that a viewer can change while a retry for the other is
  due; two sockets, so that an old one may still be registered, or be sent to, while a
  new one is open; `MaxTries = 2` gives one retry and one giving up; two turns a room
  give an order, and `MaxTurns = 1` a window that overflows. 302,714 states.
* `pipeline`: one retry of each service, strikes up to 3 on entry so that a reused
  key is included, one chunk of the tenant's own, one of another tenant, and one with PII
  that does not say whose it is. 35,673 states.
* `knowledge`: two tenants, so that a run goes on after one that failed; documents of no or of
  two chunks in batches of one, so that a run can stop between two batches; two runs in two
  processes. 675,423 states up to symmetry. With three runs the same properties hold;
  that instance takes too long to be kept.
* `sip`: two tenants, three runs in two processes, six objects: both tenants
  provisioned once, or one of them after a `--recreate`. 1,105,931 states up to
  symmetry. With seven objects the same properties hold.
* `CHECK_DEADLOCK FALSE` in all but `segmenter`: calls, campaigns, turns and scripts
  end. The segmenter can always be flushed.

### Fairness

* `VoiceCall`: weak fairness of each handler's step: it has no wait without end,
  since Redis and the services are called with time-outs and the lock is
  held over one GET and the assignment of its answer. Strong fairness of noticing a disconnect: the frames sent before
  a client closed are finitely many, and each receive may find them or the
  close. Nothing is assumed of clients, expiry or crashes.
* `AudioBridge`: the time-out of `wait_for` fires, an apology's TTS call returns, a stop's
  two-second wait ends. Nothing is assumed of STT, the graph, the greeting,
  or the subscribers of the transcript.
* `RoomRegistry`: a dial is bounded by `_SIP_DIAL_TIMEOUT`; what `close`
  awaits, `bridge.stop` and `room.disconnect`, returns. The first is
  part of `NothingWedges` of `AudioBridge`; the second is an assumption about the LiveKit
  SDK, which the code calls without a time-out. Nothing is assumed of LiveKit's
  webhooks or of the other tasks.
* `TranscriptHub`: weak fairness of each endpoint's task: the server's own pings find
  out that a peer is gone. Nothing is assumed of users, networks, broadcasts or browsers.
* `AgentPipeline`: weak fairness of the next step: every service is called with a
  time-out.
* `KnowledgeBase` and `SipProvisioning` assume none and promise no progress: scripts
  may be killed.

## 4. Proofs

All from the named assumptions on the constants (`VoiceCallAssumption`,
`GuardrailsAssumption`, `SegmenterAssumption`, `BridgeAssumption`, `RegistryAssumption`,
`HubAssumption`, `PipelineAssumption`, `KnowledgeAssumption`, `SipAssumption`), which say
only that bounds are natural numbers, most of them positive, sets of actors finite, inbound
names not dialled ones, markers distinct from what they mark, and the lists of tenants not
empty, that of the knowledge base without repetition. Each proofs module proves its `InductiveInvariant`,
`IInv` in every reachable state, and from it:

| module | theorems | state |
|---|---|---|
| `VoiceCallProofs` | `TypeCorrectness`, `SessionExclusion`, `Capacity`, `GaugeExact`, `ReportAgreesWithSession`, `FinalOutcomes`, `StrikesAreExact`, `ThirdStrike`, `EarnedStrikes`, `ImplementsLedger` | `TypeOK`, `OneHandlerPerSession`, `CapacityRespected`, `GaugeBalanced`, `ReportedAsEnded`, `OutcomeIsFinal`, `StrikesMatchHarm`, `ThirdStrikeEndsCall`, `StrikesAreEarned`, and that `VoiceCall` implements `CallLedger` (`LedgerIsKept`), for any number of calls, ids, workers, slots and crashes, with and without guardrails |
| `SpeechSegmenterProofs` | `TypeCorrectness`, `OneRun`, `CountsAreExact`, `Disjoint` | `TypeOK`, `UtteranceIsOneRun`, `CountsMatchBuffer`, `UtterancesDisjoint` for all thresholds, frame sizes and streams |
| `AudioBridgeProofs` | `TypeCorrectness`, `SinglePipeline`, `OneEnd`, `StopInvariant`, `StoppedCallWindsDown` | `TypeOK`, `OnePipeline`, `EndsOnce`, and that nothing new begins in a call that was stopped, for any tasks, texts and queue sizes |
| `RoomRegistryProofs` | `TypeCorrectness`, `RegisteredIsCurrent`, `LeavingIsComplete`, `InboundStays`, `SemaphoreHolds` | `TypeOK`, `RegistryIsCurrent`, `LeftMeansGone`, `InboundUndisturbed`, and that `max_concurrent` is kept, for any names, rooms and campaigns |
| `TranscriptHubProofs` | `TypeCorrectness`, `SourceIsOne`, `LiveIsSubscribed`, `ImplementsFeed` | `TypeOK`, `OneSource`, `LiveSocketSubscribed`, and that `TranscriptHub` implements `TranscriptFeed` (`FeedIsFaithful`), for any rooms, viewers, sockets and limits |
| `AgentPipelineProofs` | `TypeCorrectness`, `SpeechIsClean`, `RailsSeePrompts`, `EmergenciesEscalate`, `ImplementsTurn` | `TypeOK`, `NoPiiSpoken`, `PromptsPassRails`, `EmergencyReachesHuman`, and that `AgentPipeline` implements `AgentTurn` (`TurnIsAnswered`), for any chunks, retries and strikes |
| `KnowledgeBaseProofs` | `TypeCorrectness`, `ReportedIsThere`, `FindsOwn` | `TypeOK`, `IngestedOnce`, `FoundIsOwn` for any tenants, documents, batches and runs |
| `SipProvisioningProofs` | `TypeCorrectness`, `NoDuplicates`, `ReportsAreTrue`, `RunsAreComplete` | `TypeOK`, `NeverDuplicated`, `ReportIsTrue`, and that a run that comes to its end has provisioned every tenant, for any tenants, processes and runs |

Why the invariants have to be strengthened:

* **VoiceCall.** `CapacityRespected` and `OneHandlerPerSession` are not inductive: the
  session is registered after an await, so the step that registers it relies on a
  check made in an earlier state. `LockHeld` says who holds the lock, `Reserved`
  that what the holder checked still holds, because everybody else who changes
  `sessions` needs the lock. `SessionFollowsHandler` ties the state of a session to
  the position of its handler, which is what makes `ReportedAsEnded` and
  `OutcomeIsFinal` true: an end can be recorded only from positions where none is.
  The strikes have an invariant of their own, `StrikeInv`, since no lock covers them:
  between the GET and the SET of a turn, another handler of the same id, on another
  worker, may save. `Alone` says that the history has then tainted the id, so that on
  an untainted one `LoadedCount` and `JudgedCount` carry the count from the GET, while it is in
  flight, through the pipeline to the SET. `OnlyRailCounts` covers the build without guardrails, whose
  pipeline returns the count it was given. `JudgedInvariant` is what holds of
  tainted ids too: what a handler is about to save is already the count of its own session,
  and it ends the call only on a count that has reached the limit (`EveryJudged`). So a SET
  may put another handler's count out of the key, and never puts in one that no session had,
  and what a GET in flight is yet to install was in the key, so that the counts of an id are
  those of its key, its sessions and its flights. For the ledger,
  `VerdictInvariant` adds that a session which is reported has an outcome
  (`EndsWithVerdict`); with `Reserved`, the step that registers a session finds the worker
  below its capacity and the id free, as `CallLedger` asks of an admission.
* **SpeechSegmenter.** The ring outlives silences and chunks, and is emptied only where a
  segment ends. `RingEndsWithRun` says that, while idle, the last
  `speech` frames of the ring are the last frames of the stream, all voiced;
  `BufferIsRun` that the buffer ends at the last frame; `UtteranceIsPast` that the
  last utterance lies before anything that can still be returned. With `BufferIsRun`,
  `CountsMatchBuffer` is inductive: each step adds one frame to the set it counts.
* **AudioBridge.** `OneStopper`: at most one caller of `stop` gets past `_stop_event`,
  and has not reported while it drains. `StopFate` and `StoppingDrains` account for the end that it owes: its
  place says whether the end was recorded, and only a call of `stop` from a pipeline is
  ever cancelled, so that `EndsOnce` can say when an end is lost. `SentinelLast`: after the stop nothing is
  queued. `StopperWaits`: a task that drains is still the one `_processing` stands for.
* **RoomRegistry.** `LeftMeansGone` must survive a join that completes after the
  disconnect. `JoinsOnce`: an object has a bridge from the moment it has joined and joins
  once; `DisconnectStops`: a disconnect that got past its guard has stopped that bridge.
  `UnusedIsUntouched` makes a new object current; `ClosesOutbound` keeps `close` off
  inbound names.
* **TranscriptHub.** `CallbacksAreHeld` and `HeldCallsBack`: a socket with callbacks is
  the one in `wsRef`, for the room in `roomNameRef`, and there is no timer beside
  it. `SubscribedReceives` and `Targeted`: a bucket holds sockets that asked for it and whose
  endpoint receives; `StaleIsDown`: only dead sockets are pruned. The refinement needs
  `PendingIsNewest` and `WireInOrder`: what is under way to a viewer is in order
  and newer than all it has shown.
* **AgentPipeline.** `RailSoFar` says of every node which stages of `AgentGraph` the
  fields have gone through, for some answers of moderator and detector; the refinement is
  its last case. `Masked`, `Unasked`, `RailsRun` and `TextSoFar` say what has been
  examined by which node.
* **KnowledgeBase and SipProvisioning.** A script relies on what it saw some requests ago.
  `AloneOrOverlap` says when it may. For ingestion, `InProgress` bounds the collection between
  what was confirmed and what was sent, and `StillToCome` keeps a run away from
  tenants it has reported. For provisioning, `StillMissing` carries "not found" to the creation,
  `ObtainedIsThere` carries what was found to the report, `RulesGoFirst` and
  `RulesRefer` keep a rule from outliving its trunk. `ProvisionedSoFar` adds what a run has
  behind it, for `RunsAreComplete`.

## 5. Progress: what is proved and what is only model-checked

Every invariant and every action property of a passing run, and the three refinements, are
theorems. Liveness (`DisconnectEndsCall`, `TurnCompletes`, `NothingWedges`,
`CampaignReturns`, `GoneIsForgotten`, `TurnEnds`) is checked by TLC only: it rests on
fairness and ENABLED, about which TLAPS proves nothing here. What can be proved of it is
its safety half, that whoever takes steps is getting nearer to the end and that nobody
else sets it back. Each is an action property over a measure, for every value of the
constants:

| theorem | states | with fairness, TLC finds |
|---|---|---|
| `AgentPipelineProofs!TurnIsBounded` | the attempts left stay within `9 * MaxRetries` and every step lowers them | `TurnEnds` |
| `VoiceCallProofs!CallIsBounded` | between two frames a handler only moves on, sixteen places at most | `TurnCompletes`, `DisconnectEndsCall` |
| `VoiceCallProofs!LockIsNeverKept` | the session lock is held over one GET of Redis, the assignment of its answer, and nothing else | the same: nobody waits for a lock that is not released |
| `AudioBridgeProofs!TurnIsBounded` | a pipeline takes seven steps at most, the apology included | `NothingWedges`, first half |
| `AudioBridgeProofs!StoppedCallWindsDown` | in a stopped call no utterance starts, the queue does not grow, nobody begins to speak | `NothingWedges`, second half: `stop` drains what cannot be refilled |
| `RoomRegistryProofs!CampaignIsBounded` | a campaign dials no contact twice and disconnects no room twice, and what it closes only shrinks | `CampaignReturns` |
| `TranscriptHubProofs!DeadAreForgotten` | the clean-up of a dead subscriber is always due and nothing revives the socket | `GoneIsForgotten` |

`RoomRegistryProofs!CampaignGoesOn`, a corollary, says that a campaign is never stuck between
the semaphore and the rooms it closes. `CampaignIsBounded` and `SemaphoreHolds` say more than the
run can: it has one contact, for which the semaphore is never contended. They were checked on two
contacts and no inbound call (6,457,922 states), and the other theorems of this section on the instances of their
runs, before they were proved; those runs take too long, or say too little beside the theorem, to
be kept.

None of the modules uses a RECURSIVE operator, so that all of them can be proved about.

## 6. Observations

What the code does and no run states as a violation, because nothing in the
repository promises otherwise in so many words, or because the model leaves that
part out. They are read off the source, and where a model has the behaviour, from it.

Voice and telephone calls:

* The third strike goes through `update_session`, not `end_session`, which alone deletes
  the strike key (`voice/websocket_handler.py:264`, `voice/session_manager.py:306`): a new
  call under that id starts with three strikes until the key expires.
* A transcript is remembered before it is answered (`telephony/audio_bridge.py:439-451`), so
  the repetition the apology asks for (line 50) may be dropped as a duplicate.
* A pipeline time-out can cancel the `stop` its own escalation called, after which no later
  `stop` records the end (`telephony/audio_bridge.py:193`, 230). `EndsOnce` says that the end is
  lost in no other way.
* A webhook that tells a room to leave during its `connect` finds nothing to stop; the
  agent then joins a room with nobody in it (`telephony/inbound_handler.py:266-275`).
* Sessions are never removed from `_sessions`, and `is_timed_out` is consulted by nobody.
* The telephone path has no strikes: `_run_pipeline` starts every turn from
  `make_initial_state` without a count and ignores `end_session`.
* A turn spoken between a viewer's `accept` and `register` is not sent to it.

The graph:

* A verdict of the verifier that cannot be parsed raises (`agents/verification_agent.py:149`),
  although verification is meant to be advisory (lines 19-24); `verified` itself is read
  by no router.
* The fallback of `observed_invoke_graph` is always English (`observability/instrumented_graph.py:143`).
* `response_agent`'s docstring speaks of retries and of ResponseGenerationError; it does
  neither. An empty answer of the model becomes an empty `final_response`.
* Language detection runs before the input rail and the safety gate, and an answer of Sarvam
  with status 200 and a null `language_code` or `confidence` makes it raise a `TypeError`
  (`agents/language_detector.py:166-168`, not caught at 111): an emergency then gets the error
  fallback and reaches nobody. It is asked for short and code-mixed utterances only.
  `EmergencyReachesHuman` excepts that answer, and the model has it.
* `mask_pii` replaces the first occurrence of the string it matched
  (`safety/guardrails_handler.py:698`): in "account 50109876543210, phone 9876543210" the phone
  number stays, and goes into the prompt. `PromptsPassRails` therefore says what passed the rail,
  not that nothing matches a pattern any more.
* Language detection sends the query to Sarvam before it is masked, and a query is masked
  before it is translated, so digits may come back (`PromptsPassRails` excepts what a translator wrote).
* A chunk without `tenant_id` passes the isolation check, since the retriever fills in the
  caller's tenant.
* The guardrail's API key is not validated at startup.

Stores:

* Ingestion drops a collection before it reads and embeds the files: callers find nothing
  meanwhile, and a failure leaves it empty or partial. Exceptions of Qdrant outside an upsert
  end the whole script.
* `create_outbound_trunk_idempotent` takes a failed list for an empty one and creates the
  trunk again, in spite of "never creates duplicates" (`telephony/sip_trunk.py:6`, 312).
* `create_dispatch_rule_idempotent` reports the trunk it was given although the rule it
  found may refer to another; it finds rules by a substring of their metadata.
* Scripts that overlap can duplicate trunks and mix editions of documents: nothing locks.

* A dial that times out may leave its participant ringing (`telephony/outbound_dialer.py:243`):
  nothing hangs it up. `CampaignReturns` is about the campaign, not about that participant.

Assumed, since no model can tell: a request takes no effect after its sender has given it up,
so a SET or DEL of Redis that times out and is carried out all the same is not modelled;
one bridge speaks in a room at a time. Of an answer of Sarvam with status 200 whose shape is
wrong, `Raise` is modelled; a language or a translation that comes as a list or an object is not.

## 7. What remains

1. `worker.py` as a second registry that answers the same rooms; `docker-compose` does not
   start it.
2. `AudioBridge` composed with `SpeechSegmenter`, for the flush that leaves the segmenter
   unreset.

## 8. Not modelled

* Token, list and health endpoints, dashboards' pages and pass-through routes: they
  only read, or render.
* STT and TTS clients: bounded retries of an HTTP call. Their callers' modules take every
  result they may return, exceptions included.
* Cost tracker and most metrics: counters that are only added to and read by no decision.
* Evaluation suites, dashboards' population script, configuration, logging and tracing:
  sequential or static, with no behaviour other parts depend on.
* `k8s/` holds empty files; the CI workflow only runs the evaluation scripts.
