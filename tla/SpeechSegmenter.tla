--------------------------- MODULE SpeechSegmenter ---------------------------
(***************************************************************************)
(* The voice activity detector of a call: FrameBuffer and SpeechSegmenter  *)
(* of backend/voice/vad.py, which cut the caller's audio into utterances.  *)
(*                                                                         *)
(* A frame is the number of its position in the stream; what the energy    *)
(* guard and webrtcvad say of it is its voicing, a Boolean chosen when the *)
(* chunk that completes it arrives.  process_chunk is synchronous: its     *)
(* loop is one action per frame here, and no other operation runs before   *)
(* pending, the frames of the chunk still to be examined, is empty.        *)
(***************************************************************************)
EXTENDS Integers, Sequences, FiniteSets

CONSTANTS SpeechThreshold,   \* VAD_SPEECH_THRESHOLD
          SilenceThreshold,  \* VAD_SILENCE_THRESHOLD
          MinSpeechFrames,   \* VAD_MIN_SPEECH_FRAMES
          FrameBytes,        \* bytes of a frame
          MaxChunk,          \* bound: bytes of a chunk
          MaxFrames          \* bound: frames of the stream

ASSUME SegmenterAssumption ==
    /\ SpeechThreshold \in Nat \ {0}
    /\ SilenceThreshold \in Nat \ {0}
    /\ MinSpeechFrames \in Nat
    /\ FrameBytes \in Nat \ {0}
    /\ MaxChunk \in Nat
    /\ MaxFrames \in Nat

VARIABLES
    buffered,  \* bytes FrameBuffer holds, less than a frame
    pending,   \* voicing of the frames process_chunk has still to examine
    state,     \* VADState
    speech,    \* _speech_frame_count
    silence,   \* _silence_frame_count
    buffer,    \* _speech_buffer, as the frames it holds
    ring,      \* _pre_speech_ring, as the frames it holds
    heard,     \* history: the voicing of every frame examined or dropped
    utterance  \* history: the frames of the last utterance returned

vars == <<buffered, pending, state, speech, silence, buffer, ring, heard, utterance>>

States == {"IDLE", "IN_SPEECH"}

TypeOK ==
    /\ buffered \in 0..(FrameBytes - 1)
    /\ pending \in Seq(BOOLEAN)
    /\ state \in States
    /\ speech \in Nat
    /\ silence \in Nat
    /\ buffer \in Seq(Nat)
    /\ ring \in Seq(Nat) /\ Len(ring) <= SpeechThreshold
    /\ heard \in Seq(BOOLEAN)
    /\ utterance \in Seq(Nat)

Init ==
    /\ buffered = 0
    /\ pending = <<>>
    /\ state = "IDLE"
    /\ speech = 0
    /\ silence = 0
    /\ buffer = <<>>
    /\ ring = <<>>
    /\ heard = <<>>
    /\ utterance = <<>>

\* The frame under examination, and its voicing.
Frame == Len(heard) + 1
Voiced == Head(pending)

-----------------------------------------------------------------------------
(* Helpers *)

\* A deque without maxlen.
PushUnbounded(deque, frame) == Append(deque, frame)

\* deque(maxlen=VAD_SPEECH_THRESHOLD).append
Push(deque, frame) ==
    IF Len(deque) = SpeechThreshold THEN Append(Tail(deque), frame)
                                    ELSE Append(deque, frame)

\* The voiced frames are still counted from the last segment.
ClearKeepsSpeechCount ==
    /\ state' = "IDLE"
    /\ speech' = speech
    /\ silence' = 0
    /\ buffer' = <<>>
    /\ ring' = <<>>

\* _reset
Clear ==
    /\ state' = "IDLE"
    /\ speech' = 0
    /\ silence' = 0
    /\ buffer' = <<>>
    /\ ring' = <<>>

SpeechAfter == IF Voiced THEN speech + 1 ELSE speech

\* Silent frames are counted over the whole segment.
SilenceAfterNeverCleared == IF Voiced THEN silence ELSE silence + 1

SilenceAfter == IF Voiced THEN 0 ELSE silence + 1

\* The frame has been examined and the loop of process_chunk goes on.
NextFrame ==
    /\ heard' = Append(heard, Voiced)
    /\ pending' = Tail(pending)
    /\ UNCHANGED buffered

-----------------------------------------------------------------------------
(* FrameBuffer.push: a chunk completes the frames its bytes fill. *)

ReceiveChunk ==
    /\ pending = <<>>
    /\ \E bytes \in 0..MaxChunk :
        LET frames == (buffered + bytes) \div FrameBytes
        IN  /\ Len(heard) + frames <= MaxFrames
            /\ buffered' = (buffered + bytes) % FrameBytes
            /\ pending' \in [1..frames -> BOOLEAN]
    /\ UNCHANGED <<state, speech, silence, buffer, ring, heard, utterance>>

-----------------------------------------------------------------------------
(* _process_frame, in state IDLE *)

\* One silent frame ends a run of voiced ones that is still too short.
IdleSilence ==
    /\ state = "IDLE" /\ pending # <<>>
    /\ ~Voiced
    /\ ring' = Push(ring, Frame)
    /\ speech' = 0
    /\ NextFrame
    /\ UNCHANGED <<state, silence, buffer, utterance>>

IdleVoiced ==
    /\ state = "IDLE" /\ pending # <<>>
    /\ Voiced
    /\ speech + 1 < SpeechThreshold
    /\ ring' = Push(ring, Frame)
    /\ speech' = speech + 1
    /\ NextFrame
    /\ UNCHANGED <<state, silence, buffer, utterance>>

\* The segment starts with what is in the ring.
SpeechOnset ==
    /\ state = "IDLE" /\ pending # <<>>
    /\ Voiced
    /\ speech + 1 >= SpeechThreshold
    /\ ring' = Push(ring, Frame)
    /\ speech' = speech + 1
    /\ silence' = 0
    /\ state' = "IN_SPEECH"
    /\ buffer' = Push(ring, Frame)
    /\ NextFrame
    /\ UNCHANGED utterance

-----------------------------------------------------------------------------
(* _process_frame, in state IN_SPEECH *)

SpeechGoesOn ==
    /\ state = "IN_SPEECH" /\ pending # <<>>
    /\ SilenceAfter < SilenceThreshold
    /\ speech' = SpeechAfter
    /\ silence' = SilenceAfter
    /\ buffer' = Append(buffer, Frame)
    /\ NextFrame
    /\ UNCHANGED <<state, ring, utterance>>

\* process_chunk returns the utterance at once: what is left of the chunk is
\* never examined.
UtteranceComplete ==
    /\ state = "IN_SPEECH" /\ pending # <<>>
    /\ SilenceAfter >= SilenceThreshold
    /\ SpeechAfter >= MinSpeechFrames
    /\ utterance' = Append(buffer, Frame)
    /\ Clear
    /\ heard' = heard \o pending
    /\ pending' = <<>>
    /\ UNCHANGED buffered

BurstDiscarded ==
    /\ state = "IN_SPEECH" /\ pending # <<>>
    /\ SilenceAfter >= SilenceThreshold
    /\ SpeechAfter < MinSpeechFrames
    /\ Clear
    /\ NextFrame
    /\ UNCHANGED utterance

-----------------------------------------------------------------------------
(* flush and reset *)

\* The segment is returned and goes on.
FlushSpeechKeepsSegment ==
    /\ pending = <<>>
    /\ state = "IN_SPEECH" /\ speech >= MinSpeechFrames
    /\ utterance' = buffer
    /\ UNCHANGED <<buffered, pending, state, speech, silence, buffer, ring, heard>>

FlushSpeech ==
    /\ pending = <<>>
    /\ state = "IN_SPEECH" /\ speech >= MinSpeechFrames
    /\ utterance' = buffer
    /\ Clear
    /\ UNCHANGED <<buffered, pending, heard>>

FlushNothing ==
    /\ pending = <<>>
    /\ ~(state = "IN_SPEECH" /\ speech >= MinSpeechFrames)
    /\ Clear
    /\ UNCHANGED <<buffered, pending, heard, utterance>>

\* reset: the bytes of an incomplete frame go too.
Reset ==
    /\ pending = <<>>
    /\ Clear
    /\ buffered' = 0
    /\ UNCHANGED <<pending, heard, utterance>>

-----------------------------------------------------------------------------

Next ==
    \/ ReceiveChunk
    \/ IdleSilence
    \/ IdleVoiced
    \/ SpeechOnset
    \/ SpeechGoesOn
    \/ UtteranceComplete
    \/ BurstDiscarded
    \/ FlushSpeech
    \/ FlushNothing
    \/ Reset

Spec == Init /\ [][Next]_vars

-----------------------------------------------------------------------------
(* Properties *)

\* A sequence of consecutive frames.
IsRun(frames) == \A i \in 1..Len(frames) : frames[i] = frames[1] + i - 1

\* The voiced ones of a sequence of frames.
VoicedIn(frames) == {i \in 1..Len(frames) : heard[frames[i]]}

\* What is handed to the speech recogniser is one uninterrupted stretch of the
\* call that opens with the voiced frames that started it and holds enough of
\* them: count and ring start again together after a segment, a burst, a flush
\* or a reset, so that no frame is missing between ring and buffer, nothing of
\* what came before is in front, and no voiced frame is counted twice.
UtteranceIsOneRun ==
    /\ IsRun(utterance)
    /\ utterance # <<>> =>
          /\ Len(utterance) >= SpeechThreshold
          /\ \A i \in 1..SpeechThreshold : heard[utterance[i]]
          /\ Cardinality(VoicedIn(utterance)) >= MinSpeechFrames

\* Within a segment the two counters are those of the audio it holds: its
\* voiced frames, and the silent ones at its end.
CountsMatchBuffer ==
    state = "IN_SPEECH" =>
        /\ speech = Cardinality(VoicedIn(buffer))
        /\ \A i \in 1..Len(buffer) :
              i > Len(buffer) - silence => ~heard[buffer[i]]
        /\ silence < Len(buffer)
        /\ heard[buffer[Len(buffer) - silence]]

\* No audio is transcribed twice: an utterance starts after the last frame of
\* the one before it, whether that one ended in silence or by a flush.
UtterancesDisjoint ==
    [][utterance' # utterance /\ utterance # <<>> =>
          utterance'[1] > utterance[Len(utterance)]]_vars
=============================================================================
