------------------------ MODULE SpeechSegmenterProofs ------------------------
(***************************************************************************)
(* SpeechSegmenter for all thresholds, frame sizes and streams.  The       *)
(* argument: while the segmenter is idle the last frames of the ring are   *)
(* the voiced frames it has counted, and the count restarts at 0 with each *)
(* segment; so a segment that opens holds the last SpeechThreshold frames  *)
(* of the stream, all voiced and all after the last segment, and then      *)
(* grows by the frame under examination.                                   *)
(***************************************************************************)
EXTENDS SpeechSegmenter, FiniteSetTheorems, TLAPS

Now == Len(heard)

\* Idle: the last `speech' frames of the stream are voiced, and end the ring.
RingEndsWithRun ==
    state = "IDLE" =>
        /\ speech < SpeechThreshold
        /\ speech <= Len(ring)
        /\ speech <= Now
        /\ \A i \in 1..speech : /\ ring[Len(ring) - speech + i] = Now - speech + i
                                /\ heard[Now - speech + i]

\* The frames up to last, as many as there are.
EndsAt(frames, last) ==
    \A i \in 1..Len(frames) : frames[i] = last - Len(frames) + i

\* In speech: the buffer holds the last frames of the stream, voiced first.
BufferIsRun ==
    state = "IN_SPEECH" =>
        /\ SpeechThreshold <= Len(buffer)
        /\ Len(buffer) <= Now
        /\ EndsAt(buffer, Now)
        /\ \A i \in 1..SpeechThreshold : heard[Now - Len(buffer) + i]

\* The first frame that may belong to the next utterance comes after the last one.
NextStart == IF state = "IDLE" THEN Now - speech ELSE Now - Len(buffer)

UtteranceIsPast ==
    utterance # <<>> =>
        /\ SpeechThreshold <= Len(utterance)
        /\ utterance[Len(utterance)] <= NextStart
        /\ 1 <= utterance[1]
        /\ \A i \in 1..Len(utterance) : utterance[i] = utterance[1] + i - 1
        /\ \A i \in 1..SpeechThreshold : heard[utterance[i]]

IInv == TypeOK /\ RingEndsWithRun /\ BufferIsRun /\ UtteranceIsPast

-----------------------------------------------------------------------------
(* Sequences *)

LEMMA AppendEntries ==
    ASSUME NEW S, NEW seq \in Seq(S), NEW x \in S
    PROVE  /\ Append(seq, x) \in Seq(S)
           /\ Len(Append(seq, x)) = Len(seq) + 1
           /\ Append(seq, x)[Len(seq) + 1] = x
           /\ \A j \in 1..Len(seq) : Append(seq, x)[j] = seq[j]
OBVIOUS

LEMMA PushType ==
    ASSUME NEW deque \in Seq(Nat), Len(deque) <= SpeechThreshold, NEW frame \in Nat
    PROVE  /\ Push(deque, frame) \in Seq(Nat)
           /\ Len(Push(deque, frame)) <= SpeechThreshold
<1>1. CASE Len(deque) = SpeechThreshold
    <2>1. Tail(deque) \in Seq(Nat) /\ Len(Tail(deque)) = Len(deque) - 1
        BY <1>1, SegmenterAssumption
    <2> QED
        BY <1>1, <2>1, SegmenterAssumption DEF Push
<1>2. CASE Len(deque) # SpeechThreshold
    BY <1>2, SegmenterAssumption DEF Push
<1> QED
    BY <1>1, <1>2

\* A run at the end of the ring grows by the frame pushed.
LEMMA PushExtendsRun ==
    ASSUME NEW deque \in Seq(Nat), Len(deque) <= SpeechThreshold,
           NEW now \in Nat, NEW k \in Nat, k < SpeechThreshold, k <= Len(deque),
           \A i \in 1..k : deque[Len(deque) - k + i] = now - k + i
    PROVE  /\ k + 1 <= Len(Push(deque, now + 1))
           /\ \A i \in 1..(k + 1) :
                 Push(deque, now + 1)[Len(Push(deque, now + 1)) - (k + 1) + i]
                     = (now + 1) - (k + 1) + i
<1> DEFINE pushed == Push(deque, now + 1)
<1> SUFFICES /\ k + 1 <= Len(pushed)
             /\ \A i \in 1..(k + 1) : pushed[Len(pushed) - (k + 1) + i] = now - k + i
    OBVIOUS
\* The entries of pushed, counted from its end.
<1>1. /\ Len(pushed) \in Nat
      /\ k + 1 <= Len(pushed)
      /\ pushed[Len(pushed)] = now + 1
      /\ \A i \in 1..k : pushed[Len(pushed) - (k + 1) + i] = deque[Len(deque) - k + i]
    <2>1. CASE Len(deque) = SpeechThreshold
        <3>1. Tail(deque) \in Seq(Nat) /\ Len(Tail(deque)) = Len(deque) - 1
            BY <2>1, SegmenterAssumption
        <3>2. pushed = Append(Tail(deque), now + 1)
            BY <2>1 DEF Push
        <3>3. Len(pushed) = Len(deque) /\ pushed[Len(pushed)] = now + 1
            BY <3>1, <3>2
        <3>4. ASSUME NEW i \in 1..k
              PROVE  pushed[Len(pushed) - (k + 1) + i] = deque[Len(deque) - k + i]
            <4>1. Len(deque) - (k + 1) + i \in 1..(Len(deque) - 1)
                BY <2>1, SegmenterAssumption
            <4>2. pushed[Len(deque) - (k + 1) + i] = Tail(deque)[Len(deque) - (k + 1) + i]
                BY SMTT(30), <3>1, <3>2, <4>1
            <4>3. Tail(deque)[Len(deque) - (k + 1) + i] = deque[Len(deque) - (k + 1) + i + 1]
                BY <2>1, <4>1, SegmenterAssumption
            <4>4. Len(deque) - (k + 1) + i + 1 = Len(deque) - k + i
                OBVIOUS
            <4> QED
                BY <3>3, <4>2, <4>3, <4>4
        <3> QED
            BY <2>1, <3>3, <3>4
    <2>2. CASE Len(deque) # SpeechThreshold
        <3>1. pushed = Append(deque, now + 1)
            BY <2>2 DEF Push
        <3>2. Len(pushed) = Len(deque) + 1 /\ pushed[Len(pushed)] = now + 1
            BY <3>1
        <3>4. \A j \in 1..Len(deque) : Append(deque, now + 1)[j] = deque[j]
            <4>1. now + 1 \in Nat
                OBVIOUS
            <4> QED
                BY <4>1, AppendEntries
        <3>3. ASSUME NEW i \in 1..k
              PROVE  pushed[Len(pushed) - (k + 1) + i] = deque[Len(deque) - k + i]
            <4>1. Len(deque) - k + i \in 1..Len(deque)
                OBVIOUS
            <4>2. pushed[Len(deque) - k + i] = deque[Len(deque) - k + i]
                BY <3>1, <3>4, <4>1
            <4>3. Len(pushed) - (k + 1) + i = Len(deque) - k + i
                BY SMTT(30), <3>2
            <4> QED
                BY <4>2, <4>3
        <3> QED
            BY <3>2, <3>3
    <2> QED
        BY <2>1, <2>2
<1> HIDE DEF pushed
<1>2. ASSUME NEW i \in 1..(k + 1)
      PROVE  pushed[Len(pushed) - (k + 1) + i] = now - k + i
    <2>1. CASE i = k + 1
        <3>1. Len(pushed) - (k + 1) + i = Len(pushed)
            BY <1>1, <2>1
        <3> QED
            BY <1>1, <2>1, <3>1
    <2>2. CASE i # k + 1
        <3>1. i \in 1..k
            BY <2>2
        <3> QED
            BY <1>1, <3>1
    <2> QED
        BY <2>1, <2>2
<1> QED
    BY <1>1, <1>2

-----------------------------------------------------------------------------
(* Types *)

LEMMA VoicedType == TypeOK /\ pending # <<>> =>
                        /\ Voiced \in BOOLEAN /\ Tail(pending) \in Seq(BOOLEAN)
                        /\ Frame \in Nat /\ Now \in Nat /\ Frame = Now + 1
BY DEF TypeOK, Voiced, Frame, Now

LEMMA ReceiveChunkType == ASSUME TypeOK, ReceiveChunk PROVE TypeOK'
<1>1. PICK bytes \in 0..MaxChunk :
          /\ buffered' = (buffered + bytes) % FrameBytes
          /\ pending' \in [1..((buffered + bytes) \div FrameBytes) -> BOOLEAN]
    BY DEF ReceiveChunk
<1>2. /\ (buffered + bytes) % FrameBytes \in 0..(FrameBytes - 1)
      /\ (buffered + bytes) \div FrameBytes \in Nat
    <2>1. FrameBytes \in Nat /\ FrameBytes > 0 /\ buffered + bytes \in Nat
        BY SegmenterAssumption DEF TypeOK
    <2> QED
        BY <2>1
<1>3. pending' \in Seq(BOOLEAN)
    BY <1>1, <1>2
<1> QED
    BY <1>1, <1>2, <1>3 DEF ReceiveChunk, TypeOK

LEMMA NextFrameType ==
    ASSUME TypeOK, pending # <<>>, NextFrame
    PROVE  /\ heard' \in Seq(BOOLEAN) /\ pending' \in Seq(BOOLEAN)
           /\ buffered' \in 0..(FrameBytes - 1)
           /\ Now' = Now + 1 /\ Now \in Nat
           /\ \A j \in 1..Now : heard'[j] = heard[j]
           /\ heard'[Now + 1] = Voiced
<1>1. Voiced \in BOOLEAN /\ heard \in Seq(BOOLEAN)
    BY VoicedType DEF TypeOK
<1> QED
    BY <1>1, VoicedType, AppendEntries DEF NextFrame, TypeOK, Now

LEMMA ClearType ==
    ASSUME Clear
    PROVE  /\ state' \in States /\ speech' \in Nat /\ silence' \in Nat
           /\ buffer' \in Seq(Nat) /\ ring' \in Seq(Nat) /\ Len(ring') <= SpeechThreshold
BY SegmenterAssumption DEF Clear, States

LEMMA StepType == ASSUME TypeOK, [Next]_vars PROVE TypeOK'
<1>1. CASE ReceiveChunk
    BY <1>1, ReceiveChunkType
<1>2. CASE IdleSilence
    BY <1>2, VoicedType, NextFrameType, PushType DEF IdleSilence, TypeOK
<1>3. CASE IdleVoiced
    BY <1>3, VoicedType, NextFrameType, PushType DEF IdleVoiced, TypeOK
<1>4. CASE SpeechOnset
    BY <1>4, VoicedType, NextFrameType, PushType DEF SpeechOnset, TypeOK, States
<1>5. CASE SpeechGoesOn
    BY <1>5, VoicedType, NextFrameType, AppendEntries
    DEF SpeechGoesOn, SpeechAfter, SilenceAfter, TypeOK
<1>6. CASE UtteranceComplete
    <2>1. heard' \in Seq(BOOLEAN)
        BY <1>6 DEF UtteranceComplete, TypeOK
    <2> QED
        BY <1>6, <2>1, ClearType, VoicedType, AppendEntries DEF UtteranceComplete, TypeOK
<1>7. CASE BurstDiscarded
    BY <1>7, ClearType, VoicedType, NextFrameType DEF BurstDiscarded, TypeOK
<1>8. CASE FlushSpeech
    BY <1>8, ClearType DEF FlushSpeech, TypeOK
<1>9. CASE FlushNothing
    BY <1>9, ClearType DEF FlushNothing, TypeOK
<1>10. CASE Reset
    BY <1>10, ClearType, SegmenterAssumption DEF Reset, TypeOK
<1>11. CASE UNCHANGED vars
    BY <1>11 DEF vars, TypeOK
<1> QED
    BY <1>1, <1>2, <1>3, <1>4, <1>5, <1>6, <1>7, <1>8, <1>9, <1>10, <1>11 DEF Next

-----------------------------------------------------------------------------
(* The inductive invariant *)

\* The stream only grows.
HeardGrows ==
    /\ Now' \in Nat /\ Now \in Nat
    /\ Now <= Now'
    /\ \A j \in 1..Now : heard'[j] = heard[j]

LEMMA StepGrows == ASSUME TypeOK, [Next]_vars PROVE HeardGrows
<1>1. CASE UNCHANGED heard
    BY <1>1 DEF HeardGrows, Now, TypeOK
<1>2. CASE pending # <<>> /\ NextFrame
    BY <1>2, NextFrameType DEF HeardGrows
<1>3. CASE UtteranceComplete
    BY <1>3 DEF UtteranceComplete, HeardGrows, Now, TypeOK
<1> QED
    BY <1>1, <1>2, <1>3
    DEF Next, ReceiveChunk, IdleSilence, IdleVoiced, SpeechOnset, SpeechGoesOn,
        BurstDiscarded, FlushSpeech, FlushNothing, Reset, vars

\* An utterance is not disturbed by the frames that follow it.
LEMMA UtteranceStays ==
    ASSUME IInv, HeardGrows, utterance' = utterance,
           NextStart \in Nat, NextStart <= Now, NextStart <= NextStart', NextStart' \in Nat
    PROVE  UtteranceIsPast'
<1> SUFFICES ASSUME utterance # <<>>
             PROVE  UtteranceIsPast'
    BY DEF UtteranceIsPast
<1>1. utterance \in Seq(Nat) /\ Len(utterance) \in Nat
    BY DEF IInv, TypeOK
<1>2. UtteranceIsPast!2
    BY DEF IInv, UtteranceIsPast
<1>3. \A i \in 1..Len(utterance) : utterance[i] \in 1..Now
    <2>1. utterance[Len(utterance)] = utterance[1] + Len(utterance) - 1
        BY SMTT(30), <1>1, <1>2, SegmenterAssumption
    <2>2. utterance[1] \in Nat
        BY <1>1, <1>2, SegmenterAssumption
    <2> QED
        BY SMTT(30), <1>1, <1>2, <2>1, <2>2 DEF HeardGrows
<1>4. \A i \in 1..SpeechThreshold : heard'[utterance[i]]
    <2> TAKE i \in 1..SpeechThreshold
    <2>1. i \in 1..Len(utterance)
        BY <1>1, <1>2, SegmenterAssumption
    <2>2. utterance[i] \in 1..Now /\ heard[utterance[i]]
        BY <1>2, <1>3, <2>1
    <2> QED
        BY <2>2 DEF HeardGrows
<1>5. utterance[Len(utterance)] <= NextStart'
    BY <1>1, <1>2, <1>3 DEF HeardGrows
<1> QED
    BY <1>2, <1>4, <1>5 DEF UtteranceIsPast

\* What the segmenter returns is a run of frames from the end of the stream
\* that opens with SpeechThreshold voiced ones.
LEMMA RunIsUtterance ==
    ASSUME IInv, HeardGrows, NEW last \in Nat, last <= NextStart', NextStart' \in Nat,
           utterance' \in Seq(Nat),
           SpeechThreshold <= Len(utterance'), Len(utterance') <= last,
           EndsAt(utterance', last),
           last - Len(utterance') + SpeechThreshold <= Now,
           \A i \in 1..SpeechThreshold : heard[last - Len(utterance') + i]
    PROVE  UtteranceIsPast'
<1>1. Len(utterance') \in Nat /\ Len(utterance') > 0
    BY SegmenterAssumption
<1>2. utterance'[1] = last - Len(utterance') + 1
    BY <1>1 DEF EndsAt
<1>3. utterance'[Len(utterance')] = last
    BY <1>1 DEF EndsAt
<1>4. \A i \in 1..Len(utterance') : utterance'[i] = utterance'[1] + i - 1
    BY <1>1, <1>2 DEF EndsAt
<1>5. \A i \in 1..SpeechThreshold : heard'[utterance'[i]]
    <2> TAKE i \in 1..SpeechThreshold
    <2>1. i \in 1..Len(utterance') /\ last - Len(utterance') + i \in 1..Now
        BY <1>1, SegmenterAssumption DEF HeardGrows
    <2>2. utterance'[i] = last - Len(utterance') + i
        BY <2>1 DEF EndsAt
    <2>3. heard[last - Len(utterance') + i]
        OBVIOUS
    <2> QED
        BY <2>1, <2>2, <2>3 DEF HeardGrows
<1> QED
    BY <1>1, <1>2, <1>3, <1>4, <1>5 DEF UtteranceIsPast

LEMMA NextStartBounds ==
    ASSUME TypeOK, RingEndsWithRun, BufferIsRun
    PROVE  NextStart \in Nat /\ NextStart <= Now /\ Now \in Nat
BY DEF TypeOK, States, RingEndsWithRun, BufferIsRun, NextStart, Now

\* After _reset there is no run and no segment.
LEMMA ClearedRun ==
    ASSUME TypeOK', Clear
    PROVE  RingEndsWithRun' /\ BufferIsRun' /\ NextStart' = Now'
BY SegmenterAssumption DEF TypeOK, Clear, RingEndsWithRun, BufferIsRun, NextStart, Now

LEMMA IdleIInv ==
    ASSUME IInv, TypeOK', HeardGrows, IdleSilence \/ IdleVoiced
    PROVE  IInv'
<1> USE DEF IInv
<1>1. /\ state = "IDLE" /\ state' = "IDLE" /\ pending # <<>> /\ NextFrame
      /\ ring' = Push(ring, Now + 1) /\ utterance' = utterance
    BY DEF IdleSilence, IdleVoiced, Frame, Now
<1>0. speech \in Nat /\ speech < SpeechThreshold /\ speech <= Now /\ speech <= Len(ring)
    BY <1>1 DEF RingEndsWithRun, TypeOK
<1>2. /\ Now' = Now + 1 /\ Now \in Nat /\ heard'[Now + 1] = Voiced
      /\ \A j \in 1..Now : heard'[j] = heard[j]
    BY <1>1, NextFrameType
<1>3. RingEndsWithRun'
    <2>1. CASE IdleSilence
        BY <1>1, <1>2, <2>1, SegmenterAssumption DEF IdleSilence, RingEndsWithRun, TypeOK
    <2>2. CASE IdleVoiced
        <3>1. speech' = speech + 1 /\ speech + 1 < SpeechThreshold /\ Voiced
            BY <2>2 DEF IdleVoiced
        <3>2. /\ speech + 1 <= Len(ring')
              /\ \A i \in 1..(speech + 1) :
                    ring'[Len(ring') - (speech + 1) + i] = (Now + 1) - (speech + 1) + i
            <4>1. ring \in Seq(Nat) /\ Len(ring) <= SpeechThreshold
                BY DEF TypeOK
            <4> QED
                BY <1>1, <1>2, <1>0, <4>1, PushExtendsRun DEF RingEndsWithRun
        <3>3. ASSUME NEW i \in 1..(speech + 1)
              PROVE  heard'[(Now + 1) - (speech + 1) + i]
            <4>1. CASE i = speech + 1
                <5>1. (Now + 1) - (speech + 1) + i = Now + 1
                    BY <1>0, <1>2, <4>1
                <5> QED
                    BY <1>2, <3>1, <5>1
            <4>2. CASE i # speech + 1
                <5>1. i \in 1..speech /\ (Now + 1) - (speech + 1) + i = Now - speech + i
                    BY <1>0, <1>2, <4>2
                <5>2. Now - speech + i \in 1..Now
                    BY <1>0, <1>2, <5>1
                <5>3. heard[Now - speech + i]
                    BY <1>1, <5>1 DEF RingEndsWithRun
                <5> QED
                    BY <1>2, <5>1, <5>2, <5>3
            <4> QED
                BY <4>1, <4>2
        <3>4. speech + 1 <= Now'
            BY <1>1, <1>2 DEF RingEndsWithRun, TypeOK
        <3> QED
            BY <1>1, <1>2, <3>1, <3>2, <3>3, <3>4 DEF RingEndsWithRun
    <2> QED
        BY <2>1, <2>2
<1>4. BufferIsRun'
    BY <1>1 DEF BufferIsRun
<1>5. UtteranceIsPast'
    <2>1. NextStart <= NextStart'
        <3>1. speech' = 0 \/ speech' = speech + 1
            BY DEF IdleSilence, IdleVoiced
        <3>2. NextStart = Now - speech /\ NextStart' = Now' - speech'
            BY <1>1 DEF NextStart
        <3> QED
            BY <1>0, <1>2, <3>1, <3>2
    <2>2. NextStart \in Nat /\ NextStart <= Now /\ NextStart' \in Nat
        BY SMTT(30), <1>3, <1>4, NextStartBounds
           DEF NextStart, RingEndsWithRun, BufferIsRun, TypeOK, Now, States
    <2> QED
        BY <1>1, <2>1, <2>2, UtteranceStays
<1> QED
    BY <1>3, <1>4, <1>5

LEMMA OnsetIInv ==
    ASSUME IInv, TypeOK', HeardGrows, SpeechOnset
    PROVE  IInv'
<1> USE DEF IInv
<1>1. /\ state = "IDLE" /\ state' = "IN_SPEECH" /\ pending # <<>> /\ NextFrame /\ Voiced
      /\ buffer' = Push(ring, Now + 1) /\ utterance' = utterance
    BY DEF SpeechOnset, Frame, Now
<1>2. /\ Now' = Now + 1 /\ Now \in Nat /\ heard'[Now + 1] = Voiced
      /\ \A j \in 1..Now : heard'[j] = heard[j]
    BY <1>1, NextFrameType
<1>3. /\ speech \in Nat /\ speech + 1 = SpeechThreshold /\ speech <= Now /\ speech <= Len(ring)
      /\ ring \in Seq(Nat) /\ Len(ring) <= SpeechThreshold
    BY <1>1, SegmenterAssumption DEF SpeechOnset, RingEndsWithRun, TypeOK
<1>4. /\ Len(buffer') = SpeechThreshold
      /\ \A i \in 1..SpeechThreshold : buffer'[i] = Now' - SpeechThreshold + i
    <2>1. /\ speech + 1 <= Len(buffer')
          /\ \A i \in 1..(speech + 1) :
                buffer'[Len(buffer') - (speech + 1) + i] = (Now + 1) - (speech + 1) + i
        <3>1. \A i \in 1..speech : ring[Len(ring) - speech + i] = Now - speech + i
            BY <1>1 DEF RingEndsWithRun
        <3>2. speech < SpeechThreshold
            BY <1>3, SegmenterAssumption
        <3>3. /\ speech + 1 <= Len(Push(ring, Now + 1))
              /\ \A i \in 1..(speech + 1) :
                    Push(ring, Now + 1)[Len(Push(ring, Now + 1)) - (speech + 1) + i]
                        = (Now + 1) - (speech + 1) + i
            BY <1>2, <1>3, <3>1, <3>2, PushExtendsRun
        <3> QED
            BY <1>1, <3>3
    <2>2. buffer' \in Seq(Nat) /\ Len(buffer') <= SpeechThreshold
        <3>1. Now + 1 \in Nat
            BY <1>2
        <3> QED
            BY <1>1, <1>3, <3>1, PushType
    <2>3. Len(buffer') = SpeechThreshold
        BY <1>3, <2>1, <2>2
    <2>4. ASSUME NEW i \in 1..SpeechThreshold
          PROVE  buffer'[i] = Now' - SpeechThreshold + i
        <3>1. i \in 1..(speech + 1) /\ Len(buffer') - (speech + 1) + i = i
            BY <1>3, <2>3
        <3> QED
            BY <1>2, <1>3, <2>1, <3>1
    <2> QED
        BY <2>3, <2>4
<1>5. \A i \in 1..SpeechThreshold : heard'[Now' - SpeechThreshold + i]
    <2> TAKE i \in 1..SpeechThreshold
    <2>1. CASE i = SpeechThreshold
        <3>1. Now' - SpeechThreshold + i = Now + 1
            BY <1>2, <1>3, <2>1
        <3> QED
            BY <1>1, <1>2, <3>1
    <2>2. CASE i # SpeechThreshold
        <3>1. /\ SpeechThreshold = speech + 1 /\ Now' = Now + 1
              /\ speech \in Nat /\ Now \in Nat
            BY <1>2, <1>3
        <3>2. i \in 1..speech
            BY <3>1, <2>2
        <3>3. Now' - SpeechThreshold + i = Now - speech + i
            BY <3>1, <3>2
        <3>4. Now - speech + i \in 1..Now
            BY <1>3, <3>1, <3>2
        <3>5. heard[Now - speech + i]
            BY <1>1, <3>2 DEF RingEndsWithRun
        <3> QED
            BY <1>2, <3>3, <3>4, <3>5
    <2> QED
        BY <2>1, <2>2
<1>6. BufferIsRun'
    BY <1>2, <1>3, <1>4, <1>5 DEF BufferIsRun, EndsAt
<1>7. RingEndsWithRun'
    BY <1>1 DEF RingEndsWithRun
<1>8. UtteranceIsPast'
    <2>1. NextStart = Now - speech /\ NextStart' = Now' - SpeechThreshold
        BY <1>1, <1>4 DEF NextStart
    <2>2. NextStart <= NextStart' /\ NextStart \in Nat /\ NextStart <= Now /\ NextStart' \in Nat
        BY <1>2, <1>3, <2>1
    <2> QED
        BY <1>1, <2>2, UtteranceStays
<1> QED
    BY <1>6, <1>7, <1>8

\* The buffer with the frame under examination is a run too.
LEMMA BufferGrows ==
    ASSUME IInv, state = "IN_SPEECH"
    PROVE  /\ Append(buffer, Frame) \in Seq(Nat)
           /\ Len(Append(buffer, Frame)) = Len(buffer) + 1
           /\ EndsAt(Append(buffer, Frame), Now + 1)
<1>1. buffer \in Seq(Nat) /\ Len(buffer) \in Nat /\ Now \in Nat /\ Frame = Now + 1 /\ Frame \in Nat
    BY DEF IInv, TypeOK, Frame, Now
<1>2. /\ Append(buffer, Frame) \in Seq(Nat)
      /\ Len(Append(buffer, Frame)) = Len(buffer) + 1
      /\ Append(buffer, Frame)[Len(buffer) + 1] = Now + 1
      /\ \A i \in 1..Len(buffer) : Append(buffer, Frame)[i] = buffer[i]
    BY <1>1, AppendEntries
<1>3. \A i \in 1..Len(buffer) : buffer[i] = Now - Len(buffer) + i
    BY DEF IInv, BufferIsRun, EndsAt
<1>4. ASSUME NEW i \in 1..(Len(buffer) + 1)
      PROVE  Append(buffer, Frame)[i] = (Now + 1) - (Len(buffer) + 1) + i
    <2>1. CASE i = Len(buffer) + 1
        BY <1>1, <1>2, <2>1
    <2>2. CASE i # Len(buffer) + 1
        <3>1. i \in 1..Len(buffer)
            BY <1>1, <2>2
        <3> QED
            BY <1>1, <1>2, <1>3, <3>1
    <2> QED
        BY <2>1, <2>2
<1>5. EndsAt(Append(buffer, Frame), Now + 1)
    BY <1>2, <1>4 DEF EndsAt
<1> QED
    BY <1>2, <1>5

\* The first frames of the buffer, seen from the frames heard so far.
LEMMA BufferBounds ==
    ASSUME IInv, state = "IN_SPEECH"
    PROVE  /\ Now \in Nat /\ Len(buffer) \in Nat
           /\ SpeechThreshold <= Len(buffer) /\ Len(buffer) <= Now
           /\ NextStart = Now - Len(buffer)
           /\ \A i \in 1..SpeechThreshold : heard[Now - Len(buffer) + i]
BY DEF IInv, TypeOK, BufferIsRun, NextStart, Now

LEMMA SpeechGoesOnIInv ==
    ASSUME IInv, TypeOK', HeardGrows, SpeechGoesOn
    PROVE  IInv'
<1>1. /\ state = "IN_SPEECH" /\ state' = "IN_SPEECH" /\ pending # <<>> /\ NextFrame
      /\ buffer' = Append(buffer, Frame) /\ utterance' = utterance
    BY DEF SpeechGoesOn
<1>2. Now' = Now + 1 /\ \A j \in 1..Now : heard'[j] = heard[j]
    BY <1>1, NextFrameType DEF IInv
<1>3. Now' - Len(buffer') = Now - Len(buffer)
    BY <1>1, <1>2, BufferGrows, BufferBounds
<1>4. \A i \in 1..SpeechThreshold : heard'[Now - Len(buffer) + i]
    <2> TAKE i \in 1..SpeechThreshold
    <2>1. Now - Len(buffer) + i \in 1..Now
        BY <1>1, BufferBounds, SegmenterAssumption
    <2> QED
        BY <1>1, <1>2, <2>1, BufferBounds
<1>5. BufferIsRun'
    <2>1. EndsAt(buffer', Now')
        BY <1>1, <1>2, BufferGrows
    <2>2. SpeechThreshold <= Len(buffer') /\ Len(buffer') <= Now'
        BY <1>1, <1>2, BufferGrows, BufferBounds, SegmenterAssumption
    <2> QED
        BY <1>3, <1>4, <2>1, <2>2 DEF BufferIsRun
<1>6. RingEndsWithRun'
    BY <1>1 DEF RingEndsWithRun
<1>7. UtteranceIsPast'
    <2>1. NextStart' = NextStart
        BY <1>1, <1>3, BufferBounds DEF NextStart
    <2> QED
        BY <1>1, <2>1, BufferBounds, UtteranceStays
<1> QED
    BY <1>5, <1>6, <1>7 DEF IInv

LEMMA UtteranceCompleteIInv ==
    ASSUME IInv, TypeOK', HeardGrows, UtteranceComplete
    PROVE  IInv'
<1>1. /\ state = "IN_SPEECH" /\ pending # <<>> /\ Clear
      /\ utterance' = Append(buffer, Frame) /\ heard' = heard \o pending
    BY DEF UtteranceComplete
<1>2. RingEndsWithRun' /\ BufferIsRun' /\ NextStart' = Now'
    BY <1>1, ClearedRun
<1>3. Now' \in Nat /\ Now + 1 <= Now'
    BY <1>1 DEF IInv, TypeOK, Now
<1>4. UtteranceIsPast'
    <2> DEFINE last == Now + 1
    <2>1. /\ Len(utterance') = Len(buffer) + 1
          /\ utterance' \in Seq(Nat)
          /\ EndsAt(utterance', last)
        BY <1>1, BufferGrows
    <2>2. last \in Nat /\ last - Len(utterance') = Now - Len(buffer)
        <3>1. Now \in Nat /\ Len(buffer) \in Nat
            BY <1>1, BufferBounds
        <3> QED
            BY <2>1, <3>1
    <2>3. SpeechThreshold <= Len(utterance') /\ Len(utterance') <= last
        BY <1>1, <2>1, BufferBounds, SegmenterAssumption
    <2>4. last - Len(utterance') + SpeechThreshold <= Now
        BY <1>1, <2>2, BufferBounds, SegmenterAssumption
    <2>5. \A i \in 1..SpeechThreshold : heard[last - Len(utterance') + i]
        BY <1>1, <2>2, BufferBounds
    <2>6. last <= NextStart' /\ NextStart' \in Nat
        BY <1>2, <1>3
    <2> HIDE DEF last
    <2> QED
        BY <2>1, <2>2, <2>3, <2>4, <2>5, <2>6, RunIsUtterance
<1> QED
    BY <1>2, <1>4 DEF IInv

LEMMA FlushSpeechIInv ==
    ASSUME IInv, TypeOK', HeardGrows, FlushSpeech
    PROVE  IInv'
<1>1. state = "IN_SPEECH" /\ Clear /\ utterance' = buffer /\ heard' = heard
    BY DEF FlushSpeech
<1>2. RingEndsWithRun' /\ BufferIsRun' /\ NextStart' = Now' /\ Now' = Now
    BY <1>1, ClearedRun DEF Now
<1>3. UtteranceIsPast'
    <2>1. /\ utterance' \in Seq(Nat)
          /\ EndsAt(utterance', Now)
        BY <1>1 DEF IInv, TypeOK, BufferIsRun
    <2>2. Now - Len(utterance') + SpeechThreshold <= Now
        BY <1>1, BufferBounds, SegmenterAssumption
    <2>3. /\ Now \in Nat /\ Now <= NextStart' /\ NextStart' \in Nat
          /\ SpeechThreshold <= Len(utterance') /\ Len(utterance') <= Now
          /\ \A i \in 1..SpeechThreshold : heard[Now - Len(utterance') + i]
        BY <1>1, <1>2, BufferBounds
    <2> QED
        BY <2>1, <2>2, <2>3, RunIsUtterance
<1> QED
    BY <1>2, <1>3 DEF IInv

\* The steps that empty the segment and return nothing.
LEMMA ClearIInv ==
    ASSUME IInv, TypeOK', HeardGrows, Clear, utterance' = utterance
    PROVE  IInv'
<1>1. RingEndsWithRun' /\ BufferIsRun' /\ NextStart' = Now'
    BY ClearedRun
<1>2. UtteranceIsPast'
    <2>1. NextStart \in Nat /\ NextStart <= Now
        BY NextStartBounds DEF IInv
    <2>2. Now <= Now' /\ Now' \in Nat /\ Now \in Nat
        BY DEF HeardGrows
    <2> QED
        BY <1>1, <2>1, <2>2, UtteranceStays
<1> QED
    BY <1>1, <1>2 DEF IInv

LEMMA StepIInv == ASSUME IInv, [Next]_vars PROVE IInv'
<1>1. TypeOK' /\ HeardGrows
    BY StepType, StepGrows DEF IInv
<1>2. CASE UNCHANGED <<state, speech, silence, buffer, ring, heard, utterance>>
    BY <1>1, <1>2 DEF IInv, RingEndsWithRun, BufferIsRun, UtteranceIsPast, NextStart, Now
<1>3. CASE IdleSilence \/ IdleVoiced
    BY <1>1, <1>3, IdleIInv
<1>4. CASE SpeechOnset
    BY <1>1, <1>4, OnsetIInv
<1>5. CASE SpeechGoesOn
    BY <1>1, <1>5, SpeechGoesOnIInv
<1>6. CASE UtteranceComplete
    BY <1>1, <1>6, UtteranceCompleteIInv
<1>7. CASE FlushSpeech
    BY <1>1, <1>7, FlushSpeechIInv
<1>8. CASE BurstDiscarded \/ FlushNothing \/ Reset
    BY <1>1, <1>8, ClearIInv DEF BurstDiscarded, FlushNothing, Reset
<1> QED
    BY <1>2, <1>3, <1>4, <1>5, <1>6, <1>7, <1>8 DEF Next, ReceiveChunk, vars

-----------------------------------------------------------------------------
(* The counters of a segment *)

VoicedFrames == VoicedIn(buffer)

\* The frames of the buffer are frames of the stream: a step does not change
\* what was heard of them.
LEMMA BufferIsHeard ==
    ASSUME IInv, state = "IN_SPEECH", NEW i \in 1..Len(buffer)
    PROVE  buffer[i] \in 1..Now /\ buffer[i] = Now - Len(buffer) + i
<1>1. Now \in Nat /\ Len(buffer) \in Nat /\ Len(buffer) <= Now
    BY BufferBounds
<1>2. buffer[i] = Now - Len(buffer) + i
    BY DEF IInv, BufferIsRun, EndsAt
<1> QED
    BY <1>1, <1>2

\* A segment opens with SpeechThreshold frames, all of them voiced.
LEMMA OnsetCounts ==
    ASSUME IInv, IInv', SpeechOnset
    PROVE  CountsMatchBuffer'
<1>1. /\ state = "IDLE" /\ state' = "IN_SPEECH" /\ silence' = 0 /\ speech' = speech + 1
      /\ speech + 1 >= SpeechThreshold
    BY DEF SpeechOnset
<1>2. speech \in Nat /\ speech' = SpeechThreshold
    BY <1>1, SegmenterAssumption DEF IInv, TypeOK, RingEndsWithRun
<1>3. /\ Len(buffer') \in Nat /\ SpeechThreshold <= Len(buffer') /\ Len(buffer') <= Now'
      /\ Now' \in Nat
      /\ EndsAt(buffer', Now')
      /\ \A i \in 1..SpeechThreshold : heard'[Now' - Len(buffer') + i]
    BY <1>1 DEF IInv, TypeOK, BufferIsRun, Now
<1>4. Len(buffer') = SpeechThreshold
    <2>1. ring \in Seq(Nat) /\ Len(ring) <= SpeechThreshold /\ Frame \in Nat
        BY DEF IInv, TypeOK, Frame
    <2>2. Len(buffer') <= SpeechThreshold
        BY <2>1, PushType DEF SpeechOnset
    <2> QED
        BY <1>3, <2>2, SegmenterAssumption
<1>5. \A i \in 1..Len(buffer') : heard'[buffer'[i]]
    BY <1>3, <1>4 DEF EndsAt
<1>6. VoicedFrames' = 1..SpeechThreshold
    BY <1>4, <1>5 DEF VoicedIn, VoicedFrames
<1>7. Cardinality(VoicedFrames') = SpeechThreshold
    BY <1>6, FS_Interval, SegmenterAssumption
<1>8. silence' < Len(buffer') /\ heard'[buffer'[Len(buffer') - silence']]
    <2>1. Len(buffer') - silence' \in 1..Len(buffer')
        BY <1>1, <1>4, SegmenterAssumption
    <2> QED
        BY <1>1, <1>4, <1>5, <2>1, SegmenterAssumption
<1>9. \A i \in 1..Len(buffer') : ~(i > Len(buffer') - silence')
    BY <1>1, <1>3
<1> QED
    BY <1>2, <1>7, <1>8, <1>9 DEF CountsMatchBuffer, VoicedIn, VoicedFrames

\* The segment grows by a frame, which one of the two counters counts.
LEMMA GoesOnCounts ==
    ASSUME IInv, CountsMatchBuffer, SpeechGoesOn
    PROVE  CountsMatchBuffer'
<1> DEFINE n == Len(buffer)
<1>1. /\ state = "IN_SPEECH" /\ pending # <<>> /\ NextFrame
      /\ buffer' = Append(buffer, Frame)
      /\ speech' = SpeechAfter /\ silence' = SilenceAfter
    BY DEF SpeechGoesOn
<1>2. /\ Now \in Nat /\ Frame = Now + 1 /\ heard'[Frame] = Voiced /\ Voiced \in BOOLEAN
      /\ \A j \in 1..Now : heard'[j] = heard[j]
    BY <1>1, VoicedType, NextFrameType DEF IInv
<1>3. n \in Nat /\ silence \in Nat /\ speech \in Nat
    BY DEF IInv, TypeOK
<1>4. /\ Len(buffer') = n + 1 /\ buffer'[n + 1] = Frame
      /\ \A i \in 1..n : buffer'[i] = buffer[i]
    BY <1>1, <1>2, AppendEntries DEF IInv, TypeOK
<1>5. \A i \in 1..n : heard'[buffer'[i]] = heard[buffer[i]]
    BY <1>1, <1>2, <1>4, BufferIsHeard
<1>6. heard'[buffer'[n + 1]] = Voiced
    BY <1>2, <1>4
<1>7. /\ speech = Cardinality(VoicedFrames)
      /\ \A i \in 1..n : i > n - silence => ~heard[buffer[i]]
      /\ silence < n
      /\ heard[buffer[n - silence]]
    BY <1>1 DEF CountsMatchBuffer, VoicedIn, VoicedFrames
<1>8. IsFiniteSet(VoicedFrames) /\ n + 1 \notin VoicedFrames
    <2>1. IsFiniteSet(1..n)
        BY <1>3, FS_Interval
    <2>2. VoicedFrames \subseteq 1..n
        BY DEF VoicedIn, VoicedFrames
    <2>3. n + 1 \notin 1..n
        BY <1>3
    <2> QED
        BY <2>1, <2>2, <2>3, FS_Subset
<1> HIDE DEF n
<1>9. VoicedFrames' = IF Voiced THEN VoicedFrames \cup {n + 1} ELSE VoicedFrames
    <2>1. VoicedFrames = {i \in 1..n : heard[buffer[i]]}
        BY DEF VoicedIn, VoicedFrames, n
    <2>2. VoicedFrames' = {i \in 1..(n + 1) : heard'[buffer'[i]]}
        BY <1>4 DEF VoicedIn, VoicedFrames
    <2>3. \A i : i \in 1..(n + 1) <=> i \in 1..n \/ i = n + 1
        BY <1>3
    <2>4. ASSUME NEW i
          PROVE  i \in VoicedFrames' <=> i \in VoicedFrames \/ (Voiced /\ i = n + 1)
        BY <1>3, <1>5, <1>6, <2>1, <2>2, <2>3
    <2> QED
        BY <2>4
<1>10. CASE Voiced
    <2>1. speech' = speech + 1 /\ silence' = 0
        BY <1>1, <1>10 DEF SpeechAfter, SilenceAfter
    <2>2. Cardinality(VoicedFrames') = speech + 1
        BY <1>7, <1>8, <1>9, <1>10, FS_AddElement
    <2>3. /\ \A i \in 1..Len(buffer') : ~(i > Len(buffer') - silence')
          /\ silence' < Len(buffer') /\ Len(buffer') - silence' = n + 1
        BY <1>3, <1>4, <2>1
    <2> QED
        BY <1>6, <1>10, <2>1, <2>2, <2>3 DEF CountsMatchBuffer, VoicedIn, VoicedFrames
<1>11. CASE ~Voiced
    <2>1. speech' = speech /\ silence' = silence + 1
        BY <1>1, <1>11 DEF SpeechAfter, SilenceAfter
    <2>2. Cardinality(VoicedFrames') = speech
        BY <1>7, <1>9, <1>11
    <2>3. silence' < Len(buffer') /\ Len(buffer') - silence' = n - silence /\ n - silence \in 1..n
        BY <1>3, <1>4, <1>7, <2>1
    <2>4. ASSUME NEW i \in 1..Len(buffer'), i > Len(buffer') - silence'
          PROVE  ~heard'[buffer'[i]]
        <3>1. CASE i = n + 1
            BY <1>6, <1>11, <3>1
        <3>2. CASE i # n + 1
            <4>1. i \in 1..n /\ i > n - silence
                BY <1>3, <1>4, <2>3, <2>4, <3>2
            <4> QED
                BY <1>5, <1>7, <4>1
        <3> QED
            BY <3>1, <3>2
    <2>5. heard'[buffer'[Len(buffer') - silence']]
        BY <1>5, <1>7, <2>3
    <2> QED
        BY <2>1, <2>2, <2>3, <2>4, <2>5 DEF CountsMatchBuffer, VoicedIn, VoicedFrames
<1> QED
    BY <1>10, <1>11

LEMMA StepCounts ==
    ASSUME IInv, CountsMatchBuffer, [Next]_vars
    PROVE  CountsMatchBuffer'
<1>1. CASE UNCHANGED <<state, speech, silence, buffer, heard>>
    BY <1>1 DEF CountsMatchBuffer, VoicedIn
<1>2. CASE state' = "IDLE"
    BY <1>2 DEF CountsMatchBuffer
<1>3. CASE SpeechOnset
    BY <1>3, OnsetCounts, StepIInv
<1>4. CASE SpeechGoesOn
    BY <1>4, GoesOnCounts
<1> QED
    BY <1>1, <1>2, <1>3, <1>4
    DEF Next, ReceiveChunk, IdleSilence, IdleVoiced, UtteranceComplete, BurstDiscarded,
        FlushSpeech, FlushNothing, Reset, Clear, vars

-----------------------------------------------------------------------------
(* The voiced frames of an utterance *)

EnoughVoice == utterance # <<>> => Cardinality(VoicedIn(utterance)) >= MinSpeechFrames

LEMMA UtteranceIsHeard ==
    ASSUME IInv, utterance # <<>>, NEW i \in 1..Len(utterance)
    PROVE  utterance[i] \in 1..Now
<1>1. utterance \in Seq(Nat) /\ Len(utterance) \in Nat
    BY DEF IInv, TypeOK
<1>2. UtteranceIsPast!2
    BY DEF IInv, UtteranceIsPast
<1>3. utterance[Len(utterance)] = utterance[1] + Len(utterance) - 1
    BY <1>1, <1>2
<1>4. utterance[1] \in Nat /\ utterance[i] = utterance[1] + i - 1
    BY <1>1, <1>2
<1>5. NextStart \in Nat /\ NextStart <= Now /\ Now \in Nat
    BY NextStartBounds DEF IInv
<1> QED
    BY <1>1, <1>2, <1>3, <1>4, <1>5

\* The frame under examination is counted with those of the buffer.
LEMMA CompleteVoice ==
    ASSUME IInv, CountsMatchBuffer, HeardGrows, UtteranceComplete
    PROVE  Cardinality(VoicedIn(utterance)') = SpeechAfter
<1> DEFINE n == Len(buffer)
<1>1. /\ state = "IN_SPEECH" /\ pending # <<>> /\ utterance' = Append(buffer, Frame)
      /\ heard' = heard \o pending
    BY DEF UtteranceComplete
<1>2. /\ Now \in Nat /\ Frame = Now + 1 /\ heard'[Frame] = Voiced /\ Voiced \in BOOLEAN
      /\ \A j \in 1..Now : heard'[j] = heard[j]
    BY <1>1, VoicedType DEF IInv, TypeOK, Frame, Now, Voiced, HeardGrows
<1>3. n \in Nat /\ speech \in Nat /\ buffer \in Seq(Nat) /\ Frame \in Nat
    BY <1>2 DEF IInv, TypeOK
<1>4. /\ Len(utterance') = n + 1 /\ utterance'[n + 1] = Frame
      /\ \A i \in 1..n : utterance'[i] = buffer[i]
    BY <1>1, <1>3, AppendEntries
<1>5. \A i \in 1..n : heard'[utterance'[i]] = heard[buffer[i]]
    <2> SUFFICES ASSUME NEW i \in 1..n
                 PROVE  heard'[utterance'[i]] = heard[buffer[i]]
        OBVIOUS
    <2>1. buffer[i] \in 1..Now
        BY <1>1, BufferIsHeard
    <2> QED
        BY <1>2, <1>4, <2>1
<1>6. speech = Cardinality(VoicedFrames)
    BY <1>1 DEF CountsMatchBuffer, VoicedFrames
<1>7. VoicedFrames = {i \in 1..n : heard[buffer[i]]}
    BY DEF VoicedIn, VoicedFrames, n
<1> HIDE DEF n
<1>8. IsFiniteSet(VoicedFrames) /\ n + 1 \notin VoicedFrames
    <2>1. IsFiniteSet(1..n) /\ n + 1 \notin 1..n
        BY <1>3, FS_Interval
    <2> QED
        BY <1>7, <2>1, FS_Subset
<1>9. VoicedIn(utterance)' = {i \in 1..(n + 1) : heard'[utterance'[i]]}
    BY <1>4 DEF VoicedIn
<1>10. \A i : i \in 1..(n + 1) <=> i \in 1..n \/ i = n + 1
    BY <1>3
<1>11. heard'[utterance'[n + 1]] = Voiced
    BY <1>2, <1>4
<1>12. VoicedIn(utterance)' = IF Voiced THEN VoicedFrames \cup {n + 1} ELSE VoicedFrames
    <2>1. ASSUME NEW i
          PROVE  i \in VoicedIn(utterance)'
                     <=> i \in VoicedFrames \/ (Voiced /\ i = n + 1)
        BY <1>3, <1>5, <1>7, <1>9, <1>10, <1>11
    <2> QED
        BY <2>1
<1>13. CASE Voiced
    BY <1>6, <1>8, <1>12, <1>13, FS_AddElement DEF SpeechAfter
<1>14. CASE ~Voiced
    BY <1>6, <1>12, <1>14 DEF SpeechAfter
<1> QED
    BY <1>13, <1>14

LEMMA StepVoice ==
    ASSUME IInv, CountsMatchBuffer, EnoughVoice, [Next]_vars
    PROVE  EnoughVoice'
<1>1. HeardGrows
    BY StepGrows DEF IInv
<1>2. CASE utterance' = utterance
    <2> SUFFICES ASSUME utterance # <<>>
                 PROVE  Cardinality(VoicedIn(utterance)') >= MinSpeechFrames
        BY <1>2 DEF EnoughVoice
    <2>1. \A i \in 1..Len(utterance) : heard'[utterance[i]] = heard[utterance[i]]
        BY <1>1, UtteranceIsHeard DEF HeardGrows
    <2>2. VoicedIn(utterance)' = VoicedIn(utterance)
        BY <1>2, <2>1 DEF VoicedIn
    <2> QED
        BY <2>2 DEF EnoughVoice
<1>3. CASE UtteranceComplete
    <2>1. Cardinality(VoicedIn(utterance)') = SpeechAfter
        BY <1>1, <1>3, CompleteVoice
    <2> QED
        BY <1>3, <2>1 DEF UtteranceComplete, EnoughVoice
<1>4. CASE FlushSpeech
    <2>1. /\ utterance' = buffer /\ heard' = heard /\ speech >= MinSpeechFrames
          /\ speech = Cardinality(VoicedIn(buffer))
        BY <1>4 DEF FlushSpeech, CountsMatchBuffer
    <2>2. VoicedIn(utterance)' = VoicedIn(buffer)
        BY <2>1 DEF VoicedIn
    <2> QED
        BY <2>1, <2>2 DEF EnoughVoice
<1> QED
    BY <1>2, <1>3, <1>4
    DEF Next, ReceiveChunk, IdleSilence, IdleVoiced, SpeechOnset, SpeechGoesOn,
        BurstDiscarded, FlushNothing, Reset, vars

-----------------------------------------------------------------------------
(* The theorems *)

\* The inductive invariant holds in every reachable state.
THEOREM InductiveInvariant == Spec => []IInv
<1>1. Init => IInv
    BY SegmenterAssumption
    DEF Init, IInv, TypeOK, States, RingEndsWithRun, BufferIsRun, UtteranceIsPast, Now
<1>2. IInv /\ [Next]_vars => IInv'
    BY StepIInv
<1> QED
    BY <1>1, <1>2, PTL DEF Spec

\* Every variable keeps its type; the ring never outgrows the threshold.
THEOREM TypeCorrectness == Spec => []TypeOK
BY InductiveInvariant, PTL DEF IInv

\* For any thresholds and any stream, the counters that decide when a segment
\* ends and whether it is kept are those of the audio it holds: the speech
\* count spans ring, buffer and chunks, the silence count its last frames.
THEOREM CountsAreExact == Spec => []CountsMatchBuffer
<1>1. Init => CountsMatchBuffer
    BY DEF Init, CountsMatchBuffer
<1>2. IInv /\ CountsMatchBuffer /\ [Next]_vars => CountsMatchBuffer'
    BY StepCounts
<1> QED
    BY <1>1, <1>2, InductiveInvariant, PTL DEF Spec

\* For any thresholds and any cutting of the stream into chunks, an utterance
\* is one uninterrupted stretch of the call, never opens with silence, and
\* holds the voiced frames it was kept for.
THEOREM OneRun == Spec => []UtteranceIsOneRun
<1>1. Init => EnoughVoice
    BY DEF Init, EnoughVoice
<1>2. IInv /\ CountsMatchBuffer /\ EnoughVoice /\ [Next]_vars => EnoughVoice'
    BY StepVoice
<1>3. IInv => IsRun(utterance)
    <2> SUFFICES ASSUME IInv, NEW i \in 1..Len(utterance)
                 PROVE  utterance[i] = utterance[1] + i - 1
        BY DEF IsRun
    <2>1. utterance # <<>>
        OBVIOUS
    <2> QED
        BY <2>1 DEF IInv, UtteranceIsPast
<1>4. IInv /\ EnoughVoice => UtteranceIsOneRun
    BY <1>3 DEF IInv, EnoughVoice, UtteranceIsPast, UtteranceIsOneRun
<1> QED
    BY <1>1, <1>2, <1>4, InductiveInvariant, CountsAreExact, PTL DEF Spec

\* No frame is in two utterances.
THEOREM Disjoint == Spec => UtterancesDisjoint
<1>1. ASSUME IInv, Next, utterance' # utterance, utterance # <<>>
      PROVE  utterance'[1] > utterance[Len(utterance)]
    <2>1. UtteranceComplete \/ FlushSpeech
        BY <1>1
        DEF Next, ReceiveChunk, IdleSilence, IdleVoiced, SpeechOnset, SpeechGoesOn,
            BurstDiscarded, FlushNothing, Reset
    <2>2. state = "IN_SPEECH" /\ (utterance' = Append(buffer, Frame) \/ utterance' = buffer)
        BY <2>1 DEF UtteranceComplete, FlushSpeech
    <2>3. Now \in Nat /\ Len(buffer) \in Nat /\ Len(buffer) > 0 /\ NextStart = Now - Len(buffer)
        BY <1>1, <2>2, BufferBounds, SegmenterAssumption
    <2>4. Append(buffer, Frame)[1] = Now - Len(buffer) + 1
        BY <1>1, <2>2, <2>3, BufferGrows DEF EndsAt
    <2>5. buffer[1] = Now - Len(buffer) + 1
        BY <1>1, <2>2, <2>3 DEF IInv, BufferIsRun, EndsAt
    <2>6. utterance[Len(utterance)] <= Now - Len(buffer) /\ utterance[Len(utterance)] \in Nat
        BY <1>1, <2>3 DEF IInv, UtteranceIsPast, TypeOK
    <2> QED
        BY <2>2, <2>3, <2>4, <2>5, <2>6
<1>2. IInv /\ [Next]_vars => [utterance' # utterance /\ utterance # <<>> =>
                                  utterance'[1] > utterance[Len(utterance)]]_vars
    BY <1>1
<1> QED
    BY <1>2, InductiveInvariant, PTL DEF Spec, UtterancesDisjoint

=============================================================================
