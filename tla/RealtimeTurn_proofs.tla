------------------------- MODULE RealtimeTurn_proofs -------------------------
(* Proofs about RealtimeTurn, for every value of its constants. *)
EXTENDS RealtimeTurn, SequenceTheorems, TLAPS

-----------------------------------------------------------------------------
(* Proofs about RealtimeTurn, for every value of its constants. *)

(* What a synchronous stretch of pipeline code for turn t may do.           *)

(* It leaves the turn and the controller of the session alone, or takes     *)
(* both off it together.                                                    *)
Calm(s, n, t) ==
  /\ n \in Session
  /\ n.alive = s.alive
  /\ n.textDirect = s.textDirect
  /\ \/ n.ttsTurnId = s.ttsTurnId /\ n.abortController = s.abortController
     \/ /\ s.alive
        /\ s.ttsTurnId = t
        /\ n.ttsTurnId = NoTurn
        /\ n.abortController = NoTurn

(* The signal a call of the TTS provider is given. *)
Signal(s) == IF s.abortController = NoTurn THEN DrainController
                                           ELSE s.abortController

(* The calls it starts are calls of t, made while t owns a registered       *)
(* session; only then may a drain store a controller of its own.            *)
Effect(s, r, t) ==
  /\ r.s \in Session
  /\ r.hang \in BOOLEAN
  /\ r.s.alive = s.alive
  /\ r.s.textDirect = s.textDirect
  /\ r.calls \subseteq IF s.textDirect THEN Speech ELSE Call
  /\ r.calls # {} => s.alive /\ s.ttsTurnId = t
  /\ \A c \in r.calls : c.turn = t /\ (~s.textDirect => c.signal = Signal(s))
  /\ \/ r.s.ttsTurnId = s.ttsTurnId /\ r.s.abortController = s.abortController
     \/ /\ s.alive
        /\ s.ttsTurnId = t
        /\ r.s.ttsTurnId = t
        /\ r.s.abortController = Signal(s)
     \/ /\ s.alive
        /\ s.ttsTurnId = t
        /\ r.s.ttsTurnId = NoTurn
        /\ r.s.abortController = NoTurn

LEMMA ResetCalm ==
  ASSUME NEW s \in Session, NEW t \in Turns, s.ttsTurnId = t
  PROVE  Calm(s, ResetTurnState(s, t), t)
BY DEF ResetTurnState, Update, Calm, Session

LEMMA TtsCompleteCalm ==
  ASSUME NEW s \in Session, NEW t \in Turns
  PROVE  Calm(s, TtsCompleteTurn(s, t), t)
BY ResetCalm DEF TtsCompleteTurn, Calm

LEMMA SpeakCompleteCalm ==
  ASSUME NEW s \in Session, NEW t \in Turns
  PROVE  Calm(s, SpeakCompleteTurn(s, t), t)
BY ResetCalm DEF SpeakCompleteTurn, Calm

LEMMA CalmTransitive ==
  ASSUME NEW s \in Session, NEW m, NEW n, NEW t \in Turns,
         Calm(s, m, t), Calm(m, n, t)
  PROVE  Calm(s, n, t)
BY TurnsAssumption DEF Calm

LEMMA CalmEffect ==
  ASSUME NEW s \in Session, NEW n, NEW t \in Turns, Calm(s, n, t)
  PROVE  Effect(s, Yield(n), t)
BY DEF Calm, Effect, Yield

(* An Effect may follow a Calm that keeps the turn. *)
LEMMA CalmThenEffect ==
  ASSUME NEW s \in Session, NEW m, NEW r, NEW t \in Turns,
         Calm(s, m, t), Effect(m, r, t)
  PROVE  Effect(s, r, t)
BY TurnsAssumption DEF Calm, Effect, Signal

-----------------------------------------------------------------------------
(* The operators of the pipelines, from the inside out. *)

LEMMA SetCalm ==
  ASSUME NEW s \in Session, NEW t \in Turns, NEW b \in BOOLEAN
  PROVE  /\ Calm(s, Update(s, [s EXCEPT !.ttsFinalizeRequested = b]), t)
         /\ Calm(s, Update(s, [s EXCEPT !.ttsProcessing = b]), t)
         /\ Calm(s, Update(s, [s EXCEPT !.speakProcessing = b]), t)
         /\ Calm(s, Update(s, [s EXCEPT !.ttsProcessing = b,
                                        !.ttsStarted = b]), t)
         /\ Calm(s, Update(s, [s EXCEPT !.speakProcessing = b,
                                        !.ttsStarted = b]), t)
<1>1. Calm(s, Update(s, [s EXCEPT !.ttsFinalizeRequested = b]), t)
  BY DEF Update, Calm, Session
<1>2. Calm(s, Update(s, [s EXCEPT !.ttsProcessing = b]), t)
  BY DEF Update, Calm, Session
<1>3. Calm(s, Update(s, [s EXCEPT !.speakProcessing = b]), t)
  BY DEF Update, Calm, Session
<1>4. Calm(s, Update(s, [s EXCEPT !.ttsProcessing = b, !.ttsStarted = b]), t)
  BY DEF Update, Calm, Session
<1>5. Calm(s, Update(s, [s EXCEPT !.speakProcessing = b, !.ttsStarted = b]), t)
  BY DEF Update, Calm, Session
<1>. QED BY <1>1, <1>2, <1>3, <1>4, <1>5

LEMMA FillCalm ==
  ASSUME NEW s \in Session, NEW t \in Turns, NEW text \in Text
  PROVE  /\ Calm(s, Update(s, [s EXCEPT !.ttsQueue = Append(@, text)]), t)
         /\ Calm(s, Update(s, [s EXCEPT !.speakQueue = Append(@, text)]), t)
         /\ Calm(s, Update(s, [s EXCEPT !.sentenceBuffer = @ \o text]), t)
         /\ Calm(s, Update(s, [s EXCEPT !.sentenceBuffer = <<>>]), t)
         /\ Calm(s, Update(s, [s EXCEPT !.ttsQueue = <<>>]), t)
<1>1. /\ s.ttsQueue \in Seq(Text)
      /\ s.speakQueue \in Seq(Text)
      /\ s.sentenceBuffer \in Text
  BY DEF Session
<1>2. /\ Append(s.ttsQueue, text) \in Seq(Text)
      /\ Append(s.speakQueue, text) \in Seq(Text)
  BY <1>1, AppendProperties
<1>3. s.sentenceBuffer \o text \in Text
  BY <1>1, ConcatProperties DEF Text
<1>4. <<>> \in Text /\ <<>> \in Seq(Text)
  BY DEF Text
<1>5. Calm(s, Update(s, [s EXCEPT !.ttsQueue = Append(@, text)]), t)
  BY <1>2, <1>3, <1>4 DEF Update, Calm, Session
<1>6. Calm(s, Update(s, [s EXCEPT !.speakQueue = Append(@, text)]), t)
  BY <1>2, <1>3, <1>4 DEF Update, Calm, Session
<1>7. Calm(s, Update(s, [s EXCEPT !.sentenceBuffer = @ \o text]), t)
  BY <1>2, <1>3, <1>4 DEF Update, Calm, Session
<1>8. Calm(s, Update(s, [s EXCEPT !.sentenceBuffer = <<>>]), t)
  BY <1>2, <1>3, <1>4 DEF Update, Calm, Session
<1>9. Calm(s, Update(s, [s EXCEPT !.ttsQueue = <<>>]), t)
  BY <1>2, <1>3, <1>4 DEF Update, Calm, Session
<1>. QED BY <1>5, <1>6, <1>7, <1>8, <1>9

LEMMA TtsDrainEndCalm ==
  ASSUME NEW s \in Session, NEW t \in Turns
  PROVE  Calm(s, TtsDrainEnd(s, t), t)
<1> DEFINE m == Update(s, [s EXCEPT !.ttsProcessing = FALSE])
<1>1. Calm(s, m, t)
  BY SetCalm
<1>2. Calm(m, TtsCompleteTurn(m, t), t)
  BY <1>1, TtsCompleteCalm DEF Calm
<1>. QED
  BY <1>1, <1>2, CalmTransitive DEF TtsDrainEnd

LEMMA SpeakDrainEndCalm ==
  ASSUME NEW s \in Session, NEW t \in Turns
  PROVE  Calm(s, SpeakDrainEnd(s, t), t)
<1> DEFINE m == Update(s, [s EXCEPT !.speakProcessing = FALSE])
<1>1. Calm(s, m, t)
  BY SetCalm
<1>2. Calm(m, SpeakCompleteTurn(m, t), t)
  BY <1>1, SpeakCompleteCalm DEF Calm
<1>. QED
  BY <1>1, <1>2, CalmTransitive DEF SpeakDrainEnd

LEMMA TtsDrainLoopEffect ==
  ASSUME NEW s \in Session, NEW t \in Turns, ~s.textDirect
  PROVE  Effect(s, TtsDrainLoop(s, t), t)
<1>1. CASE s.ttsQueue = <<>> \/ s.ttsTurnId # t
  <2>1. TtsDrainLoop(s, t) = Yield(TtsDrainEnd(s, t))
    BY <1>1 DEF TtsDrainLoop
  <2>. QED
    BY <2>1, TtsDrainEndCalm, CalmEffect
<1>2. CASE s.ttsQueue # <<>> /\ s.ttsTurnId = t /\ s.alive
  <2> DEFINE n == [s EXCEPT !.ttsQueue = Tail(@), !.abortController = Signal(s)]
             c == [turn |-> t, text |-> Head(s.ttsQueue), signal |-> Signal(s)]
  <2>1. TtsDrainLoop(s, t) = [s |-> n, calls |-> {c}, hang |-> FALSE]
    BY <1>2 DEF TtsDrainLoop, Signal
  <2>2. s.ttsQueue \in Seq(Text)
    BY DEF Session
  <2>3. Head(s.ttsQueue) \in Text /\ Tail(s.ttsQueue) \in Seq(Text)
    BY <1>2, <2>2, HeadTailProperties
  <2>4. Signal(s) \in Controllers
    BY DEF Signal, Session, Controllers
  <2>5. c \in Call
    BY <2>3, <2>4 DEF Call
  <2>6. n \in Session
    BY <2>3, <2>4 DEF Session
  <2>7. /\ n.alive = s.alive /\ n.textDirect = s.textDirect
        /\ n.ttsTurnId = s.ttsTurnId /\ n.abortController = Signal(s)
    BY DEF Session
  <2> DEFINE r == [s |-> n, calls |-> {c}, hang |-> FALSE]
  <2>8. /\ r.s = n /\ r.calls = {c} /\ r.hang = FALSE
        /\ c.turn = t /\ c.signal = Signal(s)
    OBVIOUS
  <2> HIDE DEF n, c, r
  <2>9. Effect(s, r, t)
    BY <1>2, <2>5, <2>6, <2>7, <2>8 DEF Effect
  <2>. QED
    BY <2>1, <2>9 DEF r
<1>3. CASE s.ttsQueue # <<>> /\ s.ttsTurnId = t /\ ~s.alive
  <2>1. TtsDrainLoop(s, t) = [s |-> s, calls |-> {}, hang |-> TRUE]
    BY <1>3 DEF TtsDrainLoop
  <2> DEFINE r == [s |-> s, calls |-> {}, hang |-> TRUE]
  <2>2. r.s = s /\ r.calls = {} /\ r.hang = TRUE
    OBVIOUS
  <2> HIDE DEF r
  <2>3. Effect(s, r, t)
    BY <2>2 DEF Effect
  <2>. QED
    BY <2>1, <2>3 DEF r
<1>. QED
  BY <1>1, <1>2, <1>3 DEF Session

LEMMA SpeakDrainLoopEffect ==
  ASSUME NEW s \in Session, NEW t \in Turns, s.textDirect
  PROVE  Effect(s, SpeakDrainLoop(s, t), t)
<1>1. CASE s.speakQueue = <<>> \/ s.ttsTurnId # t
  <2>1. SpeakDrainLoop(s, t) = Yield(SpeakDrainEnd(s, t))
    BY <1>1 DEF SpeakDrainLoop
  <2>. QED
    BY <2>1, SpeakDrainEndCalm, CalmEffect
<1>2. CASE s.speakQueue # <<>> /\ s.ttsTurnId = t /\ s.alive
  <2> DEFINE n == [s EXCEPT !.speakQueue = Tail(@)]
             c == [turn |-> t, text |-> Head(s.speakQueue)]
  <2>1. SpeakDrainLoop(s, t) = [s |-> n, calls |-> {c}, hang |-> FALSE]
    BY <1>2 DEF SpeakDrainLoop
  <2>2. s.speakQueue \in Seq(Text)
    BY DEF Session
  <2>3. Head(s.speakQueue) \in Text /\ Tail(s.speakQueue) \in Seq(Text)
    BY <1>2, <2>2, HeadTailProperties
  <2>4. c \in Speech /\ n \in Session
    BY <2>3 DEF Speech, Session
  <2>5. /\ n.alive = s.alive /\ n.textDirect = s.textDirect
        /\ n.ttsTurnId = s.ttsTurnId /\ n.abortController = s.abortController
    BY DEF Session
  <2> DEFINE r == [s |-> n, calls |-> {c}, hang |-> FALSE]
  <2>6. r.s = n /\ r.calls = {c} /\ r.hang = FALSE /\ c.turn = t
    OBVIOUS
  <2> HIDE DEF n, c, r
  <2>7. Effect(s, r, t)
    BY <1>2, <2>4, <2>5, <2>6 DEF Effect
  <2>. QED
    BY <2>1, <2>7 DEF r
<1>3. CASE s.speakQueue # <<>> /\ s.ttsTurnId = t /\ ~s.alive
  <2>1. SpeakDrainLoop(s, t) = [s |-> s, calls |-> {}, hang |-> TRUE]
    BY <1>3 DEF SpeakDrainLoop
  <2> DEFINE r == [s |-> s, calls |-> {}, hang |-> TRUE]
  <2>2. r.s = s /\ r.calls = {} /\ r.hang = TRUE
    OBVIOUS
  <2> HIDE DEF r
  <2>3. Effect(s, r, t)
    BY <2>2 DEF Effect
  <2>. QED
    BY <2>1, <2>3 DEF r
<1>. QED
  BY <1>1, <1>2, <1>3 DEF Session

LEMMA SendEffect ==
  ASSUME NEW s \in Session, NEW t \in Turns, NEW text \in Text
  PROVE  Effect(s, SendToPipeline(s, t, text), t)
<1>1. CASE ~s.textDirect
  <2> DEFINE p == Update(s, [s EXCEPT !.ttsQueue = Append(@, text)])
             d == Update(p, [p EXCEPT !.ttsProcessing = TRUE,
                                      !.ttsStarted = TRUE])
  <2>1. Calm(s, p, t)
    BY FillCalm
  <2>2. p \in Session /\ ~p.textDirect
    BY <1>1, <2>1 DEF Calm
  <2>3. Calm(p, d, t)
    BY <2>2, SetCalm
  <2>4. d \in Session /\ ~d.textDirect
    BY <2>2, <2>3 DEF Calm
  <2>5. Effect(p, TtsDrainLoop(d, t), t)
    BY <2>2, <2>3, <2>4, TtsDrainLoopEffect, CalmThenEffect
  <2>6. Effect(p, Yield(p), t)
    BY <2>2, CalmEffect DEF Calm
  <2>7. Effect(p, TtsDrain(p, t), t)
    BY <2>5, <2>6 DEF TtsDrain
  <2>8. Effect(s, TtsDrain(p, t), t)
    BY <2>1, <2>7, CalmThenEffect
  <2>. QED
    BY <1>1, <2>8 DEF SendToPipeline, TtsEnqueue
<1>2. CASE s.textDirect
  <2> DEFINE p == Update(s, [s EXCEPT !.speakQueue = Append(@, text)])
             d == Update(p, [p EXCEPT !.speakProcessing = TRUE,
                                      !.ttsStarted = TRUE])
  <2>1. Calm(s, p, t)
    BY FillCalm
  <2>2. p \in Session /\ p.textDirect
    BY <1>2, <2>1 DEF Calm
  <2>3. Calm(p, d, t)
    BY <2>2, SetCalm
  <2>4. d \in Session /\ d.textDirect
    BY <2>2, <2>3 DEF Calm
  <2>5. Effect(p, SpeakDrainLoop(d, t), t)
    BY <2>2, <2>3, <2>4, SpeakDrainLoopEffect, CalmThenEffect
  <2>6. Effect(p, Yield(p), t)
    BY <2>2, CalmEffect DEF Calm
  <2>7. Effect(p, SpeakDrain(p, t), t)
    BY <2>5, <2>6 DEF SpeakDrain
  <2>8. Effect(s, SpeakDrain(p, t), t)
    BY <2>1, <2>7, CalmThenEffect
  <2>. QED
    BY <1>2, <2>8 DEF SendToPipeline, SpeakEnqueue
<1>. QED
  BY <1>1, <1>2 DEF Session

LEMMA MarkCalm ==
  ASSUME NEW s \in Session, NEW t \in Turns
  PROVE  Calm(s, MarkFinalize(s, t), t)
<1> DEFINE m == Update(s, [s EXCEPT !.ttsFinalizeRequested = TRUE])
<1>1. Calm(s, m, t) /\ Calm(s, s, t)
  BY SetCalm DEF Calm
<1>2. m \in Session
  BY <1>1 DEF Calm
<1>3. Calm(m, TtsCompleteTurn(m, t), t) /\ Calm(m, SpeakCompleteTurn(m, t), t)
  BY <1>2, TtsCompleteCalm, SpeakCompleteCalm
<1>4. Calm(s, TtsCompleteTurn(m, t), t) /\ Calm(s, SpeakCompleteTurn(m, t), t)
  BY <1>1, <1>3, CalmTransitive
<1>. QED
  BY <1>1, <1>4 DEF MarkFinalize, TtsMarkFinalize, SpeakMarkFinalize

LEMMA FlushEffect ==
  ASSUME NEW s \in Session, NEW t \in Turns, NEW token \in Text,
         NEW sends \in BOOLEAN
  PROVE  Effect(s, FlushBuffer(s, t, token, sends), t)
<1> DEFINE filled == Update(s, [s EXCEPT !.sentenceBuffer = @ \o token])
           emptied == Update(filled, [filled EXCEPT !.sentenceBuffer = <<>>])
           text == filled.sentenceBuffer
<1>1. Calm(s, filled, t)
  BY FillCalm
<1>2. filled \in Session /\ text \in Text
  BY <1>1 DEF Calm, Session
<1>3. Calm(filled, emptied, t)
  BY <1>2, FillCalm
<1>4. emptied \in Session
  BY <1>3 DEF Calm
<1>5. Effect(s, SendToPipeline(emptied, t, text), t)
  <2>1. Effect(emptied, SendToPipeline(emptied, t, text), t)
    BY <1>2, <1>4, SendEffect
  <2>2. Calm(s, emptied, t)
    BY <1>1, <1>3, CalmTransitive
  <2>. QED
    BY <2>1, <2>2, CalmThenEffect
<1>6. Effect(s, Yield(s), t) /\ Effect(s, Yield(filled), t)
  BY <1>1, CalmEffect DEF Calm
<1> HIDE DEF filled, emptied, text
<1>7. \/ FlushBuffer(s, t, token, sends) = Yield(s)
      \/ FlushBuffer(s, t, token, sends) = Yield(filled)
      \/ FlushBuffer(s, t, token, sends) = SendToPipeline(emptied, t, text)
  BY Zenon DEF FlushBuffer, filled, emptied, text
<1>. QED
  BY <1>5, <1>6, <1>7

LEMMA EffectThenCalm ==
  ASSUME NEW s \in Session, NEW r, NEW n, NEW t \in Turns,
         Effect(s, r, t), Calm(r.s, n, t)
  PROVE  Effect(s, [s |-> n, calls |-> r.calls, hang |-> FALSE], t)
BY TurnsAssumption DEF Effect, Calm

LEMMA FinishEffect ==
  ASSUME NEW s \in Session, NEW t \in Turns
  PROVE  Effect(s, FinishAnswer(s, t), t)
<1> DEFINE flushed == FlushBuffer(s, t, <<>>, TRUE)
           marked == MarkFinalize(flushed.s, t)
           n == Update(marked, [marked EXCEPT !.sentenceBuffer = <<>>])
<1>1. <<>> \in Text
  BY DEF Text
<1>2. Effect(s, flushed, t)
  BY <1>1, FlushEffect
<1>3. flushed.s \in Session
  BY <1>2 DEF Effect
<1>4. Calm(flushed.s, marked, t)
  BY <1>3, MarkCalm
<1>5. Calm(marked, n, t)
  <2>1. marked \in Session
    BY <1>4 DEF Calm
  <2>. QED BY <1>1, <2>1, FillCalm
<1>6. Calm(flushed.s, n, t)
  BY <1>3, <1>4, <1>5, CalmTransitive
<1>7. Effect(s, [s |-> n, calls |-> flushed.calls, hang |-> FALSE], t)
  BY <1>2, <1>6, EffectThenCalm
<1> HIDE DEF flushed, marked, n
<1>8. \/ FinishAnswer(s, t) = flushed
      \/ FinishAnswer(s, t) = [s |-> n, calls |-> flushed.calls, hang |-> FALSE]
  BY Zenon DEF FinishAnswer, flushed, marked, n
<1>. QED
  BY <1>2, <1>7, <1>8

-----------------------------------------------------------------------------
(* Type correctness. *)

(* A session speaks through one provider only: no TTS drain ever runs in a  *)
(* text-direct session, nor the other way round.                            *)
ModesApart == IF session.textDirect THEN synth = {} ELSE speaking = {}

TypeInv == TypeOK /\ ModesApart

LEMMA AppliesType ==
  ASSUME TypeInv, NEW t \in Turns, NEW r, Effect(session, r, t),
         NEW A \in SUBSET synth, NEW B \in SUBSET speaking,
         Applies(r, A, B)
  PROVE  /\ session' \in Session
         /\ hung' \in BOOLEAN
         /\ synth' \subseteq Call
         /\ speaking' \subseteq Speech
         /\ ended' \subseteq Turns
         /\ spoken' \in [Turns -> Text]
         /\ ModesApart'
<1>. USE DEF TypeInv
<1>1. session' \in Session /\ hung' \in BOOLEAN
  BY DEF Effect, Applies
<1>2. synth' \subseteq Call /\ speaking' \subseteq Speech
  BY DEF TypeOK, Effect, Applies
<1>3. ended' \subseteq Turns
  BY DEF TypeOK, Applies, Session
<1>4. spoken' \in [Turns -> Text]
  <2>1. \A c \in r.calls : c.text \in Text
    BY DEF Effect, Call, Speech
  <2>2. ASSUME NEW u \in Turns
        PROVE  (IF \E c \in r.calls : c.turn = u
                THEN spoken[u] \o (CHOOSE c \in r.calls : c.turn = u).text
                ELSE spoken[u]) \in Text
    <3>1. spoken[u] \in Seq(Tokens)
      BY DEF TypeOK, Text
    <3>2. CASE \E c \in r.calls : c.turn = u
      <4> DEFINE c == CHOOSE c \in r.calls : c.turn = u
      <4>1. c \in r.calls
        BY <3>2
      <4>2. c.text \in Seq(Tokens)
        BY <2>1, <4>1 DEF Text
      <4> HIDE DEF c
      <4>3. spoken[u] \o c.text \in Seq(Tokens)
        BY <3>1, <4>2, ConcatProperties
      <4>. QED
        BY <3>2, <4>3 DEF c, Text
    <3>3. CASE ~\E c \in r.calls : c.turn = u
      BY <3>1, <3>3 DEF Text
    <3>. QED
      BY <3>2, <3>3
  <2>. QED
    BY <2>2 DEF Applies
<1>5. ModesApart'
  BY DEF Effect, Applies, ModesApart
<1>. QED
  BY <1>1, <1>2, <1>3, <1>4, <1>5

LEMMA BeginTurnType ==
  ASSUME TypeOK, NEW t \in Turns, BeginTurn(t)
  PROVE  /\ session' \in Session
         /\ phase' \in [Turns -> Phase]
         /\ aborted' \subseteq Controllers
<1>1. <<>> \in Text /\ <<>> \in Seq(Text)
  BY DEF Text
<1>2. InitTurn(session, t) \in Session
  BY <1>1 DEF TypeOK, InitTurn, Update, Session
<1>3. phase' \in [Turns -> Phase]
  BY DEF TypeOK, BeginTurn, Phase
<1>4. aborted' \subseteq Controllers
  BY DEF TypeOK, BeginTurn, AbortPrevious, Session
<1>. QED
  BY <1>2, <1>3, <1>4 DEF BeginTurn

(* The pipeline steps of the actions, as Effects. *)
LEMMA TokenEffect ==
  ASSUME TypeOK, NEW t \in Turns, NEW b \in BOOLEAN, emitted[t] < MaxTokens
  PROVE  /\ emitted[t] + 1 \in 1 .. MaxTokens
         /\ Effect(session,
                   FlushBuffer(session, t, <<<<t, emitted[t] + 1>>>>, b), t)
<1>1. emitted[t] + 1 \in 1 .. MaxTokens
  BY BoundAssumption DEF TypeOK
<1>2. <<t, emitted[t] + 1>> \in Tokens
  BY <1>1 DEF Tokens
<1>3. <<<<t, emitted[t] + 1>>>> \in Text
  BY <1>2 DEF Text
<1>. QED
  BY <1>1, <1>3, FlushEffect DEF TypeOK

LEMMA RejectEffect ==
  ASSUME NEW s \in Session, NEW t \in Turns
  PROVE  Effect(s, Yield(TtsDrainEnd(Update(s, [s EXCEPT !.ttsQueue = <<>>]),
                                     t)), t)
<1> DEFINE m == Update(s, [s EXCEPT !.ttsQueue = <<>>])
<1>1. <<>> \in Text
  BY DEF Text
<1>2. Calm(s, m, t)
  BY <1>1, FillCalm
<1>3. Calm(m, TtsDrainEnd(m, t), t)
  BY <1>2, TtsDrainEndCalm DEF Calm
<1>4. Calm(s, TtsDrainEnd(m, t), t)
  BY <1>2, <1>3, CalmTransitive
<1>. QED
  BY <1>4, CalmEffect

LEMMA TypeInit == Init => TypeInv
<1>. SUFFICES ASSUME Init
              PROVE  TypeInv
  OBVIOUS
<1>1. <<>> \in Text /\ <<>> \in Seq(Text)
  BY DEF Text
<1>2. session \in Session
  BY <1>1, ModeAssumption DEF Init, Session
<1>3. spoken \in [Turns -> Text]
  BY <1>1 DEF Init
<1>4. emitted \in [Turns -> 0 .. MaxTokens]
  BY BoundAssumption DEF Init
<1>. QED
  BY <1>2, <1>3, <1>4
     DEF Init, TypeInv, TypeOK, ModesApart, Phase, Outcome

LEMMA TypeStep == TypeInv /\ [Next]_vars => TypeInv'
<1>. SUFFICES ASSUME TypeInv, [Next]_vars
              PROVE  TypeInv'
  OBVIOUS
<1>. USE DEF TypeInv
<1>1. ASSUME NEW t \in Turns, TextInput(t)
      PROVE  TypeInv'
  <2>1. session' \in Session /\ session'.textDirect = session.textDirect
    BY <1>1, BeginTurnType
       DEF TextInput, BeginTurn, InitTurn, Update, TypeOK, Session
  <2>. QED
    BY <1>1, <2>1, BeginTurnType DEF TextInput, TypeOK, ModesApart, history
<1>2. ASSUME NEW t \in Turns, AudioInput(t)
      PROVE  TypeInv'
  BY <1>2 DEF AudioInput, TypeOK, ModesApart, Phase, history
<1>3. ASSUME NEW t \in Turns, AsrHears(t)
      PROVE  TypeInv'
  <2>1. session' \in Session /\ session'.textDirect = session.textDirect
    BY <1>3, BeginTurnType
       DEF AsrHears, BeginTurn, InitTurn, Update, TypeOK, Session
  <2>. QED
    BY <1>3, <2>1, BeginTurnType DEF AsrHears, TypeOK, ModesApart, history
<1>4. ASSUME NEW t \in Turns, AsrRefuses(t)
      PROVE  TypeInv'
  BY <1>4 DEF AsrRefuses, TypeOK, ModesApart, Phase, history
<1>5. ASSUME NEW t \in Turns, TurnStarted(t)
      PROVE  TypeInv'
  <2>1. session' \in Session /\ session'.textDirect = session.textDirect
    BY <1>5 DEF TurnStarted, Update, TypeOK, Session, Controllers
  <2>. QED
    BY <1>5, <2>1 DEF TurnStarted, TypeOK, ModesApart, Phase, history
<1>6. ASSUME NEW t \in Turns, TurnStartFails(t)
      PROVE  TypeInv'
  BY <1>6 DEF TurnStartFails, TypeOK, ModesApart, Phase, history
<1>7. ASSUME NEW t \in Turns, NEW b \in BOOLEAN, Token(t, b)
      PROVE  TypeInv'
  <2>1. emitted[t] < MaxTokens
    BY <1>7 DEF Token
  <2>2. emitted' \in [Turns -> 0 .. MaxTokens]
    BY <1>7, <2>1, TokenEffect, BoundAssumption DEF Token, TypeOK
  <2>3. /\ session' \in Session /\ hung' \in BOOLEAN
        /\ synth' \subseteq Call /\ speaking' \subseteq Speech
        /\ ended' \subseteq Turns /\ spoken' \in [Turns -> Text]
        /\ ModesApart'
    BY <1>7, <2>1, TokenEffect, AppliesType DEF Token
  <2>. QED
    BY <1>7, <2>2, <2>3 DEF Token, TypeOK
<1>8. ASSUME NEW t \in Turns, NEW status \in Outcome, AgentLeaves(t, status)
      PROVE  TypeInv'
  <2>1. Effect(session, FinishAnswer(session, t), t)
    BY FinishEffect DEF TypeOK
  <2>2. /\ session' \in Session /\ hung' \in BOOLEAN
        /\ synth' \subseteq Call /\ speaking' \subseteq Speech
        /\ ended' \subseteq Turns /\ spoken' \in [Turns -> Text]
        /\ ModesApart'
    BY <1>8, <2>1, AppliesType DEF AgentLeaves
  <2>. QED
    BY <1>8, <2>2 DEF AgentLeaves, TypeOK, Phase
<1>9. ASSUME NEW t \in Turns, TurnEnded(t)
      PROVE  TypeInv'
  BY <1>9 DEF TurnEnded, TypeOK, ModesApart, Phase
<1>10. ASSUME NEW c \in synth, NEW r, Effect(session, r, c.turn),
              Applies(r, synth \ {c}, speaking),
              UNCHANGED <<phase, emitted, outcome, aborted, reported>>,
              broken' \in {broken, broken \cup {c.turn}}
       PROVE  TypeInv'
  <2>1. c.turn \in Turns
    BY DEF TypeOK, Call
  <2>2. /\ session' \in Session /\ hung' \in BOOLEAN
        /\ synth' \subseteq Call /\ speaking' \subseteq Speech
        /\ ended' \subseteq Turns /\ spoken' \in [Turns -> Text]
        /\ ModesApart'
    BY <1>10, <2>1, AppliesType
  <2>. QED
    BY <1>10, <2>1, <2>2 DEF TypeOK
<1>11. ASSUME NEW c \in synth, TtsReturns(c) \/ TtsFails(c) \/ TtsAborted(c)
       PROVE  TypeInv'
  <2>1. c.turn \in Turns /\ session \in Session /\ ~session.textDirect
    BY DEF TypeOK, Call, ModesApart
  <2>2. Effect(session, TtsDrainLoop(session, c.turn), c.turn)
    BY <2>1, TtsDrainLoopEffect
  <2>3. CASE TtsReturns(c)
    BY <1>10, <2>2, <2>3 DEF TtsReturns
  <2>4. CASE TtsFails(c)
    BY <1>10, <2>1, <2>4, RejectEffect DEF TtsFails, TtsRejects
  <2>5. CASE TtsAborted(c)
    BY <1>10, <2>1, <2>5, RejectEffect DEF TtsAborted, TtsRejects
  <2>. QED
    BY <1>11, <2>3, <2>4, <2>5
<1>12. ASSUME NEW c \in speaking, NEW r, Effect(session, r, c.turn),
              Applies(r, synth, speaking \ {c}),
              UNCHANGED <<phase, emitted, outcome, aborted, reported>>,
              broken' \in {broken, broken \cup {c.turn}}
       PROVE  TypeInv'
  <2>1. c.turn \in Turns
    BY DEF TypeOK, Speech
  <2>2. /\ session' \in Session /\ hung' \in BOOLEAN
        /\ synth' \subseteq Call /\ speaking' \subseteq Speech
        /\ ended' \subseteq Turns /\ spoken' \in [Turns -> Text]
        /\ ModesApart'
    BY <1>12, <2>1, AppliesType
  <2>. QED
    BY <1>12, <2>1, <2>2 DEF TypeOK
<1>13. ASSUME NEW c \in speaking, SpeakReturns(c) \/ SpeakFails(c)
       PROVE  TypeInv'
  <2>1. c.turn \in Turns /\ session \in Session /\ session.textDirect
    BY DEF TypeOK, Speech, ModesApart, Session
  <2>2. /\ Effect(session, SpeakDrainLoop(session, c.turn), c.turn)
        /\ Effect(session, Yield(SpeakDrainEnd(session, c.turn)), c.turn)
    BY <2>1, SpeakDrainLoopEffect, SpeakDrainEndCalm, CalmEffect
  <2>3. CASE SpeakReturns(c)
    BY <1>12, <2>2, <2>3 DEF SpeakReturns
  <2>4. CASE SpeakFails(c)
    BY <1>12, <2>2, <2>4 DEF SpeakFails
  <2>. QED
    BY <1>13, <2>3, <2>4
<1>14. ASSUME Interrupt
       PROVE  TypeInv'
  <2>1. <<>> \in Text /\ <<>> \in Seq(Text)
    BY DEF Text
  <2>2. session' \in Session /\ session'.textDirect = session.textDirect
    BY <1>14, <2>1 DEF Interrupt, TypeOK, Session
  <2>3. ended' \subseteq Turns /\ aborted' \subseteq Controllers
    BY <1>14 DEF Interrupt, TypeOK, Session
  <2>. QED
    BY <1>14, <2>2, <2>3 DEF Interrupt, TypeOK, ModesApart
<1>15. ASSUME Disconnect
       PROVE  TypeInv'
  <2>1. session' \in Session /\ session'.textDirect = session.textDirect
    BY <1>15 DEF Disconnect, TypeOK, Session
  <2>2. aborted' \subseteq Controllers
    BY <1>15 DEF Disconnect, TypeOK, Session
  <2>. QED
    BY <1>15, <2>1, <2>2 DEF Disconnect, TypeOK, ModesApart, history
<1>16. ASSUME UNCHANGED vars
       PROVE  TypeInv'
  BY <1>16 DEF vars, TypeOK, ModesApart
<1>17. ASSUME NEW t \in Turns,
              \/ \E status \in Outcome \ {"none"} : AgentSettles(t, status)
              \/ AgentAborted(t)
       PROVE  TypeInv'
  BY <1>8, <1>17 DEF AgentSettles, AgentAborted, Outcome
<1>. QED
  BY <1>1, <1>2, <1>3, <1>4, <1>5, <1>6, <1>7, <1>9, <1>11, <1>13, <1>14,
     <1>15, <1>16, <1>17
     DEF Next, ClientStep, AgentStep, Settling

(* Every variable keeps to its type. *)
THEOREM TypeCorrect == Spec => []TypeOK
<1>1. TypeInv => TypeOK
  BY DEF TypeInv
<1>. QED
  BY <1>1, TypeInit, TypeStep, PTL DEF Spec

-----------------------------------------------------------------------------
(* The controllers, whatever the client does: the inductive invariant       *)
(* behind RunOwnsSignal, FreshController and AbortedStaysSilent.            *)

Begun(t) == t \in Turns /\ phase[t] \in {"running", "ending", "over"}

SignalInv ==
  /\ \A t \in Turns :
       session.alive /\ session.ttsTurnId = t /\ phase[t] # "starting"
                     /\ phase[t] # "refused"
         => session.abortController # NoTurn
  /\ session.abortController # NoTurn => Begun(session.abortController)
  /\ \A c \in synth : Begun(c.turn) /\ c.signal # DrainController
  /\ \A c \in speaking : Begun(c.turn)
  /\ \A t \in aborted : Begun(t)
  /\ session.alive => /\ session.abortController \notin aborted
                      /\ session.ttsTurnId \notin aborted

SafeInv == TypeInv /\ SignalInv

(* A pipeline step of a turn whose run began finds a controller, so it      *)
(* stores none, and calls only for a turn that was not aborted.             *)
LEMMA EffectSafe ==
  ASSUME SafeInv, NEW t \in Turns, Begun(t), NEW r, Effect(session, r, t)
  PROVE  /\ \/ /\ r.s.ttsTurnId = session.ttsTurnId
               /\ r.s.abortController = session.abortController
            \/ r.s.ttsTurnId = NoTurn /\ r.s.abortController = NoTurn
         /\ \A c \in r.calls : /\ c.turn = t
                               /\ c.turn \notin aborted
                               /\ ~session.textDirect
                                    => c.signal # DrainController
<1>1. session.alive /\ session.ttsTurnId = t
        => Signal(session) = session.abortController
  BY DEF SafeInv, SignalInv, Begun, Signal
<1>2. session.abortController # DrainController
  BY TurnsAssumption DEF SafeInv, SignalInv, Begun
<1>3. session.alive /\ session.ttsTurnId = t => t \notin aborted
  BY DEF SafeInv, SignalInv
<1>. QED
  BY <1>1, <1>2, <1>3 DEF Effect

LEMMA AppliesSafe ==
  ASSUME SafeInv, NEW t \in Turns, Begun(t), NEW r, Effect(session, r, t),
         NEW A \in SUBSET synth, NEW B \in SUBSET speaking,
         Applies(r, A, B), aborted' = aborted,
         \A u \in Turns : \/ phase'[u] = phase[u]
                          \/ Begun(u) /\ phase'[u] \in {"ending", "over"}
  PROVE  SignalInv'
<1>1. \A u : Begun(u) => Begun(u)'
  BY DEF Begun
<1>2. /\ session'.alive = session.alive
      /\ \/ /\ session'.ttsTurnId = session.ttsTurnId
            /\ session'.abortController = session.abortController
         \/ session'.ttsTurnId = NoTurn /\ session'.abortController = NoTurn
  BY EffectSafe DEF Applies, Effect
<1>3. NoTurn \notin aborted
  BY TurnsAssumption DEF SafeInv, SignalInv, Begun
<1>4. \A c \in synth' : Begun(c.turn)' /\ c.signal # DrainController
  BY <1>1, EffectSafe DEF Applies, SafeInv, SignalInv
<1>5. \A c \in speaking' : Begun(c.turn)'
  BY <1>1, EffectSafe DEF Applies, SafeInv, SignalInv
<1>6. \A u \in Turns :
        session'.alive /\ session'.ttsTurnId = u /\ phase'[u] # "starting"
                       /\ phase'[u] # "refused"
          => session'.abortController # NoTurn
  BY <1>2, TurnsAssumption DEF SafeInv, SignalInv, Begun
<1>. QED
  BY <1>1, <1>2, <1>3, <1>4, <1>5, <1>6 DEF SafeInv, SignalInv

LEMMA BeginTurnSafe ==
  ASSUME SafeInv, NEW t \in Turns, phase[t] \in {"idle", "asr"}, BeginTurn(t),
         UNCHANGED <<synth, speaking>>
  PROVE  SignalInv'
<1>1. ~Begun(t)
  BY DEF Begun
<1>2. \A u : Begun(u) => Begun(u)'
  BY <1>1 DEF Begun, BeginTurn, SafeInv, TypeInv, TypeOK
<1>3. phase'[t] = "starting" /\ \A u \in Turns \ {t} : phase'[u] = phase[u]
  BY DEF BeginTurn, SafeInv, TypeInv, TypeOK
<1>4. /\ session'.alive = session.alive
      /\ session.alive => /\ session'.ttsTurnId = t
                          /\ session'.abortController = NoTurn
      /\ ~session.alive => session' = session
  BY DEF BeginTurn, InitTurn, Update, SafeInv, TypeInv, TypeOK, Session
<1>5. \A u \in aborted' : Begun(u)
  BY DEF BeginTurn, AbortPrevious, SafeInv, SignalInv
<1>6. NoTurn \notin aborted' /\ t \notin aborted'
  BY <1>1, <1>5, TurnsAssumption DEF Begun
<1>. QED
  BY <1>2, <1>3, <1>4, <1>5, <1>6 DEF SafeInv, SignalInv

LEMMA SignalInit == Init => SignalInv
BY TurnsAssumption DEF Init, SignalInv, Begun

LEMMA SignalStep == SafeInv /\ [Next]_vars => SignalInv'
<1>. SUFFICES ASSUME SafeInv, [Next]_vars
              PROVE  SignalInv'
  OBVIOUS
<1>0. NoTurn \notin aborted /\ \A c \in synth \cup speaking : c.turn \in Turns
  BY TurnsAssumption DEF SafeInv, SignalInv, Begun
<1>1. ASSUME NEW t \in Turns, TextInput(t) \/ AsrHears(t)
      PROVE  SignalInv'
  BY <1>1, BeginTurnSafe DEF TextInput, AsrHears
<1>2. ASSUME NEW t \in Turns,
             \/ AudioInput(t) \/ AsrRefuses(t) \/ TurnStartFails(t)
             \/ TurnEnded(t)
      PROVE  SignalInv'
  <2>1. /\ UNCHANGED <<session, aborted, synth, speaking>>
        /\ \A u \in Turns : \/ phase'[u] = phase[u]
                            \/ phase'[u] = "refused"
                            \/ phase[u] = "idle" /\ phase'[u] = "asr"
                            \/ phase[u] = "ending" /\ phase'[u] = "over"
        /\ \A u : Begun(u) => Begun(u)'
    BY <1>2 DEF AudioInput, AsrRefuses, TurnStartFails, TurnEnded, Begun,
                SafeInv, TypeInv, TypeOK
  <2>. QED
    BY <2>1 DEF SafeInv, SignalInv
<1>3. ASSUME NEW t \in Turns, TurnStarted(t)
      PROVE  SignalInv'
  <2>1. /\ UNCHANGED <<aborted, synth, speaking>>
        /\ phase'[t] = "running"
        /\ \A u \in Turns \ {t} : phase'[u] = phase[u]
        /\ \A u : Begun(u) => Begun(u)'
        /\ Begun(t)'
    BY <1>3 DEF TurnStarted, Begun, SafeInv, TypeInv, TypeOK
  <2>2. /\ session'.alive = session.alive
        /\ session'.ttsTurnId = session.ttsTurnId
        /\ session.alive => session'.abortController = t
        /\ ~session.alive
             => session'.abortController = session.abortController
    BY <1>3 DEF TurnStarted, Update, SafeInv, TypeInv, TypeOK, Session
  <2>3. t \notin aborted
    BY <1>3 DEF TurnStarted, Begun, SafeInv, SignalInv
  <2>. QED
    BY <2>1, <2>2, <2>3, TurnsAssumption DEF SafeInv, SignalInv
<1>4. ASSUME NEW t \in Turns, NEW b \in BOOLEAN, Token(t, b)
      PROVE  SignalInv'
  <2>1. Begun(t) /\ emitted[t] < MaxTokens
    BY <1>4 DEF Token, Begun
  <2>. QED
    BY <1>4, <2>1, TokenEffect, AppliesSafe DEF Token, SafeInv, TypeInv
<1>5. ASSUME NEW t \in Turns, NEW status, phase[t] = "running",
             AgentLeaves(t, status)
      PROVE  SignalInv'
  <2>1. Begun(t)
    BY <1>5 DEF Begun
  <2>2. Effect(session, FinishAnswer(session, t), t)
    BY FinishEffect DEF SafeInv, TypeInv, TypeOK
  <2>3. \A u \in Turns : \/ phase'[u] = phase[u]
                         \/ Begun(u) /\ phase'[u] \in {"ending", "over"}
    BY <1>5, <2>1 DEF AgentLeaves, SafeInv, TypeInv, TypeOK
  <2>. QED
    BY <1>5, <2>1, <2>2, <2>3, AppliesSafe DEF AgentLeaves
<1>6. ASSUME NEW t \in Turns,
             \/ \E status \in Outcome \ {"none"} : AgentSettles(t, status)
             \/ AgentAborted(t)
      PROVE  SignalInv'
  BY <1>5, <1>6 DEF AgentSettles, AgentAborted
<1>7. ASSUME NEW c \in synth, TtsReturns(c) \/ TtsFails(c) \/ TtsAborted(c)
      PROVE  SignalInv'
  <2>1. /\ c.turn \in Turns /\ Begun(c.turn)
        /\ session \in Session /\ ~session.textDirect
    BY <1>0 DEF SafeInv, SignalInv, TypeInv, TypeOK, ModesApart
  <2>2. Effect(session, TtsDrainLoop(session, c.turn), c.turn)
    BY <2>1, TtsDrainLoopEffect
  <2>3. CASE TtsReturns(c)
    BY <2>1, <2>2, <2>3, AppliesSafe DEF TtsReturns
  <2>4. CASE TtsFails(c) \/ TtsAborted(c)
    BY <2>1, <2>4, RejectEffect, AppliesSafe DEF TtsFails, TtsAborted, TtsRejects
  <2>. QED
    BY <1>7, <2>3, <2>4
<1>8. ASSUME NEW c \in speaking, SpeakReturns(c) \/ SpeakFails(c)
      PROVE  SignalInv'
  <2>1. /\ c.turn \in Turns /\ Begun(c.turn)
        /\ session \in Session /\ session.textDirect
    BY <1>0 DEF SafeInv, SignalInv, TypeInv, TypeOK, ModesApart, Session
  <2>2. /\ Effect(session, SpeakDrainLoop(session, c.turn), c.turn)
        /\ Effect(session, Yield(SpeakDrainEnd(session, c.turn)), c.turn)
    BY <2>1, SpeakDrainLoopEffect, SpeakDrainEndCalm, CalmEffect
  <2>. QED
    BY <1>8, <2>1, <2>2, AppliesSafe DEF SpeakReturns, SpeakFails
<1>9. ASSUME Interrupt
      PROVE  SignalInv'
  <2>1. /\ UNCHANGED <<phase, synth, speaking>>
        /\ session'.abortController = NoTurn
        /\ session'.ttsTurnId = NoTurn
        /\ aborted' \subseteq aborted \cup ({session.abortController} \ {NoTurn})
    BY <1>9 DEF Interrupt, SafeInv, TypeInv, TypeOK, Session
  <2>2. \A u \in aborted' : Begun(u)
    BY <2>1 DEF SafeInv, SignalInv
  <2>3. NoTurn \notin aborted'
    BY <2>2, TurnsAssumption DEF Begun
  <2>. QED
    BY <2>1, <2>2, <2>3, TurnsAssumption DEF SafeInv, SignalInv, Begun
<1>10. ASSUME Disconnect
       PROVE  SignalInv'
  <2>1. /\ UNCHANGED <<phase, synth, speaking>>
        /\ ~session'.alive
        /\ session'.abortController = session.abortController
        /\ aborted' \subseteq aborted \cup ({session.abortController} \ {NoTurn})
    BY <1>10 DEF Disconnect, SafeInv, TypeInv, TypeOK, Session
  <2>. QED
    BY <2>1 DEF SafeInv, SignalInv, Begun
<1>11. ASSUME UNCHANGED vars
       PROVE  SignalInv'
  BY <1>11 DEF vars, SafeInv, SignalInv, Begun
<1>. QED
  BY <1>1, <1>2, <1>3, <1>4, <1>6, <1>7, <1>8, <1>9, <1>10, <1>11
     DEF Next, ClientStep, AgentStep, Settling

LEMMA SafeInvariant == Spec => []SafeInv
<1>1. Init => SafeInv
  BY TypeInit, SignalInit DEF SafeInv
<1>2. SafeInv /\ [Next]_vars => SafeInv'
  BY TypeStep, SignalStep DEF SafeInv
<1>. QED
  BY <1>1, <1>2, PTL DEF Spec

(* The drain never needs a controller of its own. *)
THEOREM SignalAvailable == Spec => []RunOwnsSignal
<1>1. SafeInv => RunOwnsSignal
  BY DEF SafeInv, SignalInv, RunOwnsSignal
<1>. QED
  BY <1>1, SafeInvariant, PTL

(* No call starts under a controller that is already aborted. *)
THEOREM ControllerFresh == Spec => []FreshController
<1>1. SafeInv => FreshController
  BY DEF SafeInv, SignalInv, FreshController
<1>. QED
  BY <1>1, SafeInvariant, PTL

(* The calls a step adds are calls of a turn that is not aborted.           *)
Silent == \A c \in (synth' \ synth) \cup (speaking' \ speaking) :
            c.turn \notin aborted

LEMMA AppliesSilent ==
  ASSUME SafeInv, NEW t \in Turns, Begun(t), NEW r, Effect(session, r, t),
         NEW A \in SUBSET synth, NEW B \in SUBSET speaking,
         Applies(r, A, B)
  PROVE  Silent
BY EffectSafe DEF Applies, Silent

LEMMA SilentStep == SafeInv /\ [Next]_vars => [Silent]_vars
<1>. SUFFICES ASSUME SafeInv, Next
              PROVE  Silent
  OBVIOUS
<1>0. \A c \in synth \cup speaking : c.turn \in Turns /\ Begun(c.turn)
  BY DEF SafeInv, SignalInv, Begun
<1>1. ASSUME ClientStep
      PROVE  Silent
  BY <1>1 DEF ClientStep, TextInput, AudioInput, Interrupt, Disconnect, Silent
<1>2. ASSUME NEW t \in Turns, NEW b \in BOOLEAN, Token(t, b)
      PROVE  Silent
  <2>1. Begun(t) /\ emitted[t] < MaxTokens
    BY <1>2 DEF Token, Begun
  <2>. QED
    BY <1>2, <2>1, TokenEffect, AppliesSilent DEF Token, SafeInv, TypeInv
<1>3. ASSUME NEW t \in Turns, NEW status, phase[t] = "running",
             AgentLeaves(t, status)
      PROVE  Silent
  <2>1. Begun(t)
    BY <1>3 DEF Begun
  <2>2. Effect(session, FinishAnswer(session, t), t)
    BY FinishEffect DEF SafeInv, TypeInv, TypeOK
  <2>. QED
    BY <1>3, <2>1, <2>2, AppliesSilent DEF AgentLeaves
<1>4. ASSUME NEW c \in synth, TtsReturns(c) \/ TtsFails(c) \/ TtsAborted(c)
      PROVE  Silent
  <2>1. /\ c.turn \in Turns /\ Begun(c.turn)
        /\ session \in Session /\ ~session.textDirect
    BY <1>0 DEF SafeInv, TypeInv, TypeOK, ModesApart
  <2>2. Effect(session, TtsDrainLoop(session, c.turn), c.turn)
    BY <2>1, TtsDrainLoopEffect
  <2>3. CASE TtsReturns(c)
    BY <2>1, <2>2, <2>3, AppliesSilent DEF TtsReturns
  <2>4. CASE TtsFails(c) \/ TtsAborted(c)
    BY <2>1, <2>4, RejectEffect, AppliesSilent
       DEF TtsFails, TtsAborted, TtsRejects
  <2>. QED
    BY <1>4, <2>3, <2>4
<1>5. ASSUME NEW c \in speaking, SpeakReturns(c) \/ SpeakFails(c)
      PROVE  Silent
  <2>1. /\ c.turn \in Turns /\ Begun(c.turn)
        /\ session \in Session /\ session.textDirect
    BY <1>0 DEF SafeInv, TypeInv, TypeOK, ModesApart, Session
  <2>2. /\ Effect(session, SpeakDrainLoop(session, c.turn), c.turn)
        /\ Effect(session, Yield(SpeakDrainEnd(session, c.turn)), c.turn)
    BY <2>1, SpeakDrainLoopEffect, SpeakDrainEndCalm, CalmEffect
  <2>. QED
    BY <1>5, <2>1, <2>2, AppliesSilent DEF SpeakReturns, SpeakFails
<1>6. ASSUME NEW t \in Turns,
             \/ AsrHears(t) \/ AsrRefuses(t)
             \/ TurnStarted(t) \/ TurnStartFails(t) \/ TurnEnded(t)
      PROVE  Silent
  BY <1>6 DEF AsrHears, AsrRefuses, TurnStarted, TurnStartFails, TurnEnded, Silent
<1>7. ASSUME NEW t \in Turns,
             \/ \E status \in Outcome \ {"none"} : AgentSettles(t, status)
             \/ AgentAborted(t)
      PROVE  Silent
  BY <1>3, <1>7 DEF AgentSettles, AgentAborted
<1>. QED
  BY <1>1, <1>2, <1>4, <1>5, <1>6, <1>7 DEF Next, AgentStep, Settling

(* Nothing of an aborted turn is handed to a provider any more, however the *)
(* interrupt, the next input and the finally block interleave.              *)
THEOREM SilentOnceAborted == Spec => AbortedStaysSilent
<1>1. Spec => [][Silent]_vars
  BY SafeInvariant, SilentStep, PTL DEF Spec
<1>. QED
  BY <1>1 DEF Silent, AbortedStaysSilent

-----------------------------------------------------------------------------
(***************************************************************************)
(* Proofs about the words of RealtimeTurn, for every value of its          *)
(* constants: what a turn hands to its provider is its own answer, in      *)
(* order.                                                                  *)
(***************************************************************************)

(* Pieces of an answer. *)

(* A text of tokens of t after the a-th, up to the b-th, in order; every    *)
(* one of them when it is exact.                                            *)
Piece(x, t, a, b, exact) ==
  /\ a <= b
  /\ \A i \in 1 .. Len(x) : x[i][1] = t /\ a < x[i][2] /\ x[i][2] <= b
  /\ \A i, j \in 1 .. Len(x) : i < j => x[i][2] < x[j][2]
  /\ exact => /\ Len(x) = b - a
              /\ \A i \in 1 .. Len(x) : x[i][2] = a + i

(* A queue of pieces, each where the one before it ends. *)
Chain(p, t, a, b, exact) ==
  \E cut \in [1 .. Len(p) + 1 -> Nat] :
    /\ cut[1] = a /\ cut[Len(p) + 1] = b
    /\ \A i \in 1 .. Len(p) :
         cut[i] <= b /\ Piece(p[i], t, cut[i], cut[i + 1], exact)

(* The empty text and a single token are pieces.                            *)
LEMMA PieceOfNothing ==
  ASSUME NEW t, NEW a \in Nat, NEW exact
  PROVE  Piece(<<>>, t, a, a, exact)
BY DEF Piece

(* One token is the piece of length one after the tokens before it.         *)
LEMMA PieceOfToken ==
  ASSUME NEW t, NEW a \in Nat, NEW exact
  PROVE  Piece(<<<<t, a + 1>>>>, t, a, a + 1, exact)
BY DEF Piece

(* What is in a text are tokens. *)
LEMMA TextRanks ==
  ASSUME NEW x \in Text
  PROVE  /\ Len(x) \in Nat
         /\ \A i \in 1 .. Len(x) : x[i] \in Tokens /\ x[i][2] \in Nat
BY BoundAssumption DEF Text, Tokens

(* Two pieces, the second beginning where the first ends, make one.         *)
LEMMA PiecesJoin ==
  ASSUME NEW t, NEW a \in Nat, NEW b \in Nat, NEW c \in Nat,
         NEW exact \in BOOLEAN, NEW x \in Text, NEW y \in Text,
         Piece(x, t, a, b, exact), Piece(y, t, b, c, exact)
  PROVE  Piece(x \o y, t, a, c, exact) /\ x \o y \in Text
<1> DEFINE z == x \o y
<1>0. x \in Seq(Tokens) /\ y \in Seq(Tokens)
  BY DEF Text
<1>1. /\ Len(z) = Len(x) + Len(y)
      /\ \A i \in 1 .. Len(z) : z[i] = IF i <= Len(x) THEN x[i] ELSE y[i - Len(x)]
      /\ z \in Seq(Tokens)
  BY <1>0, ConcatProperties
<1>2. /\ Len(x) \in Nat /\ Len(y) \in Nat
      /\ \A i \in 1 .. Len(x) : x[i][2] \in Nat
      /\ \A i \in 1 .. Len(y) : y[i][2] \in Nat
  BY TextRanks
<1> HIDE DEF z
<1>3. /\ a <= b /\ b <= c
      /\ \A i \in 1 .. Len(x) : x[i][1] = t /\ a < x[i][2] /\ x[i][2] <= b
      /\ \A i \in 1 .. Len(y) : y[i][1] = t /\ b < y[i][2] /\ y[i][2] <= c
      /\ \A i, j \in 1 .. Len(x) : i < j => x[i][2] < x[j][2]
      /\ \A i, j \in 1 .. Len(y) : i < j => y[i][2] < y[j][2]
  BY DEF Piece
<1>7. ASSUME NEW i \in 1 .. Len(z)
      PROVE  \/ i \in 1 .. Len(x) /\ z[i] = x[i]
             \/ ~(i <= Len(x)) /\ i - Len(x) \in 1 .. Len(y) /\ z[i] = y[i - Len(x)]
  BY <1>1, <1>2
<1>4. ASSUME NEW i \in 1 .. Len(z)
      PROVE  z[i][1] = t /\ a < z[i][2] /\ z[i][2] <= c
  <2>1. CASE i \in 1 .. Len(x) /\ z[i] = x[i]
    BY <1>2, <1>3, <2>1
  <2>2. CASE i - Len(x) \in 1 .. Len(y) /\ z[i] = y[i - Len(x)]
    <3>1. PICK k \in 1 .. Len(y) : z[i] = y[k]
      BY <2>2
    <3>2. y[k][1] = t /\ b < y[k][2] /\ y[k][2] <= c /\ y[k][2] \in Nat
      BY <1>2, <1>3
    <3>. QED BY <1>3, <3>1, <3>2
  <2>3. \/ i \in 1 .. Len(x) /\ z[i] = x[i]
        \/ i - Len(x) \in 1 .. Len(y) /\ z[i] = y[i - Len(x)]
    BY <1>7
  <2>. QED BY <2>1, <2>2, <2>3
<1>5. ASSUME NEW i \in 1 .. Len(z), NEW j \in 1 .. Len(z), i < j
      PROVE  z[i][2] < z[j][2]
  <2>1. CASE j <= Len(x)
    BY <1>1, <1>2, <1>3, <1>5, <2>1
  <2>2. CASE i <= Len(x) /\ ~(j <= Len(x))
    <3>1. z[i] = x[i] /\ z[j] = y[j - Len(x)] /\ i \in 1 .. Len(x)
          /\ j - Len(x) \in 1 .. Len(y)
      BY <1>1, <1>2, <2>2
    <3>2. z[i][2] <= b /\ z[i][2] \in Nat
      BY <1>2, <1>3, <3>1
    <3>3. b < z[j][2] /\ z[j][2] \in Nat
      BY <1>2, <1>3, <3>1
    <3>. QED BY <3>2, <3>3
  <2>3. CASE ~(i <= Len(x))
    <3>1. z[i] = y[i - Len(x)] /\ z[j] = y[j - Len(x)]
          /\ i - Len(x) \in 1 .. Len(y) /\ j - Len(x) \in 1 .. Len(y)
          /\ i - Len(x) < j - Len(x)
      BY <1>1, <1>2, <1>5, <2>3
    <3>. QED BY <1>3, <3>1
  <2>. QED BY <1>2, <2>1, <2>2, <2>3
<1>6. exact => /\ Len(z) = c - a
               /\ \A i \in 1 .. Len(z) : z[i][2] = a + i
  <2>1. ASSUME exact
        PROVE  /\ Len(x) = b - a /\ Len(y) = c - b
               /\ \A i \in 1 .. Len(x) : x[i][2] = a + i
               /\ \A i \in 1 .. Len(y) : y[i][2] = b + i
    BY <2>1 DEF Piece
  <2>2. ASSUME exact, NEW i \in 1 .. Len(z)
        PROVE  z[i][2] = a + i
    <3>1. CASE i \in 1 .. Len(x) /\ z[i] = x[i]
      BY <2>1, <2>2, <3>1
    <3>2. CASE i - Len(x) \in 1 .. Len(y) /\ z[i] = y[i - Len(x)]
      <4> DEFINE k == i - Len(x)
      <4>1. k \in 1 .. Len(y) /\ z[i] = y[k] /\ i = k + Len(x)
        BY <1>2, <3>2
      <4> HIDE DEF k
      <4>2. z[i][2] = b + k
        BY <2>1, <2>2, <4>1
      <4>3. Len(x) = b - a /\ k \in Nat
        BY <1>2, <2>1, <2>2, <4>1
      <4>4. b + k = a + i
        BY <1>2, <4>1, <4>3
      <4>. QED BY <4>2, <4>4
    <3>. QED BY <1>7, <3>1, <3>2
  <2>3. ASSUME exact
        PROVE  Len(z) = c - a
    <3>1. Len(x) = b - a /\ Len(y) = c - b
      BY <2>1, <2>3
    <3>. QED BY <1>1, <1>2, <3>1
  <2>. QED BY <2>2, <2>3
<1>. QED
  BY <1>1, <1>3, <1>4, <1>5, <1>6 DEF Piece, z, Text

(* Where gaps are allowed, a piece is one of any earlier start.             *)
LEMMA PieceWidens ==
  ASSUME NEW t, NEW a \in Nat, NEW b \in Nat, NEW c \in Nat, NEW x \in Text,
         Piece(x, t, b, c, FALSE), a <= b
  PROVE  Piece(x, t, a, c, FALSE)
BY TextRanks DEF Piece

(* The empty queue holds nothing: its start is its end.                     *)
LEMMA ChainOfNothing ==
  ASSUME NEW t, NEW a \in Nat, NEW exact
  PROVE  Chain(<<>>, t, a, a, exact)
<1> DEFINE cut == [i \in 1 .. Len(<<>>) + 1 |-> a]
<1>1. cut \in [1 .. Len(<<>>) + 1 -> Nat] /\ cut[1] = a /\ cut[Len(<<>>) + 1] = a
  OBVIOUS
<1> HIDE DEF cut
<1>. QED BY <1>1 DEF Chain

(* Conversely, an empty queue reaches no further than its start.            *)
LEMMA ChainEmptyEnds ==
  ASSUME NEW t, NEW a, NEW b, NEW exact, Chain(<<>>, t, a, b, exact)
  PROVE  a = b
BY DEF Chain

(* A queue of pieces never ends before it starts.                           *)
LEMMA ChainAscends ==
  ASSUME NEW t, NEW a \in Nat, NEW b \in Nat, NEW exact,
         NEW p \in Seq(Text), Chain(p, t, a, b, exact)
  PROVE  a <= b
<1>1. PICK cut \in [1 .. Len(p) + 1 -> Nat] :
        /\ cut[1] = a /\ cut[Len(p) + 1] = b
        /\ \A i \in 1 .. Len(p) :
             cut[i] <= b /\ Piece(p[i], t, cut[i], cut[i + 1], exact)
  BY DEF Chain
<1>2. Len(p) \in Nat
  OBVIOUS
<1>3. CASE Len(p) = 0
  BY <1>1, <1>3
<1>4. CASE Len(p) # 0
  BY <1>1, <1>2, <1>4
<1>. QED BY <1>3, <1>4

(* push: a piece appended at the end of the chain extends it.               *)
LEMMA ChainGrows ==
  ASSUME NEW t, NEW a \in Nat, NEW b \in Nat, NEW c \in Nat, NEW exact,
         NEW p \in Seq(Text), NEW x \in Text,
         Chain(p, t, a, b, exact), Piece(x, t, b, c, exact)
  PROVE  Chain(Append(p, x), t, a, c, exact)
<1> DEFINE q == Append(p, x)
<1>1. PICK cut \in [1 .. Len(p) + 1 -> Nat] :
        /\ cut[1] = a /\ cut[Len(p) + 1] = b
        /\ \A i \in 1 .. Len(p) :
             cut[i] <= b /\ Piece(p[i], t, cut[i], cut[i + 1], exact)
  BY DEF Chain
<1>2. /\ Len(p) \in Nat /\ Len(q) = Len(p) + 1
      /\ \A i \in 1 .. Len(p) : q[i] = p[i]
      /\ q[Len(p) + 1] = x
  BY AppendProperties
<1>5. b <= c
  BY DEF Piece
<1> DEFINE new == [i \in 1 .. Len(q) + 1 |-> IF i <= Len(p) + 1 THEN cut[i] ELSE c]
<1> HIDE DEF q
<1>3. new \in [1 .. Len(q) + 1 -> Nat]
  BY <1>2
<1>4. new[1] = a /\ new[Len(q) + 1] = c
  BY <1>1, <1>2
<1>7. ASSUME NEW i \in 1 .. Len(q)
      PROVE  new[i] <= c
  <2>1. CASE i \in 1 .. Len(p)
    <3>1. new[i] = cut[i] /\ cut[i] \in Nat /\ cut[i] <= b
      BY <1>1, <1>2, <2>1
    <3>. QED BY <1>5, <3>1
  <2>2. CASE i = Len(p) + 1
    <3>1. new[i] = b
      BY <1>1, <1>2, <2>2
    <3>. QED BY <1>5, <3>1
  <2>. QED BY <1>2, <2>1, <2>2
<1>6. ASSUME NEW i \in 1 .. Len(q)
      PROVE  Piece(q[i], t, new[i], new[i + 1], exact)
  <2>1. CASE i \in 1 .. Len(p)
    <3>1. new[i] = cut[i] /\ new[i + 1] = cut[i + 1] /\ q[i] = p[i]
      BY <1>2, <2>1
    <3> HIDE DEF new
    <3>. QED BY <1>1, <2>1, <3>1
  <2>2. CASE i = Len(p) + 1
    <3>1. new[i] = b /\ new[i + 1] = c /\ q[i] = x
      BY <1>1, <1>2, <2>2
    <3>. QED BY <3>1
  <2>. QED BY <1>2, <2>1, <2>2
<1> HIDE DEF new
<1>. QED BY <1>3, <1>4, <1>6, <1>7 DEF Chain, q

(* shift: the head is a piece, and the tail goes on where it ends.          *)
LEMMA ChainShifts ==
  ASSUME NEW t, NEW a \in Nat, NEW b \in Nat, NEW exact,
         NEW p \in Seq(Text), p # <<>>, Chain(p, t, a, b, exact)
  PROVE  \E k \in Nat : Piece(Head(p), t, a, k, exact) /\ Chain(Tail(p), t, k, b, exact)
<1>1. PICK cut \in [1 .. Len(p) + 1 -> Nat] :
        /\ cut[1] = a /\ cut[Len(p) + 1] = b
        /\ \A i \in 1 .. Len(p) :
             cut[i] <= b /\ Piece(p[i], t, cut[i], cut[i + 1], exact)
  BY DEF Chain
<1> DEFINE q == Tail(p)
<1>2. /\ Len(p) \in Nat \ {0} /\ Len(q) = Len(p) - 1
      /\ Head(p) = p[1]
      /\ \A i \in 1 .. Len(q) : q[i] = p[i + 1]
  BY HeadTailProperties, EmptySeq, LenProperties
<1> DEFINE new == [i \in 1 .. Len(q) + 1 |-> cut[i + 1]]
<1> HIDE DEF q
<1>3. new \in [1 .. Len(q) + 1 -> Nat] /\ cut[2] \in Nat
  BY <1>2
<1>4. new[1] = cut[2] /\ new[Len(q) + 1] = b
  BY <1>1, <1>2
<1>7. ASSUME NEW i \in 1 .. Len(q)
      PROVE  new[i] <= b /\ Piece(q[i], t, new[i], new[i + 1], exact)
  <2>1. /\ new[i] = cut[i + 1] /\ new[i + 1] = cut[(i + 1) + 1]
        /\ q[i] = p[i + 1] /\ i + 1 \in 1 .. Len(p)
    BY <1>2
  <2> HIDE DEF new
  <2>. QED BY <1>1, <2>1
<1>5. Piece(Head(p), t, a, cut[2], exact)
  BY <1>1, <1>2
<1> HIDE DEF new
<1>6. Chain(q, t, cut[2], b, exact)
  BY <1>3, <1>4, <1>7 DEF Chain
<1>. QED BY <1>3, <1>5, <1>6 DEF q

-----------------------------------------------------------------------------
(* What the pipeline does to the queue and to the flags of the session. *)

(* The queue and the flag of the one pipeline a session uses. *)
Queue(s) == IF s.textDirect THEN s.speakQueue ELSE s.ttsQueue
Busy(s)  == IF s.textDirect THEN s.speakProcessing ELSE s.ttsProcessing

(* The other pipeline is left alone, and so is the turn. *)
Kept(s, n) ==
  /\ n.alive = s.alive /\ n.textDirect = s.textDirect
  /\ n.activeTurnId = s.activeTurnId /\ n.ttsTurnId = s.ttsTurnId
  /\ n.ttsFinalizeRequested = s.ttsFinalizeRequested
  /\ s.textDirect => n.ttsQueue = s.ttsQueue /\ n.ttsProcessing = s.ttsProcessing

(* The turn is taken off the session, with nothing left to say. *)
Gone(s, n, t) ==
  /\ n.alive = s.alive /\ n.textDirect = s.textDirect
  /\ n.activeTurnId = IF s.activeTurnId = t THEN NoTurn ELSE s.activeTurnId
  /\ n.ttsTurnId = NoTurn
  /\ ~n.ttsStarted /\ ~n.ttsFinalizeRequested
  /\ Queue(n) = <<>> /\ ~Busy(n)
  /\ s.textDirect => n.ttsQueue = s.ttsQueue /\ n.ttsProcessing = s.ttsProcessing

(* The head of the queue is on its way to the provider. *)
Sends(r, queue) ==
  /\ \E c : r.calls = {c} /\ c.text = Head(queue)
  /\ Queue(r.s) = Tail(queue)

(* Once the session is deleted nothing changes; a drain that finds a queue  *)
(* spins.                                                                   *)
LEMMA DrainLoopDead ==
  ASSUME NEW s \in Session, NEW t \in Turns, ~s.alive,
         NEW r, r = IF s.textDirect THEN SpeakDrainLoop(s, t) ELSE TtsDrainLoop(s, t)
  PROVE  /\ r.s = s /\ r.calls = {}
         /\ r.hang => Queue(s) # <<>> /\ s.ttsTurnId = t
BY DEF SpeakDrainLoop, TtsDrainLoop, Yield, SpeakDrainEnd, TtsDrainEnd, Update,
       SpeakCompleteTurn, TtsCompleteTurn, ResetTurnState, Queue

(* On a deleted session sendToPipeline changes and starts nothing; the      *)
(* drain of the queue it left may hang.                                     *)
LEMMA SendDead ==
  ASSUME NEW s \in Session, NEW t \in Turns, NEW text, ~s.alive,
         NEW r, r = SendToPipeline(s, t, text)
  PROVE  /\ r.s = s /\ r.calls = {}
         /\ r.hang => Queue(s) # <<>> /\ ~Busy(s) /\ s.ttsTurnId = t
<1>1. CASE s.textDirect
  BY <1>1, DrainLoopDead
     DEF SendToPipeline, SpeakEnqueue, SpeakDrain, Update, Yield, Queue, Busy
<1>2. CASE ~s.textDirect
  BY <1>2, DrainLoopDead
     DEF SendToPipeline, TtsEnqueue, TtsDrain, Update, Yield, Queue, Busy
<1>. QED BY <1>1, <1>2

(* The same of flushBuffer.                                                 *)
LEMMA FlushDead ==
  ASSUME NEW s \in Session, NEW t \in Turns, NEW token, NEW sends,
         ~s.alive, NEW r, r = FlushBuffer(s, t, token, sends)
  PROVE  /\ r.s = s /\ r.calls = {}
         /\ r.hang => Queue(s) # <<>> /\ ~Busy(s) /\ s.ttsTurnId = t
<1>1. Update(s, [s EXCEPT !.sentenceBuffer = @ \o token]) = s
      /\ Update(s, [s EXCEPT !.sentenceBuffer = <<>>]) = s
  BY DEF Update
<1>2. \/ r = Yield(s)
      \/ r = SendToPipeline(s, t, s.sentenceBuffer)
  BY <1>1 DEF FlushBuffer
<1>. QED BY <1>2, SendDead DEF Yield

(* The same of finishAnswer.                                                *)
LEMMA FinishDead ==
  ASSUME NEW s \in Session, NEW t \in Turns, ~s.alive,
         NEW r, r = FinishAnswer(s, t)
  PROVE  /\ r.s = s /\ r.calls = {}
         /\ r.hang => Queue(s) # <<>> /\ ~Busy(s) /\ s.ttsTurnId = t
<1>0. PICK f : f = FlushBuffer(s, t, <<>>, TRUE)
  OBVIOUS
<1>1. /\ f.s = s /\ f.calls = {}
      /\ f.hang => Queue(s) # <<>> /\ ~Busy(s) /\ s.ttsTurnId = t
  <2>1. \A sends, g : g = FlushBuffer(s, t, <<>>, sends)
          => /\ g.s = s /\ g.calls = {}
             /\ g.hang => Queue(s) # <<>> /\ ~Busy(s) /\ s.ttsTurnId = t
    BY FlushDead
  <2>. QED BY <1>0, <2>1
<1> DEFINE m == Update(s, [s EXCEPT !.ttsFinalizeRequested = TRUE])
<1>4. m = s
  BY DEF Update
<1>5. TtsCompleteTurn(s, t) = s /\ SpeakCompleteTurn(s, t) = s
  BY DEF TtsCompleteTurn, SpeakCompleteTurn, ResetTurnState, Update
<1>6. MarkFinalize(s, t) \in {s, SpeakCompleteTurn(m, t), TtsCompleteTurn(m, t)}
  <2> HIDE DEF m
  <2>1. SpeakMarkFinalize(s, t) \in {s, SpeakCompleteTurn(m, t)}
    BY Zenon DEF SpeakMarkFinalize, m
  <2>2. TtsMarkFinalize(s, t) \in {s, TtsCompleteTurn(m, t)}
    BY Zenon DEF TtsMarkFinalize, m
  <2>. QED BY <2>1, <2>2 DEF MarkFinalize
<1> HIDE DEF m
<1>2. MarkFinalize(s, t) = s
  BY <1>4, <1>5, <1>6
<1>3. r = IF f.hang THEN f ELSE [s |-> s, calls |-> {}, hang |-> FALSE]
  BY <1>0, <1>1, <1>2 DEF FinishAnswer, Update
<1>. QED BY <1>1, <1>3

(* The steps of the turn that owns a registered session. *)

(* completeTurn of the owner, with nothing left to say: it takes the turn   *)
(* off the session if its end was asked for, and else does nothing.         *)
LEMMA CompleteMoves ==
  ASSUME NEW s \in Session, NEW t \in Turns, s.alive, s.ttsTurnId = t,
         Queue(s) = <<>>, ~Busy(s),
         NEW n, n = IF s.textDirect THEN SpeakCompleteTurn(s, t)
                                    ELSE TtsCompleteTurn(s, t)
  PROVE  /\ s.ttsFinalizeRequested
              => Gone(s, n, t) /\ n.sentenceBuffer = s.sentenceBuffer
         /\ ~s.ttsFinalizeRequested => n = s
<1>1. n = IF s.ttsFinalizeRequested THEN ResetTurnState(s, t) ELSE s
  BY DEF SpeakCompleteTurn, TtsCompleteTurn, Queue, Busy
<1> DEFINE a == IF s.activeTurnId = t THEN NoTurn ELSE s.activeTurnId
           m == [s EXCEPT !.ttsTurnId = NoTurn, !.ttsStarted = FALSE,
                          !.ttsFinalizeRequested = FALSE, !.activeTurnId = a,
                          !.abortController = NoTurn]
<1>2. ResetTurnState(s, t) = m
  BY DEF ResetTurnState, Update
<1> HIDE DEF a
<1>3. /\ m.alive = s.alive /\ m.textDirect = s.textDirect
      /\ m.activeTurnId = a
      /\ m.ttsTurnId = NoTurn
      /\ ~m.ttsStarted /\ ~m.ttsFinalizeRequested
      /\ m.ttsQueue = s.ttsQueue /\ m.ttsProcessing = s.ttsProcessing
      /\ m.speakQueue = s.speakQueue /\ m.speakProcessing = s.speakProcessing
      /\ m.sentenceBuffer = s.sentenceBuffer
  BY DEF Session
<1> HIDE DEF m
<1>4. Gone(s, m, t) /\ m.sentenceBuffer = s.sentenceBuffer
  BY <1>3 DEF Gone, Queue, Busy, a
<1>. QED BY <1>1, <1>2, <1>4

(* A drain is over. *)
DrainEnds(s, n, t) ==
  /\ n.sentenceBuffer = s.sentenceBuffer
  /\ Queue(n) = Queue(s) /\ ~Busy(n)
  /\ s.ttsFinalizeRequested /\ Queue(s) = <<>> => Gone(s, n, t)
  /\ ~s.ttsFinalizeRequested \/ Queue(s) # <<>>
       => /\ Kept(s, n) /\ n.ttsStarted = s.ttsStarted
          /\ n.abortController = s.abortController

(* The finally block of the owner's drain.                                  *)
LEMMA DrainEndMoves ==
  ASSUME NEW s \in Session, NEW t \in Turns, s.alive, s.ttsTurnId = t,
         NEW n, n = IF s.textDirect THEN SpeakDrainEnd(s, t) ELSE TtsDrainEnd(s, t)
  PROVE  DrainEnds(s, n, t)
<1> DEFINE m == IF s.textDirect THEN [s EXCEPT !.speakProcessing = FALSE]
                                ELSE [s EXCEPT !.ttsProcessing = FALSE]
<1>1. n = IF s.textDirect THEN SpeakCompleteTurn(m, t) ELSE TtsCompleteTurn(m, t)
  BY DEF SpeakDrainEnd, TtsDrainEnd, Update
<1>2. /\ m \in Session
      /\ m.alive = s.alive /\ m.textDirect = s.textDirect
      /\ m.activeTurnId = s.activeTurnId
      /\ m.ttsTurnId = s.ttsTurnId
      /\ m.ttsStarted = s.ttsStarted
      /\ m.ttsFinalizeRequested = s.ttsFinalizeRequested
      /\ m.abortController = s.abortController
      /\ m.ttsQueue = s.ttsQueue
      /\ m.speakQueue = s.speakQueue
      /\ m.sentenceBuffer = s.sentenceBuffer
      /\ s.textDirect => ~m.speakProcessing /\ m.ttsProcessing = s.ttsProcessing
      /\ ~s.textDirect => ~m.ttsProcessing
  BY DEF Session
<1> HIDE DEF m
<1>3. Queue(m) = Queue(s) /\ ~Busy(m)
  BY <1>2 DEF Queue, Busy
<1>4. CASE Queue(s) = <<>>
  <2>1. /\ m.ttsFinalizeRequested
              => Gone(m, n, t) /\ n.sentenceBuffer = m.sentenceBuffer
        /\ ~m.ttsFinalizeRequested => n = m
    BY <1>1, <1>2, <1>3, <1>4, CompleteMoves
  <2>2. CASE m.ttsFinalizeRequested
    <3>1. Gone(m, n, t)
      BY <2>1, <2>2
    <3>2. Gone(s, n, t)
      BY <1>2, <3>1 DEF Gone
    <3>. QED BY <1>2, <1>4, <2>1, <2>2, <3>1, <3>2 DEF DrainEnds, Gone
  <2>3. CASE ~m.ttsFinalizeRequested
    <3>1. Kept(s, m)
      BY <1>2 DEF Kept
    <3>. QED BY <1>2, <1>3, <1>4, <2>1, <2>3, <3>1 DEF DrainEnds
  <2>. QED BY <2>2, <2>3
<1>5. CASE Queue(s) # <<>>
  <2>1. n = m
    BY <1>1, <1>2, <1>3, <1>5 DEF SpeakCompleteTurn, TtsCompleteTurn, Queue
  <2>. QED BY <1>2, <1>3, <1>5, <2>1 DEF Kept, DrainEnds
<1>. QED BY <1>4, <1>5

(* A drain goes round: it sends the next sentence, or it is over. *)
Loops(s, r, t) ==
  /\ ~r.hang
  /\ r.s.sentenceBuffer = s.sentenceBuffer
  /\ Queue(s) # <<>>
       => /\ Kept(s, r.s) /\ Sends(r, Queue(s))
          /\ Busy(r.s) = Busy(s) /\ r.s.ttsStarted = s.ttsStarted
  /\ Queue(s) = <<>>
       => /\ r.calls = {}
          /\ s.ttsFinalizeRequested => Gone(s, r.s, t)
          /\ ~s.ttsFinalizeRequested
               => /\ Kept(s, r.s) /\ r.s.ttsStarted = s.ttsStarted
                  /\ r.s.abortController = s.abortController
                  /\ Queue(r.s) = <<>> /\ ~Busy(r.s)

(* One round of the owner's drain loop.                                     *)
LEMMA DrainLoopMoves ==
  ASSUME NEW s \in Session, NEW t \in Turns, s.alive, s.ttsTurnId = t,
         NEW r, r = IF s.textDirect THEN SpeakDrainLoop(s, t) ELSE TtsDrainLoop(s, t)
  PROVE  Loops(s, r, t)
<1>1. CASE Queue(s) = <<>>
  <2> DEFINE n == IF s.textDirect THEN SpeakDrainEnd(s, t) ELSE TtsDrainEnd(s, t)
  <2>1. r = Yield(n)
    BY <1>1 DEF SpeakDrainLoop, TtsDrainLoop, Queue
  <2>2. r.s = n /\ r.calls = {} /\ ~r.hang
    BY <2>1 DEF Yield
  <2>. QED BY <1>1, <2>2, DrainEndMoves DEF DrainEnds, Loops
<1>2. CASE Queue(s) # <<>> /\ s.textDirect
  <2> DEFINE n == [s EXCEPT !.speakQueue = Tail(@)]
             c == [turn |-> t, text |-> Head(s.speakQueue)]
  <2>1. r = [s |-> n, calls |-> {c}, hang |-> FALSE]
    BY <1>2 DEF SpeakDrainLoop, Queue
  <2>2. c.text = Head(s.speakQueue)
    OBVIOUS
  <2>3. /\ n.alive = s.alive /\ n.textDirect = s.textDirect
        /\ n.activeTurnId = s.activeTurnId /\ n.ttsTurnId = s.ttsTurnId
        /\ n.ttsFinalizeRequested = s.ttsFinalizeRequested
        /\ n.ttsQueue = s.ttsQueue /\ n.ttsProcessing = s.ttsProcessing
        /\ n.ttsStarted = s.ttsStarted
        /\ n.speakQueue = Tail(s.speakQueue)
        /\ n.speakProcessing = s.speakProcessing
        /\ n.sentenceBuffer = s.sentenceBuffer
    BY DEF Session
  <2> HIDE DEF n, c
  <2>4. r.s = n /\ r.calls = {c} /\ ~r.hang
    BY <2>1
  <2>. QED BY <1>2, <2>2, <2>3, <2>4 DEF Kept, Sends, Queue, Busy, Loops
<1>3. CASE Queue(s) # <<>> /\ ~s.textDirect
  <2> DEFINE n == [s EXCEPT !.ttsQueue = Tail(@), !.abortController = Signal(s)]
             c == [turn |-> t, text |-> Head(s.ttsQueue), signal |-> Signal(s)]
  <2>1. r = [s |-> n, calls |-> {c}, hang |-> FALSE]
    BY <1>3 DEF TtsDrainLoop, Queue, Signal
  <2>2. c.text = Head(s.ttsQueue)
    OBVIOUS
  <2>3. /\ n.alive = s.alive /\ n.textDirect = s.textDirect
        /\ n.activeTurnId = s.activeTurnId /\ n.ttsTurnId = s.ttsTurnId
        /\ n.ttsFinalizeRequested = s.ttsFinalizeRequested
        /\ n.ttsProcessing = s.ttsProcessing
        /\ n.ttsStarted = s.ttsStarted
        /\ n.ttsQueue = Tail(s.ttsQueue)
        /\ n.sentenceBuffer = s.sentenceBuffer
    BY DEF Session
  <2> HIDE DEF n, c
  <2>4. r.s = n /\ r.calls = {c} /\ ~r.hang
    BY <2>1
  <2>. QED BY <1>3, <2>2, <2>3, <2>4 DEF Kept, Sends, Queue, Busy, Loops
<1>. QED BY <1>1, <1>2, <1>3

(* sendToPipeline of the owner: a busy pipeline queues the text, an idle    *)
(* one starts with the head of the queue.                                   *)
LEMMA SendMoves ==
  ASSUME NEW s \in Session, NEW t \in Turns, NEW text \in Text,
         s.alive, s.ttsTurnId = t,
         NEW r, r = SendToPipeline(s, t, text)
  PROVE  /\ ~r.hang
         /\ Kept(s, r.s)
         /\ r.s.sentenceBuffer = s.sentenceBuffer
         /\ Busy(r.s)
         /\ Busy(s) => /\ r.calls = {} /\ Queue(r.s) = Append(Queue(s), text)
                       /\ r.s.ttsStarted = s.ttsStarted
         /\ ~Busy(s) => Sends(r, Append(Queue(s), text))
<1> DEFINE p == IF s.textDirect THEN [s EXCEPT !.speakQueue = Append(@, text)]
                                ELSE [s EXCEPT !.ttsQueue = Append(@, text)]
           d == IF s.textDirect
                THEN [p EXCEPT !.speakProcessing = TRUE, !.ttsStarted = TRUE]
                ELSE [p EXCEPT !.ttsProcessing = TRUE, !.ttsStarted = TRUE]
           l == IF s.textDirect THEN SpeakDrainLoop(d, t) ELSE TtsDrainLoop(d, t)
<1>1. /\ Append(s.speakQueue, text) \in Seq(Text)
      /\ Append(s.ttsQueue, text) \in Seq(Text)
      /\ Append(s.speakQueue, text) # <<>>
      /\ Append(s.ttsQueue, text) # <<>>
  BY AppendProperties DEF Session
<1>2. /\ p \in Session
      /\ p.alive = s.alive /\ p.textDirect = s.textDirect
      /\ p.activeTurnId = s.activeTurnId /\ p.ttsTurnId = s.ttsTurnId
      /\ p.ttsFinalizeRequested = s.ttsFinalizeRequested
      /\ p.ttsStarted = s.ttsStarted
      /\ p.sentenceBuffer = s.sentenceBuffer
      /\ p.ttsProcessing = s.ttsProcessing /\ p.speakProcessing = s.speakProcessing
      /\ s.textDirect => /\ p.ttsQueue = s.ttsQueue
                         /\ p.speakQueue = Append(s.speakQueue, text)
      /\ ~s.textDirect => p.ttsQueue = Append(s.ttsQueue, text)
  BY <1>1 DEF Session
<1>3. r = IF Busy(s) THEN Yield(p) ELSE l
  <2>1. CASE s.textDirect
    <3>1. r = SpeakDrain(p, t)
      BY <2>1 DEF SendToPipeline, SpeakEnqueue, Update
    <3> HIDE DEF p
    <3>2. Update(p, [p EXCEPT !.speakProcessing = TRUE, !.ttsStarted = TRUE]) = d
      BY <1>2, <2>1 DEF Update
    <3> HIDE DEF d
    <3>3. SpeakDrain(p, t) = IF p.speakProcessing THEN Yield(p)
                                                  ELSE SpeakDrainLoop(d, t)
      BY <1>2, <3>2 DEF SpeakDrain
    <3>. QED BY <1>2, <2>1, <3>1, <3>3 DEF Busy
  <2>2. CASE ~s.textDirect
    <3>1. r = TtsDrain(p, t)
      BY <2>2 DEF SendToPipeline, TtsEnqueue, Update
    <3> HIDE DEF p
    <3>2. Update(p, [p EXCEPT !.ttsProcessing = TRUE, !.ttsStarted = TRUE]) = d
      BY <1>2, <2>2 DEF Update
    <3> HIDE DEF d
    <3>3. TtsDrain(p, t) = IF p.ttsProcessing THEN Yield(p)
                                              ELSE TtsDrainLoop(d, t)
      BY <1>2, <3>2 DEF TtsDrain
    <3>. QED BY <1>2, <2>2, <3>1, <3>3 DEF Busy
  <2>. QED BY <2>1, <2>2
<1> HIDE DEF p
<1>4. /\ d \in Session
      /\ d.alive = p.alive /\ d.textDirect = p.textDirect
      /\ d.activeTurnId = p.activeTurnId /\ d.ttsTurnId = p.ttsTurnId
      /\ d.ttsFinalizeRequested = p.ttsFinalizeRequested
      /\ d.sentenceBuffer = p.sentenceBuffer
      /\ d.ttsQueue = p.ttsQueue /\ d.speakQueue = p.speakQueue
      /\ s.textDirect => d.ttsProcessing = p.ttsProcessing /\ d.speakProcessing
      /\ ~s.textDirect => d.ttsProcessing
  BY <1>2 DEF Session
<1> HIDE DEF d
<1>5. CASE Busy(s)
  <2>1. r = Yield(p)
    BY <1>3, <1>5
  <2>2. r.s = p /\ r.calls = {} /\ ~r.hang
    BY <2>1 DEF Yield
  <2>. QED BY <1>2, <1>5, <2>2 DEF Kept, Queue, Busy
<1>6. CASE ~Busy(s)
  <2>1. Queue(d) = Append(Queue(s), text) /\ Queue(d) # <<>> /\ Busy(d)
    BY <1>1, <1>2, <1>4 DEF Queue, Busy
  <2>2. /\ ~r.hang /\ r.s.sentenceBuffer = d.sentenceBuffer
        /\ Kept(d, r.s) /\ Sends(r, Queue(d)) /\ Busy(r.s) = Busy(d)
    <3>1. d \in Session /\ d.alive /\ d.ttsTurnId = t /\ Queue(d) # <<>>
      BY <1>2, <1>4, <2>1
    <3>2. r = IF d.textDirect THEN SpeakDrainLoop(d, t) ELSE TtsDrainLoop(d, t)
      BY <1>2, <1>3, <1>4, <1>6
    <3>3. Loops(d, r, t)
      BY <3>1, <3>2, DrainLoopMoves
    <3>. QED BY <2>1, <3>3 DEF Loops
  <2>. QED BY <1>2, <1>4, <1>6, <2>1, <2>2 DEF Kept
<1>. QED BY <1>5, <1>6

(* The buffer with the new token, full, stays where it is or is sent. *)
Flushes(s, r, full, sends) ==
  /\ ~r.hang
  /\ Kept(s, r.s)
  /\ \/ /\ r.calls = {} /\ Queue(r.s) = Queue(s)
        /\ r.s.sentenceBuffer = full
        /\ Busy(r.s) = Busy(s) /\ r.s.ttsStarted = s.ttsStarted
        /\ r.s.abortController = s.abortController
     \/ /\ r.s.sentenceBuffer = <<>>
        /\ Busy(r.s)
        /\ Busy(s) => /\ r.calls = {}
                      /\ Queue(r.s) = Append(Queue(s), full)
                      /\ r.s.ttsStarted = s.ttsStarted
        /\ ~Busy(s) => Sends(r, Append(Queue(s), full))
  /\ sends => r.s.sentenceBuffer = <<>>

(* flushBuffer of the owner: the token is added, and what was to be sent    *)
(* is.                                                                      *)
LEMMA FlushMoves ==
  ASSUME NEW s \in Session, NEW t \in Turns, NEW token \in Text,
         NEW sends \in BOOLEAN, s.alive, s.ttsTurnId = t,
         NEW r, r = FlushBuffer(s, t, token, sends)
  PROVE  /\ s.sentenceBuffer \o token \in Text
         /\ Flushes(s, r, s.sentenceBuffer \o token, sends)
<1> DEFINE full == s.sentenceBuffer \o token
           filled == [s EXCEPT !.sentenceBuffer = full]
           emptied == [filled EXCEPT !.sentenceBuffer = <<>>]
<1>1. full \in Text /\ <<>> \in Text
  <2>1. s.sentenceBuffer \in Seq(Tokens) /\ token \in Seq(Tokens)
    BY DEF Session, Text
  <2>. QED BY <2>1, ConcatProperties DEF Text
<1> HIDE DEF full
<1>2. /\ filled \in Session /\ Kept(s, filled)
      /\ Queue(filled) = Queue(s) /\ Busy(filled) = Busy(s)
      /\ filled.ttsStarted = s.ttsStarted
      /\ filled.abortController = s.abortController
      /\ filled.sentenceBuffer = full
  BY <1>1 DEF Session, Kept, Queue, Busy
<1>3. filled = Update(s, [s EXCEPT !.sentenceBuffer = @ \o token])
  BY DEF Update, full
<1> HIDE DEF filled
<1>4. /\ emptied \in Session /\ Kept(filled, emptied)
      /\ Queue(emptied) = Queue(filled) /\ Busy(emptied) = Busy(filled)
      /\ emptied.ttsStarted = filled.ttsStarted
      /\ emptied.sentenceBuffer = <<>>
  BY <1>1, <1>2 DEF Session, Kept, Queue, Busy
<1>5. emptied = Update(filled, [filled EXCEPT !.sentenceBuffer = <<>>])
  BY <1>2 DEF Update, Kept
<1> HIDE DEF emptied
<1>6. r = IF ~sends \/ full = <<>> THEN Yield(filled)
                                   ELSE SendToPipeline(emptied, t, full)
  BY <1>2, <1>3, <1>5 DEF FlushBuffer
<1>7. CASE ~sends \/ full = <<>>
  <2>1. r.s = filled /\ r.calls = {} /\ ~r.hang
    BY <1>6, <1>7 DEF Yield
  <2>. QED BY <1>1, <1>2, <1>7, <2>1 DEF full, Flushes
<1>8. CASE ~(~sends \/ full = <<>>)
  <2>1. r = SendToPipeline(emptied, t, full)
    BY <1>6, <1>8
  <2>2. emptied.alive /\ emptied.ttsTurnId = t /\ Kept(s, emptied)
    BY <1>2, <1>4 DEF Kept
  <2>3. /\ ~r.hang
        /\ Kept(emptied, r.s)
        /\ r.s.sentenceBuffer = emptied.sentenceBuffer
        /\ Busy(r.s)
        /\ Busy(emptied) => /\ r.calls = {}
                            /\ Queue(r.s) = Append(Queue(emptied), full)
                            /\ r.s.ttsStarted = emptied.ttsStarted
        /\ ~Busy(emptied) => Sends(r, Append(Queue(emptied), full))
    BY <1>1, <1>4, <2>1, <2>2, SendMoves
  <2>4. Kept(s, r.s)
    BY <2>2, <2>3 DEF Kept
  <2>. QED BY <1>1, <1>2, <1>4, <2>3, <2>4 DEF full, Flushes
<1>. QED BY <1>7, <1>8

(* The end of the answer is asked for: at once when nothing is left to say. *)
Marked(s, n, t) ==
  /\ n.sentenceBuffer = s.sentenceBuffer
  /\ ~Busy(s) /\ Queue(s) = <<>> => Gone(s, n, t)
  /\ Busy(s) \/ Queue(s) # <<>>
       => /\ n.alive = s.alive /\ n.textDirect = s.textDirect
          /\ n.activeTurnId = s.activeTurnId
          /\ n.ttsTurnId = s.ttsTurnId
          /\ n.ttsFinalizeRequested
          /\ n.ttsQueue = s.ttsQueue /\ n.ttsProcessing = s.ttsProcessing
          /\ Queue(n) = Queue(s) /\ Busy(n) = Busy(s)
          /\ n.ttsStarted = s.ttsStarted
          /\ n.abortController = s.abortController

(* markFinalize of the owner.                                               *)
LEMMA MarkMoves ==
  ASSUME NEW s \in Session, NEW t \in Turns, s.alive, s.ttsTurnId = t,
         NEW n, n = MarkFinalize(s, t)
  PROVE  Marked(s, n, t)
<1> DEFINE m == [s EXCEPT !.ttsFinalizeRequested = TRUE]
<1>1. /\ m \in Session
      /\ m.alive = s.alive /\ m.textDirect = s.textDirect
      /\ m.activeTurnId = s.activeTurnId /\ m.ttsTurnId = s.ttsTurnId
      /\ m.ttsFinalizeRequested
      /\ m.ttsQueue = s.ttsQueue /\ m.ttsProcessing = s.ttsProcessing
      /\ m.speakQueue = s.speakQueue /\ m.speakProcessing = s.speakProcessing
      /\ m.ttsStarted = s.ttsStarted
      /\ m.abortController = s.abortController
      /\ m.sentenceBuffer = s.sentenceBuffer
  BY DEF Session
<1>2. m = Update(s, [s EXCEPT !.ttsFinalizeRequested = TRUE])
  BY DEF Update
<1> HIDE DEF m
<1>3. n = IF m.textDirect THEN SpeakCompleteTurn(m, t) ELSE TtsCompleteTurn(m, t)
  BY <1>1, <1>2 DEF MarkFinalize, SpeakMarkFinalize, TtsMarkFinalize
<1>4. Queue(m) = Queue(s) /\ Busy(m) = Busy(s)
  BY <1>1 DEF Queue, Busy
<1>5. CASE ~Busy(s) /\ Queue(s) = <<>>
  <2>1. Gone(m, n, t) /\ n.sentenceBuffer = m.sentenceBuffer
    BY <1>1, <1>3, <1>4, <1>5, CompleteMoves
  <2>. QED BY <1>1, <1>5, <2>1 DEF Gone, Marked
<1>6. CASE Busy(s) \/ Queue(s) # <<>>
  <2>1. n = m
    BY <1>1, <1>3, <1>4, <1>6 DEF SpeakCompleteTurn, TtsCompleteTurn, Queue, Busy
  <2>. QED BY <1>1, <1>4, <1>6, <2>1 DEF Marked
<1>. QED BY <1>5, <1>6

(* What is flushed, f, is followed by the mark. *)
Finishes(s, r, f, t) ==
  /\ ~r.hang
  /\ r.calls = f.calls
  /\ r.s.sentenceBuffer = <<>>
  /\ ~Busy(f.s) /\ Queue(f.s) = <<>> => Gone(s, r.s, t)
  /\ Busy(f.s) \/ Queue(f.s) # <<>>
       => /\ r.s.alive = s.alive /\ r.s.textDirect = s.textDirect
          /\ r.s.activeTurnId = s.activeTurnId
          /\ r.s.ttsTurnId = s.ttsTurnId
          /\ r.s.ttsFinalizeRequested
          /\ s.textDirect => /\ r.s.ttsQueue = s.ttsQueue
                             /\ r.s.ttsProcessing = s.ttsProcessing
          /\ Queue(r.s) = Queue(f.s) /\ Busy(r.s) = Busy(f.s)
          /\ r.s.ttsStarted = f.s.ttsStarted
          /\ r.s.abortController = f.s.abortController

(* finishAnswer of the owner: a flush of the rest, then the mark.           *)
LEMMA FinishMoves ==
  ASSUME NEW s \in Session, NEW t \in Turns, s.alive, s.ttsTurnId = t,
         NEW r, r = FinishAnswer(s, t)
  PROVE  \E f : /\ f = FlushBuffer(s, t, <<>>, TRUE)
                /\ f.s.sentenceBuffer = <<>>
                /\ Finishes(s, r, f, t)
<1>0. PICK f : f = FlushBuffer(s, t, <<>>, TRUE)
  OBVIOUS
<1>e. <<>> \in Text /\ TRUE \in BOOLEAN
  BY DEF Text
<1>m. PICK marked : marked = MarkFinalize(f.s, t)
  OBVIOUS
<1> DEFINE n == Update(marked, [marked EXCEPT !.sentenceBuffer = <<>>])
<1>2. r = IF f.hang THEN f ELSE [s |-> n, calls |-> f.calls, hang |-> FALSE]
  BY <1>0, <1>m DEF FinishAnswer
<1>3. Effect(s, f, t)
  BY <1>0, <1>e, FlushEffect
<1>4. ~f.hang /\ Kept(s, f.s) /\ f.s.sentenceBuffer = <<>> /\ f.s \in Session
  <2>1. \A sends \in BOOLEAN : \A g : g = FlushBuffer(s, t, <<>>, sends)
          => /\ ~g.hang /\ Kept(s, g.s)
             /\ sends => g.s.sentenceBuffer = <<>>
    BY <1>e, FlushMoves DEF Flushes
  <2>2. \A g : g = FlushBuffer(s, t, <<>>, TRUE)
          => ~g.hang /\ Kept(s, g.s) /\ g.s.sentenceBuffer = <<>>
    BY <2>1
  <2>. QED BY <1>0, <1>3, <2>2 DEF Effect
<1>5. f.s.alive /\ f.s.ttsTurnId = t
  BY <1>4 DEF Kept
<1>6. marked \in Session
  BY <1>4, <1>m, MarkCalm DEF Calm
<1>7. Marked(f.s, marked, t)
  BY <1>4, <1>5, <1>m, MarkMoves
<1>8. n = marked
  BY <1>4, <1>6, <1>7 DEF Update, Session, Marked
<1> HIDE DEF n
<1>9. r.s = n /\ r.calls = f.calls /\ ~r.hang
  BY <1>2, <1>4
<1>10. CASE ~Busy(f.s) /\ Queue(f.s) = <<>>
  <2>1. Gone(s, r.s, t)
    BY <1>4, <1>7, <1>8, <1>9, <1>10 DEF Gone, Kept, Marked
  <2>2. r.s.sentenceBuffer = <<>>
    BY <1>4, <1>7, <1>8, <1>9 DEF Marked
  <2>. QED BY <1>0, <1>4, <1>9, <1>10, <2>1, <2>2 DEF Finishes
<1>11. CASE Busy(f.s) \/ Queue(f.s) # <<>>
  <2>1. r.s.sentenceBuffer = <<>>
    BY <1>4, <1>7, <1>8, <1>9 DEF Marked
  <2>2. /\ r.s.alive = s.alive /\ r.s.textDirect = s.textDirect
        /\ r.s.activeTurnId = s.activeTurnId
        /\ r.s.ttsTurnId = s.ttsTurnId
        /\ r.s.ttsFinalizeRequested
        /\ s.textDirect => /\ r.s.ttsQueue = s.ttsQueue
                           /\ r.s.ttsProcessing = s.ttsProcessing
        /\ Queue(r.s) = Queue(f.s) /\ Busy(r.s) = Busy(f.s)
        /\ r.s.ttsStarted = f.s.ttsStarted
        /\ r.s.abortController = f.s.abortController
    BY <1>4, <1>7, <1>8, <1>9, <1>11 DEF Kept, Marked
  <2>. QED BY <1>0, <1>4, <1>9, <1>11, <2>1, <2>2 DEF Finishes
<1>. QED BY <1>10, <1>11

(* The steps of a turn that lost the session: they say nothing, but a late  *)
(* finally block empties the buffer, and the end of a late drain clears the *)
(* flag, after a failure the queue too.                                     *)
LEMMA FlushOther ==
  ASSUME NEW s \in Session, NEW t \in Turns, NEW token, NEW sends,
         s.ttsTurnId # t
  PROVE  FlushBuffer(s, t, token, sends) = Yield(s)
BY DEF FlushBuffer

(* finishAnswer of a turn that lost the session empties the buffer of the   *)
(* session's turn: that is all it does.                                     *)
LEMMA FinishOther ==
  ASSUME NEW s \in Session, NEW t \in Turns, s.ttsTurnId # t
  PROVE  FinishAnswer(s, t)
           = Yield(Update(s, [s EXCEPT !.sentenceBuffer = <<>>]))
<1>1. FlushBuffer(s, t, <<>>, TRUE) = Yield(s)
  BY FlushOther
<1>2. MarkFinalize(s, t) = s
  BY DEF MarkFinalize, SpeakMarkFinalize, TtsMarkFinalize
<1> DEFINE n == Update(s, [s EXCEPT !.sentenceBuffer = <<>>])
<1>3. PICK f : f = FlushBuffer(s, t, <<>>, TRUE) /\ f = Yield(s)
  BY <1>1
<1>6. f = Yield(s)
  BY <1>3
<1>5. f.s = s /\ f.calls = {} /\ ~f.hang
  BY <1>6 DEF Yield
<1>4. FinishAnswer(s, t) = [s |-> n, calls |-> {}, hang |-> FALSE]
  BY <1>2, <1>3, <1>5 DEF FinishAnswer
<1>. QED BY <1>4 DEF Yield

(* A drain that finds another turn on the session only says it stopped.     *)
LEMMA DrainLoopOther ==
  ASSUME NEW s \in Session, NEW t \in Turns, s.ttsTurnId # t
  PROVE  /\ TtsDrainLoop(s, t)
              = Yield(Update(s, [s EXCEPT !.ttsProcessing = FALSE]))
         /\ SpeakDrainLoop(s, t)
              = Yield(Update(s, [s EXCEPT !.speakProcessing = FALSE]))
<1> DEFINE m == Update(s, [s EXCEPT !.ttsProcessing = FALSE])
           n == Update(s, [s EXCEPT !.speakProcessing = FALSE])
<1>1. m.ttsTurnId # t /\ n.ttsTurnId # t
  BY DEF Update, Session
<1>2. /\ TtsDrainLoop(s, t) = Yield(TtsCompleteTurn(m, t))
      /\ SpeakDrainLoop(s, t) = Yield(SpeakCompleteTurn(n, t))
  BY DEF TtsDrainLoop, TtsDrainEnd, SpeakDrainLoop, SpeakDrainEnd
<1> HIDE DEF m, n
<1>3. TtsCompleteTurn(m, t) = m /\ SpeakCompleteTurn(n, t) = n
  BY <1>1 DEF TtsCompleteTurn, SpeakCompleteTurn
<1>. QED BY <1>2, <1>3 DEF m, n

(* So does the finally block after a rejected synthesis.                    *)
LEMMA RejectOther ==
  ASSUME NEW s \in Session, NEW t \in Turns, s.ttsTurnId # t,
         NEW m, m = Update(s, [s EXCEPT !.ttsQueue = <<>>])
  PROVE  TtsDrainEnd(m, t) = Update(m, [m EXCEPT !.ttsProcessing = FALSE])
<1> DEFINE n == Update(m, [m EXCEPT !.ttsProcessing = FALSE])
<1>0. m \in Session /\ m.ttsTurnId = s.ttsTurnId
  <2>1. m = s \/ m = [s EXCEPT !.ttsQueue = <<>>]
    BY DEF Update
  <2>2. <<>> \in Seq(Text)
    OBVIOUS
  <2>. QED BY <2>1, <2>2 DEF Session
<1>1. n.ttsTurnId # t
  BY <1>0 DEF Update, Session
<1>2. TtsDrainEnd(m, t) = TtsCompleteTurn(n, t)
  BY DEF TtsDrainEnd
<1> HIDE DEF n
<1>3. TtsCompleteTurn(n, t) = n
  BY <1>1 DEF TtsCompleteTurn
<1>. QED BY <1>2, <1>3 DEF n

(* A synthesis that failed: the queue is dropped, and the drain is over. *)
Rejects(s, n, t) ==
  /\ n.sentenceBuffer = s.sentenceBuffer
  /\ Queue(n) = <<>> /\ ~Busy(n)
  /\ s.ttsFinalizeRequested => Gone(s, n, t)
  /\ ~s.ttsFinalizeRequested
       => /\ Kept(s, n) /\ n.ttsStarted = s.ttsStarted
          /\ n.abortController = s.abortController

(* A rejected synthesis of the owner: its queue is dropped, then the        *)
(* finally block runs.                                                      *)
LEMMA RejectMoves ==
  ASSUME NEW s \in Session, NEW t \in Turns, s.alive, s.ttsTurnId = t,
         ~s.textDirect,
         NEW m, m = Update(s, [s EXCEPT !.ttsQueue = <<>>]),
         NEW n, n = TtsDrainEnd(m, t)
  PROVE  Rejects(s, n, t)
<1>1. /\ m \in Session
      /\ m.alive = s.alive /\ m.textDirect = s.textDirect
      /\ m.activeTurnId = s.activeTurnId
      /\ m.ttsTurnId = s.ttsTurnId
      /\ m.ttsStarted = s.ttsStarted
      /\ m.ttsFinalizeRequested = s.ttsFinalizeRequested
      /\ m.abortController = s.abortController
      /\ m.ttsQueue = <<>>
      /\ m.sentenceBuffer = s.sentenceBuffer
  <2>1. m = [s EXCEPT !.ttsQueue = <<>>]
    BY DEF Update
  <2>2. <<>> \in Seq(Text)
    OBVIOUS
  <2>. QED BY <2>1, <2>2 DEF Session
<1>2. n = IF m.textDirect THEN SpeakDrainEnd(m, t) ELSE TtsDrainEnd(m, t)
  BY <1>1
<1>3. Queue(m) = <<>>
  BY <1>1 DEF Queue
<1>4. DrainEnds(m, n, t)
  BY <1>1, <1>2, DrainEndMoves
<1>5. n.sentenceBuffer = s.sentenceBuffer /\ Queue(n) = <<>> /\ ~Busy(n)
  BY <1>1, <1>3, <1>4 DEF DrainEnds
<1>6. ASSUME s.ttsFinalizeRequested
      PROVE  Gone(s, n, t)
  <2>1. Gone(m, n, t)
    BY <1>1, <1>3, <1>4, <1>6 DEF DrainEnds
  <2>. QED BY <1>1, <2>1 DEF Gone
<1>7. ASSUME ~s.ttsFinalizeRequested
      PROVE  /\ Kept(s, n) /\ n.ttsStarted = s.ttsStarted
             /\ n.abortController = s.abortController
  <2>1. /\ Kept(m, n) /\ n.ttsStarted = m.ttsStarted
        /\ n.abortController = m.abortController
    BY <1>1, <1>4, <1>7 DEF DrainEnds
  <2>. QED BY <1>1, <2>1 DEF Kept
<1>. QED BY <1>5, <1>6, <1>7 DEF Rejects

(* On a deleted session the end of a drain changes nothing.                 *)
LEMMA RejectDead ==
  ASSUME NEW s \in Session, NEW t \in Turns, ~s.alive,
         NEW m, m = Update(s, [s EXCEPT !.ttsQueue = <<>>])
  PROVE  TtsDrainEnd(m, t) = s /\ SpeakDrainEnd(s, t) = s
<1>1. m = s
  BY DEF Update
<1>. QED
  BY <1>1 DEF TtsDrainEnd, SpeakDrainEnd, TtsCompleteTurn, SpeakCompleteTurn,
              ResetTurnState, Update

-----------------------------------------------------------------------------
(* The words on their way through the session. *)

(* The tokens of t after the n-th, up to the e-th, wait in the queue and in *)
(* the buffer.                                                              *)
Words(s, t, n, e, exact) ==
  \E m \in Nat : /\ Chain(Queue(s), t, n, m, exact)
                 /\ Piece(s.sentenceBuffer, t, m, e, exact)

(* A step hands over those up to the k-th, and the others wait.             *)
Speaks(r, t, n, e, exact) ==
  \E k \in Nat :
    /\ \/ r.calls = {} /\ k = n
       \/ \E c : r.calls = {c} /\ Piece(c.text, t, n, k, exact)
    /\ Words(r.s, t, k, e, exact)

(* What a session holds is text.                                            *)
LEMMA QueueTexts ==
  ASSUME NEW s \in Session
  PROVE  Queue(s) \in Seq(Text) /\ s.sentenceBuffer \in Text
BY DEF Queue, Session

(* A pipeline that starts speaks on where the turn stopped.                 *)
LEMMA SendsSpeaks ==
  ASSUME NEW r, NEW queue \in Seq(Text), queue # <<>>, Sends(r, queue),
         NEW t, NEW n \in Nat, NEW m \in Nat, NEW e \in Nat, NEW exact,
         Chain(queue, t, n, m, exact),
         Piece(r.s.sentenceBuffer, t, m, e, exact)
  PROVE  Speaks(r, t, n, e, exact)
<1>1. PICK k \in Nat : /\ Piece(Head(queue), t, n, k, exact)
                       /\ Chain(Tail(queue), t, k, m, exact)
  BY ChainShifts
<1>2. PICK c : r.calls = {c} /\ c.text = Head(queue)
  BY DEF Sends
<1>3. Queue(r.s) = Tail(queue)
  BY DEF Sends
<1>4. Piece(c.text, t, n, k, exact)
  BY <1>1, <1>2
<1>5. Words(r.s, t, k, e, exact)
  BY <1>1, <1>3 DEF Words
<1>. QED BY <1>2, <1>4, <1>5 DEF Speaks

(* The drain loop hands over the next piece and keeps the rest.             *)
LEMMA DrainLoopSpeaks ==
  ASSUME NEW s \in Session, NEW t \in Turns, s.alive, s.ttsTurnId = t,
         NEW r, r = IF s.textDirect THEN SpeakDrainLoop(s, t) ELSE TtsDrainLoop(s, t),
         NEW n \in Nat, NEW e \in Nat, NEW exact, Words(s, t, n, e, exact)
  PROVE  Speaks(r, t, n, e, exact)
<1>1. PICK m \in Nat : /\ Chain(Queue(s), t, n, m, exact)
                       /\ Piece(s.sentenceBuffer, t, m, e, exact)
  BY DEF Words
<1>2. /\ r.s.sentenceBuffer = s.sentenceBuffer
      /\ Queue(s) # <<>> => Sends(r, Queue(s))
      /\ Queue(s) = <<>> => r.calls = {} /\ Queue(r.s) = <<>>
  <2>1. Loops(s, r, t)
    BY DrainLoopMoves
  <2>. QED BY <2>1 DEF Gone, Loops
<1>3. CASE Queue(s) # <<>>
  BY <1>1, <1>2, <1>3, QueueTexts, SendsSpeaks
<1>4. CASE Queue(s) = <<>>
  <2>1. Words(r.s, t, n, e, exact)
    BY <1>1, <1>2, <1>4 DEF Words
  <2>. QED BY <1>2, <1>4, <2>1 DEF Speaks
<1>. QED BY <1>3, <1>4

(* A flush of the owner appends its token at the end of what it has.        *)
LEMMA FlushSpeaks ==
  ASSUME NEW s \in Session, NEW t \in Turns, NEW token \in Text,
         NEW sends \in BOOLEAN, s.alive, s.ttsTurnId = t,
         NEW r, r = FlushBuffer(s, t, token, sends),
         NEW n \in Nat, NEW e \in Nat, NEW d \in Nat, NEW exact \in BOOLEAN,
         Words(s, t, n, e, exact), Piece(token, t, e, d, exact)
  PROVE  Speaks(r, t, n, d, exact)
<1> DEFINE full == s.sentenceBuffer \o token
<1>1. PICK m \in Nat : /\ Chain(Queue(s), t, n, m, exact)
                       /\ Piece(s.sentenceBuffer, t, m, e, exact)
  BY DEF Words
<1>2. Queue(s) \in Seq(Text) /\ s.sentenceBuffer \in Text
  BY QueueTexts
<1>3. Piece(full, t, m, d, exact) /\ full \in Text
  BY <1>1, <1>2, PiecesJoin
<1> HIDE DEF full
<1>4. /\ Append(Queue(s), full) \in Seq(Text)
      /\ Append(Queue(s), full) # <<>>
      /\ Chain(Append(Queue(s), full), t, n, d, exact)
  BY <1>1, <1>2, <1>3, ChainGrows, AppendProperties
<1>5. \/ /\ r.calls = {} /\ Queue(r.s) = Queue(s)
         /\ r.s.sentenceBuffer = full
      \/ /\ r.s.sentenceBuffer = <<>>
         /\ Busy(s) => r.calls = {} /\ Queue(r.s) = Append(Queue(s), full)
         /\ ~Busy(s) => Sends(r, Append(Queue(s), full))
  <2>1. Flushes(s, r, full, sends)
    BY FlushMoves DEF full
  <2>. QED BY <2>1 DEF Flushes
<1>6. Piece(<<>>, t, d, d, exact)
  BY PieceOfNothing
<1>7. CASE r.calls = {} /\ Queue(r.s) = Queue(s) /\ r.s.sentenceBuffer = full
  <2>1. Words(r.s, t, n, d, exact)
    BY <1>1, <1>3, <1>7 DEF Words
  <2>. QED BY <1>7, <2>1 DEF Speaks
<1>8. CASE /\ r.s.sentenceBuffer = <<>>
           /\ r.calls = {} /\ Queue(r.s) = Append(Queue(s), full)
  <2>1. Words(r.s, t, n, d, exact)
    BY <1>4, <1>6, <1>8 DEF Words
  <2>. QED BY <1>8, <2>1 DEF Speaks
<1>9. CASE r.s.sentenceBuffer = <<>> /\ Sends(r, Append(Queue(s), full))
  BY <1>4, <1>6, <1>9, SendsSpeaks
<1>. QED BY <1>5, <1>7, <1>8, <1>9

(* finishAnswer of the owner hands over without a gap.                      *)
LEMMA FinishSpeaks ==
  ASSUME NEW s \in Session, NEW t \in Turns, s.alive, s.ttsTurnId = t,
         NEW r, r = FinishAnswer(s, t),
         NEW n \in Nat, NEW e \in Nat, NEW exact \in BOOLEAN,
         Words(s, t, n, e, exact)
  PROVE  Speaks(r, t, n, e, exact)
<1>1. PICK f : f = FlushBuffer(s, t, <<>>, TRUE) /\ Finishes(s, r, f, t)
               /\ f.s.sentenceBuffer = <<>>
  BY FinishMoves
<1>2. /\ Queue(r.s) = Queue(f.s) /\ r.calls = f.calls
      /\ r.s.sentenceBuffer = f.s.sentenceBuffer
  BY <1>1 DEF Finishes, Gone
<1>3. <<>> \in Text /\ Piece(<<>>, t, e, e, exact)
  BY PieceOfNothing DEF Text
<1>4. Speaks(f, t, n, e, exact)
  <2>1. \A sends \in BOOLEAN : \A g :
          g = FlushBuffer(s, t, <<>>, sends) => Speaks(g, t, n, e, exact)
    BY <1>3, FlushSpeaks
  <2>2. \A g : g = FlushBuffer(s, t, <<>>, TRUE) => Speaks(g, t, n, e, exact)
    BY <2>1
  <2>. QED BY <1>1, <2>2
<1>5. PICK k \in Nat :
        /\ \/ f.calls = {} /\ k = n
           \/ \E c : f.calls = {c} /\ Piece(c.text, t, n, k, exact)
        /\ Words(f.s, t, k, e, exact)
  BY <1>4 DEF Speaks
<1>6. Words(r.s, t, k, e, exact)
  BY <1>2, <1>5 DEF Words
<1>. QED BY <1>2, <1>5, <1>6 DEF Speaks

(* What is dropped from the queue or the buffer leaves the rest in order.   *)
Loses(s, n) ==
  /\ Queue(n) \in {Queue(s), <<>>}
  /\ n.sentenceBuffer \in {s.sentenceBuffer, <<>>}

(* A session that only loses text still has the words of its turn.          *)
LEMMA WordsLose ==
  ASSUME NEW s \in Session, NEW m, NEW t, Loses(s, m),
         NEW n \in Nat, NEW e \in Nat, Words(s, t, n, e, FALSE)
  PROVE  Words(m, t, n, e, FALSE)
<1>0. /\ Queue(m) \in {Queue(s), <<>>}
      /\ m.sentenceBuffer \in {s.sentenceBuffer, <<>>}
  BY DEF Loses
<1>1. PICK k \in Nat : /\ Chain(Queue(s), t, n, k, FALSE)
                       /\ Piece(s.sentenceBuffer, t, k, e, FALSE)
  BY DEF Words
<1>2. Queue(s) \in Seq(Text) /\ s.sentenceBuffer \in Text /\ <<>> \in Text
  BY QueueTexts DEF Text
<1>3. n <= k /\ k <= e
  <2>1. n <= k
    BY <1>1, <1>2, ChainAscends
  <2>2. k <= e
    BY <1>1 DEF Piece
  <2>. QED BY <2>1, <2>2
<1>4. Piece(m.sentenceBuffer, t, k, e, FALSE)
  <2>1. Piece(<<>>, t, e, e, FALSE)
    BY PieceOfNothing
  <2>2. Piece(<<>>, t, k, e, FALSE)
    BY <1>2, <1>3, <2>1, PieceWidens
  <2>. QED BY <1>0, <1>1, <2>2
<1>5. CASE Queue(m) = Queue(s)
  BY <1>1, <1>4, <1>5 DEF Words
<1>6. CASE Queue(m) = <<>>
  <2>1. Chain(Queue(m), t, n, n, FALSE)
    BY <1>6, ChainOfNothing
  <2>2. m.sentenceBuffer \in Text
    BY <1>0, <1>2
  <2>3. Piece(m.sentenceBuffer, t, n, e, FALSE)
    BY <1>3, <1>4, <2>2, PieceWidens
  <2>. QED BY <2>1, <2>3 DEF Words
<1>. QED BY <1>0, <1>5, <1>6

-----------------------------------------------------------------------------
(* What a pipeline step of t does to the words of the session.              *)

(* The words of t go on, those it emitted up to e before and up to d after; *)
(* of the words of another turn some may be lost.                           *)
Conveys(s, r, t, e, d, exact) ==
  s.alive /\ s.ttsTurnId = t
    => \A n \in Nat : Words(s, t, n, e, exact) => Speaks(r, t, n, d, exact)

Spares(s, r, t) == s.alive /\ s.ttsTurnId # t => Loses(s, r.s)

(* The writes of a turn that lost the session only lose text.               *)
LEMMA DropLoses ==
  ASSUME NEW s \in Session
  PROVE  /\ Loses(s, s)
         /\ Loses(s, Update(s, [s EXCEPT !.sentenceBuffer = <<>>]))
         /\ Loses(s, Update(s, [s EXCEPT !.ttsProcessing = FALSE]))
         /\ Loses(s, Update(s, [s EXCEPT !.speakProcessing = FALSE]))
         /\ Loses(s, Update(s, [s EXCEPT !.ttsQueue = <<>>]))
BY DEF Loses, Update, Session, Queue

(* flushBuffer conveys the token to its own turn and spares others.         *)
LEMMA FlushWords ==
  ASSUME NEW s \in Session, NEW t \in Turns, NEW e \in Nat,
         NEW sends \in BOOLEAN, NEW exact \in BOOLEAN,
         <<<<t, e + 1>>>> \in Text,
         NEW r, r = FlushBuffer(s, t, <<<<t, e + 1>>>>, sends)
  PROVE  Conveys(s, r, t, e, e + 1, exact) /\ Spares(s, r, t)
<1>1. Piece(<<<<t, e + 1>>>>, t, e, e + 1, exact)
  BY PieceOfToken
<1>2. Conveys(s, r, t, e, e + 1, exact)
  BY <1>1, FlushSpeaks DEF Conveys
<1>3. s.ttsTurnId # t => r = Yield(s)
  BY FlushOther
<1>4. s.ttsTurnId # t => r.s = s
  BY <1>3 DEF Yield
<1>. QED BY <1>2, <1>4, DropLoses DEF Spares

(* finishAnswer conveys nothing new, and spares others.                     *)
LEMMA FinishWords ==
  ASSUME NEW s \in Session, NEW t \in Turns, NEW e \in Nat,
         NEW exact \in BOOLEAN, NEW r, r = FinishAnswer(s, t)
  PROVE  Conveys(s, r, t, e, e, exact) /\ Spares(s, r, t)
<1>2. Conveys(s, r, t, e, e, exact)
  BY FinishSpeaks DEF Conveys
<1>3. s.ttsTurnId # t
        => r = Yield(Update(s, [s EXCEPT !.sentenceBuffer = <<>>]))
  BY FinishOther
<1>4. s.ttsTurnId # t => r.s = Update(s, [s EXCEPT !.sentenceBuffer = <<>>])
  BY <1>3 DEF Yield
<1>. QED BY <1>2, <1>4, DropLoses DEF Spares

(* Neither does a round of the drain loop.                                  *)
LEMMA DrainLoopWords ==
  ASSUME NEW s \in Session, NEW t \in Turns, NEW e \in Nat,
         NEW exact \in BOOLEAN,
         NEW r, r = IF s.textDirect THEN SpeakDrainLoop(s, t) ELSE TtsDrainLoop(s, t)
  PROVE  Conveys(s, r, t, e, e, exact) /\ Spares(s, r, t)
<1>2. Conveys(s, r, t, e, e, exact)
  BY DrainLoopSpeaks DEF Conveys
<1>3. s.ttsTurnId # t
        => \/ r = Yield(Update(s, [s EXCEPT !.ttsProcessing = FALSE]))
           \/ r = Yield(Update(s, [s EXCEPT !.speakProcessing = FALSE]))
  BY DrainLoopOther
<1>4. s.ttsTurnId # t
        => \/ r.s = Update(s, [s EXCEPT !.ttsProcessing = FALSE])
           \/ r.s = Update(s, [s EXCEPT !.speakProcessing = FALSE])
  <2>1. \A n : Yield(n).s = n
    BY DEF Yield
  <2>. QED BY <1>3, <2>1
<1>. QED BY <1>2, <1>4, DropLoses DEF Spares

(* A step that starts no call conveys what the session has not lost.        *)
LEMMA YieldSpeaks ==
  ASSUME NEW s \in Session, NEW n, Loses(s, n), NEW t, NEW e \in Nat
  PROVE  /\ Conveys(s, Yield(n), t, e, e, FALSE)
         /\ Queue(n) = Queue(s) /\ n.sentenceBuffer = s.sentenceBuffer
              => Conveys(s, Yield(n), t, e, e, TRUE)
<1>1. Yield(n).s = n /\ Yield(n).calls = {}
  BY DEF Yield
<1>2. ASSUME NEW k \in Nat, Words(s, t, k, e, FALSE)
      PROVE  Words(n, t, k, e, FALSE)
  BY <1>2, WordsLose
<1>3. ASSUME NEW k \in Nat, Words(s, t, k, e, TRUE),
             Queue(n) = Queue(s), n.sentenceBuffer = s.sentenceBuffer
      PROVE  Words(n, t, k, e, TRUE)
  BY <1>3 DEF Words
<1>4. Conveys(s, Yield(n), t, e, e, FALSE)
  BY <1>1, <1>2 DEF Conveys, Speaks
<1>5. Queue(n) = Queue(s) /\ n.sentenceBuffer = s.sentenceBuffer
              => Conveys(s, Yield(n), t, e, e, TRUE)
  BY <1>1, <1>3 DEF Conveys, Speaks
<1>. QED BY <1>4, <1>5

(* After a rejected synthesis words may be missing, never misplaced.        *)
LEMMA RejectWords ==
  ASSUME NEW s \in Session, NEW t \in Turns, NEW e \in Nat, ~s.textDirect,
         NEW r, r = Yield(TtsDrainEnd(Update(s, [s EXCEPT !.ttsQueue = <<>>]), t))
  PROVE  Conveys(s, r, t, e, e, FALSE) /\ Spares(s, r, t)
<1>1. PICK m : m = Update(s, [s EXCEPT !.ttsQueue = <<>>])
  OBVIOUS
<1>2. PICK n : n = TtsDrainEnd(m, t)
  OBVIOUS
<1>3. r = Yield(n)
  BY <1>1, <1>2
<1>4. r.s = n
  BY <1>3 DEF Yield
<1>5. CASE s.alive /\ s.ttsTurnId = t
  <2>1. Loses(s, n)
    BY <1>1, <1>2, <1>5, RejectMoves DEF Loses, Rejects
  <2>. QED BY <1>3, <1>5, <2>1, YieldSpeaks DEF Spares
<1>6. CASE s.alive /\ s.ttsTurnId # t
  <2>1. n = Update(m, [m EXCEPT !.ttsProcessing = FALSE])
    BY <1>1, <1>2, <1>6, RejectOther
  <2>2. m \in Session /\ Loses(s, m)
    <3>1. <<>> \in Seq(Text)
      OBVIOUS
    <3>2. m = [s EXCEPT !.ttsQueue = <<>>]
      BY <1>1, <1>6 DEF Update
    <3>. QED BY <3>1, <3>2, <1>1, DropLoses DEF Session
  <2>3. Loses(m, n)
    BY <2>1, <2>2, DropLoses
  <2>. QED BY <1>4, <1>6, <2>2, <2>3 DEF Loses, Spares, Conveys
<1>7. CASE ~s.alive
  BY <1>7 DEF Conveys, Spares
<1>. QED BY <1>5, <1>6, <1>7

(* The end of a speak run loses nothing.                                    *)
LEMMA SpeakEndWords ==
  ASSUME NEW s \in Session, NEW t \in Turns, NEW e \in Nat, s.textDirect,
         NEW exact \in BOOLEAN,
         NEW r, r = Yield(SpeakDrainEnd(s, t))
  PROVE  Conveys(s, r, t, e, e, exact) /\ Spares(s, r, t)
<1>1. PICK n : n = SpeakDrainEnd(s, t)
  OBVIOUS
<1>2. r = Yield(n)
  BY <1>1
<1>3. r.s = n
  BY <1>2 DEF Yield
<1>4. CASE s.alive /\ s.ttsTurnId = t
  <2>1. Queue(n) = Queue(s) /\ n.sentenceBuffer = s.sentenceBuffer
    BY <1>1, <1>4, DrainEndMoves DEF DrainEnds
  <2>2. Loses(s, n)
    BY <2>1 DEF Loses
  <2>3. Conveys(s, Yield(n), t, e, e, FALSE) /\ Conveys(s, Yield(n), t, e, e, TRUE)
    BY <2>1, <2>2, YieldSpeaks
  <2>4. \A b \in BOOLEAN : Conveys(s, Yield(n), t, e, e, b)
    BY <2>3
  <2>. QED BY <1>2, <1>4, <2>4 DEF Spares
<1>5. CASE s.alive /\ s.ttsTurnId # t
  <2>1. PICK m : m = Update(s, [s EXCEPT !.speakProcessing = FALSE])
    OBVIOUS
  <2>2. n = SpeakCompleteTurn(m, t)
    BY <1>1, <2>1 DEF SpeakDrainEnd
  <2>3. m.ttsTurnId # t
    BY <1>5, <2>1 DEF Update, Session
  <2>4. n = m
    BY <2>2, <2>3 DEF SpeakCompleteTurn
  <2>. QED BY <1>3, <1>5, <2>1, <2>4, DropLoses DEF Spares, Conveys
<1>6. CASE ~s.alive
  BY <1>6 DEF Conveys, Spares
<1>. QED BY <1>4, <1>5, <1>6

-----------------------------------------------------------------------------
(* What every turn has said, and has still to say.                          *)

(* What t handed over is its answer up to the n-th token; while it owns the *)
(* session the rest is in the queue and in the buffer.                      *)
Said(t, exact) ==
  \E n \in Nat :
    /\ Piece(spoken[t], t, 0, n, exact)
    /\ session.alive /\ session.ttsTurnId = t
         => Words(session, t, n, emitted[t], exact)

(* Before its run a turn has nothing to say. *)
Quiet(t) == emitted[t] = 0 /\ spoken[t] = <<>>

WordsInv ==
  \A t \in Turns : /\ Said(t, FALSE)
                   /\ ~Begun(t) => Quiet(t)

(* What a pipeline step's calls add to the words handed to the provider.    *)
LEMMA AppliesSpoken ==
  ASSUME TypeInv, NEW t \in Turns, NEW r, Effect(session, r, t),
         NEW A, NEW B, Applies(r, A, B)
  PROVE  /\ \A u \in Turns \ {t} : spoken'[u] = spoken[u]
         /\ r.calls = {} => spoken' = spoken
         /\ \A c : r.calls = {c}
              => spoken'[t] = spoken[t] \o c.text /\ c.text \in Text
<1>1. \A c \in r.calls : c.turn = t /\ c.text \in Text
  BY DEF Effect, Call, Speech
<1>2. spoken \in [Turns -> Text]
  BY DEF TypeInv, TypeOK
<1>3. \A u \in Turns \ {t} : spoken'[u] = spoken[u]
  BY <1>1 DEF Applies
<1>4. r.calls = {} => spoken' = spoken
  BY <1>2 DEF Applies
<1>5. ASSUME NEW c, r.calls = {c}
      PROVE  spoken'[t] = spoken[t] \o c.text /\ c.text \in Text
  <2>1. c.turn = t /\ c.text \in Text
    BY <1>1, <1>5
  <2>2. (CHOOSE d \in r.calls : d.turn = t) = c
    BY <1>5, <2>1
  <2>3. spoken'[t] = IF \E d \in r.calls : d.turn = t
                     THEN spoken[t] \o (CHOOSE d \in r.calls : d.turn = t).text
                     ELSE spoken[t]
    BY DEF Applies
  <2>. QED BY <1>5, <2>1, <2>2, <2>3
<1>. QED BY <1>3, <1>4, <1>5

(* The owner's step: what it hands over joins what was said, and the rest   *)
(* goes on waiting.                                                         *)
LEMMA OwnerSaid ==
  ASSUME TypeInv, NEW t \in Turns, NEW r, Effect(session, r, t),
         NEW A, NEW B, Applies(r, A, B),
         session.alive, session.ttsTurnId = t,
         NEW exact \in BOOLEAN, Said(t, exact),
         Conveys(session, r, t, emitted[t], emitted'[t], exact)
  PROVE  \E k \in Nat : /\ Piece(spoken'[t], t, 0, k, exact)
                        /\ Words(r.s, t, k, emitted'[t], exact)
<1>0. spoken[t] \in Text
  BY DEF TypeInv, TypeOK
<1>1. PICK n \in Nat : /\ Piece(spoken[t], t, 0, n, exact)
                       /\ Words(session, t, n, emitted[t], exact)
  BY DEF Said
<1>2. Speaks(r, t, n, emitted'[t], exact)
  BY <1>1 DEF Conveys
<1>3. PICK k \in Nat :
        /\ \/ r.calls = {} /\ k = n
           \/ \E c : r.calls = {c} /\ Piece(c.text, t, n, k, exact)
        /\ Words(r.s, t, k, emitted'[t], exact)
  BY <1>2 DEF Speaks
<1>4. Piece(spoken'[t], t, 0, k, exact)
  <2>1. CASE r.calls = {} /\ k = n
    BY <1>1, <2>1, AppliesSpoken
  <2>2. CASE \E c : r.calls = {c} /\ Piece(c.text, t, n, k, exact)
    <3>1. PICK c : r.calls = {c} /\ Piece(c.text, t, n, k, exact)
      BY <2>2
    <3>2. spoken'[t] = spoken[t] \o c.text /\ c.text \in Text
      BY <3>1, AppliesSpoken
    <3>3. Piece(spoken[t] \o c.text, t, 0, k, exact)
      BY <1>0, <1>1, <3>1, <3>2, PiecesJoin
    <3>. QED BY <3>2, <3>3
  <2>. QED BY <1>3, <2>1, <2>2
<1>. QED BY <1>3, <1>4

(* A pipeline step of t keeps what was said of u. *)
LEMMA SaidStep ==
  ASSUME TypeInv, NEW t \in Turns, NEW r, Effect(session, r, t),
         NEW A, NEW B, Applies(r, A, B),
         NEW u \in Turns, NEW exact \in BOOLEAN, Said(u, exact),
         emitted'[u] \in Nat,
         u = t => Conveys(session, r, t, emitted[t], emitted'[t], exact),
         u # t => emitted'[u] = emitted[u],
         Spares(session, r, t),
         exact /\ session.alive /\ session.ttsTurnId = u /\ u # t
           => /\ Queue(r.s) = Queue(session)
              /\ r.s.sentenceBuffer = session.sentenceBuffer
  PROVE  Said(u, exact)'
<1>0. /\ session' = r.s /\ session \in Session /\ spoken[u] \in Text
      /\ emitted[u] \in Nat
  BY BoundAssumption DEF Applies, TypeInv, TypeOK
<1>1. PICK n \in Nat :
        /\ Piece(spoken[u], u, 0, n, exact)
        /\ session.alive /\ session.ttsTurnId = u
             => Words(session, u, n, emitted[u], exact)
  BY DEF Said
<1>2. CASE u = t /\ session.alive /\ session.ttsTurnId = t
  <2>1. \E k \in Nat : /\ Piece(spoken'[t], t, 0, k, exact)
                       /\ Words(r.s, t, k, emitted'[t], exact)
    BY <1>2, OwnerSaid
  <2>. QED BY <1>0, <1>2, <2>1 DEF Said
<1>3. CASE u = t /\ ~(session.alive /\ session.ttsTurnId = t)
  <2>1. r.calls = {} /\ ~(r.s.alive /\ r.s.ttsTurnId = t)
    BY <1>3 DEF Effect
  <2>2. spoken' = spoken
    BY <2>1, AppliesSpoken
  <2>. QED BY <1>0, <1>1, <1>3, <2>1, <2>2 DEF Said
<1>4. CASE u # t
  <2>1. spoken'[u] = spoken[u]
    BY <1>4, AppliesSpoken
  <2>2. ASSUME r.s.alive, r.s.ttsTurnId = u
        PROVE  Words(r.s, u, n, emitted[u], exact)
    <3>1. session.alive /\ session.ttsTurnId = u
      BY <1>4, <2>2, TurnsAssumption DEF Effect
    <3>2. Words(session, u, n, emitted[u], exact) /\ Loses(session, r.s)
      BY <1>1, <1>4, <3>1 DEF Spares
    <3>3. CASE exact
      BY <1>4, <3>1, <3>2, <3>3 DEF Words
    <3>4. CASE ~exact
      <4>1. Words(session, u, n, emitted[u], FALSE)
        BY <3>2, <3>4
      <4>2. Words(r.s, u, n, emitted[u], FALSE)
        BY <1>0, <3>2, <4>1, WordsLose
      <4>. QED BY <3>4, <4>2
    <3>. QED BY <3>3, <3>4
  <2>. QED BY <1>0, <1>1, <1>4, <2>1, <2>2 DEF Said
<1>. QED BY <1>2, <1>3, <1>4

(* initTurn empties buffer and queue: the new turn has said nothing, and    *)
(* what others have said stays said.                                        *)
LEMMA BeginTurnSaid ==
  ASSUME TypeInv, NEW t \in Turns, BeginTurn(t), UNCHANGED <<emitted, spoken>>,
         NEW u \in Turns, NEW exact \in BOOLEAN,
         u = t => Quiet(t), u # t => Said(u, exact),
         ~session.alive => Said(u, exact)
  PROVE  Said(u, exact)'
<1>0. session' = InitTurn(session, t)
  BY DEF BeginTurn
<1>1. CASE ~session.alive
  <2>1. session' = session
    BY <1>0, <1>1 DEF InitTurn, Update
  <2>. QED BY <1>1, <2>1 DEF Said
<1>2. CASE session.alive
  <2>1. /\ session'.ttsTurnId = t
        /\ Queue(session') = <<>> /\ session'.sentenceBuffer = <<>>
    BY <1>0, <1>2 DEF InitTurn, Update, TypeInv, TypeOK, Session, Queue
  <2>2. CASE u = t
    <3>1. Piece(<<>>, t, 0, 0, exact) /\ Chain(<<>>, t, 0, 0, exact)
      BY PieceOfNothing, ChainOfNothing
    <3>2. Words(session', t, 0, 0, exact)
      BY <2>1, <3>1 DEF Words
    <3>. QED BY <2>2, <3>1, <3>2 DEF Said, Quiet
  <2>3. CASE u # t
    BY <2>1, <2>3 DEF Said
  <2>. QED BY <2>2, <2>3
<1>. QED BY <1>1, <1>2

(* The pipeline steps of the actions, with what they do to the words.       *)

Pipes(t, r, A, B) ==
  /\ Begun(t)
  /\ Effect(session, r, t)
  /\ Applies(r, A, B)
  /\ Spares(session, r, t)
  /\ A \subseteq synth /\ B \subseteq speaking

(* Each action that runs the pipeline, as a step of it: a token,            *)
LEMMA TokenPipes ==
  ASSUME SafeInv, NEW t \in Turns, NEW b \in BOOLEAN, Token(t, b),
         NEW exact \in BOOLEAN
  PROVE  \E r : /\ r = FlushBuffer(session, t, <<<<t, emitted[t] + 1>>>>, b)
                /\ Pipes(t, r, synth, speaking)
                /\ <<<<t, emitted[t] + 1>>>> \in Text
                /\ emitted'[t] = emitted[t] + 1
                /\ Conveys(session, r, t, emitted[t], emitted'[t], exact)
                /\ \A u \in Turns \ {t} : emitted'[u] = emitted[u]
                /\ \A u \in Turns : emitted'[u] \in Nat
<1>1. PICK r : r = FlushBuffer(session, t, <<<<t, emitted[t] + 1>>>>, b)
  OBVIOUS
<1>2. /\ Begun(t) /\ emitted[t] < MaxTokens /\ session \in Session
      /\ emitted \in [Turns -> 0 .. MaxTokens]
  BY DEF Token, Begun, SafeInv, TypeInv, TypeOK
<1>3. Effect(session, r, t) /\ emitted[t] + 1 \in 1 .. MaxTokens
  BY <1>1, <1>2, TokenEffect DEF SafeInv, TypeInv
<1>4. Applies(r, synth, speaking)
  BY <1>1 DEF Token
<1>5. /\ emitted'[t] = emitted[t] + 1
      /\ \A u \in Turns \ {t} : emitted'[u] = emitted[u]
      /\ \A u \in Turns : emitted'[u] \in Nat
  BY <1>2, BoundAssumption DEF Token
<1>6. <<<<t, emitted[t] + 1>>>> \in Text /\ emitted[t] \in Nat
  <2>1. <<t, emitted[t] + 1>> \in Tokens
    BY <1>3 DEF Tokens
  <2>. QED BY <2>1, <1>2, BoundAssumption DEF Text
<1>7. /\ Conveys(session, r, t, emitted[t], emitted[t] + 1, exact)
      /\ Spares(session, r, t)
  BY <1>1, <1>2, <1>6, FlushWords
<1>. QED BY <1>1, <1>2, <1>3, <1>4, <1>5, <1>6, <1>7 DEF Pipes

(* ... the end of the agent,                                                *)
LEMMA LeavesPipes ==
  ASSUME SafeInv, NEW t \in Turns, NEW status, phase[t] = "running",
         AgentLeaves(t, status), NEW exact \in BOOLEAN
  PROVE  \E r : /\ r = FinishAnswer(session, t)
                /\ Pipes(t, r, synth, speaking)
                /\ Conveys(session, r, t, emitted[t], emitted[t], exact)
<1>1. PICK r : r = FinishAnswer(session, t)
  OBVIOUS
<1>2. Begun(t) /\ session \in Session /\ emitted[t] \in Nat
  BY BoundAssumption DEF Begun, SafeInv, TypeInv, TypeOK
<1>3. Effect(session, r, t) /\ Applies(r, synth, speaking)
  BY <1>1, <1>2, FinishEffect DEF AgentLeaves
<1>4. Conveys(session, r, t, emitted[t], emitted[t], exact)
      /\ Spares(session, r, t)
  BY <1>1, <1>2, FinishWords
<1>. QED BY <1>1, <1>2, <1>3, <1>4 DEF Pipes

(* ... a synthesis that returns,                                            *)
LEMMA ReturnsPipes ==
  ASSUME SafeInv, NEW c \in synth, TtsReturns(c), NEW exact \in BOOLEAN
  PROVE  /\ c.turn \in Turns /\ ~session.textDirect
         /\ \E r : /\ r = TtsDrainLoop(session, c.turn)
                   /\ Pipes(c.turn, r, synth \ {c}, speaking)
                   /\ Conveys(session, r, c.turn, emitted[c.turn],
                              emitted[c.turn], exact)
<1>1. PICK r : r = TtsDrainLoop(session, c.turn)
  OBVIOUS
<1>2. /\ c.turn \in Turns /\ Begun(c.turn) /\ ~session.textDirect
      /\ session \in Session /\ emitted[c.turn] \in Nat
  BY BoundAssumption
     DEF SafeInv, SignalInv, TypeInv, TypeOK, ModesApart, Begun
<1>3. Effect(session, r, c.turn) /\ Applies(r, synth \ {c}, speaking)
  BY <1>1, <1>2, TtsDrainLoopEffect DEF TtsReturns
<1>4. /\ Conveys(session, r, c.turn, emitted[c.turn], emitted[c.turn], exact)
      /\ Spares(session, r, c.turn)
  BY <1>1, <1>2, DrainLoopWords
<1>. QED BY <1>1, <1>2, <1>3, <1>4 DEF Pipes

(* ... a synthesis that rejects,                                            *)
LEMMA RejectsPipes ==
  ASSUME SafeInv, NEW c \in synth, TtsRejects(c)
  PROVE  /\ c.turn \in Turns /\ ~session.textDirect
         /\ \E r : /\ r = Yield(TtsDrainEnd(Update(session,
                            [session EXCEPT !.ttsQueue = <<>>]), c.turn))
                   /\ Pipes(c.turn, r, synth \ {c}, speaking)
                   /\ Conveys(session, r, c.turn, emitted[c.turn],
                              emitted[c.turn], FALSE)
<1>1. PICK r : r = Yield(TtsDrainEnd(Update(session,
                            [session EXCEPT !.ttsQueue = <<>>]), c.turn))
  OBVIOUS
<1>2. /\ c.turn \in Turns /\ Begun(c.turn) /\ ~session.textDirect
      /\ session \in Session /\ emitted[c.turn] \in Nat
  BY BoundAssumption
     DEF SafeInv, SignalInv, TypeInv, TypeOK, ModesApart, Begun
<1>3. Effect(session, r, c.turn) /\ Applies(r, synth \ {c}, speaking)
  BY <1>1, <1>2, RejectEffect DEF TtsRejects
<1>4. /\ Conveys(session, r, c.turn, emitted[c.turn], emitted[c.turn], FALSE)
      /\ Spares(session, r, c.turn)
  BY <1>1, <1>2, RejectWords
<1>. QED BY <1>1, <1>2, <1>3, <1>4 DEF Pipes

(* ... a speak call that returns,                                           *)
LEMMA SpeakReturnsPipes ==
  ASSUME SafeInv, NEW c \in speaking, SpeakReturns(c), NEW exact \in BOOLEAN
  PROVE  /\ c.turn \in Turns /\ session.textDirect
         /\ \E r : /\ r = SpeakDrainLoop(session, c.turn)
                   /\ Pipes(c.turn, r, synth, speaking \ {c})
                   /\ Conveys(session, r, c.turn, emitted[c.turn],
                              emitted[c.turn], exact)
<1>1. PICK r : r = SpeakDrainLoop(session, c.turn)
  OBVIOUS
<1>2. /\ c.turn \in Turns /\ Begun(c.turn) /\ session.textDirect
      /\ session \in Session /\ emitted[c.turn] \in Nat
  BY BoundAssumption
     DEF SafeInv, SignalInv, TypeInv, TypeOK, ModesApart, Begun, Session
<1>3. Effect(session, r, c.turn) /\ Applies(r, synth, speaking \ {c})
  BY <1>1, <1>2, SpeakDrainLoopEffect DEF SpeakReturns
<1>4. /\ Conveys(session, r, c.turn, emitted[c.turn], emitted[c.turn], exact)
      /\ Spares(session, r, c.turn)
  BY <1>1, <1>2, DrainLoopWords
<1>. QED BY <1>1, <1>2, <1>3, <1>4 DEF Pipes

(* ... and one that fails.                                                  *)
LEMMA SpeakFailsPipes ==
  ASSUME SafeInv, NEW c \in speaking, SpeakFails(c), NEW exact \in BOOLEAN
  PROVE  /\ c.turn \in Turns /\ session.textDirect
         /\ \E r : /\ r = Yield(SpeakDrainEnd(session, c.turn))
                   /\ Pipes(c.turn, r, synth, speaking \ {c})
                   /\ Conveys(session, r, c.turn, emitted[c.turn],
                              emitted[c.turn], exact)
<1>1. PICK r : r = Yield(SpeakDrainEnd(session, c.turn))
  OBVIOUS
<1>2. /\ c.turn \in Turns /\ Begun(c.turn) /\ session.textDirect
      /\ session \in Session /\ emitted[c.turn] \in Nat
  BY BoundAssumption
     DEF SafeInv, SignalInv, TypeInv, TypeOK, ModesApart, Begun, Session
<1>3. Effect(session, r, c.turn) /\ Applies(r, synth, speaking \ {c})
  BY <1>1, <1>2, SpeakDrainEndCalm, CalmEffect DEF SpeakFails
<1>4. /\ Conveys(session, r, c.turn, emitted[c.turn], emitted[c.turn], exact)
      /\ Spares(session, r, c.turn)
  BY <1>1, <1>2, SpeakEndWords
<1>. QED BY <1>1, <1>2, <1>3, <1>4 DEF Pipes

(* A step of the pipeline keeps every turn to its own words.                *)
LEMMA PipesWords ==
  ASSUME SafeInv, WordsInv, NEW t \in Turns, NEW r, NEW A, NEW B,
         Pipes(t, r, A, B),
         Conveys(session, r, t, emitted[t], emitted'[t], FALSE),
         \A u \in Turns \ {t} : emitted'[u] = emitted[u],
         \A u \in Turns : emitted'[u] \in Nat /\ (Begun(u) => Begun(u)')
  PROVE  WordsInv'
<1>1. ASSUME NEW u \in Turns
      PROVE  Said(u, FALSE)'
  BY <1>1, SaidStep DEF WordsInv, SafeInv, Pipes
<1>2. ASSUME NEW u \in Turns, ~Begun(u)'
      PROVE  Quiet(u)'
  <2>1. u # t /\ ~Begun(u)
    BY <1>2 DEF Pipes
  <2>2. spoken'[u] = spoken[u]
    BY <2>1, AppliesSpoken DEF SafeInv, Pipes
  <2>. QED BY <2>1, <2>2 DEF WordsInv, Quiet
<1>. QED BY <1>1, <1>2 DEF WordsInv

(* A step beside the pipeline that gives the session to no other turn.      *)
LEMMA AsideWords ==
  ASSUME SafeInv, WordsInv, UNCHANGED <<emitted, spoken>>,
         session'.alive => session.alive,
         session'.ttsTurnId \in {session.ttsTurnId, NoTurn},
         session'.ttsTurnId = session.ttsTurnId => Loses(session, session'),
         \A u \in Turns : Begun(u) => Begun(u)'
  PROVE  WordsInv'
<1>1. ASSUME NEW u \in Turns
      PROVE  Said(u, FALSE)'
  <2>1. PICK n \in Nat :
          /\ Piece(spoken[u], u, 0, n, FALSE)
          /\ session.alive /\ session.ttsTurnId = u
               => Words(session, u, n, emitted[u], FALSE)
    BY DEF WordsInv, Said
  <2>2. session \in Session /\ emitted[u] \in Nat
    BY BoundAssumption DEF SafeInv, TypeInv, TypeOK
  <2>3. ASSUME session'.alive, session'.ttsTurnId = u
        PROVE  Words(session', u, n, emitted[u], FALSE)
    <3>1. session.alive /\ session.ttsTurnId = u /\ Loses(session, session')
      BY <2>3, TurnsAssumption
    <3>. QED BY <2>1, <2>2, <3>1, WordsLose
  <2>. QED BY <2>1, <2>3 DEF Said
<1>2. ASSUME NEW u \in Turns, ~Begun(u)'
      PROVE  Quiet(u)'
  BY <1>2 DEF WordsInv, Quiet
<1>. QED BY <1>1, <1>2 DEF WordsInv

(* The invariant holds when the session is opened.                          *)
LEMMA WordsInit == Init => WordsInv
<1>. SUFFICES ASSUME Init
              PROVE  WordsInv
  OBVIOUS
<1>1. ASSUME NEW t \in Turns
      PROVE  Quiet(t) /\ Said(t, FALSE)
  <2>1. spoken[t] = <<>> /\ emitted[t] = 0 /\ session.ttsTurnId # t
    BY TurnsAssumption DEF Init
  <2>2. Piece(<<>>, t, 0, 0, FALSE)
    BY PieceOfNothing
  <2>3. Piece(spoken[t], t, 0, 0, FALSE)
    BY <2>1, <2>2
  <2>4. Said(t, FALSE)
    <3>1. 0 \in Nat /\ ~(session.alive /\ session.ttsTurnId = t)
      BY <2>1
    <3>. QED BY <2>3, <3>1, Zenon DEF Said
  <2>. QED BY <2>1, <2>4 DEF Quiet
<1>. QED BY <1>1 DEF WordsInv

(* Every step keeps it.                                                     *)
LEMMA WordsStep == SafeInv /\ WordsInv /\ [Next]_vars => WordsInv'
<1>. SUFFICES ASSUME SafeInv, WordsInv, [Next]_vars
              PROVE  WordsInv'
  OBVIOUS
<1>0. /\ session \in Session /\ phase \in [Turns -> Phase]
      /\ emitted \in [Turns -> 0 .. MaxTokens]
      /\ \A u \in Turns : emitted[u] \in Nat
      /\ Loses(session, session)
  <2>1. session \in Session /\ emitted \in [Turns -> 0 .. MaxTokens]
        /\ phase \in [Turns -> Phase]
    BY DEF SafeInv, TypeInv, TypeOK
  <2>2. \A u \in Turns : emitted[u] \in Nat
    BY <2>1, BoundAssumption
  <2>3. Loses(session, session)
    BY <2>1, DropLoses
  <2>. QED BY <2>1, <2>2, <2>3
<1>1. ASSUME NEW t \in Turns, TextInput(t) \/ AsrHears(t)
      PROVE  WordsInv'
  <2>1. /\ BeginTurn(t) /\ UNCHANGED <<emitted, spoken>>
        /\ phase[t] \in {"idle", "asr"} /\ ~Begun(t)
    BY <1>1 DEF TextInput, AsrHears, history, Begun
  <2>2. \A u \in Turns : Said(u, FALSE)'
    BY <2>1, BeginTurnSaid DEF WordsInv, SafeInv
  <2>3. \A u \in Turns : ~Begun(u)' => ~Begun(u)
    BY <1>0, <2>1 DEF BeginTurn, Begun
  <2>4. \A u \in Turns : ~Begun(u)' => Quiet(u)'
    BY <2>1, <2>3 DEF WordsInv, Quiet
  <2>. QED BY <2>2, <2>4 DEF WordsInv
<1>2. ASSUME NEW t \in Turns,
             \/ AudioInput(t) \/ AsrRefuses(t) \/ TurnStartFails(t)
             \/ TurnEnded(t)
      PROVE  WordsInv'
  <2>1. /\ UNCHANGED <<session, emitted, spoken>>
        /\ \A u \in Turns : Begun(u) => Begun(u)'
    BY <1>0, <1>2 DEF AudioInput, AsrRefuses, TurnStartFails, TurnEnded, Begun,
                      history
  <2>. QED BY <1>0, <2>1, AsideWords
<1>3. ASSUME NEW t \in Turns, TurnStarted(t)
      PROVE  WordsInv'
  <2>1. /\ UNCHANGED <<emitted, spoken>>
        /\ \A u \in Turns : Begun(u) => Begun(u)'
    BY <1>0, <1>3 DEF TurnStarted, Begun, history
  <2>2. /\ session'.alive = session.alive
        /\ session'.ttsTurnId = session.ttsTurnId
        /\ Loses(session, session')
    BY <1>0, <1>3 DEF TurnStarted, Update, Session, Loses, Queue
  <2>. QED BY <2>1, <2>2, AsideWords
<1>4. ASSUME NEW t \in Turns, NEW b \in BOOLEAN, Token(t, b)
      PROVE  WordsInv'
  <2>1. \A u \in Turns : Begun(u) => Begun(u)'
    BY <1>4 DEF Token, Begun
  <2>. QED BY <1>4, <2>1, TokenPipes, PipesWords
<1>5. ASSUME NEW t \in Turns, NEW status, phase[t] = "running",
             AgentLeaves(t, status)
      PROVE  WordsInv'
  <2>1. /\ \A u \in Turns : Begun(u) => Begun(u)'
        /\ emitted' = emitted
    BY <1>0, <1>5 DEF AgentLeaves, Begun
  <2>. QED BY <1>0, <1>5, <2>1, LeavesPipes, PipesWords
<1>6. ASSUME NEW t \in Turns,
             \/ \E status \in Outcome \ {"none"} : AgentSettles(t, status)
             \/ AgentAborted(t)
      PROVE  WordsInv'
  BY <1>5, <1>6 DEF AgentSettles, AgentAborted
<1>7. ASSUME NEW c \in synth, TtsReturns(c) \/ TtsFails(c) \/ TtsAborted(c)
      PROVE  WordsInv'
  <2>1. /\ \A u \in Turns : Begun(u) => Begun(u)'
        /\ emitted' = emitted
    BY <1>7 DEF TtsReturns, TtsFails, TtsAborted, Begun
  <2>2. CASE TtsReturns(c)
    BY <1>0, <2>1, <2>2, ReturnsPipes, PipesWords
  <2>3. CASE TtsRejects(c)
    BY <1>0, <2>1, <2>3, RejectsPipes, PipesWords
  <2>. QED BY <1>7, <2>2, <2>3 DEF TtsFails, TtsAborted
<1>8. ASSUME NEW c \in speaking, SpeakReturns(c) \/ SpeakFails(c)
      PROVE  WordsInv'
  <2>1. /\ \A u \in Turns : Begun(u) => Begun(u)'
        /\ emitted' = emitted
    BY <1>8 DEF SpeakReturns, SpeakFails, Begun
  <2>2. CASE SpeakReturns(c)
    BY <1>0, <2>1, <2>2, SpeakReturnsPipes, PipesWords
  <2>3. CASE SpeakFails(c)
    BY <1>0, <2>1, <2>3, SpeakFailsPipes, PipesWords
  <2>. QED BY <1>8, <2>2, <2>3
<1>9. ASSUME Interrupt
      PROVE  WordsInv'
  <2>1. /\ UNCHANGED <<emitted, spoken, phase>>
        /\ session'.alive = session.alive /\ session'.ttsTurnId = NoTurn
        /\ Loses(session, session')
    BY <1>0, <1>9 DEF Interrupt, Session, Loses, Queue
  <2>2. \A u \in Turns : Begun(u) => Begun(u)'
    BY <2>1 DEF Begun
  <2>. QED BY <2>1, <2>2, AsideWords
<1>10. ASSUME Disconnect
       PROVE  WordsInv'
  <2>1. /\ UNCHANGED <<emitted, spoken, phase>>
        /\ ~session'.alive /\ session'.ttsTurnId = session.ttsTurnId
        /\ Loses(session, session')
    BY <1>0, <1>10 DEF Disconnect, Session, Loses, Queue, history
  <2>2. \A u \in Turns : Begun(u) => Begun(u)'
    BY <2>1 DEF Begun
  <2>. QED BY <2>1, <2>2, AsideWords
<1>11. ASSUME UNCHANGED vars
       PROVE  WordsInv'
  <2>1. UNCHANGED <<session, emitted, spoken, phase>>
    BY <1>11 DEF vars
  <2>2. \A u \in Turns : Begun(u) => Begun(u)'
    BY <2>1 DEF Begun
  <2>. QED BY <1>0, <2>1, <2>2, AsideWords
<1>. QED
  BY <1>1, <1>2, <1>3, <1>4, <1>6, <1>7, <1>8, <1>9, <1>10, <1>11
     DEF Next, ClientStep, AgentStep, Settling

(* The words of a turn are its own in every reachable state.                *)
LEMMA WordsInvariant == Spec => []WordsInv
<1>1. Init => WordsInv
  BY WordsInit
<1>2. SafeInv /\ WordsInv /\ [Next]_vars => WordsInv'
  BY WordsStep
<1>. QED
  BY <1>1, <1>2, SafeInvariant, PTL DEF Spec

(* However turns, interrupts, failures and late drains overlap, a turn      *)
(* hands its own answer to the provider, in order and without repetition.   *)
THEOREM WordsAreOwn == Spec => []OwnWords
<1>1. TypeInv /\ WordsInv => OwnWords
  <2>. SUFFICES ASSUME TypeInv, WordsInv, NEW t \in Turns,
                       NEW i \in DOMAIN spoken[t], NEW j \in DOMAIN spoken[t]
                PROVE  /\ spoken[t][i][1] = t
                       /\ i < j => spoken[t][i][2] < spoken[t][j][2]
    BY DEF OwnWords
  <2>1. PICK n \in Nat : Piece(spoken[t], t, 0, n, FALSE)
    BY DEF WordsInv, Said
  <2>2. DOMAIN spoken[t] = 1 .. Len(spoken[t])
    BY DEF TypeInv, TypeOK, Text
  <2>. QED BY <2>1, <2>2 DEF Piece
<1>. QED
  BY <1>1, WordsInvariant, SafeInvariant, PTL DEF SafeInv

-----------------------------------------------------------------------------
(***************************************************************************)
(* Proofs about RealtimeTurn with a client that sends nothing before its   *)
(* last turn has started (Paced): one agent and one synthesis at a time,   *)
(* no sentence left behind, and every turn that ends undisturbed was       *)
(* spoken completely.                                                      *)
(***************************************************************************)

Owner == session.ttsTurnId
LiveRun == Running \ aborted

-----------------------------------------------------------------------------
(* Who owns the session. *)

(* One turn at a time is on its way in, and owns a registered session once  *)
(* its handler began; by then no agent is left running.                     *)
EntryInv ==
  /\ \A t, u \in Entering : t = u
  /\ \A t \in Turns : session.alive /\ phase[t] = "starting" => Owner = t
  /\ \A t \in Turns : Owner = t => phase[t] \notin {"idle", "asr"}
  /\ \A t \in Turns : phase[t] = "starting" => LiveRun = {}

(* The one agent that runs is the owner's, and its controller is the one    *)
(* the session holds; on a deleted session there is still only one.         *)
AgentInv ==
  /\ session.activeTurnId = Owner
  /\ session.abortController # NoTurn => session.abortController = Owner
  /\ session.alive
       => \A u \in LiveRun : Owner = u /\ session.abortController = u
  /\ ~session.alive => \A t, u \in Entering \cup LiveRun : t = u

(* The owner was heard, and asked for its end, in this order. *)
FlagInv ==
  session.alive
    => /\ session.ttsStarted
            => Owner \in Turns /\ phase[Owner] \in {"running", "ending", "over"}
       /\ session.ttsFinalizeRequested
            => Owner \in Turns /\ phase[Owner] \in {"ending", "over"}

ControlInv == EntryInv /\ AgentInv /\ FlagInv

(* A pipeline step of t, at whose end t is leaving or not: the session      *)
(* stays with its owner, or t is taken off it.                              *)
Steers(s, r, t, leaving) ==
  /\ r.s.alive = s.alive
  /\ \/ /\ r.s.ttsTurnId = s.ttsTurnId /\ r.s.activeTurnId = s.activeTurnId
        /\ r.s.abortController = s.abortController
        /\ s.alive /\ r.s.ttsStarted => s.ttsStarted \/ s.ttsTurnId = t
        /\ s.alive /\ r.s.ttsFinalizeRequested
             => s.ttsFinalizeRequested \/ (leaving /\ s.ttsTurnId = t)
     \/ /\ s.alive /\ s.ttsTurnId = t /\ Gone(s, r.s, t)
        /\ r.s.abortController = NoTurn
        /\ leaving \/ s.ttsFinalizeRequested
        /\ r.calls = {}

(* A step of a turn that lost the session, and one on a deleted session,    *)
(* steer nothing.                                                           *)
LEMMA IdleSteers ==
  ASSUME NEW s \in Session, NEW r, NEW t, NEW leaving,
         r.s = s \/ /\ Kept(s, r.s) /\ r.s.ttsStarted = s.ttsStarted
                    /\ r.s.abortController = s.abortController
  PROVE  Steers(s, r, t, leaving)
BY DEF Steers, Kept

(* Nor do the writes a turn may make that lost the session.                 *)
LEMMA DropKept ==
  ASSUME NEW s \in Session, NEW m,
         \/ m = Update(s, [s EXCEPT !.sentenceBuffer = <<>>])
         \/ m = Update(s, [s EXCEPT !.speakProcessing = FALSE])
         \/ ~s.textDirect /\ m = Update(s, [s EXCEPT !.ttsProcessing = FALSE])
         \/ ~s.textDirect /\ m = Update(s, [s EXCEPT !.ttsQueue = <<>>])
  PROVE  /\ m \in Session /\ Kept(s, m) /\ m.ttsStarted = s.ttsStarted
         /\ m.abortController = s.abortController
<1>1. <<>> \in Text /\ <<>> \in Seq(Text)
  BY DEF Text
<1>2. CASE m = Update(s, [s EXCEPT !.sentenceBuffer = <<>>])
  BY <1>1, <1>2 DEF Update, Kept, Session
<1>3. CASE m = Update(s, [s EXCEPT !.speakProcessing = FALSE])
  BY <1>3 DEF Update, Kept, Session
<1>4. CASE ~s.textDirect /\ m = Update(s, [s EXCEPT !.ttsProcessing = FALSE])
  BY <1>4 DEF Update, Kept, Session
<1>5. CASE ~s.textDirect /\ m = Update(s, [s EXCEPT !.ttsQueue = <<>>])
  BY <1>1, <1>5 DEF Update, Kept, Session
<1>. QED BY <1>2, <1>3, <1>4, <1>5

(* flushBuffer leaves the session with its owner.                           *)
LEMMA FlushSteers ==
  ASSUME NEW t \in Turns, NEW token \in Text, NEW sends \in BOOLEAN,
         NEW r, r = FlushBuffer(session, t, token, sends),
         SafeInv, Begun(t), Effect(session, r, t)
  PROVE  Steers(session, r, t, FALSE)
<1>0. session \in Session
  BY DEF SafeInv, TypeInv, TypeOK
<1>1. CASE ~session.alive
  <2>1. r.s = session
    BY <1>0, <1>1, FlushDead
  <2>. QED BY <1>0, <2>1, IdleSteers
<1>2. CASE session.alive /\ session.ttsTurnId # t
  <2>1. r = Yield(session)
    BY <1>0, <1>2, FlushOther
  <2>2. r.s = session
    BY <2>1 DEF Yield
  <2>. QED BY <1>0, <2>2, IdleSteers
<1>3. CASE session.alive /\ session.ttsTurnId = t
  <2>1. Flushes(session, r, session.sentenceBuffer \o token, sends)
    BY <1>0, <1>3, FlushMoves
  <2>2. Kept(session, r.s)
    BY <2>1 DEF Flushes
  <2>3. r.s.abortController = session.abortController
    BY <1>3, <2>2, EffectSafe, TurnsAssumption DEF Kept
  <2>. QED BY <1>3, <2>2, <2>3 DEF Steers, Kept
<1>. QED BY <1>1, <1>2, <1>3

(* finishAnswer asks for the turn's end, or completes it at once.           *)
LEMMA FinishSteers ==
  ASSUME NEW t \in Turns, NEW r, r = FinishAnswer(session, t),
         SafeInv, Begun(t), Effect(session, r, t)
  PROVE  Steers(session, r, t, TRUE)
<1>0. session \in Session
  BY DEF SafeInv, TypeInv, TypeOK
<1>1. CASE ~session.alive
  <2>1. r.s = session
    BY <1>0, <1>1, FinishDead
  <2>. QED BY <1>0, <2>1, IdleSteers
<1>2. CASE session.alive /\ session.ttsTurnId # t
  <2>1. r = Yield(Update(session, [session EXCEPT !.sentenceBuffer = <<>>]))
    BY <1>0, <1>2, FinishOther
  <2>2. r.s = Update(session, [session EXCEPT !.sentenceBuffer = <<>>])
    BY <2>1 DEF Yield
  <2>. QED BY <1>0, <2>2, DropKept, IdleSteers
<1>3. CASE session.alive /\ session.ttsTurnId = t
  <2>1. PICK f : /\ f = FlushBuffer(session, t, <<>>, TRUE)
                 /\ f.s.sentenceBuffer = <<>>
                 /\ Finishes(session, r, f, t)
    BY <1>0, <1>3, FinishMoves
  <2>2. \A g : g = FlushBuffer(session, t, <<>>, TRUE)
           => Flushes(session, g, session.sentenceBuffer \o <<>>, TRUE)
    <3>1. <<>> \in Text
      BY DEF Text
    <3>2. \A b \in BOOLEAN : \A g : g = FlushBuffer(session, t, <<>>, b)
             => Flushes(session, g, session.sentenceBuffer \o <<>>, b)
      BY <1>0, <1>3, <3>1, FlushMoves
    <3>. QED BY <3>2
  <2>3. Flushes(session, f, session.sentenceBuffer \o <<>>, TRUE)
    BY <2>1, <2>2
  <2>4. CASE ~Busy(f.s) /\ Queue(f.s) = <<>>
    <3>1. Gone(session, r.s, t) /\ r.calls = {}
      BY <2>1, <2>3, <2>4 DEF Finishes, Flushes
    <3>2. r.s.ttsTurnId = NoTurn /\ r.s.alive = session.alive
      BY <3>1 DEF Gone
    <3>3. r.s.abortController = NoTurn
      BY <1>3, <3>2, TurnsAssumption DEF Effect
    <3>. QED BY <1>3, <3>1, <3>2, <3>3 DEF Steers
  <2>5. CASE Busy(f.s) \/ Queue(f.s) # <<>>
    <3>1. /\ r.s.alive = session.alive
          /\ r.s.activeTurnId = session.activeTurnId
          /\ r.s.ttsTurnId = session.ttsTurnId
      BY <2>1, <2>5 DEF Finishes
    <3>2. r.s.abortController = session.abortController
      BY <1>3, <3>1, EffectSafe, TurnsAssumption
    <3>. QED BY <1>3, <3>1, <3>2 DEF Steers
  <2>. QED BY <2>4, <2>5
<1>. QED BY <1>1, <1>2, <1>3

(* A round of the drain loop completes a turn only if its end was asked     *)
(* for.                                                                     *)
LEMMA DrainLoopSteers ==
  ASSUME NEW t \in Turns,
         NEW r, r = IF session.textDirect THEN SpeakDrainLoop(session, t)
                                          ELSE TtsDrainLoop(session, t),
         SafeInv, Begun(t), Effect(session, r, t)
  PROVE  Steers(session, r, t, FALSE)
<1>0. session \in Session
  BY DEF SafeInv, TypeInv, TypeOK
<1>1. CASE ~session.alive
  <2>1. r.s = session
    BY <1>0, <1>1, DrainLoopDead
  <2>. QED BY <1>0, <2>1, IdleSteers
<1>2. CASE session.alive /\ session.ttsTurnId # t
  <2>1. \E m : /\ r = Yield(m)
               /\ \/ m = Update(session, [session EXCEPT !.speakProcessing = FALSE])
                  \/ /\ ~session.textDirect
                     /\ m = Update(session, [session EXCEPT !.ttsProcessing = FALSE])
    BY <1>0, <1>2, DrainLoopOther
  <2>2. PICK m : /\ r = Yield(m)
                 /\ \/ m = Update(session, [session EXCEPT !.speakProcessing = FALSE])
                    \/ /\ ~session.textDirect
                       /\ m = Update(session, [session EXCEPT !.ttsProcessing = FALSE])
    BY <2>1
  <2>3. r.s = m
    BY <2>2 DEF Yield
  <2>4. /\ Kept(session, m) /\ m.ttsStarted = session.ttsStarted
        /\ m.abortController = session.abortController
    BY <1>0, <2>2, DropKept
  <2>. QED BY <1>0, <2>3, <2>4, IdleSteers
<1>3. CASE session.alive /\ session.ttsTurnId = t
  <2>0. Loops(session, r, t)
    BY <1>0, <1>3, DrainLoopMoves
  <2>1. \/ Kept(session, r.s) /\ r.s.ttsStarted = session.ttsStarted
        \/ /\ Gone(session, r.s, t) /\ r.calls = {}
           /\ session.ttsFinalizeRequested
    BY <2>0 DEF Loops
  <2>2. CASE Kept(session, r.s) /\ r.s.ttsStarted = session.ttsStarted
    <3>1. r.s.abortController = session.abortController
      BY <1>3, <2>2, EffectSafe, TurnsAssumption DEF Kept
    <3>. QED BY <2>2, <3>1 DEF Steers, Kept
  <2>3. CASE /\ Gone(session, r.s, t) /\ r.calls = {}
             /\ session.ttsFinalizeRequested
    <3>2. r.s.ttsTurnId = NoTurn /\ r.s.alive = session.alive
      BY <2>3 DEF Gone
    <3>3. r.s.abortController = NoTurn
      BY <1>3, <3>2, TurnsAssumption DEF Effect
    <3>. QED BY <1>3, <2>3, <3>2, <3>3 DEF Steers
  <2>. QED BY <2>1, <2>2, <2>3
<1>. QED BY <1>1, <1>2, <1>3

(* So does the end of a drain after a rejected synthesis,                   *)
LEMMA RejectSteers ==
  ASSUME NEW t \in Turns, ~session.textDirect,
         NEW r, r = Yield(TtsDrainEnd(Update(session,
                                [session EXCEPT !.ttsQueue = <<>>]), t)),
         SafeInv, Begun(t), Effect(session, r, t)
  PROVE  Steers(session, r, t, FALSE)
<1>0. session \in Session
  BY DEF SafeInv, TypeInv, TypeOK
<1>1. PICK m : m = Update(session, [session EXCEPT !.ttsQueue = <<>>])
  OBVIOUS
<1>2. PICK n : n = TtsDrainEnd(m, t)
  OBVIOUS
<1>3. r = Yield(n)
  BY <1>1, <1>2
<1>4. r.s = n /\ r.calls = {}
  BY <1>3 DEF Yield
<1>5. CASE ~session.alive
  <2>1. r.s = session
    BY <1>0, <1>1, <1>2, <1>4, <1>5, RejectDead
  <2>. QED BY <1>0, <2>1, IdleSteers
<1>6. CASE session.alive /\ session.ttsTurnId # t
  <2>1. /\ m \in Session /\ Kept(session, m) /\ m.ttsStarted = session.ttsStarted
        /\ m.abortController = session.abortController
    BY <1>0, <1>1, DropKept
  <2>2. n = Update(m, [m EXCEPT !.ttsProcessing = FALSE])
    BY <1>0, <1>1, <1>2, <1>6, RejectOther
  <2>3. ~m.textDirect
    BY <2>1 DEF Kept
  <2>4. /\ Kept(m, n) /\ n.ttsStarted = m.ttsStarted
        /\ n.abortController = m.abortController
    BY <2>1, <2>2, <2>3, DropKept
  <2>5. /\ Kept(session, r.s) /\ r.s.ttsStarted = session.ttsStarted
        /\ r.s.abortController = session.abortController
    BY <1>4, <2>1, <2>4 DEF Kept
  <2>. QED BY <1>0, <2>5, IdleSteers
<1>7. CASE session.alive /\ session.ttsTurnId = t
  <2>1. Rejects(session, n, t)
    BY <1>0, <1>1, <1>2, <1>7, RejectMoves
  <2>2. CASE ~session.ttsFinalizeRequested
    <3>1. /\ Kept(session, r.s) /\ r.s.ttsStarted = session.ttsStarted
          /\ r.s.abortController = session.abortController
      BY <1>4, <2>1, <2>2 DEF Rejects
    <3>. QED BY <1>0, <3>1, IdleSteers
  <2>3. CASE session.ttsFinalizeRequested
    <3>1. Gone(session, r.s, t)
      BY <1>4, <2>1, <2>3 DEF Rejects
    <3>2. r.s.ttsTurnId = NoTurn /\ r.s.alive = session.alive
      BY <3>1 DEF Gone
    <3>3. r.s.abortController = NoTurn
      BY <1>7, <3>2, TurnsAssumption DEF Effect
    <3>. QED BY <1>4, <1>7, <2>3, <3>1, <3>2, <3>3 DEF Steers
  <2>. QED BY <2>2, <2>3
<1>. QED BY <1>5, <1>6, <1>7

(* ... and the end of a speak run.                                          *)
LEMMA SpeakEndSteers ==
  ASSUME NEW t \in Turns, session.textDirect,
         NEW r, r = Yield(SpeakDrainEnd(session, t)),
         SafeInv, Begun(t), Effect(session, r, t)
  PROVE  Steers(session, r, t, FALSE)
<1>0. session \in Session
  BY DEF SafeInv, TypeInv, TypeOK
<1>1. PICK n : n = SpeakDrainEnd(session, t)
  OBVIOUS
<1>3. r = Yield(n)
  BY <1>1
<1>4. r.s = n /\ r.calls = {}
  BY <1>3 DEF Yield
<1>5. CASE ~session.alive
  <2>1. r.s = session
    BY <1>0, <1>1, <1>4, <1>5, RejectDead
  <2>. QED BY <1>0, <2>1, IdleSteers
<1>6. CASE session.alive /\ session.ttsTurnId # t
  <2>1. PICK m : m = Update(session, [session EXCEPT !.speakProcessing = FALSE])
    OBVIOUS
  <2>2. /\ Kept(session, m) /\ m.ttsStarted = session.ttsStarted
        /\ m.abortController = session.abortController
    BY <1>0, <2>1, DropKept
  <2>3. n = SpeakCompleteTurn(m, t)
    BY <1>1, <2>1 DEF SpeakDrainEnd
  <2>4. m.ttsTurnId # t
    BY <1>6, <2>2 DEF Kept
  <2>5. n = m
    BY <2>3, <2>4 DEF SpeakCompleteTurn
  <2>. QED BY <1>0, <1>4, <2>2, <2>5, IdleSteers
<1>7. CASE session.alive /\ session.ttsTurnId = t
  <2>1. DrainEnds(session, n, t)
    BY <1>0, <1>1, <1>7, DrainEndMoves
  <2>2. CASE ~session.ttsFinalizeRequested \/ Queue(session) # <<>>
    <3>1. /\ Kept(session, r.s) /\ r.s.ttsStarted = session.ttsStarted
          /\ r.s.abortController = session.abortController
      BY <1>4, <2>1, <2>2 DEF DrainEnds
    <3>. QED BY <1>0, <3>1, IdleSteers
  <2>3. CASE session.ttsFinalizeRequested /\ Queue(session) = <<>>
    <3>1. Gone(session, r.s, t)
      BY <1>4, <2>1, <2>3 DEF DrainEnds
    <3>2. r.s.ttsTurnId = NoTurn /\ r.s.alive = session.alive
      BY <3>1 DEF Gone
    <3>3. r.s.abortController = NoTurn
      BY <1>7, <3>2, TurnsAssumption DEF Effect
    <3>. QED BY <1>4, <1>7, <2>3, <3>1, <3>2, <3>3 DEF Steers
  <2>. QED BY <2>2, <2>3
<1>. QED BY <1>5, <1>6, <1>7

-----------------------------------------------------------------------------
(* ControlInv is kept by a client that paces itself. *)

(* Where a pipeline step of t leaves the handlers. *)
Moves(t, leaving) ==
  /\ aborted' = aborted
  /\ phase' = IF leaving THEN [phase EXCEPT ![t] = "ending"] ELSE phase
  /\ leaving => phase[t] = "running"

(* A step that steers keeps one owner, whose agent is the one that runs.    *)
LEMMA SteersControl ==
  ASSUME SafeInv, ControlInv, NEW t \in Turns, Begun(t),
         NEW leaving \in BOOLEAN, Moves(t, leaving),
         NEW r, session' = r.s, Steers(session, r, t, leaving)
  PROVE  ControlInv'
<1>0. /\ phase \in [Turns -> Phase]
      /\ phase[t] \in {"running", "ending", "over"}
      /\ \A u \in Turns \ {t} : phase'[u] = phase[u]
      /\ phase'[t] \in {"running", "ending", "over"}
      /\ leaving => phase[t] = "running" /\ phase'[t] = "ending"
      /\ ~leaving => phase'[t] = phase[t]
      /\ aborted' = aborted
  BY DEF SafeInv, TypeInv, TypeOK, Begun, Moves
<1>1. Entering' = Entering /\ LiveRun' \subseteq LiveRun
      /\ (leaving => t \notin LiveRun')
  BY <1>0 DEF Entering, LiveRun, Running
<1>2. CASE /\ r.s.ttsTurnId = session.ttsTurnId
           /\ r.s.activeTurnId = session.activeTurnId
           /\ r.s.abortController = session.abortController
           /\ session.alive /\ r.s.ttsStarted
                => session.ttsStarted \/ session.ttsTurnId = t
           /\ session.alive /\ r.s.ttsFinalizeRequested
                => \/ session.ttsFinalizeRequested
                   \/ leaving /\ session.ttsTurnId = t
  <2>1. session'.alive = session.alive
    BY DEF Steers
  <2>2. EntryInv'
    BY <1>0, <1>1, <1>2, <2>1 DEF ControlInv, EntryInv, Owner
  <2>3. AgentInv'
    BY <1>0, <1>1, <1>2, <2>1 DEF ControlInv, AgentInv, Owner
  <2>4. FlagInv'
    BY <1>0, <1>2, <2>1 DEF ControlInv, FlagInv, Owner
  <2>. QED BY <2>2, <2>3, <2>4 DEF ControlInv
<1>3. CASE /\ session.alive /\ session.ttsTurnId = t /\ Gone(session, r.s, t)
           /\ r.s.abortController = NoTurn
           /\ leaving \/ session.ttsFinalizeRequested
  <2>1. /\ session'.alive /\ session'.ttsTurnId = NoTurn
        /\ session'.activeTurnId = NoTurn
        /\ session'.abortController = NoTurn
        /\ ~session'.ttsStarted /\ ~session'.ttsFinalizeRequested
    BY <1>3 DEF Gone, ControlInv, AgentInv, Owner
  <2>2. LiveRun' = {}
    <3>1. \A u \in LiveRun : u = t
      BY <1>3 DEF ControlInv, AgentInv, Owner
    <3>2. ~leaving => t \notin LiveRun
      BY <1>3 DEF ControlInv, FlagInv, Owner, LiveRun, Running
    <3>. QED BY <1>1, <3>1, <3>2
  <2>3. \A u \in Turns : phase'[u] # "starting"
    BY <1>0, <1>3 DEF ControlInv, EntryInv, Owner
  <2>. QED BY <1>1, <2>1, <2>2, <2>3, TurnsAssumption
           DEF ControlInv, EntryInv, AgentInv, FlagInv, Owner
<1>. QED BY <1>2, <1>3 DEF Steers

(* A turn that enters takes the session and aborts the agent it replaces.   *)
LEMMA BeginControl ==
  ASSUME SafeInv, ControlInv, NEW t \in Turns, BeginTurn(t),
         Entering \subseteq {t}, phase[t] = "asr" \/ session.alive
  PROVE  ControlInv'
<1>0. /\ phase \in [Turns -> Phase]
      /\ phase'[t] = "starting"
      /\ \A u \in Turns \ {t} : phase'[u] = phase[u]
      /\ aborted \subseteq aborted'
      /\ session.activeTurnId # NoTurn
           => session.abortController \in aborted' \cup {NoTurn}
  BY DEF SafeInv, TypeInv, TypeOK, BeginTurn, AbortPrevious
<1>1. Entering' = {t} /\ LiveRun' \subseteq LiveRun
  BY <1>0 DEF Entering, LiveRun, Running
<1>2. CASE session.alive
  <2>1. /\ session'.alive /\ session'.ttsTurnId = t
        /\ session'.activeTurnId = t
        /\ session'.abortController = NoTurn
        /\ ~session'.ttsStarted /\ ~session'.ttsFinalizeRequested
    BY <1>2 DEF BeginTurn, InitTurn, Update, SafeInv, TypeInv, TypeOK, Session
  <2>2. LiveRun' = {}
    <3>1. ASSUME NEW u \in LiveRun
          PROVE  u \in aborted'
      <4>1. session.abortController = u /\ session.activeTurnId = u /\ u \in Turns
        BY <1>2 DEF ControlInv, AgentInv, Owner, LiveRun, Running
      <4>. QED BY <1>0, <4>1, TurnsAssumption
    <3>. QED BY <1>1, <3>1 DEF LiveRun
  <2>3. \A u \in Turns : phase'[u] = "starting" => u = t
    BY <1>1 DEF Entering
  <2>. QED BY <1>0, <1>1, <2>1, <2>2, <2>3
           DEF ControlInv, EntryInv, AgentInv, FlagInv, Owner
<1>3. CASE ~session.alive
  <2>1. session' = session
    BY <1>3 DEF BeginTurn, InitTurn, Update
  <2>2. t \in Entering /\ phase[t] = "asr"
    BY <1>3 DEF Entering
  <2>3. LiveRun = {}
    <3>1. \A u \in LiveRun : u = t
      BY <1>3, <2>2 DEF ControlInv, AgentInv
    <3>2. t \notin LiveRun
      BY <2>2 DEF LiveRun, Running
    <3>. QED BY <3>1, <3>2
  <2>. QED BY <1>0, <1>1, <1>3, <2>1, <2>3
           DEF ControlInv, EntryInv, AgentInv, FlagInv, Owner
<1>. QED BY <1>2, <1>3

(* An opened session has no owner.                                          *)
LEMMA ControlInit == Init => ControlInv
BY TurnsAssumption
   DEF Init, ControlInv, EntryInv, AgentInv, FlagInv, Owner, LiveRun, Running,
       Entering

-----------------------------------------------------------------------------
(* What the steps do to the TTS pipeline. *)

TtsAlone(s, n) == n.ttsQueue = s.ttsQueue /\ n.ttsProcessing = s.ttsProcessing

(* A step of the agent of t: beside a drain it only queues; without one it  *)
(* leaves the pipeline as it is or starts a drain with a call.  Only on a   *)
(* deleted session can it hang.                                             *)
Voices(s, r, t) ==
  /\ s.textDirect => TtsAlone(s, r.s)
  /\ ~s.textDirect /\ s.alive /\ s.ttsTurnId = t
       => /\ ~r.hang
          /\ s.ttsProcessing => r.calls = {} /\ r.s.ttsProcessing
          /\ ~s.ttsProcessing
               => \/ /\ r.calls = {} /\ ~r.s.ttsProcessing
                     /\ r.s.ttsQueue = s.ttsQueue
                  \/ (\E c : r.calls = {c}) /\ r.s.ttsProcessing
  /\ ~s.textDirect /\ ~(s.alive /\ s.ttsTurnId = t)
       => /\ r.calls = {} /\ TtsAlone(s, r.s)
          /\ r.hang => s.ttsQueue # <<>> /\ ~s.ttsProcessing

(* The end of a call of t, in a session that synthesises: the drain makes   *)
(* the next call, or is over; a late one clears the flag of another drain.  *)
Drains(s, r, t) ==
  /\ ~s.alive => r.s = s /\ r.calls = {}
  /\ s.alive => ~r.hang
  /\ s.alive /\ s.ttsTurnId = t
       => \/ (\E c : r.calls = {c}) /\ r.s.ttsProcessing = s.ttsProcessing
          \/ r.calls = {} /\ ~r.s.ttsProcessing /\ r.s.ttsQueue = <<>>
  /\ s.alive /\ s.ttsTurnId # t
       => /\ r.calls = {} /\ ~r.s.ttsProcessing
          /\ r.s.ttsQueue \in {s.ttsQueue, <<>>}

(* flushBuffer starts a synthesis only where none runs.                     *)
LEMMA FlushVoices ==
  ASSUME NEW s \in Session, NEW t \in Turns, NEW token \in Text,
         NEW sends \in BOOLEAN, NEW r, r = FlushBuffer(s, t, token, sends)
  PROVE  Voices(s, r, t)
<1>1. CASE ~s.alive
  <2>1. /\ r.s = s /\ r.calls = {}
        /\ r.hang => Queue(s) # <<>> /\ ~Busy(s) /\ s.ttsTurnId = t
    BY <1>1, FlushDead
  <2>. QED BY <1>1, <2>1 DEF Voices, TtsAlone, Queue, Busy
<1>2. CASE s.alive /\ s.ttsTurnId # t
  <2>1. r = Yield(s)
    BY <1>2, FlushOther
  <2>2. r.s = s /\ r.calls = {} /\ ~r.hang
    BY <2>1 DEF Yield
  <2>. QED BY <1>2, <2>2 DEF Voices, TtsAlone
<1>3. CASE s.alive /\ s.ttsTurnId = t
  <2>1. Flushes(s, r, s.sentenceBuffer \o token, sends)
    BY <1>3, FlushMoves
  <2>2. PICK full : full = s.sentenceBuffer \o token
    OBVIOUS
  <2>3. Flushes(s, r, full, sends)
    BY <2>1, <2>2
  <2>4. r.s.textDirect = s.textDirect
    BY <2>3 DEF Flushes, Kept
  <2>. QED BY <1>3, <2>3, <2>4
           DEF Flushes, Voices, Kept, Sends, TtsAlone, Queue, Busy
<1>. QED BY <1>1, <1>2, <1>3

(* The same of finishAnswer.                                                *)
LEMMA FinishVoices ==
  ASSUME NEW s \in Session, NEW t \in Turns, NEW r, r = FinishAnswer(s, t)
  PROVE  Voices(s, r, t)
<1>1. CASE ~s.alive
  <2>1. /\ r.s = s /\ r.calls = {}
        /\ r.hang => Queue(s) # <<>> /\ ~Busy(s) /\ s.ttsTurnId = t
    BY <1>1, FinishDead
  <2>. QED BY <1>1, <2>1 DEF Voices, TtsAlone, Queue, Busy
<1>2. CASE s.alive /\ s.ttsTurnId # t
  <2>1. r = Yield(Update(s, [s EXCEPT !.sentenceBuffer = <<>>]))
    BY <1>2, FinishOther
  <2>2. /\ r.s = Update(s, [s EXCEPT !.sentenceBuffer = <<>>])
        /\ r.calls = {} /\ ~r.hang
    BY <2>1 DEF Yield
  <2>3. TtsAlone(s, r.s)
    BY <2>2 DEF TtsAlone, Update, Session
  <2>. QED BY <1>2, <2>2, <2>3 DEF Voices
<1>3. CASE s.alive /\ s.ttsTurnId = t
  <2>1. PICK f : /\ f = FlushBuffer(s, t, <<>>, TRUE)
                 /\ f.s.sentenceBuffer = <<>>
                 /\ Finishes(s, r, f, t)
    BY <1>3, FinishMoves
  <2>2. Voices(s, f, t) /\ f.s.textDirect = s.textDirect
    <3>1. <<>> \in Text
      BY DEF Text
    <3>2. \A b \in BOOLEAN : \A g : g = FlushBuffer(s, t, <<>>, b)
            => Voices(s, g, t) /\ Effect(s, g, t)
      BY <3>1, FlushVoices, FlushEffect
    <3>3. \A g : g = FlushBuffer(s, t, <<>>, TRUE)
            => Voices(s, g, t) /\ Effect(s, g, t)
      BY <3>2
    <3>. QED BY <2>1, <3>3 DEF Effect
  <2>3. CASE ~Busy(f.s) /\ Queue(f.s) = <<>>
    <3>1. Gone(s, r.s, t) /\ r.calls = f.calls /\ ~r.hang
      BY <2>1, <2>3 DEF Finishes
    <3>2. CASE s.textDirect
      BY <3>1, <3>2 DEF Gone, Voices, TtsAlone
    <3>3. CASE ~s.textDirect
      <4>1. ~f.s.ttsProcessing /\ f.s.ttsQueue = <<>>
        BY <2>2, <2>3, <3>3 DEF Queue, Busy
      <4>2. ~r.s.ttsProcessing /\ r.s.ttsQueue = <<>>
        BY <3>1, <3>3 DEF Gone, Queue, Busy
      <4>. QED BY <1>3, <2>2, <3>1, <3>3, <4>1, <4>2 DEF Voices
    <3>. QED BY <3>2, <3>3
  <2>4. CASE Busy(f.s) \/ Queue(f.s) # <<>>
    <3>1. /\ r.s.textDirect = s.textDirect
          /\ s.textDirect => /\ r.s.ttsQueue = s.ttsQueue
                             /\ r.s.ttsProcessing = s.ttsProcessing
          /\ Queue(r.s) = Queue(f.s) /\ Busy(r.s) = Busy(f.s)
          /\ r.calls = f.calls /\ ~r.hang
      BY <2>1, <2>4 DEF Finishes
    <3>. QED BY <1>3, <2>2, <3>1 DEF Voices, TtsAlone, Queue, Busy
  <2>. QED BY <2>3, <2>4
<1>. QED BY <1>1, <1>2, <1>3

(* A round of the drain starts the next synthesis, or frees the drain.      *)
LEMMA DrainLoopDrains ==
  ASSUME NEW s \in Session, NEW t \in Turns, ~s.textDirect,
         NEW r, r = TtsDrainLoop(s, t)
  PROVE  Drains(s, r, t)
<1>1. r = IF s.textDirect THEN SpeakDrainLoop(s, t) ELSE TtsDrainLoop(s, t)
  OBVIOUS
<1>2. CASE ~s.alive
  <2>1. r.s = s /\ r.calls = {}
    BY <1>1, <1>2, DrainLoopDead
  <2>. QED BY <1>2, <2>1 DEF Drains
<1>3. CASE s.alive /\ s.ttsTurnId # t
  <2>1. r = Yield(Update(s, [s EXCEPT !.ttsProcessing = FALSE]))
    BY <1>3, DrainLoopOther
  <2>2. /\ r.s = Update(s, [s EXCEPT !.ttsProcessing = FALSE])
        /\ r.calls = {} /\ ~r.hang
    BY <2>1 DEF Yield
  <2>3. ~r.s.ttsProcessing /\ r.s.ttsQueue = s.ttsQueue
    BY <1>3, <2>2 DEF Update, Session
  <2>. QED BY <1>3, <2>2, <2>3 DEF Drains
<1>4. CASE s.alive /\ s.ttsTurnId = t
  <2>1. Loops(s, r, t)
    BY <1>1, <1>4, DrainLoopMoves
  <2>. QED BY <1>4, <2>1 DEF Drains, Loops, Gone, Kept, Sends, Queue, Busy
<1>. QED BY <1>2, <1>3, <1>4

(* After a rejected synthesis the drain is free and the queue empty.        *)
LEMMA RejectDrains ==
  ASSUME NEW s \in Session, NEW t \in Turns, ~s.textDirect,
         NEW r, r = Yield(TtsDrainEnd(Update(s, [s EXCEPT !.ttsQueue = <<>>]), t))
  PROVE  /\ Drains(s, r, t) /\ r.calls = {}
         /\ s.alive => r.s.ttsQueue = <<>> /\ ~r.s.ttsProcessing
<1>1. PICK m : m = Update(s, [s EXCEPT !.ttsQueue = <<>>])
  OBVIOUS
<1>2. PICK n : n = TtsDrainEnd(m, t)
  OBVIOUS
<1>3. r = Yield(n)
  BY <1>1, <1>2
<1>4. r.s = n /\ r.calls = {} /\ ~r.hang
  BY <1>3 DEF Yield
<1>5. CASE ~s.alive
  <2>1. n = s
    BY <1>1, <1>2, <1>5, RejectDead
  <2>. QED BY <1>4, <1>5, <2>1 DEF Drains
<1>6. CASE s.alive /\ s.ttsTurnId # t
  <2>1. m = [s EXCEPT !.ttsQueue = <<>>]
    BY <1>1, <1>6 DEF Update
  <2>2. n = Update(m, [m EXCEPT !.ttsProcessing = FALSE])
    BY <1>1, <1>2, <1>6, RejectOther
  <2>3. m \in Session /\ m.alive /\ m.ttsQueue = <<>>
    <3>1. <<>> \in Seq(Text)
      OBVIOUS
    <3>. QED BY <1>6, <2>1, <3>1 DEF Session
  <2>4. ~n.ttsProcessing /\ n.ttsQueue = <<>>
    BY <2>2, <2>3 DEF Update, Session
  <2>. QED BY <1>4, <1>6, <2>4 DEF Drains
<1>7. CASE s.alive /\ s.ttsTurnId = t
  <2>1. Rejects(s, n, t)
    BY <1>1, <1>2, <1>7, RejectMoves
  <2>2. n.textDirect = s.textDirect
    BY <2>1 DEF Rejects, Gone, Kept
  <2>3. ~n.ttsProcessing /\ n.ttsQueue = <<>>
    BY <2>1, <2>2 DEF Rejects, Queue, Busy
  <2>. QED BY <1>4, <1>7, <2>3 DEF Drains
<1>. QED BY <1>5, <1>6, <1>7

(* In a session that speaks the TTS pipeline stands still, and a late end   *)
(* of speech takes nothing from the turn that owns the session now.         *)
LEMMA SpeakAlone ==
  ASSUME NEW s \in Session, NEW t \in Turns, s.textDirect,
         NEW r, r = SpeakDrainLoop(s, t) \/ r = Yield(SpeakDrainEnd(s, t))
  PROVE  /\ TtsAlone(s, r.s)
         /\ s.alive /\ s.ttsTurnId # t => Queue(r.s) = Queue(s)
         /\ s.alive => r.s.sentenceBuffer = s.sentenceBuffer
<1>1. CASE ~s.alive
  <2>1. CASE r = SpeakDrainLoop(s, t)
    <3>1. r.s = s
      BY <1>1, <2>1, DrainLoopDead
    <3>. QED BY <1>1, <3>1 DEF TtsAlone
  <2>2. CASE r = Yield(SpeakDrainEnd(s, t))
    <3>1. SpeakDrainEnd(s, t) = s
      BY <1>1, RejectDead
    <3>. QED BY <1>1, <2>2, <3>1 DEF TtsAlone, Yield
  <2>. QED BY <2>1, <2>2
<1>2. CASE s.alive /\ s.ttsTurnId # t
  <2>1. PICK m : m = Update(s, [s EXCEPT !.speakProcessing = FALSE])
    OBVIOUS
  <2>2. /\ TtsAlone(s, m) /\ Queue(m) = Queue(s)
        /\ m.sentenceBuffer = s.sentenceBuffer /\ m.ttsTurnId # t
    BY <1>2, <2>1 DEF Update, Session, TtsAlone, Queue
  <2>3. SpeakDrainLoop(s, t) = Yield(m)
    BY <1>2, <2>1, DrainLoopOther
  <2>4. SpeakDrainEnd(s, t) = SpeakCompleteTurn(m, t)
    BY <2>1 DEF SpeakDrainEnd
  <2>5. SpeakDrainEnd(s, t) = m
    BY <2>2, <2>4 DEF SpeakCompleteTurn
  <2>6. r = Yield(m)
    BY <2>3, <2>5
  <2>7. r.s = m
    BY <2>6 DEF Yield
  <2>. QED BY <1>2, <2>2, <2>7
<1>3. CASE s.alive /\ s.ttsTurnId = t
  <2>1. CASE r = SpeakDrainLoop(s, t)
    <3>1. r = IF s.textDirect THEN SpeakDrainLoop(s, t) ELSE TtsDrainLoop(s, t)
      BY <2>1
    <3>2. Loops(s, r, t)
      BY <1>3, <3>1, DrainLoopMoves
    <3>. QED BY <1>3, <3>2 DEF Loops, Gone, Kept, TtsAlone
  <2>2. CASE r = Yield(SpeakDrainEnd(s, t))
    <3>1. PICK n : n = SpeakDrainEnd(s, t)
      OBVIOUS
    <3>2. DrainEnds(s, n, t)
      BY <1>3, <3>1, DrainEndMoves
    <3>3. r = Yield(n)
      BY <2>2, <3>1
    <3>4. r.s = n
      BY <3>3 DEF Yield
    <3>. QED BY <1>3, <3>2, <3>4 DEF DrainEnds, Gone, Kept, TtsAlone
  <2>. QED BY <2>1, <2>2
<1>. QED BY <1>1, <1>2, <1>3

-----------------------------------------------------------------------------
(* The TTS calls in flight. *)

(* An abort is waiting to be noticed; then the session was left to no turn, *)
(* or to one whose run has not begun.                                       *)
Pending == \E t \in Turns : /\ t \in aborted
                            /\ \/ phase[t] = "running"
                               \/ \E c \in synth : c.turn = t
Fresh == session.alive => \/ Owner = NoTurn
                          \/ Owner \in Turns /\ phase[Owner] = "starting"

TtsInv ==
  /\ \A c \in synth : c.signal = c.turn
  /\ Pending => Fresh
  /\ ~session.alive => \A c \in synth : c.turn \in aborted
  /\ session.alive => \A c \in synth : c.turn \notin aborted
                        => c.turn = Owner /\ session.ttsProcessing
  /\ \A c, d \in synth : c.turn \notin aborted /\ d.turn \notin aborted => c = d
  /\ session.alive /\ session.ttsProcessing
       => \E c \in synth : c.turn \notin aborted
  /\ session.ttsQueue # <<>> => session.ttsProcessing
  /\ ~session.textDirect => ~hung

(* Where no abort is waiting to be noticed, every call is live.             *)
LEMMA SettledCalm ==
  ASSUME SafeInv, TtsInv, Settled
  PROVE  ~Pending /\ \A c \in synth : c.turn \notin aborted
BY DEF SafeInv, SignalInv, TtsInv, Settled, Pending, Running

(* What is aborted when the owner is: the one call that was not.            *)
LEMMA LiveCallOwned ==
  ASSUME SafeInv, ControlInv, TtsInv, session.alive,
         NEW c \in synth, c.turn \notin aborted
  PROVE  /\ c.turn = session.abortController
         /\ session.activeTurnId # NoTurn
         /\ session.abortController # NoTurn
         /\ ~Fresh
<1>1. c.turn = Owner /\ Begun(c.turn)
  BY DEF TtsInv, SafeInv, SignalInv
<1>2. session.abortController # NoTurn
  BY <1>1 DEF SafeInv, SignalInv, Begun, Owner
<1>3. Owner # NoTurn /\ ~Fresh
  BY <1>1, TurnsAssumption DEF Begun, Fresh
<1>. QED BY <1>1, <1>2, <1>3 DEF ControlInv, AgentInv

(* What a pipeline step starts goes out under the owner's own controller.   *)
LEMMA CallsOwned ==
  ASSUME SafeInv, ControlInv, NEW t \in Turns, Begun(t),
         NEW r, Effect(session, r, t), ~session.textDirect
  PROVE  \A c \in r.calls : /\ c.turn = t /\ c.signal = t /\ t \notin aborted
                            /\ session.alive /\ Owner = t
<1>1. ASSUME NEW c \in r.calls
      PROVE  /\ c.turn = t /\ c.signal = t /\ t \notin aborted
             /\ session.alive /\ Owner = t
  <2>1. /\ session.alive /\ session.ttsTurnId = t /\ c.turn = t
        /\ c.signal = Signal(session)
    BY DEF Effect
  <2>2. session.abortController # NoTurn
    BY <2>1 DEF SafeInv, SignalInv, Begun
  <2>3. session.abortController = t
    BY <2>1, <2>2 DEF ControlInv, AgentInv, Owner
  <2>4. t \notin aborted
    BY <2>1 DEF SafeInv, SignalInv
  <2>. QED BY <2>1, <2>2, <2>3, <2>4 DEF Signal, Owner
<1>. QED BY <1>1

(* A step of the agent keeps one synthesis at a time.                       *)
LEMMA AgentTts ==
  ASSUME SafeInv, ControlInv, TtsInv, NEW t \in Turns, phase[t] = "running",
         NEW leaving \in BOOLEAN, Moves(t, leaving),
         NEW r, Pipes(t, r, synth, speaking), Steers(session, r, t, leaving),
         Voices(session, r, t)
  PROVE  TtsInv'
<1>0. /\ phase \in [Turns -> Phase]
      /\ \A u \in Turns : phase'[u] = "running" => phase[u] = "running"
      /\ \A u \in Turns \ {t} : phase'[u] = phase[u]
      /\ aborted' = aborted /\ session' = r.s
      /\ hung' = r.hang
      /\ session'.textDirect = session.textDirect
      /\ session'.alive = session.alive
      /\ synth' = IF session.textDirect THEN synth ELSE synth \cup r.calls
      /\ session.textDirect => synth = {}
      /\ Begun(t)
      /\ \A c \in synth : c.turn \in Turns
  BY DEF SafeInv, SignalInv, TypeInv, TypeOK, ModesApart, Moves, Pipes,
         Applies, Effect, Begun
<1>1. CASE ~session.alive
  <2>1. /\ synth' = synth /\ TtsAlone(session, r.s)
        /\ ~session.textDirect /\ r.hang
             => session.ttsQueue # <<>> /\ ~session.ttsProcessing
    BY <1>0, <1>1 DEF Voices
  <2>. QED BY <1>0, <1>1, <2>1 DEF TtsInv, Fresh, TtsAlone
<1>2. CASE session.alive /\ Owner # t
  <2>1. /\ synth' = synth /\ TtsAlone(session, r.s)
        /\ ~session.textDirect /\ r.hang
             => session.ttsQueue # <<>> /\ ~session.ttsProcessing
    BY <1>0, <1>2 DEF Voices, Owner
  <2>2. t \in aborted
    BY <1>2 DEF ControlInv, AgentInv, LiveRun, Running
  <2>3. Fresh
    BY <2>2 DEF TtsInv, Pending
  <2>4. Owner' = Owner
    BY <1>0, <1>2 DEF Steers, Owner
  <2>5. Fresh'
    BY <1>0, <1>2, <2>3, <2>4 DEF Fresh
  <2>. QED BY <1>0, <1>2, <2>1, <2>4, <2>5 DEF TtsInv, TtsAlone
<1>3. CASE session.alive /\ Owner = t
  <2>1. t \notin aborted /\ ~Fresh /\ ~Pending
    BY <1>3, TurnsAssumption DEF SafeInv, SignalInv, Fresh, Owner, TtsInv
  <2>2. CASE session.textDirect
    <3>1. TtsAlone(session, r.s)
      BY <2>2 DEF Voices
    <3>2. ~Pending'
      BY <1>0, <2>1, <2>2 DEF Pending
    <3>. QED BY <1>0, <2>2, <3>1, <3>2 DEF TtsInv, TtsAlone
  <2>3. CASE ~session.textDirect
    <3>1. \A c \in r.calls : c.turn = t /\ c.signal = t
      BY <1>0, <2>3, CallsOwned DEF Pipes
    <3>2. ~Pending'
      BY <1>0, <2>1, <2>3, <3>1 DEF Pending
    <3>3. /\ ~r.hang
          /\ session.ttsProcessing => r.calls = {} /\ r.s.ttsProcessing
          /\ ~session.ttsProcessing
               => \/ /\ r.calls = {} /\ ~r.s.ttsProcessing
                     /\ r.s.ttsQueue = session.ttsQueue
                  \/ (\E c : r.calls = {c}) /\ r.s.ttsProcessing
      BY <1>3, <2>3 DEF Voices, Owner
    <3>4. r.s.ttsProcessing => Owner' = Owner
      BY <1>0, <2>3 DEF Steers, Gone, Busy, Owner
    <3>5. CASE session.ttsProcessing
      <4>1. synth' = synth /\ Owner' = Owner /\ r.s.ttsProcessing
        BY <1>0, <2>3, <3>3, <3>4, <3>5
      <4>2. \A c \in synth' : c.turn \notin aborted'
              => c.turn = Owner' /\ session'.ttsProcessing
        BY <1>0, <1>3, <4>1 DEF TtsInv
      <4>3. \E c \in synth' : c.turn \notin aborted'
        BY <1>0, <1>3, <3>5, <4>1 DEF TtsInv
      <4>. QED BY <1>0, <1>3, <3>2, <3>3, <4>1, <4>2, <4>3 DEF TtsInv
    <3>6. CASE ~session.ttsProcessing
      <4>1. \A c \in synth : c.turn \in aborted
        BY <1>3, <3>6 DEF TtsInv
      <4>2. CASE /\ r.calls = {} /\ ~r.s.ttsProcessing
                 /\ r.s.ttsQueue = session.ttsQueue
        BY <1>0, <1>3, <3>2, <3>3, <3>6, <4>1, <4>2 DEF TtsInv
      <4>3. CASE (\E c : r.calls = {c}) /\ r.s.ttsProcessing
        BY <1>0, <1>3, <2>1, <2>3, <3>1, <3>2, <3>3, <3>4, <4>1, <4>3 DEF TtsInv
      <4>. QED BY <3>3, <3>6, <4>2, <4>3
    <3>. QED BY <3>5, <3>6
  <2>. QED BY <2>2, <2>3
<1>. QED BY <1>1, <1>2, <1>3

(* The end of the call c: of the owner's call, or of one that was aborted.  *)
Closes(c, r) ==
  /\ ~session.textDirect
  /\ UNCHANGED <<phase, aborted>>
  /\ Pipes(c.turn, r, synth \ {c}, speaking)
  /\ Steers(session, r, c.turn, FALSE)
  /\ Drains(session, r, c.turn)
  /\ \/ Settled
     \/ /\ c.signal \in aborted
        /\ r.calls = {} /\ ~r.hang
        /\ session.alive => r.s.ttsQueue = <<>> /\ ~r.s.ttsProcessing

(* So does the end of a synthesis,                                          *)
LEMMA DrainTts ==
  ASSUME SafeInv, ControlInv, TtsInv, NEW c \in synth, NEW r, Closes(c, r)
  PROVE  TtsInv'
<1> DEFINE t == c.turn
<1>0. /\ t \in Turns /\ Begun(t)
      /\ phase' = phase /\ aborted' = aborted /\ session' = r.s
      /\ hung' = r.hang
      /\ session'.textDirect = session.textDirect /\ ~session.textDirect
      /\ session'.alive = session.alive
      /\ synth' = (synth \ {c}) \cup r.calls
  BY DEF Closes, Pipes, Applies, Effect, Begun
<1>1. \A d \in r.calls : /\ d.turn = t /\ d.signal = t /\ t \notin aborted
                         /\ session.alive /\ Owner = t
  BY <1>0, CallsOwned DEF Closes, Pipes
<1>2. CASE c.turn \notin aborted
  <2>1. session.alive /\ Settled /\ Owner = t /\ session.ttsProcessing
    BY <1>2 DEF TtsInv, Closes
  <2>2. \A d \in synth \ {c} : d.turn \in aborted
    BY <1>2 DEF TtsInv
  <2>3. ~Pending'
    <3>1. \A d \in synth : d.turn \notin aborted
      BY <2>1, SettledCalm
    <3>. QED BY <1>0, <1>1, <2>1, <3>1 DEF Pending, Settled, Running
  <2>4. CASE (\E d : r.calls = {d}) /\ r.s.ttsProcessing = session.ttsProcessing
    <3>1. PICK d : r.calls = {d}
      BY <2>4
    <3>2. Owner' = Owner
      BY <1>0, <3>1 DEF Steers, Closes, Owner
    <3>3. d.turn = t /\ d.signal = t /\ d \in synth'
      BY <1>0, <1>1, <3>1
    <3>4. ASSUME NEW e \in synth'
          PROVE  e = d \/ (e \in synth /\ e.turn \in aborted)
      <4>1. e \in synth \ {c} \/ e \in {d}
        BY <1>0, <3>1, <3>4
      <4>. QED BY <2>2, <4>1
    <3>5. ~r.hang
      BY <2>1 DEF Closes, Drains
    <3>. QED BY <1>0, <1>2, <2>1, <2>3, <2>4, <3>2, <3>3, <3>4, <3>5 DEF TtsInv
  <2>5. CASE r.calls = {} /\ ~r.s.ttsProcessing /\ r.s.ttsQueue = <<>>
    <3>1. ~r.hang
      BY <2>1 DEF Closes, Drains
    <3>. QED BY <1>0, <2>1, <2>2, <2>3, <2>5, <3>1 DEF TtsInv
  <2>. QED BY <2>1, <2>4, <2>5 DEF Closes, Drains, Owner
<1>3. CASE c.turn \in aborted
  <2>1. /\ c.signal \in aborted
        /\ r.calls = {} /\ ~r.hang
        /\ session.alive => r.s.ttsQueue = <<>> /\ ~r.s.ttsProcessing
    BY <1>3, SettledCalm DEF Closes
  <2>2. Fresh
    BY <1>0, <1>3 DEF TtsInv, Pending
  <2>3. synth' = synth \ {c}
    BY <1>0, <2>1
  <2>4. CASE session.alive
    <3>1. \A d \in synth : d.turn \in aborted
      BY <2>2, <2>4, LiveCallOwned
    <3>2. Owner # t
      BY <1>0, <2>2, <2>4, TurnsAssumption DEF Fresh, Begun
    <3>3. Owner' = Owner
      BY <1>0, <3>2 DEF Closes, Steers, Owner
    <3>4. Fresh'
      BY <1>0, <2>2, <3>3 DEF Fresh
    <3>. QED BY <1>0, <2>1, <2>3, <2>4, <3>1, <3>4 DEF TtsInv
  <2>5. CASE ~session.alive
    <3>1. r.s = session
      BY <2>5 DEF Closes, Drains
    <3>. QED BY <1>0, <2>1, <2>3, <2>5, <3>1 DEF TtsInv, Fresh
  <2>. QED BY <2>4, <2>5
<1>. QED BY <1>2, <1>3

(* ... a step of the speak pipeline,                                        *)
LEMMA SpeakTts ==
  ASSUME SafeInv, ControlInv, TtsInv, Settled, session.textDirect,
         UNCHANGED <<phase, aborted, synth>>,
         session'.textDirect, session'.alive = session.alive,
         TtsAlone(session, session')
  PROVE  TtsInv'
<1>1. synth = {} /\ ~Pending
  BY SettledCalm DEF SafeInv, TypeInv, ModesApart
<1>2. ~Pending'
  BY <1>1 DEF Pending
<1>. QED BY <1>1, <1>2 DEF TtsInv, TtsAlone

(* A step beside the pipelines that leaves the session to its owner. *)
LEMMA AsideTts ==
  ASSUME SafeInv, TtsInv, Settled, UNCHANGED <<aborted, synth, hung>>,
         session'.alive = session.alive,
         session'.textDirect = session.textDirect,
         session'.ttsTurnId = session.ttsTurnId,
         TtsAlone(session, session'),
         Running' \cap aborted \subseteq Running
  PROVE  TtsInv'
<1>1. ~Pending
  BY SettledCalm
<1>2. ~Pending'
  BY <1>1 DEF Pending, Running
<1>. QED BY <1>2 DEF TtsInv, TtsAlone, Owner

(* A step that takes a registered session from its owner aborts its call.   *)
LEMMA TakeTts ==
  ASSUME SafeInv, ControlInv, TtsInv, session.alive, UNCHANGED <<synth, hung>>,
         session'.textDirect = session.textDirect,
         aborted \subseteq aborted',
         session.activeTurnId # NoTurn /\ session.abortController # NoTurn
           => session.abortController \in aborted',
         Fresh',
         session'.alive => ~session'.ttsProcessing /\ session'.ttsQueue = <<>>,
         ~session'.alive => TtsAlone(session, session')
  PROVE  TtsInv'
<1>1. \A c \in synth : c.turn \in aborted'
  BY LiveCallOwned
<1>. QED BY <1>1 DEF TtsInv, TtsAlone

(* ... and a turn that enters, which aborts the call in flight.             *)
LEMMA BeginTts ==
  ASSUME SafeInv, ControlInv, TtsInv, NEW t \in Turns, BeginTurn(t),
         UNCHANGED <<synth, hung>>
  PROVE  TtsInv'
<1>0. /\ aborted \subseteq aborted'
      /\ session.activeTurnId # NoTurn /\ session.abortController # NoTurn
           => session.abortController \in aborted'
      /\ phase'[t] = "starting"
      /\ session' = InitTurn(session, t)
  BY DEF BeginTurn, AbortPrevious, SafeInv, TypeInv, TypeOK
<1>1. CASE session.alive
  <2>1. /\ session'.ttsTurnId = t
        /\ session'.textDirect = session.textDirect
        /\ session'.alive
        /\ ~session'.ttsProcessing /\ session'.ttsQueue = <<>>
    BY <1>0, <1>1 DEF InitTurn, Update, SafeInv, TypeInv, TypeOK, Session
  <2>2. Fresh'
    BY <1>0, <2>1 DEF Fresh, Owner
  <2>. QED BY <1>0, <1>1, <2>1, <2>2, TakeTts
<1>2. CASE ~session.alive
  <2>1. session' = session
    BY <1>0, <1>2 DEF InitTurn, Update
  <2>. QED BY <1>0, <1>2, <2>1 DEF TtsInv, Fresh
<1>. QED BY <1>1, <1>2

-----------------------------------------------------------------------------
(* The turns that ended. *)

(* A turn that ended never owns the session again, and unless it was        *)
(* aborted its agent is through.                                            *)
EndInv ==
  /\ session.alive => Owner \notin ended
  /\ \A t \in ended \ aborted : phase[t] \in {"ending", "over"}

(* While a turn nothing failed for owns the session, no token of it is      *)
(* missing; a turn that asked for its end has nothing left in the buffer,   *)
(* one that has not begun nothing at all; and one that ended was handed     *)
(* over completely.                                                         *)
Blank == \/ Owner = NoTurn
         \/ Owner \in Turns /\ phase[Owner] \in {"starting", "refused"}

CompleteInv ==
  /\ session.alive => \A t \in Turns \ broken : Owner = t => Said(t, TRUE)
  /\ session.alive /\ session.ttsFinalizeRequested
       => session.sentenceBuffer = <<>>
  /\ session.alive /\ Blank
       => session.sentenceBuffer = <<>> /\ Queue(session) = <<>>
  /\ \A t \in ended \ (aborted \cup broken) :
       Piece(spoken[t], t, 0, emitted[t], TRUE)

(* A pipeline step ends a turn only as the turn leaves the session.         *)
LEMMA StepEnd ==
  ASSUME SafeInv, ControlInv, EndInv, NEW t \in Turns, Begun(t),
         NEW leaving \in BOOLEAN, Moves(t, leaving),
         NEW r, NEW A, NEW B, Applies(r, A, B), Steers(session, r, t, leaving)
  PROVE  EndInv'
<1>0. /\ phase \in [Turns -> Phase]
      /\ \A u \in Turns \ {t} : phase'[u] = phase[u]
      /\ leaving => phase'[t] = "ending"
      /\ ~leaving => phase'[t] = phase[t]
      /\ aborted' = aborted /\ session' = r.s /\ ended \subseteq Turns
      /\ session'.alive = session.alive
      /\ ended' = ended \cup ({Owner} \ {r.s.ttsTurnId, NoTurn})
      /\ NoTurn \notin Turns
  BY TurnsAssumption
     DEF SafeInv, TypeInv, TypeOK, Moves, Applies, Steers, Owner
<1>1. CASE r.s.ttsTurnId = session.ttsTurnId
  BY <1>0, <1>1 DEF EndInv, Owner
<1>2. CASE /\ session.alive /\ session.ttsTurnId = t /\ Gone(session, r.s, t)
           /\ leaving \/ session.ttsFinalizeRequested
  <2>1. r.s.ttsTurnId = NoTurn
    BY <1>2 DEF Gone
  <2>2. phase'[t] \in {"ending", "over"}
    BY <1>0, <1>2 DEF ControlInv, FlagInv, Owner
  <2>. QED BY <1>0, <1>2, <2>1, <2>2 DEF EndInv, Owner
<1>. QED BY <1>1, <1>2 DEF Steers

(* What CompleteInv asks of a pipeline step of t beside its Steers: the     *)
(* words of an owner nothing failed for go on; another owner loses none;    *)
(* the buffer is emptied at the end, and a drain leaves it alone.           *)
Completes(t, r, leaving) ==
  /\ broken \subseteq broken'
  /\ t \notin broken'
       => Conveys(session, r, t, emitted[t], emitted'[t], TRUE)
  /\ \A u \in Turns : emitted'[u] \in Nat /\ (u # t => emitted'[u] = emitted[u])
  /\ phase[t] # "running" => emitted'[t] = emitted[t]
  /\ session.alive /\ Owner # t
       => \/ Fresh
          \/ /\ Queue(r.s) = Queue(session)
             /\ r.s.sentenceBuffer = session.sentenceBuffer
  /\ session.alive /\ Owner = t
       => \/ r.s.sentenceBuffer = <<>>
          \/ ~leaving /\ r.s.sentenceBuffer = session.sentenceBuffer
          \/ ~leaving /\ phase[t] = "running"

(* A pipeline step loses no word of a turn nothing failed for.              *)
LEMMA StepComplete ==
  ASSUME SafeInv, ControlInv, EndInv, CompleteInv, NEW t \in Turns,
         NEW leaving \in BOOLEAN, Moves(t, leaving),
         NEW r, NEW A, NEW B, Pipes(t, r, A, B), Steers(session, r, t, leaving),
         Completes(t, r, leaving)
  PROVE  CompleteInv'
<1>0. /\ phase \in [Turns -> Phase]
      /\ phase[t] \in {"running", "ending", "over"}
      /\ \A u \in Turns \ {t} : phase'[u] = phase[u]
      /\ phase'[t] \in {"running", "ending", "over"}
      /\ aborted' = aborted /\ session' = r.s /\ ended \subseteq Turns
      /\ session'.alive = session.alive
      /\ ended' = ended \cup ({Owner} \ {r.s.ttsTurnId, NoTurn})
      /\ NoTurn \notin Turns
      /\ Applies(r, A, B) /\ Effect(session, r, t) /\ TypeInv
      /\ Spares(session, r, t)
      /\ broken \subseteq broken'
  BY TurnsAssumption
     DEF SafeInv, TypeInv, TypeOK, Moves, Pipes, Applies, Steers, Owner, Begun,
         Completes
<1>1. \/ r.s.ttsTurnId = session.ttsTurnId
      \/ /\ session.alive /\ Owner = t /\ Gone(session, r.s, t)
         /\ leaving \/ session.ttsFinalizeRequested
  BY DEF Steers, Owner
<1>2. session.alive /\ session.ttsFinalizeRequested /\ Owner = t
        => phase[t] # "running"
  BY DEF ControlInv, FlagInv
<1>3. session.alive /\ Owner = t /\ (leaving \/ session.ttsFinalizeRequested)
        => r.s.sentenceBuffer = <<>>
  BY <1>2 DEF CompleteInv, Completes
<1>4. session.alive /\ Owner # t
        => /\ Queue(r.s) = Queue(session)
           /\ r.s.sentenceBuffer = session.sentenceBuffer
  BY <1>0 DEF Completes, Fresh, CompleteInv, Blank, Spares, Loses, Owner
<1>5. ASSUME session.alive, NEW u \in Turns \ broken', Owner' = u
      PROVE  Said(u, TRUE)'
  <2>1. Owner = u /\ u \notin broken
    BY <1>0, <1>1, <1>5 DEF Gone, Owner
  <2>2. Said(u, TRUE)
    BY <1>5, <2>1 DEF CompleteInv
  <2>3. \A e \in BOOLEAN :
          /\ Said(u, e)
          /\ u = t => Conveys(session, r, t, emitted[t], emitted'[t], e)
          => Said(u, e)'
    BY <1>0, <1>4, SaidStep DEF Completes, Owner
  <2>4. u = t => Conveys(session, r, t, emitted[t], emitted'[t], TRUE)
    BY <1>5 DEF Completes
  <2>. QED BY <2>2, <2>3, <2>4
<1>6. session'.alive /\ session'.ttsFinalizeRequested
        => session'.sentenceBuffer = <<>>
  <2>1. CASE Owner = t
    BY <1>0, <1>3, <2>1 DEF Steers, Gone, Owner
  <2>2. CASE Owner # t
    BY <1>0, <1>4, <2>2 DEF Steers, CompleteInv, Owner
  <2>. QED BY <2>1, <2>2
<1>7. session'.alive /\ Blank'
        => session'.sentenceBuffer = <<>> /\ Queue(session') = <<>>
  <2>1. CASE r.s.ttsTurnId = session.ttsTurnId
    <3>1. Owner' = Owner
      BY <1>0, <2>1 DEF Owner
    <3>2. Blank' => Blank /\ Owner # t
      BY <1>0, <3>1 DEF Blank
    <3>. QED BY <1>0, <1>4, <3>2 DEF CompleteInv
  <2>2. CASE /\ session.alive /\ Owner = t /\ Gone(session, r.s, t)
             /\ leaving \/ session.ttsFinalizeRequested
    BY <1>0, <1>3, <2>2 DEF Gone
  <2>. QED BY <1>1, <2>1, <2>2
<1>8. ASSUME NEW u \in ended' \ (aborted' \cup broken')
      PROVE  Piece(spoken'[u], u, 0, emitted'[u], TRUE)
  <2>1. CASE u \in ended
    <3>1. Piece(spoken[u], u, 0, emitted[u], TRUE)
          /\ phase[u] \in {"ending", "over"} /\ u \in Turns
      BY <1>0, <1>8, <2>1 DEF CompleteInv, EndInv
    <3>2. emitted'[u] = emitted[u]
      BY <3>1 DEF Completes
    <3>3. spoken'[u] = spoken[u]
      <4>1. CASE u # t
        BY <1>0, <3>1, <4>1, AppliesSpoken
      <4>2. CASE u = t
        <5>1. r.calls = {}
          BY <1>0, <2>1, <4>2 DEF Effect, EndInv, Owner
        <5>. QED BY <1>0, <5>1, AppliesSpoken
      <4>. QED BY <4>1, <4>2
    <3>. QED BY <3>1, <3>2, <3>3
  <2>2. CASE u \notin ended
    <3>1. /\ u = t /\ session.alive /\ Owner = t /\ Gone(session, r.s, t)
          /\ leaving \/ session.ttsFinalizeRequested
      BY <1>0, <1>1, <1>8, <2>2 DEF Owner
    <3>2. t \notin broken /\ t \notin broken'
      BY <1>0, <1>8, <3>1
    <3>3. Said(t, TRUE) /\ Conveys(session, r, t, emitted[t], emitted'[t], TRUE)
      BY <3>1, <3>2 DEF CompleteInv, Completes
    <3>4. \A e \in BOOLEAN :
            Said(t, e) /\ Conveys(session, r, t, emitted[t], emitted'[t], e)
            => \E k \in Nat : /\ Piece(spoken'[t], t, 0, k, e)
                              /\ Words(r.s, t, k, emitted'[t], e)
      BY <1>0, <3>1, OwnerSaid DEF Owner
    <3>5. PICK k \in Nat : /\ Piece(spoken'[t], t, 0, k, TRUE)
                           /\ Words(r.s, t, k, emitted'[t], TRUE)
      BY <3>3, <3>4
    <3>6. Queue(r.s) = <<>> /\ r.s.sentenceBuffer = <<>>
      BY <1>3, <3>1 DEF Gone
    <3>7. PICK m \in Nat : /\ Chain(<<>>, t, k, m, TRUE)
                           /\ Piece(<<>>, t, m, emitted'[t], TRUE)
      BY <3>5, <3>6 DEF Words
    <3>8. k = m
      BY <3>7, ChainEmptyEnds
    <3>9. emitted'[t] = m
      <4>1. emitted'[t] \in Nat
        BY DEF Completes
      <4>. QED BY <3>7, <4>1 DEF Piece
    <3>. QED BY <3>1, <3>5, <3>8, <3>9
  <2>. QED BY <2>1, <2>2
<1>. QED BY <1>0, <1>5, <1>6, <1>7, <1>8 DEF CompleteInv

(* A step beside the pipelines that leaves a registered session with its    *)
(* owner and its words.                                                     *)
LEMMA AsideComplete ==
  ASSUME CompleteInv, UNCHANGED <<emitted, spoken, ended, broken>>,
         aborted \subseteq aborted',
         session'.alive
           => /\ session.alive
              /\ session'.ttsTurnId = session.ttsTurnId
              /\ Queue(session') = Queue(session)
              /\ session'.sentenceBuffer = session.sentenceBuffer
              /\ session'.ttsFinalizeRequested = session.ttsFinalizeRequested
              /\ Blank' => Blank
  PROVE  CompleteInv'
<1>1. ASSUME NEW t \in Turns \ broken, session'.alive, Owner' = t
      PROVE  Said(t, TRUE)'
  <2>1. Owner = t /\ Said(t, TRUE)
    BY <1>1 DEF CompleteInv, Owner
  <2>. QED BY <1>1, <2>1 DEF Said, Words, Owner
<1>. QED BY <1>1 DEF CompleteInv

(* A turn that enters begins with nothing said and nothing to say.          *)
LEMMA BeginComplete ==
  ASSUME SafeInv, WordsInv, CompleteInv, NEW t \in Turns,
         phase[t] \in {"idle", "asr"}, BeginTurn(t),
         UNCHANGED <<emitted, spoken, ended, broken>>
  PROVE  CompleteInv'
<1>0. aborted \subseteq aborted' /\ session' = InitTurn(session, t)
  BY DEF BeginTurn, AbortPrevious
<1>1. CASE session.alive
  <2>1. /\ session'.ttsTurnId = t /\ ~session'.ttsFinalizeRequested
        /\ Queue(session') = <<>> /\ session'.sentenceBuffer = <<>>
    BY <1>0, <1>1 DEF InitTurn, Update, SafeInv, TypeInv, TypeOK, Session, Queue
  <2>2. Quiet(t)
    BY DEF WordsInv, Begun
  <2>3. \A e \in BOOLEAN : Said(t, e)'
    BY <1>1, <2>2, BeginTurnSaid DEF SafeInv
  <2>4. Said(t, TRUE)'
    BY <2>3
  <2>. QED BY <1>0, <2>1, <2>4 DEF CompleteInv, Owner
<1>2. CASE ~session.alive
  <2>1. session' = session
    BY <1>0, <1>2 DEF InitTurn, Update
  <2>. QED BY <1>0, <1>2, <2>1, AsideComplete
<1>. QED BY <1>1, <1>2

-----------------------------------------------------------------------------
(* The inductive invariant under a paced client. *)

PacedInv == ControlInv /\ TtsInv /\ EndInv /\ CompleteInv

(* The invariant holds when the session is opened.                          *)
LEMMA PacedInit == Init => PacedInv
<1>. SUFFICES ASSUME Init
              PROVE  PacedInv
  OBVIOUS
<1>1. ControlInv
  BY ControlInit
<1>2. TtsInv
  BY DEF Init, TtsInv, Pending, Fresh, Owner
<1>3. EndInv
  BY DEF Init, EndInv
<1>4. CompleteInv
  <2>1. /\ session.ttsTurnId = NoTurn /\ ~session.ttsFinalizeRequested
        /\ session.sentenceBuffer = <<>>
        /\ session.speakQueue = <<>> /\ session.ttsQueue = <<>> /\ ended = {}
    BY DEF Init
  <2>. QED BY <2>1, TurnsAssumption DEF CompleteInv, Queue, Owner
<1>. QED BY <1>1, <1>2, <1>3, <1>4 DEF PacedInv

(* Every action keeps it: a token,                                          *)
LEMMA TokenPaced ==
  ASSUME SafeInv, PacedInv, NEW t \in Turns, NEW b \in BOOLEAN, Token(t, b)
  PROVE  PacedInv'
<1>1. \A e \in BOOLEAN :
        \E r : /\ r = FlushBuffer(session, t, <<<<t, emitted[t] + 1>>>>, b)
               /\ Pipes(t, r, synth, speaking)
               /\ <<<<t, emitted[t] + 1>>>> \in Text
               /\ Conveys(session, r, t, emitted[t], emitted'[t], e)
               /\ \A u \in Turns \ {t} : emitted'[u] = emitted[u]
               /\ \A u \in Turns : emitted'[u] \in Nat
  BY TokenPipes
<1>2. PICK r : /\ r = FlushBuffer(session, t, <<<<t, emitted[t] + 1>>>>, b)
               /\ Pipes(t, r, synth, speaking)
               /\ <<<<t, emitted[t] + 1>>>> \in Text
               /\ Conveys(session, r, t, emitted[t], emitted'[t], TRUE)
               /\ \A u \in Turns \ {t} : emitted'[u] = emitted[u]
               /\ \A u \in Turns : emitted'[u] \in Nat
  BY <1>1
<1>3. /\ Begun(t) /\ Effect(session, r, t) /\ Applies(r, synth, speaking)
      /\ session' = r.s /\ session \in Session
  BY <1>2 DEF Pipes, Applies, SafeInv, TypeInv, TypeOK
<1>4. Moves(t, FALSE) /\ phase[t] = "running" /\ Settled /\ broken' = broken
  BY DEF Token, Moves
<1>5. Steers(session, r, t, FALSE)
  BY <1>2, <1>3, FlushSteers
<1>6. Voices(session, r, t)
  BY <1>2, <1>3, FlushVoices
<1>7. session.alive => Owner = t
  BY <1>4 DEF PacedInv, ControlInv, AgentInv, LiveRun, Running, Settled
<1>8. Completes(t, r, FALSE)
  BY <1>2, <1>4, <1>7 DEF Completes
<1>9. ControlInv'
  <2>1. \A l \in BOOLEAN : Moves(t, l) /\ Steers(session, r, t, l) => ControlInv'
    BY <1>3, SteersControl DEF PacedInv
  <2>. QED BY <1>4, <1>5, <2>1
<1>10. TtsInv'
  <2>1. \A l \in BOOLEAN : Moves(t, l) /\ Steers(session, r, t, l) => TtsInv'
    BY <1>2, <1>4, <1>6, AgentTts DEF PacedInv
  <2>. QED BY <1>4, <1>5, <2>1
<1>11. EndInv'
  <2>1. \A l \in BOOLEAN : Moves(t, l) /\ Steers(session, r, t, l) => EndInv'
    BY <1>3, StepEnd DEF PacedInv
  <2>. QED BY <1>4, <1>5, <2>1
<1>12. CompleteInv'
  <2>1. \A l \in BOOLEAN : Moves(t, l) /\ Steers(session, r, t, l) /\ Completes(t, r, l)
                           => CompleteInv'
    BY <1>2, StepComplete DEF PacedInv
  <2>. QED BY <1>4, <1>5, <1>8, <2>1
<1>. QED BY <1>9, <1>10, <1>11, <1>12 DEF PacedInv

(* ... the end of the agent,                                                *)
LEMMA LeavesPaced ==
  ASSUME SafeInv, PacedInv, NEW t \in Turns, NEW status, phase[t] = "running",
         AgentLeaves(t, status)
  PROVE  PacedInv'
<1>1. \A e \in BOOLEAN :
        \E r : /\ r = FinishAnswer(session, t)
               /\ Pipes(t, r, synth, speaking)
               /\ Conveys(session, r, t, emitted[t], emitted[t], e)
  BY LeavesPipes
<1>2. PICK r : /\ r = FinishAnswer(session, t)
               /\ Pipes(t, r, synth, speaking)
               /\ Conveys(session, r, t, emitted[t], emitted[t], TRUE)
  BY <1>1
<1>3. /\ Begun(t) /\ Effect(session, r, t) /\ Applies(r, synth, speaking)
      /\ session' = r.s /\ session \in Session
      /\ \A u \in Turns : emitted[u] \in Nat
  BY <1>2, BoundAssumption DEF Pipes, Applies, SafeInv, TypeInv, TypeOK
<1>4. Moves(t, TRUE) /\ broken' = broken /\ emitted' = emitted
  BY DEF AgentLeaves, Moves
<1>5. Steers(session, r, t, TRUE)
  BY <1>2, <1>3, FinishSteers
<1>6. Voices(session, r, t)
  BY <1>2, <1>3, FinishVoices
<1>7. session.alive /\ Owner # t => Fresh
  <2>1. session.alive /\ Owner # t => t \in aborted
    BY DEF PacedInv, ControlInv, AgentInv, LiveRun, Running
  <2>. QED BY <2>1 DEF PacedInv, TtsInv, Pending
<1>8. ASSUME session.alive, Owner = t
      PROVE  r.s.sentenceBuffer = <<>>
  <2>1. session.ttsTurnId = t
    BY <1>8 DEF Owner
  <2>2. PICK f : Finishes(session, r, f, t)
    BY <1>2, <1>3, <1>8, <2>1, FinishMoves
  <2>. QED BY <2>2 DEF Finishes
<1>9. Completes(t, r, TRUE)
  BY <1>2, <1>3, <1>4, <1>7, <1>8 DEF Completes
<1>10. ControlInv'
  <2>1. \A l \in BOOLEAN : Moves(t, l) /\ Steers(session, r, t, l) => ControlInv'
    BY <1>3, SteersControl DEF PacedInv
  <2>. QED BY <1>4, <1>5, <2>1
<1>11. TtsInv'
  <2>1. \A l \in BOOLEAN : Moves(t, l) /\ Steers(session, r, t, l) => TtsInv'
    BY <1>2, <1>6, AgentTts DEF PacedInv
  <2>. QED BY <1>4, <1>5, <2>1
<1>12. EndInv'
  <2>1. \A l \in BOOLEAN : Moves(t, l) /\ Steers(session, r, t, l) => EndInv'
    BY <1>3, StepEnd DEF PacedInv
  <2>. QED BY <1>4, <1>5, <2>1
<1>13. CompleteInv'
  <2>1. \A l \in BOOLEAN : Moves(t, l) /\ Steers(session, r, t, l) /\ Completes(t, r, l)
                           => CompleteInv'
    BY <1>2, StepComplete DEF PacedInv
  <2>. QED BY <1>4, <1>5, <1>9, <2>1
<1>. QED BY <1>10, <1>11, <1>12, <1>13 DEF PacedInv

(* The end of a call of t: a drain steers, and completes, without leaving.  *)
LEMMA DrainPaced ==
  ASSUME SafeInv, PacedInv, NEW t \in Turns, NEW r, NEW A, NEW B,
         Pipes(t, r, A, B), Steers(session, r, t, FALSE),
         UNCHANGED <<phase, aborted>>, Completes(t, r, FALSE), TtsInv'
  PROVE  PacedInv'
<1>1. Moves(t, FALSE)
  BY DEF Moves
<1>2. Begun(t) /\ Applies(r, A, B) /\ session' = r.s
  BY DEF Pipes, Applies
<1>3. ControlInv'
  <2>1. \A l \in BOOLEAN : Moves(t, l) /\ Steers(session, r, t, l) => ControlInv'
    BY <1>2, SteersControl DEF PacedInv
  <2>. QED BY <1>1, <2>1
<1>4. EndInv'
  <2>1. \A l \in BOOLEAN : Moves(t, l) /\ Steers(session, r, t, l) => EndInv'
    BY <1>2, StepEnd DEF PacedInv
  <2>. QED BY <1>1, <2>1
<1>5. CompleteInv'
  <2>1. \A l \in BOOLEAN : Moves(t, l) /\ Steers(session, r, t, l) /\ Completes(t, r, l)
                           => CompleteInv'
    BY StepComplete DEF PacedInv
  <2>. QED BY <1>1, <2>1
<1>. QED BY <1>3, <1>4, <1>5 DEF PacedInv

(* ... a synthesis that returns,                                            *)
LEMMA ReturnsPaced ==
  ASSUME SafeInv, PacedInv, NEW c \in synth, TtsReturns(c)
  PROVE  PacedInv'
<1> DEFINE t == c.turn
<1>1. \A e \in BOOLEAN :
        /\ t \in Turns /\ ~session.textDirect
        /\ \E r : /\ r = TtsDrainLoop(session, t)
                  /\ Pipes(t, r, synth \ {c}, speaking)
                  /\ Conveys(session, r, t, emitted[t], emitted[t], e)
  BY ReturnsPipes
<1>2. t \in Turns /\ ~session.textDirect
  BY <1>1
<1>3. PICK r : /\ r = TtsDrainLoop(session, t)
               /\ Pipes(t, r, synth \ {c}, speaking)
               /\ Conveys(session, r, t, emitted[t], emitted[t], TRUE)
  BY <1>1
<1>4. /\ Begun(t) /\ Effect(session, r, t) /\ Applies(r, synth \ {c}, speaking)
      /\ session' = r.s /\ session \in Session
      /\ \A u \in Turns : emitted[u] \in Nat
  BY <1>3, BoundAssumption DEF Pipes, Applies, SafeInv, TypeInv, TypeOK
<1>5. r = IF session.textDirect THEN SpeakDrainLoop(session, t)
                                ELSE TtsDrainLoop(session, t)
  BY <1>2, <1>3
<1>6. Steers(session, r, t, FALSE)
  BY <1>2, <1>4, <1>5, DrainLoopSteers
<1>7. Drains(session, r, t)
  BY <1>2, <1>3, <1>4, DrainLoopDrains
<1>8. /\ UNCHANGED <<phase, aborted>> /\ Settled
      /\ broken' = broken /\ emitted' = emitted
  BY DEF TtsReturns
<1>9. TtsInv'
  <2>1. Closes(c, r)
    BY <1>2, <1>3, <1>6, <1>7, <1>8 DEF Closes
  <2>. QED BY <2>1, DrainTts DEF PacedInv
<1>10. session.alive => Owner = t
  <2>1. c.turn \notin aborted
    BY <1>8, SettledCalm DEF PacedInv
  <2>. QED BY <2>1 DEF PacedInv, TtsInv
<1>11. session.alive /\ Owner = t
         => r.s.sentenceBuffer = session.sentenceBuffer
  BY <1>2, <1>4, <1>5, DrainLoopMoves DEF Loops, Owner
<1>12. Completes(t, r, FALSE)
  BY <1>3, <1>4, <1>8, <1>10, <1>11 DEF Completes
<1>. QED BY <1>2, <1>3, <1>6, <1>8, <1>9, <1>12, DrainPaced

(* ... a synthesis that rejects, by failure or by abort,                    *)
LEMMA RejectsPaced ==
  ASSUME SafeInv, PacedInv, NEW c \in synth, TtsRejects(c),
         UNCHANGED <<phase, aborted, emitted>>,
         \/ Settled /\ broken' = broken \cup {c.turn}
         \/ c.signal \in aborted /\ broken' = broken
  PROVE  PacedInv'
<1> DEFINE t == c.turn
<1>1. t \in Turns /\ ~session.textDirect
  BY RejectsPipes
<1>2. PICK r : /\ r = Yield(TtsDrainEnd(Update(session,
                              [session EXCEPT !.ttsQueue = <<>>]), t))
               /\ Pipes(t, r, synth \ {c}, speaking)
  BY RejectsPipes
<1>3. /\ Begun(t) /\ Effect(session, r, t) /\ Applies(r, synth \ {c}, speaking)
      /\ session' = r.s /\ session \in Session
      /\ \A u \in Turns : emitted[u] \in Nat
  BY <1>2, BoundAssumption DEF Pipes, Applies, SafeInv, TypeInv, TypeOK
<1>4. Steers(session, r, t, FALSE)
  BY <1>1, <1>2, <1>3, RejectSteers
<1>5. /\ Drains(session, r, t) /\ r.calls = {}
      /\ session.alive => r.s.ttsQueue = <<>> /\ ~r.s.ttsProcessing
  BY <1>1, <1>2, <1>3, RejectDrains
<1>6. ~r.hang
  BY <1>2 DEF Yield
<1>7. TtsInv'
  <2>1. Closes(c, r)
    BY <1>1, <1>2, <1>4, <1>5, <1>6 DEF Closes
  <2>. QED BY <2>1, DrainTts DEF PacedInv
<1>8. session.alive /\ Owner # t => Fresh
  <2>1. t \in aborted \/ (t \notin aborted /\ ~session.alive) \/ Owner = t
    BY DEF PacedInv, TtsInv
  <2>. QED BY <1>1, <2>1 DEF PacedInv, TtsInv, Pending
<1>9. session.alive /\ Owner = t => t \in broken'
  <2>1. session.alive /\ Owner = t => t \notin aborted
    BY DEF SafeInv, SignalInv, Owner
  <2>. QED BY <2>1 DEF PacedInv, TtsInv
<1>10. session.alive /\ Owner = t
         => r.s.sentenceBuffer = session.sentenceBuffer
  <2>1. PICK m : m = Update(session, [session EXCEPT !.ttsQueue = <<>>])
    OBVIOUS
  <2>2. PICK n : n = TtsDrainEnd(m, t)
    OBVIOUS
  <2>3. r = Yield(n)
    BY <1>2, <2>1, <2>2
  <2>4. r.s = n
    BY <2>3 DEF Yield
  <2>5. session.alive /\ Owner = t => Rejects(session, n, t)
    BY <1>1, <1>3, <2>1, <2>2, RejectMoves DEF Owner
  <2>. QED BY <2>4, <2>5 DEF Rejects
<1>11. t \notin broken' => Conveys(session, r, t, emitted[t], emitted'[t], TRUE)
  BY <1>9 DEF Conveys, Owner
<1>12. Completes(t, r, FALSE)
  BY <1>3, <1>8, <1>10, <1>11 DEF Completes
<1>. QED BY <1>1, <1>2, <1>4, <1>7, <1>12, DrainPaced

(* ... the end of a speak call,                                             *)
LEMMA SpeakPaced ==
  ASSUME SafeInv, PacedInv, NEW c \in speaking, SpeakReturns(c) \/ SpeakFails(c)
  PROVE  PacedInv'
<1> DEFINE t == c.turn
           S(r) == /\ r = SpeakDrainLoop(session, t) /\ broken' = broken
                   /\ Conveys(session, r, t, emitted[t], emitted[t], TRUE)
           F(r) == /\ r = Yield(SpeakDrainEnd(session, t))
                   /\ broken' = broken \cup {t}
<1>1. t \in Turns /\ session.textDirect
  <2>1. \A e \in BOOLEAN : t \in Turns /\ session.textDirect
    BY SpeakReturnsPipes, SpeakFailsPipes
  <2>. QED BY <2>1
<1>2. \E r : (S(r) \/ F(r)) /\ Pipes(t, r, synth, speaking \ {c})
  <2>1. CASE SpeakReturns(c)
    <3>1. \A e \in BOOLEAN :
            \E r : /\ r = SpeakDrainLoop(session, t)
                   /\ Pipes(t, r, synth, speaking \ {c})
                   /\ Conveys(session, r, t, emitted[t], emitted[t], e)
      BY <2>1, SpeakReturnsPipes
    <3>2. \E r : /\ r = SpeakDrainLoop(session, t)
                 /\ Pipes(t, r, synth, speaking \ {c})
                 /\ Conveys(session, r, t, emitted[t], emitted[t], TRUE)
      BY <3>1
    <3>. QED BY <2>1, <3>2 DEF SpeakReturns
  <2>2. CASE SpeakFails(c)
    <3>1. \A e \in BOOLEAN :
            \E r : /\ r = Yield(SpeakDrainEnd(session, t))
                   /\ Pipes(t, r, synth, speaking \ {c})
      BY <2>2, SpeakFailsPipes
    <3>2. \E r : /\ r = Yield(SpeakDrainEnd(session, t))
                 /\ Pipes(t, r, synth, speaking \ {c})
      BY <3>1
    <3>. QED BY <2>2, <3>2 DEF SpeakFails
  <2>. QED BY <2>1, <2>2
<1>3. PICK r : (S(r) \/ F(r)) /\ Pipes(t, r, synth, speaking \ {c})
  BY <1>2
<1>4. /\ Begun(t) /\ Effect(session, r, t) /\ Applies(r, synth, speaking \ {c})
      /\ session' = r.s /\ session \in Session
      /\ \A u \in Turns : emitted[u] \in Nat
      /\ session'.textDirect /\ session'.alive = session.alive
  <2>1. Pipes(t, r, synth, speaking \ {c})
    BY <1>3
  <2>2. /\ Begun(t) /\ Effect(session, r, t)
        /\ Applies(r, synth, speaking \ {c}) /\ session' = r.s
    BY <2>1 DEF Pipes, Applies
  <2>3. r.s.textDirect = session.textDirect /\ r.s.alive = session.alive
    BY <2>2 DEF Effect
  <2>4. session \in Session /\ \A u \in Turns : emitted[u] \in Nat
    BY BoundAssumption DEF SafeInv, TypeInv, TypeOK
  <2>. QED BY <1>1, <2>2, <2>3, <2>4
<1>5. Steers(session, r, t, FALSE)
  <2>1. CASE S(r)
    <3>1. r = IF session.textDirect THEN SpeakDrainLoop(session, t)
                                    ELSE TtsDrainLoop(session, t)
      BY <1>1, <2>1
    <3>. QED BY <1>1, <1>4, <3>1, DrainLoopSteers
  <2>2. CASE F(r)
    BY <1>1, <1>4, <2>2, SpeakEndSteers
  <2>. QED BY <1>3, <2>1, <2>2
<1>6. /\ TtsAlone(session, r.s)
      /\ session.alive /\ session.ttsTurnId # t => Queue(r.s) = Queue(session)
      /\ session.alive => r.s.sentenceBuffer = session.sentenceBuffer
  <2>1. r = SpeakDrainLoop(session, t) \/ r = Yield(SpeakDrainEnd(session, t))
    BY <1>3
  <2>. QED BY <1>1, <1>4, <2>1, SpeakAlone
<1>7. /\ UNCHANGED <<phase, aborted>> /\ Settled /\ emitted' = emitted
      /\ synth' = synth
  BY <1>1, <1>4 DEF SpeakReturns, SpeakFails, Applies
<1>8. TtsInv'
  BY <1>1, <1>4, <1>6, <1>7, SpeakTts DEF PacedInv
<1>9. broken \subseteq broken'
      /\ (t \notin broken'
            => Conveys(session, r, t, emitted[t], emitted'[t], TRUE))
  BY <1>3, <1>7
<1>10. Completes(t, r, FALSE)
  BY <1>4, <1>6, <1>7, <1>9 DEF Completes, Owner
<1>. QED BY <1>1, <1>3, <1>5, <1>7, <1>8, <1>10, DrainPaced

(* The handlers beside the pipelines. *)

(* ... an input that becomes a turn,                                        *)
LEMMA BeginPaced ==
  ASSUME Paced, SafeInv, WordsInv, PacedInv, NEW t \in Turns,
         TextInput(t) \/ AsrHears(t)
  PROVE  PacedInv'
<1>1. /\ BeginTurn(t) /\ phase[t] \in {"idle", "asr"}
      /\ UNCHANGED <<emitted, synth, hung, spoken, ended, broken>>
  BY DEF TextInput, AsrHears, history
<1>2. Entering \subseteq {t} /\ (phase[t] = "asr" \/ session.alive)
  <2>1. CASE TextInput(t)
    BY <2>1 DEF TextInput, ClientMaySend
  <2>2. CASE AsrHears(t)
    BY <2>2 DEF AsrHears, PacedInv, ControlInv, EntryInv, Entering
  <2>. QED BY <2>1, <2>2
<1>3. ControlInv'
  BY <1>1, <1>2, BeginControl DEF PacedInv
<1>4. TtsInv'
  BY <1>1, BeginTts DEF PacedInv
<1>5. EndInv'
  <2>1. /\ \A u \in Turns \ {t} : phase'[u] = phase[u]
        /\ aborted \subseteq aborted' /\ ended' = ended /\ ended \subseteq Turns
        /\ session' = InitTurn(session, t)
    BY <1>1 DEF BeginTurn, AbortPrevious, SafeInv, TypeInv, TypeOK
  <2>2. t \notin ended
    BY <1>1 DEF PacedInv, EndInv, SafeInv, SignalInv, Begun
  <2>3. session'.alive => Owner' = t
    BY <2>1 DEF InitTurn, Update, SafeInv, TypeInv, TypeOK, Session, Owner
  <2>. QED BY <2>1, <2>2, <2>3 DEF PacedInv, EndInv
<1>6. CompleteInv'
  BY <1>1, BeginComplete DEF PacedInv
<1>. QED BY <1>3, <1>4, <1>5, <1>6 DEF PacedInv

(* ... the steps of a turn that leave the session alone,                    *)
LEMMA PhasePaced ==
  ASSUME Paced, SafeInv, PacedInv, NEW t \in Turns,
         \/ AudioInput(t) \/ AsrRefuses(t) \/ TurnStartFails(t) \/ TurnEnded(t)
  PROVE  PacedInv'
<1>1. /\ UNCHANGED <<session, emitted, aborted, synth, hung, spoken, ended,
                     broken>>
      /\ Settled /\ phase \in [Turns -> Phase]
      /\ \A u \in Turns \ {t} : phase'[u] = phase[u]
  BY DEF AudioInput, AsrRefuses, TurnStartFails, TurnEnded, ClientMaySend,
         SafeInv, TypeInv, TypeOK, history
<1>2. \/ /\ phase[t] = "idle" /\ phase'[t] = "asr" /\ Entering = {}
         /\ session.alive
      \/ phase[t] \in {"asr", "starting"} /\ phase'[t] = "refused"
      \/ phase[t] = "ending" /\ phase'[t] = "over"
  BY <1>1 DEF AudioInput, AsrRefuses, TurnStartFails, TurnEnded, ClientMaySend
<1>3. LiveRun' = LiveRun
  BY <1>1, <1>2 DEF LiveRun, Running
<1>4. ControlInv'
  <2>1. /\ \A u, v \in Entering' : u = v
        /\ ~session.alive => Entering' \subseteq Entering
    BY <1>1, <1>2 DEF PacedInv, ControlInv, EntryInv, Entering
  <2>2. EntryInv'
    BY <1>1, <1>2, <1>3, <2>1 DEF PacedInv, ControlInv, EntryInv, Owner
  <2>3. AgentInv'
    BY <1>1, <1>3, <2>1 DEF PacedInv, ControlInv, AgentInv, Owner
  <2>4. FlagInv'
    BY <1>1, <1>2 DEF PacedInv, ControlInv, FlagInv, Owner
  <2>. QED BY <2>2, <2>3, <2>4 DEF ControlInv
<1>5. TtsInv'
  <2>1. Running' \cap aborted \subseteq Running
    BY <1>1, <1>2 DEF Running
  <2>2. TtsInv /\ TtsAlone(session, session')
    BY <1>1 DEF PacedInv, TtsAlone
  <2>3. UNCHANGED <<aborted, synth, hung>> /\ Settled
    BY <1>1
  <2>4. /\ session'.alive = session.alive
        /\ session'.textDirect = session.textDirect
        /\ session'.ttsTurnId = session.ttsTurnId
    BY <1>1
  <2>. QED BY <2>1, <2>2, <2>3, <2>4, AsideTts
<1>6. EndInv'
  <2>1. \A u \in ended \ aborted : phase[u] \in {"ending", "over"}
    BY DEF PacedInv, EndInv
  <2>2. ended \subseteq Turns
    BY DEF SafeInv, TypeInv, TypeOK
  <2>3. \A u \in ended \ aborted : phase'[u] \in {"ending", "over"}
    BY <1>1, <1>2, <2>1, <2>2
  <2>. QED BY <1>1, <1>2, <2>3 DEF PacedInv, EndInv, Owner
<1>7. CompleteInv'
  <2>1. session.alive => (Blank' => Blank)
    BY <1>1, <1>2 DEF Blank, Owner, PacedInv, ControlInv, EntryInv
  <2>. QED BY <1>1, <2>1, AsideComplete DEF PacedInv
<1>. QED BY <1>4, <1>5, <1>6, <1>7 DEF PacedInv

(* ... the start of its agent,                                              *)
LEMMA StartedPaced ==
  ASSUME SafeInv, PacedInv, NEW t \in Turns, TurnStarted(t)
  PROVE  PacedInv'
<1>1. /\ UNCHANGED <<emitted, aborted, synth, hung, spoken, ended, broken>>
      /\ Settled /\ phase \in [Turns -> Phase]
      /\ phase[t] = "starting" /\ phase'[t] = "running"
      /\ \A u \in Turns \ {t} : phase'[u] = phase[u]
  BY DEF TurnStarted, SafeInv, TypeInv, TypeOK, history
<1>2. /\ session'.alive = session.alive
      /\ session'.textDirect = session.textDirect
      /\ session'.ttsTurnId = session.ttsTurnId
      /\ session'.activeTurnId = session.activeTurnId
      /\ session'.ttsStarted = session.ttsStarted
      /\ session'.ttsFinalizeRequested = session.ttsFinalizeRequested
      /\ session'.sentenceBuffer = session.sentenceBuffer
      /\ Queue(session') = Queue(session) /\ TtsAlone(session, session')
      /\ session.alive => session'.abortController = t
      /\ ~session.alive => session'.abortController = session.abortController
  BY DEF TurnStarted, Update, SafeInv, TypeInv, TypeOK, Session, Queue, TtsAlone
<1>3. t \notin aborted
  BY <1>1 DEF SafeInv, SignalInv, Begun
<1>4. LiveRun' = {t} /\ Entering' = {} /\ (session.alive => Owner = t)
  <2>1. LiveRun = {} /\ (session.alive => Owner = t)
    BY <1>1 DEF PacedInv, ControlInv, EntryInv
  <2>2. Entering = {t}
    BY <1>1 DEF PacedInv, ControlInv, EntryInv, Entering
  <2>3. LiveRun' = {t}
    BY <1>1, <1>3, <2>1 DEF LiveRun, Running
  <2>4. Entering' = {}
    BY <1>1, <2>2 DEF Entering
  <2>. QED BY <2>1, <2>3, <2>4
<1>5. ControlInv'
  <2>1. EntryInv'
    BY <1>1, <1>2, <1>4 DEF PacedInv, ControlInv, EntryInv, Owner, Entering
  <2>2. AgentInv'
    BY <1>1, <1>2, <1>4 DEF PacedInv, ControlInv, AgentInv, Owner
  <2>3. FlagInv'
    BY <1>1, <1>2, <1>4 DEF PacedInv, ControlInv, FlagInv, Owner
  <2>. QED BY <2>1, <2>2, <2>3 DEF ControlInv
<1>6. TtsInv'
  <2>1. Running' \cap aborted \subseteq Running
    BY <1>1, <1>3 DEF Running
  <2>2. TtsInv
    BY DEF PacedInv
  <2>3. UNCHANGED <<aborted, synth, hung>> /\ Settled
    BY <1>1
  <2>. QED BY <1>2, <2>1, <2>2, <2>3, AsideTts
<1>7. EndInv'
  <2>1. \A u \in ended \ aborted : phase[u] \in {"ending", "over"}
    BY DEF PacedInv, EndInv
  <2>2. ended \subseteq Turns
    BY DEF SafeInv, TypeInv, TypeOK
  <2>3. \A u \in ended \ aborted : phase'[u] \in {"ending", "over"}
    BY <1>1, <1>2, <2>1, <2>2
  <2>. QED BY <1>1, <1>2, <2>3 DEF PacedInv, EndInv, Owner
<1>8. CompleteInv'
  <2>1. Blank' => Blank
    BY <1>1, <1>2 DEF Blank, Owner
  <2>. QED BY <1>1, <1>2, <2>1, AsideComplete DEF PacedInv
<1>. QED BY <1>5, <1>6, <1>7, <1>8 DEF PacedInv

(* ... an interrupt,                                                        *)
LEMMA InterruptPaced ==
  ASSUME Paced, SafeInv, PacedInv, Interrupt
  PROVE  PacedInv'
<1>1. /\ UNCHANGED <<phase, emitted, synth, hung, spoken, broken>>
      /\ session.alive /\ Entering = {}
      /\ aborted' = aborted \cup ({session.abortController} \ {NoTurn})
      /\ ended' = ended \cup (IF session.ttsStarted
                              THEN {session.ttsTurnId} \ {NoTurn} ELSE {})
  BY DEF Interrupt, ClientMaySend
<1>2. /\ session'.alive = session.alive
      /\ session'.textDirect = session.textDirect
      /\ session'.ttsTurnId = NoTurn /\ session'.activeTurnId = NoTurn
      /\ session'.abortController = NoTurn
      /\ ~session'.ttsStarted /\ ~session'.ttsFinalizeRequested
      /\ session'.sentenceBuffer = <<>> /\ Queue(session') = <<>>
      /\ ~session'.ttsProcessing /\ session'.ttsQueue = <<>>
  BY DEF Interrupt, SafeInv, TypeInv, TypeOK, Session, Queue
<1>3. LiveRun' = {} /\ Entering' = {}
  <2>1. \A u \in LiveRun : session.abortController = u /\ u # NoTurn
    BY <1>1, TurnsAssumption
       DEF PacedInv, ControlInv, AgentInv, LiveRun, Running
  <2>2. LiveRun' \subseteq LiveRun
    BY <1>1 DEF LiveRun, Running
  <2>. QED BY <1>1, <2>1, <2>2 DEF LiveRun, Entering
<1>4. ControlInv'
  <2>1. \A u \in Turns : phase'[u] # "starting"
    BY <1>3 DEF Entering
  <2>. QED BY <1>1, <1>2, <1>3, <2>1, TurnsAssumption
           DEF ControlInv, EntryInv, AgentInv, FlagInv, Owner
<1>5. TtsInv'
  <2>1. Fresh'
    BY <1>2 DEF Fresh, Owner
  <2>. QED BY <1>1, <1>2, <2>1, TakeTts DEF PacedInv
<1>6. session.ttsStarted => /\ Owner \in aborted' /\ Owner \in Turns
                            /\ phase[Owner] \in {"running", "ending", "over"}
  <2>1. ASSUME session.ttsStarted
        PROVE  /\ Owner \in aborted' /\ Owner \in Turns
               /\ phase[Owner] \in {"running", "ending", "over"}
    <3>1. Owner \in Turns /\ phase[Owner] \in {"running", "ending", "over"}
      BY <1>1, <2>1 DEF PacedInv, ControlInv, FlagInv
    <3>2. session.abortController # NoTurn
      BY <1>1, <3>1 DEF SafeInv, SignalInv, Owner
    <3>3. session.abortController = Owner
      BY <3>2 DEF PacedInv, ControlInv, AgentInv
    <3>. QED BY <1>1, <3>1, <3>2, <3>3
  <2>. QED BY <2>1
<1>7. \A u \in ended' \ aborted' : u \in ended \ aborted
  BY <1>1, <1>6 DEF Owner
<1>8. EndInv'
  <2>1. NoTurn \notin ended'
    BY <1>1, TurnsAssumption DEF SafeInv, TypeInv, TypeOK
  <2>. QED BY <1>1, <1>2, <1>7, <2>1 DEF PacedInv, EndInv, Owner
<1>9. CompleteInv'
  BY <1>1, <1>2, <1>7, TurnsAssumption DEF PacedInv, CompleteInv, Owner
<1>. QED BY <1>4, <1>5, <1>8, <1>9 DEF PacedInv

(* ... and a disconnect.                                                    *)
LEMMA DisconnectPaced ==
  ASSUME SafeInv, PacedInv, Disconnect
  PROVE  PacedInv'
<1>1. /\ UNCHANGED <<phase, emitted, synth, hung, spoken, ended, broken>>
      /\ session.alive
      /\ aborted' = aborted \cup ({session.abortController} \ {NoTurn})
  BY DEF Disconnect, history
<1>2. /\ ~session'.alive
      /\ session'.textDirect = session.textDirect
      /\ session'.ttsTurnId = session.ttsTurnId
      /\ session'.activeTurnId = session.activeTurnId
      /\ session'.abortController = session.abortController
      /\ TtsAlone(session, session')
  BY DEF Disconnect, SafeInv, TypeInv, TypeOK, Session, TtsAlone
<1>3. LiveRun' = {} /\ Entering' = Entering
  <2>1. \A u \in LiveRun : session.abortController = u /\ u # NoTurn
    BY <1>1, TurnsAssumption
       DEF PacedInv, ControlInv, AgentInv, LiveRun, Running
  <2>2. LiveRun' \subseteq LiveRun
    BY <1>1 DEF LiveRun, Running
  <2>. QED BY <1>1, <2>1, <2>2 DEF LiveRun, Entering
<1>4. ControlInv'
  BY <1>1, <1>2, <1>3
     DEF PacedInv, ControlInv, EntryInv, AgentInv, FlagInv, Owner
<1>5. TtsInv'
  <2>1. Fresh'
    BY <1>2 DEF Fresh
  <2>. QED BY <1>1, <1>2, <2>1, TakeTts DEF PacedInv
<1>6. EndInv'
  BY <1>1, <1>2 DEF PacedInv, EndInv
<1>7. CompleteInv'
  BY <1>1, <1>2, AsideComplete DEF PacedInv
<1>. QED BY <1>4, <1>5, <1>6, <1>7 DEF PacedInv

(* So every step does.                                                      *)
LEMMA PacedStep ==
  ASSUME Paced
  PROVE  SafeInv /\ WordsInv /\ PacedInv /\ [Next]_vars => PacedInv'
<1>. SUFFICES ASSUME SafeInv, WordsInv, PacedInv, [Next]_vars
              PROVE  PacedInv'
  OBVIOUS
<1>1. ASSUME ClientStep
      PROVE  PacedInv'
  BY <1>1, BeginPaced, PhasePaced, InterruptPaced, DisconnectPaced DEF ClientStep
<1>2. ASSUME AgentStep
      PROVE  PacedInv'
  BY <1>2, TokenPaced DEF AgentStep
<1>3. ASSUME NEW t \in Turns,
             \/ AsrHears(t) \/ AsrRefuses(t)
             \/ TurnStarted(t) \/ TurnStartFails(t)
             \/ \E status \in Outcome \ {"none"} : AgentSettles(t, status)
             \/ AgentAborted(t) \/ TurnEnded(t)
      PROVE  PacedInv'
  BY <1>3, BeginPaced, PhasePaced, StartedPaced, LeavesPaced
     DEF AgentSettles, AgentAborted
<1>4. ASSUME NEW c \in synth, TtsReturns(c) \/ TtsFails(c) \/ TtsAborted(c)
      PROVE  PacedInv'
  BY <1>4, ReturnsPaced, RejectsPaced DEF TtsFails, TtsAborted
<1>5. ASSUME NEW c \in speaking, SpeakReturns(c) \/ SpeakFails(c)
      PROVE  PacedInv'
  BY <1>5, SpeakPaced
<1>6. ASSUME UNCHANGED vars
      PROVE  PacedInv'
  <2>1. /\ UNCHANGED <<session, phase, emitted, aborted, synth, hung, spoken,
                       ended, broken>>
    BY <1>6 DEF vars
  <2>2. ControlInv'
    BY <2>1 DEF PacedInv, ControlInv, EntryInv, AgentInv, FlagInv, Owner,
                LiveRun, Running, Entering
  <2>3. TtsInv'
    BY <2>1 DEF PacedInv, TtsInv, Pending, Fresh, Owner
  <2>4. EndInv'
    BY <2>1 DEF PacedInv, EndInv, Owner
  <2>5. CompleteInv'
    <3>1. Blank' => Blank
      BY <2>1 DEF Blank, Owner
    <3>. QED BY <2>1, <3>1, AsideComplete DEF PacedInv
  <2>. QED BY <2>2, <2>3, <2>4, <2>5 DEF PacedInv
<1>. QED BY <1>1, <1>2, <1>3, <1>4, <1>5, <1>6 DEF Next, Settling

(* It holds in every reachable state.                                       *)
LEMMA PacedInvariant ==
  ASSUME Paced
  PROVE  Spec => []PacedInv
<1>1. Init => PacedInv
  BY PacedInit
<1>2. SafeInv /\ WordsInv /\ PacedInv /\ [Next]_vars => PacedInv'
  BY PacedStep
<1>. QED
  BY <1>1, <1>2, SafeInvariant, WordsInvariant, PTL DEF Spec

-----------------------------------------------------------------------------
(* The properties, of a client that waits for its last turn to start. *)

(* A new input, an interrupt and a disconnect abort the one agent there is: *)
(* two agents that nobody stopped are the same agent.                       *)
THEOREM AgentsAlone ==
  ASSUME Paced
  PROVE  Spec => []OneAgent
<1>1. PacedInv => OneAgent
  <2>. SUFFICES ASSUME PacedInv
                PROVE  \A t, u \in LiveRun : t = u
    BY DEF OneAgent, LiveRun
  <2>. QED BY DEF PacedInv, ControlInv, AgentInv
<1>. QED BY <1>1, PacedInvariant, PTL

(* The controller a registered session holds is the one of the agent that   *)
(* runs for it, so interrupt, a new input and disconnect reach that agent.  *)
THEOREM AgentReached ==
  ASSUME Paced
  PROVE  Spec => []InterruptReachesAgent
<1>1. PacedInv => InterruptReachesAgent
  BY DEF PacedInv, ControlInv, AgentInv, LiveRun, InterruptReachesAgent
<1>. QED BY <1>1, PacedInvariant, PTL

(* The provider synthesises one sentence at a time: drain never runs twice  *)
(* over one queue, whatever was aborted or failed before.                   *)
THEOREM SynthesisSerial ==
  ASSUME Paced
  PROVE  Spec => []SerialSynthesis
<1>1. PacedInv => SerialSynthesis
  <2>. SUFFICES ASSUME PacedInv, NEW c \in synth, NEW d \in synth,
                       {c.signal, d.signal} \cap aborted = {}
                PROVE  c = d
    BY DEF SerialSynthesis
  <2>1. c.turn \notin aborted /\ d.turn \notin aborted
    BY DEF PacedInv, TtsInv
  <2>. QED BY <2>1 DEF PacedInv, TtsInv
<1>. QED BY <1>1, PacedInvariant, PTL

(* A sentence in the queue of a registered session has a synthesis of the   *)
(* session's turn in flight, whose drain will come back for it.             *)
THEOREM QueueDrained ==
  ASSUME Paced
  PROVE  Spec => []QueueHasDrain
<1>1. PacedInv => QueueHasDrain
  <2>. SUFFICES ASSUME PacedInv, session.alive, session.ttsQueue # <<>>
                PROVE  \E c \in synth : c.turn = session.ttsTurnId
    BY DEF QueueHasDrain
  <2>1. PICK c \in synth : c.turn \notin aborted
    BY DEF PacedInv, TtsInv
  <2>. QED BY <2>1 DEF PacedInv, TtsInv, Owner
<1>. QED BY <1>1, PacedInvariant, PTL

(* The drain of a deleted session's queue, which would loop without ever    *)
(* awaiting, never comes to run: what it waited for was aborted.            *)
THEOREM NoDrainSpins ==
  ASSUME Paced
  PROVE  Spec => []NeverSpins
<1>1. PacedInv => NeverSpins
  BY Zenon DEF PacedInv, TtsInv, NeverSpins
<1>. QED BY <1>1, PacedInvariant, PTL

(* tts:end is said of a turn after its last synthesis, unless the turn was  *)
(* aborted.                                                                 *)
THEOREM EndIsLast ==
  ASSUME Paced
  PROVE  Spec => []EndedIsSilent
<1>1. PacedInv => EndedIsSilent
  <2>. SUFFICES ASSUME PacedInv, NEW c \in synth, c.turn \in ended,
                       c.turn \notin aborted
                PROVE  FALSE
    BY DEF EndedIsSilent, PacedInv, TtsInv
  <2>1. session.alive
    BY DEF PacedInv, TtsInv
  <2>2. c.turn = Owner
    BY <2>1 DEF PacedInv, TtsInv
  <2>. QED BY <2>1, <2>2 DEF PacedInv, EndInv
<1>. QED BY <1>1, PacedInvariant, PTL

(* A turn that ended undisturbed was handed to the provider token by token, *)
(* from its first to its last.                                              *)
THEOREM EndIsWhole ==
  ASSUME Paced
  PROVE  Spec => []EndedIsComplete
<1>1. SafeInv /\ PacedInv => EndedIsComplete
  <2>. SUFFICES ASSUME SafeInv, PacedInv, NEW t \in ended \ (broken \cup aborted)
                PROVE  spoken[t] = [k \in 1 .. emitted[t] |-> <<t, k>>]
    BY DEF EndedIsComplete
  <2>1. /\ t \in Turns /\ emitted[t] \in Nat
        /\ spoken[t] \in Seq(Turns \X Nat)
    BY DEF SafeInv, TypeInv, TypeOK, Text, Tokens
  <2>2. /\ Len(spoken[t]) = emitted[t]
        /\ \A i \in 1 .. Len(spoken[t]) :
             spoken[t][i][1] = t /\ spoken[t][i][2] = i
    BY <2>1 DEF PacedInv, CompleteInv, Piece
  <2>3. \A i \in 1 .. emitted[t] : spoken[t][i] = <<t, i>>
    <3>1. \A i \in 1 .. emitted[t] : spoken[t][i] \in Turns \X Nat
      BY <2>1, <2>2
    <3>2. \A x \in Turns \X Nat : x = <<x[1], x[2]>>
      OBVIOUS
    <3>. QED BY <2>2, <3>1, <3>2
  <2>4. spoken[t] = [k \in 1 .. Len(spoken[t]) |-> spoken[t][k]]
    BY <2>1
  <2>. QED BY <2>2, <2>3, <2>4
<1>. QED BY <1>1, SafeInvariant, PacedInvariant, PTL

==============================================================================
