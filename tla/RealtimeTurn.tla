---------------------------- MODULE RealtimeTurn ----------------------------
(***************************************************************************)
(* One realtime voice session: the turns a client starts by text or by     *)
(* audio, the agent run of every turn, the pipeline that speaks the answer *)
(* sentence by sentence, the interrupt and the disconnect.                 *)
(*                                                                         *)
(* The gateway is one JavaScript event loop, so an action is the code      *)
(* between two awaits and the actions interleave freely, with one          *)
(* restriction: the rejection caused by an abort is a microtask and runs   *)
(* before any other event is taken from the loop (Settled).                *)
(*                                                                         *)
(* A token stands for a piece of the answer without a sentence boundary    *)
(* inside it; it is the pair of its turn and its rank in the answer.       *)
(***************************************************************************)
EXTENDS Naturals, Sequences, FiniteSets

CONSTANTS
  Turns,            \* the turns the client may start (turnId = randomUUID())
  NoTurn,           \* null, for turn ids and for controllers
  DrainController,  \* the AbortController a drain creates when it finds none
  MaxTokens,        \* bound: tokens of one answer
  Modes,            \* may the session speak through speak(), through TTS?
  Paced             \* the client sends nothing before its last turn started

ASSUME TurnsAssumption ==
  /\ NoTurn \notin Turns
  /\ DrainController \notin Turns \cup {NoTurn}
ASSUME BoundAssumption == MaxTokens \in Nat
ASSUME ModeAssumption == Modes \subseteq BOOLEAN /\ Paced \in BOOLEAN

VARIABLES
  session,   \* the RealtimeSession object, and whether it is registered
  phase,     \* where the handler of a turn stands
  emitted,   \* how many tokens the agent of a turn has produced
  outcome,   \* the status the turn ends with
  aborted,   \* the controllers whose signal is aborted
  synth,     \* the TTS provider calls in flight
  speaking,  \* the digital human speak() calls in flight
  hung,      \* a drain loops without ever awaiting: the event loop is lost
  spoken,    \* history: the tokens handed to a provider, in order, by turn
  ended,     \* history: turns whose tts:end / digital-human:end was due
  broken,    \* history: turns with a failed provider call
  reported   \* history: turns whose conversation:done or error was sent

vars == <<session, phase, emitted, outcome, aborted, synth, speaking, hung,
          spoken, ended, broken, reported>>
history == <<spoken, ended, broken, reported>>

Controllers == Turns \cup {DrainController}
Tokens == Turns \X (1 .. MaxTokens)
Text   == Seq(Tokens)
Call   == [turn : Turns, text : Text, signal : Controllers]
Speech == [turn : Turns, text : Text]

Session ==
  [alive : BOOLEAN,
   textDirect : BOOLEAN,
   activeTurnId : Turns \cup {NoTurn},
   abortController : Controllers \cup {NoTurn},
   sentenceBuffer : Text,
   ttsTurnId : Turns \cup {NoTurn},
   ttsQueue : Seq(Text),
   ttsProcessing : BOOLEAN,
   ttsStarted : BOOLEAN,
   ttsFinalizeRequested : BOOLEAN,
   speakQueue : Seq(Text),
   speakProcessing : BOOLEAN]

Phase == {"idle", "asr", "starting", "running", "ending", "over", "refused"}
Outcome == {"none", "completed", "interrupted", "failed"}

TypeOK ==
  /\ session \in Session
  /\ phase \in [Turns -> Phase]
  /\ emitted \in [Turns -> 0 .. MaxTokens]
  /\ outcome \in [Turns -> Outcome]
  /\ aborted \subseteq Controllers
  /\ synth \subseteq Call
  /\ speaking \subseteq Speech
  /\ hung \in BOOLEAN
  /\ spoken \in [Turns -> Text]
  /\ ended \subseteq Turns
  /\ broken \subseteq Turns
  /\ reported \subseteq Turns

Init ==
  /\ \E mode \in Modes :
       session = [alive |-> TRUE, textDirect |-> mode,
                  activeTurnId |-> NoTurn, abortController |-> NoTurn,
                  sentenceBuffer |-> <<>>,
                  ttsTurnId |-> NoTurn, ttsQueue |-> <<>>,
                  ttsProcessing |-> FALSE, ttsStarted |-> FALSE,
                  ttsFinalizeRequested |-> FALSE,
                  speakQueue |-> <<>>, speakProcessing |-> FALSE]
  /\ phase = [t \in Turns |-> "idle"]
  /\ emitted = [t \in Turns |-> 0]
  /\ outcome = [t \in Turns |-> "none"]
  /\ aborted = {}
  /\ synth = {}
  /\ speaking = {}
  /\ hung = FALSE
  /\ spoken = [t \in Turns |-> <<>>]
  /\ ended = {}
  /\ broken = {}
  /\ reported = {}

-----------------------------------------------------------------------------
(* RealtimeSessionRegistry.  Every write goes through the registry, which   *)
(* ignores it once the session is deleted; handlers keep reading the object.*)

Update(s, new) == IF s.alive THEN new ELSE s

(* Mutants: the controller or the half sentence of the previous turn        *)
(* survives into the next.                                                  *)
InitTurnKeepsController(s, t) ==
  Update(s, [s EXCEPT !.activeTurnId = t, !.sentenceBuffer = <<>>,
                      !.ttsTurnId = t,
                      !.ttsQueue = <<>>, !.ttsProcessing = FALSE,
                      !.ttsStarted = FALSE, !.ttsFinalizeRequested = FALSE,
                      !.speakQueue = <<>>, !.speakProcessing = FALSE])

InitTurnKeepsBuffer(s, t) ==
  Update(s, [s EXCEPT !.activeTurnId = t,
                      !.abortController = NoTurn, !.ttsTurnId = t,
                      !.ttsQueue = <<>>, !.ttsProcessing = FALSE,
                      !.ttsStarted = FALSE, !.ttsFinalizeRequested = FALSE,
                      !.speakQueue = <<>>, !.speakProcessing = FALSE])

InitTurn(s, t) ==
  Update(s, [s EXCEPT !.activeTurnId = t, !.sentenceBuffer = <<>>,
                      !.abortController = NoTurn, !.ttsTurnId = t,
                      !.ttsQueue = <<>>, !.ttsProcessing = FALSE,
                      !.ttsStarted = FALSE, !.ttsFinalizeRequested = FALSE,
                      !.speakQueue = <<>>, !.speakProcessing = FALSE])

(* Mutant: the turn keeps the session. *)
ResetKeepsTurn(s, t) ==
  Update(s, [s EXCEPT !.ttsStarted = FALSE, !.ttsFinalizeRequested = FALSE,
                      !.abortController = NoTurn])

ResetTurnState(s, t) ==
  Update(s, [s EXCEPT !.ttsTurnId = NoTurn, !.ttsStarted = FALSE,
                      !.ttsFinalizeRequested = FALSE,
                      !.activeTurnId = IF @ = t THEN NoTurn ELSE @,
                      !.abortController = NoTurn])

-----------------------------------------------------------------------------
(* What a synchronous stretch of pipeline code yields: the session it       *)
(* leaves, the provider calls it started, and whether it never returns.     *)

Yield(s) == [s |-> s, calls |-> {}, hang |-> FALSE]

(* TtsPipelineService *)

(* Mutant: completes although a synthesis is in flight. *)
TtsCompleteTurnEarly(s, t) ==
  IF s.ttsTurnId = t /\ s.ttsQueue = <<>> /\ s.ttsFinalizeRequested
  THEN ResetTurnState(s, t)
  ELSE s

TtsCompleteTurn(s, t) ==
  IF /\ s.ttsTurnId = t
     /\ ~s.ttsProcessing
     /\ s.ttsQueue = <<>>
     /\ s.ttsFinalizeRequested
  THEN ResetTurnState(s, t)
  ELSE s

TtsMarkFinalize(s, t) ==
  IF s.ttsTurnId = t
  THEN TtsCompleteTurn(Update(s, [s EXCEPT !.ttsFinalizeRequested = TRUE]), t)
  ELSE s

(* Mutant: leaves the completion to markFinalize, which may have passed. *)
TtsDrainEndSilently(s, t) ==
  Update(s, [s EXCEPT !.ttsProcessing = FALSE])

(* The finally block of drain. *)
TtsDrainEnd(s, t) ==
  TtsCompleteTurn(Update(s, [s EXCEPT !.ttsProcessing = FALSE]), t)

(* One round of the while loop of drain, up to its await or to its exit.    *)
(* On a deleted session the shift yields undefined and the loop continues.  *)
TtsDrainLoop(s, t) ==
  LET signal == IF s.abortController = NoTurn THEN DrainController
                                              ELSE s.abortController
  IN CASE s.ttsQueue = <<>> \/ s.ttsTurnId # t -> Yield(TtsDrainEnd(s, t))
       [] s.ttsQueue # <<>> /\ s.ttsTurnId = t /\ s.alive ->
            [s |-> [s EXCEPT !.ttsQueue = Tail(@), !.abortController = signal],
             calls |-> {[turn |-> t, text |-> Head(s.ttsQueue),
                         signal |-> signal]},
             hang |-> FALSE]
       [] OTHER -> [s |-> s, calls |-> {}, hang |-> TRUE]

(* Mutant: every sentence starts a drain of its own. *)
TtsDrainAnyway(s, t) ==
  IF s.ttsTurnId # t
  THEN Yield(s)
  ELSE TtsDrainLoop(Update(s, [s EXCEPT !.ttsProcessing = TRUE,
                                        !.ttsStarted = TRUE]), t)

TtsDrain(s, t) ==
  IF s.ttsProcessing \/ s.ttsTurnId # t
  THEN Yield(s)
  ELSE TtsDrainLoop(Update(s, [s EXCEPT !.ttsProcessing = TRUE,
                                        !.ttsStarted = TRUE]), t)

TtsEnqueue(s, t, text) ==
  TtsDrain(Update(s, [s EXCEPT !.ttsQueue = Append(@, text)]), t)

(* SpeakPipelineService: the same shape, without a signal to abort. *)

SpeakCompleteTurn(s, t) ==
  IF /\ s.ttsTurnId = t
     /\ ~s.speakProcessing
     /\ s.speakQueue = <<>>
     /\ s.ttsFinalizeRequested
  THEN ResetTurnState(s, t)
  ELSE s

SpeakMarkFinalize(s, t) ==
  IF s.ttsTurnId = t
  THEN SpeakCompleteTurn(Update(s, [s EXCEPT !.ttsFinalizeRequested = TRUE]), t)
  ELSE s

SpeakDrainEnd(s, t) ==
  SpeakCompleteTurn(Update(s, [s EXCEPT !.speakProcessing = FALSE]), t)

SpeakDrainLoop(s, t) ==
  CASE s.speakQueue = <<>> \/ s.ttsTurnId # t -> Yield(SpeakDrainEnd(s, t))
    [] s.speakQueue # <<>> /\ s.ttsTurnId = t /\ s.alive ->
         [s |-> [s EXCEPT !.speakQueue = Tail(@)],
          calls |-> {[turn |-> t, text |-> Head(s.speakQueue)]},
          hang |-> FALSE]
    [] OTHER -> [s |-> s, calls |-> {}, hang |-> TRUE]

SpeakDrain(s, t) ==
  IF s.speakProcessing \/ s.ttsTurnId # t
  THEN Yield(s)
  ELSE SpeakDrainLoop(Update(s, [s EXCEPT !.speakProcessing = TRUE,
                                          !.ttsStarted = TRUE]), t)

SpeakEnqueue(s, t, text) ==
  SpeakDrain(Update(s, [s EXCEPT !.speakQueue = Append(@, text)]), t)

-----------------------------------------------------------------------------
(* AgentPipelineService: the sentence buffer between agent and pipeline.    *)

SendToPipeline(s, t, text) ==
  IF s.textDirect THEN SpeakEnqueue(s, t, text) ELSE TtsEnqueue(s, t, text)

MarkFinalize(s, t) ==
  IF s.textDirect THEN SpeakMarkFinalize(s, t) ELSE TtsMarkFinalize(s, t)

(* flushBuffer: the buffer goes out when the new token ends a sentence, or  *)
(* at the end of the answer.                                                *)
FlushBuffer(s, t, token, sends) ==
  LET filled == Update(s, [s EXCEPT !.sentenceBuffer = @ \o token])
  IN CASE s.ttsTurnId # t -> Yield(s)
       [] s.ttsTurnId = t /\ (~sends \/ filled.sentenceBuffer = <<>>) ->
            Yield(filled)
       [] OTHER ->
            SendToPipeline(Update(filled, [filled EXCEPT !.sentenceBuffer = <<>>]),
                           t, filled.sentenceBuffer)

(* Mutant: asks for the end before the rest of the answer is queued. *)
FinishAnswerMarkFirst(s, t) ==
  LET flushed == FlushBuffer(MarkFinalize(s, t), t, <<>>, TRUE)
  IN [s |-> Update(flushed.s, [flushed.s EXCEPT !.sentenceBuffer = <<>>]),
      calls |-> flushed.calls,
      hang |-> flushed.hang]

(* The synchronous part of the finally block of run. *)
FinishAnswer(s, t) ==
  LET flushed == FlushBuffer(s, t, <<>>, TRUE)
      marked  == MarkFinalize(flushed.s, t)
  IN IF flushed.hang
     THEN flushed
     ELSE [s |-> Update(marked, [marked EXCEPT !.sentenceBuffer = <<>>]),
           calls |-> flushed.calls,
           hang |-> FALSE]

-----------------------------------------------------------------------------
(* The steps of the event loop. *)

(* A pipeline step leaves the session r.s, starts r.calls beside the calls  *)
(* that stay in flight, and, when it takes a turn off the session, sends    *)
(* the end event of that turn.                                              *)
Applies(r, synthLeft, speakingLeft) ==
  /\ session' = r.s
  /\ hung' = r.hang
  /\ synth' = IF session.textDirect THEN synthLeft ELSE synthLeft \cup r.calls
  /\ speaking' = IF session.textDirect THEN speakingLeft \cup r.calls ELSE speakingLeft
  /\ ended' = ended \cup ({session.ttsTurnId} \ {r.s.ttsTurnId, NoTurn})
  /\ spoken' = [t \in Turns |->
                  IF \E c \in r.calls : c.turn = t
                  THEN spoken[t] \o (CHOOSE c \in r.calls : c.turn = t).text
                  ELSE spoken[t]]

(* The answers of a turn are under way, or its handler awaits before them. *)
Entering == {t \in Turns : phase[t] \in {"asr", "starting"}}
Running  == {t \in Turns : phase[t] = "running"}

(* No abort is waiting to be noticed: its rejection is a microtask. *)
Settled ==
  /\ ~hung
  /\ Running \cap aborted = {}
  /\ \A c \in synth : c.signal \notin aborted

(* The client may send: any time, or only once its last turn has started. *)
ClientMaySend == Settled /\ session.alive /\ (Paced => Entering = {})

(* Mutant: the previous answer keeps running. *)
AbortNothing == aborted' = aborted

(* The abort both input handlers do before they start a turn. *)
AbortPrevious ==
  aborted' = IF session.activeTurnId # NoTurn
             THEN aborted \cup ({session.abortController} \ {NoTurn})
             ELSE aborted

BeginTurn(t) ==
  /\ AbortPrevious
  /\ session' = InitTurn(session, t)
  /\ phase' = [phase EXCEPT ![t] = "starting"]

(* TextHandler.handle up to its first await. *)
TextInput(t) ==
  /\ ClientMaySend
  /\ phase[t] = "idle"
  /\ BeginTurn(t)
  /\ UNCHANGED <<emitted, outcome, synth, speaking, hung, history>>

(* AudioHandler.handle up to the await of the speech recognition. *)
AudioInput(t) ==
  /\ ClientMaySend
  /\ phase[t] = "idle"
  /\ phase' = [phase EXCEPT ![t] = "asr"]
  /\ UNCHANGED <<session, emitted, outcome, aborted, synth, speaking, hung,
                 history>>

(* Recognised, on the session object read before the await. *)
AsrHears(t) ==
  /\ Settled
  /\ phase[t] = "asr"
  /\ BeginTurn(t)
  /\ UNCHANGED <<emitted, outcome, synth, speaking, hung, history>>

(* Recognition failed, or heard nothing. *)
AsrRefuses(t) ==
  /\ Settled
  /\ phase[t] = "asr"
  /\ phase' = [phase EXCEPT ![t] = "refused"]
  /\ UNCHANGED <<session, emitted, outcome, aborted, synth, speaking, hung,
                 history>>

(* Mutant: run keeps its controller to itself. *)
TurnStartedUnregistered(t) ==
  /\ Settled
  /\ phase[t] = "starting"
  /\ phase' = [phase EXCEPT ![t] = "running"]
  /\ UNCHANGED <<session, emitted, outcome, aborted, synth, speaking, hung,
                 history>>

(* onTurnStart resolved: run stores its controller and starts the agent. *)
TurnStarted(t) ==
  /\ Settled
  /\ phase[t] = "starting"
  /\ session' = Update(session, [session EXCEPT !.abortController = t])
  /\ phase' = [phase EXCEPT ![t] = "running"]
  /\ UNCHANGED <<emitted, outcome, aborted, synth, speaking, hung, history>>

(* onTurnStart rejected: the user message could not be stored. *)
TurnStartFails(t) ==
  /\ Settled
  /\ phase[t] = "starting"
  /\ phase' = [phase EXCEPT ![t] = "refused"]
  /\ UNCHANGED <<session, emitted, outcome, aborted, synth, speaking, hung,
                 history>>

(* onToken.  A sentence can only become complete in a live session: a dead  *)
(* one appends nothing.                                                     *)
Token(t, endsSentence) ==
  /\ Settled
  /\ phase[t] = "running"
  /\ emitted[t] < MaxTokens
  /\ endsSentence => session.alive
  /\ emitted' = [emitted EXCEPT ![t] = @ + 1]
  /\ Applies(FlushBuffer(session, t, <<<<t, emitted[t] + 1>>>>, endsSentence),
             synth, speaking)
  /\ UNCHANGED <<phase, outcome, aborted, broken, reported>>

(* The agent is done: catch and finally up to the await of onTurnEnd. *)
AgentLeaves(t, status) ==
  /\ phase' = [phase EXCEPT ![t] = "ending"]
  /\ outcome' = [outcome EXCEPT ![t] = status]
  /\ Applies(FinishAnswer(session, t), synth, speaking)
  /\ UNCHANGED <<emitted, aborted, broken, reported>>

(* It answered, failed, or ran out of wall-clock budget: the timeout is an  *)
(* AbortError, so catch takes it for an interruption.                       *)
AgentSettles(t, status) ==
  /\ Settled
  /\ phase[t] = "running"
  /\ AgentLeaves(t, status)

(* Mutants: a status that is none of the three; an agent deaf to its signal.*)
AgentAbortedOddly(t) ==
  /\ ~hung
  /\ phase[t] = "running"
  /\ t \in aborted
  /\ AgentLeaves(t, "aborted")

AgentAbortedNever(t) == FALSE /\ AgentLeaves(t, "interrupted")

(* Its controller was aborted. *)
AgentAborted(t) ==
  /\ ~hung
  /\ phase[t] = "running"
  /\ t \in aborted
  /\ AgentLeaves(t, "interrupted")

(* onTurnEnd never rejects; the client hears of the outcome, unless the     *)
(* turn counts as interrupted.                                              *)
TurnEnded(t) ==
  /\ Settled
  /\ phase[t] = "ending"
  /\ phase' = [phase EXCEPT ![t] = "over"]
  /\ reported' = IF outcome[t] = "interrupted" THEN reported
                                               ELSE reported \cup {t}
  /\ UNCHANGED <<session, emitted, outcome, aborted, synth, speaking, hung,
                 spoken, ended, broken>>

(* synthesizeStream resolved: the drain goes round its loop. *)
TtsReturns(c) ==
  /\ Settled
  /\ Applies(TtsDrainLoop(session, c.turn), synth \ {c}, speaking)
  /\ UNCHANGED <<phase, emitted, outcome, aborted, broken, reported>>

(* Mutant: catch keeps the queue. *)
TtsRejectsKeepsQueue(c) ==
  Applies(Yield(TtsDrainEnd(session, c.turn)), synth \ {c}, speaking)

(* It rejected: catch clears the queue, finally ends the drain. *)
TtsRejects(c) ==
  Applies(Yield(TtsDrainEnd(Update(session, [session EXCEPT !.ttsQueue = <<>>]),
                            c.turn)),
          synth \ {c}, speaking)

TtsFails(c) ==
  /\ Settled
  /\ TtsRejects(c)
  /\ broken' = broken \cup {c.turn}
  /\ UNCHANGED <<phase, emitted, outcome, aborted, reported>>

TtsAborted(c) ==
  /\ ~hung
  /\ c.signal \in aborted
  /\ TtsRejects(c)
  /\ UNCHANGED <<phase, emitted, outcome, aborted, broken, reported>>

(* speak resolved or rejected: here catch leaves the queue as it is. *)
SpeakReturns(c) ==
  /\ Settled
  /\ Applies(SpeakDrainLoop(session, c.turn), synth, speaking \ {c})
  /\ UNCHANGED <<phase, emitted, outcome, aborted, broken, reported>>

SpeakFails(c) ==
  /\ Settled
  /\ Applies(Yield(SpeakDrainEnd(session, c.turn)), synth, speaking \ {c})
  /\ broken' = broken \cup {c.turn}
  /\ UNCHANGED <<phase, emitted, outcome, aborted, reported>>

(* InterruptHandler.handle; what follows its await only sends a reply. *)
Interrupt ==
  /\ ClientMaySend
  /\ aborted' = aborted \cup ({session.abortController} \ {NoTurn})
  /\ session' = [session EXCEPT
       !.ttsQueue = <<>>, !.speakQueue = <<>>, !.sentenceBuffer = <<>>,
       !.activeTurnId = NoTurn, !.ttsTurnId = NoTurn,
       !.abortController = NoTurn, !.ttsStarted = FALSE,
       !.ttsFinalizeRequested = FALSE, !.ttsProcessing = FALSE,
       !.speakProcessing = FALSE]
  /\ ended' = ended \cup (IF session.ttsStarted
                          THEN {session.ttsTurnId} \ {NoTurn} ELSE {})
  /\ UNCHANGED <<phase, emitted, outcome, synth, speaking, hung, spoken,
                 broken, reported>>

(* Mutants: the session is deleted and its answer goes on; the answer is    *)
(* aborted and the session stays registered.                                *)
DisconnectOnly ==
  /\ Settled
  /\ session.alive
  /\ session' = [session EXCEPT !.alive = FALSE]
  /\ UNCHANGED <<phase, emitted, outcome, aborted, synth, speaking, hung,
                 history>>

DisconnectKeepsSession ==
  /\ Settled
  /\ session.alive
  /\ aborted' = aborted \cup ({session.abortController} \ {NoTurn})
  /\ UNCHANGED <<session, phase, emitted, outcome, synth, speaking, hung,
                 history>>

(* cleanupSession of the gateway: the socket closed or stopped answering.   *)
Disconnect ==
  /\ Settled
  /\ session.alive
  /\ aborted' = aborted \cup ({session.abortController} \ {NoTurn})
  /\ session' = [session EXCEPT !.alive = FALSE]
  /\ UNCHANGED <<phase, emitted, outcome, synth, speaking, hung, history>>

ClientStep ==
  \/ \E t \in Turns : TextInput(t) \/ AudioInput(t)
  \/ Interrupt
  \/ Disconnect

AgentStep ==
  \E t \in Turns, endsSentence \in BOOLEAN : Token(t, endsSentence)

(* Something awaited settles: a recognition, a database or provider call,   *)
(* an agent, which runs under a wall-clock budget.                          *)
Settling ==
  \/ \E t \in Turns :
       \/ AsrHears(t) \/ AsrRefuses(t)
       \/ TurnStarted(t) \/ TurnStartFails(t)
       \/ \E status \in Outcome \ {"none"} : AgentSettles(t, status)
       \/ AgentAborted(t) \/ TurnEnded(t)
  \/ \E c \in synth : TtsReturns(c) \/ TtsFails(c) \/ TtsAborted(c)
  \/ \E c \in speaking : SpeakReturns(c) \/ SpeakFails(c)

Next == ClientStep \/ AgentStep \/ Settling

Spec == Init /\ [][Next]_vars

(* The event loop does not rest while something can settle.  Nothing        *)
(* obliges the client to send, or the model to produce another token.       *)
FairSpec == Spec /\ WF_vars(Settling)

-----------------------------------------------------------------------------
(* Safety. *)

(* The TTS pipeline synthesises one sentence at a time: of the provider     *)
(* calls in flight at most one is not yet aborted (ttsProcessing guards     *)
(* drain, but a new turn, an interrupt and an old drain all reset it).      *)
SerialSynthesis ==
  \A c, d \in synth : {c.signal, d.signal} \cap aborted = {} => c = d

(* The same for the speech of a text-direct digital human.                  *)
SerialSpeech == \A c, d \in speaking : c = d

(* tts:end is the last word of a turn: no live synthesis of it is in flight.*)
EndedIsSilent == \A c \in synth : c.turn \in ended => c.signal \in aborted

(* A turn that ends undisturbed, by its end event, was handed to the        *)
(* provider completely and in order: sentenceBuffer, queue and drain lose,  *)
(* repeat and reorder nothing.                                              *)
EndedIsComplete ==
  \A t \in ended \ (broken \cup aborted) :
    spoken[t] = [k \in 1 .. emitted[t] |-> <<t, k>>]

(* Whatever overlaps, a turn speaks its own answer only, in order, without  *)
(* repetition: the one sentenceBuffer of the session mixes nothing.         *)
OwnWords ==
  \A t \in Turns : \A i, j \in DOMAIN spoken[t] :
    /\ spoken[t][i][1] = t
    /\ i < j => spoken[t][i][2] < spoken[t][j][2]

(* A new input aborts the answer it replaces: agents do not run side by     *)
(* side.                                                                    *)
OneAgent == \A t, u \in Running \ aborted : t = u

(* The agent of the turn that owns the session is the one an interrupt, a   *)
(* new input or a disconnect will abort.                                    *)
InterruptReachesAgent ==
  \A t \in Running \ aborted :
    session.alive /\ session.ttsTurnId = t => session.abortController = t

(* drain always finds the controller of a run: the one it would create for  *)
(* itself when it finds none is never needed.                               *)
RunOwnsSignal ==
  /\ \A t \in Turns :
       session.alive /\ session.ttsTurnId = t /\ phase[t] # "starting"
                     /\ phase[t] # "refused"
         => session.abortController # NoTurn
  /\ \A c \in synth : c.signal # DrainController

(* The controller on a registered session is never an aborted one, so a     *)
(* call that starts is never cancelled by an earlier interrupt.             *)
FreshController == session.alive => session.abortController \notin aborted

(* No synthesis drain loops without awaiting: on a deleted session shift    *)
(* returns undefined while the queue keeps its length.                      *)
NeverSpins == ~session.textDirect => ~hung

(* Sentences are never left in the queue without a drain that will come     *)
(* back for them: neither a failed synthesis nor a new turn orphans them.   *)
QueueHasDrain ==
  session.alive /\ session.ttsQueue # <<>>
    => \E c \in synth : c.turn = session.ttsTurnId

(* Once the controller of a turn is aborted, nothing more of the turn is    *)
(* handed to a provider: the finally block that flushes the buffer runs     *)
(* after the interrupt, and must find the turn gone.                        *)
AbortedStaysSilent ==
  [][\A c \in (synth' \ synth) \cup (speaking' \ speaking) :
       c.turn \notin aborted]_vars

(* An input the client is told nothing about yet leads to a finished turn.  *)
TurnsFinish ==
  \A t \in Turns : phase[t] \in {"asr", "starting"}
                     ~> phase[t] \in {"over", "refused"}

(* Only the caller cancels a turn: one that counts as interrupted had its   *)
(* controller aborted.                                                      *)
OnlyCallerInterrupts ==
  \A t \in Turns : outcome[t] = "interrupted" => t \in aborted

(* A running turn gives the session back: its end event is sent, or another *)
(* turn or the disconnect takes the session from it.                        *)
SessionReleased ==
  \A t \in Turns : phase[t] = "running" /\ session.activeTurnId = t
                     ~> session.activeTurnId # t \/ ~session.alive
=============================================================================
