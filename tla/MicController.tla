---------------------------- MODULE MicController ---------------------------
(***************************************************************************)
(* The microphone of the page: useMicController, the recorder of useAudio  *)
(* and the state of useConversation, under the events of the session       *)
(* (useWsEventHandler) and of the text chat (useTextChat, useAppController)*)
(* that set the same state.  A recording has a number; the permission      *)
(* prompt and the recorder answer when they do.                            *)
(***************************************************************************)
EXTENDS Integers, FiniteSets

CONSTANTS MaxRecordings, MaxEvents
ASSUME MicCounts == MaxRecordings \in Nat /\ MaxEvents \in Nat

Takes == 1..MaxRecordings

VARIABLES
  ui,      \* conversation.state, the session known, a text request running
  mic,     \* the takes: asked for, on, stopping, and the recorder held
  sent,    \* how often each take was sent
  slipped, \* ghost: takes that lost the page's recording state or its recorder
  again,   \* ghost: takes stopped once more while they stopped
  events   \* events left

micVars == <<ui, mic, sent, slipped, again, events>>

UiStates == {"idle", "recording", "thinking", "speaking"}
MicTypeOK ==
  /\ ui \in [state : UiStates, session : BOOLEAN, preparing : BOOLEAN, text : BOOLEAN]
  /\ mic \in [prompts : SUBSET Takes, on : SUBSET Takes, recorder : 0..MaxRecordings,
              stopping : SUBSET Takes, takes : 0..MaxRecordings]
  /\ sent \in [Takes -> 0..2]
  /\ slipped \subseteq Takes /\ again \subseteq Takes /\ events \in 0..MaxEvents

MicInit ==
  /\ ui = [state |-> "idle", session |-> FALSE, preparing |-> FALSE, text |-> FALSE]
  /\ mic = [prompts |-> {}, on |-> {}, recorder |-> 0, stopping |-> {}, takes |-> 0]
  /\ sent = [t \in Takes |-> 0] /\ slipped = {} /\ again = {} /\ events = MaxEvents

\* Every take the page may still be recording with.
Open == mic.prompts \cup mic.on
Shows(state) == ui' = [ui EXCEPT !.state = state]

\* Asks for the microphone; the page is recording before it is granted.
StartRecording(base) ==
  /\ mic.takes < MaxRecordings
  /\ ui' = [base EXCEPT !.state = "recording", !.preparing = FALSE]
  /\ mic' = [mic EXCEPT !.takes = @ + 1, !.prompts = @ \cup {mic.takes + 1}]
  /\ UNCHANGED <<sent, again, events>>
Granted(t) ==
  /\ t \in mic.prompts
  /\ mic' = [mic EXCEPT !.prompts = @ \ {t}, !.on = @ \cup {t}, !.recorder = t]
  /\ slipped' = slipped \cup mic.on
  /\ UNCHANGED <<ui, sent, again, events>>
Denied(t) ==
  /\ t \in mic.prompts
  /\ mic' = [mic EXCEPT !.prompts = @ \ {t}]
  /\ ui' = [ui EXCEPT !.state = "idle"]
  /\ slipped' = slipped \cup (Open \ {t}) /\ UNCHANGED <<sent, again, events>>

\* The page takes a turn in progress as interrupted, then records.
ToggleToRecord ==
  /\ ~ui.preparing /\ ui.state # "recording"
  /\ IF ui.session THEN StartRecording(ui)
     ELSE /\ ui' = [ui EXCEPT !.state = "idle", !.preparing = TRUE]
          /\ UNCHANGED <<mic, sent, again, events>>
  /\ UNCHANGED slipped
ToggleWhilePreparing ==
  /\ ui.preparing /\ ui' = [ui EXCEPT !.preparing = FALSE]
  /\ UNCHANGED <<mic, sent, slipped, again, events>>
\* Without a recorder there is nothing to stop, and the prompt stays open.
StopWithoutRecorder ==
  /\ ui.state = "recording" /\ ~ui.preparing /\ mic.recorder = 0
  /\ Shows("idle") /\ slipped' = slipped \cup Open
  /\ UNCHANGED <<mic, sent, again, events>>
StopRecorder ==
  /\ ui.state = "recording" /\ ~ui.preparing /\ mic.recorder \in mic.on
  /\ mic' = [mic EXCEPT !.on = @ \ {mic.recorder}, !.stopping = @ \cup {mic.recorder}]
  /\ UNCHANGED <<ui, sent, slipped, again, events>>
\* The recorder has stopped: the take is sent, unless empty or too short, and
\* the page holds no recorder, whichever take it held by then.
RecorderStopped(t, enough) ==
  /\ t \in mic.stopping
  /\ mic' = [mic EXCEPT !.stopping = @ \ {t}, !.recorder = 0]
  /\ Shows(IF enough THEN "thinking" ELSE "idle")
  /\ sent' = IF enough THEN [sent EXCEPT ![t] = @ + 1] ELSE sent
  /\ slipped' = slipped \cup Open /\ UNCHANGED <<again, events>>
\* Stopped once more while it stops, the take is sent once more.
StopStopping(enough) ==
  LET t == mic.recorder
  IN  /\ ui.state = "recording" /\ ~ui.preparing /\ t \in mic.stopping /\ sent[t] = 0
      /\ mic' = [mic EXCEPT !.recorder = 0]
      /\ Shows(IF enough THEN "thinking" ELSE "idle")
      /\ sent' = IF enough THEN [sent EXCEPT ![t] = @ + 1] ELSE sent
      /\ slipped' = slipped \cup Open /\ again' = again \cup {t} /\ UNCHANGED events

Event == events > 0 /\ events' = events - 1
\* session:ready sets the state to idle whatever the page is doing.
SessionReady ==
  /\ Event /\ ~ui.session
  /\ IF ui.preparing /\ mic.takes < MaxRecordings
     THEN /\ ui' = [ui EXCEPT !.session = TRUE, !.preparing = FALSE, !.state = "recording"]
          /\ mic' = [mic EXCEPT !.takes = @ + 1, !.prompts = @ \cup {mic.takes + 1}]
          /\ UNCHANGED slipped
     ELSE /\ ui' = [ui EXCEPT !.session = TRUE, !.state = "idle"] /\ UNCHANGED mic
          /\ slipped' = slipped \cup Open
  /\ UNCHANGED <<sent, again>>
\* A turn of the session starts, speaks, ends, is interrupted, fails.
TurnEvent(state) ==
  /\ Event /\ ui.session
  /\ Shows(state) /\ slipped' = slipped \cup Open
  /\ UNCHANGED <<mic, sent, again>>
TurnEnds ==
  /\ Event /\ ui.state \in {"thinking", "speaking"} /\ ~ui.text
  /\ Shows("idle") /\ UNCHANGED <<mic, sent, slipped, again>>
\* A disconnect keeps a recording going.
Disconnects ==
  /\ Event /\ ui.session
  /\ ui' = [ui EXCEPT !.session = FALSE, !.preparing = FALSE,
                      !.state = IF @ = "recording" THEN @ ELSE "idle"]
  /\ UNCHANGED <<mic, sent, slipped, again>>
\* Text is sent: the state is set before the chat says it is submitted.
SendText ==
  /\ Event /\ ~ui.text
  /\ ui' = [ui EXCEPT !.text = TRUE, !.preparing = FALSE, !.state = "thinking"]
  /\ slipped' = slipped \cup Open /\ UNCHANGED <<mic, sent, again>>
TextEnds ==
  /\ ui.text
  /\ ui' = [ui EXCEPT !.text = FALSE, !.state = IF @ = "thinking" THEN "idle" ELSE @]
  /\ UNCHANGED <<mic, sent, slipped, again, events>>
StopText ==
  /\ Event
  /\ ui' = [ui EXCEPT !.text = FALSE, !.state = IF @ = "recording" THEN @ ELSE "idle"]
  /\ UNCHANGED <<mic, sent, slipped, again>>
\* The page is left: a recording is stopped.
Dispose ==
  /\ Event
  /\ ui' = [ui EXCEPT !.preparing = FALSE, !.state = IF @ = "recording" THEN "idle" ELSE @]
  /\ IF ui.state = "recording" /\ mic.recorder \in mic.on
     THEN mic' = [mic EXCEPT !.on = @ \ {mic.recorder}, !.recorder = 0]
     ELSE UNCHANGED mic
  /\ slipped' = slipped \cup (IF ui.state = "recording" THEN mic'.on \cup mic.prompts
                              ELSE {})
  /\ UNCHANGED <<sent, again>>

MicNext ==
  \/ ToggleToRecord \/ ToggleWhilePreparing \/ StopWithoutRecorder \/ StopRecorder
  \/ \E t \in Takes : \/ Granted(t) \/ Denied(t)
                      \/ \E enough \in BOOLEAN : RecorderStopped(t, enough)
  \/ \E enough \in BOOLEAN : StopStopping(enough)
  \/ SessionReady \/ (\E state \in {"idle", "thinking", "speaking"} : TurnEvent(state))
  \/ TurnEnds \/ Disconnects \/ SendText \/ TextEnds \/ StopText \/ Dispose
MicSpec == MicInit /\ [][MicNext]_micVars

-----------------------------------------------------------------------------
(* The page never says it is recording with nothing to record: the last    *)
(* take is asked for, on or stopping.  A take is sent once, unless the page*)
(* stopped it once more while it stopped.  A microphone is on only while   *)
(* the page says so, held by the recorder a stop will reach, unless one of *)
(* these took the state or the recorder from its take: a stop before the   *)
(* permission was given, a permission, a denial or an end of an earlier    *)
(* take that came late, an event that set the state while recording.       *)
MicMatchesState ==
  /\ ui.state = "recording" => mic.takes \in mic.prompts \cup mic.on \cup mic.stopping
  /\ \A t \in Takes \ again : sent[t] <= 1
  /\ \A t \in mic.on \ slipped : ui.state = "recording" /\ mic.recorder = t
=============================================================================
