--------------------------- MODULE SpeechProviders --------------------------
(***************************************************************************)
(* One synthesis of a sentence by DashscopeTtsProvider, over its WebSocket *)
(* task, its event stream or a plain download, each falling back to the    *)
(* next; and the training of a cloned voice (VoiceCloneService), whose     *)
(* timers outlive the upload that started them.                            *)
(***************************************************************************)
EXTENDS Integers, Sequences, FiniteSets

CONSTANTS Sound0,     \* frames of the sentence
          MaxUploads  \* voice samples uploaded for one persona
ASSUME SpeechCounts == Sound0 \in Nat /\ MaxUploads \in Nat

Transports == {"ws", "http", "auto"}
SoundFrames == 1..Sound0
Uploads == 1..MaxUploads

VARIABLES
  synth,  \* the synthesis: transport, where it is, what came on this one, and
          \* earlier, the frames that came on a WebSocket that was left (ghost)
  heard,  \* the frames its caller got, in order
  clone,  \* the voice clone: what tasks says, the persona's voice, timers
  slip    \* ghost: two uploads at once

speechVars == <<synth, heard, clone, slip>>

SpeechTypeOK ==
  /\ synth \in [mode : Transports, came : 0..Sound0, earlier : 0..Sound0, aborted : BOOLEAN,
                at : {"none", "connecting", "open", "started", "stream", "sse", "plain",
                      "download", "resolved", "rejected", "died"}]
  /\ heard \in Seq(SoundFrames)
  /\ clone \in [status : {"none", "training", "ready", "failed"}, upload : 0..MaxUploads,
                voice : 0..MaxUploads, timers : SUBSET Uploads, sweeps : SUBSET Uploads,
                next : 0..MaxUploads]
  /\ slip \subseteq {"uploads"}

SpeechInit ==
  /\ synth \in [mode : Transports, came : {0}, earlier : {0}, aborted : BOOLEAN,
                at : {"none"}]
  /\ heard = <<>> /\ slip = {}
  /\ clone = [status |-> "none", upload |-> 0, voice |-> 0, timers |-> {},
              sweeps |-> {}, next |-> 0]

Over == synth.at \in {"resolved", "rejected", "died"}
On(at) == synth.at = at
Go(at) == synth' = [synth EXCEPT !.at = at, !.came = 0]
SameSound == UNCHANGED <<heard, slip>>
SameClone == UNCHANGED clone
\* An exception nobody catches ends the process: the synthesis, and the tasks and
\* timers of the clones with it.
Dies(aborted) ==
  /\ synth' = [synth EXCEPT !.at = "died", !.came = 0, !.aborted = aborted]
  /\ clone' = [clone EXCEPT !.status = "none", !.upload = 0, !.timers = {}, !.sweeps = {}]
  /\ SameSound

-----------------------------------------------------------------------------
SynthesizeStream ==
  /\ On("none")
  /\ Go(IF synth.aborted THEN "resolved"
        ELSE IF synth.mode = "http" THEN "stream" ELSE "connecting")
  /\ SameSound /\ SameClone
\* The task: opened, started, frames, finished.
WsStep(from, to) == On(from) /\ Go(to) /\ SameSound /\ SameClone
WsFrame ==
  /\ On("started") /\ synth.came < Sound0
  /\ synth' = [synth EXCEPT !.came = @ + 1] /\ heard' = Append(heard, synth.came + 1)
  /\ UNCHANGED slip /\ SameClone
WsTaskFinished ==
  /\ On("started") /\ synth.came = Sound0
  /\ Go("resolved") /\ SameSound /\ SameClone
\* What ends the WebSocket but an abort: only "auto" falls back, on the errors it
\* knows, and the sentence starts again though frames of it were heard.
LeavesWs(fallsBack) ==
  /\ IF fallsBack
     THEN synth' = [synth EXCEPT !.at = "stream", !.came = 0, !.earlier = synth.came]
     ELSE Go("rejected")
  /\ SameSound /\ SameClone
\* The task fails; whether the error is a known one is for its message to say.
WsTaskFailed(known) ==
  /\ synth.at \in {"open", "started"} /\ LeavesWs(synth.mode = "auto" /\ known)
\* Mutant: every transport falls back.
WsBreaksAnyMode(known) ==
  /\ synth.at \in {"connecting", "open", "started"} /\ LeavesWs(known)
\* An error or an early close.
WsBreaks(known) ==
  /\ synth.at \in {"connecting", "open", "started"} /\ LeavesWs(synth.mode = "auto" /\ known)
\* A message that is no JSON throws in the listener of the socket.
WsGarbled == synth.at \in {"open", "started"} /\ Dies(synth.aborted)
\* The streaming request is answered by events, by one payload or by sound; the
\* account may not support it.
HttpAnswers(kind) ==
  /\ On("stream")
  /\ CASE kind = "events" -> Go("sse") /\ UNCHANGED heard
       [] kind = "unsupported" -> Go("plain") /\ UNCHANGED heard
       [] kind = "url" -> Go("download") /\ UNCHANGED heard
       [] kind = "sound" -> Go("resolved")
                            /\ heard' = heard \o [i \in SoundFrames |-> i]
       [] kind = "refused" -> Go("rejected") /\ UNCHANGED heard
  /\ UNCHANGED slip /\ SameClone
SseFrame ==
  /\ On("sse") /\ synth.came < Sound0
  /\ synth' = [synth EXCEPT !.came = @ + 1] /\ heard' = Append(heard, synth.came + 1)
  /\ UNCHANGED slip /\ SameClone
\* The stream ends after its sound, or with an error event; "not supported" is
\* the first event if it comes.
SseEnds(how) ==
  /\ On("sse")
  /\ CASE how = "end" -> synth.came = Sound0 /\ Go("resolved")
       [] how = "error" -> Go("rejected")
       [] how = "unsupported" -> synth.came = 0 /\ Go("plain")
  /\ SameSound /\ SameClone
PlainAnswers(kind) ==
  /\ On("plain")
  /\ CASE kind = "payload" -> Go("resolved") /\ heard' = heard \o [i \in SoundFrames |-> i]
       [] kind = "body" -> Go("download") /\ UNCHANGED heard
       [] kind = "refused" -> Go("rejected") /\ UNCHANGED heard
  /\ UNCHANGED slip /\ SameClone
PipeChunk ==
  /\ On("download") /\ synth.came < Sound0
  /\ synth' = [synth EXCEPT !.came = @ + 1] /\ heard' = Append(heard, synth.came + 1)
  /\ UNCHANGED slip /\ SameClone
PipeEnds(ok) ==
  /\ On("download") /\ (ok => synth.came = Sound0)
  /\ Go(IF ok THEN "resolved" ELSE "rejected") /\ SameSound /\ SameClone
\* A download noticed between two reads just ends.
Abort ==
  /\ ~On("none") /\ ~On("connecting") /\ ~Over
  /\ \E end \in (IF synth.at \in {"sse", "download"} THEN {"resolved", "rejected"}
                 ELSE {"rejected"}) :
       synth' = [synth EXCEPT !.aborted = TRUE, !.at = end, !.came = 0]
  /\ SameSound /\ SameClone
\* Closing a socket that is still connecting emits an error when its listeners
\* are gone.
AbortConnecting == On("connecting") /\ Dies(TRUE)

-----------------------------------------------------------------------------
\* A sample is uploaded: tasks is replaced, a timer trains.
CreateVoice ==
  /\ clone.next < MaxUploads
  /\ clone' = [clone EXCEPT !.next = @ + 1, !.status = "training", !.upload = clone.next + 1,
                            !.timers = @ \cup {clone.next + 1}]
  /\ slip' = slip \cup (IF clone.timers # {} THEN {"uploads"} ELSE {})
  /\ UNCHANGED <<synth, heard>>
\* The timer of an upload acts on the state it finds, whichever upload it is of;
\* the voice goes to the persona first.
TrainingEnds(u, ok) ==
  /\ u \in clone.timers
  /\ clone' = [clone EXCEPT !.timers = @ \ {u},
       !.voice = IF clone.status = "training" /\ ok THEN u ELSE @,
       !.status = IF @ # "training" THEN @ ELSE IF ok THEN "ready" ELSE "failed",
       !.sweeps = IF clone.status = "training" THEN @ \cup {u} ELSE @]
  /\ UNCHANGED <<synth, heard, slip>>

\* Half an hour later a finished task is forgotten, whichever upload it is of.
Sweep(u) ==
  /\ u \in clone.sweeps
  /\ clone' = [clone EXCEPT !.sweeps = @ \ {u},
       !.status = IF @ \in {"ready", "failed"} THEN "none" ELSE @,
       !.upload = IF clone.status \in {"ready", "failed"} THEN 0 ELSE @]
  /\ UNCHANGED <<synth, heard, slip>>

SpeechNext ==
  \/ SynthesizeStream \/ WsFrame \/ WsTaskFinished \/ WsGarbled
  \/ WsStep("connecting", "open") \/ WsStep("open", "started")
  \/ \E known \in BOOLEAN : WsBreaks(known) \/ WsTaskFailed(known)
  \/ \E k \in {"events", "unsupported", "url", "sound", "refused"} : HttpAnswers(k)
  \/ SseFrame \/ PipeChunk \/ Abort \/ AbortConnecting
  \/ \E how \in {"end", "error", "unsupported"} : SseEnds(how)
  \/ \E k \in {"payload", "body", "refused"} : PlainAnswers(k)
  \/ \E ok \in BOOLEAN : PipeEnds(ok)
  \/ CreateVoice
  \/ \E u \in Uploads : Sweep(u) \/ \E ok \in BOOLEAN : TrainingEnds(u, ok)
SpeechSpec == SpeechInit /\ [][SpeechNext]_speechVars

-----------------------------------------------------------------------------
(* What its caller gets of a sentence is the sentence from its start,      *)
(* without a gap or a repetition, and all of it when the synthesis ends    *)
(* well.  Frames of it come before that start only when "auto" left the    *)
(* WebSocket after they were heard: a start of the sentence, once, and     *)
(* then the sentence.  A voice reported ready is the one trained from the  *)
(* sample reported, unless a second sample came while the first was        *)
(* trained.                                                                *)
HeardOnce ==
  /\ \A i \in DOMAIN heard : heard[i] = IF i <= synth.earlier THEN i ELSE i - synth.earlier
  /\ synth.earlier > 0 => synth.mode = "auto"
  /\ On("resolved") /\ ~synth.aborted => Len(heard) = synth.earlier + Sound0
  /\ "uploads" \notin slip /\ clone.status = "ready" => clone.voice = clone.upload
=============================================================================
