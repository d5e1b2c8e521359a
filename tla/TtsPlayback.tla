----------------------------- MODULE TtsPlayback ----------------------------
(***************************************************************************)
(* How the page plays what the gateway speaks: frames decoded one by one   *)
(* (useWebSocket.decodeAudioFrame), MPEG frames appended to the media      *)
(* source of the turn (useAudio), PCM frames sent to the avatar's client   *)
(* (useDigitalHuman), which is started anew for every session.             *)
(*                                                                         *)
(* The gateway sends each turn's start, frames and end in order; a frame   *)
(* is decoded asynchronously, the other messages are handled at once.      *)
(***************************************************************************)
EXTENDS Integers, Sequences, FiniteSets

CONSTANTS MaxTurns, MaxFrames, MaxClients
ASSUME MediaCounts == {MaxTurns, MaxFrames, MaxClients} \subseteq Nat

Turns0 == 1..MaxTurns
Frames == Turns0 \X (1..MaxFrames)
Clients == 1..MaxClients

VARIABLES
  wireOut,  \* what the gateway has sent: how far it is in which turn
  decoding, \* binary messages being decoded
  player,   \* useAudio: active turn, queue, the source buffer and its turn
  played,   \* by media source: the frames appended to it
  avatar,   \* useDigitalHuman: session, client, starts in progress
  missed    \* ghost: frames that came before their source or after their end

mediaVars == <<wireOut, decoding, player, played, avatar, missed>>

MediaTypeOK ==
  /\ wireOut \in [turn : 0..MaxTurns, sent : 0..MaxFrames, open : BOOLEAN]
  /\ decoding \subseteq Frames
  /\ player \in [active : 0..MaxTurns, queue : Seq(Frames), source : 0..MaxTurns,
                 buffer : 0..MaxTurns, busy : BOOLEAN]
  /\ played \in [Turns0 -> Seq(Frames)]
  /\ avatar \in [session : 0..MaxClients, client : 0..MaxClients, ready : BOOLEAN,
                 starting : SUBSET (Clients \X {"teardown", "start"}),
                 running : SUBSET Clients, asked : 0..MaxClients, crossed : BOOLEAN]
  /\ missed \subseteq Frames

MediaInit ==
  /\ wireOut = [turn |-> 0, sent |-> 0, open |-> FALSE] /\ decoding = {}
  /\ player = [active |-> 0, queue |-> <<>>, source |-> 0, buffer |-> 0,
               busy |-> FALSE]
  /\ played = [t \in Turns0 |-> <<>>]
  /\ avatar = [session |-> 0, client |-> 0, ready |-> FALSE, starting |-> {},
               running |-> {}, asked |-> 0, crossed |-> FALSE]
  /\ missed = {}

\* flushQueue: the first of the queue goes to the buffer the page holds, if it
\* holds one that is not busy; the buffer of an earlier source refuses it.
Flushes(p) == p.buffer # 0 /\ ~p.busy /\ p.queue # <<>>
Flushed(p) ==
  /\ player' = IF Flushes(p) THEN [p EXCEPT !.queue = Tail(@), !.busy = p.buffer = p.source]
               ELSE p
  /\ played' = IF Flushes(p) /\ p.buffer = p.source
               THEN [played EXCEPT ![p.buffer] = Append(@, Head(p.queue))] ELSE played
Early(p, f) == IF p.buffer = p.source THEN {} ELSE {f}

\* tts:start: a new source; the buffer is replaced when the source opens.
OnTtsStart ==
  /\ ~wireOut.open /\ wireOut.turn < MaxTurns
  /\ wireOut' = [turn |-> wireOut.turn + 1, sent |-> 0, open |-> TRUE]
  /\ player' = [player EXCEPT !.active = wireOut.turn + 1, !.queue = <<>>,
                              !.source = wireOut.turn + 1]
  /\ missed' = missed \cup {player.queue[i] : i \in DOMAIN player.queue}
  /\ UNCHANGED <<decoding, played, avatar>>
SourceOpens ==
  /\ player.source # 0 /\ player.buffer # player.source
  /\ player' = [player EXCEPT !.buffer = player.source, !.busy = FALSE]
  /\ UNCHANGED <<wireOut, decoding, played, avatar, missed>>
FrameArrives ==
  /\ wireOut.open /\ wireOut.sent < MaxFrames
  /\ wireOut' = [wireOut EXCEPT !.sent = @ + 1]
  /\ decoding' = decoding \cup {<<wireOut.turn, wireOut.sent + 1>>}
  /\ UNCHANGED <<player, played, avatar, missed>>
\* Frames are decoded in order; a frame of another turn is dropped.
OnAudioChunk(f) ==
  LET queued == [player EXCEPT !.queue = Append(@, f)]
  IN  /\ f \in decoding
      /\ \A g \in decoding : f[1] < g[1] \/ (f[1] = g[1] /\ f[2] <= g[2])
      /\ decoding' = decoding \ {f}
      /\ IF f[1] = player.active
         THEN Flushed(queued) /\ missed' = missed \cup Early(player, f)
         ELSE missed' = missed \cup {f} /\ UNCHANGED <<player, played>>
      /\ UNCHANGED <<wireOut, avatar>>
\* The buffer is done with a frame and takes the next.
UpdateEnd ==
  /\ player.busy /\ Flushed([player EXCEPT !.busy = FALSE])
  /\ UNCHANGED <<wireOut, decoding, avatar, missed>>
\* The end does not wait for frames still being decoded.
OnTtsEnd ==
  /\ wireOut.open /\ wireOut.sent > 0
  /\ wireOut' = [wireOut EXCEPT !.open = FALSE]
  /\ player' = [player EXCEPT !.active = 0]
  /\ UNCHANGED <<decoding, played, avatar, missed>>
StopPlayback ==
  /\ player.active # 0
  /\ player' = [player EXCEPT !.active = 0, !.queue = <<>>]
  /\ wireOut' = [wireOut EXCEPT !.open = FALSE]
  /\ missed' = missed \cup {player.queue[i] : i \in DOMAIN player.queue}
                     \cup {player.active} \X (1..MaxFrames)
  /\ UNCHANGED <<decoding, played, avatar>>

-----------------------------------------------------------------------------
\* digital-human:ready: the client of the session before is stopped, then one
\* for this session is made; nothing holds back the start of another session.
HandleReady ==
  /\ avatar.asked < MaxClients
  /\ LET n == avatar.asked + 1
     IN  avatar' = [avatar EXCEPT !.asked = n, !.session = n, !.client = 0, !.ready = FALSE,
                                  !.starting = @ \cup {<<n, "teardown">>},
                                  !.running = @ \ {avatar.client},
                                  !.crossed = @ \/ avatar.starting # {}]
  /\ UNCHANGED <<wireOut, decoding, player, played, missed>>
CreateClient(n) ==
  /\ <<n, "teardown">> \in avatar.starting
  /\ avatar' = [avatar EXCEPT !.client = n, !.running = @ \cup {n},
                  !.starting = (@ \ {<<n, "teardown">>}) \cup {<<n, "start">>}]
  /\ UNCHANGED <<wireOut, decoding, player, played, missed>>
\* A client that has started too late for its session is stopped again.
ClientStarted(n) ==
  /\ <<n, "start">> \in avatar.starting
  /\ avatar' = [avatar EXCEPT !.starting = @ \ {<<n, "start">>},
                  !.running = IF avatar.session = n THEN @ ELSE @ \ {n},
                  !.ready = IF avatar.session = n THEN TRUE ELSE @]
  /\ UNCHANGED <<wireOut, decoding, player, played, missed>>
ClientFails(n) ==
  /\ \E at \in {"teardown", "start"} : <<n, at>> \in avatar.starting
  /\ avatar' = [avatar EXCEPT !.starting = {s \in @ : s[1] # n}, !.ready = FALSE,
                              !.running = @ \ {n}]
  /\ UNCHANGED <<wireOut, decoding, player, played, missed>>
CloseAvatar ==
  /\ avatar.session # 0
  /\ avatar' = [avatar EXCEPT !.session = 0, !.client = 0, !.ready = FALSE,
                              !.running = @ \ {avatar.client},
                              !.crossed = @ \/ avatar.starting # {}]
  /\ UNCHANGED <<wireOut, decoding, player, played, missed>>

MediaNext ==
  \/ OnTtsStart \/ SourceOpens \/ FrameArrives \/ UpdateEnd \/ OnTtsEnd \/ StopPlayback
  \/ \E f \in Frames : OnAudioChunk(f)
  \/ HandleReady \/ CloseAvatar
  \/ \E n \in Clients : CreateClient(n) \/ ClientStarted(n) \/ ClientFails(n)
MediaSpec == MediaInit /\ [][MediaNext]_mediaVars

-----------------------------------------------------------------------------
(* A source plays frames of its own turn only, each once and in order, and *)
(* all of them but those that came before the source had opened, while the *)
(* buffer of the turn before was still held, or after tts:end overtook     *)
(* them.  The avatar that takes the audio is running and of the session    *)
(* the page has, unless sessions followed each other faster than their     *)
(* clients start.                                                          *)
PlaysOwnTurn ==
  /\ \A t \in Turns0 : \A i \in DOMAIN played[t] :
       /\ played[t][i][1] = t
       /\ i > 1 => played[t][i - 1][2] < played[t][i][2]
  /\ ~wireOut.open /\ decoding = {} /\ ~player.busy =>
       \A n \in 1..wireOut.sent :
         <<wireOut.turn, n>> \in missed
           \/ \E i \in DOMAIN played[wireOut.turn] : played[wireOut.turn][i][2] = n
  /\ ~avatar.crossed /\ avatar.ready =>
       avatar.client = avatar.session /\ avatar.running = {avatar.session}
=============================================================================
