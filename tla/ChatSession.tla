----------------------------- MODULE ChatSession ----------------------------
(***************************************************************************)
(* The realtime session of one browser page: the page that opens a socket, *)
(* asks for sessions and shows what it is told (useWebSocket,              *)
(* useAppController, usePersonaActions, useWsEventHandler), the gateway    *)
(* that answers each session:start in a handler of its own (SessionHandler,*)
(* RealtimeSessionRegistry) and the provider of the digital human.         *)
(*                                                                         *)
(* A session has the number of the session:start that made it, a           *)
(* conversation the place it was created in for its persona.               *)
(***************************************************************************)
EXTENDS Integers, Sequences, FiniteSets

CONSTANTS Personas, NoPersona, MaxStarts, MaxDrops
ASSUME NobodyIsNoPersona == NoPersona \notin Personas
ASSUME ChatBounds == {MaxStarts, MaxDrops} \subseteq Nat

Starts == 1..MaxStarts
Sockets == 0..MaxDrops
Modes == {"voice", "digital-human"}

VARIABLES
  page,    \* the stores of the browser: socket, choice and what it shows
  start,   \* by session:start: how far its handler is
  session, \* RealtimeSessionRegistry.sessions and the provider's sessions
  index,   \* RealtimeSessionRegistry.wsClientIndex
  wire,    \* by socket: up, cut, or noticed by the gateway
  down,    \* what the gateway has sent and the page has not handled
  latest,  \* by persona: its latest conversation
  trouble, \* ghost: why the page may show another session than it has
  astray   \* ghost: sessions a race left behind, and provider sessions

chatVars == <<page, start, session, index, wire, down, latest, trouble, astray>>

NoChat == [of |-> NoPersona, n |-> 0]
Chats == [of : Personas \cup {NoPersona}, n : 0..(MaxStarts + 2)]
NoStart == [at |-> "none", conn |-> 0, persona |-> NoPersona, mode |-> "voice",
            fresh |-> FALSE]
NoSession == [live |-> FALSE, chat |-> NoChat, human |-> "none"]

ChatTypeOK ==
  /\ page \in [open : BOOLEAN, conn : Sockets, selected : Personas \cup {NoPersona},
               mode : Modes, session : 0..MaxStarts, chat : Chats, human : 0..MaxStarts]
  /\ start \in [Starts -> [at : {"none", "sent", "load", "provider", "done"},
                           conn : Sockets, persona : Personas \cup {NoPersona},
                           mode : Modes, fresh : BOOLEAN]]
  /\ session \in [Starts -> [live : BOOLEAN, chat : Chats,
                             human : {"none", "creating", "late", "open", "closed"}]]
  /\ index \in [Sockets -> 0..MaxStarts]
  /\ wire \in [Sockets -> {"unused", "up", "cut", "gone"}]
  /\ down \in Seq({"ready", "human", "error", "gone"} \X (0..MaxStarts))
  /\ latest \in [Personas -> 1..(MaxStarts + 2)]
  /\ trouble \subseteq {"crossed", "reopened", "failed"}
  /\ astray \subseteq {"session", "provider", "overlap"} \X Starts

ChatInit ==
  /\ page = [open |-> TRUE, conn |-> 0, selected |-> NoPersona, mode |-> "voice",
             session |-> 0, chat |-> NoChat, human |-> 0]
  /\ start = [h \in Starts |-> NoStart] /\ session = [h \in Starts |-> NoSession]
  /\ index = [c \in Sockets |-> 0]
  /\ wire = [c \in Sockets |-> IF c = 0 THEN "up" ELSE "unused"]
  /\ down = <<>> /\ latest = [p \in Personas |-> 2] /\ trouble = {} /\ astray = {}

Unanswered == {h \in Starts : start[h].conn = page.conn /\ start[h].at \notin {"none", "done"}}
Quiet == Unanswered = {} /\ down = <<>>

-----------------------------------------------------------------------------
\* The page asks for a session; nothing is sent on a socket that is not open.
AskSession(p, mode, fresh, why) ==
  LET next == {h \in Starts : start[h].at = "none"}
  IN  /\ next # {}
      /\ start' = [start EXCEPT ![CHOOSE h \in next : \A i \in next : h <= i] =
                     [at |-> "sent", conn |-> page.conn, persona |-> p, mode |-> mode,
                      fresh |-> fresh]]
      /\ trouble' = why \cup (IF Quiet THEN {} ELSE {"crossed"})
Blank == [page EXCEPT !.session = 0, !.chat = NoChat]
ServerSame == UNCHANGED <<session, index, wire, latest, astray>>

SelectPersona(p) ==
  /\ p # page.selected
  /\ page' = [Blank EXCEPT !.selected = p, !.human = 0]
  /\ IF page.open THEN AskSession(p, page.mode, FALSE, {}) ELSE UNCHANGED <<start, trouble>>
  /\ UNCHANGED down /\ ServerSame
ChangeMode(mode) ==
  /\ mode # page.mode
  /\ IF page.open /\ page.selected # NoPersona
     THEN /\ page' = [Blank EXCEPT !.mode = mode, !.human = 0]
          /\ AskSession(page.selected, mode, FALSE, {})
     ELSE /\ page' = [page EXCEPT !.mode = mode, !.human = 0]
          /\ trouble' = trouble \cup {"crossed"} /\ UNCHANGED start
  /\ UNCHANGED down /\ ServerSame
NewConversation ==
  /\ page.open /\ page.selected # NoPersona
  /\ AskSession(page.selected, page.mode, TRUE, {})
  /\ UNCHANGED <<page, down>> /\ ServerSame
\* The handler does not read the conversation the message names: it answers
\* with the latest one.
SelectConversation ==
  /\ page.open /\ page.selected # NoPersona
  /\ page' = [page EXCEPT !.chat = [of |-> page.selected, n |-> 1]]
  /\ AskSession(page.selected, page.mode, FALSE, {"reopened"})
  /\ UNCHANGED down /\ ServerSame
DeletePersona ==
  /\ page.selected # NoPersona
  /\ page' = [Blank EXCEPT !.selected = NoPersona, !.human = 0]
  /\ trouble' = trouble \cup (IF Quiet THEN {} ELSE {"crossed"})
  /\ UNCHANGED <<start, down>> /\ ServerSame
\* The microphone asks for a session when the page has none.
EnsureSession ==
  /\ page.open /\ page.selected # NoPersona /\ page.session = 0
  /\ AskSession(page.selected, page.mode, FALSE, {})
  /\ UNCHANGED <<page, down>> /\ ServerSame
\* An utterance without a session of its socket is answered by an error.
Speak ==
  /\ page.open /\ page.session # 0 /\ wire[page.conn] = "up" /\ index[page.conn] = 0
  /\ <<"gone", 0>> \notin {down[i] : i \in DOMAIN down}
  /\ down' = Append(down, <<"gone", 0>>)
  /\ UNCHANGED <<page, start, trouble>> /\ ServerSame

Cut ==
  /\ wire[page.conn] = "up" /\ page.conn < MaxDrops
  /\ wire' = [wire EXCEPT ![page.conn] = "cut"] /\ down' = <<>>
  /\ UNCHANGED <<page, start, session, index, latest, trouble, astray>>
Disconnected ==
  /\ page.open /\ wire[page.conn] # "up"
  /\ page' = [page EXCEPT !.open = FALSE, !.session = 0, !.human = 0]
  /\ UNCHANGED <<start, down, trouble>> /\ ServerSame
Reconnect ==
  /\ ~page.open /\ page.conn < MaxDrops
  /\ LET c == page.conn + 1
     IN  /\ page' = [page EXCEPT !.open = TRUE, !.conn = c]
         /\ wire' = [wire EXCEPT ![c] = "up"]
         /\ \/ page.selected = NoPersona /\ UNCHANGED <<start, trouble>>
            \/ \E h \in Starts :
                 /\ page.selected # NoPersona /\ start[h].at = "none"
                 /\ \A i \in Starts : i < h => start[i].at # "none"
                 /\ start' = [start EXCEPT ![h] =
                      [at |-> "sent", conn |-> c, persona |-> page.selected,
                       mode |-> page.mode, fresh |-> FALSE]]
                 /\ trouble' = {}
  /\ UNCHANGED <<session, index, down, latest, astray>>

\* The page handles what the gateway sent, in order.
Received(kind, h) ==
  /\ page.open /\ down # <<>> /\ Head(down) = <<kind, h>> /\ down' = Tail(down)
  /\ ServerSame
\* Mutant: the conversation shown before stays.
OnReadyKeepsChat == \E h \in Starts :
  /\ Received("ready", h)
  /\ page' = [page EXCEPT !.session = h, !.mode = start[h].mode,
                          !.human = IF start[h].mode = "digital-human" THEN @ ELSE 0]
  /\ UNCHANGED <<start, trouble>>
OnReady == \E h \in Starts :
  /\ Received("ready", h)
  /\ page' = [page EXCEPT !.session = h, !.chat = session[h].chat, !.mode = start[h].mode,
                          !.human = IF start[h].mode = "digital-human" THEN @ ELSE 0]
  /\ UNCHANGED <<start, trouble>>
OnHumanReady == \E h \in Starts :
  /\ Received("human", h)
  /\ page' = [page EXCEPT !.human = h] /\ UNCHANGED <<start, trouble>>
OnError ==
  /\ Received("error", 0) /\ trouble' = trouble \cup {"failed"}
  /\ UNCHANGED <<page, start>>
\* No active session: the page asks for one by itself.
OnSessionGone ==
  /\ Received("gone", 0)
  /\ page' = [page EXCEPT !.session = 0]
  /\ IF page.selected # NoPersona THEN AskSession(page.selected, page.mode, FALSE, {})
     ELSE UNCHANGED <<start, trouble>>

-----------------------------------------------------------------------------
Reply(h, messages) ==
  down' = IF start[h].conn = page.conn /\ wire[page.conn] = "up"
          THEN down \o messages ELSE down
Deleted(h) == [session EXCEPT ![h].live = FALSE,
                 ![h].human = IF @ = "open" THEN "closed" ELSE @]
HandlerAt(h, at) == start' = [start EXCEPT ![h].at = at]

\* Checked and permitted, the handler closes the session the socket has.
CloseOld(h) ==
  LET c == start[h].conn
      old == index[c]
      others == {i \in Starts : start[i].conn = c /\ start[i].at = "load"}
  IN  /\ start[h].at = "sent" /\ wire[c] # "gone"
      /\ session' = IF old = 0 THEN session ELSE Deleted(old)
      /\ index' = [index EXCEPT ![c] = 0]
      /\ astray' = astray \cup (IF others = {} THEN {}
                               ELSE {<<"overlap", i>> : i \in others \cup {h}})
      /\ HandlerAt(h, "load") /\ UNCHANGED <<page, wire, down, latest, trouble>>
\* Throttled, not permitted, an unknown persona, a failing query.
Refuse(h) ==
  /\ start[h].at = "load" \/ (start[h].at = "sent" /\ wire[start[h].conn] # "gone")
  /\ HandlerAt(h, "done") /\ Reply(h, << <<"error", 0>> >>)
  /\ UNCHANGED <<page, session, index, wire, latest, trouble, astray>>
Lost(h) ==
  /\ start[h].at = "sent" /\ wire[start[h].conn] \in {"cut", "gone"}
  /\ HandlerAt(h, "done")
  /\ UNCHANGED <<page, session, index, wire, down, latest, trouble, astray>>
\* The conversation is the latest of the persona, or a new one, and the session
\* takes the socket over, whoever had it and whether it is still there.
Register(h) ==
  LET s == start[h]
      n == IF s.fresh THEN latest[s.persona] + 1 ELSE latest[s.persona]
      human == s.mode = "digital-human"
  IN  /\ s.at = "load"
      /\ latest' = [latest EXCEPT ![s.persona] = n]
      /\ session' = [session EXCEPT ![h] =
           [live |-> TRUE, chat |-> [of |-> s.persona, n |-> n],
            human |-> IF human THEN "creating" ELSE "none"]]
      /\ index' = [index EXCEPT ![s.conn] = h]
      /\ astray' = astray
           \cup {<<"session", i>> : i \in {k \in {index[s.conn]} \ {0} : <<"overlap", h>> \in astray}}
           \cup (IF wire[s.conn] = "gone" THEN {<<"session", h>>} ELSE {})
      /\ HandlerAt(h, IF human THEN "provider" ELSE "done")
      /\ IF human THEN UNCHANGED down ELSE Reply(h, << <<"ready", h>> >>)
      /\ UNCHANGED <<page, wire, trouble>>
\* Mutant: the registry is not asked again.
HumanCreatedAnyway(h) ==
  LET here == TRUE
  IN  /\ start[h].at = "provider" /\ session[h].human = "creating"
      /\ session' = [session EXCEPT ![h].human = IF here THEN "open" ELSE "closed"]
      /\ HandlerAt(h, "done")
      /\ Reply(h, (IF here THEN << <<"human", h>> >> ELSE <<>>) \o << <<"ready", h>> >>)
      /\ UNCHANGED <<page, index, wire, latest, trouble, astray>>
\* A session that was closed meanwhile has its digital human closed, and is
\* announced all the same.
HumanCreated(h) ==
  LET here == session[h].live
  IN  /\ start[h].at = "provider" /\ session[h].human = "creating"
      /\ session' = [session EXCEPT ![h].human = IF here THEN "open" ELSE "closed"]
      /\ HandlerAt(h, "done")
      /\ Reply(h, (IF here THEN << <<"human", h>> >> ELSE <<>>) \o << <<"ready", h>> >>)
      /\ UNCHANGED <<page, index, wire, latest, trouble, astray>>
\* Ten seconds, or a refusal: the session stays, its handler fails.
HumanFails(h, late) ==
  /\ start[h].at = "provider" /\ session[h].human = "creating"
  /\ session' = [session EXCEPT ![h].human = IF late THEN "late" ELSE "none"]
  /\ HandlerAt(h, "done") /\ Reply(h, << <<"error", 0>> >>)
  /\ UNCHANGED <<page, index, wire, latest, trouble, astray>>
\* What the provider still creates after the ten seconds has no owner.
HumanTooLate(h) ==
  /\ session[h].human = "late"
  /\ session' = [session EXCEPT ![h].human = "open"]
  /\ astray' = astray \cup {<<"provider", h>>}
  /\ UNCHANGED <<page, start, index, wire, down, latest, trouble>>
\* The gateway sees the socket closed, or ends it after a missed heartbeat.
ClientGone(c) ==
  /\ wire[c] = "cut"
  /\ wire' = [wire EXCEPT ![c] = "gone"]
  /\ session' = IF index[c] = 0 THEN session ELSE Deleted(index[c])
  /\ index' = [index EXCEPT ![c] = 0]
  /\ UNCHANGED <<page, start, down, latest, trouble, astray>>

ChatNext ==
  \/ \E p \in Personas : SelectPersona(p)
  \/ \E m \in Modes : ChangeMode(m)
  \/ NewConversation \/ SelectConversation \/ DeletePersona \/ EnsureSession \/ Speak
  \/ Cut \/ Disconnected \/ Reconnect \/ OnReady \/ OnHumanReady \/ OnError \/ OnSessionGone
  \/ \E h \in Starts : \/ CloseOld(h) \/ Refuse(h) \/ Lost(h) \/ Register(h)
                       \/ HumanCreated(h) \/ HumanTooLate(h)
                       \/ \E late \in BOOLEAN : HumanFails(h, late)
  \/ \E c \in Sockets : ClientGone(c)
ChatSpec == ChatInit /\ [][ChatNext]_chatVars

-----------------------------------------------------------------------------
(* A page that asked for one session at a time and was not refused has,    *)
(* once answered, the session the gateway keeps for its socket, with the   *)
(* persona and mode the page shows, its conversation and no other          *)
(* session's digital human.                                                *)
PageShowsItsSession ==
  page.open /\ wire[page.conn] = "up" /\ Quiet /\ trouble = {} /\ page.session # 0 =>
    /\ session[page.session].live /\ index[page.conn] = page.session
    /\ start[page.session].persona = page.selected
    /\ start[page.session].mode = page.mode
    /\ page.chat = session[page.session].chat
    /\ page.human \in {0, page.session}

(* A session lives with the socket it was made for and is found by it; a   *)
(* digital human is open only for a live session.  Only handlers that ran  *)
(* past each other or past the close of their socket, and a provider that  *)
(* answers after its ten seconds, leave anything behind.                   *)
NothingOrphaned == \A h \in Starts :
  /\ session[h].live /\ <<"session", h>> \notin astray =>
       wire[start[h].conn] # "gone" /\ index[start[h].conn] = h
  /\ session[h].human = "open" /\ <<"provider", h>> \notin astray => session[h].live
=============================================================================
