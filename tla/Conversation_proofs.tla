------------------------- MODULE Conversation_proofs -------------------------
(* Proofs about a conversation, for every value of its constants: the page   *)
(* and its session, microphone, playback, voices, log and memory.            *)
EXTENDS ChatSession, MicController, TtsPlayback, SpeechProviders,
        ConversationMemory, MemoryRecords, FiniteSetTheorems,
        WellFoundedInduction, TLAPS

-----------------------------------------------------------------------------
(***************************************************************************)
(* That a session leaves nothing behind. The registry points at sessions   *)
(* that live and began on the socket it finds them by; a session that      *)
(* lives is found by its socket as long as the socket is there; and a      *)
(* human that is open is of a session that lives, or was left by the steps *)
(* "astray" names.                                                         *)
(***************************************************************************)

AnyChat == [of : Personas \cup {NoPersona}, n : Nat]
ChatShape ==
  /\ page \in [open : BOOLEAN, conn : Sockets, selected : Personas \cup {NoPersona},
               mode : Modes, session : 0..MaxStarts, chat : AnyChat, human : 0..MaxStarts]
  /\ start \in [Starts -> [at : {"none", "sent", "load", "provider", "done"},
                           conn : Sockets, persona : Personas \cup {NoPersona},
                           mode : Modes, fresh : BOOLEAN]]
  /\ session \in [Starts -> [live : BOOLEAN, chat : AnyChat,
                             human : {"none", "creating", "late", "open", "closed"}]]
  /\ index \in [Sockets -> 0..MaxStarts]
  /\ wire \in [Sockets -> {"unused", "up", "cut", "gone"}]
  /\ latest \in [Personas -> Nat]

\* How far a handler is, and what there is of its session.
HandlerInv == \A h \in Starts :
  /\ start[h].at \in {"none", "sent", "load"} => ~session[h].live /\ session[h].human = "none"
  /\ start[h].at # "none" => start[h].persona \in Personas

\* Who has the socket, and who will take it.
SocketInv ==
  /\ \A c \in Sockets : index[c] # 0 =>
       session[index[c]].live /\ start[index[c]].conn = c
  /\ \A h \in Starts : start[h].at = "load" =>
       /\ index[start[h].conn] # 0 => <<"overlap", h>> \in astray
       /\ \A i \in Starts : i # h /\ start[i].at = "load" /\ start[i].conn = start[h].conn =>
            <<"overlap", h>> \in astray

ChatInv == ChatShape /\ HandlerInv /\ SocketInv /\ NothingOrphaned


\* A non-empty set of naturals has a least member.
LEMMA LeastOf ==
  ASSUME NEW T, T \subseteq Nat, T # {}
  PROVE  \E m \in T : \A k \in T : m <= k
<1>1. \E m \in T : \A k \in T : ~(<<k, m>> \in OpToRel(<, Nat))
  BY NatLessThanWellFounded, WFMin
<1>2. \E m \in T : \A k \in T : ~(k < m)
  BY <1>1 DEF OpToRel
<1> QED BY <1>2

\* Starts and sockets are numbers, 0 is the socket no one has.
LEMMA StartsAreNumbers == Starts \subseteq Nat \ {0} /\ Sockets \subseteq Nat /\ 0 \in Sockets
BY ChatBounds DEF Starts, Sockets

\* What a new session:start is.
SentStarts == [at : {"sent"}, conn : Sockets, persona : Personas, mode : Modes,
               fresh : BOOLEAN]

\* To ask for a session sends one new session:start.
LEMMA AskEffect ==
  ASSUME ChatInv, NEW p \in Personas, NEW mode \in Modes, NEW fresh \in BOOLEAN, NEW why,
         AskSession(p, mode, fresh, why)
  PROVE  \E h \in Starts, r \in SentStarts : start[h].at = "none" /\ start' = [start EXCEPT ![h] = r]
<1>. DEFINE next == {h \in Starts : start[h].at = "none"}
            h == CHOOSE h \in next : \A i \in next : h <= i
            r == [at |-> "sent", conn |-> page.conn, persona |-> p, mode |-> mode,
                  fresh |-> fresh]
<1>1. next # {} /\ start' = [start EXCEPT ![h] = r]
  BY DEF AskSession
<1>2. h \in next
  <2>1. next \subseteq Nat
    BY StartsAreNumbers
  <2>2. \E m \in next : \A k \in next : m <= k
    BY <1>1, <2>1, LeastOf
  <2>. QED BY <2>2
<1>3. r \in SentStarts
  BY DEF ChatInv, ChatShape, SentStarts
<1>. QED BY <1>1, <1>2, <1>3

\* A step of the page, or of its socket, that leaves the gateway alone.
LEMMA PageSafe ==
  ASSUME ChatInv, session' = session, index' = index, latest' = latest, astray' = astray,
         page' \in [open : BOOLEAN, conn : Sockets, selected : Personas \cup {NoPersona},
               mode : Modes, session : 0..MaxStarts, chat : AnyChat, human : 0..MaxStarts],
         wire' \in [Sockets -> {"unused", "up", "cut", "gone"}],
         \A c \in Sockets : wire'[c] = "gone" => wire[c] = "gone",
         \/ start' = start
         \/ \E h \in Starts, r \in SentStarts : start[h].at = "none" /\ start' = [start EXCEPT ![h] = r]
  PROVE  ChatInv'
<1>1. CASE start' = start
  BY <1>1 DEF ChatInv, ChatShape, HandlerInv, SocketInv, NothingOrphaned
<1>2. CASE \E h \in Starts, r \in SentStarts : start[h].at = "none" /\ start' = [start EXCEPT ![h] = r]
  <2>1. PICK h \in Starts, r \in SentStarts : start[h].at = "none" /\ start' = [start EXCEPT ![h] = r]
    BY <1>2
  <2>2. /\ start'[h] = r /\ r.at = "sent" /\ r.persona \in Personas
        /\ \A i \in Starts : i # h => start'[i] = start[i]
        /\ r \in [at : {"none", "sent", "load", "provider", "done"},
                  conn : Sockets, persona : Personas \cup {NoPersona},
                  mode : Modes, fresh : BOOLEAN]
    BY <2>1 DEF ChatInv, ChatShape, SentStarts
  <2>3. ChatShape'
    <3>1. start' \in [Starts -> [at : {"none", "sent", "load", "provider", "done"},
                                 conn : Sockets, persona : Personas \cup {NoPersona},
                                 mode : Modes, fresh : BOOLEAN]]
      BY <2>1, <2>2 DEF ChatInv, ChatShape
    <3>. QED BY <3>1 DEF ChatInv, ChatShape
  <2>4. ~session[h].live /\ session[h].human = "none"
    BY <2>1 DEF ChatInv, HandlerInv
  <2>5. HandlerInv'
    BY <2>2, <2>4 DEF ChatInv, HandlerInv
  <2>6. SocketInv'
    <3>1. \A c \in Sockets : index[c] # 0 => index[c] \in Starts /\ index[c] # h
      BY <2>4, ChatBounds DEF ChatInv, ChatShape, SocketInv, Starts
    <3>. QED BY <2>2, <3>1 DEF ChatInv, SocketInv
  <2>7. NothingOrphaned'
    <3>1. \A i \in Starts : start[i].conn \in Sockets
      BY DEF ChatInv, ChatShape
    <3>. SUFFICES ASSUME NEW i \in Starts
                  PROVE  /\ session[i].live /\ <<"session", i>> \notin astray =>
                              wire'[start'[i].conn] # "gone" /\ index[start'[i].conn] = i
                         /\ session[i].human = "open" /\ <<"provider", i>> \notin astray =>
                              session[i].live
      BY DEF NothingOrphaned
    <3>2. CASE i = h
      BY <2>4, <3>2
    <3>3. CASE i # h
      BY <2>2, <3>1, <3>3 DEF ChatInv, NothingOrphaned
    <3>. QED BY <3>2, <3>3
  <2>. QED BY <2>3, <2>5, <2>6, <2>7 DEF ChatInv
<1>. QED BY <1>1, <1>2


\* What the page does, and what happens to its socket.
LEMMA PageStepSafe ==
  ASSUME ChatInv,
         \/ \E p \in Personas : SelectPersona(p)
         \/ \E m \in Modes : ChangeMode(m)
         \/ NewConversation \/ SelectConversation \/ DeletePersona \/ EnsureSession \/ Speak
         \/ Disconnected \/ OnReady \/ OnHumanReady \/ OnError \/ OnSessionGone
  PROVE  ChatInv'
<1>. DEFINE Grows(st) == \E h \in Starts, r \in SentStarts : start[h].at = "none" /\ st = [start EXCEPT ![h] = r]
            Pages == [open : BOOLEAN, conn : Sockets, selected : Personas \cup {NoPersona},
               mode : Modes, session : 0..MaxStarts, chat : AnyChat, human : 0..MaxStarts]
<1>0. /\ page \in Pages /\ \A h \in Starts : session[h].chat \in AnyChat /\ start[h].mode \in Modes
      /\ wire \in [Sockets -> {"unused", "up", "cut", "gone"}]
      /\ NoChat \in AnyChat /\ 0 \in 0 .. MaxStarts /\ \A h \in Starts : h \in 0 .. MaxStarts
      /\ \A p \in Personas : [of |-> p, n |-> 1] \in AnyChat
  <2>1. page \in Pages /\ wire \in [Sockets -> {"unused", "up", "cut", "gone"}]
    BY DEF ChatInv, ChatShape
  <2>2. \A h \in Starts : session[h].chat \in AnyChat /\ start[h].mode \in Modes
    BY DEF ChatInv, ChatShape
  <2>3. NoChat \in AnyChat /\ \A p \in Personas : [of |-> p, n |-> 1] \in AnyChat
    BY DEF NoChat, AnyChat
  <2>4. 0 \in 0 .. MaxStarts /\ \A h \in Starts : h \in 0 .. MaxStarts
    BY ChatBounds DEF Starts
  <2>. QED BY <2>1, <2>2, <2>3, <2>4
<1>s. ServerSame => /\ session' = session /\ index' = index /\ latest' = latest
                    /\ astray' = astray /\ wire' = wire
  BY DEF ServerSame
<1>1. ASSUME NEW p \in Personas, SelectPersona(p)
      PROVE  ServerSame /\ page' \in Pages /\ (start' = start \/ Grows(start'))
  <2>1. ServerSame /\ page' \in Pages
    BY <1>0, <1>1 DEF SelectPersona, Blank
  <2>2. CASE page.open
    <3>1. AskSession(p, page.mode, FALSE, {})
      BY <1>1, <2>2 DEF SelectPersona
    <3>. QED BY <1>0, <2>1, <3>1, AskEffect
  <2>3. CASE ~page.open
    BY <1>1, <2>1, <2>3 DEF SelectPersona
  <2>. QED BY <2>2, <2>3
<1>2. ASSUME NEW m \in Modes, ChangeMode(m)
      PROVE  ServerSame /\ page' \in Pages /\ (start' = start \/ Grows(start'))
  <2>1. ServerSame /\ page' \in Pages
    <3>1. ServerSame /\ (page' = [Blank EXCEPT !.mode = m, !.human = 0]
                         \/ page' = [page EXCEPT !.mode = m, !.human = 0])
      BY <1>2 DEF ChangeMode
    <3>2. Blank \in Pages
      BY <1>0 DEF Blank
    <3>. QED BY <1>0, <3>1, <3>2
  <2>2. CASE page.open /\ page.selected # NoPersona
    <3>1. AskSession(page.selected, m, FALSE, {}) /\ page.selected \in Personas
      BY <1>0, <1>2, <2>2 DEF ChangeMode
    <3>. QED BY <1>0, <2>1, <3>1, AskEffect
  <2>3. CASE ~(page.open /\ page.selected # NoPersona)
    BY <1>2, <2>1, <2>3 DEF ChangeMode
  <2>. QED BY <2>2, <2>3
<1>3. ASSUME NewConversation \/ SelectConversation \/ EnsureSession
      PROVE  ServerSame /\ page' \in Pages /\ Grows(start')
  <2>1. ServerSame /\ page' \in Pages /\ page.selected \in Personas /\ page.mode \in Modes
    BY <1>0, <1>3 DEF NewConversation, SelectConversation, EnsureSession
  <2>2. \E fresh \in BOOLEAN : \E why : AskSession(page.selected, page.mode, fresh, why)
    BY <1>3 DEF NewConversation, SelectConversation, EnsureSession
  <2>. QED BY <2>1, <2>2, AskEffect
<1>4. ASSUME DeletePersona \/ Speak \/ Disconnected \/ OnReady \/ OnHumanReady \/ OnError
      PROVE  ServerSame /\ page' \in Pages /\ start' = start
  <2>1. CASE DeletePersona \/ Speak \/ Disconnected
    <3>1. Blank \in Pages
      BY <1>0 DEF Blank
    <3>2. CASE DeletePersona
      BY <1>0, <3>1, <3>2 DEF DeletePersona
    <3>3. CASE Speak
      BY <1>0, <3>3 DEF Speak
    <3>4. CASE Disconnected
      BY <1>0, <3>4 DEF Disconnected
    <3>. QED BY <2>1, <3>2, <3>3, <3>4
  <2>2. CASE OnReady
    <3>1. PICK h \in Starts :
            /\ ServerSame /\ start' = start
            /\ page' = [page EXCEPT !.session = h, !.chat = session[h].chat, !.mode = start[h].mode,
                         !.human = IF start[h].mode = "digital-human" THEN @ ELSE 0]
      BY <2>2 DEF OnReady, Received
    <3>. QED BY <1>0, <3>1
  <2>3. CASE OnHumanReady
    <3>1. PICK h \in Starts :
            ServerSame /\ start' = start /\ page' = [page EXCEPT !.human = h]
      BY <2>3 DEF OnHumanReady, Received
    <3>. QED BY <1>0, <3>1
  <2>4. CASE OnError
    BY <1>0, <2>4 DEF OnError, Received
  <2>. QED BY <1>4, <2>1, <2>2, <2>3, <2>4
<1>5. ASSUME OnSessionGone
      PROVE  ServerSame /\ page' \in Pages /\ (start' = start \/ Grows(start'))
  <2>1. ServerSame /\ page' \in Pages
    BY <1>0, <1>5 DEF OnSessionGone, Received
  <2>2. CASE page.selected # NoPersona
    <3>1. AskSession(page.selected, page.mode, FALSE, {}) /\ page.selected \in Personas
      BY <1>0, <1>5, <2>2 DEF OnSessionGone
    <3>. QED BY <1>0, <2>1, <3>1, AskEffect
  <2>3. CASE page.selected = NoPersona
    BY <1>5, <2>1, <2>3 DEF OnSessionGone
  <2>. QED BY <2>2, <2>3
<1>6. ServerSame /\ page' \in Pages /\ (start' = start \/ Grows(start'))
  BY <1>1, <1>2, <1>3, <1>4, <1>5
<1>. QED BY <1>0, <1>s, <1>6, PageSafe

\* A cut and a reconnect change the page's socket only.
LEMMA SocketSafe ==
  ASSUME ChatInv, Cut \/ Reconnect
  PROVE  ChatInv'
<1>1. CASE Cut
  <2>1. /\ session' = session /\ index' = index /\ latest' = latest /\ astray' = astray
        /\ page' = page /\ start' = start /\ wire' = [wire EXCEPT ![page.conn] = "cut"]
    BY <1>1 DEF Cut
  <2>. QED BY <2>1, PageSafe DEF ChatInv, ChatShape
<1>2. CASE Reconnect
  <2>. DEFINE c == page.conn + 1
  <2>1. /\ session' = session /\ index' = index /\ latest' = latest /\ astray' = astray
        /\ page' = [page EXCEPT !.open = TRUE, !.conn = c]
        /\ wire' = [wire EXCEPT ![c] = "up"] /\ page.conn < MaxDrops
    BY <1>2 DEF Reconnect
  <2>2. c \in Sockets
    BY <2>1, ChatBounds DEF ChatInv, ChatShape, Sockets
  <2>3. \/ start' = start
        \/ \E h \in Starts, r \in SentStarts : start[h].at = "none" /\ start' = [start EXCEPT ![h] = r]
    <3>1. CASE page.selected = NoPersona /\ start' = start
      BY <3>1
    <3>2. CASE page.selected # NoPersona
      <4>. DEFINE r == [at |-> "sent", conn |-> c, persona |-> page.selected,
                        mode |-> page.mode, fresh |-> FALSE]
      <4>1. PICK h \in Starts : start[h].at = "none" /\ start' = [start EXCEPT ![h] = r]
        BY <1>2, <3>2 DEF Reconnect
      <4>2. r \in SentStarts
        BY <2>2, <3>2 DEF ChatInv, ChatShape, SentStarts
      <4>. QED BY <4>1, <4>2
    <3>. QED BY <1>2, <3>1, <3>2 DEF Reconnect
  <2>. QED BY <2>1, <2>2, <2>3, PageSafe DEF ChatInv, ChatShape
<1>. QED BY <1>1, <1>2


\* A handler goes on: only how far it is changes.
LEMMA HandlerMoves ==
  ASSUME ChatInv, NEW h \in Starts, NEW at \in {"none", "sent", "load", "provider", "done"},
         HandlerAt(h, at)
  PROVE  /\ start' \in [Starts -> [at : {"none", "sent", "load", "provider", "done"},
                                   conn : Sockets, persona : Personas \cup {NoPersona},
                                   mode : Modes, fresh : BOOLEAN]]
         /\ start'[h].at = at
         /\ \A i \in Starts : /\ start'[i].conn = start[i].conn /\ start[i].conn \in Sockets
                              /\ start'[i].persona = start[i].persona
                              /\ i # h => start'[i].at = start[i].at
BY DEF ChatInv, ChatShape, HandlerAt

\* A session is deleted from the registry, with its digital human.
LEMMA DeletedEffect ==
  ASSUME ChatInv, NEW old \in Starts, session' = Deleted(old)
  PROVE  /\ session' \in [Starts -> [live : BOOLEAN, chat : AnyChat,
                                     human : {"none", "creating", "late", "open", "closed"}]]
         /\ ~session'[old].live /\ session'[old].human # "open"
         /\ session[old].human = "none" => session'[old].human = "none"
         /\ \A i \in Starts : i # old => session'[i] = session[i]
<1>. DEFINE Sessions == [live : BOOLEAN, chat : AnyChat,
                         human : {"none", "creating", "late", "open", "closed"}]
<1>1. session \in [Starts -> Sessions]
  BY DEF ChatInv, ChatShape
<1>2. session' = [session EXCEPT ![old].live = FALSE,
                    ![old].human = IF @ = "open" THEN "closed" ELSE @]
  BY DEF Deleted
<1>3. \A i \in Starts : i # old => session'[i] = session[i]
  BY <1>1, <1>2
<1>4. /\ session'[old] \in Sessions /\ ~session'[old].live /\ session'[old].human # "open"
      /\ session[old].human = "none" => session'[old].human = "none"
  <2>1. PICK x \in Sessions : x = session[old]
    BY <1>1
  <2>2. PICK human \in {"none", "creating", "late", "open", "closed"} :
          human = IF x.human = "open" THEN "closed" ELSE x.human
    OBVIOUS
  <2>3. session'[old] = [x EXCEPT !.live = FALSE, !.human = human]
    BY <1>1, <1>2, <2>1, <2>2
  <2>. QED BY <2>1, <2>2, <2>3
<1>5. session' \in [Starts -> Sessions]
  <2>1. DOMAIN session' = Starts /\ session' = [i \in Starts |-> session'[i]]
    BY <1>1, <1>2
  <2>2. \A i \in Starts : session'[i] \in Sessions
    BY <1>1, <1>3, <1>4
  <2>. QED BY <2>1, <2>2
<1>. QED BY <1>3, <1>4, <1>5

\* The registry finds, by its socket, a session that lives and began on that
\* socket.
LEMMA Indexed ==
  ASSUME ChatInv, NEW c \in Sockets, index[c] # 0
  PROVE  index[c] \in Starts /\ session[index[c]].live /\ start[index[c]].conn = c
BY ChatBounds DEF ChatInv, ChatShape, SocketInv, Starts

\* Taking a socket's session away leaves no other that is found by it.
LEMMA SocketFreed ==
  ASSUME ChatInv, NEW c \in Sockets,
         session' = (IF index[c] = 0 THEN session ELSE Deleted(index[c])),
         index' = [index EXCEPT ![c] = 0]
  PROVE  /\ session' \in [Starts -> [live : BOOLEAN, chat : AnyChat,
                                     human : {"none", "creating", "late", "open", "closed"}]]
         /\ index' \in [Sockets -> 0 .. MaxStarts]
         /\ \A d \in Sockets : index'[d] = IF d = c THEN 0 ELSE index[d]
         /\ \A i \in Starts : \/ session'[i] = session[i] /\ (i # index[c] \/ index[c] = 0)
                              \/ /\ index[c] = i /\ session[i].live /\ start[i].conn = c
                                 /\ ~session'[i].live /\ session'[i].human # "open"
<1>1. index' \in [Sockets -> 0 .. MaxStarts]
      /\ \A d \in Sockets : index'[d] = IF d = c THEN 0 ELSE index[d]
  BY ChatBounds DEF ChatInv, ChatShape
<1>2. CASE index[c] = 0
  BY <1>1, <1>2 DEF ChatInv, ChatShape
<1>3. CASE index[c] # 0
  BY <1>1, <1>3, Indexed, DeletedEffect
<1>. QED BY <1>2, <1>3

\* A handler that finds a session of its socket ends it before it goes on.
LEMMA CloseOldSafe ==
  ASSUME ChatInv, NEW h \in Starts, CloseOld(h)
  PROVE  ChatInv'
<1>. DEFINE c == start[h].conn
            others == {i \in Starts : start[i].conn = c /\ start[i].at = "load"}
<1>1. /\ start[h].at = "sent" /\ wire[c] # "gone"
      /\ session' = (IF index[c] = 0 THEN session ELSE Deleted(index[c]))
      /\ index' = [index EXCEPT ![c] = 0]
      /\ astray' = astray \cup (IF others = {} THEN {}
                               ELSE {<<"overlap", i>> : i \in others \cup {h}})
      /\ HandlerAt(h, "load") /\ page' = page /\ wire' = wire /\ latest' = latest
  BY DEF CloseOld
<1>2. c \in Sockets
  BY DEF ChatInv, ChatShape
<1>3. /\ session' \in [Starts -> [live : BOOLEAN, chat : AnyChat,
                                  human : {"none", "creating", "late", "open", "closed"}]]
      /\ index' \in [Sockets -> 0 .. MaxStarts]
      /\ \A d \in Sockets : index'[d] = IF d = c THEN 0 ELSE index[d]
      /\ \A i \in Starts : \/ session'[i] = session[i] /\ (i # index[c] \/ index[c] = 0)
                           \/ /\ index[c] = i /\ session[i].live /\ start[i].conn = c
                              /\ ~session'[i].live /\ session'[i].human # "open"
  BY <1>1, <1>2, SocketFreed
<1>4. /\ start' \in [Starts -> [at : {"none", "sent", "load", "provider", "done"},
                                conn : Sockets, persona : Personas \cup {NoPersona},
                                mode : Modes, fresh : BOOLEAN]]
      /\ start'[h].at = "load"
      /\ \A i \in Starts : /\ start'[i].conn = start[i].conn /\ start[i].conn \in Sockets
                           /\ start'[i].persona = start[i].persona
                           /\ i # h => start'[i].at = start[i].at
  BY <1>1, HandlerMoves
<1>5. ChatShape'
  BY <1>1, <1>3, <1>4 DEF ChatInv, ChatShape
<1>6. HandlerInv'
  BY <1>1, <1>3, <1>4 DEF ChatInv, HandlerInv
<1>7. SocketInv'
  <2>1. ASSUME NEW d \in Sockets, index'[d] # 0
        PROVE  session'[index'[d]].live /\ start'[index'[d]].conn = d
    <3>1. d # c /\ index'[d] = index[d] /\ index[d] \in Starts
          /\ session[index[d]].live /\ start[index[d]].conn = d
      BY <1>3, <2>1, Indexed
    <3>. QED BY <1>3, <1>4, <3>1
  <2>2. ASSUME NEW i \in Starts, start'[i].at = "load"
        PROVE  /\ index'[start'[i].conn] # 0 => <<"overlap", i>> \in astray'
               /\ \A j \in Starts : j # i /\ start'[j].at = "load" /\ start'[j].conn = start'[i].conn =>
                    <<"overlap", i>> \in astray'
    <3>1. CASE i = h
      <4>1. index'[start'[i].conn] = 0
        BY <1>2, <1>3, <1>4, <3>1
      <4>2. ASSUME NEW j \in Starts, j # i, start'[j].at = "load", start'[j].conn = start'[i].conn
            PROVE  <<"overlap", i>> \in astray'
        <5>1. j \in others
          BY <1>4, <3>1, <4>2
        <5>. QED BY <1>1, <3>1, <5>1
      <4>. QED BY <4>1, <4>2
    <3>2. CASE i # h
      <4>1. start[i].at = "load" /\ start'[i].conn = start[i].conn /\ start[i].conn \in Sockets
        BY <1>4, <2>2, <3>2
      <4>2. CASE start[i].conn = c
        <5>1. i \in others
          BY <4>1, <4>2
        <5>. QED BY <1>1, <5>1
      <4>3. CASE start[i].conn # c
        <5>1. index'[start'[i].conn] # 0 => <<"overlap", i>> \in astray'
          BY <1>1, <1>3, <4>1, <4>3 DEF ChatInv, SocketInv
        <5>2. ASSUME NEW j \in Starts, j # i, start'[j].at = "load", start'[j].conn = start'[i].conn
              PROVE  <<"overlap", i>> \in astray'
          <6>1. j # h
            BY <1>4, <4>1, <4>3, <5>2
          <6>. QED BY <1>1, <1>4, <4>1, <5>2, <6>1 DEF ChatInv, SocketInv
        <5>. QED BY <5>1, <5>2
      <4>. QED BY <4>2, <4>3
    <3>. QED BY <3>1, <3>2
  <2>. QED BY <2>1, <2>2 DEF SocketInv
<1>8. NothingOrphaned'
  <2>. SUFFICES ASSUME NEW i \in Starts
                PROVE  /\ session'[i].live /\ <<"session", i>> \notin astray' =>
                            wire'[start'[i].conn] # "gone" /\ index'[start'[i].conn] = i
                       /\ session'[i].human = "open" /\ <<"provider", i>> \notin astray' =>
                            session'[i].live
    BY DEF NothingOrphaned
  <2>1. /\ <<"session", i>> \notin astray' => <<"session", i>> \notin astray
        /\ <<"provider", i>> \notin astray' => <<"provider", i>> \notin astray
    BY <1>1
  <2>2. CASE session'[i] = session[i] /\ (i # index[c] \/ index[c] = 0)
    <3>1. i # 0
      BY StartsAreNumbers
    <3>2. /\ session[i].live /\ <<"session", i>> \notin astray =>
               wire[start[i].conn] # "gone" /\ index[start[i].conn] = i
          /\ session[i].human = "open" /\ <<"provider", i>> \notin astray => session[i].live
      BY DEF ChatInv, NothingOrphaned
    <3>3. start'[i].conn = start[i].conn /\ start[i].conn \in Sockets /\ wire' = wire
      BY <1>1, <1>2, <1>4
    <3>4. start[i].conn # c => index'[start[i].conn] = index[start[i].conn]
      BY <1>1, <1>3, <3>3
    <3>. QED BY <2>1, <2>2, <3>1, <3>2, <3>3, <3>4
  <2>. QED BY <1>3, <2>2
<1>. QED BY <1>5, <1>6, <1>7, <1>8 DEF ChatInv


\* A handler is through, or the provider answers: no session comes or goes.
LEMMA AnswerSafe ==
  ASSUME ChatInv, NEW h \in Starts, start' = start \/ HandlerAt(h, "done"),
         start[h].at # "none", start[h].at \in {"sent", "load"} => session' = session,
         session' \in [Starts -> [live : BOOLEAN, chat : AnyChat,
                                  human : {"none", "creating", "late", "open", "closed"}]],
         \A i \in Starts : session'[i].live = session[i].live
                           /\ (i # h => session'[i] = session[i]),
         session'[h] = session[h] \/ session'[h].human # "open" \/ session[h].live
           \/ <<"provider", h>> \in astray',
         astray \subseteq astray',
         page' = page, index' = index, wire' = wire, latest' = latest
  PROVE  ChatInv'
<1>1. /\ start' \in [Starts -> [at : {"none", "sent", "load", "provider", "done"},
                                conn : Sockets, persona : Personas \cup {NoPersona},
                                mode : Modes, fresh : BOOLEAN]]
      /\ \A i \in Starts : /\ start'[i].conn = start[i].conn /\ start[i].conn \in Sockets
                           /\ start'[i].persona = start[i].persona
                           /\ start'[i].at = start[i].at \/ (i = h /\ start'[i].at = "done")
  <2>1. CASE start' = start
    BY <2>1 DEF ChatInv, ChatShape
  <2>2. CASE HandlerAt(h, "done")
    BY <2>2, HandlerMoves
  <2>. QED BY <2>1, <2>2
<1>2. ChatShape'
  BY <1>1 DEF ChatInv, ChatShape
<1>3. HandlerInv'
  <2>. SUFFICES ASSUME NEW i \in Starts
                PROVE  /\ start'[i].at \in {"none", "sent", "load"} =>
                            ~session'[i].live /\ session'[i].human = "none"
                       /\ start'[i].at # "none" => start'[i].persona \in Personas
    BY DEF HandlerInv
  <2>1. start'[i].at # "none" => start[i].at # "none"
    BY <1>1
  <2>2. start'[i].at # "none" => start'[i].persona \in Personas
    BY <1>1, <2>1 DEF ChatInv, HandlerInv
  <2>3. ASSUME start'[i].at \in {"none", "sent", "load"}
        PROVE  ~session'[i].live /\ session'[i].human = "none"
    <3>1. start[i].at \in {"none", "sent", "load"}
      BY <1>1, <2>3
    <3>2. session'[i] = session[i]
      BY <3>1
    <3>. QED BY <3>1, <3>2 DEF ChatInv, HandlerInv
  <2>. QED BY <2>2, <2>3
<1>4. SocketInv'
  <2>1. ASSUME NEW c \in Sockets, index'[c] # 0
        PROVE  session'[index'[c]].live /\ start'[index'[c]].conn = c
    BY <1>1, <2>1, Indexed
  <2>2. ASSUME NEW i \in Starts, start'[i].at = "load"
        PROVE  /\ index'[start'[i].conn] # 0 => <<"overlap", i>> \in astray'
               /\ \A j \in Starts : j # i /\ start'[j].at = "load" /\ start'[j].conn = start'[i].conn =>
                    <<"overlap", i>> \in astray'
    <3>1. \A j \in Starts : start'[j].at = "load" => start[j].at = "load"
      BY <1>1
    <3>. QED BY <1>1, <2>2, <3>1 DEF ChatInv, SocketInv
  <2>. QED BY <2>1, <2>2 DEF SocketInv
<1>5. NothingOrphaned'
  <2>. SUFFICES ASSUME NEW i \in Starts
                PROVE  /\ session'[i].live /\ <<"session", i>> \notin astray' =>
                            wire'[start'[i].conn] # "gone" /\ index'[start'[i].conn] = i
                       /\ session'[i].human = "open" /\ <<"provider", i>> \notin astray' =>
                            session'[i].live
    BY DEF NothingOrphaned
  <2>1. session'[i].live /\ <<"session", i>> \notin astray' =>
          wire'[start'[i].conn] # "gone" /\ index'[start'[i].conn] = i
    <3>1. start'[i].conn = start[i].conn /\ session'[i].live = session[i].live
      BY <1>1
    <3>. SUFFICES ASSUME session[i].live, <<"session", i>> \notin astray
                  PROVE  wire[start[i].conn] # "gone" /\ index[start[i].conn] = i
      BY <3>1
    <3>. QED BY DEF ChatInv, NothingOrphaned
  <2>2. session'[i].human = "open" /\ <<"provider", i>> \notin astray' => session'[i].live
    <3>1. CASE session'[i] = session[i]
      BY <3>1 DEF ChatInv, NothingOrphaned
    <3>2. CASE i = h /\ session'[i] # session[i]
      BY <3>2
    <3>. QED BY <3>1, <3>2
  <2>. QED BY <2>1, <2>2
<1>. QED BY <1>2, <1>3, <1>4, <1>5 DEF ChatInv

\* The answers of a handler: refused, the page gone, the human made, made too
\* late, or not made.
LEMMA HandlerAnswerSafe ==
  ASSUME ChatInv, NEW h \in Starts,
         \/ Refuse(h) \/ Lost(h) \/ HumanCreated(h) \/ HumanTooLate(h)
         \/ \E late \in BOOLEAN : HumanFails(h, late)
  PROVE  ChatInv'
<1>. DEFINE Sessions == [live : BOOLEAN, chat : AnyChat,
                         human : {"none", "creating", "late", "open", "closed"}]
<1>0. session \in [Starts -> Sessions]
  BY DEF ChatInv, ChatShape
<1>1. CASE Refuse(h) \/ Lost(h)
  <2>1. /\ HandlerAt(h, "done") /\ session' = session /\ astray' = astray /\ start[h].at # "none"
        /\ page' = page /\ index' = index /\ wire' = wire /\ latest' = latest
    BY <1>1 DEF Refuse, Lost
  <2>. QED BY <1>0, <2>1, AnswerSafe
<1>2. CASE HumanCreated(h)
  <2>1. /\ HandlerAt(h, "done") /\ astray' = astray /\ start[h].at = "provider"
        /\ session' = [session EXCEPT ![h].human = IF session[h].live THEN "open" ELSE "closed"]
        /\ page' = page /\ index' = index /\ wire' = wire /\ latest' = latest
    BY <1>2 DEF HumanCreated
  <2>2. /\ session' \in [Starts -> Sessions]
        /\ session'[h].human # "open" \/ session[h].live
    BY <1>0, <2>1
  <2>3. \A i \in Starts : session'[i].live = session[i].live
                           /\ (i # h => session'[i] = session[i])
    BY <1>0, <2>1
  <2>. QED BY <2>1, <2>2, <2>3, AnswerSafe
<1>3. CASE \E late \in BOOLEAN : HumanFails(h, late)
  <2>1. PICK late \in BOOLEAN :
        /\ HandlerAt(h, "done") /\ astray' = astray /\ start[h].at = "provider"
        /\ session' = [session EXCEPT ![h].human = IF late THEN "late" ELSE "none"]
        /\ page' = page /\ index' = index /\ wire' = wire /\ latest' = latest
    BY <1>3 DEF HumanFails
  <2>2. session' \in [Starts -> Sessions] /\ session'[h].human # "open"
    BY <1>0, <2>1
  <2>3. \A i \in Starts : session'[i].live = session[i].live
                           /\ (i # h => session'[i] = session[i])
    BY <1>0, <2>1
  <2>. QED BY <2>1, <2>2, <2>3, AnswerSafe
<1>4. CASE HumanTooLate(h)
  <2>1. /\ start' = start /\ astray' = astray \cup {<<"provider", h>>}
        /\ session[h].human = "late" /\ session' = [session EXCEPT ![h].human = "open"]
        /\ page' = page /\ index' = index /\ wire' = wire /\ latest' = latest
    BY <1>4 DEF HumanTooLate
  <2>2. session' \in [Starts -> Sessions]
    BY <1>0, <2>1
  <2>3. \A i \in Starts : session'[i].live = session[i].live
                           /\ (i # h => session'[i] = session[i])
    BY <1>0, <2>1
  <2>4. start[h].at \notin {"none", "sent", "load"}
    BY <2>1 DEF ChatInv, HandlerInv
  <2>. QED BY <2>1, <2>2, <2>3, <2>4, AnswerSafe
<1>. QED BY <1>1, <1>2, <1>3, <1>4

\* What the server does when a socket is gone: the session of the socket goes
\* with it.
LEMMA ClientGoneSafe ==
  ASSUME ChatInv, NEW c \in Sockets, ClientGone(c)
  PROVE  ChatInv'
<1>1. /\ wire' = [wire EXCEPT ![c] = "gone"] /\ index' = [index EXCEPT ![c] = 0]
      /\ session' = (IF index[c] = 0 THEN session ELSE Deleted(index[c]))
      /\ page' = page /\ start' = start /\ latest' = latest /\ astray' = astray
  BY DEF ClientGone
<1>2. /\ session' \in [Starts -> [live : BOOLEAN, chat : AnyChat,
                                  human : {"none", "creating", "late", "open", "closed"}]]
      /\ index' \in [Sockets -> 0 .. MaxStarts]
      /\ \A d \in Sockets : index'[d] = IF d = c THEN 0 ELSE index[d]
      /\ \A i \in Starts : \/ session'[i] = session[i] /\ (i # index[c] \/ index[c] = 0)
                           \/ /\ index[c] = i /\ session[i].live /\ start[i].conn = c
                              /\ ~session'[i].live /\ session'[i].human # "open"
  BY <1>1, SocketFreed
<1>3. \A d \in Sockets : wire'[d] = IF d = c THEN "gone" ELSE wire[d]
  BY <1>1 DEF ChatInv, ChatShape
<1>4. \A i \in Starts : start[i].conn \in Sockets /\ i # 0
  BY StartsAreNumbers DEF ChatInv, ChatShape
<1>5. ChatShape'
  BY <1>1, <1>2 DEF ChatInv, ChatShape
<1>6. HandlerInv'
  BY <1>1, <1>2 DEF ChatInv, HandlerInv
<1>7. SocketInv'
  <2>1. ASSUME NEW d \in Sockets, index'[d] # 0
        PROVE  session'[index'[d]].live /\ start'[index'[d]].conn = d
    <3>1. d # c /\ index'[d] = index[d] /\ index[d] \in Starts
          /\ session[index[d]].live /\ start[index[d]].conn = d
      BY <1>2, <2>1, Indexed
    <3>. QED BY <1>1, <1>2, <3>1
  <2>2. \A i \in Starts : start[i].at = "load" =>
          /\ index'[start[i].conn] # 0 => <<"overlap", i>> \in astray
          /\ \A j \in Starts : j # i /\ start[j].at = "load" /\ start[j].conn = start[i].conn =>
               <<"overlap", i>> \in astray
    BY <1>2, <1>4 DEF ChatInv, SocketInv
  <2>. QED BY <1>1, <2>1, <2>2 DEF SocketInv
<1>8. NothingOrphaned'
  <2>. SUFFICES ASSUME NEW i \in Starts
                PROVE  /\ session'[i].live /\ <<"session", i>> \notin astray =>
                            wire'[start[i].conn] # "gone" /\ index'[start[i].conn] = i
                       /\ session'[i].human = "open" /\ <<"provider", i>> \notin astray =>
                            session'[i].live
    BY <1>1 DEF NothingOrphaned
  <2>1. CASE session'[i] = session[i] /\ (i # index[c] \/ index[c] = 0)
    BY <1>2, <1>3, <1>4, <2>1 DEF ChatInv, NothingOrphaned
  <2>. QED BY <1>2, <2>1
<1>. QED BY <1>5, <1>6, <1>7, <1>8 DEF ChatInv

\* A session is registered under its id and its socket together.
LEMMA RegisterSafe ==
  ASSUME ChatInv, NEW h \in Starts, Register(h)
  PROVE  ChatInv'
<1>. DEFINE s == start[h]
            c == s.conn
            human == s.mode = "digital-human"
            at == IF human THEN "provider" ELSE "done"
            Sessions == [live : BOOLEAN, chat : AnyChat,
                         human : {"none", "creating", "late", "open", "closed"}]
<1>0. start[h].at = "load" /\ c \in Sockets /\ s.persona \in Personas /\ h \in Nat \ {0}
      /\ session \in [Starts -> Sessions]
  <2>1. start[h].at = "load"
    BY DEF Register
  <2>. QED BY <2>1, StartsAreNumbers DEF ChatInv, ChatShape, HandlerInv
<1>1. PICK n \in Nat :
      /\ latest' = [latest EXCEPT ![s.persona] = n]
      /\ session' = [session EXCEPT ![h] =
           [live |-> TRUE, chat |-> [of |-> s.persona, n |-> n],
            human |-> IF human THEN "creating" ELSE "none"]]
  <2>. DEFINE k == IF s.fresh THEN latest[s.persona] + 1 ELSE latest[s.persona]
  <2>1. k \in Nat
    BY <1>0 DEF ChatInv, ChatShape
  <2>. QED BY <2>1 DEF Register
<1>2. /\ index' = [index EXCEPT ![c] = h]
      /\ astray' = astray
           \cup {<<"session", i>> : i \in {k \in {index[s.conn]} \ {0} : <<"overlap", h>> \in astray}}
           \cup (IF wire[s.conn] = "gone" THEN {<<"session", h>>} ELSE {})
      /\ HandlerAt(h, at) /\ page' = page /\ wire' = wire
  BY DEF Register
<1>3. /\ start' \in [Starts -> [at : {"none", "sent", "load", "provider", "done"},
                                conn : Sockets, persona : Personas \cup {NoPersona},
                                mode : Modes, fresh : BOOLEAN]]
      /\ start'[h].at \notin {"none", "sent", "load"}
      /\ \A i \in Starts : /\ start'[i].conn = start[i].conn /\ start[i].conn \in Sockets
                           /\ start'[i].persona = start[i].persona
                           /\ i # h => start'[i].at = start[i].at
  BY <1>2, HandlerMoves
<1>4. /\ session' \in [Starts -> Sessions] /\ session'[h].live /\ session'[h].human # "open"
      /\ \A i \in Starts : i # h => session'[i] = session[i]
  <2>. DEFINE r == [live |-> TRUE, chat |-> [of |-> s.persona, n |-> n],
                    human |-> IF human THEN "creating" ELSE "none"]
  <2>1. r \in Sessions /\ r.live /\ r.human # "open"
    BY <1>0 DEF AnyChat
  <2>. HIDE DEF r, Sessions
  <2>2. session' = [session EXCEPT ![h] = r]
    BY <1>1 DEF r
  <2>3. session' \in [Starts -> Sessions] /\ session'[h] = r
        /\ \A i \in Starts : i # h => session'[i] = session[i]
    BY <1>0, <2>1, <2>2
  <2>. QED BY <2>1, <2>3
<1>5. /\ \A d \in Sockets : index'[d] = IF d = c THEN h ELSE index[d]
      /\ index' \in [Sockets -> 0 .. MaxStarts]
  BY <1>0, <1>2, ChatBounds DEF ChatInv, ChatShape, Starts
<1>6. /\ astray \subseteq astray'
      /\ index[c] # 0 /\ <<"overlap", h>> \in astray => <<"session", index[c]>> \in astray'
      /\ wire[c] = "gone" => <<"session", h>> \in astray'
  BY <1>2
<1>7. ChatShape'
  <2>1. latest' \in [Personas -> Nat]
    BY <1>0, <1>1 DEF ChatInv, ChatShape
  <2>. QED BY <1>2, <1>3, <1>4, <1>5, <2>1 DEF ChatInv, ChatShape
<1>8. HandlerInv'
  <2>1. ASSUME NEW i \in Starts
        PROVE  /\ start'[i].at \in {"none", "sent", "load"} =>
                    ~session'[i].live /\ session'[i].human = "none"
               /\ start'[i].at # "none" => start'[i].persona \in Personas
    <3>1. CASE i = h
      BY <1>0, <1>3, <3>1
    <3>2. CASE i # h
      <4>1. session'[i] = session[i] /\ start'[i].at = start[i].at
            /\ start'[i].persona = start[i].persona
        BY <1>3, <1>4, <3>2
      <4>. QED BY <4>1 DEF ChatInv, HandlerInv
    <3>. QED BY <3>1, <3>2
  <2>. QED BY <2>1 DEF HandlerInv
<1>9. SocketInv'
  <2>1. ASSUME NEW d \in Sockets, index'[d] # 0
        PROVE  session'[index'[d]].live /\ start'[index'[d]].conn = d
    <3>1. CASE d = c
      BY <1>3, <1>4, <1>5, <3>1
    <3>2. CASE d # c
      <4>1. index'[d] = index[d] /\ index[d] \in Starts
            /\ session[index[d]].live /\ start[index[d]].conn = d
        BY <1>5, <2>1, <3>2, Indexed
      <4>. QED BY <1>3, <1>4, <3>2, <4>1
    <3>. QED BY <3>1, <3>2
  <2>2. ASSUME NEW i \in Starts, start'[i].at = "load"
        PROVE  /\ index'[start'[i].conn] # 0 => <<"overlap", i>> \in astray'
               /\ \A j \in Starts : j # i /\ start'[j].at = "load" /\ start'[j].conn = start'[i].conn =>
                    <<"overlap", i>> \in astray'
    <3>1. i # h /\ start[i].at = "load" /\ start'[i].conn = start[i].conn /\ start[i].conn \in Sockets
      BY <1>3, <2>2
    <3>2. index'[start'[i].conn] # 0 => <<"overlap", i>> \in astray'
      <4>1. CASE start[i].conn = c
        BY <1>0, <1>6, <3>1, <4>1 DEF ChatInv, SocketInv
      <4>2. CASE start[i].conn # c
        BY <1>5, <1>6, <3>1, <4>2 DEF ChatInv, SocketInv
      <4>. QED BY <4>1, <4>2
    <3>3. ASSUME NEW j \in Starts, j # i, start'[j].at = "load", start'[j].conn = start'[i].conn
          PROVE  <<"overlap", i>> \in astray'
      <4>1. j # h /\ start[j].at = "load" /\ start[j].conn = start[i].conn
        BY <1>3, <3>3
      <4>. QED BY <1>6, <3>1, <3>3, <4>1 DEF ChatInv, SocketInv
    <3>. QED BY <3>2, <3>3
  <2>. QED BY <2>1, <2>2 DEF SocketInv
<1>10. NothingOrphaned'
  <2>. SUFFICES ASSUME NEW i \in Starts
                PROVE  /\ session'[i].live /\ <<"session", i>> \notin astray' =>
                            wire'[start'[i].conn] # "gone" /\ index'[start'[i].conn] = i
                       /\ session'[i].human = "open" /\ <<"provider", i>> \notin astray' =>
                            session'[i].live
    BY DEF NothingOrphaned
  <2>1. CASE i = h
    BY <1>2, <1>3, <1>4, <1>5, <1>6, <2>1
  <2>2. CASE i # h
    <3>1. session'[i] = session[i] /\ start'[i].conn = start[i].conn /\ start[i].conn \in Sockets
          /\ i # 0
      BY <1>3, <1>4, <2>2, StartsAreNumbers
    <3>2. ASSUME session[i].live, <<"session", i>> \notin astray'
          PROVE  wire[start[i].conn] # "gone" /\ index'[start[i].conn] = i
      <4>1. wire[start[i].conn] # "gone" /\ index[start[i].conn] = i
        BY <1>6, <3>2 DEF ChatInv, NothingOrphaned
      <4>2. start[i].conn # c
        BY <1>0, <1>6, <3>1, <3>2, <4>1 DEF ChatInv, SocketInv
      <4>. QED BY <1>5, <3>1, <4>1, <4>2
    <3>3. session[i].human = "open" /\ <<"provider", i>> \notin astray' => session[i].live
      BY <1>6 DEF ChatInv, NothingOrphaned
    <3>. QED BY <1>2, <3>1, <3>2, <3>3
  <2>. QED BY <2>1, <2>2
<1>. QED BY <1>7, <1>8, <1>9, <1>10 DEF ChatInv

\* The invariant holds at the start.
LEMMA ChatInitSafe == ChatInit => ChatInv
<1>. SUFFICES ASSUME ChatInit PROVE ChatInv
  OBVIOUS
<1>1. NoChat \in AnyChat /\ 0 \in 0 .. MaxStarts /\ 0 \in Sockets
  BY StartsAreNumbers, ChatBounds DEF NoChat, AnyChat
<1>2. page \in [open : BOOLEAN, conn : Sockets, selected : Personas \cup {NoPersona},
               mode : Modes, session : 0..MaxStarts, chat : AnyChat, human : 0..MaxStarts]
  BY <1>1 DEF ChatInit, Modes
<1>3. ChatShape
  BY <1>1, <1>2 DEF ChatInit, ChatShape, NoStart, NoSession, Modes
<1>4. HandlerInv /\ SocketInv /\ NothingOrphaned
  BY <1>1 DEF ChatInit, HandlerInv, SocketInv, NothingOrphaned, NoStart, NoSession
<1>. QED BY <1>3, <1>4 DEF ChatInv

\* Every step of the page, of a handler and of a socket keeps the invariant.
LEMMA ChatStepSafe == ChatInv /\ [ChatNext]_chatVars => ChatInv'
<1>. SUFFICES ASSUME ChatInv, [ChatNext]_chatVars PROVE ChatInv'
  OBVIOUS
<1>1. CASE \/ \E p \in Personas : SelectPersona(p)
           \/ \E m \in Modes : ChangeMode(m)
           \/ NewConversation \/ SelectConversation \/ DeletePersona \/ EnsureSession \/ Speak
           \/ Disconnected \/ OnReady \/ OnHumanReady \/ OnError \/ OnSessionGone
  BY <1>1, PageStepSafe
<1>2. CASE Cut \/ Reconnect
  BY <1>2, SocketSafe
<1>3. ASSUME NEW h \in Starts, CloseOld(h)
      PROVE  ChatInv'
  BY <1>3, CloseOldSafe
<1>4. ASSUME NEW h \in Starts,
             \/ Refuse(h) \/ Lost(h) \/ HumanCreated(h) \/ HumanTooLate(h)
             \/ \E late \in BOOLEAN : HumanFails(h, late)
      PROVE  ChatInv'
  BY <1>4, HandlerAnswerSafe
<1>5. ASSUME NEW h \in Starts, Register(h)
      PROVE  ChatInv'
  BY <1>5, RegisterSafe
<1>6. ASSUME NEW c \in Sockets, ClientGone(c)
      PROVE  ChatInv'
  BY <1>6, ClientGoneSafe
<1>7. CASE UNCHANGED chatVars
  BY <1>7 DEF chatVars, ChatInv, ChatShape, HandlerInv, SocketInv, NothingOrphaned
<1>. QED BY <1>1, <1>2, <1>3, <1>4, <1>5, <1>6, <1>7 DEF ChatNext

(* In every reachable state a session is live only with the socket it was *)
(* made for and found by it, and a digital human is open only for a live   *)
(* session, except what the recorded races left behind.                    *)
THEOREM ChatOrphansNothing == ChatSpec => []NothingOrphaned
<1>1. ChatSpec => []ChatInv
  BY ChatInitSafe, ChatStepSafe, PTL DEF ChatSpec
<1>. QED BY <1>1, PTL DEF ChatInv

-----------------------------------------------------------------------------
(***************************************************************************)
(* That the page and the microphone agree. A take is asked for, on or      *)
(* stopping, one of the three, and not sent before it leaves them, unless  *)
(* it was stopped twice; while the page says it is recording the last take *)
(* is one of them; asked for or on and not slipped, the page says it is    *)
(* recording.                                                              *)
(***************************************************************************)

UiRec == [state : UiStates, session : BOOLEAN, preparing : BOOLEAN, text : BOOLEAN]
MicRec == [prompts : SUBSET Takes, on : SUBSET Takes, recorder : 0..MaxRecordings,
           stopping : SUBSET Takes, takes : 0..MaxRecordings]

TakesBusy(m) == m.prompts \cup m.on \cup m.stopping
\* What is so of every take; asked for or on, the page says it is recording, and
\* the recorder is the one a stop will reach.
TakeOK(m, slips, twice, state, count, t) ==
  /\ t \in TakesBusy(m) \cup slips \cup twice => t <= m.takes
  /\ t > m.takes => count = 0
  /\ t \in m.prompts => t \notin m.on \cup m.stopping
  /\ t \in m.on => t \notin m.stopping
  /\ t \in TakesBusy(m) \ twice => count = 0
  /\ t \notin twice => count <= 1
  /\ t \in m.prompts \ slips => state = "recording"
  /\ t \in m.on \ slips => state = "recording" /\ m.recorder = t
MicInv ==
  /\ ui \in UiRec /\ mic \in MicRec /\ sent \in [Takes -> Nat] /\ slipped \subseteq Takes
  /\ again \subseteq Takes
  /\ ui.state = "recording" => mic.takes \in TakesBusy(mic)
  /\ \A t \in Takes : TakeOK(mic, slipped, again, ui.state, sent[t], t)

\* The state of the page is set and the rest of it stays.
LEMMA MicFacts ==
  ASSUME MicInv
  PROVE  /\ ui \in UiRec /\ mic \in MicRec /\ sent \in [Takes -> Nat] /\ slipped \subseteq Takes
         /\ again \subseteq Takes /\ Open \subseteq Takes /\ Open \subseteq TakesBusy(mic)
         /\ ui.state = "recording" => mic.takes \in TakesBusy(mic)
         /\ \A t \in Takes : TakeOK(mic, slipped, again, ui.state, sent[t], t)
BY DEF MicInv, Open, MicRec, TakesBusy

\* A step in which the recordings stay, and what leaves the recording state slips.
LEMMA PageStep ==
  ASSUME MicInv, ui' \in UiRec, mic' = mic, sent' = sent, again' = again,
         slipped \subseteq slipped', slipped' \subseteq slipped \cup Open,
         ui'.state = "recording" => ui.state = "recording",
         ui'.state # "recording" /\ ui.state = "recording" => Open \subseteq slipped'
  PROVE  MicInv'
<1>1. slipped' \subseteq Takes
  BY MicFacts
<1>2. ASSUME NEW t \in Takes
      PROVE  TakeOK(mic, slipped', again, ui'.state, sent[t], t)
  BY MicFacts DEF TakeOK, Open
<1>3. ui'.state = "recording" => mic.takes \in TakesBusy(mic)
  BY MicFacts
<1>. QED BY <1>1, <1>2, <1>3, MicFacts DEF MicInv, TakesBusy

\* A new take is asked for.
LEMMA TakeStep ==
  ASSUME MicInv, ui' \in UiRec, ui'.state = "recording", mic.takes < MaxRecordings,
         mic' = [mic EXCEPT !.takes = @ + 1, !.prompts = @ \cup {mic.takes + 1}],
         sent' = sent, slipped' = slipped, again' = again
  PROVE  MicInv'
<1>1. PICK m \in MicRec : m = mic
  BY MicFacts
<1>2. m.takes \in 0..MaxRecordings /\ m.takes < MaxRecordings
  BY <1>1 DEF MicRec
<1>3. m.takes + 1 \in 0..MaxRecordings /\ m.takes + 1 \in Takes
  BY <1>2, MicCounts DEF Takes
<1>4. PICK n \in MicRec : n = mic'
  BY <1>1, <1>3 DEF MicRec
<1>5. /\ n.takes = m.takes + 1 /\ n.prompts = m.prompts \cup {m.takes + 1} /\ n.on = m.on
      /\ n.stopping = m.stopping /\ n.recorder = m.recorder
  BY <1>1, <1>4 DEF MicRec
<1>6. n.takes \in TakesBusy(n)
  BY <1>5 DEF TakesBusy
<1>7. ASSUME NEW t \in Takes
      PROVE  TakeOK(n, slipped, again, "recording", sent[t], t)
  <2>1. /\ TakeOK(m, slipped, again, ui.state, sent[t], t) /\ t \in Nat /\ sent[t] \in Nat
    BY <1>1, MicFacts DEF Takes
  <2>. QED BY <1>2, <1>5, <2>1 DEF TakeOK, TakesBusy
<1>. QED BY <1>4, <1>6, <1>7, MicFacts DEF MicInv

\* What a step of a recording leaves of it, what slips and what was sent.
RecordGoes(m, n, slips, twice, state, count) ==
  /\ slipped \subseteq slips /\ slips \subseteq slipped \cup TakesBusy(m) /\ n.takes = m.takes
  /\ again \subseteq twice /\ twice \subseteq again \cup TakesBusy(m)
  /\ count \in [Takes -> Nat]
  /\ n.prompts \subseteq m.prompts /\ n.on \subseteq m.on \cup m.prompts
  /\ n.stopping \subseteq m.stopping \cup m.on
  /\ n.prompts \cap n.on = {} /\ n.prompts \cap n.stopping = {} /\ n.on \cap n.stopping = {}
  /\ state = "recording" => m.takes \in TakesBusy(n)
  /\ \A t \in Takes : count[t] # sent[t] =>
       t \in m.stopping /\ (t \in twice \/ (count[t] <= sent[t] + 1 /\ t \notin TakesBusy(n)))
  /\ \A t \in n.prompts \ slips : state = "recording"
  /\ \A t \in n.on \ slips : state = "recording" /\ n.recorder = t

\* A step of a recording: what stays open beside it slips.
LEMMA RecordStep ==
  ASSUME MicInv, ui' \in UiRec, NEW m \in MicRec, NEW n \in MicRec, m = mic, n = mic',
         RecordGoes(m, n, slipped', again', ui'.state, sent')
  PROVE  MicInv'
<1>1. /\ sent' \in [Takes -> Nat] /\ slipped' \subseteq Takes /\ mic' \in MicRec
      /\ again' \subseteq Takes
  BY MicFacts DEF RecordGoes, TakesBusy, MicRec
<1>2. ASSUME NEW t \in Takes
      PROVE  TakeOK(n, slipped', again', ui'.state, sent'[t], t)
  <2>1. TakeOK(m, slipped, again, ui.state, sent[t], t) /\ sent[t] \in Nat /\ sent'[t] \in Nat
    BY <1>1, MicFacts
  <2>2. /\ m.takes \in Nat /\ n.takes = m.takes /\ t \in Nat
    BY MicCounts DEF RecordGoes, MicRec, Takes
  <2>3. TakesBusy(n) \subseteq TakesBusy(m)
    BY DEF RecordGoes, TakesBusy
  <2>4. /\ t \in TakesBusy(n) \cup slipped' \cup again' => t <= n.takes
        /\ t > n.takes => sent'[t] = 0
    BY <2>1, <2>2, <2>3 DEF TakeOK, RecordGoes, TakesBusy
  <2>5. /\ t \in TakesBusy(n) \ again' => sent'[t] = 0
        /\ t \notin again' => sent'[t] <= 1
    BY <2>1, <2>3 DEF TakeOK, RecordGoes, TakesBusy
  <2>6. /\ t \in n.prompts => t \notin n.on \cup n.stopping
        /\ t \in n.on => t \notin n.stopping
        /\ t \in n.prompts \ slipped' => ui'.state = "recording"
        /\ t \in n.on \ slipped' => ui'.state = "recording" /\ n.recorder = t
    BY DEF RecordGoes
  <2>. QED BY <2>4, <2>5, <2>6 DEF TakeOK
<1>3. ui'.state = "recording" => n.takes \in TakesBusy(n)
  BY DEF RecordGoes
<1>. QED BY <1>1, <1>2, <1>3 DEF MicInv

\* The page is what its fields are.
LEMMA UiSets ==
  ASSUME MicInv, NEW state \in UiStates, NEW on \in BOOLEAN, NEW preparing \in BOOLEAN,
         NEW text \in BOOLEAN
  PROVE  /\ [ui EXCEPT !.state = state] \in UiRec
         /\ [ui EXCEPT !.state = state].state = state
         /\ [ui EXCEPT !.preparing = preparing] \in UiRec
         /\ [ui EXCEPT !.preparing = preparing].state = ui.state
         /\ [ui EXCEPT !.state = state, !.preparing = preparing] \in UiRec
         /\ [ui EXCEPT !.state = state, !.preparing = preparing].state = state
         /\ [ui EXCEPT !.preparing = preparing, !.state = state] \in UiRec
         /\ [ui EXCEPT !.preparing = preparing, !.state = state].state = state
         /\ [ui EXCEPT !.session = on, !.preparing = preparing, !.state = state] \in UiRec
         /\ [ui EXCEPT !.session = on, !.preparing = preparing, !.state = state].state = state
         /\ [ui EXCEPT !.session = on, !.state = state] \in UiRec
         /\ [ui EXCEPT !.session = on, !.state = state].state = state
         /\ [ui EXCEPT !.text = text, !.preparing = preparing, !.state = state] \in UiRec
         /\ [ui EXCEPT !.text = text, !.preparing = preparing, !.state = state].state = state
         /\ [ui EXCEPT !.text = text, !.state = state] \in UiRec
         /\ [ui EXCEPT !.text = text, !.state = state].state = state
<1>1. PICK y \in UiRec : y = ui
  BY MicFacts
<1>. QED BY <1>1 DEF UiRec

\* What the page does to its state: buttons, the events of a turn, a text that
\* is sent.
LEMMA MicPageSafe ==
  ASSUME MicInv
  PROVE  /\ ToggleToRecord => MicInv'
         /\ ToggleWhilePreparing => MicInv'
         /\ StopWithoutRecorder => MicInv'
         /\ SessionReady => MicInv'
         /\ \A state \in {"idle", "thinking", "speaking"} : TurnEvent(state) => MicInv'
         /\ TurnEnds => MicInv'
         /\ Disconnects => MicInv'
         /\ SendText => MicInv'
         /\ TextEnds => MicInv'
         /\ StopText => MicInv'
<1>0. ui.state \in UiStates /\ {"idle", "recording", "thinking", "speaking"} \subseteq UiStates
      /\ ui.preparing \in BOOLEAN
  BY MicFacts DEF UiRec, UiStates
<1>1. ASSUME ToggleToRecord
      PROVE  MicInv'
  <2>1. CASE ui.session
    <3>1. /\ mic.takes < MaxRecordings /\ sent' = sent /\ again' = again /\ slipped' = slipped
          /\ ui' = [ui EXCEPT !.state = "recording", !.preparing = FALSE]
          /\ mic' = [mic EXCEPT !.takes = @ + 1, !.prompts = @ \cup {mic.takes + 1}]
      BY <1>1, <2>1 DEF ToggleToRecord, StartRecording
    <3>2. ui' \in UiRec /\ ui'.state = "recording"
      BY <1>0, <3>1, UiSets
    <3>. QED BY <3>1, <3>2, TakeStep
  <2>2. CASE ~ui.session
    <3>1. /\ ui' = [ui EXCEPT !.state = "idle", !.preparing = TRUE]
          /\ mic' = mic /\ sent' = sent /\ again' = again /\ slipped' = slipped /\ ui.state # "recording"
      BY <1>1, <2>2 DEF ToggleToRecord
    <3>2. ui' \in UiRec /\ ui'.state # "recording"
      BY <1>0, <3>1, UiSets
    <3>. QED BY <3>1, <3>2, PageStep
  <2>. QED BY <2>1, <2>2
<1>2. ASSUME ToggleWhilePreparing
      PROVE  MicInv'
  <2>1. ui' = [ui EXCEPT !.preparing = FALSE] /\ mic' = mic /\ sent' = sent /\ again' = again /\ slipped' = slipped
    BY <1>2 DEF ToggleWhilePreparing
  <2>2. ui' \in UiRec /\ ui'.state = ui.state
    BY <1>0, <2>1, UiSets
  <2>. QED BY <2>1, <2>2, PageStep
<1>3. ASSUME StopWithoutRecorder
      PROVE  MicInv'
  <2>1. ui' = [ui EXCEPT !.state = "idle"] /\ mic' = mic /\ sent' = sent /\ again' = again
        /\ slipped' = slipped \cup Open
    BY <1>3 DEF StopWithoutRecorder, Shows
  <2>2. ui' \in UiRec /\ ui'.state # "recording"
    BY <1>0, <2>1, UiSets
  <2>. QED BY <2>1, <2>2, PageStep
<1>4. ASSUME SessionReady
      PROVE  MicInv'
  <2>1. sent' = sent /\ again' = again
    BY <1>4 DEF SessionReady
  <2>2. CASE ui.preparing /\ mic.takes < MaxRecordings
    <3>1. /\ ui' = [ui EXCEPT !.session = TRUE, !.preparing = FALSE, !.state = "recording"]
          /\ mic' = [mic EXCEPT !.takes = @ + 1, !.prompts = @ \cup {mic.takes + 1}]
          /\ slipped' = slipped
      BY <1>4, <2>2 DEF SessionReady
    <3>2. ui' \in UiRec /\ ui'.state = "recording"
      BY <1>0, <3>1, UiSets
    <3>. QED BY <2>1, <2>2, <3>1, <3>2, TakeStep
  <2>3. CASE ~(ui.preparing /\ mic.takes < MaxRecordings)
    <3>1. ui' = [ui EXCEPT !.session = TRUE, !.state = "idle"] /\ mic' = mic
          /\ slipped' = slipped \cup Open
      BY <1>4, <2>3 DEF SessionReady
    <3>2. ui' \in UiRec /\ ui'.state # "recording"
      BY <1>0, <3>1, UiSets
    <3>. QED BY <2>1, <3>1, <3>2, PageStep
  <2>. QED BY <2>2, <2>3
<1>5. ASSUME NEW state \in {"idle", "thinking", "speaking"}, TurnEvent(state)
      PROVE  MicInv'
  <2>1. ui' = [ui EXCEPT !.state = state] /\ mic' = mic /\ sent' = sent /\ again' = again
        /\ slipped' = slipped \cup Open
    BY <1>5 DEF TurnEvent, Shows
  <2>2. ui' \in UiRec /\ ui'.state # "recording"
    BY <1>0, <2>1, UiSets
  <2>. QED BY <2>1, <2>2, PageStep
<1>6. ASSUME TurnEnds
      PROVE  MicInv'
  <2>1. ui' = [ui EXCEPT !.state = "idle"] /\ mic' = mic /\ sent' = sent /\ again' = again /\ slipped' = slipped
        /\ ui.state # "recording"
    BY <1>6 DEF TurnEnds, Shows
  <2>2. ui' \in UiRec /\ ui'.state # "recording"
    BY <1>0, <2>1, UiSets
  <2>. QED BY <2>1, <2>2, PageStep
<1>7. ASSUME Disconnects
      PROVE  MicInv'
  <2>1. PICK state \in UiStates : state = IF ui.state = "recording" THEN ui.state ELSE "idle"
    BY <1>0
  <2>2. ui' = [ui EXCEPT !.session = FALSE, !.preparing = FALSE, !.state = state]
        /\ mic' = mic /\ sent' = sent /\ again' = again /\ slipped' = slipped
    BY <1>7, <2>1 DEF Disconnects
  <2>3. ui' \in UiRec /\ ui'.state = state
    BY <2>2, UiSets
  <2>. QED BY <2>1, <2>2, <2>3, PageStep
<1>8. ASSUME SendText
      PROVE  MicInv'
  <2>1. ui' = [ui EXCEPT !.text = TRUE, !.preparing = FALSE, !.state = "thinking"]
        /\ mic' = mic /\ sent' = sent /\ again' = again /\ slipped' = slipped \cup Open
    BY <1>8 DEF SendText
  <2>2. ui' \in UiRec /\ ui'.state # "recording"
    BY <1>0, <2>1, UiSets
  <2>. QED BY <2>1, <2>2, PageStep
<1>9. ASSUME TextEnds
      PROVE  MicInv'
  <2>1. PICK state \in UiStates : state = IF ui.state = "thinking" THEN "idle" ELSE ui.state
    BY <1>0
  <2>2. ui' = [ui EXCEPT !.text = FALSE, !.state = state]
        /\ mic' = mic /\ sent' = sent /\ again' = again /\ slipped' = slipped
    BY <1>9, <2>1 DEF TextEnds
  <2>3. ui' \in UiRec /\ ui'.state = state
    BY <2>2, UiSets
  <2>. QED BY <2>1, <2>2, <2>3, PageStep
<1>10. ASSUME StopText
       PROVE  MicInv'
  <2>1. PICK state \in UiStates : state = IF ui.state = "recording" THEN ui.state ELSE "idle"
    BY <1>0
  <2>2. ui' = [ui EXCEPT !.text = FALSE, !.state = state]
        /\ mic' = mic /\ sent' = sent /\ again' = again /\ slipped' = slipped
    BY <1>10, <2>1 DEF StopText
  <2>3. ui' \in UiRec /\ ui'.state = state
    BY <2>2, UiSets
  <2>. QED BY <2>1, <2>2, <2>3, PageStep
<1>. QED BY <1>1, <1>2, <1>3, <1>4, <1>5, <1>6, <1>7, <1>8, <1>9, <1>10

\* What the browser does with a take: it grants or denies it, and the recorder
\* stops.
LEMMA RecordSafe ==
  ASSUME MicInv
  PROVE  /\ \A t \in Takes : Granted(t) => MicInv'
         /\ \A t \in Takes : Denied(t) => MicInv'
         /\ StopRecorder => MicInv'
         /\ \A t \in Takes, enough \in BOOLEAN : RecorderStopped(t, enough) => MicInv'
         /\ \A enough \in BOOLEAN : StopStopping(enough) => MicInv'
         /\ Dispose => MicInv'
<1>0. /\ ui \in UiRec /\ ui.state \in UiStates
      /\ {"idle", "recording", "thinking", "speaking"} \subseteq UiStates
      /\ sent \in [Takes -> Nat] /\ 0 \in 0..MaxRecordings
  BY MicFacts, MicCounts DEF UiRec, UiStates
<1>1. PICK m \in MicRec : m = mic
  BY MicFacts
<1>2. /\ m.prompts \subseteq Takes /\ m.on \subseteq Takes /\ m.stopping \subseteq Takes
      /\ Open = m.prompts \cup m.on /\ m.recorder \in 0..MaxRecordings
  BY <1>1 DEF MicRec, Open
<1>3. /\ m.prompts \cap m.on = {} /\ m.prompts \cap m.stopping = {} /\ m.on \cap m.stopping = {}
      /\ \A u \in m.prompts \ slipped : ui.state = "recording"
      /\ \A u \in m.on \ slipped : ui.state = "recording" /\ m.recorder = u
  BY <1>1, <1>2, MicFacts DEF TakeOK
<1>4. ui.state = "recording" => m.takes \in TakesBusy(m)
  BY <1>1, MicFacts
<1>5. ASSUME NEW t \in Takes, Granted(t)
      PROVE  MicInv'
  <2>1. PICK n \in MicRec : n = mic'
    <3>1. t \in 0..MaxRecordings
      BY MicCounts DEF Takes
    <3>. QED BY <1>1, <1>5, <3>1 DEF Granted, MicRec
  <2>2. /\ n.prompts = m.prompts \ {t} /\ n.on = m.on \cup {t} /\ n.recorder = t
        /\ n.stopping = m.stopping /\ n.takes = m.takes
    BY <1>1, <1>5, <2>1 DEF Granted, MicRec
  <2>3. /\ slipped' = slipped \cup m.on /\ ui' = ui /\ sent' = sent /\ again' = again
        /\ t \in m.prompts
    BY <1>1, <1>5 DEF Granted
  <2>4. RecordGoes(m, n, slipped', again', ui'.state, sent')
    BY <1>0, <1>3, <1>4, <2>2, <2>3 DEF RecordGoes, TakesBusy
  <2>5. ui' \in UiRec
    BY <1>0, <2>3
  <2>. QED BY <1>1, <2>1, <2>4, <2>5, RecordStep
<1>6. ASSUME NEW t \in Takes, Denied(t)
      PROVE  MicInv'
  <2>1. PICK n \in MicRec : n = mic'
    BY <1>1, <1>6 DEF Denied, MicRec
  <2>2. /\ n.prompts = m.prompts \ {t} /\ n.on = m.on /\ n.recorder = m.recorder
        /\ n.stopping = m.stopping /\ n.takes = m.takes
    BY <1>1, <1>6, <2>1 DEF Denied, MicRec
  <2>3. /\ slipped' = slipped \cup (Open \ {t}) /\ ui' = [ui EXCEPT !.state = "idle"]
        /\ sent' = sent /\ again' = again /\ t \in m.prompts
    BY <1>1, <1>6 DEF Denied
  <2>4. ui' \in UiRec /\ ui'.state = "idle"
    BY <1>0, <2>3, UiSets
  <2>5. RecordGoes(m, n, slipped', again', ui'.state, sent')
    BY <1>0, <1>2, <1>3, <2>2, <2>3, <2>4 DEF RecordGoes, TakesBusy
  <2>. QED BY <1>1, <2>1, <2>4, <2>5, RecordStep
<1>7. ASSUME StopRecorder
      PROVE  MicInv'
  <2>1. /\ m.recorder \in m.on /\ ui' = ui /\ sent' = sent /\ again' = again
        /\ slipped' = slipped
        /\ mic' = [m EXCEPT !.on = m.on \ {m.recorder}, !.stopping = m.stopping \cup {m.recorder}]
    BY <1>1, <1>7 DEF StopRecorder
  <2>2. PICK n \in MicRec : n = mic'
    BY <1>2, <2>1 DEF MicRec
  <2>3. /\ n.prompts = m.prompts /\ n.on = m.on \ {m.recorder} /\ n.recorder = m.recorder
        /\ n.stopping = m.stopping \cup {m.recorder} /\ n.takes = m.takes
    BY <2>1, <2>2 DEF MicRec
  <2>4. RecordGoes(m, n, slipped', again', ui'.state, sent')
    BY <1>0, <1>3, <1>4, <2>1, <2>3 DEF RecordGoes, TakesBusy
  <2>5. ui' \in UiRec
    BY <1>0, <2>1
  <2>. QED BY <1>1, <2>2, <2>4, <2>5, RecordStep
<1>8. ASSUME NEW t \in Takes, NEW enough \in BOOLEAN, RecorderStopped(t, enough)
      PROVE  MicInv'
  <2>1. /\ t \in m.stopping
        /\ mic' = [m EXCEPT !.stopping = m.stopping \ {t}, !.recorder = 0]
        /\ ui' = [ui EXCEPT !.state = IF enough THEN "thinking" ELSE "idle"]
        /\ sent' = IF enough THEN [sent EXCEPT ![t] = @ + 1] ELSE sent
        /\ slipped' = slipped \cup Open /\ again' = again
    BY <1>1, <1>8 DEF RecorderStopped, Shows
  <2>2. PICK n \in MicRec : n = mic'
    BY <1>0, <1>2, <2>1 DEF MicRec
  <2>3. /\ n.prompts = m.prompts /\ n.on = m.on /\ n.stopping = m.stopping \ {t}
        /\ n.takes = m.takes
    BY <2>1, <2>2 DEF MicRec
  <2>4. ui' \in UiRec /\ ui'.state # "recording"
    BY <1>0, <2>1, UiSets
  <2>5. /\ sent' \in [Takes -> Nat] /\ \A u \in Takes \ {t} : sent'[u] = sent[u]
        /\ sent'[t] <= sent[t] + 1
    BY <1>0, <2>1
  <2>6. t \notin TakesBusy(n)
    BY <1>3, <2>1, <2>3 DEF TakesBusy
  <2>7. RecordGoes(m, n, slipped', again', ui'.state, sent')
    BY <1>2, <1>3, <2>1, <2>3, <2>4, <2>5, <2>6 DEF RecordGoes, TakesBusy
  <2>. QED BY <1>1, <2>2, <2>4, <2>7, RecordStep
<1>9. ASSUME NEW enough \in BOOLEAN, StopStopping(enough)
      PROVE  MicInv'
  <2>1. /\ m.recorder \in m.stopping
        /\ mic' = [m EXCEPT !.recorder = 0]
        /\ ui' = [ui EXCEPT !.state = IF enough THEN "thinking" ELSE "idle"]
        /\ sent' = IF enough THEN [sent EXCEPT ![m.recorder] = @ + 1] ELSE sent
        /\ slipped' = slipped \cup Open /\ again' = again \cup {m.recorder}
    BY <1>1, <1>9 DEF StopStopping, Shows
  <2>2. PICK n \in MicRec : n = mic'
    BY <1>0, <2>1 DEF MicRec
  <2>3. /\ n.prompts = m.prompts /\ n.on = m.on /\ n.stopping = m.stopping
        /\ n.takes = m.takes
    BY <2>1, <2>2 DEF MicRec
  <2>4. ui' \in UiRec /\ ui'.state # "recording"
    BY <1>0, <2>1, UiSets
  <2>5. /\ sent' \in [Takes -> Nat] /\ \A u \in Takes : u # m.recorder => sent'[u] = sent[u]
    BY <1>0, <1>2, <2>1
  <2>6. RecordGoes(m, n, slipped', again', ui'.state, sent')
    BY <1>2, <1>3, <2>1, <2>3, <2>4, <2>5 DEF RecordGoes, TakesBusy
  <2>. QED BY <1>1, <2>2, <2>4, <2>6, RecordStep
<1>10. ASSUME Dispose
       PROVE  MicInv'
  <2>1. PICK state \in UiStates : state = IF ui.state = "recording" THEN "idle" ELSE ui.state
    BY <1>0
  <2>2. /\ ui' = [ui EXCEPT !.preparing = FALSE, !.state = state]
        /\ sent' = sent /\ again' = again
        /\ mic' = IF ui.state = "recording" /\ m.recorder \in m.on
                  THEN [m EXCEPT !.on = m.on \ {m.recorder}, !.recorder = 0] ELSE m
        /\ slipped' = slipped \cup (IF ui.state = "recording" THEN mic'.on \cup m.prompts ELSE {})
    BY <1>1, <1>10, <2>1 DEF Dispose
  <2>3. PICK n \in MicRec : n = mic'
    BY <1>0, <1>2, <2>2 DEF MicRec
  <2>4. /\ n.prompts = m.prompts /\ n.on \subseteq m.on /\ n.stopping = m.stopping
        /\ n.takes = m.takes /\ (ui.state # "recording" => n.on = m.on /\ n.recorder = m.recorder)
    BY <2>2, <2>3 DEF MicRec
  <2>5. ui' \in UiRec /\ ui'.state = state /\ state # "recording"
    BY <1>0, <2>1, <2>2, UiSets
  <2>6. slipped' = slipped \cup (IF ui.state = "recording" THEN n.on \cup m.prompts ELSE {})
    BY <2>2, <2>3
  <2>7. n.prompts \ slipped' = {} /\ n.on \ slipped' = {}
    BY <1>3, <2>4, <2>6
  <2>8. slipped \subseteq slipped' /\ slipped' \subseteq slipped \cup TakesBusy(m)
    BY <2>4, <2>6 DEF TakesBusy
  <2>9. RecordGoes(m, n, slipped', again', ui'.state, sent')
    BY <1>0, <1>3, <2>2, <2>4, <2>5, <2>7, <2>8 DEF RecordGoes, TakesBusy
  <2>. QED BY <1>1, <2>3, <2>5, <2>9, RecordStep
<1>. QED BY <1>5, <1>6, <1>7, <1>8, <1>9, <1>10

\* The invariant holds at the start.
LEMMA MicInitSafe ==
  ASSUME MicInit
  PROVE  MicInv
<1>1. ui \in UiRec /\ sent = [t \in Takes |-> 0] /\ slipped = {} /\ again = {}
      /\ ui.state = "idle"
  BY DEF MicInit, UiRec, UiStates
<1>2. mic = [prompts |-> {}, on |-> {}, recorder |-> 0, stopping |-> {}, takes |-> 0]
  BY DEF MicInit
<1>3. mic \in MicRec
  BY <1>2, MicCounts DEF MicRec
<1>4. \A t \in Takes : TakeOK(mic, slipped, again, ui.state, sent[t], t)
  BY <1>1, <1>2 DEF TakeOK, TakesBusy
<1>. QED BY <1>1, <1>3, <1>4 DEF MicInv

\* Every step of the page and of the recorder keeps the invariant.
LEMMA MicStepSafe ==
  ASSUME MicInv, [MicNext]_micVars
  PROVE  MicInv'
<1>1. CASE MicNext
  BY <1>1, MicPageSafe, RecordSafe DEF MicNext
<1>2. CASE UNCHANGED micVars
  BY <1>2 DEF micVars, MicInv
<1>. QED BY <1>1, <1>2

\* The invariant is what the property asks.
LEMMA MicInStep ==
  ASSUME MicInv
  PROVE  MicMatchesState
BY MicFacts DEF TakeOK, MicMatchesState, TakesBusy, MicRec

\* For every number of takes and of events: while the page says it is recording
\* its last take is asked for, on or stopping; a take is sent once, unless it
\* was stopped again while it stopped; and a microphone that is on while the
\* page says something else, or that no stop will reach, is one whose state or
\* recorder a named step took: a stop before the permission, a late answer or
\* end of an earlier take, an event during the recording (useMicController,
\* useAudio, useConversation).
THEOREM MicrophoneMatchesState == MicSpec => []MicMatchesState
BY MicInitSafe, MicStepSafe, MicInStep, PTL DEF MicSpec

-----------------------------------------------------------------------------
(***************************************************************************)
(* That a media source plays the frames of its own turn, each once and in  *)
(* order, that a frame it does not play came too early or was dropped, and *)
(* that the avatar that takes the audio is the one of the session.         *)
(***************************************************************************)

WireRec == [turn : 0..MaxTurns, sent : 0..MaxFrames, open : BOOLEAN]
PlayerRec == [active : 0..MaxTurns, queue : Seq(Frames), source : 0..MaxTurns,
              buffer : 0..MaxTurns, busy : BOOLEAN]
AvatarRec == [session : 0..MaxClients, client : 0..MaxClients, ready : BOOLEAN,
              starting : SUBSET (Clients \X {"teardown", "start"}),
              running : SUBSET Clients, asked : 0..MaxClients, crossed : BOOLEAN]

\* What is decoded has been sent.
DecodingOK(turn, upTo, d) == \A f \in d : f[1] <= turn /\ (f[1] = turn => f[2] <= upTo)
\* The queue holds frames of the turn, in order, all before those still decoded.
QueueOK(turn, upTo, d, q) ==
  /\ \A i \in 1..Len(q) : q[i][1] = turn /\ q[i][2] <= upTo
  /\ \A i \in 1..Len(q) : \A f \in d : f[1] = turn => q[i][2] < f[2]
  /\ \A i, j \in 1..Len(q) : i < j => q[i][2] < q[j][2]
\* A source has played frames of its turn in order, all before those queued.
PlayedOK(turn, upTo, d, q, t, s) ==
  /\ \A i \in 1..Len(s) : s[i][1] = t /\ t <= turn
  /\ \A i \in 1..Len(s) : i > 1 => s[i - 1][2] < s[i][2]
  /\ t = turn => \A i \in 1..Len(s) :
       /\ s[i][2] <= upTo
       /\ \A f \in d : f[1] = turn => s[i][2] < f[2]
       /\ \A j \in 1..Len(q) : s[i][2] < q[j][2]
\* A frame the source does not get is counted as missed.
MissedOK(p, m) == p.buffer # p.source \/ ~p.busy => \A i \in 1..Len(p.queue) : p.queue[i] \in m
\* Every frame of the turn is somewhere.
SomewhereOnWire(turn, d, q, s, m, n) ==
  \/ <<turn, n>> \in d \cup m
  \/ \E i \in 1..Len(q) : q[i] = <<turn, n>>
  \/ \E i \in 1..Len(s) : s[i] = <<turn, n>>

AudioInv ==
  /\ wireOut \in WireRec /\ decoding \subseteq Frames /\ player \in PlayerRec
  /\ played \in [Turns0 -> Seq(Frames)]
  /\ player.source = wireOut.turn /\ player.active \in {0, wireOut.turn}
  /\ wireOut.open => player.active = wireOut.turn /\ wireOut.turn # 0
  /\ wireOut.turn = 0 => wireOut.sent = 0
  /\ DecodingOK(wireOut.turn, wireOut.sent, decoding)
  /\ QueueOK(wireOut.turn, wireOut.sent, decoding, player.queue)
  /\ \A t \in Turns0 :
       PlayedOK(wireOut.turn, wireOut.sent, decoding, player.queue, t, played[t])
  /\ MissedOK(player, missed)
  /\ \A n \in 1..wireOut.sent :
       SomewhereOnWire(wireOut.turn, decoding, player.queue, played[wireOut.turn], missed, n)
\* As long as no session was crossed by another: at most one client starts, and
\* it is the one of the session; the one that runs is the one the page has.
AvatarOK(a) == ~a.crossed =>
  /\ a.starting = {} \/ (a.session # 0 /\ \E at \in {"teardown", "start"} :
                            a.starting = {<<a.session, at>>})
  /\ a.running \subseteq {a.client}
  /\ <<a.session, "teardown">> \in a.starting => a.running = {} /\ ~a.ready
  /\ <<a.session, "start">> \in a.starting =>
       a.running = {a.session} /\ a.client = a.session /\ ~a.ready
  /\ a.ready => a.client = a.session /\ a.running = {a.session}
MediaInv == AudioInv /\ avatar \in AvatarRec /\ AvatarOK(avatar)

\* The invariant is what the property asks.
LEMMA MediaPlaysItsTurn == MediaInv => PlaysOwnTurn
<1> SUFFICES ASSUME MediaInv
             PROVE  PlaysOwnTurn
  OBVIOUS
<1>1. ASSUME NEW t \in Turns0, NEW i \in DOMAIN played[t]
      PROVE  played[t][i][1] = t /\ (i > 1 => played[t][i - 1][2] < played[t][i][2])
  <2>1. played[t] \in Seq(Frames) /\ i \in 1..Len(played[t])
    BY <1>1 DEF MediaInv, AudioInv
  <2>. QED BY <1>1, <2>1 DEF MediaInv, AudioInv, PlayedOK
<1>2. ASSUME ~wireOut.open, decoding = {}, ~player.busy, NEW n \in 1..wireOut.sent
      PROVE  \/ <<wireOut.turn, n>> \in missed
             \/ \E i \in DOMAIN played[wireOut.turn] : played[wireOut.turn][i][2] = n
  <2>1. SomewhereOnWire(wireOut.turn, {}, player.queue, played[wireOut.turn], missed, n)
    BY <1>2 DEF MediaInv, AudioInv
  <2>2. CASE \E i \in 1..Len(player.queue) : player.queue[i] = <<wireOut.turn, n>>
    BY <1>2, <2>2 DEF MediaInv, AudioInv, MissedOK
  <2>3. CASE \E i \in 1..Len(played[wireOut.turn]) : played[wireOut.turn][i] = <<wireOut.turn, n>>
    <3>1. PICK i \in 1..Len(played[wireOut.turn]) : played[wireOut.turn][i] = <<wireOut.turn, n>>
      BY <2>3
    <3>2. wireOut.turn \in 0..MaxTurns /\ played \in [Turns0 -> Seq(Frames)]
      BY DEF MediaInv, AudioInv, WireRec
    <3>3. CASE wireOut.turn \in Turns0
      BY <3>1, <3>2, <3>3
    <3>4. CASE wireOut.turn \notin Turns0
      <4>1. wireOut.turn = 0
        BY <3>2, <3>4 DEF Turns0
      <4>2. wireOut.sent = 0
        BY <4>1 DEF MediaInv, AudioInv
      <4>. QED BY <1>2, <4>2
    <3>. QED BY <3>3, <3>4
  <2>. QED BY <2>1, <2>2, <2>3 DEF SomewhereOnWire
<1>3. ~avatar.crossed /\ avatar.ready =>
        avatar.client = avatar.session /\ avatar.running = {avatar.session}
  BY DEF MediaInv, AvatarOK
<1>. QED BY <1>1, <1>2, <1>3 DEF PlaysOwnTurn


\* A frame is a pair of its turn and its number.
LEMMA FramesAre ==
  /\ \A f \in Frames : f = <<f[1], f[2]>> /\ f[1] \in Turns0 /\ f[2] \in 1..MaxFrames
  /\ Turns0 = 1..MaxTurns /\ MaxTurns \in Nat /\ MaxFrames \in Nat
BY MediaCounts DEF Frames, Turns0

\* What a queue of frames holds.
LEMMA SeqFrames ==
  ASSUME NEW q \in Seq(Frames)
  PROVE  /\ Len(q) \in Nat
         /\ \A i \in 1..Len(q) : q[i] \in Frames /\ q[i][1] \in 1..MaxTurns /\ q[i][2] \in Nat
<1>1. \A i \in 1..Len(q) : q[i] \in Frames
  OBVIOUS
<1>. QED BY <1>1, FramesAre

\* The types of the audio, one by one.
LEMMA AudioFacts ==
  ASSUME AudioInv
  PROVE  /\ wireOut \in WireRec /\ decoding \subseteq Frames /\ player \in PlayerRec
         /\ played \in [Turns0 -> Seq(Frames)]
         /\ wireOut.turn \in 0..MaxTurns /\ wireOut.sent \in 0..MaxFrames
         /\ wireOut.open \in BOOLEAN /\ player.busy \in BOOLEAN
         /\ player.queue \in Seq(Frames) /\ player.buffer \in 0..MaxTurns
         /\ player.source = wireOut.turn
         /\ \A f \in Frames : f = <<f[1], f[2]>> /\ f[1] \in Turns0 /\ f[2] \in 1..MaxFrames
         /\ Turns0 = 1..MaxTurns /\ MaxTurns \in Nat /\ MaxFrames \in Nat
BY MediaCounts DEF AudioInv, WireRec, PlayerRec, Frames, Turns0

\* What AudioInv says of a page, its wire and its sources.
AudioOK(w, d, p, s, m) ==
  /\ w \in WireRec /\ d \subseteq Frames /\ p \in PlayerRec
  /\ s \in [Turns0 -> Seq(Frames)]
  /\ p.source = w.turn /\ p.active \in {0, w.turn}
  /\ w.open => p.active = w.turn /\ w.turn # 0
  /\ w.turn = 0 => w.sent = 0
  /\ DecodingOK(w.turn, w.sent, d)
  /\ QueueOK(w.turn, w.sent, d, p.queue)
  /\ \A t \in Turns0 : PlayedOK(w.turn, w.sent, d, p.queue, t, s[t])
  /\ \A n \in 1..w.sent : SomewhereOnWire(w.turn, d, p.queue, s[w.turn], m, n)

\* The invariant of the audio is a formula of its state, ...
LEMMA AudioSame == AudioInv <=>
  AudioOK(wireOut, decoding, player, played, missed) /\ MissedOK(player, missed)
BY DEF AudioInv, AudioOK

\* ... and of the state after it.
LEMMA AudioNext == AudioInv' <=>
  AudioOK(wireOut', decoding', player', played', missed') /\ MissedOK(player', missed')
BY DEF AudioInv, AudioOK

\* A flush keeps the frames where they belong.
LEMMA FlushKeeps ==
  ASSUME NEW w, NEW d, NEW p \in PlayerRec, NEW m,
         AudioOK(w, d, p, played, m),
         p.buffer # p.source => \A i \in 1..Len(p.queue) : p.queue[i] \in m,
         Flushed(p)
  PROVE  AudioOK(w, d, player', played', m) /\ MissedOK(player', m)
<1>1. /\ p.queue \in Seq(Frames) /\ p.buffer \in 0..MaxTurns /\ p.source = w.turn
      /\ w.turn \in 0..MaxTurns /\ w.sent \in 0..MaxFrames /\ p.busy \in BOOLEAN
      /\ MaxTurns \in Nat /\ MaxFrames \in Nat /\ Turns0 = 1..MaxTurns
      /\ played \in [Turns0 -> Seq(Frames)]
  BY MediaCounts DEF AudioOK, PlayerRec, WireRec, Turns0
<1>2. CASE ~Flushes(p)
  <2>1. player' = p /\ played' = played
    BY <1>2 DEF Flushed
  <2>2. CASE p.buffer = 0 /\ p.buffer = p.source
    <3>1. \A i \in 1..Len(p.queue) : FALSE
      <4>1. ASSUME NEW i \in 1..Len(p.queue)
            PROVE  FALSE
        <5>1. p.queue[i][1] = 0
          BY <1>1, <2>2, <4>1 DEF AudioOK, QueueOK
        <5>2. p.queue[i][1] \in 1..MaxTurns
          BY <1>1, <4>1, SeqFrames
        <5>. QED BY <1>1, <5>1, <5>2
      <4>. QED BY <4>1
    <3>. QED BY <2>1, <3>1 DEF MissedOK
  <2>3. CASE p.queue = <<>>
    BY <2>1, <2>3 DEF MissedOK
  <2>4. CASE p.buffer # 0 /\ p.busy
    BY <2>1, <2>4 DEF MissedOK
  <2>5. CASE p.buffer # p.source
    BY <2>1, <2>5 DEF MissedOK
  <2>. QED BY <1>1, <1>2, <2>1, <2>2, <2>3, <2>4, <2>5 DEF Flushes
<1>3. CASE Flushes(p)
  <2> DEFINE q == p.queue
             r == Tail(p.queue)
  <2>0. p.buffer # 0 /\ ~p.busy /\ q # <<>>
    BY <1>3 DEF Flushes
  <2>1. /\ q \in Seq(Frames) /\ r \in Seq(Frames) /\ Len(q) \in Nat \ {0} /\ Len(r) = Len(q) - 1
        /\ \A i \in 1..Len(r) : r[i] = q[i + 1] /\ i + 1 \in 1..Len(q)
        /\ Head(q) = q[1] /\ 1 \in 1..Len(q) /\ q[1] \in Frames
    BY <1>1, <2>0
  <2>2. PICK b \in BOOLEAN : b = (p.buffer = p.source)
    OBVIOUS
  <2>3. player' = [p EXCEPT !.queue = r, !.busy = b]
    BY <1>3, <2>2 DEF Flushed
  <2>4. /\ player' \in PlayerRec /\ player'.queue = r /\ player'.busy = b
        /\ player'.source = p.source /\ player'.active = p.active /\ player'.buffer = p.buffer
    BY <2>1, <2>3 DEF PlayerRec
  <2>5. /\ QueueOK(w.turn, w.sent, d, q) /\ DecodingOK(w.turn, w.sent, d)
        /\ \A t \in Turns0 : PlayedOK(w.turn, w.sent, d, q, t, played[t])
        /\ \A n \in 1..w.sent : SomewhereOnWire(w.turn, d, q, played[w.turn], m, n)
        /\ w \in WireRec /\ d \subseteq Frames /\ p.active \in {0, w.turn}
        /\ w.open => p.active = w.turn /\ w.turn # 0
        /\ w.turn = 0 => w.sent = 0
    BY DEF AudioOK
  <2> HIDE DEF q, r
  <2>6. QueueOK(w.turn, w.sent, d, r)
    <3>1. \A i, j \in 1..Len(r) : i < j => q[i + 1][2] < q[j + 1][2]
      <4>1. \A i, j \in 1..Len(r) : i < j => i + 1 < j + 1
        BY <2>1
      <4>. QED BY <2>1, <2>5, <4>1 DEF QueueOK
    <3>. QED BY <2>1, <2>5, <3>1 DEF QueueOK
  <2>7. CASE p.buffer # p.source
    <3>1. played' = played /\ b = FALSE
      BY <1>3, <2>2, <2>7 DEF Flushed
    <3>2. \A i \in 1..Len(q) : q[i] \in m
      BY <2>7 DEF q
    <3>3. \A i \in 1..Len(r) : r[i] \in m
      BY <2>1, <3>2
    <3>4. ASSUME NEW t \in Turns0
          PROVE  PlayedOK(w.turn, w.sent, d, r, t, played[t])
      BY <2>1, <2>5 DEF PlayedOK
    <3>5. ASSUME NEW n \in 1..w.sent
          PROVE  SomewhereOnWire(w.turn, d, r, played[w.turn], m, n)
      BY <2>5, <3>2 DEF SomewhereOnWire
    <3>. QED BY <1>1, <2>4, <2>5, <2>6, <3>1, <3>3, <3>4, <3>5 DEF AudioOK, MissedOK
  <2>8. CASE p.buffer = p.source
    <3>1. played' = [played EXCEPT ![w.turn] = Append(@, Head(q))] /\ b = TRUE
      BY <1>1, <1>3, <2>2, <2>8 DEF Flushed, q
    <3>2. w.turn \in Turns0
      BY <1>1, <2>0, <2>8
    <3>3. PICK s \in Seq(Frames) : s = played[w.turn]
      BY <1>1, <3>2
    <3>4. PICK z \in Seq(Frames) : z = Append(s, q[1])
      <4>1. Append(s, q[1]) \in Seq(Frames)
        BY <2>1, <3>3
      <4>. QED BY <4>1
    <3>5. /\ Len(s) \in Nat /\ Len(z) = Len(s) + 1 /\ z[Len(s) + 1] = q[1]
          /\ \A i \in 1..Len(s) : z[i] = s[i]
      BY <2>1, <3>3, <3>4
    <3>6. /\ played' \in [Turns0 -> Seq(Frames)] /\ played'[w.turn] = z
          /\ \A t \in Turns0 \ {w.turn} : played'[t] = played[t]
      BY <1>1, <2>1, <3>1, <3>2, <3>3, <3>4
    <3>7. PlayedOK(w.turn, w.sent, d, q, w.turn, s)
      BY <2>5, <3>2, <3>3
    <3>8. \A i \in 1..Len(s) : s[i] \in Frames /\ s[i][2] \in Nat
      BY <3>3, SeqFrames
    <3>9. \A i \in 1..Len(q) : q[i] \in Frames /\ q[i][2] \in Nat
      BY <2>1, SeqFrames
    <3>10. PlayedOK(w.turn, w.sent, d, r, w.turn, z)
      <4>1. \A i \in 1..Len(z) : z[i][1] = w.turn /\ w.turn <= w.turn
        <5>1. q[1][1] = w.turn /\ \A i \in 1..Len(s) : s[i][1] = w.turn
          BY <2>1, <2>5, <3>7 DEF PlayedOK, QueueOK
        <5>2. \A i \in 1..Len(z) : i \in 1..Len(s) \/ i = Len(s) + 1
          BY <3>5
        <5>3. \A i \in 1..Len(z) : z[i][1] = w.turn
          BY <3>5, <5>1, <5>2
        <5>. QED BY <1>1, <5>3
      <4>2. ASSUME NEW i \in 1..Len(z), i > 1
            PROVE  z[i - 1][2] < z[i][2]
        <5>1. CASE i \in 1..Len(s)
          <6>1. i - 1 \in 1..Len(s)
            BY <4>2, <5>1
          <6>. QED BY <3>5, <3>7, <4>2, <5>1, <6>1 DEF PlayedOK
        <5>2. CASE i = Len(s) + 1
          <6>1. Len(s) \in 1..Len(s) /\ i - 1 = Len(s)
            BY <3>5, <4>2, <5>2
          <6>2. s[Len(s)][2] < q[1][2]
            BY <2>1, <3>7, <6>1 DEF PlayedOK
          <6>. QED BY <3>5, <5>2, <6>1, <6>2
        <5>. QED BY <3>5, <4>2, <5>1, <5>2
      <4>3. ASSUME NEW i \in 1..Len(z)
            PROVE  /\ z[i][2] <= w.sent
                   /\ \A f \in d : f[1] = w.turn => z[i][2] < f[2]
                   /\ \A j \in 1..Len(r) : z[i][2] < r[j][2]
        <5>1. CASE i \in 1..Len(s)
          BY <2>1, <3>5, <3>7, <5>1 DEF PlayedOK
        <5>2. CASE i = Len(s) + 1
          <6>1. z[i] = q[1]
            BY <3>5, <5>2
          <6>2. \A j \in 1..Len(r) : 1 < j + 1 /\ q[1][2] < q[j + 1][2]
            BY <2>1, <2>5 DEF QueueOK
          <6>. QED BY <2>1, <2>5, <6>1, <6>2 DEF QueueOK
        <5>. QED BY <3>5, <4>3, <5>1, <5>2
      <4>. QED BY <4>1, <4>2, <4>3 DEF PlayedOK
    <3>11. ASSUME NEW t \in Turns0
           PROVE  PlayedOK(w.turn, w.sent, d, r, t, played'[t])
      <4>1. CASE t = w.turn
        BY <3>6, <3>10, <4>1
      <4>2. CASE t # w.turn
        BY <2>5, <3>6, <4>2 DEF PlayedOK
      <4>. QED BY <4>1, <4>2
    <3>12. ASSUME NEW n \in 1..w.sent
           PROVE  SomewhereOnWire(w.turn, d, r, z, m, n)
      <4>1. SomewhereOnWire(w.turn, d, q, s, m, n)
        BY <2>5, <3>3
      <4>2. ASSUME NEW i \in 1..Len(q), q[i] = <<w.turn, n>>
            PROVE  SomewhereOnWire(w.turn, d, r, z, m, n)
        <5>1. CASE i = 1
          <6>1. z[Len(s) + 1] = <<w.turn, n>> /\ Len(s) + 1 \in 1..Len(z)
            BY <3>5, <4>2, <5>1
          <6>. QED BY <6>1 DEF SomewhereOnWire
        <5>2. CASE i # 1
          <6>1. i - 1 \in 1..Len(r) /\ (i - 1) + 1 = i
            BY <2>1, <4>2, <5>2
          <6>2. r[i - 1] = <<w.turn, n>>
            BY <2>1, <4>2, <6>1
          <6>. QED BY <6>1, <6>2 DEF SomewhereOnWire
        <5>. QED BY <5>1, <5>2
      <4>3. ASSUME NEW i \in 1..Len(s), s[i] = <<w.turn, n>>
            PROVE  SomewhereOnWire(w.turn, d, r, z, m, n)
        <5>1. z[i] = <<w.turn, n>> /\ i \in 1..Len(z)
          BY <3>5, <4>3
        <5>. QED BY <5>1 DEF SomewhereOnWire
      <4>. QED BY <4>1, <4>2, <4>3 DEF SomewhereOnWire
    <3>. QED BY <1>1, <2>4, <2>5, <2>6, <2>8, <3>1, <3>6, <3>11, <3>12 DEF AudioOK, MissedOK
  <2>. QED BY <2>7, <2>8
<1>. QED BY <1>2, <1>3


\* tts:start: a media source for the turn.
LEMMA StartSafe ==
  ASSUME AudioInv, OnTtsStart
  PROVE  AudioInv'
<1>0. AudioOK(wireOut, decoding, player, played, missed)
  BY AudioSame
<1>1. PICK p \in PlayerRec : p = player
  BY AudioFacts
<1>2. /\ wireOut.turn \in 0..MaxTurns /\ wireOut.turn < MaxTurns /\ MaxTurns \in Nat /\ MaxFrames \in Nat
      /\ wireOut' = [turn |-> wireOut.turn + 1, sent |-> 0, open |-> TRUE]
      /\ player' = [p EXCEPT !.active = wireOut.turn + 1, !.queue = <<>>,
                             !.source = wireOut.turn + 1]
      /\ decoding' = decoding /\ played' = played
  BY <1>1, AudioFacts DEF OnTtsStart
<1>3. PICK w \in WireRec : w = wireOut'
  <2>1. wireOut.turn + 1 \in 0..MaxTurns /\ 0 \in 0..MaxFrames
    BY <1>2
  <2>. QED BY <1>2, <2>1 DEF WireRec
<1>4. w.turn = wireOut.turn + 1 /\ w.sent = 0 /\ w.open = TRUE /\ wireOut' = w
  BY <1>2, <1>3
<1>5. PICK r \in PlayerRec : r = player'
  <2>1. <<>> \in Seq(Frames) /\ wireOut.turn + 1 \in 0..MaxTurns
    BY <1>2
  <2>. QED BY <1>2, <2>1 DEF PlayerRec
<1>6. r.active = w.turn /\ r.queue = <<>> /\ r.source = w.turn /\ player' = r
  BY <1>1, <1>2, <1>4, <1>5 DEF PlayerRec
<1>7. DecodingOK(w.turn, w.sent, decoding)
  <2>1. \A f \in decoding : f[1] <= wireOut.turn /\ f[1] \in Nat
    BY <1>0, FramesAre DEF AudioOK, DecodingOK
  <2>. QED BY <1>2, <1>4, <2>1 DEF DecodingOK
<1>8. QueueOK(w.turn, w.sent, decoding, <<>>)
  BY DEF QueueOK
<1>9. ASSUME NEW t \in Turns0
      PROVE  PlayedOK(w.turn, w.sent, decoding, <<>>, t, played[t])
  <2>1. PICK s \in Seq(Frames) : s = played[t]
    BY <1>9, AudioFacts
  <2>2. PlayedOK(wireOut.turn, wireOut.sent, decoding, player.queue, t, s) /\ t \in Nat
    BY <1>0, <1>9, <2>1, FramesAre DEF AudioOK
  <2>3. t = w.turn => Len(s) = 0
    <3>1. ASSUME t = w.turn, NEW i \in 1..Len(s)
          PROVE  FALSE
      BY <1>2, <1>4, <2>2, <3>1 DEF PlayedOK
    <3>. QED BY <3>1, SeqFrames
  <2>4. \A i \in 1..Len(s) : s[i][1] = t /\ t <= w.turn
    <3>1. wireOut.turn \in Nat /\ w.turn \in Nat /\ wireOut.turn <= w.turn
      BY <1>2, <1>4, FramesAre
    <3>2. \A i \in 1..Len(s) : s[i][1] = t /\ t <= wireOut.turn
      BY <2>2 DEF PlayedOK
    <3>. QED BY <2>2, <3>1, <3>2
  <2>5. \A i \in 1..Len(s) : i > 1 => s[i - 1][2] < s[i][2]
    BY <2>2 DEF PlayedOK
  <2>6. t = w.turn => 1..Len(s) = {}
    BY <2>3
  <2>. QED BY <2>1, <2>4, <2>5, <2>6 DEF PlayedOK
<1>10. MissedOK(r, missed')
  BY <1>6 DEF MissedOK
<1>11. w.turn # 0 /\ (1..w.sent) = {}
  BY <1>2, <1>4
<1>. QED BY <1>0, <1>2, <1>3, <1>4, <1>5, <1>6, <1>7, <1>8, <1>9, <1>10, <1>11, AudioNext
     DEF AudioOK

\* The media source opens and takes its first queued frame.
LEMMA OpensSafe ==
  ASSUME AudioInv, SourceOpens
  PROVE  AudioInv'
<1>0. AudioOK(wireOut, decoding, player, played, missed) /\ MissedOK(player, missed)
  BY AudioSame
<1>1. PICK p \in PlayerRec : p = player
  BY AudioFacts
<1>2. /\ player' = [p EXCEPT !.buffer = p.source, !.busy = FALSE] /\ p.buffer # p.source
      /\ decoding' = decoding /\ played' = played /\ wireOut' = wireOut /\ missed' = missed
  BY <1>1 DEF SourceOpens
<1>3. PICK r \in PlayerRec : r = player'
  BY <1>2 DEF PlayerRec
<1>4. r.queue = p.queue /\ r.active = p.active /\ r.source = p.source
  BY <1>2, <1>3 DEF PlayerRec
<1>5. MissedOK(r, missed)
  BY <1>0, <1>1, <1>2, <1>4 DEF MissedOK
<1>6. AudioOK(wireOut, decoding, r, played, missed)
  BY <1>0, <1>1, <1>4 DEF AudioOK
<1>. QED BY <1>2, <1>3, <1>5, <1>6, AudioNext

\* A binary message of the socket begins to be read.
LEMMA ArrivesSafe ==
  ASSUME AudioInv, FrameArrives
  PROVE  AudioInv'
<1>0. AudioOK(wireOut, decoding, player, played, missed) /\ MissedOK(player, missed)
  BY AudioSame
<1>1. PICK v \in WireRec : v = wireOut
  BY AudioFacts
<1>2. /\ v.open /\ v.sent < MaxFrames /\ v.sent \in 0..MaxFrames /\ v.turn \in 0..MaxTurns
      /\ wireOut' = [v EXCEPT !.sent = v.sent + 1]
      /\ decoding' = decoding \cup {<<v.turn, v.sent + 1>>}
      /\ played' = played /\ player' = player /\ missed' = missed /\ v.turn # 0
      /\ MaxTurns \in Nat /\ MaxFrames \in Nat
  BY <1>0, <1>1, AudioFacts DEF FrameArrives, WireRec, AudioOK
<1>3. PICK w \in WireRec : w = wireOut'
  BY <1>2 DEF WireRec
<1>4. w.sent = v.sent + 1 /\ w.turn = v.turn /\ w.open = v.open
  BY <1>2, <1>3 DEF WireRec
<1>5. PICK f \in Frames : f = <<v.turn, v.sent + 1>>
  <2>1. v.turn \in 1..MaxTurns /\ v.sent + 1 \in 1..MaxFrames
    BY <1>2
  <2>. QED BY <2>1 DEF Frames, Turns0
<1>6. f[1] = v.turn /\ f[2] = v.sent + 1 /\ decoding' = decoding \cup {f}
  BY <1>2, <1>5
<1>7. DecodingOK(w.turn, w.sent, decoding')
  BY <1>0, <1>1, <1>2, <1>4, <1>6, FramesAre DEF AudioOK, DecodingOK
<1>8. PICK q \in Seq(Frames) : q = player.queue
  BY AudioFacts
<1>9. QueueOK(w.turn, w.sent, decoding', q)
  <2>1. QueueOK(v.turn, v.sent, decoding, q)
    BY <1>0, <1>1, <1>8 DEF AudioOK
  <2>2. \A i \in 1..Len(q) : q[i][2] \in Nat /\ q[i][2] <= w.sent /\ q[i][2] < f[2]
    BY <1>2, <1>4, <1>6, <2>1, SeqFrames DEF QueueOK
  <2>. QED BY <1>2, <1>4, <1>6, <2>1, <2>2 DEF QueueOK
<1>10. ASSUME NEW t \in Turns0
       PROVE  PlayedOK(w.turn, w.sent, decoding', q, t, played[t])
  <2>1. PICK s \in Seq(Frames) : s = played[t]
    BY <1>10, AudioFacts
  <2>2. PlayedOK(v.turn, v.sent, decoding, q, t, s)
    BY <1>0, <1>1, <1>8, <1>10, <2>1 DEF AudioOK
  <2>3. t = v.turn => \A i \in 1..Len(s) : s[i][2] \in Nat /\ s[i][2] <= w.sent /\ s[i][2] < f[2]
    BY <1>2, <1>4, <1>6, <2>2, SeqFrames DEF PlayedOK
  <2>. QED BY <1>2, <1>4, <1>6, <2>1, <2>2, <2>3 DEF PlayedOK
<1>11. ASSUME NEW n \in 1..w.sent
       PROVE  SomewhereOnWire(w.turn, decoding', q, played[w.turn], missed, n)
  <2>1. CASE n \in 1..v.sent
    <3>1. SomewhereOnWire(v.turn, decoding, q, played[v.turn], missed, n)
      BY <1>0, <1>1, <1>8, <2>1 DEF AudioOK
    <3>. QED BY <1>4, <1>6, <3>1 DEF SomewhereOnWire
  <2>2. CASE n = v.sent + 1
    BY <1>2, <1>4, <2>2 DEF SomewhereOnWire
  <2>. QED BY <1>2, <1>4, <1>11, <2>1, <2>2
<1>12. decoding' \subseteq Frames
  BY <1>6, AudioFacts
<1>13. AudioOK(w, decoding', player, played, missed)
  BY <1>0, <1>1, <1>2, <1>4, <1>7, <1>8, <1>9, <1>10, <1>11, <1>12 DEF AudioOK
<1>. QED BY <1>0, <1>2, <1>3, <1>13, AudioNext

\* The source buffer took a frame and takes the next.
LEMMA UpdateSafe ==
  ASSUME AudioInv, UpdateEnd
  PROVE  AudioInv'
<1>0. AudioOK(wireOut, decoding, player, played, missed) /\ MissedOK(player, missed)
  BY AudioSame
<1>1. PICK o \in PlayerRec : o = player
  BY AudioFacts
<1>2. PICK p \in PlayerRec : p = [o EXCEPT !.busy = FALSE]
  BY DEF PlayerRec
<1>3. p.queue = o.queue /\ p.source = o.source /\ p.buffer = o.buffer /\ p.active = o.active
  BY <1>2 DEF PlayerRec
<1>4. Flushed(p) /\ wireOut' = wireOut /\ decoding' = decoding /\ missed' = missed
  BY <1>1, <1>2 DEF UpdateEnd
<1>5. AudioOK(wireOut, decoding, p, played, missed)
  BY <1>0, <1>1, <1>3 DEF AudioOK
<1>6. p.buffer # p.source => \A i \in 1..Len(p.queue) : p.queue[i] \in missed
  BY <1>0, <1>1, <1>3 DEF MissedOK
<1>7. AudioOK(wireOut, decoding, player', played', missed) /\ MissedOK(player', missed)
  BY <1>4, <1>5, <1>6, FlushKeeps
<1>. QED BY <1>4, <1>7, AudioNext

\* tts:end: no frame of the turn comes any more.
LEMMA EndSafe ==
  ASSUME AudioInv, OnTtsEnd
  PROVE  AudioInv'
<1>0. AudioOK(wireOut, decoding, player, played, missed) /\ MissedOK(player, missed)
  BY AudioSame
<1>1. PICK p \in PlayerRec, v \in WireRec : p = player /\ v = wireOut
  BY AudioFacts
<1>2. /\ player' = [p EXCEPT !.active = 0] /\ wireOut' = [v EXCEPT !.open = FALSE]
      /\ decoding' = decoding /\ played' = played /\ missed' = missed
  BY <1>1 DEF OnTtsEnd
<1>3. PICK r \in PlayerRec, w \in WireRec : r = player' /\ w = wireOut'
  <2>1. 0 \in 0..MaxTurns
    BY MediaCounts
  <2>. QED BY <1>2, <2>1 DEF PlayerRec, WireRec
<1>4. /\ r.queue = p.queue /\ r.active = 0 /\ r.source = p.source /\ r.buffer = p.buffer
      /\ r.busy = p.busy /\ w.turn = v.turn /\ w.sent = v.sent /\ ~w.open
  BY <1>2, <1>3 DEF PlayerRec, WireRec
<1>5. MissedOK(r, missed)
  BY <1>0, <1>1, <1>4 DEF MissedOK
<1>6. AudioOK(w, decoding, r, played, missed)
  BY <1>0, <1>1, <1>4 DEF AudioOK
<1>. QED BY <1>2, <1>3, <1>5, <1>6, AudioNext

\* The page stops the playback and forgets what is queued.
LEMMA StopSafe ==
  ASSUME AudioInv, StopPlayback
  PROVE  AudioInv'
<1>0. AudioOK(wireOut, decoding, player, played, missed) /\ MissedOK(player, missed)
  BY AudioSame
<1>1. PICK p \in PlayerRec, v \in WireRec : p = player /\ v = wireOut
  BY AudioFacts
<1>2. /\ player' = [p EXCEPT !.active = 0, !.queue = <<>>] /\ wireOut' = [v EXCEPT !.open = FALSE]
      /\ decoding' = decoding /\ played' = played /\ p.active # 0
      /\ missed' = missed \cup {p.queue[i] : i \in DOMAIN p.queue} \cup {p.active} \X (1..MaxFrames)
      /\ p.active = v.turn /\ v.sent \in 0..MaxFrames /\ MaxFrames \in Nat
  BY <1>0, <1>1, AudioFacts DEF StopPlayback, AudioOK
<1>3. PICK r \in PlayerRec, w \in WireRec : r = player' /\ w = wireOut'
  <2>1. 0 \in 0..MaxTurns /\ <<>> \in Seq(Frames)
    BY MediaCounts
  <2>. QED BY <1>2, <2>1 DEF PlayerRec, WireRec
<1>4. /\ r.queue = <<>> /\ r.active = 0 /\ r.source = p.source
      /\ w.turn = v.turn /\ w.sent = v.sent /\ ~w.open
  BY <1>2, <1>3 DEF PlayerRec, WireRec
<1>5. MissedOK(r, missed')
  BY <1>4 DEF MissedOK
<1>6. \A n \in 1..w.sent : <<w.turn, n>> \in missed'
  <2>1. \A n \in 1..w.sent : <<w.turn, n>> \in {p.active} \X (1..MaxFrames)
    BY <1>2, <1>4
  <2>. QED BY <1>2, <2>1
<1>7. QueueOK(w.turn, w.sent, decoding, <<>>)
  BY DEF QueueOK
<1>8. \A t \in Turns0 : PlayedOK(w.turn, w.sent, decoding, <<>>, t, played[t])
  BY <1>0, <1>1, <1>4 DEF AudioOK, PlayedOK
<1>9. AudioOK(w, decoding, r, played, missed')
  BY <1>0, <1>1, <1>4, <1>6, <1>7, <1>8 DEF AudioOK, SomewhereOnWire
<1>. QED BY <1>2, <1>3, <1>5, <1>9, AudioNext

\* A frame was read: it is queued, appended or dropped.
LEMMA ChunkSafe ==
  ASSUME AudioInv, NEW f \in Frames, OnAudioChunk(f)
  PROVE  AudioInv'
<1>0. AudioOK(wireOut, decoding, player, played, missed) /\ MissedOK(player, missed)
  BY AudioSame
<1>1. PICK p \in PlayerRec, w \in WireRec : p = player /\ w = wireOut
  BY AudioFacts
<1>2. PICK d \in SUBSET Frames : d = decoding \ {f}
  BY AudioFacts
<1>3. PICK m : m = missed'
  OBVIOUS
<1>4. /\ f \in decoding /\ decoding' = d /\ wireOut' = w
      /\ \A g \in decoding : f[1] < g[1] \/ (f[1] = g[1] /\ f[2] <= g[2])
      /\ missed \subseteq m
  BY <1>1, <1>2, <1>3 DEF OnAudioChunk
<1>5. \A g \in Frames : g = <<g[1], g[2]>> /\ g[1] \in Nat /\ g[2] \in Nat
  BY FramesAre
<1>6. \A g \in d : f[1] = w.turn /\ g[1] = w.turn => f[2] < g[2]
  <2>1. ASSUME NEW g \in d, f[1] = w.turn, g[1] = w.turn
        PROVE  f[2] < g[2]
    <3>1. g \in decoding /\ g \in Frames /\ g # f /\ f \in Frames
      BY <1>2, <2>1
    <3>2. g[2] # f[2]
      BY <1>5, <2>1, <3>1
    <3>3. f[2] <= g[2]
      BY <1>4, <1>5, <2>1, <3>1
    <3>. QED BY <1>5, <3>1, <3>2, <3>3
  <2>. QED BY <2>1
<1>7. PICK q \in Seq(Frames) : q = p.queue
  BY <1>1, AudioFacts
<1>8. /\ w.turn \in 0..MaxTurns /\ w.sent \in 0..MaxFrames /\ MaxFrames \in Nat
      /\ p.source = w.turn /\ p.active \in {0, w.turn} /\ d \subseteq decoding
      /\ played \in [Turns0 -> Seq(Frames)]
      /\ QueueOK(w.turn, w.sent, decoding, q) /\ DecodingOK(w.turn, w.sent, decoding)
      /\ \A t \in Turns0 : PlayedOK(w.turn, w.sent, decoding, q, t, played[t])
      /\ \A n \in 1..w.sent : SomewhereOnWire(w.turn, decoding, q, played[w.turn], missed, n)
      /\ w.open => p.active = w.turn /\ w.turn # 0
      /\ w.turn = 0 => w.sent = 0
  BY <1>0, <1>1, <1>2, <1>7, AudioFacts DEF AudioOK
<1>9. CASE f[1] # p.active
  <2>1. player' = p /\ played' = played /\ m = missed \cup {f}
    BY <1>1, <1>3, <1>9 DEF OnAudioChunk
  <2>2. DecodingOK(w.turn, w.sent, d) /\ QueueOK(w.turn, w.sent, d, q)
    BY <1>8 DEF DecodingOK, QueueOK
  <2>3. \A t \in Turns0 : PlayedOK(w.turn, w.sent, d, q, t, played[t])
    BY <1>8 DEF PlayedOK
  <2>4. \A n \in 1..w.sent : SomewhereOnWire(w.turn, d, q, played[w.turn], m, n)
    BY <1>2, <1>8, <2>1 DEF SomewhereOnWire
  <2>5. AudioOK(w, d, p, played, m)
    BY <1>7, <1>8, <2>2, <2>3, <2>4 DEF AudioOK
  <2>6. MissedOK(p, m)
    BY <1>0, <1>1, <1>4 DEF MissedOK
  <2>. QED BY <1>3, <1>4, <2>1, <2>5, <2>6, AudioNext
<1>10. CASE f[1] = p.active
  <2>1. f[1] = w.turn /\ w.turn # 0 /\ f[2] \in 1..w.sent /\ f[2] \in Nat
    BY <1>4, <1>8, <1>10, FramesAre DEF DecodingOK
  <2>2. PICK z \in Seq(Frames) : z = Append(q, f)
    <3>1. Append(q, f) \in Seq(Frames)
      OBVIOUS
    <3>. QED BY <3>1
  <2>3. /\ Len(q) \in Nat /\ Len(z) = Len(q) + 1 /\ z[Len(q) + 1] = f
        /\ \A i \in 1..Len(q) : z[i] = q[i] /\ i \in 1..Len(z)
        /\ \A i \in 1..Len(z) : i \in 1..Len(q) \/ i = Len(q) + 1
    BY <2>2
  <2>4. PICK y \in PlayerRec : y = [p EXCEPT !.queue = z]
    BY DEF PlayerRec
  <2>5. /\ y.queue = z /\ y.source = p.source /\ y.buffer = p.buffer /\ y.active = p.active
    BY <2>4 DEF PlayerRec
  <2>6. Flushed(y) /\ m = missed \cup Early(p, f)
    BY <1>1, <1>3, <1>7, <1>10, <2>2, <2>4 DEF OnAudioChunk
  <2>7. QueueOK(w.turn, w.sent, d, z)
    <3>1. \A i \in 1..Len(q) : q[i][1] = w.turn /\ q[i][2] <= w.sent /\ q[i][2] < f[2]
      BY <1>4, <1>8, <2>1 DEF QueueOK
    <3>2. \A i \in 1..Len(q) : \A g \in d : g[1] = w.turn => q[i][2] < g[2]
      BY <1>8 DEF QueueOK
    <3>3. \A i \in 1..Len(z) : z[i][1] = w.turn /\ z[i][2] <= w.sent
      BY <2>1, <2>3, <3>1
    <3>4. \A i \in 1..Len(z) : \A g \in d : g[1] = w.turn => z[i][2] < g[2]
      BY <1>6, <2>1, <2>3, <3>2
    <3>5. ASSUME NEW i \in 1..Len(z), NEW j \in 1..Len(z), i < j
          PROVE  z[i][2] < z[j][2]
      <4>1. i \in 1..Len(q)
        BY <2>3, <3>5
      <4>2. CASE j \in 1..Len(q)
        BY <1>8, <2>3, <3>5, <4>1, <4>2 DEF QueueOK
      <4>3. CASE j = Len(q) + 1
        BY <2>3, <3>1, <4>1, <4>3
      <4>. QED BY <2>3, <4>2, <4>3
    <3>. QED BY <3>3, <3>4, <3>5 DEF QueueOK
  <2>8. DecodingOK(w.turn, w.sent, d)
    BY <1>8 DEF DecodingOK
  <2>9. ASSUME NEW t \in Turns0
        PROVE  PlayedOK(w.turn, w.sent, d, z, t, played[t])
    <3>1. PlayedOK(w.turn, w.sent, decoding, q, t, played[t])
      BY <1>8
    <3>2. t = w.turn => \A i \in 1..Len(played[t]) : \A j \in 1..Len(z) :
            played[t][i][2] < z[j][2]
      BY <1>4, <2>1, <2>3, <3>1 DEF PlayedOK
    <3>. QED BY <1>8, <3>1, <3>2 DEF PlayedOK
  <2>10. ASSUME NEW n \in 1..w.sent
         PROVE  SomewhereOnWire(w.turn, d, z, played[w.turn], m, n)
    <3>1. SomewhereOnWire(w.turn, decoding, q, played[w.turn], missed, n)
      BY <1>8
    <3>2. CASE <<w.turn, n>> = f
      <4>1. z[Len(q) + 1] = <<w.turn, n>> /\ Len(q) + 1 \in 1..Len(z)
        BY <2>3, <3>2
      <4>. QED BY <4>1 DEF SomewhereOnWire
    <3>3. CASE <<w.turn, n>> # f /\ <<w.turn, n>> \in decoding \cup missed
      BY <1>2, <1>4, <3>3 DEF SomewhereOnWire
    <3>4. CASE \E i \in 1..Len(q) : q[i] = <<w.turn, n>>
      <4>1. PICK i \in 1..Len(q) : q[i] = <<w.turn, n>>
        BY <3>4
      <4>2. i \in 1..Len(z) /\ z[i] = <<w.turn, n>>
        BY <2>3, <4>1
      <4>. QED BY <4>2 DEF SomewhereOnWire
    <3>5. CASE \E i \in 1..Len(played[w.turn]) : played[w.turn][i] = <<w.turn, n>>
      BY <3>5 DEF SomewhereOnWire
    <3>. QED BY <3>1, <3>2, <3>3, <3>4, <3>5 DEF SomewhereOnWire
  <2>11. AudioOK(w, d, y, played, m)
    BY <1>8, <2>5, <2>7, <2>8, <2>9, <2>10 DEF AudioOK
  <2>12. y.buffer # y.source => \A i \in 1..Len(y.queue) : y.queue[i] \in m
    <3>1. p.buffer # p.source => f \in m /\ \A i \in 1..Len(q) : q[i] \in m
      BY <1>0, <1>1, <1>4, <1>7, <2>6 DEF MissedOK, Early
    <3>. QED BY <2>3, <2>5, <3>1
  <2>13. AudioOK(w, d, player', played', m) /\ MissedOK(player', m)
    BY <2>6, <2>11, <2>12, FlushKeeps
  <2>. QED BY <1>3, <1>4, <2>13, AudioNext
<1>. QED BY <1>9, <1>10


\* The avatar part of MediaInv.
LEMMA AvatarSafe ==
  ASSUME avatar \in AvatarRec, AvatarOK(avatar)
  PROVE  /\ HandleReady => avatar' \in AvatarRec /\ AvatarOK(avatar')
         /\ CloseAvatar => avatar' \in AvatarRec /\ AvatarOK(avatar')
         /\ \A n \in Clients : CreateClient(n) => avatar' \in AvatarRec /\ AvatarOK(avatar')
         /\ \A n \in Clients : ClientStarted(n) => avatar' \in AvatarRec /\ AvatarOK(avatar')
         /\ \A n \in Clients : ClientFails(n) => avatar' \in AvatarRec /\ AvatarOK(avatar')
<1>1. PICK a \in AvatarRec : a = avatar
  OBVIOUS
<1>2. AvatarOK(a)
  BY <1>1
<1>3. /\ MaxClients \in Nat /\ Clients = 1..MaxClients /\ a.session \in 0..MaxClients
      /\ a.asked \in 0..MaxClients /\ a.client \in 0..MaxClients /\ a.running \subseteq Clients
      /\ a.starting \subseteq Clients \X {"teardown", "start"} /\ a.ready \in BOOLEAN
      /\ a.crossed \in BOOLEAN
  BY MediaCounts DEF Clients, AvatarRec
<1>4. ASSUME HandleReady
      PROVE  avatar' \in AvatarRec /\ AvatarOK(avatar')
  <2>1. PICK n \in Clients : n = a.asked + 1
    BY <1>1, <1>3, <1>4 DEF HandleReady
  <2>2. PICK c \in BOOLEAN : c = (a.crossed \/ a.starting # {})
    OBVIOUS
  <2>3. avatar' = [a EXCEPT !.asked = n, !.session = n, !.client = 0, !.ready = FALSE,
                            !.starting = a.starting \cup {<<n, "teardown">>},
                            !.running = a.running \ {a.client}, !.crossed = c]
    BY <1>1, <1>4, <2>1, <2>2, Zenon DEF HandleReady
  <2>4. /\ n \in 0..MaxClients /\ 0 \in 0..MaxClients
        /\ a.starting \cup {<<n, "teardown">>} \subseteq Clients \X {"teardown", "start"}
    BY <1>3
  <2>5. PICK b \in AvatarRec : b = avatar'
    BY <1>3, <2>3, <2>4 DEF AvatarRec
  <2>6. /\ b.session = n /\ b.client = 0 /\ b.ready = FALSE /\ b.crossed = c
        /\ b.starting = a.starting \cup {<<n, "teardown">>} /\ b.running = a.running \ {a.client}
    BY <2>3, <2>5 DEF AvatarRec
  <2>7. AvatarOK(b)
    <3>1. ASSUME ~b.crossed
          PROVE  /\ b.session # 0 /\ b.starting = {<<b.session, "teardown">>}
                 /\ b.running = {} /\ ~b.ready
      <4>1. a.starting = {} /\ ~a.crossed
        BY <2>2, <2>6, <3>1
      <4>2. b.running = {}
        BY <1>2, <2>6, <4>1 DEF AvatarOK
      <4>. QED BY <1>3, <2>6, <4>1, <4>2
    <3>2. ~b.crossed => <<b.session, "start">> \notin b.starting
      BY <3>1
    <3>. QED BY <3>1, <3>2 DEF AvatarOK
  <2>. QED BY <2>5, <2>7
<1>5. ASSUME CloseAvatar
      PROVE  avatar' \in AvatarRec /\ AvatarOK(avatar')
  <2>1. PICK c \in BOOLEAN : c = (a.crossed \/ a.starting # {})
    OBVIOUS
  <2>2. avatar' = [a EXCEPT !.session = 0, !.client = 0, !.ready = FALSE,
                            !.running = a.running \ {a.client}, !.crossed = c]
    BY <1>1, <1>5, <2>1, Zenon DEF CloseAvatar
  <2>3. 0 \in 0..MaxClients
    BY <1>3
  <2>4. PICK b \in AvatarRec : b = avatar'
    BY <1>3, <2>2, <2>3 DEF AvatarRec
  <2>5. /\ b.session = 0 /\ b.client = 0 /\ b.ready = FALSE /\ b.crossed = c
        /\ b.starting = a.starting /\ b.running = a.running \ {a.client}
    BY <2>2, <2>4 DEF AvatarRec
  <2>6. AvatarOK(b)
    <3>1. ASSUME ~b.crossed
          PROVE  b.starting = {} /\ b.running = {} /\ ~b.ready
      <4>1. a.starting = {} /\ ~a.crossed
        BY <2>1, <2>5, <3>1
      <4>. QED BY <1>2, <2>5, <4>1 DEF AvatarOK
    <3>. QED BY <3>1 DEF AvatarOK
  <2>. QED BY <2>4, <2>6
<1>6. ASSUME NEW n \in Clients, CreateClient(n)
      PROVE  avatar' \in AvatarRec /\ AvatarOK(avatar')
  <2>1. /\ <<n, "teardown">> \in a.starting
        /\ avatar' = [a EXCEPT !.client = n, !.running = a.running \cup {n},
                       !.starting = (a.starting \ {<<n, "teardown">>}) \cup {<<n, "start">>}]
    BY <1>1, <1>6 DEF CreateClient
  <2>2. /\ n \in 0..MaxClients
        /\ (a.starting \ {<<n, "teardown">>}) \cup {<<n, "start">>}
             \subseteq Clients \X {"teardown", "start"}
    BY <1>3
  <2>3. PICK b \in AvatarRec : b = avatar'
    BY <1>3, <2>1, <2>2 DEF AvatarRec
  <2>4. /\ b.session = a.session /\ b.client = n /\ b.ready = a.ready /\ b.crossed = a.crossed
        /\ b.starting = (a.starting \ {<<n, "teardown">>}) \cup {<<n, "start">>}
        /\ b.running = a.running \cup {n}
    BY <2>1, <2>3 DEF AvatarRec
  <2>5. AvatarOK(b)
    <3>1. ASSUME ~b.crossed
          PROVE  /\ b.session # 0 /\ b.starting = {<<b.session, "start">>}
                 /\ b.running = {b.session} /\ b.client = b.session /\ ~b.ready
      <4>1. a.session # 0 /\ a.starting = {<<n, "teardown">>} /\ n = a.session
        BY <1>2, <2>1, <2>4, <3>1 DEF AvatarOK
      <4>2. a.running = {} /\ ~a.ready
        BY <1>2, <2>4, <3>1, <4>1 DEF AvatarOK
      <4>. QED BY <2>4, <4>1, <4>2
    <3>2. ~b.crossed => <<b.session, "teardown">> \notin b.starting
      BY <3>1
    <3>. QED BY <3>1, <3>2 DEF AvatarOK
  <2>. QED BY <2>3, <2>5
<1>7. ASSUME NEW n \in Clients, ClientStarted(n)
      PROVE  avatar' \in AvatarRec /\ AvatarOK(avatar')
  <2>1. PICK run \in SUBSET Clients, ready \in BOOLEAN :
          /\ run = IF a.session = n THEN a.running ELSE a.running \ {n}
          /\ ready = IF a.session = n THEN TRUE ELSE a.ready
    BY <1>3
  <2>2. /\ <<n, "start">> \in a.starting
        /\ avatar' = [a EXCEPT !.starting = a.starting \ {<<n, "start">>},
                               !.running = run, !.ready = ready]
    BY <1>1, <1>7, <2>1 DEF ClientStarted
  <2>3. PICK b \in AvatarRec : b = avatar'
    BY <1>3, <2>2 DEF AvatarRec
  <2>4. /\ b.session = a.session /\ b.client = a.client /\ b.ready = ready
        /\ b.crossed = a.crossed /\ b.starting = a.starting \ {<<n, "start">>}
        /\ b.running = run
    BY <2>2, <2>3 DEF AvatarRec
  <2>5. AvatarOK(b)
    <3>1. ASSUME ~b.crossed
          PROVE  b.starting = {} /\ b.running = {b.session} /\ b.client = b.session
      <4>1. a.session # 0 /\ a.starting = {<<n, "start">>} /\ n = a.session
        BY <1>2, <2>2, <2>4, <3>1 DEF AvatarOK
      <4>2. a.running = {a.session} /\ a.client = a.session
        BY <1>2, <2>4, <3>1, <4>1 DEF AvatarOK
      <4>. QED BY <2>1, <2>4, <4>1, <4>2
    <3>. QED BY <3>1 DEF AvatarOK
  <2>. QED BY <2>3, <2>5
<1>8. ASSUME NEW n \in Clients, ClientFails(n)
      PROVE  avatar' \in AvatarRec /\ AvatarOK(avatar')
  <2>1. /\ \E at \in {"teardown", "start"} : <<n, at>> \in a.starting
        /\ avatar' = [a EXCEPT !.starting = {s \in a.starting : s[1] # n}, !.ready = FALSE,
                               !.running = a.running \ {n}]
    BY <1>1, <1>8 DEF ClientFails
  <2>2. PICK b \in AvatarRec : b = avatar'
    BY <1>3, <2>1 DEF AvatarRec
  <2>3. /\ b.session = a.session /\ b.client = a.client /\ b.ready = FALSE
        /\ b.crossed = a.crossed /\ b.starting = {s \in a.starting : s[1] # n}
        /\ b.running = a.running \ {n}
    BY <2>1, <2>2 DEF AvatarRec
  <2>4. AvatarOK(b)
    <3>1. ASSUME ~b.crossed
          PROVE  b.starting = {} /\ b.running = {}
      <4>1. PICK at \in {"teardown", "start"} : <<n, at>> \in a.starting
        BY <2>1
      <4>2. a.session # 0 /\ a.starting = {<<n, at>>} /\ n = a.session
        BY <1>2, <2>3, <3>1, <4>1 DEF AvatarOK
      <4>3. a.running \subseteq {n}
        BY <1>2, <2>3, <3>1, <4>1, <4>2 DEF AvatarOK
      <4>. QED BY <2>3, <4>2, <4>3
    <3>. QED BY <2>3, <3>1 DEF AvatarOK
  <2>. QED BY <2>2, <2>4
<1>. QED BY <1>4, <1>5, <1>6, <1>7, <1>8

\* The invariant holds at the start.
LEMMA MediaInitSafe ==
  ASSUME MediaInit
  PROVE  MediaInv
<1>1. /\ wireOut = [turn |-> 0, sent |-> 0, open |-> FALSE] /\ decoding = {}
      /\ player = [active |-> 0, queue |-> <<>>, source |-> 0, buffer |-> 0, busy |-> FALSE]
      /\ played = [t \in Turns0 |-> <<>>] /\ missed = {}
      /\ avatar = [session |-> 0, client |-> 0, ready |-> FALSE, starting |-> {},
                   running |-> {}, asked |-> 0, crossed |-> FALSE]
  BY DEF MediaInit
<1>2. 0 \in 0..MaxTurns /\ 0 \in 0..MaxFrames /\ 0 \in 0..MaxClients /\ <<>> \in Seq(Frames)
  BY MediaCounts
<1>3. wireOut \in WireRec /\ player \in PlayerRec /\ avatar \in AvatarRec
  BY <1>1, <1>2 DEF WireRec, PlayerRec, AvatarRec
<1>4. AvatarOK(avatar)
  BY <1>1 DEF AvatarOK
<1>5. QueueOK(0, 0, {}, <<>>) /\ DecodingOK(0, 0, {}) /\ MissedOK(player, {})
  BY <1>1 DEF QueueOK, DecodingOK, MissedOK
<1>6. \A t \in Turns0 : PlayedOK(0, 0, {}, <<>>, t, <<>>)
  BY DEF PlayedOK
<1>7. (1..0) = {}
  OBVIOUS
<1>. QED BY <1>1, <1>2, <1>3, <1>4, <1>5, <1>6, <1>7 DEF MediaInv, AudioInv

\* A frame or a turn leaves the avatar alone, and the avatar the audio.
LEMMA MediaStepSafe ==
  ASSUME MediaInv, [MediaNext]_mediaVars
  PROVE  MediaInv'
<1>0. AudioInv /\ avatar \in AvatarRec /\ AvatarOK(avatar)
  BY DEF MediaInv
<1>1. ASSUME \/ OnTtsStart \/ SourceOpens \/ FrameArrives \/ UpdateEnd \/ OnTtsEnd \/ StopPlayback
             \/ \E f \in Frames : OnAudioChunk(f)
      PROVE  MediaInv'
  <2>1. AudioInv'
    BY <1>0, <1>1, StartSafe, OpensSafe, ArrivesSafe, UpdateSafe, EndSafe, StopSafe, ChunkSafe
  <2>2. avatar' = avatar
    BY <1>1 DEF OnTtsStart, SourceOpens, FrameArrives, UpdateEnd, OnTtsEnd, StopPlayback,
                OnAudioChunk
  <2>. QED BY <1>0, <2>1, <2>2 DEF MediaInv
<1>2. ASSUME \/ HandleReady \/ CloseAvatar
             \/ \E n \in Clients : CreateClient(n) \/ ClientStarted(n) \/ ClientFails(n)
      PROVE  MediaInv'
  <2>1. avatar' \in AvatarRec /\ AvatarOK(avatar')
    BY <1>0, <1>2, AvatarSafe
  <2>2. UNCHANGED <<wireOut, decoding, player, played, missed>>
    BY <1>2 DEF HandleReady, CloseAvatar, CreateClient, ClientStarted, ClientFails
  <2>3. AudioInv'
    BY <1>0, <2>2 DEF AudioInv
  <2>. QED BY <2>1, <2>3 DEF MediaInv
<1>3. CASE UNCHANGED mediaVars
  BY <1>0, <1>3 DEF mediaVars, MediaInv, AudioInv
<1>. QED BY <1>1, <1>2, <1>3 DEF MediaNext

\* For every number of turns, frames and clients, a media source plays the
\* frames of its own turn, each once and in order, and the avatar that takes
\* the audio is the session's (useTtsPlayer, the digital human's client).
THEOREM PlaybackPlaysItsTurn == MediaSpec => []PlaysOwnTurn
<1>1. MediaInit => MediaInv
  BY MediaInitSafe
<1>2. MediaInv /\ [MediaNext]_mediaVars => MediaInv'
  BY MediaStepSafe
<1>. QED BY <1>1, <1>2, MediaPlaysItsTurn, PTL DEF MediaSpec

-----------------------------------------------------------------------------
(***************************************************************************)
(* That a sentence is heard once. What was heard is the frames that came,  *)
(* in order, up to where the call is; a voice that is ready is the one of  *)
(* the last upload, and a timer left is of the sample that is in training. *)
(***************************************************************************)

SynthRec == [mode : Transports, came : 0..Sound0, earlier : 0..Sound0, aborted : BOOLEAN,
             at : {"none", "connecting", "open", "started", "stream", "sse", "plain",
                   "download", "resolved", "rejected", "died"}]
CloneRec == [status : {"none", "training", "ready", "failed"}, upload : 0..MaxUploads,
             voice : 0..MaxUploads, timers : SUBSET Uploads, sweeps : SUBSET Uploads,
             next : 0..MaxUploads]

\* What was heard is what came on a WebSocket that was left, and what came on
\* this transport.
Silent == {"none", "connecting", "open", "stream", "plain"}
OnWs == {"none", "connecting", "open", "started"}
HeardInv(x, h) ==
  /\ \A i \in DOMAIN h : h[i] = IF i <= x.earlier THEN i ELSE i - x.earlier
  /\ x.earlier > 0 => x.mode = "auto"
  /\ x.at \in OnWs => x.earlier = 0
  /\ x.at \in Silent => Len(h) = x.earlier /\ x.came = 0
  /\ x.at \in {"started", "sse", "download"} => Len(h) = x.earlier + x.came
  /\ x.at = "resolved" /\ ~x.aborted => Len(h) = x.earlier + Sound0
\* A timer that trains is the one of the sample reported, while it trains.
CloneInv(x) ==
  /\ x.status = "ready" => x.voice = x.upload
  /\ \A u \in x.timers : x.status = "training" /\ u = x.upload
SpeechInv ==
  /\ synth \in SynthRec /\ heard \in Seq(SoundFrames) /\ clone \in CloneRec
  /\ slip \subseteq {"uploads"}
  /\ HeardInv(synth, heard)
  /\ "uploads" \notin slip => CloneInv(clone)

\* The whole sentence is heard after what was heard of it before.
LEMMA WholeSentence ==
  ASSUME NEW h \in Seq(SoundFrames), NEW e \in Nat, Len(h) = e,
         \A i \in DOMAIN h : h[i] = IF i <= e THEN i ELSE i - e
  PROVE  LET all == h \o [i \in SoundFrames |-> i] IN
         /\ all \in Seq(SoundFrames) /\ Len(all) = e + Sound0
         /\ \A i \in DOMAIN all : all[i] = IF i <= e THEN i ELSE i - e
<1>. DEFINE s == [i \in SoundFrames |-> i]
<1>1. s \in Seq(SoundFrames) /\ Len(s) = Sound0 /\ DOMAIN s = 1..Sound0
  BY SpeechCounts DEF SoundFrames
<1>2. \A i \in 1..Sound0 : s[i] = i
  BY DEF SoundFrames
<1>. HIDE DEF s
<1>3. /\ h \o s \in Seq(SoundFrames) /\ Len(h \o s) = e + Sound0
      /\ DOMAIN (h \o s) = 1..(e + Sound0) /\ DOMAIN h = 1..e
      /\ \A i \in 1..(e + Sound0) : (h \o s)[i] = IF i <= e THEN h[i] ELSE s[i - e]
  BY <1>1, SpeechCounts
<1>4. ASSUME NEW i \in 1..(e + Sound0)
      PROVE  (h \o s)[i] = IF i <= e THEN i ELSE i - e
  <2>1. CASE i <= e
    BY <1>3, <2>1
  <2>2. CASE i > e
    <3>1. i - e \in 1..Sound0
      BY <2>2, SpeechCounts
    <3>. QED BY <1>2, <1>3, <2>2, <3>1
  <2>3. i \in Nat /\ e \in Nat
    BY SpeechCounts
  <2>4. i <= e \/ i > e
    BY ONLY <2>3
  <2>. QED BY <2>1, <2>2, <2>4
<1>. QED BY <1>3, <1>4 DEF s

\* The synthesis goes on to another transport or ends.
LEMMA SynthGoes ==
  ASSUME SpeechInv, NEW at \in {"none", "connecting", "open", "started", "stream", "sse", "plain",
                   "download", "resolved", "rejected"}, Go(at)
  PROVE  /\ synth' \in SynthRec /\ synth'.at = at /\ synth'.came = 0
         /\ synth'.aborted = synth.aborted /\ synth'.mode = synth.mode
         /\ synth'.earlier = synth.earlier
<1>1. PICK y \in SynthRec : y = synth
  BY DEF SpeechInv
<1>2. synth' = [y EXCEPT !.at = at, !.came = 0]
  BY <1>1 DEF Go
<1>3. 0 \in 0..Sound0
  BY SpeechCounts
<1>. QED BY <1>1, <1>2, <1>3 DEF SynthRec

\* What the invariant says of a synthesis, its numbers as numbers.
LEMMA SynthFacts ==
  ASSUME SpeechInv
  PROVE  /\ synth \in SynthRec /\ heard \in Seq(SoundFrames) /\ Len(heard) \in Nat
         /\ synth.came \in 0..Sound0 /\ synth.came \in Nat
         /\ synth.earlier \in 0..Sound0 /\ synth.earlier \in Nat
         /\ synth.mode \in Transports /\ synth.aborted \in BOOLEAN
         /\ HeardInv(synth, heard) /\ slip \subseteq {"uploads"}
         /\ clone \in CloneRec /\ ("uploads" \notin slip => CloneInv(clone))
<1>1. synth \in SynthRec /\ heard \in Seq(SoundFrames)
  BY DEF SpeechInv
<1>2. synth.came \in 0..Sound0 /\ synth.earlier \in 0..Sound0 /\ synth.mode \in Transports
      /\ synth.aborted \in BOOLEAN
  BY <1>1 DEF SynthRec
<1>. QED BY <1>1, <1>2, SpeechCounts DEF SpeechInv

\* A step of the synthesis that leaves what was heard.
LEMMA SilentStep ==
  ASSUME SpeechInv, NEW at \in {"connecting", "open", "started", "stream", "sse", "plain",
                   "download", "resolved", "rejected"}, Go(at), heard' = heard, clone' = clone,
         slip' = slip,
         at \in OnWs => synth.earlier = 0,
         at \in Silent \cup {"started", "sse", "download"} => Len(heard) = synth.earlier,
         at = "resolved" /\ ~synth.aborted => Len(heard) = synth.earlier + Sound0
  PROVE  SpeechInv'
<1>1. /\ synth' \in SynthRec /\ synth'.at = at /\ synth'.came = 0
      /\ synth'.aborted = synth.aborted /\ synth'.mode = synth.mode
      /\ synth'.earlier = synth.earlier
  BY SynthGoes
<1>2. HeardInv(synth', heard)
  BY <1>1, SynthFacts DEF HeardInv
<1>. QED BY <1>1, <1>2, SynthFacts DEF SpeechInv

\* The WebSocket is left, with an error or for the requests.
LEMMA LeavesStep ==
  ASSUME SpeechInv, synth.at \in {"connecting", "open", "started"},
         NEW fallsBack \in BOOLEAN, fallsBack => synth.mode = "auto", LeavesWs(fallsBack)
  PROVE  SpeechInv'
<1>1. heard' = heard /\ clone' = clone /\ slip' = slip
  BY DEF LeavesWs, SameSound, SameClone
<1>2. CASE ~fallsBack
  <2>1. Go("rejected")
    BY <1>2 DEF LeavesWs
  <2>. QED BY <1>1, <2>1, SilentStep DEF OnWs, Silent
<1>3. CASE fallsBack
  <2>1. PICK y \in SynthRec : y = synth
    BY SynthFacts
  <2>2. synth' = [y EXCEPT !.at = "stream", !.came = 0, !.earlier = y.came]
    BY <1>3, <2>1 DEF LeavesWs
  <2>3. y.came \in 0..Sound0 /\ 0 \in 0..Sound0
    BY <2>1, SynthFacts, SpeechCounts
  <2>4. /\ synth' \in SynthRec /\ synth'.at = "stream" /\ synth'.came = 0
        /\ synth'.earlier = y.came /\ synth'.mode = "auto"
    BY <1>3, <2>1, <2>2, <2>3 DEF SynthRec
  <2>5. /\ y.earlier = 0 /\ Len(heard) = y.came
        /\ \A i \in DOMAIN heard : heard[i] = IF i <= 0 THEN i ELSE i - 0
    BY <2>1, SynthFacts DEF HeardInv, OnWs, Silent
  <2>6. \A i \in DOMAIN heard : i \in Nat /\ i <= Len(heard) /\ heard[i] = i
    BY <2>5, SynthFacts
  <2>7. HeardInv(synth', heard)
    BY <2>4, <2>5, <2>6 DEF HeardInv, OnWs, Silent
  <2>. QED BY <1>1, <2>4, <2>7, SynthFacts DEF SpeechInv
<1>. QED BY <1>2, <1>3

\* A frame comes.
LEMMA FrameStep ==
  ASSUME SpeechInv, synth.at \in {"started", "sse", "download"}, synth.came < Sound0,
         synth' = [synth EXCEPT !.came = @ + 1], heard' = Append(heard, synth.came + 1),
         slip' = slip, clone' = clone
  PROVE  SpeechInv'
<1>1. PICK y \in SynthRec : y = synth
  BY SynthFacts
<1>2. /\ y.came \in 0..Sound0 /\ y.came < Sound0 /\ y.came \in Nat /\ y.earlier \in Nat
      /\ HeardInv(y, heard) /\ heard \in Seq(SoundFrames)
  BY <1>1, SynthFacts
<1>3. synth' = [y EXCEPT !.came = y.came + 1]
  BY <1>1
<1>4. /\ synth' \in SynthRec /\ synth'.came = y.came + 1 /\ synth'.at = y.at
      /\ synth'.earlier = y.earlier /\ synth'.mode = y.mode
  <2>1. y.came + 1 \in 0..Sound0
    BY <1>2, SpeechCounts
  <2>2. PICK k \in 0..Sound0 : k = y.came + 1
    BY <2>1
  <2>3. synth' = [y EXCEPT !.came = k]
    BY <1>3, <2>2
  <2>4. /\ synth' \in SynthRec /\ synth'.came = k /\ synth'.at = y.at
        /\ synth'.earlier = y.earlier /\ synth'.mode = y.mode
    BY ONLY <1>1, <2>2, <2>3, y \in SynthRec DEF SynthRec
  <2>. QED BY <2>2, <2>4
<1>5. y.came + 1 \in SoundFrames
  BY <1>2, SpeechCounts DEF SoundFrames
<1>6. /\ heard' \in Seq(SoundFrames) /\ Len(heard') = Len(heard) + 1
      /\ \A i \in DOMAIN heard' : heard'[i] = IF i <= Len(heard) THEN heard[i] ELSE y.came + 1
      /\ DOMAIN heard' = 1..(Len(heard) + 1) /\ DOMAIN heard = 1..Len(heard) /\ Len(heard) \in Nat
  BY <1>1, <1>2, <1>5
<1>7. Len(heard) = y.earlier + y.came
      /\ \A i \in DOMAIN heard : heard[i] = IF i <= y.earlier THEN i ELSE i - y.earlier
  BY <1>1, <1>2 DEF HeardInv
<1>8. ASSUME NEW i \in DOMAIN heard'
      PROVE  heard'[i] = IF i <= y.earlier THEN i ELSE i - y.earlier
  <2>1. i \in 1..(Len(heard) + 1)
    BY <1>6
  <2>2. CASE i <= Len(heard)
    BY <1>6, <1>7, <2>1, <2>2
  <2>3. CASE i = Len(heard) + 1
    <3>1. heard'[i] = y.came + 1
      BY <1>6, <2>3
    <3>. QED BY <1>2, <1>7, <2>3, <3>1
  <2>. QED BY <1>6, <2>1, <2>2, <2>3
<1>9. HeardInv(synth', heard')
  BY <1>1, <1>2, <1>4, <1>6, <1>7, <1>8 DEF HeardInv, Silent, OnWs
<1>. QED BY <1>4, <1>6, <1>9, SynthFacts DEF SpeechInv

\* The whole sentence comes at once.
LEMMA WholeStep ==
  ASSUME SpeechInv, synth.at \in Silent, Go("resolved"),
         heard' = heard \o [i \in SoundFrames |-> i], slip' = slip, clone' = clone
  PROVE  SpeechInv'
<1>1. /\ synth' \in SynthRec /\ synth'.at = "resolved" /\ synth'.earlier = synth.earlier
      /\ synth'.mode = synth.mode
  BY SynthGoes
<1>2. /\ heard \in Seq(SoundFrames) /\ synth.earlier \in Nat /\ Len(heard) = synth.earlier
      /\ \A i \in DOMAIN heard :
           heard[i] = IF i <= synth.earlier THEN i ELSE i - synth.earlier
      /\ synth.earlier > 0 => synth.mode = "auto"
  BY SynthFacts DEF HeardInv
<1>3. /\ heard' \in Seq(SoundFrames) /\ Len(heard') = synth.earlier + Sound0
      /\ \A i \in DOMAIN heard' :
           heard'[i] = IF i <= synth.earlier THEN i ELSE i - synth.earlier
  BY <1>2, WholeSentence
<1>4. HeardInv(synth', heard')
  BY <1>1, <1>2, <1>3 DEF HeardInv, Silent, OnWs
<1>. QED BY <1>1, <1>3, <1>4, SynthFacts DEF SpeechInv

\* A step of the voice clone.
LEMMA CloneStep ==
  ASSUME SpeechInv, synth' = synth, heard' = heard, clone' \in CloneRec,
         slip \subseteq slip', slip' \subseteq {"uploads"},
         "uploads" \notin slip' => CloneInv(clone')
  PROVE  SpeechInv'
BY DEF SpeechInv

\* The process dies, and with it what only it knew.
LEMMA DiesStep ==
  ASSUME SpeechInv, NEW aborted \in BOOLEAN, Dies(aborted)
  PROVE  SpeechInv'
<1>1. PICK y \in SynthRec : y = synth
  BY SynthFacts
<1>2. synth' = [y EXCEPT !.at = "died", !.came = 0, !.aborted = aborted]
  BY <1>1 DEF Dies
<1>3. 0 \in 0..Sound0 /\ 0 \in 0..MaxUploads
  BY SpeechCounts
<1>4. /\ synth' \in SynthRec /\ synth'.at = "died" /\ synth'.earlier = y.earlier
      /\ synth'.mode = y.mode
  BY <1>1, <1>2, <1>3 DEF SynthRec
<1>5. heard' = heard /\ slip' = slip
  BY DEF Dies, SameSound
<1>6. HeardInv(synth', heard)
  BY <1>1, <1>4, SynthFacts DEF HeardInv, Silent, OnWs
<1>7. PICK x \in CloneRec : x = clone
  BY SynthFacts
<1>8. clone' = [x EXCEPT !.status = "none", !.upload = 0, !.timers = {}, !.sweeps = {}]
  BY <1>7 DEF Dies
<1>9. clone' \in CloneRec /\ clone'.status = "none" /\ clone'.timers = {}
  BY <1>3, <1>7, <1>8 DEF CloneRec
<1>10. CloneInv(clone')
  BY <1>9 DEF CloneInv
<1>. QED BY <1>4, <1>5, <1>6, <1>9, <1>10, SynthFacts DEF SpeechInv

\* The transports, frame by frame, and their fallbacks.
LEMMA SynthStepSafe ==
  ASSUME SpeechInv
  PROVE  /\ SynthesizeStream \/ WsTaskFinished \/ WsGarbled => SpeechInv'
         /\ WsStep("connecting", "open") \/ WsStep("open", "started") => SpeechInv'
         /\ \A known \in BOOLEAN : WsBreaks(known) \/ WsTaskFailed(known) => SpeechInv'
         /\ WsFrame \/ SseFrame \/ PipeChunk => SpeechInv'
         /\ \A how \in {"end", "error", "unsupported"} : SseEnds(how) => SpeechInv'
         /\ \A ok \in BOOLEAN : PipeEnds(ok) => SpeechInv'
<1>. USE DEF On, SameSound, SameClone
<1>1. /\ HeardInv(synth, heard) /\ synth.aborted \in BOOLEAN /\ synth.mode \in Transports
      /\ synth.came \in Nat /\ synth.earlier \in Nat /\ Len(heard) \in Nat
  BY SynthFacts
<1>2. ASSUME SynthesizeStream
      PROVE  SpeechInv'
  <2>1. PICK at \in {"resolved", "stream", "connecting"} :
          Go(at) /\ (at = "resolved" => synth.aborted)
    BY <1>1, <1>2 DEF SynthesizeStream
  <2>2. Len(heard) = synth.earlier /\ synth.earlier = 0
    BY <1>1, <1>2 DEF SynthesizeStream, HeardInv, Silent, OnWs
  <2>. QED BY <1>1, <1>2, <2>1, <2>2, SilentStep DEF SynthesizeStream
<1>3. ASSUME WsTaskFinished
      PROVE  SpeechInv'
  <2>1. Len(heard) = synth.earlier + Sound0
    BY <1>1, <1>3 DEF WsTaskFinished, HeardInv
  <2>. QED BY <1>3, <2>1, SilentStep DEF WsTaskFinished, Silent, OnWs
<1>4. ASSUME WsGarbled
      PROVE  SpeechInv'
  BY <1>1, <1>4, DiesStep DEF WsGarbled
<1>5. ASSUME NEW from \in {"connecting", "open"}, NEW to \in {"open", "started"}, WsStep(from, to)
      PROVE  SpeechInv'
  <2>1. Len(heard) = synth.earlier /\ synth.earlier = 0
    BY <1>1, <1>5 DEF WsStep, HeardInv, Silent, OnWs
  <2>. QED BY <1>5, <2>1, SilentStep DEF WsStep
<1>6. ASSUME NEW known \in BOOLEAN, WsBreaks(known) \/ WsTaskFailed(known)
      PROVE  SpeechInv'
  <2>1. PICK fallsBack \in BOOLEAN : fallsBack = (synth.mode = "auto" /\ known)
    OBVIOUS
  <2>2. synth.at \in {"connecting", "open", "started"} /\ LeavesWs(fallsBack)
    BY <1>6, <2>1 DEF WsBreaks, WsTaskFailed
  <2>3. fallsBack => synth.mode = "auto"
    BY <2>1
  <2>. QED BY <2>2, <2>3, LeavesStep
<1>7. ASSUME WsFrame \/ SseFrame \/ PipeChunk
      PROVE  SpeechInv'
  BY <1>7, FrameStep DEF WsFrame, SseFrame, PipeChunk
<1>8. ASSUME NEW how \in {"end", "error", "unsupported"}, SseEnds(how)
      PROVE  SpeechInv'
  <2>1. CASE how = "end"
    <3>1. Len(heard) = synth.earlier + Sound0
      BY <1>1, <1>8, <2>1 DEF SseEnds, HeardInv
    <3>. QED BY <1>8, <2>1, <3>1, SilentStep DEF SseEnds, Silent, OnWs
  <2>2. CASE how = "error"
    BY <1>8, <2>2, SilentStep DEF SseEnds, Silent, OnWs
  <2>3. CASE how = "unsupported"
    <3>1. Len(heard) = synth.earlier
      BY <1>1, <1>8, <2>3 DEF SseEnds, HeardInv
    <3>. QED BY <1>8, <2>3, <3>1, SilentStep DEF SseEnds, OnWs
  <2>. QED BY <2>1, <2>2, <2>3
<1>9. ASSUME NEW ok \in BOOLEAN, PipeEnds(ok)
      PROVE  SpeechInv'
  <2>1. CASE ok
    <3>1. Len(heard) = synth.earlier + Sound0
      BY <1>1, <1>9, <2>1 DEF PipeEnds, HeardInv
    <3>. QED BY <1>9, <2>1, <3>1, SilentStep DEF PipeEnds, Silent, OnWs
  <2>2. CASE ~ok
    BY <1>9, <2>2, SilentStep DEF PipeEnds, Silent, OnWs
  <2>. QED BY <2>1, <2>2
<1>. QED BY <1>2, <1>3, <1>4, <1>5, <1>6, <1>7, <1>8, <1>9

\* The answers of the plain requests, and an abort.
LEMMA AnswerStepSafe ==
  ASSUME SpeechInv
  PROVE  /\ \A k \in {"events", "unsupported", "url", "sound", "refused"} :
              HttpAnswers(k) => SpeechInv'
         /\ \A k \in {"payload", "body", "refused"} : PlainAnswers(k) => SpeechInv'
         /\ Abort \/ AbortConnecting => SpeechInv'
<1>. USE DEF On, SameSound, SameClone
<1>1. HeardInv(synth, heard)
  BY SynthFacts
<1>2. ASSUME NEW k \in {"events", "unsupported", "url", "sound", "refused"}, HttpAnswers(k)
      PROVE  SpeechInv'
  <2>1. Len(heard) = synth.earlier
    BY <1>1, <1>2 DEF HttpAnswers, HeardInv, Silent
  <2>2. CASE k = "sound"
    BY <1>2, <2>2, WholeStep DEF HttpAnswers, Silent
  <2>3. CASE k # "sound"
    <3>1. PICK at \in {"sse", "plain", "download", "rejected"} : Go(at) /\ heard' = heard
      BY <1>2, <2>3 DEF HttpAnswers
    <3>. QED BY <1>2, <2>1, <3>1, SilentStep DEF HttpAnswers, OnWs
  <2>. QED BY <2>2, <2>3
<1>3. ASSUME NEW k \in {"payload", "body", "refused"}, PlainAnswers(k)
      PROVE  SpeechInv'
  <2>1. Len(heard) = synth.earlier
    BY <1>1, <1>3 DEF PlainAnswers, HeardInv, Silent
  <2>2. CASE k = "payload"
    BY <1>3, <2>2, WholeStep DEF PlainAnswers, Silent
  <2>3. CASE k # "payload"
    <3>1. PICK at \in {"download", "rejected"} : Go(at) /\ heard' = heard
      BY <1>3, <2>3 DEF PlainAnswers
    <3>. QED BY <1>3, <2>1, <3>1, SilentStep DEF PlainAnswers, OnWs
  <2>. QED BY <2>2, <2>3
<1>4. ASSUME Abort
      PROVE  SpeechInv'
  <2>1. PICK end \in {"resolved", "rejected"} :
          synth' = [synth EXCEPT !.aborted = TRUE, !.at = end, !.came = 0]
    BY <1>4 DEF Abort
  <2>2. PICK y \in SynthRec : y = synth
    BY SynthFacts
  <2>3. /\ synth' \in SynthRec /\ synth'.at = end /\ synth'.aborted = TRUE
        /\ synth'.earlier = y.earlier /\ synth'.mode = y.mode
    <3>1. 0 \in 0..Sound0
      BY SpeechCounts
    <3>2. synth' = [y EXCEPT !.aborted = TRUE, !.at = end, !.came = 0]
      BY <2>1, <2>2
    <3>. QED BY <2>2, <3>1, <3>2 DEF SynthRec
  <2>4. HeardInv(synth', heard)
    BY <1>1, <2>2, <2>3 DEF HeardInv, Silent, OnWs
  <2>. QED BY <1>4, <2>3, <2>4, SynthFacts DEF Abort, SpeechInv
<1>5. ASSUME AbortConnecting
      PROVE  SpeechInv'
  BY <1>5, DiesStep DEF AbortConnecting
<1>. QED BY <1>2, <1>3, <1>4, <1>5

\* The voice clone and its timers.
LEMMA CloneStepSafe ==
  ASSUME SpeechInv
  PROVE  /\ CreateVoice => SpeechInv'
         /\ \A u \in Uploads : Sweep(u) => SpeechInv'
         /\ \A u \in Uploads, ok \in BOOLEAN : TrainingEnds(u, ok) => SpeechInv'
<1>1. PICK x \in CloneRec : x = clone
  BY DEF SpeechInv
<1>2. slip \subseteq {"uploads"} /\ ("uploads" \notin slip => CloneInv(x))
  BY <1>1 DEF SpeechInv
<1>3. ASSUME CreateVoice
      PROVE  SpeechInv'
  <2>1. x.next \in 0..MaxUploads /\ x.next < MaxUploads
    BY <1>1, <1>3 DEF CreateVoice, CloneRec
  <2>2. x.next + 1 \in 0..MaxUploads /\ x.next + 1 \in Uploads
    BY <2>1, SpeechCounts DEF Uploads
  <2>3. clone' = [x EXCEPT !.next = x.next + 1, !.status = "training", !.upload = x.next + 1,
                           !.timers = x.timers \cup {x.next + 1}]
    BY <1>1, <1>3 DEF CreateVoice
  <2>4. clone' \in CloneRec
    BY <2>2, <2>3 DEF CloneRec
  <2>5. clone'.status = "training" /\ clone'.upload = x.next + 1
        /\ clone'.timers = x.timers \cup {x.next + 1}
    BY <2>3 DEF CloneRec
  <2>6. "uploads" \notin slip' => x.timers = {}
    BY <1>1, <1>3 DEF CreateVoice
  <2>. QED BY <1>2, <1>3, <2>4, <2>5, <2>6, CloneStep DEF CreateVoice, CloneInv
<1>4. ASSUME NEW u \in Uploads, Sweep(u)
      PROVE  SpeechInv'
  <2>1. clone' = [x EXCEPT !.sweeps = x.sweeps \ {u},
       !.status = IF x.status \in {"ready", "failed"} THEN "none" ELSE x.status,
       !.upload = IF x.status \in {"ready", "failed"} THEN 0 ELSE x.upload]
    BY <1>1, <1>4 DEF Sweep
  <2>2. /\ clone' \in CloneRec /\ clone'.timers = x.timers /\ clone'.status # "ready"
        /\ x.status = "training" => clone'.status = "training" /\ clone'.upload = x.upload
    <3>1. 0 \in 0..MaxUploads
      BY SpeechCounts
    <3>2. PICK status \in {"none", "training", "ready", "failed"}, upload \in 0..MaxUploads :
            /\ status = IF x.status \in {"ready", "failed"} THEN "none" ELSE x.status
            /\ upload = IF x.status \in {"ready", "failed"} THEN 0 ELSE x.upload
      BY <1>1, <3>1 DEF CloneRec
    <3>3. clone' = [x EXCEPT !.sweeps = x.sweeps \ {u}, !.status = status, !.upload = upload]
      BY <2>1, <3>2
    <3>. QED BY <1>1, <3>2, <3>3 DEF CloneRec
  <2>. QED BY <1>2, <1>4, <2>2, CloneStep DEF Sweep, CloneInv
<1>5. ASSUME NEW u \in Uploads, NEW ok \in BOOLEAN, TrainingEnds(u, ok)
      PROVE  SpeechInv'
  <2>1. clone' = [x EXCEPT !.timers = x.timers \ {u},
       !.voice = IF x.status = "training" /\ ok THEN u ELSE x.voice,
       !.status = IF x.status # "training" THEN x.status ELSE IF ok THEN "ready" ELSE "failed",
       !.sweeps = IF x.status = "training" THEN x.sweeps \cup {u} ELSE x.sweeps]
    BY <1>1, <1>5 DEF TrainingEnds
  <2>2. clone' \in CloneRec
    <3>1. u \in 0..MaxUploads
      BY SpeechCounts DEF Uploads
    <3>2. PICK voice \in 0..MaxUploads, status \in {"none", "training", "ready", "failed"},
               sweeps \in SUBSET Uploads :
            /\ voice = IF x.status = "training" /\ ok THEN u ELSE x.voice
            /\ status = IF x.status # "training" THEN x.status
                       ELSE IF ok THEN "ready" ELSE "failed"
            /\ sweeps = IF x.status = "training" THEN x.sweeps \cup {u} ELSE x.sweeps
      BY <1>1, <3>1 DEF CloneRec
    <3>3. clone' = [x EXCEPT !.timers = x.timers \ {u}, !.voice = voice, !.status = status,
                             !.sweeps = sweeps]
      BY <2>1, <3>2
    <3>4. PICK timers \in SUBSET Uploads : timers = x.timers \ {u}
      BY <1>1 DEF CloneRec
    <3>5. PICK y \in CloneRec : y = [x EXCEPT !.timers = timers, !.sweeps = sweeps]
      BY <1>1 DEF CloneRec
    <3>6. PICK z \in CloneRec : z = [y EXCEPT !.voice = voice, !.status = status]
      BY <3>5 DEF CloneRec
    <3>7. clone' = z
      BY <3>3, <3>4, <3>5, <3>6
    <3>. QED BY <3>7
  <2>3. /\ clone'.timers = x.timers \ {u} /\ clone'.upload = x.upload
        /\ clone'.status = IF x.status # "training" THEN x.status ELSE IF ok THEN "ready" ELSE "failed"
        /\ clone'.voice = IF x.status = "training" /\ ok THEN u ELSE x.voice
    BY <2>1 DEF CloneRec
  <2>4. u \in x.timers
    BY <1>1, <1>5 DEF TrainingEnds
  <2>. QED BY <1>2, <1>5, <2>2, <2>3, <2>4, CloneStep DEF TrainingEnds, CloneInv
<1>. QED BY <1>3, <1>4, <1>5

\* Nothing is heard at first.
LEMMA SpeechInitSafe ==
  ASSUME SpeechInit
  PROVE  SpeechInv
<1>1. synth \in SynthRec /\ synth.at = "none" /\ synth.earlier = 0 /\ synth.came = 0
  BY SpeechCounts DEF SpeechInit, SynthRec
<1>2. clone \in CloneRec /\ CloneInv(clone)
  BY SpeechCounts DEF SpeechInit, CloneRec, CloneInv
<1>3. heard = <<>> /\ heard \in Seq(SoundFrames) /\ slip = {}
  BY DEF SpeechInit
<1>4. HeardInv(synth, heard)
  BY <1>1, <1>3 DEF HeardInv, Silent, OnWs
<1>. QED BY <1>1, <1>2, <1>3, <1>4 DEF SpeechInv

\* Every step keeps the invariant.
LEMMA SpeechStepSafe ==
  ASSUME SpeechInv, [SpeechNext]_speechVars
  PROVE  SpeechInv'
<1>1. CASE SpeechNext
  BY <1>1, SynthStepSafe, AnswerStepSafe, CloneStepSafe DEF SpeechNext
<1>2. CASE UNCHANGED speechVars
  BY <1>2 DEF speechVars, SpeechInv
<1>. QED BY <1>1, <1>2

\* What the invariant says of a sentence and of a voice.
LEMMA SpeechHeardOnce ==
  ASSUME SpeechInv
  PROVE  HeardOnce
BY DEF SpeechInv, HeardInv, CloneInv, HeardOnce, On

\* For every number of frames and of samples: a sentence is heard from its start,
\* in order and each frame once, and whole when its synthesis ends well; only
\* with TTS_TRANSPORT "auto" may a start of it come before, once, when the
\* WebSocket was left after it was heard (DashscopeTtsProvider).  A voice that is
\* ready is the one of the sample reported, unless two samples were trained at
\* once (VoiceCloneService).
THEOREM SpeechIsHeardOnce == SpeechSpec => []HeardOnce
BY SpeechInitSafe, SpeechStepSafe, SpeechHeardOnce, PTL DEF SpeechSpec

-----------------------------------------------------------------------------
(***************************************************************************)
(* The log of a conversation and its memory agree.  A row has its own item *)
(* and a number below the count of items, so that there is a next number;  *)
(* a reply is numbered after the row it answers was saved.  A turn that    *)
(* folds the window holds what will be trimmed, or the summary does.       *)
(***************************************************************************)

TalkRec == [at : {"none", "number", "row", "push", "run", "refresh", "context", "capture",
                  "capturing", "done"} \cup Folding,
            role : Roles, seq : Nat, over : Seq(Items), prev : Seq(Items), reply : BOOLEAN]
LogRec == [rows : SUBSET [item : Items, seq : Nat], deleted : BOOLEAN]
MemoryRec == [window : Seq(Items), summary : Seq(Items), pushed : SUBSET Items,
              age : [Items -> Nat], fails : Nat, open : BOOLEAN]

SavedItems(logRows) == {r.item : r \in logRows}
Unsaved == {"number", "row"}
\* What a turn may not have saved yet, and what it must have.
PlaceOK(t, s, lg) ==
  /\ <<t, "user">> \in SavedItems(lg.rows) =>
       s.at # "none" /\ ~(s.at \in Unsaved /\ s.role = "user")
  /\ <<t, "assistant">> \in SavedItems(lg.rows) =>
       s.at = "done" \/ (s.role = "assistant" /\ s.at \notin Unsaved \cup {"none"})
  /\ s.at \in {"none", "run"} => s.role = "user"
  /\ s.at = "row" /\ ~lg.deleted => s.seq <= Cardinality(SavedItems(lg.rows))
  /\ s.at = "row" /\ s.role = "assistant" =>
       \A r \in lg.rows : r.item = <<t, "user">> => r.seq < s.seq
  /\ s.at = "push" /\ ~lg.deleted => <<t, s.role>> \in SavedItems(lg.rows)
RowsOK(lg) ==
  /\ lg.deleted => lg.rows = {}
  /\ \A r, q \in lg.rows : r.item = q.item => r = q
  /\ \A r \in lg.rows : r.seq < Cardinality(SavedItems(lg.rows))
  /\ \A t \in Talks : \A r, q \in lg.rows :
       r.item = <<t, "user">> /\ q.item = <<t, "assistant">> => r.seq < q.seq
\* Numbers, unless two were read at once.
AloneAt(T, ats) == \A t, u \in Talks : T[t].at \in ats /\ T[u].at \in ats => t = u
NumbersOK(T, lg) ==
  /\ AloneAt(T, {"row"})
  /\ \A t \in Talks, r \in lg.rows : T[t].at = "row" => r.seq < T[t].seq
  /\ \A r, q \in lg.rows : r # q => r.seq # q.seq
\* What is beyond the window's limit is trimmed; before it is, it is in the
\* hand of the turn that folds, or was folded.
Members(s) == {s[i] : i \in 1..Len(s)}
Beyond(w) == {w[i] : i \in (WindowLimit + 1)..Len(w)}
FoldOK(s, w, summary, age) ==
  /\ s.at \in {"fold", "set"} => Beyond(w) \subseteq Members(s.over)
  /\ s.at = "set"  => s.prev = summary
  /\ s.at = "trim" => \A i \in Beyond(w) : age[i] # Unfolded
  /\ s.at = "seed" => summary = <<>>
\* The last lines of the summary are those that were folded last.
LinesOK(summary, age) ==
  \A i \in Items : age[i] \in 1..KeepHead =>
    /\ age[i] <= Len(summary)
    /\ summary[(Len(summary) - age[i]) + 1] = i
PushedOK(pushed, w, age) == \A i \in pushed : age[i] = Unfolded => i \in Members(w)
ContentOK(T, m) ==
  /\ AloneAt(T, Folding)
  /\ PushedOK(m.pushed, m.window, m.age)
  /\ LinesOK(m.summary, m.age)
  /\ \A t \in Talks : FoldOK(T[t], m.window, m.summary, m.age)
TalkInv ==
  /\ talk \in [Talks -> TalkRec] /\ log \in LogRec /\ memory \in MemoryRec
  /\ \A t \in Talks : PlaceOK(t, talk[t], log)
  /\ RowsOK(log)
  /\ ~log.deleted => memory.pushed \subseteq SavedItems(log.rows)
  /\ Len(memory.summary) <= SummaryLimit
  /\ "number" \notin raced => NumbersOK(talk, log)
  /\ "memory" \notin raced => ContentOK(talk, memory)

\* The limits are numbers.
LEMMA TalkNumbers ==
  /\ MaxTalks \in Nat /\ WindowLimit \in Nat /\ Threshold \in Nat
  /\ KeepHead \in Nat /\ KeepTail \in Nat /\ SummaryLimit \in Nat
  /\ KeepHead + KeepTail <= SummaryLimit
BY TalkCounts

\* The least bound of a set of numbers exists.
LEMMA LeastBound ==
  ASSUME NEW T \in SUBSET Nat, NEW b \in Nat, \A k \in T : k < b
  PROVE  \E n \in Nat : /\ n <= b /\ \A k \in T : k < n
                        /\ n = 0 \/ \E k \in T : k = n - 1
<1>1. PICK B \in SUBSET Nat : B = {n \in Nat : \A k \in T : k < n}
  OBVIOUS
<1>2. b \in B
  BY <1>1
<1>3. \E n \in B : \A m \in B : ~(<<m, n>> \in OpToRel(<, Nat))
  BY <1>2, NatLessThanWellFounded, WFMin
<1>4. PICK n \in B : \A m \in B : ~(m < n)
  BY <1>3 DEF OpToRel
<1>5. n \in Nat /\ n <= b /\ \A k \in T : k < n
  BY <1>1, <1>2, <1>4
<1>6. ASSUME n # 0
      PROVE  \E k \in T : k = n - 1
  <2>1. n - 1 \in Nat /\ n - 1 < n
    BY <1>5, <1>6
  <2>2. ~(\A k \in T : k < n - 1)
    BY <1>1, <1>4, <2>1
  <2>3. PICK k \in T : ~(k < n - 1)
    BY <2>2
  <2>. QED BY <1>5, <2>1, <2>3
<1>. QED BY <1>5, <1>6

\* Items are counted.
LEMMA ItemsAreFinite ==
  /\ IsFiniteSet(Items) /\ Cardinality(Items) = 2 * MaxTalks
  /\ \A I \in SUBSET Items : IsFiniteSet(I) /\ Cardinality(I) \in Nat /\ Cardinality(I) <= 2 * MaxTalks
<1>1. IsFiniteSet(Talks) /\ Cardinality(Talks) = MaxTalks
  BY TalkNumbers, FS_Interval DEF Talks
<1>2. IsFiniteSet(Roles) /\ Cardinality(Roles) = 2
  <2>1. IsFiniteSet({"user"}) /\ Cardinality({"user"}) = 1
    BY FS_Singleton
  <2>2. Roles = {"user"} \cup {"assistant"} /\ "assistant" \notin {"user"}
    BY DEF Roles
  <2>. QED BY <2>1, <2>2, FS_AddElement
<1>3. IsFiniteSet(Items) /\ Cardinality(Items) = MaxTalks * 2
  BY <1>1, <1>2, FS_Product DEF Items
<1>4. MaxTalks * 2 = 2 * MaxTalks
  BY TalkNumbers
<1>. QED BY <1>3, <1>4, FS_Subset, FS_CardinalityType

\* Sequences and what they hold.
LEMMA HeldByPush ==
  ASSUME NEW S, NEW w \in Seq(S), NEW x \in S
  PROVE  <<x>> \o w \in Seq(S) /\ Members(<<x>> \o w) = {x} \cup Members(w)
<1>1. /\ <<x>> \o w \in Seq(S) /\ Len(<<x>> \o w) = Len(w) + 1 /\ (<<x>> \o w)[1] = x
      /\ \A i \in 1..Len(w) : (<<x>> \o w)[i + 1] = w[i]
  OBVIOUS
<1>2. Members(<<x>> \o w) = {x} \cup Members(w)
  <2>1. ASSUME NEW y \in Members(<<x>> \o w)
        PROVE  y \in {x} \cup Members(w)
    <3>1. PICK i \in 1..(Len(w) + 1) : y = (<<x>> \o w)[i]
      BY <1>1 DEF Members
    <3>2. CASE i = 1
      BY <1>1, <3>1, <3>2
    <3>3. CASE i # 1
      <4>1. i - 1 \in 1..Len(w) /\ (i - 1) + 1 = i
        BY <3>3
      <4>2. (<<x>> \o w)[(i - 1) + 1] = w[i - 1]
        BY <1>1, <4>1
      <4>. QED BY <3>1, <4>1, <4>2 DEF Members
    <3>. QED BY <3>2, <3>3
  <2>2. ASSUME NEW y \in {x} \cup Members(w)
        PROVE  y \in Members(<<x>> \o w)
    <3>1. CASE y = x
      BY <1>1, <3>1 DEF Members
    <3>2. CASE y \in Members(w)
      <4>1. PICK i \in 1..Len(w) : y = w[i]
        BY <3>2 DEF Members
      <4>2. i + 1 \in 1..(Len(w) + 1)
        OBVIOUS
      <4>. QED BY <1>1, <4>1, <4>2 DEF Members
    <3>. QED BY <3>1, <3>2
  <2>. QED BY <2>1, <2>2
<1>. QED BY <1>1, <1>2

\* What a concatenation holds.
LEMMA HeldByConcat ==
  ASSUME NEW S, NEW w \in Seq(S), NEW q \in Seq(S)
  PROVE  w \o q \in Seq(S) /\ Members(w \o q) = Members(w) \cup Members(q)
<1>3. /\ w \o q \in Seq(S) /\ Len(w \o q) = Len(w) + Len(q)
      /\ \A i \in 1..Len(w) : (w \o q)[i] = w[i]
      /\ \A i \in 1..Len(q) : (w \o q)[Len(w) + i] = q[i]
  OBVIOUS
<1>4. Members(w \o q) = Members(w) \cup Members(q)
  <2>1. ASSUME NEW y \in Members(w \o q)
        PROVE  y \in Members(w) \cup Members(q)
    <3>1. PICK i \in 1..(Len(w) + Len(q)) : y = (w \o q)[i]
      BY <1>3 DEF Members
    <3>2. CASE i <= Len(w)
      BY <1>3, <3>1, <3>2 DEF Members
    <3>3. CASE i > Len(w)
      <4>1. i - Len(w) \in 1..Len(q) /\ Len(w) + (i - Len(w)) = i
        BY <3>3
      <4>2. (w \o q)[Len(w) + (i - Len(w))] = q[i - Len(w)]
        BY <1>3, <4>1
      <4>. QED BY <3>1, <4>1, <4>2 DEF Members
    <3>. QED BY <3>2, <3>3
  <2>2. ASSUME NEW i \in 1..Len(w)
        PROVE  w[i] \in Members(w \o q)
    <3>1. i \in 1..(Len(w) + Len(q))
      OBVIOUS
    <3>. QED BY <1>3, <3>1 DEF Members
  <2>3. ASSUME NEW i \in 1..Len(q)
        PROVE  q[i] \in Members(w \o q)
    <3>1. Len(w) + i \in 1..(Len(w) + Len(q))
      OBVIOUS
    <3>. QED BY <1>3, <3>1 DEF Members
  <2>. QED BY <2>1, <2>2, <2>3 DEF Members
<1>. QED BY <1>3, <1>4

\* What the reverse of a window holds.
LEMMA HeldByReverse ==
  ASSUME NEW S, NEW w \in Seq(S)
  PROVE  Reverse(w) \in Seq(S) /\ Len(Reverse(w)) = Len(w) /\ Members(Reverse(w)) = Members(w)
<1>5. /\ Reverse(w) \in Seq(S) /\ Len(Reverse(w)) = Len(w)
      /\ \A i \in 1..Len(w) : Reverse(w)[i] = w[(Len(w) - i) + 1] /\ (Len(w) - i) + 1 \in 1..Len(w)
  BY DEF Reverse
<1>6. Members(Reverse(w)) = Members(w)
  <2>1. ASSUME NEW i \in 1..Len(w)
        PROVE  w[i] \in Members(Reverse(w))
    <3>1. (Len(w) - i) + 1 \in 1..Len(w) /\ (Len(w) - ((Len(w) - i) + 1)) + 1 = i
      OBVIOUS
    <3>. QED BY <1>5, <3>1 DEF Members
  <2>2. ASSUME NEW i \in 1..Len(w)
        PROVE  Reverse(w)[i] \in Members(w)
    BY <1>5 DEF Members
  <2>3. Members(w) \subseteq Members(Reverse(w))
    BY <2>1 DEF Members
  <2>4. Members(Reverse(w)) \subseteq Members(w)
    BY <1>5, <2>2 DEF Members
  <2>. QED BY <2>3, <2>4
<1>. QED BY <1>5, <1>6

\* The window, and what is beyond its limit.
LEMMA WindowParts ==
  ASSUME NEW S, NEW w \in Seq(S)
  PROVE  LET over == SubSeq(w, WindowLimit + 1, Len(w))
             kept == FirstLines(w, WindowLimit)
         IN  /\ over \in Seq(S) /\ Members(over) = Beyond(w)
             /\ kept \in Seq(S) /\ Members(w) \subseteq Members(kept) \cup Beyond(w)
<1>. DEFINE over == SubSeq(w, WindowLimit + 1, Len(w))
            size == IF Len(w) < WindowLimit THEN Len(w) ELSE WindowLimit
            kept == FirstLines(w, WindowLimit)
<1>0. WindowLimit \in Nat /\ Len(w) \in Nat
  BY TalkNumbers
<1>1. ASSUME WindowLimit >= Len(w)
      PROVE  over \in Seq(S) /\ Members(over) = Beyond(w)
  <2>1. over = <<>>
    BY <1>0, <1>1
  <2>2. Beyond(w) = {}
    BY <1>0, <1>1 DEF Beyond
  <2>3. <<>> \in Seq(S) /\ Members(<<>>) = {}
    BY DEF Members
  <2>. QED BY <2>1, <2>2, <2>3
<1>2. ASSUME WindowLimit < Len(w)
      PROVE  over \in Seq(S) /\ Members(over) = Beyond(w)
  <2>1. /\ over \in Seq(S) /\ Len(over) = Len(w) - WindowLimit
        /\ \A i \in 1..(Len(w) - WindowLimit) : over[i] = w[WindowLimit + i]
    BY <1>0, <1>2
  <2>2. ASSUME NEW i \in (WindowLimit + 1)..Len(w)
        PROVE  w[i] \in Members(over)
    <3>1. i - WindowLimit \in 1..(Len(w) - WindowLimit) /\ WindowLimit + (i - WindowLimit) = i
      BY <1>0
    <3>2. over[i - WindowLimit] = w[WindowLimit + (i - WindowLimit)]
      BY <2>1, <3>1
    <3>. QED BY <2>1, <3>1, <3>2 DEF Members
  <2>3. ASSUME NEW i \in 1..(Len(w) - WindowLimit)
        PROVE  over[i] \in Beyond(w)
    <3>1. WindowLimit + i \in (WindowLimit + 1)..Len(w)
      BY <1>0
    <3>. QED BY <2>1, <3>1 DEF Beyond
  <2>4. Beyond(w) \subseteq Members(over)
    BY <2>2 DEF Beyond
  <2>5. Members(over) \subseteq Beyond(w)
    BY <2>1, <2>3 DEF Members
  <2>. QED BY <2>1, <2>4, <2>5
<1>3. size \in 0..Len(w) /\ (size = WindowLimit \/ size = Len(w))
  BY <1>0
<1>4. kept \in Seq(S) /\ Len(kept) = size /\ \A i \in 1..size : kept[i] = w[i]
  BY <1>3 DEF FirstLines
<1>5. ASSUME NEW i \in 1..Len(w)
      PROVE  w[i] \in Members(kept) \cup Beyond(w)
  <2>1. CASE i <= size
    BY <1>3, <1>4, <2>1 DEF Members
  <2>2. CASE i > size
    <3>1. i \in (WindowLimit + 1)..Len(w)
      BY <1>0, <1>3, <2>2
    <3>. QED BY <3>1 DEF Beyond
  <2>. QED BY <1>3, <2>1, <2>2
<1>6. Members(w) \subseteq Members(kept) \cup Beyond(w)
  BY <1>5 DEF Members
<1>7. over \in Seq(S) /\ Members(over) = Beyond(w)
  BY <1>0, <1>1, <1>2
<1>. QED BY <1>4, <1>6, <1>7

\* The first and the last lines of a text.
LEMMA FirstLinesAre ==
  ASSUME NEW S, NEW w \in Seq(S), NEW n \in Nat
  PROVE  /\ FirstLines(w, n) \in Seq(S)
         /\ Len(FirstLines(w, n)) <= n /\ Len(FirstLines(w, n)) <= Len(w)
         /\ \A i \in 1..Len(FirstLines(w, n)) : FirstLines(w, n)[i] = w[i]
<1>1. PICK size \in 0..Len(w) : size = (IF Len(w) < n THEN Len(w) ELSE n) /\ size <= n
  OBVIOUS
<1>2. FirstLines(w, n) = SubSeq(w, 1, size)
  BY <1>1 DEF FirstLines
<1>3. /\ SubSeq(w, 1, size) \in Seq(S) /\ Len(SubSeq(w, 1, size)) = size
      /\ \A i \in 1..size : SubSeq(w, 1, size)[i] = w[i]
  OBVIOUS
<1>. QED BY <1>1, <1>2, <1>3

LEMMA LastNumbers ==
  ASSUME NEW len \in Nat, NEW n \in Nat
  PROVE  \E size \in Nat, first \in Nat :
           /\ size = (IF len < n THEN len ELSE n)
           /\ first = (IF len < n THEN 1 ELSE (len - n) + 1)
           /\ first <= len + 1 /\ first >= 1 /\ (len - first) + 1 = size
           /\ \A k \in 1..n : k <= len =>
                /\ k <= size /\ (size - k) + 1 \in 1..size
                /\ (first + ((size - k) + 1)) - 1 = (len - k) + 1
<1>1. CASE len < n
  <2>1. /\ len = (IF len < n THEN len ELSE n) /\ 1 = (IF len < n THEN 1 ELSE (len - n) + 1)
        /\ 1 <= len + 1 /\ (len - 1) + 1 = len
    BY <1>1
  <2>2. ASSUME NEW k \in 1..n, k <= len
        PROVE  (len - k) + 1 \in 1..len /\ (1 + ((len - k) + 1)) - 1 = (len - k) + 1
    BY <2>2
  <2>. QED BY <2>1, <2>2
<1>2. CASE ~(len < n)
  <2>1. /\ n = (IF len < n THEN len ELSE n)
        /\ (len - n) + 1 = (IF len < n THEN 1 ELSE (len - n) + 1)
        /\ (len - n) + 1 \in Nat /\ (len - n) + 1 <= len + 1 /\ (len - n) + 1 >= 1
        /\ (len - ((len - n) + 1)) + 1 = n
    BY <1>2
  <2>2. ASSUME NEW k \in 1..n, k <= len
        PROVE  /\ k <= n /\ (n - k) + 1 \in 1..n
               /\ (((len - n) + 1) + ((n - k) + 1)) - 1 = (len - k) + 1
    BY <2>2
  <2>. QED BY <2>1, <2>2
<1>. QED BY <1>1, <1>2

LEMMA PartIs ==
  ASSUME NEW S, NEW w \in Seq(S), NEW first \in Nat, first >= 1, first <= Len(w) + 1
  PROVE  LET q == SubSeq(w, first, Len(w))
         IN  /\ q \in Seq(S) /\ Len(q) = (Len(w) - first) + 1
             /\ \A i \in 1..Len(q) : q[i] = w[(first + i) - 1]
OBVIOUS

LEMMA LastLinesAre ==
  ASSUME NEW S, NEW w \in Seq(S), NEW n \in Nat
  PROVE  /\ LastLines(w, n) \in Seq(S)
         /\ Len(LastLines(w, n)) = IF Len(w) < n THEN Len(w) ELSE n
         /\ \A k \in 1..n : k <= Len(w) =>
              /\ k <= Len(LastLines(w, n))
              /\ LastLines(w, n)[(Len(LastLines(w, n)) - k) + 1] = w[(Len(w) - k) + 1]
<1>0. Len(w) \in Nat
  OBVIOUS
<1>1. PICK size \in Nat, first \in Nat :
           /\ size = (IF Len(w) < n THEN Len(w) ELSE n)
           /\ first = (IF Len(w) < n THEN 1 ELSE (Len(w) - n) + 1)
           /\ first <= Len(w) + 1 /\ first >= 1 /\ (Len(w) - first) + 1 = size
           /\ \A k \in 1..n : k <= Len(w) =>
                /\ k <= size /\ (size - k) + 1 \in 1..size
                /\ (first + ((size - k) + 1)) - 1 = (Len(w) - k) + 1
  BY <1>0, LastNumbers
<1>2. LastLines(w, n) = SubSeq(w, first, Len(w))
  BY ONLY <1>1 DEF LastLines
<1>3. PICK q : q = LastLines(w, n)
  OBVIOUS
<1>4. /\ q \in Seq(S) /\ Len(q) = size
      /\ \A i \in 1..size : q[i] = w[(first + i) - 1]
  <2>1. PICK p : p = SubSeq(w, first, Len(w))
    OBVIOUS
  <2>2. /\ p \in Seq(S) /\ Len(p) = (Len(w) - first) + 1
        /\ \A i \in 1..Len(p) : p[i] = w[(first + i) - 1]
    BY <1>1, <2>1, PartIs
  <2>. QED BY ONLY <1>1, <1>2, <1>3, <2>1, <2>2
<1>5. ASSUME NEW k \in 1..n, k <= Len(w)
      PROVE  k <= size /\ q[(size - k) + 1] = w[(Len(w) - k) + 1]
  <2>1. /\ k <= size /\ (size - k) + 1 \in 1..size
        /\ (first + ((size - k) + 1)) - 1 = (Len(w) - k) + 1
    BY <1>1, <1>5
  <2>2. q[(size - k) + 1] = w[(first + ((size - k) + 1)) - 1]
    BY <1>4, <2>1
  <2>. QED BY <2>1, <2>2
<1>. QED BY <1>1, <1>3, <1>4, <1>5

\* The end of a text that goes on.
LEMMA EndsOfConcat ==
  ASSUME NEW S, NEW w \in Seq(S), NEW q \in Seq(S)
  PROVE  /\ w \o q \in Seq(S) /\ Len(w \o q) = Len(w) + Len(q)
         /\ \A k \in 1..Len(q) : (w \o q)[(Len(w \o q) - k) + 1] = q[(Len(q) - k) + 1]
         /\ \A k \in 1..Len(w) :
              (w \o q)[(Len(w \o q) - (k + Len(q))) + 1] = w[(Len(w) - k) + 1]
<1>1. /\ w \o q \in Seq(S) /\ Len(w \o q) = Len(w) + Len(q)
      /\ \A i \in 1..Len(w) : (w \o q)[i] = w[i]
      /\ \A i \in 1..Len(q) : (w \o q)[Len(w) + i] = q[i]
  OBVIOUS
<1>2. ASSUME NEW k \in 1..Len(q)
      PROVE  (w \o q)[(Len(w \o q) - k) + 1] = q[(Len(q) - k) + 1]
  <2>1. (Len(q) - k) + 1 \in 1..Len(q) /\ ((Len(w) + Len(q)) - k) + 1 = Len(w) + ((Len(q) - k) + 1)
    OBVIOUS
  <2>2. (w \o q)[Len(w) + ((Len(q) - k) + 1)] = q[(Len(q) - k) + 1]
    BY <1>1, <2>1
  <2>. QED BY <1>1, <2>1, <2>2
<1>3. ASSUME NEW k \in 1..Len(w)
      PROVE  (w \o q)[(Len(w \o q) - (k + Len(q))) + 1] = w[(Len(w) - k) + 1]
  <2>1. (Len(w) - k) + 1 \in 1..Len(w) /\ ((Len(w) + Len(q)) - (k + Len(q))) + 1 = (Len(w) - k) + 1
    OBVIOUS
  <2>. QED BY <1>1, <2>1
<1>. QED BY <1>1, <1>2, <1>3

\* A fold has a limit, ends with what it takes, and before that with the end of
\* the summary it goes on from.
FoldShape(prev, taken, fold) ==
  /\ taken \in Seq(Items) /\ fold \in Seq(Items) /\ Len(fold) <= SummaryLimit
  /\ \A k \in 1..Len(taken) :
       k <= Len(fold) /\ fold[(Len(fold) - k) + 1] = taken[(Len(taken) - k) + 1]
  /\ \A k \in 1..KeepHead : k <= Len(prev) =>
       /\ k + Len(taken) <= Len(fold)
       /\ fold[(Len(fold) - (k + Len(taken))) + 1] = prev[(Len(prev) - k) + 1]
LEMMA FoldIs ==
  ASSUME NEW prev \in Seq(Items), NEW over \in Seq(Items)
  PROVE  FoldShape(prev, Taken(prev, over), Fold(prev, over))
<1>0. /\ KeepHead \in Nat /\ KeepTail \in Nat /\ SummaryLimit \in Nat
      /\ KeepHead + KeepTail <= SummaryLimit /\ Len(prev) \in Nat /\ Len(over) \in Nat
  BY TalkNumbers
<1>1. PICK room \in Nat : room = IF prev = <<>> THEN SummaryLimit ELSE KeepTail
  BY <1>0
<1>2. PICK taken \in Seq(Items) :
        /\ taken = Taken(prev, over)
        /\ SummaryFits(prev, over) => taken = over
        /\ ~SummaryFits(prev, over) => Len(taken) <= room
  <2>1. CASE SummaryFits(prev, over)
    BY <2>1 DEF Taken
  <2>2. CASE ~SummaryFits(prev, over)
    BY <1>1, <2>2, FirstLinesAre DEF Taken
  <2>. QED BY <2>1, <2>2
<1>3. PICK head \in Seq(Items) :
        /\ head = IF SummaryFits(prev, over) THEN prev ELSE LastLines(prev, KeepHead)
        /\ \A k \in 1..KeepHead : k <= Len(prev) =>
             k <= Len(head) /\ head[(Len(head) - k) + 1] = prev[(Len(prev) - k) + 1]
        /\ ~SummaryFits(prev, over) => Len(head) <= KeepHead /\ Len(head) <= Len(prev)
  <2>1. CASE SummaryFits(prev, over)
    BY <2>1
  <2>2. CASE ~SummaryFits(prev, over)
    BY <1>0, <2>2, LastLinesAre
  <2>. QED BY <2>1, <2>2
<1>4. PICK fold \in Seq(Items) : fold = Fold(prev, over) /\ fold = head \o taken
  <2>1. head \o taken \in Seq(Items)
    BY EndsOfConcat
  <2>. QED BY <1>2, <1>3, <2>1 DEF Fold
<1>5. /\ Len(fold) = Len(head) + Len(taken)
      /\ \A k \in 1..Len(taken) : fold[(Len(fold) - k) + 1] = taken[(Len(taken) - k) + 1]
      /\ \A k \in 1..Len(head) :
           fold[(Len(fold) - (k + Len(taken))) + 1] = head[(Len(head) - k) + 1]
  BY <1>4, EndsOfConcat
<1>6. Len(fold) <= SummaryLimit
  <2>1. CASE SummaryFits(prev, over)
    BY <1>2, <1>3, <1>5, <2>1 DEF SummaryFits
  <2>2. CASE ~SummaryFits(prev, over) /\ prev = <<>>
    <3>1. Len(head) = 0 /\ Len(taken) <= SummaryLimit
      BY <1>1, <1>2, <1>3, <2>2
    <3>. QED BY <1>5, <3>1
  <2>3. CASE ~SummaryFits(prev, over) /\ prev # <<>>
    <3>1. Len(head) <= KeepHead /\ Len(taken) <= KeepTail
      BY <1>1, <1>2, <1>3, <2>3
    <3>. QED BY <1>0, <1>5, <3>1
  <2>. QED BY <2>1, <2>2, <2>3
<1>7. ASSUME NEW k \in 1..KeepHead, k <= Len(prev)
      PROVE  /\ k + Len(taken) <= Len(fold)
             /\ fold[(Len(fold) - (k + Len(taken))) + 1] = prev[(Len(prev) - k) + 1]
  <2>1. k \in 1..Len(head) /\ head[(Len(head) - k) + 1] = prev[(Len(prev) - k) + 1]
    BY <1>0, <1>3, <1>7
  <2>. QED BY <1>5, <2>1
<1>8. \A k \in 1..Len(taken) : k <= Len(fold)
  BY <1>5
<1>9. FoldShape(prev, taken, fold)
  BY <1>5, <1>6, <1>7, <1>8 DEF FoldShape
<1>. QED BY <1>2, <1>4, <1>9

\* How old a line is after a fold.
LEMMA AgesAre ==
  ASSUME NEW age \in [Items -> Nat], NEW taken \in Seq(Items), NEW over \in Seq(Items),
         NEW i \in Items
  PROVE  LET new == CapAge(Aged(age, taken, over))
         IN  /\ new \in [Items -> Nat]
             /\ i \in Members(over) => new[i] # Unfolded
             /\ new[i] = Unfolded => age[i] = Unfolded
             /\ new[i] \in 1..KeepHead =>
                  \/ new[i] <= Len(taken) /\ taken[(Len(taken) - new[i]) + 1] = i
                  \/ age[i] \in 1..KeepHead /\ new[i] = age[i] + Len(taken)
<1>0. KeepHead \in Nat /\ Old = KeepHead + 1 /\ Unfolded = 0
  BY TalkNumbers DEF Old, Unfolded
<1>1. ASSUME NEW j \in Items
      PROVE  \E a \in Nat :
               /\ a = Aged(age, taken, over)[j]
               /\ j \in Members(over) => a # 0
               /\ a = 0 => age[j] = 0
               /\ a \in 1..KeepHead =>
                    \/ a <= Len(taken) /\ taken[(Len(taken) - a) + 1] = j
                    \/ age[j] \in 1..KeepHead /\ a = age[j] + Len(taken)
  <2>1. CASE j \in ToSet(taken)
    <3>1. PICK k \in 1..Len(taken) : taken[k] = j
      BY <2>1 DEF ToSet
    <3>2. (Len(taken) - k) + 1 \in 1..Len(taken) /\ (Len(taken) - ((Len(taken) - k) + 1)) + 1 = k
      OBVIOUS
    <3>3. \E n \in 1..Len(taken) : taken[(Len(taken) - n) + 1] = j
      BY <3>1, <3>2
    <3>4. PICK a \in 1..Len(taken) :
            /\ a = CHOOSE n \in 1..Len(taken) : taken[(Len(taken) - n) + 1] = j
            /\ taken[(Len(taken) - a) + 1] = j
      BY <3>3
    <3>5. a = Aged(age, taken, over)[j]
      BY <2>1, <3>4 DEF Aged
    <3>6. a \in Nat /\ a # 0 /\ a <= Len(taken)
      OBVIOUS
    <3>. QED BY <3>4, <3>5, <3>6
  <2>2. CASE j \notin ToSet(taken) /\ j \in ToSet(over)
    <3>1. PICK k \in 1..Len(over) : over[k] = j
      BY <2>2 DEF ToSet
    <3>2. PICK a \in Nat : a = Len(over) + KeepHead /\ a > KeepHead
      BY <1>0, <3>1
    <3>3. a = Aged(age, taken, over)[j]
      BY <2>2, <3>2 DEF Aged
    <3>4. a # 0 /\ a \notin 1..KeepHead
      BY <1>0, <3>2
    <3>. QED BY <3>2, <3>3, <3>4
  <2>3. CASE j \notin ToSet(taken) /\ j \notin ToSet(over)
    <3>1. j \notin Members(over) /\ age[j] \in Nat /\ Len(taken) \in Nat
      BY <2>3 DEF ToSet, Members
    <3>2. CASE age[j] = 0
      BY <1>0, <2>3, <3>1, <3>2 DEF Aged
    <3>3. CASE age[j] # 0
      <4>1. PICK a \in Nat : a = age[j] + Len(taken) /\ a # 0
        BY <3>1, <3>3
      <4>2. a = Aged(age, taken, over)[j]
        BY <1>0, <2>3, <3>3, <4>1 DEF Aged
      <4>3. a \in 1..KeepHead => age[j] \in 1..KeepHead
        BY <1>0, <3>1, <3>3, <4>1
      <4>. QED BY <3>1, <4>1, <4>2, <4>3
    <3>. QED BY <3>2, <3>3
  <2>. QED BY <2>1, <2>2, <2>3
<1>2. PICK new : new = CapAge(Aged(age, taken, over))
  OBVIOUS
<1>3. ASSUME NEW j \in Items
      PROVE  /\ new[j] \in Nat
             /\ j \in Members(over) => new[j] # 0
             /\ new[j] = 0 => age[j] = 0
             /\ new[j] \in 1..KeepHead =>
                  \/ new[j] <= Len(taken) /\ taken[(Len(taken) - new[j]) + 1] = j
                  \/ age[j] \in 1..KeepHead /\ new[j] = age[j] + Len(taken)
  <2>1. PICK a \in Nat :
               /\ a = Aged(age, taken, over)[j]
               /\ j \in Members(over) => a # 0
               /\ a = 0 => age[j] = 0
               /\ a \in 1..KeepHead =>
                    \/ a <= Len(taken) /\ taken[(Len(taken) - a) + 1] = j
                    \/ age[j] \in 1..KeepHead /\ a = age[j] + Len(taken)
    BY <1>1
  <2>2. new[j] = IF a < Old THEN a ELSE Old
    BY <1>2, <2>1 DEF CapAge
  <2>3. CASE a < Old
    BY <2>1, <2>2, <2>3
  <2>4. CASE ~(a < Old)
    BY <1>0, <2>2, <2>4
  <2>. QED BY <2>3, <2>4
<1>4. new \in [Items -> Nat]
  <2>1. new = [j \in Items |-> new[j]]
    BY <1>2 DEF CapAge
  <2>. QED BY <1>3, <2>1
<1>. QED BY <1>0, <1>2, <1>3, <1>4

\* What a write of the summary changes.
WriteShape(m, prev, over, n) ==
  /\ n \in MemoryRec /\ n.window = m.window /\ n.pushed = m.pushed
  /\ Len(n.summary) <= SummaryLimit
  /\ \A i \in Members(over) \cap Items : n.age[i] # Unfolded
  /\ \A i \in Items : n.age[i] = Unfolded => m.age[i] = Unfolded
  /\ LinesOK(prev, m.age) => LinesOK(n.summary, n.age)
LEMMA WriteIs ==
  ASSUME NEW m \in MemoryRec, NEW prev \in Seq(Items), NEW over \in Seq(Items)
  PROVE  WriteShape(m, prev, over, Write(m, prev, over))
<1>1. PICK age \in [Items -> Nat] : age = m.age
  BY DEF MemoryRec
<1>2. PICK taken, fold :
        taken = Taken(prev, over) /\ fold = Fold(prev, over) /\ FoldShape(prev, taken, fold)
  BY FoldIs
<1>3. /\ taken \in Seq(Items) /\ fold \in Seq(Items) /\ Len(fold) <= SummaryLimit
      /\ \A k \in 1..Len(taken) :
           k <= Len(fold) /\ fold[(Len(fold) - k) + 1] = taken[(Len(taken) - k) + 1]
      /\ \A k \in 1..KeepHead : k <= Len(prev) =>
           /\ k + Len(taken) <= Len(fold)
           /\ fold[(Len(fold) - (k + Len(taken))) + 1] = prev[(Len(prev) - k) + 1]
  BY <1>2 DEF FoldShape
<1>4. PICK new : new = CapAge(Aged(age, taken, over))
  OBVIOUS
<1>5. \A i \in Items :
        /\ i \in Members(over) => new[i] # Unfolded
        /\ new[i] = Unfolded => age[i] = Unfolded
        /\ new[i] \in 1..KeepHead =>
             \/ new[i] <= Len(taken) /\ taken[(Len(taken) - new[i]) + 1] = i
             \/ age[i] \in 1..KeepHead /\ new[i] = age[i] + Len(taken)
  BY <1>3, <1>4, AgesAre
<1>6. new \in [Items -> Nat]
  <2>1. CASE Items = {}
    <3>1. \E f : f \in [Items -> Nat] /\ f = new
      BY <1>4, <2>1 DEF CapAge
    <3>. QED BY <3>1
  <2>2. CASE Items # {}
    BY <1>3, <1>4, <2>2, AgesAre
  <2>. QED BY <2>1, <2>2
<1>7. PICK n : n = Write(m, prev, over)
  OBVIOUS
<1>8. n = [m EXCEPT !.summary = fold, !.age = new]
  BY <1>1, <1>2, <1>4, <1>7 DEF Write, MemoryRec
<1>9. /\ n \in MemoryRec /\ n.window = m.window /\ n.pushed = m.pushed
      /\ n.summary = fold /\ n.age = new
  BY <1>3, <1>6, <1>8 DEF MemoryRec
<1>10. ASSUME LinesOK(prev, age), NEW i \in Items, new[i] \in 1..KeepHead
       PROVE  new[i] <= Len(fold) /\ fold[(Len(fold) - new[i]) + 1] = i
  <2>1. CASE new[i] <= Len(taken) /\ taken[(Len(taken) - new[i]) + 1] = i
    <3>1. new[i] \in 1..Len(taken)
      BY <1>10, <2>1, TalkNumbers
    <3>. QED BY <1>3, <2>1, <3>1
  <2>2. CASE age[i] \in 1..KeepHead /\ new[i] = age[i] + Len(taken)
    <3>1. age[i] <= Len(prev) /\ prev[(Len(prev) - age[i]) + 1] = i
      BY <1>10, <2>2 DEF LinesOK
    <3>. QED BY <1>3, <2>2, <3>1
  <2>. QED BY <1>5, <1>10, <2>1, <2>2
<1>11. LinesOK(prev, age) => LinesOK(fold, new)
  BY <1>10 DEF LinesOK
<1>12. WriteShape(m, prev, over, n)
  BY <1>1, <1>3, <1>5, <1>9, <1>11 DEF WriteShape
<1>. QED BY <1>7, <1>12

\* The invariant is what the property asks.
LEMMA TalkAgrees ==
  ASSUME TalkInv
  PROVE  LogAndMemoryAgree
<1>1. ASSUME NEW r \in log.rows, NEW s \in log.rows
      PROVE  /\ r.item[1] = s.item[1] /\ r.item[2] = "user" /\ s.item[2] = "assistant"
                  => r.seq < s.seq
             /\ r # s /\ "number" \notin raced => r.seq # s.seq
  <2>1. r.item \in Items /\ s.item \in Items /\ RowsOK(log)
    BY DEF TalkInv, LogRec
  <2>2. /\ r.item[1] \in Talks /\ r.item = <<r.item[1], r.item[2]>>
        /\ s.item = <<s.item[1], s.item[2]>>
    BY <2>1 DEF Items
  <2>. QED BY <2>1, <2>2 DEF RowsOK, TalkInv, NumbersOK
<1>2. /\ memory.window \in Seq(Items) /\ memory.summary \in Seq(Items)
      /\ memory.pushed \subseteq Items /\ memory.age \in [Items -> Nat]
      /\ ~log.deleted => memory.pushed \subseteq SavedItems(log.rows)
      /\ Len(memory.summary) <= SummaryLimit
  BY DEF TalkInv, MemoryRec
<1>3. ToSet(memory.window) = Members(memory.window) /\ ToSet(memory.summary) = Members(memory.summary)
  BY <1>2 DEF ToSet, Members
<1>4. ASSUME "memory" \notin raced, NEW i \in memory.pushed, memory.age[i] <= KeepHead
      PROVE  i \in Members(memory.window) \cup Members(memory.summary)
  <2>1. i \in Items /\ memory.age[i] \in Nat
    BY <1>2
  <2>2. ContentOK(talk, memory)
    BY <1>4 DEF TalkInv
  <2>3. CASE memory.age[i] = 0
    BY <2>2, <2>3 DEF ContentOK, PushedOK, Unfolded
  <2>4. CASE memory.age[i] # 0
    <3>1. memory.age[i] \in 1..KeepHead
      BY <1>4, <2>1, <2>4, TalkNumbers
    <3>2. memory.age[i] <= Len(memory.summary) /\ memory.summary[(Len(memory.summary) - memory.age[i]) + 1] = i
      BY <2>1, <2>2, <3>1 DEF ContentOK, LinesOK
    <3>3. (Len(memory.summary) - memory.age[i]) + 1 \in 1..Len(memory.summary)
      <4>1. PICK len \in Nat, a \in Nat : len = Len(memory.summary) /\ a = memory.age[i]
        BY <1>2, <2>1
      <4>2. a >= 1 /\ a <= len
        BY <3>1, <3>2, <4>1
      <4>3. (len - a) + 1 \in 1..len
        BY <4>1, <4>2
      <4>. QED BY <4>1, <4>3
    <3>. QED BY <3>2, <3>3 DEF Members
  <2>. QED BY <2>3, <2>4
<1>. QED BY <1>1, <1>2, <1>3, <1>4 DEF LogAndMemoryAgree, SavedItems

\* A turn before it starts.
LEMMA NoTalkIs ==
  /\ NoTalk \in TalkRec /\ NoTalk.at = "none" /\ NoTalk.role = "user"
  /\ <<>> \in Seq(Items)
BY DEF NoTalk, TalkRec, Roles

\* The invariant holds at the start.
LEMMA TalkInitSafe ==
  ASSUME TalkInit
  PROVE  TalkInv
<1>1. /\ log.rows = {} /\ log.deleted = FALSE /\ log \in LogRec /\ memory.pushed = {}
      /\ memory.window = <<>> /\ memory.summary = <<>> /\ memory \in MemoryRec
      /\ \A i \in Items : memory.age[i] = Unfolded
      /\ talk \in [Talks -> TalkRec] /\ \A t \in Talks : talk[t] = NoTalk
  BY NoTalkIs DEF TalkInit, LogRec, MemoryRec, Unfolded
<1>2. SavedItems(log.rows) = {}
  BY <1>1 DEF SavedItems
<1>3. \A t \in Talks : PlaceOK(t, talk[t], log)
  BY <1>1, <1>2, NoTalkIs DEF PlaceOK
<1>4. RowsOK(log) /\ NumbersOK(talk, log)
  BY <1>1, NoTalkIs DEF RowsOK, NumbersOK, AloneAt
<1>5. ContentOK(talk, memory)
  <2>1. LinesOK(memory.summary, memory.age)
    BY <1>1 DEF LinesOK, Unfolded
  <2>. QED BY <1>1, <2>1, NoTalkIs DEF ContentOK, PushedOK, AloneAt, FoldOK, Folding
<1>6. Len(memory.summary) <= SummaryLimit
  BY <1>1, TalkNumbers
<1>. QED BY <1>1, <1>3, <1>4, <1>5, <1>6 DEF TalkInv

\* What a turn holds, part by part.
LEMMA TalkIs ==
  ASSUME TalkInv, NEW t \in Talks
  PROVE  /\ talk[t] \in TalkRec /\ PlaceOK(t, talk[t], log)
         /\ "memory" \notin raced => FoldOK(talk[t], memory.window, memory.summary, memory.age)
BY DEF TalkInv, ContentOK

\* A turn moves on; neither the rows nor what the memory holds change.
LEMMA TalkStep ==
  ASSUME TalkInv, NEW t \in Talks, NEW s \in TalkRec, talk' = [talk EXCEPT ![t] = s],
         log' = log, memory' \in MemoryRec, memory'.window = memory.window,
         memory'.summary = memory.summary, memory'.pushed = memory.pushed,
         memory'.age = memory.age,
         raced \subseteq raced', PlaceOK(t, s, log),
         s.at = "row" /\ "number" \notin raced' =>
           /\ \A u \in Talks \ {t} : talk[u].at # "row"
           /\ \A r \in log.rows : r.seq < s.seq,
         s.at \in Folding /\ "memory" \notin raced' =>
           /\ \A u \in Talks \ {t} : talk[u].at \notin Folding
           /\ FoldOK(s, memory.window, memory.summary, memory.age)
  PROVE  TalkInv'
<1>1. /\ talk' \in [Talks -> TalkRec] /\ talk'[t] = s
      /\ \A u \in Talks \ {t} : talk'[u] = talk[u]
  BY DEF TalkInv
<1>2. \A u \in Talks : PlaceOK(u, talk'[u], log)
  BY <1>1, TalkIs
<1>3. ASSUME "number" \notin raced'
      PROVE  NumbersOK(talk', log)
  <2>1. NumbersOK(talk, log)
    BY <1>3 DEF TalkInv
  <2>2. AloneAt(talk', {"row"})
    BY <1>1, <1>3, <2>1 DEF NumbersOK, AloneAt
  <2>3. \A u \in Talks, r \in log.rows : talk'[u].at = "row" => r.seq < talk'[u].seq
    BY <1>1, <1>3, <2>1 DEF NumbersOK
  <2>. QED BY <2>1, <2>2, <2>3 DEF NumbersOK
<1>4. ASSUME "memory" \notin raced'
      PROVE  ContentOK(talk', memory')
  <2>1. ContentOK(talk, memory)
    BY <1>4 DEF TalkInv
  <2>2. AloneAt(talk', Folding)
    BY <1>1, <1>4, <2>1 DEF ContentOK, AloneAt
  <2>3. FoldOK(s, memory.window, memory.summary, memory.age)
    <3>1. CASE s.at \in Folding
      BY <1>4, <3>1
    <3>2. CASE s.at \notin Folding
      BY <3>2 DEF FoldOK, Folding
    <3>. QED BY <3>1, <3>2
  <2>4. \A u \in Talks : FoldOK(talk'[u], memory.window, memory.summary, memory.age)
    BY <1>1, <2>1, <2>3 DEF ContentOK
  <2>. QED BY <2>1, <2>2, <2>4 DEF ContentOK
<1>. QED BY <1>1, <1>2, <1>3, <1>4 DEF TalkInv

\* A step that races others is recorded as a race.
LEMMA RaceIs ==
  ASSUME NEW why, NEW others, Race(why, others)
  PROVE  raced \subseteq raced' /\ (why \notin raced' => others = {})
BY DEF Race

\* Where a turn may be.
LEMMA PlacesKept ==
  ASSUME NEW t \in Talks, NEW q, NEW s, NEW lg, PlaceOK(t, q, lg), q.at # "done",
         s.role = q.role, s.at \notin {"none", "number", "row", "push", "done"},
         s.at = "run" => s.role = "user"
  PROVE  PlaceOK(t, s, lg)
BY DEF PlaceOK, Unsaved

\* A turn after its end.
LEMMA DoneIs ==
  /\ [NoTalk EXCEPT !.at = "done"] \in TalkRec /\ [NoTalk EXCEPT !.at = "done"].at = "done"
  /\ \A t, lg : PlaceOK(t, [NoTalk EXCEPT !.at = "done"], lg)
BY NoTalkIs DEF NoTalk, TalkRec, PlaceOK, Unsaved

\* A turn is over, here or because its row could not be saved.
LEMMA DoneSafe ==
  ASSUME TalkInv, NEW t \in Talks, Done(t), UNCHANGED <<log, memory, raced>>
  PROVE  TalkInv'
<1>1. PICK s \in TalkRec : s = [NoTalk EXCEPT !.at = "done"]
  BY DoneIs
<1>2. s.at \notin Folding /\ s.at # "row" /\ PlaceOK(t, s, log) /\ talk' = [talk EXCEPT ![t] = s]
  BY <1>1, DoneIs DEF Folding, Done
<1>3. memory' \in MemoryRec /\ raced \subseteq raced'
  BY DEF TalkInv
<1>. QED BY <1>2, <1>3, TalkStep

\* The next number is above all numbers of the log.
LEMMA NumberSafe ==
  ASSUME TalkInv, NEW t \in Talks, GetNextMessageSeq(t)
  PROVE  TalkInv'
<1>. DEFINE Next(n) == /\ \A r \in log.rows : r.seq < n
                       /\ n = 0 \/ \E r \in log.rows : r.seq = n - 1
<1>1. log \in LogRec /\ RowsOK(log) /\ talk[t] \in TalkRec /\ PlaceOK(t, talk[t], log)
  BY TalkIs DEF TalkInv
<1>2. SavedItems(log.rows) \in SUBSET Items /\ \A r \in log.rows : r.seq \in Nat
  BY <1>1 DEF LogRec, SavedItems
<1>3. PICK b \in Nat : b = Cardinality(SavedItems(log.rows)) /\ b <= 2 * MaxTalks
  BY <1>2, ItemsAreFinite
<1>4. PICK T \in SUBSET Nat : T = {r.seq : r \in log.rows}
  BY <1>2
<1>5. \A k \in T : k < b
  BY <1>1, <1>3, <1>4 DEF RowsOK
<1>6. \E n \in Nat : /\ n <= b /\ \A k \in T : k < n
                     /\ n = 0 \/ \E k \in T : k = n - 1
  BY <1>5, LeastBound
<1>7. \E n \in 0..(2 * MaxTalks) : Next(n)
  <2>1. PICK n \in Nat : /\ n <= b /\ \A k \in T : k < n
                         /\ n = 0 \/ \E k \in T : k = n - 1
    BY <1>6
  <2>2. n \in 0..(2 * MaxTalks)
    BY <1>3, <2>1, TalkNumbers
  <2>3. \A r \in log.rows : r.seq < n
    BY <1>4, <2>1
  <2>4. n = 0 \/ \E r \in log.rows : r.seq = n - 1
    BY <1>4, <2>1
  <2>. QED BY <2>2, <2>3, <2>4
<1>8. PICK n \in 0..(2 * MaxTalks) : n = CHOOSE m \in 0..(2 * MaxTalks) : Next(m)
  BY <1>7
<1>9. Next(n)
  BY <1>7, <1>8
<1>10. n \in Nat /\ n <= b
  BY <1>1, <1>2, <1>3, <1>9, TalkNumbers DEF RowsOK
<1>11. PICK s \in TalkRec : s = [talk[t] EXCEPT !.at = "row", !.seq = n]
  BY <1>1, <1>10 DEF TalkRec
<1>12. s.at = "row" /\ s.seq = n /\ s.role = talk[t].role
  BY <1>1, <1>11 DEF TalkRec
<1>13. talk' = [talk EXCEPT ![t] = s] /\ Race("number", OtherTalks(t, {"row"}))
       /\ talk[t].at = "number" /\ UNCHANGED <<log, memory>>
  <2>1. talk' = [talk EXCEPT ![t].at = "row", ![t].seq = n]
    BY <1>8 DEF GetNextMessageSeq
  <2>. QED BY <1>11, <2>1 DEF GetNextMessageSeq, TalkInv
<1>14. PlaceOK(t, s, log)
  BY <1>1, <1>3, <1>9, <1>10, <1>12, <1>13 DEF PlaceOK, Unsaved
<1>15. raced \subseteq raced' /\ ("number" \notin raced' => OtherTalks(t, {"row"}) = {})
  BY <1>13, RaceIs
<1>16. s.at \notin Folding /\ memory' \in MemoryRec
  BY <1>12, <1>13 DEF Folding, TalkInv
<1>17. ASSUME "number" \notin raced'
       PROVE  /\ \A u \in Talks \ {t} : talk[u].at # "row"
              /\ \A r \in log.rows : r.seq < s.seq
  BY <1>9, <1>12, <1>15, <1>17 DEF OtherTalks
<1>. QED BY <1>13, <1>14, <1>15, <1>16, <1>17, TalkStep

\* Steps of a turn that leave Redis alone.
LEMMA TurnSafe ==
  ASSUME TalkInv, NEW t \in Talks
  PROVE  /\ OnTurnStart(t) => TalkInv'
         /\ AddMessageFails(t) => TalkInv'
         /\ \A reply, interrupted \in BOOLEAN : AgentEnds(t, reply, interrupted) => TalkInv'
         /\ Capture(t) => TalkInv'
         /\ Captured(t) => TalkInv'
         /\ CaptureFails(t) => TalkInv'
<1>1. talk[t] \in TalkRec /\ PlaceOK(t, talk[t], log) /\ memory \in MemoryRec
  BY TalkIs DEF TalkInv
<1>2. ASSUME OnTurnStart(t)
      PROVE  TalkInv'
  <2>1. PICK s \in TalkRec : s = [talk[t] EXCEPT !.at = "number"]
    BY <1>1 DEF TalkRec
  <2>2. s.at = "number" /\ s.role = talk[t].role /\ talk[t].at = "none"
        /\ talk' = [talk EXCEPT ![t] = s] /\ UNCHANGED <<log, memory, raced>>
    BY <1>1, <1>2, <2>1 DEF TalkRec, OnTurnStart, TalkGoes
  <2>3. PlaceOK(t, s, log)
    BY <1>1, <2>2 DEF PlaceOK, Unsaved
  <2>4. s.at \notin Folding /\ s.at # "row" /\ memory' \in MemoryRec /\ raced \subseteq raced'
    BY <1>1, <2>2 DEF Folding
  <2>. QED BY <2>2, <2>3, <2>4, TalkStep
<1>3. ASSUME AddMessageFails(t)
      PROVE  TalkInv'
  BY <1>3, DoneSafe DEF AddMessageFails
<1>4. ASSUME NEW reply \in BOOLEAN, NEW interrupted \in BOOLEAN, AgentEnds(t, reply, interrupted)
      PROVE  TalkInv'
  <2>1. CASE reply \/ ~interrupted
    <3>1. PICK s \in TalkRec : s = [NoTalk EXCEPT !.at = "number", !.role = "assistant",
                                                  !.reply = reply]
      BY NoTalkIs DEF NoTalk, TalkRec, Roles
    <3>2. s.at = "number" /\ s.role = "assistant"
      BY <3>1 DEF NoTalk
    <3>3. talk[t].at = "run" /\ talk' = [talk EXCEPT ![t] = s] /\ UNCHANGED <<log, memory, raced>>
      BY <1>4, <2>1, <3>1 DEF AgentEnds
    <3>4. PlaceOK(t, s, log)
      BY <1>1, <3>2, <3>3 DEF PlaceOK, Unsaved
    <3>5. s.at \notin Folding /\ s.at # "row" /\ memory' \in MemoryRec /\ raced \subseteq raced'
      BY <1>1, <3>2, <3>3 DEF Folding
    <3>. QED BY <3>3, <3>4, <3>5, TalkStep
  <2>2. CASE ~(reply \/ ~interrupted)
    BY <1>4, <2>2, DoneSafe DEF AgentEnds
  <2>. QED BY <2>1, <2>2
<1>5. ASSUME Capture(t)
      PROVE  TalkInv'
  <2>1. CASE longTerm.open /\ longTerm.probe # 0
    BY <1>5, <2>1, DoneSafe DEF Capture
  <2>2. CASE ~(longTerm.open /\ longTerm.probe # 0)
    <3>1. PICK s \in TalkRec : s = [talk[t] EXCEPT !.at = "capturing"]
      BY <1>1 DEF TalkRec
    <3>2. s.at = "capturing" /\ s.role = talk[t].role /\ talk[t].at = "capture"
          /\ talk' = [talk EXCEPT ![t] = s] /\ UNCHANGED <<log, memory, raced>>
      BY <1>1, <1>5, <2>2, <3>1 DEF TalkRec, Capture, TalkGoes
    <3>3. PlaceOK(t, s, log)
      BY <1>1, <3>2, PlacesKept
    <3>4. s.at \notin Folding /\ s.at # "row" /\ memory' \in MemoryRec /\ raced \subseteq raced'
      BY <1>1, <3>2 DEF Folding
    <3>. QED BY <3>2, <3>3, <3>4, TalkStep
  <2>. QED BY <2>1, <2>2
<1>6. ASSUME Captured(t)
      PROVE  TalkInv'
  BY <1>6, DoneSafe DEF Captured
<1>7. ASSUME CaptureFails(t)
      PROVE  TalkInv'
  BY <1>7, DoneSafe DEF CaptureFails
<1>. QED BY <1>2, <1>3, <1>4, <1>5, <1>6, <1>7

\* A command of Redis that leaves what the memory holds alone.
LEMMA CommandSafe ==
  ASSUME TalkInv, NEW t \in Talks, NEW s \in TalkRec, talk' = [talk EXCEPT ![t] = s],
         log' = log, memory' \in MemoryRec, memory'.window = memory.window,
         memory'.summary = memory.summary, memory'.pushed = memory.pushed,
         memory'.age = memory.age,
         raced \subseteq raced', s.role = talk[t].role, talk[t].at # "done",
         s.at \notin {"none", "number", "row", "push", "done"},
         s.at = "run" => s.role = "user",
         s.at \in Folding /\ "memory" \notin raced' =>
           /\ \A u \in Talks \ {t} : talk[u].at \notin Folding
           /\ FoldOK(s, memory.window, memory.summary, memory.age)
  PROVE  TalkInv'
<1>1. PlaceOK(t, s, log)
  BY TalkIs, PlacesKept
<1>. QED BY <1>1, TalkStep

\* What the circuit counts is nothing of the memory's.
LEMMA CountsOnly ==
  ASSUME NEW m \in MemoryRec
  PROVE  /\ Worked(m) \in MemoryRec /\ Worked(m).window = m.window
         /\ Worked(m).summary = m.summary /\ Worked(m).pushed = m.pushed /\ Worked(m).age = m.age
         /\ \A n \in Nat, b \in BOOLEAN :
              LET f == [m EXCEPT !.fails = n, !.open = b]
              IN  f \in MemoryRec /\ f.window = m.window /\ f.summary = m.summary /\ f.pushed = m.pushed
                  /\ f.age = m.age
<1>1. PICK f : f = Worked(m)
  OBVIOUS
<1>2. f = [m EXCEPT !.fails = 0] /\ 0 \in Nat
  BY <1>1 DEF Worked
<1>3. f \in MemoryRec
  BY <1>2 DEF MemoryRec
<1>4. /\ f.window = m.window /\ f.summary = m.summary /\ f.pushed = m.pushed
      /\ f.age = m.age
  BY <1>2 DEF MemoryRec
<1>5. ASSUME NEW n \in Nat, NEW b \in BOOLEAN
      PROVE  LET g == [m EXCEPT !.fails = n, !.open = b]
             IN  g \in MemoryRec /\ g.window = m.window /\ g.summary = m.summary /\ g.pushed = m.pushed
                 /\ g.age = m.age
  <2>1. PICK g : g = [m EXCEPT !.fails = n, !.open = b]
    OBVIOUS
  <2>2. g \in MemoryRec
    BY <2>1 DEF MemoryRec
  <2>3. /\ g.window = m.window /\ g.summary = m.summary /\ g.pushed = m.pushed
        /\ g.age = m.age
    BY <2>1 DEF MemoryRec
  <2>. QED BY <2>1, <2>2, <2>3
<1>. QED BY <1>1, <1>3, <1>4, <1>5

\* Unless the memory raced, only this turn folds.
LEMMA FoldsAlone ==
  ASSUME TalkInv, NEW t \in Talks, talk[t].at \in Folding, raced' = raced, "memory" \notin raced'
  PROVE  /\ \A u \in Talks \ {t} : talk[u].at \notin Folding
         /\ FoldOK(talk[t], memory.window, memory.summary, memory.age)
BY DEF TalkInv, ContentOK, AloneAt

\* A prefix of a window is a window.
LEMMA PrefixIs ==
  ASSUME NEW S, NEW w \in Seq(S), NEW n \in 0..Len(w)
  PROVE  SubSeq(w, 1, n) \in Seq(S)
OBVIOUS

\* Half of a number.
LEMMA HalfIs ==
  ASSUME NEW n \in Nat
  PROVE  n \div 2 \in Nat /\ n \div 2 <= n
OBVIOUS

\* The commands of Redis that only read, and its faults.
LEMMA CommandsSafe ==
  ASSUME TalkInv, NEW t \in Talks
  PROVE  /\ LRangeOverflow(t) => TalkInv'
         /\ GetSummary(t) => TalkInv'
         /\ RefreshSummary(t) => TalkInv'
         /\ SetActiveContext(t) => TalkInv'
         /\ RedisFails(t) => TalkInv'
         /\ CircuitSkips(t) => TalkInv'
<1>1. PICK q \in TalkRec : q = talk[t]
  BY TalkIs
<1>2. PICK m \in MemoryRec : m = memory
  BY DEF TalkInv
<1>3. m.window \in Seq(Items) /\ m.summary \in Seq(Items) /\ q.over \in Seq(Items)
  BY DEF MemoryRec, TalkRec
<1>4. /\ m.window = memory.window /\ m.summary = memory.summary /\ m.pushed = memory.pushed
      /\ m.age = memory.age
      /\ talk \in [Talks -> TalkRec]
  BY <1>2 DEF TalkInv
\* A turn goes on to a place where it does not fold.
<1>5. ASSUME NEW s \in TalkRec, talk' = [talk EXCEPT ![t] = s], log' = log,
             memory' = m \/ memory' = Worked(m) \/
               \E n \in Nat, b \in BOOLEAN : memory' = [m EXCEPT !.fails = n, !.open = b],
             raced \subseteq raced', s.role = q.role, q.at # "done",
             s.at \in {"run", "refresh", "context", "capture"},
             s.at = "run" => s.role = "user"
      PROVE  TalkInv'
  <2>1. /\ memory' \in MemoryRec /\ memory'.window = memory.window
        /\ memory'.summary = memory.summary /\ memory'.pushed = memory.pushed
        /\ memory'.age = memory.age
    <3>1. CASE memory' = m
      BY <1>4, <3>1
    <3>2. CASE memory' = Worked(m)
      BY <1>4, <3>2, CountsOnly
    <3>3. CASE \E n \in Nat, b \in BOOLEAN : memory' = [m EXCEPT !.fails = n, !.open = b]
      <4>1. PICK n \in Nat, b \in BOOLEAN : memory' = [m EXCEPT !.fails = n, !.open = b]
        BY <3>3
      <4>. QED BY <1>4, <4>1 DEF MemoryRec
    <3>. QED BY <1>5, <3>1, <3>2, <3>3
  <2>2. s.at \notin Folding /\ s.at \notin {"none", "number", "row", "push", "done"}
    BY <1>5 DEF Folding
  <2>. QED BY <1>1, <1>5, <2>1, <2>2, CommandSafe
<1>6. ASSUME LRangeOverflow(t)
      PROVE  TalkInv'
  <2>1. PICK over \in Seq(Items) : /\ over = SubSeq(m.window, WindowLimit + 1, Len(m.window))
                                   /\ Members(over) = Beyond(m.window)
    BY <1>3, WindowParts
  <2>2. PICK back \in Seq(Items) : back = Reverse(over) /\ Members(back) = Members(over)
    BY HeldByReverse
  <2>3. PICK at \in {"trim", "fold"} : at = IF over = <<>> THEN "trim" ELSE "fold"
    OBVIOUS
  <2>4. PICK s \in TalkRec : s = [q EXCEPT !.over = back, !.at = at]
    BY DEF TalkRec, Folding
  <2>5. s.over = back /\ s.at = at /\ s.role = q.role
    BY <2>4 DEF TalkRec
  <2>6. q.at = "overflow" /\ UNCHANGED <<log, memory, raced>>
    BY <1>1, <1>6 DEF LRangeOverflow
  <2>7. talk' = [talk EXCEPT ![t] = s]
    <3>1. talk' = [talk EXCEPT ![t].over = back, ![t].at = at]
      BY <1>2, <1>6, <2>1, <2>2, <2>3 DEF LRangeOverflow
    <3>. QED BY <1>1, <1>4, <2>4, <3>1
  <2>8. FoldOK(s, memory.window, memory.summary, memory.age)
    <3>1. at = "trim" => Beyond(m.window) = {}
      <4>1. Members(<<>>) = {}
        BY DEF Members
      <4>. QED BY <2>1, <2>3, <4>1
    <3>. QED BY <1>4, <2>1, <2>2, <2>5, <3>1 DEF FoldOK
  <2>9. "memory" \notin raced' => \A u \in Talks \ {t} : talk[u].at \notin Folding
    BY <1>1, <2>6, FoldsAlone DEF Folding
  <2>10. s.at \notin {"none", "number", "row", "push", "done", "run"}
    BY <2>5
  <2>11. memory' \in MemoryRec /\ memory' = memory
    BY <2>6 DEF TalkInv
  <2>. QED BY <1>1, <2>5, <2>6, <2>7, <2>8, <2>9, <2>10, <2>11, CommandSafe
<1>7. ASSUME GetSummary(t)
      PROVE  TalkInv'
  <2>2. PICK s \in TalkRec : s = [q EXCEPT !.prev = m.summary, !.at = "set"]
    BY <1>3 DEF TalkRec, Folding
  <2>3. s.over = q.over /\ s.prev = m.summary /\ s.at = "set" /\ s.role = q.role
    BY <2>2 DEF TalkRec
  <2>4. q.at = "fold" /\ UNCHANGED <<log, memory, raced>>
    BY <1>1, <1>7 DEF GetSummary
  <2>5. talk' = [talk EXCEPT ![t] = s]
    <3>1. talk' = [talk EXCEPT ![t].prev = memory.summary, ![t].at = "set"]
      BY <1>7 DEF GetSummary
    <3>. QED BY <1>1, <1>2, <1>4, <2>2, <3>1
  <2>6. "memory" \notin raced' => /\ \A u \in Talks \ {t} : talk[u].at \notin Folding
                                  /\ FoldOK(q, memory.window, memory.summary, memory.age)
    BY <1>1, <2>4, FoldsAlone DEF Folding
  <2>7. "memory" \notin raced' => FoldOK(s, memory.window, memory.summary, memory.age)
    BY <1>4, <2>3, <2>4, <2>6 DEF FoldOK
  <2>8. s.at \notin {"none", "number", "row", "push", "done", "run"}
    BY <2>3
  <2>9. memory' \in MemoryRec /\ memory' = memory
    BY <2>4 DEF TalkInv
  <2>. QED BY <1>1, <2>3, <2>4, <2>5, <2>6, <2>7, <2>8, <2>9, CommandSafe
<1>8. ASSUME NEW at \in {"run", "refresh", "context", "capture"}, TalkGoes(t, at), log' = log,
             memory' = m \/ memory' = Worked(m), raced \subseteq raced', q.at # "done",
             at = "run" => q.role = "user"
      PROVE  TalkInv'
  <2>1. PICK s \in TalkRec : s = [q EXCEPT !.at = at]
    BY DEF TalkRec
  <2>2. s.at = at /\ s.role = q.role
    BY <2>1 DEF TalkRec
  <2>3. talk' = [talk EXCEPT ![t] = s]
    BY <1>1, <1>4, <1>8, <2>1 DEF TalkGoes
  <2>. QED BY <1>5, <1>8, <2>2, <2>3
<1>9. ASSUME RefreshSummary(t)
      PROVE  TalkInv'
  <2>1. q.at = "refresh" /\ log' = log
    BY <1>1, <1>9 DEF RefreshSummary
  <2>2. CASE Len(memory.window) > 0 /\ memory.summary = <<>>
    <3>0. PICK size \in Nat : size = Len(m.window)
      BY <1>3
    <3>a. PICK half \in Nat : half = size \div 2 /\ half <= size
      BY HalfIs
    <3>1. PICK n \in Nat : n = IF size < 2 THEN 1 ELSE half
      OBVIOUS
    <3>b. size > 0
      BY <1>4, <2>2, <3>0
    <3>2. n <= size
      BY <3>a, <3>b, <3>1
    <3>3. PICK back \in Seq(Items) : back = Reverse(m.window) /\ Len(back) = size
      BY <1>3, <3>0, HeldByReverse
    <3>c. n \in 0..Len(back)
      BY <3>2, <3>3
    <3>4. PICK older \in Seq(Items) : older = SubSeq(back, 1, n)
      BY <3>c, PrefixIs
    <3>5. PICK s \in TalkRec : s = [q EXCEPT !.at = "seed", !.over = older]
      BY DEF TalkRec, Folding
    <3>6. s.over = older /\ s.at = "seed" /\ s.role = q.role
      BY <3>5 DEF TalkRec
    <3>7. /\ talk' = [talk EXCEPT ![t].at = "seed", ![t].over = older] /\ memory' = memory
          /\ Race("memory", OtherTalks(t, Folding))
      BY <1>2, <1>9, <2>2, <3>0, <3>a, <3>1, <3>3, <3>4 DEF RefreshSummary
    <3>8. talk' = [talk EXCEPT ![t] = s]
      BY <1>1, <1>4, <3>5, <3>7
    <3>9. raced \subseteq raced' /\ ("memory" \notin raced' => OtherTalks(t, Folding) = {})
      BY <3>7, RaceIs
    <3>10. "memory" \notin raced' => \A u \in Talks \ {t} : talk[u].at \notin Folding
      BY <3>9 DEF OtherTalks
    <3>11. FoldOK(s, memory.window, memory.summary, memory.age)
      BY <2>2, <3>6 DEF FoldOK
    <3>12. s.at \notin {"none", "number", "row", "push", "done", "run"}
      BY <3>6
    <3>13. memory' \in MemoryRec
      BY <3>7 DEF TalkInv
    <3>. QED BY <1>1, <2>1, <3>6, <3>7, <3>8, <3>9, <3>10, <3>11, <3>12, <3>13, CommandSafe
  <2>3. CASE ~(Len(memory.window) > 0 /\ memory.summary = <<>>)
    <3>1. TalkGoes(t, "context") /\ memory' = Worked(memory) /\ Race("memory", {})
      BY <1>9, <2>3 DEF RefreshSummary
    <3>2. raced \subseteq raced'
      BY <3>1, RaceIs
    <3>. QED BY <1>2, <1>8, <2>1, <3>1, <3>2
  <2>. QED BY <2>2, <2>3
<1>10. ASSUME SetActiveContext(t)
       PROVE  TalkInv'
  <2>1. q.at = "context" /\ log' = log /\ memory' = Worked(memory) /\ TalkGoes(t, "capture")
        /\ raced' = raced
    BY <1>1, <1>10 DEF SetActiveContext
  <2>. QED BY <1>2, <1>8, <2>1
<1>11. PICK at : at = CallEnds(t)
  OBVIOUS
<1>12. at \in {"run", "refresh", "context", "capture"} /\ (at = "run" => q.role = "user")
  BY <1>1, <1>11 DEF CallEnds, AfterAppend
<1>13. ASSUME RedisFails(t)
       PROVE  TalkInv'
  <2>1. PICK n \in Nat : n = IF m.fails < Threshold THEN m.fails + 1 ELSE m.fails
    BY DEF MemoryRec
  <2>2. PICK b \in BOOLEAN : b <=> (m.open \/ m.fails + 1 >= Threshold)
    OBVIOUS
  <2>3. PICK s \in TalkRec : s = [q EXCEPT !.at = at, !.over = <<>>, !.prev = <<>>]
    BY <1>12, NoTalkIs DEF TalkRec
  <2>4. s.at = at /\ s.role = q.role
    BY <2>3 DEF TalkRec
  <2>5. q.at # "done" /\ UNCHANGED <<log, raced>>
    BY <1>1, <1>13 DEF RedisFails, Calls, Folding
  <2>6. talk' = [talk EXCEPT ![t] = s]
    <3>1. talk' = [talk EXCEPT ![t].at = at, ![t].over = <<>>, ![t].prev = <<>>]
      BY <1>11, <1>13 DEF RedisFails
    <3>. QED BY <1>1, <1>4, <2>3, <3>1
  <2>7. memory' = [m EXCEPT !.fails = n, !.open = b]
    <3>1. (m.open \/ m.fails + 1 >= Threshold) \in BOOLEAN /\ (m.open \/ m.fails + 1 >= Threshold) = b
      BY <2>2 DEF MemoryRec
    <3>2. memory' = [m EXCEPT !.fails = IF m.fails < Threshold THEN m.fails + 1 ELSE m.fails,
                              !.open = m.open \/ m.fails + 1 >= Threshold]
      BY <1>2, <1>13 DEF RedisFails
    <3>. QED BY <2>1, <3>1, <3>2
  <2>. QED BY <1>5, <1>12, <2>4, <2>5, <2>6, <2>7
<1>14. ASSUME CircuitSkips(t)
       PROVE  TalkInv'
  <2>1. q.at # "done" /\ UNCHANGED <<log, memory, raced>> /\ TalkGoes(t, at)
    BY <1>1, <1>11, <1>14 DEF CircuitSkips, Calls
  <2>. QED BY <1>2, <1>8, <1>12, <2>1
<1>. QED BY <1>6, <1>7, <1>9, <1>10, <1>13, <1>14

\* A row is saved; the item it is for had none.
LEMMA AddSafe ==
  ASSUME TalkInv, NEW t \in Talks, AddMessage(t)
  PROVE  TalkInv'
<1>1. PICK q \in TalkRec : q = talk[t]
  BY TalkIs
<1>2. PICK item \in Items : item = <<t, q.role>>
  BY DEF Items, TalkRec
<1>3. PICK row \in [item : Items, seq : Nat] : row = [item |-> <<t, q.role>>, seq |-> q.seq]
  BY <1>2 DEF TalkRec
<1>4. row.item = <<t, q.role>> /\ row.seq = q.seq /\ q.role \in {"user", "assistant"}
  BY <1>3 DEF TalkRec, Roles
<1>5. q.at = "row" /\ ~log.deleted /\ UNCHANGED <<memory, raced>>
  BY <1>1 DEF AddMessage
<1>6. PICK lg \in LogRec : lg = [log EXCEPT !.rows = log.rows \cup {row}]
  BY DEF TalkInv, LogRec
<1>7. log' = lg /\ lg.rows = log.rows \cup {row} /\ lg.deleted = FALSE /\ lg.deleted = log.deleted
  BY <1>1, <1>3, <1>5, <1>6 DEF AddMessage, TalkInv, LogRec
<1>8. PICK s \in TalkRec : /\ talk' = [talk EXCEPT ![t] = s]
                           /\ (s.at = "push" /\ s.role = q.role) \/ (s.at = "done" /\ s.role = "user")
  <2>1. CASE q.role = "user" \/ q.reply
    <3>1. PICK s \in TalkRec : s = [NoTalk EXCEPT !.at = "push", !.role = q.role]
      BY NoTalkIs DEF NoTalk, TalkRec
    <3>2. s.at = "push" /\ s.role = q.role
      BY <3>1 DEF NoTalk
    <3>. QED BY <1>1, <2>1, <3>1, <3>2 DEF AddMessage
  <2>2. CASE ~(q.role = "user" \/ q.reply)
    <3>1. PICK s \in TalkRec : s = [NoTalk EXCEPT !.at = "done"]
      BY DoneIs
    <3>2. s.at = "done" /\ s.role = "user"
      BY <3>1 DEF NoTalk
    <3>. QED BY <1>1, <2>2, <3>1, <3>2 DEF AddMessage, Done
  <2>. QED BY <2>1, <2>2
<1>9. /\ talk' \in [Talks -> TalkRec] /\ talk'[t] = s
      /\ \A u \in Talks \ {t} : talk'[u] = talk[u]
  BY <1>8 DEF TalkInv
<1>10. PICK I \in SUBSET Items : I = SavedItems(log.rows)
  <2>1. \A r \in log.rows : r.item \in Items
    BY DEF TalkInv, LogRec
  <2>. QED BY <2>1 DEF SavedItems
<1>11. SavedItems(lg.rows) = I \cup {item}
  BY <1>2, <1>4, <1>7, <1>10 DEF SavedItems
<1>12. PlaceOK(t, q, log) /\ RowsOK(log) /\ log \in LogRec
  BY <1>1, TalkIs DEF TalkInv
<1>13. item \notin I /\ (q.role = "user" => <<t, "assistant">> \notin I)
  BY <1>2, <1>4, <1>5, <1>10, <1>12 DEF PlaceOK, Unsaved
<1>14. PICK n \in Nat : n = Cardinality(I)
  BY ItemsAreFinite
<1>15. Cardinality(I \cup {item}) = n + 1
  BY <1>13, <1>14, ItemsAreFinite, FS_AddElement
<1>16. q.seq \in Nat /\ q.seq <= n
  BY <1>5, <1>10, <1>12, <1>14 DEF PlaceOK, TalkRec
<1>17. \A r \in log.rows : r.item \in I /\ r.seq \in Nat /\ r.seq < n
  BY <1>10, <1>12, <1>14 DEF RowsOK, LogRec, SavedItems
<1>18. \A u \in Talks : PlaceOK(u, talk'[u], lg)
  <2>1. PlaceOK(t, s, lg)
    <3>1. <<t, "user">> \in SavedItems(lg.rows) => s.at # "none" /\ s.at \notin Unsaved
      BY <1>8 DEF Unsaved
    <3>2. <<t, "assistant">> \in SavedItems(lg.rows) =>
            s.at = "done" \/ (s.role = "assistant" /\ s.at \notin Unsaved \cup {"none"})
      BY <1>2, <1>4, <1>8, <1>11, <1>13 DEF Unsaved
    <3>3. s.at = "push" => <<t, s.role>> \in SavedItems(lg.rows)
      BY <1>2, <1>8, <1>11
    <3>. QED BY <1>8, <3>1, <3>2, <3>3 DEF PlaceOK
  <2>2. ASSUME NEW u \in Talks \ {t}
        PROVE  PlaceOK(u, talk[u], lg)
    <3>1. PlaceOK(u, talk[u], log) /\ talk[u] \in TalkRec
      BY TalkIs
    <3>2. \A role \in Roles : <<u, role>> \in SavedItems(lg.rows) <=> <<u, role>> \in I
      BY <1>2, <1>11
    <3>3. \A r \in lg.rows : r.item = <<u, "user">> => r \in log.rows
      BY <1>4, <1>7
    <3>4. talk[u].seq \in Nat /\ talk[u].role \in Roles /\ "user" \in Roles /\ "assistant" \in Roles
      BY <3>1 DEF TalkRec, Roles
    <3>5. talk[u].at = "row" /\ ~lg.deleted => talk[u].seq <= Cardinality(SavedItems(lg.rows))
      BY <1>5, <1>10, <1>11, <1>14, <1>15, <3>1, <3>4 DEF PlaceOK
    <3>. QED BY <1>7, <1>10, <3>1, <3>2, <3>3, <3>4, <3>5 DEF PlaceOK
  <2>. QED BY <1>9, <2>1, <2>2
<1>19. RowsOK(lg)
  <2>1. \A r, p \in lg.rows : r.item = p.item => r = p
    <3>1. \A r, p \in log.rows : r.item = p.item => r = p
      BY <1>12 DEF RowsOK
    <3>2. \A r \in log.rows : r.item # row.item
      BY <1>2, <1>4, <1>13, <1>17
    <3>. QED BY <1>7, <3>1, <3>2
  <2>2. \A r \in lg.rows : r.seq < Cardinality(SavedItems(lg.rows))
    <3>1. Cardinality(SavedItems(lg.rows)) = n + 1
      BY <1>11, <1>15
    <3>2. \A r \in log.rows : r.seq < n + 1
      BY <1>17
    <3>3. row.seq < n + 1
      BY <1>4, <1>16
    <3>. QED BY <1>7, <3>1, <3>2, <3>3
  <2>3. ASSUME NEW u \in Talks, NEW r \in lg.rows, NEW p \in lg.rows,
               r.item = <<u, "user">>, p.item = <<u, "assistant">>
        PROVE  r.seq < p.seq
    <3>1. CASE r \in log.rows /\ p \in log.rows
      BY <1>12, <2>3, <3>1 DEF RowsOK
    <3>2. CASE p = row
      <4>1. u = t /\ q.role = "assistant" /\ r \in log.rows
        BY <1>4, <1>7, <2>3, <3>2
      <4>. QED BY <1>4, <1>5, <1>12, <2>3, <3>2, <4>1 DEF PlaceOK
    <3>3. CASE r = row /\ p \in log.rows
      <4>1. u = t /\ q.role = "user" /\ <<t, "assistant">> \in I
        BY <1>4, <1>17, <2>3, <3>3
      <4>. QED BY <1>13, <4>1
    <3>. QED BY <1>7, <3>1, <3>2, <3>3
  <2>. QED BY <1>7, <2>1, <2>2, <2>3 DEF RowsOK
<1>20. ASSUME "number" \notin raced
       PROVE  NumbersOK(talk', lg)
  <2>1. NumbersOK(talk, log)
    BY <1>20 DEF TalkInv
  <2>2. \A u \in Talks : talk'[u].at # "row"
    BY <1>1, <1>5, <1>8, <1>9, <2>1 DEF NumbersOK, AloneAt
  <2>3. \A r \in log.rows : r.seq < q.seq
    BY <1>1, <1>5, <2>1 DEF NumbersOK
  <2>4. \A r, p \in lg.rows : r # p => r.seq # p.seq
    BY <1>4, <1>7, <1>16, <1>17, <2>1, <2>3 DEF NumbersOK
  <2>. QED BY <2>2, <2>4 DEF NumbersOK, AloneAt
<1>21. ASSUME "memory" \notin raced
       PROVE  ContentOK(talk', memory)
  <2>1. ContentOK(talk, memory)
    BY <1>21 DEF TalkInv
  <2>2. s.at \notin Folding
    BY <1>8 DEF Folding
  <2>. QED BY <1>9, <2>1, <2>2 DEF ContentOK, AloneAt, FoldOK, Folding
<1>22. memory.pushed \subseteq SavedItems(lg.rows)
  BY <1>5, <1>10, <1>11 DEF TalkInv
<1>. QED BY <1>5, <1>7, <1>9, <1>18, <1>19, <1>20, <1>21, <1>22 DEF TalkInv

\* The conversation is deleted with its memory.
LEMMA DeleteSafe ==
  ASSUME TalkInv, DeleteConversation
  PROVE  TalkInv'
<1>1. log'.rows = {} /\ log'.deleted = TRUE /\ log' \in LogRec /\ UNCHANGED <<talk, memory, raced>>
  BY DEF DeleteConversation, LogRec
<1>2. SavedItems(log'.rows) = {}
  BY <1>1 DEF SavedItems
<1>3. \A t \in Talks : PlaceOK(t, talk[t], log')
  BY <1>1, <1>2, TalkIs DEF PlaceOK
<1>4. RowsOK(log')
  BY <1>1, <1>2 DEF RowsOK
<1>5. "number" \notin raced => NumbersOK(talk, log')
  BY <1>1 DEF TalkInv, NumbersOK
<1>. QED BY <1>1, <1>3, <1>4, <1>5 DEF TalkInv

\* A command writes the window or the summary, and its turn goes on.
LEMMA MemoryStep ==
  ASSUME TalkInv, NEW t \in Talks, NEW s \in TalkRec, talk' = [talk EXCEPT ![t] = s],
         log' = log, memory' \in MemoryRec, raced \subseteq raced', PlaceOK(t, s, log),
         s.at # "row",
         ~log.deleted => memory'.pushed \subseteq SavedItems(log.rows),
         Len(memory'.summary) <= SummaryLimit,
         "memory" \notin raced' =>
           /\ \A u \in Talks \ {t} : talk[u].at \notin Folding
           /\ PushedOK(memory'.pushed, memory'.window, memory'.age)
           /\ LinesOK(memory'.summary, memory'.age)
           /\ FoldOK(s, memory'.window, memory'.summary, memory'.age)
  PROVE  TalkInv'
<1>1. /\ talk' \in [Talks -> TalkRec] /\ talk'[t] = s
      /\ \A u \in Talks \ {t} : talk'[u] = talk[u]
  BY DEF TalkInv
<1>2. \A u \in Talks : PlaceOK(u, talk'[u], log)
  BY <1>1, TalkIs
<1>3. ASSUME "number" \notin raced'
      PROVE  NumbersOK(talk', log)
  <2>1. NumbersOK(talk, log)
    BY <1>3 DEF TalkInv
  <2>. QED BY <1>1, <2>1 DEF NumbersOK, AloneAt
<1>4. ASSUME "memory" \notin raced'
      PROVE  ContentOK(talk', memory')
  <2>1. ASSUME NEW u \in Talks \ {t}
        PROVE  talk'[u].at \notin Folding /\ FoldOK(talk'[u], memory'.window, memory'.summary, memory'.age)
    BY <1>1, <1>4 DEF FoldOK, Folding
  <2>. QED BY <1>1, <1>4, <2>1 DEF ContentOK, AloneAt
<1>. QED BY <1>1, <1>2, <1>3, <1>4 DEF TalkInv

\* What is beyond the limit of a window is of it.
LEMMA BeyondIs ==
  ASSUME NEW w \in Seq(Items)
  PROVE  Beyond(w) \subseteq Items
BY TalkNumbers DEF Beyond

\* The commands of Redis that write.
LEMMA WritesMemory ==
  ASSUME TalkInv, NEW t \in Talks
  PROVE  /\ LPush(t) => TalkInv'
         /\ SetSummary(t) => TalkInv'
         /\ LTrim(t) => TalkInv'
         /\ SeedSummary(t) => TalkInv'
<1>1. PICK q \in TalkRec : q = talk[t]
  BY TalkIs
<1>2. PICK m \in MemoryRec : m = memory
  BY DEF TalkInv
<1>3. /\ m.window \in Seq(Items) /\ m.summary \in Seq(Items) /\ q.over \in Seq(Items)
      /\ q.prev \in Seq(Items)
      /\ m.pushed \in SUBSET Items /\ m.age \in [Items -> Nat] /\ q.role \in Roles
  BY DEF MemoryRec, TalkRec
<1>4. /\ talk \in [Talks -> TalkRec] /\ PlaceOK(t, q, log)
      /\ ~log.deleted => m.pushed \subseteq SavedItems(log.rows)
      /\ Len(m.summary) <= SummaryLimit
      /\ "memory" \notin raced => /\ PushedOK(m.pushed, m.window, m.age)
                                 /\ LinesOK(m.summary, m.age)
  BY <1>1, <1>2, TalkIs DEF TalkInv, ContentOK
<1>5. ASSUME q.at \in Folding, raced' = raced, "memory" \notin raced'
      PROVE  /\ \A u \in Talks \ {t} : talk[u].at \notin Folding
             /\ FoldOK(q, m.window, m.summary, m.age)
  BY <1>1, <1>2, <1>5, FoldsAlone
<1>6. ASSUME LPush(t)
      PROVE  TalkInv'
  <2>1. PICK item \in Items : item = <<t, q.role>>
    BY <1>3 DEF Items
  <2>2. PICK w \in Seq(Items) : w = <<item>> \o m.window /\ Members(w) = {item} \cup Members(m.window)
    BY <1>3, HeldByPush
  <2>3. PICK n \in MemoryRec : n = [m EXCEPT !.window = w, !.pushed = m.pushed \cup {item}]
    BY <1>3 DEF MemoryRec
  <2>4. n.window = w /\ n.pushed = m.pushed \cup {item} /\ n.summary = m.summary /\ n.age = m.age
    BY <2>3 DEF MemoryRec
  <2>5. memory' = n
    BY <1>1, <1>2, <1>6, <2>1, <2>2, <2>3 DEF LPush
  <2>6. PICK s \in TalkRec : s = [q EXCEPT !.at = "overflow"]
    BY DEF TalkRec, Folding
  <2>7. s.at = "overflow" /\ s.role = q.role
    BY <2>6 DEF TalkRec
  <2>8. talk' = [talk EXCEPT ![t] = s] /\ q.at = "push" /\ log' = log
        /\ Race("memory", OtherTalks(t, Folding))
    BY <1>1, <1>4, <1>6, <2>6 DEF LPush, TalkGoes
  <2>9. PlaceOK(t, s, log)
    BY <1>4, <2>7, <2>8, PlacesKept
  <2>10. raced \subseteq raced' /\ ("memory" \notin raced' => OtherTalks(t, Folding) = {})
    BY <2>8, RaceIs
  <2>11. "memory" \notin raced' => \A u \in Talks \ {t} : talk[u].at \notin Folding
    BY <2>10 DEF OtherTalks
  <2>12. "memory" \notin raced' => /\ PushedOK(n.pushed, n.window, n.age)
                                    /\ LinesOK(n.summary, n.age)
    BY <1>4, <2>2, <2>4, <2>10 DEF PushedOK
  <2>13. FoldOK(s, n.window, n.summary, n.age)
    BY <2>7 DEF FoldOK
  <2>14. ~log.deleted => n.pushed \subseteq SavedItems(log.rows)
    BY <1>4, <2>1, <2>4, <2>8 DEF PlaceOK
  <2>15. Len(n.summary) <= SummaryLimit
    BY <1>4, <2>4
  <2>. QED BY <2>5, <2>7, <2>8, <2>9, <2>10, <2>11, <2>12, <2>13, <2>14, <2>15, MemoryStep
\* The turn that folds writes; nothing is pushed.
<1>7. ASSUME NEW n \in MemoryRec, NEW s \in TalkRec, memory' = n, n.pushed = m.pushed,
             talk' = [talk EXCEPT ![t] = s], log' = log, raced' = raced, q.at \in Folding,
             s.role = q.role, s.at \in {"trim", "run", "refresh", "context"},
             s.at = "run" => q.role = "user",
             Len(n.summary) <= SummaryLimit,
             "memory" \notin raced' /\ FoldOK(q, m.window, m.summary, m.age) =>
               /\ PushedOK(n.pushed, n.window, n.age)
               /\ LinesOK(n.summary, n.age)
               /\ s.at = "trim" => \A i \in Beyond(n.window) : n.age[i] # Unfolded
      PROVE  TalkInv'
  <2>1. PlaceOK(t, s, log)
    <3>1. q.at # "done" /\ s.at \notin {"none", "number", "row", "push", "done"}
      BY <1>7 DEF Folding
    <3>. QED BY <1>4, <1>7, <3>1, PlacesKept
  <2>2. s.at \notin {"fold", "set", "seed"} /\ s.at # "row"
    BY <1>7
  <2>3. "memory" \notin raced' =>
           /\ \A u \in Talks \ {t} : talk[u].at \notin Folding
           /\ PushedOK(n.pushed, n.window, n.age)
           /\ LinesOK(n.summary, n.age)
           /\ FoldOK(s, n.window, n.summary, n.age)
    BY <1>4, <1>5, <1>7, <2>2 DEF FoldOK
  <2>. QED BY <1>4, <1>7, <2>1, <2>2, <2>3, MemoryStep
<1>8. ASSUME SetSummary(t)
      PROVE  TalkInv'
  <2>0. PICK n : n = Write(m, q.prev, q.over) /\ WriteShape(m, q.prev, q.over, n)
    BY <1>3, WriteIs
  <2>1. n = Write(m, q.prev, q.over) /\ n \in MemoryRec
    BY <2>0 DEF WriteShape
  <2>2. /\ n.window = m.window /\ n.pushed = m.pushed /\ Len(n.summary) <= SummaryLimit
        /\ \A i \in Members(q.over) \cap Items : n.age[i] # Unfolded
        /\ \A i \in Items : n.age[i] = Unfolded => m.age[i] = Unfolded
        /\ LinesOK(q.prev, m.age) => LinesOK(n.summary, n.age)
    BY <2>0 DEF WriteShape
  <2>3. PICK s \in TalkRec : s = [q EXCEPT !.at = "trim", !.over = <<>>, !.prev = <<>>]
    BY NoTalkIs DEF TalkRec, Folding
  <2>4. s.at = "trim" /\ s.role = q.role
    BY <2>3 DEF TalkRec
  <2>5. memory' = n /\ q.at = "set" /\ log' = log /\ raced' = raced
    BY <1>1, <1>2, <1>8, <2>1 DEF SetSummary
  <2>6. talk' = [talk EXCEPT ![t] = s]
    <3>1. talk' = [talk EXCEPT ![t].at = "trim", ![t].over = <<>>, ![t].prev = <<>>]
      BY <1>8 DEF SetSummary
    <3>. QED BY <1>1, <1>4, <2>3, <3>1
  <2>7. FoldOK(q, m.window, m.summary, m.age) =>
          q.prev = m.summary /\ Beyond(m.window) \subseteq Members(q.over)
    BY <2>5 DEF FoldOK
  <2>8. q.at \in Folding
    BY <2>5 DEF Folding
  <2>9. "memory" \notin raced => PushedOK(n.pushed, n.window, n.age)
    BY <1>3, <1>4, <2>2 DEF PushedOK
  <2>10. Beyond(m.window) \subseteq Items
    BY <1>3, BeyondIs
  <2>11. "memory" \notin raced' /\ FoldOK(q, m.window, m.summary, m.age) =>
               /\ PushedOK(n.pushed, n.window, n.age)
               /\ LinesOK(n.summary, n.age)
               /\ s.at = "trim" => \A i \in Beyond(n.window) : n.age[i] # Unfolded
    BY <1>4, <2>2, <2>5, <2>7, <2>9, <2>10
  <2>. QED BY <1>7, <2>1, <2>2, <2>4, <2>5, <2>6, <2>8, <2>11
<1>9. ASSUME LTrim(t)
      PROVE  TalkInv'
  <2>1. PICK w \in Seq(Items) :
          /\ w = FirstLines(m.window, WindowLimit)
          /\ Members(m.window) \subseteq Members(w) \cup Beyond(m.window)
    BY <1>3, WindowParts
  <2>2. PICK l \in MemoryRec : l = [m EXCEPT !.window = w]
    BY DEF MemoryRec
  <2>3. PICK n \in MemoryRec : n = Worked(l)
    BY CountsOnly
  <2>4. n.summary = m.summary /\ n.window = w /\ n.pushed = m.pushed /\ n.age = m.age
    BY <2>2, <2>3 DEF MemoryRec, Worked
  <2>5. PICK at : at = AfterAppend(t)
    OBVIOUS
  <2>6. at \in {"run", "refresh"} /\ (at = "run" => q.role = "user")
    BY <1>1, <2>5 DEF AfterAppend
  <2>7. PICK s \in TalkRec : s = [q EXCEPT !.at = at]
    BY <2>6 DEF TalkRec
  <2>8. s.at = at /\ s.role = q.role
    BY <2>7 DEF TalkRec
  <2>9. memory' = n /\ q.at = "trim" /\ log' = log /\ raced' = raced
    BY <1>1, <1>2, <1>9, <2>1, <2>2, <2>3 DEF LTrim
  <2>10. talk' = [talk EXCEPT ![t] = s]
    BY <1>1, <1>4, <1>9, <2>5, <2>7 DEF LTrim, TalkGoes
  <2>11. FoldOK(q, m.window, m.summary, m.age) => \A i \in Beyond(m.window) : m.age[i] # Unfolded
    BY <2>9 DEF FoldOK
  <2>12. q.at \in Folding /\ s.at # "trim" /\ s.at \in {"trim", "run", "refresh", "context"}
    BY <2>6, <2>8, <2>9 DEF Folding
  <2>13. "memory" \notin raced' /\ FoldOK(q, m.window, m.summary, m.age) =>
               /\ PushedOK(n.pushed, n.window, n.age)
               /\ LinesOK(n.summary, n.age)
    BY <1>4, <2>1, <2>4, <2>9, <2>11 DEF PushedOK
  <2>14. Len(n.summary) <= SummaryLimit
    BY <1>4, <2>4
  <2>. QED BY <1>7, <2>4, <2>6, <2>8, <2>9, <2>10, <2>12, <2>13, <2>14
<1>10. ASSUME SeedSummary(t)
       PROVE  TalkInv'
  <2>0. PICK l : l = Write(m, <<>>, q.over) /\ WriteShape(m, <<>>, q.over, l)
    BY <1>3, NoTalkIs, WriteIs
  <2>1. l = Write(m, <<>>, q.over) /\ l \in MemoryRec
    BY <2>0 DEF WriteShape
  <2>2. PICK n \in MemoryRec : n = Worked(l)
    BY <2>1, CountsOnly
  <2>a. n.summary = l.summary /\ n.window = l.window /\ n.pushed = l.pushed /\ n.age = l.age
    BY <2>1, <2>2, CountsOnly
  <2>3. /\ n.window = m.window /\ n.pushed = m.pushed /\ Len(n.summary) <= SummaryLimit
        /\ \A i \in Items : n.age[i] = Unfolded => m.age[i] = Unfolded
        /\ LinesOK(<<>>, m.age) => LinesOK(n.summary, n.age)
    BY <2>0, <2>a DEF WriteShape
  <2>4. PICK s \in TalkRec : s = [q EXCEPT !.at = "context", !.over = <<>>]
    BY NoTalkIs DEF TalkRec
  <2>5. s.at = "context" /\ s.role = q.role
    BY <2>4 DEF TalkRec
  <2>6. memory' = n /\ q.at = "seed" /\ log' = log /\ raced' = raced
    BY <1>1, <1>2, <1>10, <2>1, <2>2 DEF SeedSummary
  <2>7. talk' = [talk EXCEPT ![t] = s]
    <3>1. talk' = [talk EXCEPT ![t].at = "context", ![t].over = <<>>]
      BY <1>10 DEF SeedSummary
    <3>. QED BY <1>1, <1>4, <2>4, <3>1
  <2>8. FoldOK(q, m.window, m.summary, m.age) => m.summary = <<>>
    BY <2>6 DEF FoldOK
  <2>9. q.at \in Folding
    BY <2>6 DEF Folding
  <2>10. "memory" \notin raced => PushedOK(n.pushed, n.window, n.age)
    BY <1>3, <1>4, <2>3 DEF PushedOK
  <2>11. "memory" \notin raced' /\ FoldOK(q, m.window, m.summary, m.age) =>
               /\ PushedOK(n.pushed, n.window, n.age)
               /\ LinesOK(n.summary, n.age)
    BY <1>4, <2>3, <2>6, <2>8, <2>10
  <2>12. s.at # "trim" /\ s.at # "run"
    BY <2>5
  <2>. QED BY <1>7, <2>3, <2>5, <2>6, <2>7, <2>9, <2>11, <2>12
<1>. QED BY <1>6, <1>8, <1>9, <1>10

\* A key of the memory expires.
LEMMA ExpirySafe ==
  ASSUME TalkInv
  PROVE  /\ WindowExpires => TalkInv'
         /\ SummaryExpires => TalkInv'
<1>1. PICK m \in MemoryRec : m = memory
  BY DEF TalkInv
<1>2. <<>> \in Seq(Items) /\ m.pushed \subseteq Items /\ Members(<<>>) = {}
  BY NoTalkIs DEF MemoryRec, Members
\* No turn folds, or it is recorded as a race.
<1>3. ASSUME Race("memory", Folders)
      PROVE  /\ raced \subseteq raced'
             /\ "memory" \notin raced' => \A t \in Talks : talk[t].at \notin Folding
  BY <1>3, RaceIs DEF Folders
<1>4. ASSUME NEW n \in MemoryRec, memory' = n, n.pushed \subseteq m.pushed, UNCHANGED <<talk, log>>,
             Race("memory", Folders), Len(n.summary) <= SummaryLimit,
             "memory" \notin raced => /\ PushedOK(n.pushed, n.window, n.age)
                                     /\ LinesOK(n.summary, n.age)
      PROVE  TalkInv'
  <2>1. /\ raced \subseteq raced'
        /\ "memory" \notin raced' => \A t \in Talks : talk[t].at \notin Folding
    BY <1>3, <1>4
  <2>2. "memory" \notin raced' => ContentOK(talk, n)
    BY <1>4, <2>1 DEF TalkInv, ContentOK, AloneAt, FoldOK, Folding
  <2>3. "number" \notin raced' => NumbersOK(talk, log)
    BY <2>1 DEF TalkInv
  <2>4. ~log.deleted => n.pushed \subseteq SavedItems(log.rows)
    BY <1>1, <1>4 DEF TalkInv
  <2>. QED BY <1>4, <2>2, <2>3, <2>4 DEF TalkInv
<1>5. ASSUME WindowExpires
      PROVE  TalkInv'
  <2>1. PICK left \in SUBSET Items : left = {i \in m.pushed : m.age[i] # Unfolded}
    BY <1>2
  <2>2. PICK n \in MemoryRec : n = [m EXCEPT !.window = <<>>, !.pushed = left]
    BY <1>2 DEF MemoryRec
  <2>3. n.window = <<>> /\ n.pushed = left /\ n.summary = m.summary /\ n.age = m.age
    BY <2>2 DEF MemoryRec
  <2>4. memory' = n /\ UNCHANGED <<talk, log>> /\ Race("memory", Folders)
    BY <1>1, <1>5, <2>1, <2>2 DEF WindowExpires
  <2>5. /\ Len(m.summary) <= SummaryLimit
        /\ "memory" \notin raced => LinesOK(m.summary, m.age)
    BY <1>1 DEF TalkInv, ContentOK
  <2>6. PushedOK(n.pushed, n.window, n.age)
    BY <2>1, <2>3 DEF PushedOK
  <2>. QED BY <1>4, <2>1, <2>3, <2>4, <2>5, <2>6
<1>6. ASSUME SummaryExpires
      PROVE  TalkInv'
  <2>1. PICK left \in SUBSET Items : left = m.pushed \cap ToSet(m.window)
    BY <1>2
  <2>2. PICK none \in [Items -> Nat] : none = [i \in Items |-> Unfolded] /\ \A i \in Items : none[i] = 0
    <3>1. PICK f : f = [i \in Items |-> Unfolded]
      OBVIOUS
    <3>2. f \in [Items -> Nat] /\ \A i \in Items : f[i] = 0
      BY <3>1 DEF Unfolded
    <3>. QED BY <3>1, <3>2
  <2>3. PICK n \in MemoryRec : n = [m EXCEPT !.summary = <<>>, !.pushed = left, !.age = none]
    BY <1>2 DEF MemoryRec
  <2>4. n.window = m.window /\ n.pushed = left /\ n.summary = <<>> /\ n.age = none
    BY <2>3 DEF MemoryRec
  <2>5. memory' = n /\ UNCHANGED <<talk, log>> /\ Race("memory", Folders)
    BY <1>1, <1>6, <2>1, <2>2, <2>3 DEF SummaryExpires
  <2>6. LinesOK(n.summary, n.age) /\ Len(n.summary) <= SummaryLimit
    BY <2>2, <2>4, TalkNumbers DEF LinesOK
  <2>7. PushedOK(n.pushed, n.window, n.age)
    BY <2>1, <2>4 DEF PushedOK, ToSet, Members
  <2>. QED BY <1>4, <2>1, <2>4, <2>5, <2>6, <2>7
<1>. QED BY <1>5, <1>6

\* The circuit closes, and the process dies with every turn it runs.
LEMMA ProcessSafe ==
  ASSUME TalkInv
  PROVE  /\ CircuitCloses => TalkInv'
         /\ Crash => TalkInv'
<1>1. ASSUME CircuitCloses
      PROVE  TalkInv'
  <2>1. /\ memory' \in MemoryRec /\ memory'.window = memory.window
        /\ memory'.summary = memory.summary /\ memory'.pushed = memory.pushed
        /\ memory'.age = memory.age
        /\ UNCHANGED <<talk, log, raced>>
    BY <1>1 DEF TalkInv, MemoryRec, CircuitCloses
  <2>. QED BY <2>1 DEF TalkInv, ContentOK
<1>2. ASSUME Crash
      PROVE  TalkInv'
  <2>1. /\ memory' \in MemoryRec /\ memory'.window = memory.window
        /\ memory'.summary = memory.summary /\ memory'.pushed = memory.pushed
        /\ memory'.age = memory.age
        /\ UNCHANGED <<log, raced>>
    BY <1>2 DEF TalkInv, MemoryRec, Crash
  <2>2. talk' = [t \in Talks |-> IF talk[t].at = "none" THEN NoTalk
                                 ELSE [NoTalk EXCEPT !.at = "done"]]
    BY <1>2 DEF Crash
  <2>3. talk' \in [Talks -> TalkRec]
    BY <2>2, NoTalkIs, DoneIs
  <2>4. ASSUME NEW t \in Talks
        PROVE  PlaceOK(t, talk'[t], log)
    <3>1. CASE talk[t].at = "none"
      <4>1. PlaceOK(t, talk[t], log) /\ talk'[t] = NoTalk
        BY <2>2, <3>1, TalkIs
      <4>. QED BY <3>1, <4>1, NoTalkIs DEF PlaceOK, Unsaved
    <3>2. CASE talk[t].at # "none"
      BY <2>2, <3>2, DoneIs
    <3>. QED BY <3>1, <3>2
  <2>5. \A t \in Talks : talk'[t].at \in {"none", "done"}
    BY <2>2, NoTalkIs, DoneIs
  <2>6. "number" \notin raced => NumbersOK(talk', log)
    BY <2>5 DEF TalkInv, NumbersOK, AloneAt
  <2>7. "memory" \notin raced => ContentOK(talk', memory')
    BY <2>1, <2>5 DEF TalkInv, ContentOK, AloneAt, FoldOK, Folding
  <2>. QED BY <2>1, <2>3, <2>4, <2>6, <2>7 DEF TalkInv
<1>. QED BY <1>1, <1>2

\* TalkInv is inductive.
LEMMA TalkStepSafe ==
  ASSUME TalkInv, [TalkNext]_talkVars
  PROVE  TalkInv'
<1>1. CASE UNCHANGED talkVars
  BY <1>1 DEF talkVars, TalkInv
<1>. QED BY <1>1, DeleteSafe, ExpirySafe, ProcessSafe, NumberSafe, AddSafe, TurnSafe, CommandsSafe,
            WritesMemory DEF TalkNext

\* A message is logged before its answer, and under a number of its own unless two
\* were numbered at once; the summary of a conversation has its limit, and unless
\* two turns wrote the memory at once or a key expired, what left the window is in
\* it as long as it is among the last KeepHead lines folded, whatever command fails and wherever the
\* process dies (ConversationService, ShortTermMemoryService, TurnSideEffectService).
THEOREM TalkLogAndMemory == TalkSpec => []LogAndMemoryAgree
<1>1. TalkInit => TalkInv
  BY TalkInitSafe
<1>2. TalkInv /\ [TalkNext]_talkVars => TalkInv'
  BY TalkStepSafe
<1>. QED BY <1>1, <1>2, TalkAgrees, PTL DEF TalkSpec

-----------------------------------------------------------------------------
(***************************************************************************)
(* Memories are kept.  The ids in use are 1..n, so that a new one is no    *)
(* one's; a record goes by a delete only, which was asked for by its id;   *)
(* and of a finite set whose members are ranked, as many rank below a      *)
(* limit as the limit allows.                                              *)
(***************************************************************************)

RecordRow == [id : Nat \ {0}, owner : MemoryOwners, department : Sections,
              visibility : MemoryVisibilities, confidence : {72, 90}]
CallRec == [op : {"none", "list", "create", "capture", "delete"},
            who : MemoryOwners, department : Sections,
            visibility : MemoryVisibilities, blank : BOOLEAN, id : Nat, probe : BOOLEAN]
IdsOf(rowsNow) == {r.id : r \in rowsNow}
ApartById(rowsNow) == \A r, s \in rowsNow : r.id = s.id => r = s
UsedIds == erased \cup askedAway \cup IdsOf(records) \cup stored

\* What a list answered.
ListingOK(l) ==
  /\ l.rows \subseteq l.readable
  /\ \A r \in l.rows : r.owner = l.who \/ r.visibility # "private"
  /\ Cardinality(l.rows) <= MemoryLimit
  /\ provider = "local" /\ l.who \notin Admins =>
       Cardinality(l.rows) = Min({MemoryLimit, Cardinality(l.readable)})
  /\ provider = "mem0" => \A r \in l.rows : r.owner = l.who
CallOK(s, away) ==
  /\ IF s.op = "delete" THEN s.id \in away ELSE s.id = 0
  /\ s.op = "none" => ~s.probe
RecordInv ==
  /\ provider \in {"local", "mem0"} /\ section \in [MemoryOwners -> Sections]
  /\ records \subseteq RecordRow /\ IsFiniteSet(records) /\ ApartById(records)
  /\ memoryCall \in [Rememberers -> CallRec]
  /\ breaker \in [fails : Nat, open : BOOLEAN, probing : BOOLEAN]
  /\ \A c \in Rememberers : CallOK(memoryCall[c], askedAway)
  /\ \E n \in Nat : UsedIds = 1..n
  /\ stored \ askedAway \subseteq IdsOf(records) /\ erased \cap IdsOf(records) = {}
  /\ ListingOK(listing)
  /\ breaker.probing => \E c \in Rememberers : memoryCall[c].probe

\* The limits are positive.
LEMMA LimitsAre == MemoryLimit \in Nat \ {0} /\ FailureLimit \in Nat \ {0}
BY MemoryBounds

\* The invariant is what the property asks.
LEMMA RecordsAreKept ==
  ASSUME RecordInv
  PROVE  MemoriesKept
BY DEF RecordInv, MemoriesKept, IdsOf, ListingOK

\* Of a finite set, ranked, as many are best as the limit allows.
LEMMA BestAreAsMany ==
  ASSUME NEW X \in SUBSET RecordRow, IsFiniteSet(X), ApartById(X)
  PROVE  /\ BestOf(X) \subseteq X /\ IsFiniteSet(BestOf(X))
         /\ Cardinality(BestOf(X)) = IF Cardinality(X) < MemoryLimit THEN Cardinality(X) ELSE MemoryLimit
<1>. DEFINE better(r) == {s \in X : Ranks(s, r)}
<1>1. PICK n \in Nat : n = Cardinality(X)
  BY FS_CardinalityType
<1>2. ASSUME NEW r \in X
      PROVE  /\ r.id \in Nat /\ r.confidence \in {72, 90}
             /\ better(r) \in SUBSET (X \ {r})
  BY DEF Ranks, RecordRow
<1>3. ASSUME NEW r \in X
      PROVE  IsFiniteSet(better(r)) /\ Cardinality(better(r)) \in 0..(n - 1)
  <2>1. IsFiniteSet(X \ {r}) /\ Cardinality(X \ {r}) = n - 1
    BY <1>1, FS_RemoveElement
  <2>2. IsFiniteSet(better(r)) /\ Cardinality(better(r)) <= n - 1
    BY <1>2, <2>1, FS_Subset
  <2>3. Cardinality(better(r)) \in Nat
    BY <2>2, FS_CardinalityType
  <2>. QED BY <2>2, <2>3
<1>4. ASSUME NEW r \in X, NEW s \in X, Ranks(r, s)
      PROVE  Cardinality(better(r)) < Cardinality(better(s))
  <2>1. better(r) \subseteq better(s) /\ r \in better(s) /\ r \notin better(r)
    BY <1>2, <1>4 DEF Ranks
  <2>2. better(r) \in SUBSET (better(s) \ {r})
    BY <2>1
  <2>3. /\ IsFiniteSet(better(s) \ {r})
        /\ Cardinality(better(s) \ {r}) = Cardinality(better(s)) - 1
    BY <1>3, <2>1, FS_RemoveElement
  <2>4. Cardinality(better(r)) <= Cardinality(better(s)) - 1
    BY <2>2, <2>3, FS_Subset
  <2>5. Cardinality(better(r)) \in Int
    BY <1>3
  <2>6. Cardinality(better(s)) \in Int
    BY <1>3
  <2>. QED BY <2>4, <2>5, <2>6
<1>5. ASSUME NEW r \in X, NEW s \in X, r # s
      PROVE  Ranks(r, s) \/ Ranks(s, r)
  <2>1. r.id # s.id
    BY <1>5 DEF ApartById
  <2>. QED BY <1>2, <2>1 DEF Ranks
<1>6. PICK rank : rank = [r \in X |-> Cardinality(better(r))]
  OBVIOUS
<1>7. rank \in [X -> 0..(n - 1)] /\ \A r \in X : rank[r] = Cardinality(better(r))
  BY <1>3, <1>6
<1>8. \A r, s \in X : rank[r] = rank[s] => r = s
  <2>1. \A r \in X : rank[r] \in Int
    BY <1>7
  <2>2. \A r, s \in X : Ranks(r, s) => rank[r] < rank[s]
    BY <1>4, <1>7
  <2>. QED BY <1>5, <2>1, <2>2
<1>9. rank \in Injection(X, 0..(n - 1))
  BY <1>7, <1>8 DEF Injection, IsInjective
<1>10. IsFiniteSet(0..(n - 1)) /\ Cardinality(0..(n - 1)) = n
  BY FS_Interval
<1>11. rank \in Surjection(X, 0..(n - 1))
  BY <1>1, <1>9, <1>10, FS_Injection
<1>12. \A k \in 0..(n - 1) : \E r \in X : rank[r] = k
  BY <1>11 DEF Surjection
<1>13. BestOf(X) = {r \in X : rank[r] < MemoryLimit}
  BY <1>7 DEF BestOf
<1>14. PICK m \in Nat : m = IF n < MemoryLimit THEN n ELSE MemoryLimit
  BY LimitsAre
<1>15. PICK few : few = [r \in BestOf(X) |-> rank[r]]
  OBVIOUS
<1>16. few \in [BestOf(X) -> 0..(m - 1)]
  <2>1. ASSUME NEW r \in BestOf(X)
        PROVE  rank[r] \in 0..(m - 1)
    <3>1. rank[r] \in 0..(n - 1) /\ rank[r] < MemoryLimit
      BY <1>7, <1>13
    <3>. QED BY <1>14, <3>1, LimitsAre
  <2>. QED BY <1>15, <2>1
<1>17. \A r, s \in BestOf(X) : few[r] = few[s] => r = s
  BY <1>8, <1>13, <1>15
<1>18. ASSUME NEW k \in 0..(m - 1)
       PROVE  \E r \in BestOf(X) : few[r] = k
  <2>1. k \in 0..(n - 1) /\ k < MemoryLimit
    BY <1>14, LimitsAre
  <2>2. PICK r \in X : rank[r] = k
    BY <1>12, <2>1
  <2>. QED BY <1>13, <1>15, <2>1, <2>2
<1>19. few \in Injection(BestOf(X), 0..(m - 1)) /\ few \in Surjection(BestOf(X), 0..(m - 1))
  BY <1>16, <1>17, <1>18 DEF Injection, Surjection, IsInjective
<1>20. IsFiniteSet(0..(m - 1)) /\ Cardinality(0..(m - 1)) = m
  BY FS_Interval
<1>21. IsFiniteSet(BestOf(X)) /\ Cardinality(BestOf(X)) = m
  BY <1>19, <1>20, FS_Injection
<1>. QED BY <1>1, <1>13, <1>14, <1>21

\* The lesser of two numbers.
LEMMA LeastOfTwo ==
  ASSUME NEW a \in Nat, NEW b \in Nat
  PROVE  Min({a, b}) = IF b < a THEN b ELSE a
<1>1. PICK m \in {a, b} : m = IF b < a THEN b ELSE a
  OBVIOUS
<1>2. \A y \in {a, b} : m <= y
  BY <1>1
<1>3. \A x \in {a, b} : (\A y \in {a, b} : x <= y) => x = m
  BY <1>2
<1>4. Min({a, b}) = m
  BY <1>2, <1>3 DEF Min
<1>. QED BY <1>1, <1>4

\* A caller at rest.
LEMMA NoCallIs ==
  /\ NoCall \in CallRec /\ NoCall.op = "none" /\ NoCall.id = 0 /\ ~NoCall.probe
BY DEF NoCall, CallRec, MemoryOwners, Sections, MemoryVisibilities

\* The invariant holds at the start.
LEMMA RecordInitSafe ==
  ASSUME RecordInit
  PROVE  RecordInv
<1>1. /\ provider \in {"local", "mem0"} /\ records \in Before /\ listing = NoListing
      /\ stored = {r.id : r \in records} /\ erased = {} /\ askedAway = {}
      /\ memoryCall = [c \in Rememberers |-> NoCall]
      /\ breaker = [fails |-> 0, open |-> FALSE, probing |-> FALSE]
  BY DEF RecordInit

<1>2. section \in [MemoryOwners -> Sections]
  BY DEF RecordInit, Sections
<1>3. memoryCall \in [Rememberers -> CallRec] /\ \A c \in Rememberers : CallOK(memoryCall[c], askedAway)
  BY <1>1, NoCallIs DEF CallOK
<1>4. ListingOK(listing)
  <2>1. listing.who = "root" /\ listing.readable = {} /\ listing.rows = {}
    BY <1>1 DEF NoListing
  <2>2. Cardinality({}) = 0
    BY FS_EmptySet
  <2>. QED BY <2>1, <2>2, LimitsAre DEF ListingOK, Admins
<1>5. CASE records = {}
  <2>1. UsedIds = 1..0 /\ IdsOf(records) = {} /\ stored = {}
    BY <1>1, <1>5 DEF UsedIds, IdsOf
  <2>2. IsFiniteSet(records)
    BY <1>5, FS_EmptySet
  <2>. QED BY <1>1, <1>2, <1>3, <1>4, <1>5, <2>1, <2>2 DEF RecordInv, ApartById
<1>6. CASE records # {}
  <2>1. PICK who \in Makers, v \in MemoryVisibilities :
          records = {[id |-> 1, owner |-> who, department |-> "sales", visibility |-> v,
                      confidence |-> 90]}
    BY <1>1, <1>6 DEF Before
  <2>2. PICK r \in RecordRow : r = [id |-> 1, owner |-> who, department |-> "sales",
                                    visibility |-> v, confidence |-> 90]
    <3>1. who \in MemoryOwners /\ "sales" \in Sections /\ 1 \in Nat \ {0} /\ 90 \in {72, 90}
      BY MakersAreUsers DEF Sections
    <3>. QED BY <3>1 DEF RecordRow
  <2>3. records = {r} /\ r.id = 1
    BY <2>1, <2>2
  <2>4. UsedIds = 1..1 /\ stored = {1} /\ IdsOf(records) = {1}
    <3>1. stored = {1} /\ IdsOf(records) = {1}
      BY <1>1, <2>3 DEF IdsOf
    <3>2. 1..1 = {1}
      OBVIOUS
    <3>. QED BY <1>1, <3>1, <3>2 DEF UsedIds
  <2>5. IsFiniteSet(records)
    BY <2>3, FS_Singleton
  <2>. QED BY <1>1, <1>2, <1>3, <1>4, <2>3, <2>4, <2>5 DEF RecordInv, ApartById
<1>. QED BY <1>5, <1>6

\* What the state holds, part by part.
LEMMA RecordIs ==
  ASSUME RecordInv
  PROVE  /\ provider \in {"local", "mem0"} /\ section \in [MemoryOwners -> Sections]
         /\ records \subseteq RecordRow /\ IsFiniteSet(records) /\ ApartById(records)
         /\ memoryCall \in [Rememberers -> CallRec]
         /\ \A c \in Rememberers : memoryCall[c] \in CallRec /\ CallOK(memoryCall[c], askedAway)
         /\ breaker.fails \in Nat /\ breaker.open \in BOOLEAN /\ breaker.probing \in BOOLEAN
         /\ stored \ askedAway \subseteq IdsOf(records) /\ erased \cap IdsOf(records) = {}
         /\ ListingOK(listing)
BY DEF RecordInv

\* A call begins: ids that are asked away are in use.
LEMMA BeginSafe ==
  ASSUME RecordInv, NEW c \in Rememberers, NEW theCall \in CallRec, SafeRun(c, theCall),
         askedAway \subseteq askedAway', askedAway' \subseteq askedAway \cup IdsOf(records),
         CallOK(theCall, askedAway'), theCall.op # "none"
  PROVE  RecordInv'
<1>1. UNCHANGED <<provider, records, section, listing, erased, stored>>
  BY DEF SafeRun
<1>2. \E n \in Nat : UsedIds' = 1..n
  <2>1. UsedIds' = UsedIds
    BY <1>1 DEF UsedIds
  <2>. QED BY <2>1 DEF RecordInv
<1>3. PICK probe \in BOOLEAN : probe <=> breaker.open /\ ~breaker.probing
  OBVIOUS
<1>4. PICK s \in CallRec : s = [theCall EXCEPT !.probe = probe]
  BY DEF CallRec
<1>5. s.probe = probe /\ s.op = theCall.op /\ s.id = theCall.id
  BY <1>4 DEF CallRec
<1>6. PICK b \in [fails : Nat, open : BOOLEAN, probing : BOOLEAN] : b = breaker
  BY DEF RecordInv
<1>7. \/ memoryCall' = memoryCall /\ b.probing
      \/ memoryCall' = [memoryCall EXCEPT ![c] = s]
  <2>1. (breaker.open /\ ~breaker.probing) = probe
    BY <1>3, RecordIs
  <2>. QED BY <1>4, <1>6, <2>1, RecordIs DEF SafeRun
<1>8. breaker' = [b EXCEPT !.probing = b.probing \/ probe]
  <2>1. (breaker.open /\ ~breaker.probing) = probe
    BY <1>3, RecordIs
  <2>. QED BY <1>6, <2>1 DEF SafeRun
<1>9. /\ breaker' \in [fails : Nat, open : BOOLEAN, probing : BOOLEAN]
      /\ breaker'.probing = (b.probing \/ probe)
  BY <1>8
<1>10. CallOK(s, askedAway')
  BY <1>5 DEF CallOK
<1>11. /\ memoryCall' \in [Rememberers -> CallRec]
       /\ \A d \in Rememberers : CallOK(memoryCall'[d], askedAway')
  <2>1. \A d \in Rememberers : CallOK(memoryCall[d], askedAway')
    BY RecordIs DEF CallOK
  <2>. QED BY <1>7, <1>10, <2>1, RecordIs
<1>12. breaker'.probing => \E d \in Rememberers : memoryCall'[d].probe
  <2>1. CASE memoryCall' = memoryCall /\ b.probing
    BY <1>6, <2>1 DEF RecordInv
  <2>2. CASE memoryCall' = [memoryCall EXCEPT ![c] = s]
    <3>1. memoryCall'[c] = s /\ \A d \in Rememberers \ {c} : memoryCall'[d] = memoryCall[d]
      BY <2>2, RecordIs
    <3>2. CASE probe
      BY <1>5, <3>1, <3>2
    <3>3. CASE b.probing
      <4>1. PICK d \in Rememberers : memoryCall[d].probe
        BY <1>6, <3>3 DEF RecordInv
      <4>2. d # c
        BY <4>1, RecordIs DEF SafeRun, CallOK
      <4>. QED BY <3>1, <4>1, <4>2
    <3>. QED BY <1>9, <3>2, <3>3
  <2>. QED BY <1>7, <2>1, <2>2
<1>13. ListingOK(listing)'
  BY <1>1, RecordIs DEF ListingOK
<1>14. stored' \ askedAway' \subseteq IdsOf(records') /\ erased' \cap IdsOf(records') = {}
  BY <1>1, RecordIs
<1>. QED BY <1>1, <1>2, <1>9, <1>11, <1>12, <1>13, <1>14, RecordIs DEF RecordInv

\* The steps a call begins with.
LEMMA BeginsSafe ==
  ASSUME RecordInv, NEW c \in Rememberers, NEW who \in MemoryOwners
  PROVE  /\ ListMemories(c, who) => RecordInv'
         /\ CaptureFromConversation(c, who) => RecordInv'
         /\ \A r \in records : RemoveMemory(c, who, r) => RecordInv'
         /\ \A v \in MemoryVisibilities, blank \in BOOLEAN :
              CreateMemory(c, who, v, blank) => RecordInv'
<1>1. ASSUME NEW op \in {"list", "create", "capture", "delete"}
      PROVE  /\ CallOf(op, who) \in CallRec /\ CallOf(op, who).op = op
             /\ CallOf(op, who).id = 0
  BY NoCallIs, RecordIs DEF CallOf, CallRec, NoCall
<1>2. \A op \in {"list", "create", "capture"} : CallOK(CallOf(op, who), askedAway)
  BY <1>1 DEF CallOK
<1>3. ASSUME ListMemories(c, who) \/ CaptureFromConversation(c, who)
      PROVE  RecordInv'
  <2>1. PICK op \in {"list", "capture"} : SafeRun(c, CallOf(op, who)) /\ askedAway' = askedAway
    BY <1>3 DEF ListMemories, CaptureFromConversation
  <2>2. CallOf(op, who) \in CallRec /\ CallOf(op, who).op # "none"
    BY <1>1
  <2>. QED BY <1>2, <2>1, <2>2, BeginSafe
<1>4. ASSUME NEW r \in records, RemoveMemory(c, who, r)
      PROVE  RecordInv'
  <2>1. r.id \in Nat /\ r.id \in IdsOf(records)
    BY RecordIs DEF RecordRow, IdsOf
  <2>2. PICK theCall \in CallRec : theCall = [CallOf("delete", who) EXCEPT !.id = r.id]
    BY <1>1, <2>1 DEF CallRec
  <2>3. theCall.op = "delete" /\ theCall.id = r.id
    BY <1>1, <2>2 DEF CallRec
  <2>4. SafeRun(c, theCall) /\ askedAway' = askedAway \cup {r.id}
    BY <1>4, <2>2 DEF RemoveMemory
  <2>5. CallOK(theCall, askedAway')
    BY <2>3, <2>4 DEF CallOK
  <2>. QED BY <2>1, <2>3, <2>4, <2>5, BeginSafe
<1>5. ASSUME NEW v \in MemoryVisibilities, NEW blank \in BOOLEAN, CreateMemory(c, who, v, blank)
      PROVE  RecordInv'
  <2>1. PICK theCall \in CallRec :
          theCall = [CallOf("create", who) EXCEPT !.visibility = v, !.blank = blank]
    BY <1>1 DEF CallRec
  <2>2. theCall.op = "create" /\ theCall.id = 0
    BY <1>1, <2>1 DEF CallRec
  <2>3. SafeRun(c, theCall) /\ askedAway' = askedAway
    BY <1>5, <2>1 DEF CreateMemory
  <2>4. CallOK(theCall, askedAway')
    BY <2>2 DEF CallOK
  <2>. QED BY <2>2, <2>3, <2>4, BeginSafe
<1>. QED BY <1>3, <1>4, <1>5

\* A call ends, with or without its effect.
LEMMA CallEndSafe ==
  ASSUME RecordInv, NEW c \in Rememberers, NEW s \in CallRec, s = memoryCall[c],
         \/ records' = records /\ stored' = stored
         \/ /\ records' = Effect(s)
            /\ \/ stored' = stored
               \/ stored' = stored \cup (IF s.op \in {"create", "capture"} THEN {NextId} ELSE {}),
         erased' = erased \/
           (/\ records' = Effect(s) /\ erased' = erased \cup {s.id}
            /\ \E r \in records : r.id = s.id /\ MayDelete(s, r)),
         breaker' \in [fails : Nat, open : BOOLEAN, probing : {FALSE}],
         memoryCall' = [memoryCall EXCEPT ![c] = NoCall], ListingOK(listing)',
         UNCHANGED <<provider, section, askedAway>>
  PROVE  RecordInv'
<1>1. /\ memoryCall' \in [Rememberers -> CallRec]
      /\ \A d \in Rememberers : CallOK(memoryCall'[d], askedAway')
  <2>1. CallOK(NoCall, askedAway')
    BY NoCallIs DEF CallOK
  <2>. QED BY <2>1, NoCallIs, RecordIs
<1>2. /\ breaker' \in [fails : Nat, open : BOOLEAN, probing : BOOLEAN] /\ ~breaker'.probing
  OBVIOUS
<1>3. PICK n \in Nat : UsedIds = 1..n
  BY DEF RecordInv
<1>4. NextId = n + 1
  <2>1. NextId = 1 + Cardinality(UsedIds)
    BY DEF NextId, UsedIds, IdsOf
  <2>2. Cardinality(1..n) = n
    <3>1. 1 \in Int /\ n \in Int /\ n - 1 + 1 = n
      BY <1>3
    <3>2. Cardinality(1..n) = IF 1 > n THEN 0 ELSE n - 1 + 1
      BY ONLY <3>1, FS_Interval
    <3>3. n = 0 \/ ~(1 > n)
      BY <1>3
    <3>. QED BY ONLY <1>3, n \in Nat, <3>1, <3>2, <3>3
  <2>. QED BY <1>3, <2>1, <2>2
<1>5. \A r \in records : r.id \in Nat \ {0} /\ r.id \in IdsOf(records)
  BY RecordIs DEF RecordRow, IdsOf
\* Nothing becomes of it.
<1>6. ASSUME records' = records, stored' = stored, erased' = erased
      PROVE  RecordInv'
  <2>1. UsedIds' = UsedIds
    BY <1>6 DEF UsedIds
  <2>. QED BY <1>1, <1>2, <1>6, <2>1, RecordIs DEF RecordInv
\* A record is made.
<1>7. ASSUME s.op \in {"create", "capture"}, records' = Effect(s)
      PROVE  RecordInv'
  <2>1. PICK new \in RecordRow : new = NewRecord(s)
    <3>1. s.visibility \in MemoryVisibilities /\ s.who \in MemoryOwners /\ s.department \in Sections
      BY DEF CallRec
    <3>2. n + 1 \in Nat \ {0} /\ "private" \in MemoryVisibilities /\ 90 \in {72, 90} /\ 72 \in {72, 90}
      BY DEF MemoryVisibilities
    <3>3. PICK v \in MemoryVisibilities : v = IF s.op = "create" THEN s.visibility ELSE "private"
      BY <3>1, <3>2
    <3>4. PICK k \in {72, 90} : k = IF s.op = "create" THEN 90 ELSE 72
      BY <3>2
    <3>5. NewRecord(s) = [id |-> n + 1, owner |-> s.who, department |-> s.department,
                          visibility |-> v, confidence |-> k]
      BY <1>4, <3>3, <3>4 DEF NewRecord
    <3>. QED BY <3>1, <3>2, <3>5 DEF RecordRow
  <2>2. new.id = n + 1
    BY <1>4, <2>1 DEF NewRecord
  <2>3. records' = records \cup {new}
    BY <1>7, <2>1 DEF Effect
  <2>4. IdsOf(records') = IdsOf(records) \cup {n + 1}
    BY <2>2, <2>3 DEF IdsOf
  <2>5. n + 1 \notin UsedIds /\ UsedIds \cup {n + 1} = 1..(n + 1)
    BY <1>3
  <2>6. erased' = erased
    BY <1>5, <1>7, RecordIs DEF CallOK
  <2>7. stored' = stored \/ stored' = stored \cup {n + 1}
    BY <1>4, <1>7
  <2>8. UsedIds' = 1..(n + 1)
    BY <2>4, <2>5, <2>6, <2>7 DEF UsedIds
  <2>9. IsFiniteSet(records') /\ records' \subseteq RecordRow
    BY <2>3, RecordIs, FS_AddElement
  <2>10. ApartById(records')
    <3>1. n + 1 \notin IdsOf(records)
      BY <2>5 DEF UsedIds
    <3>2. \A r \in records : r.id # new.id
      BY <1>5, <2>2, <3>1
    <3>. QED BY <2>3, <3>2, RecordIs DEF ApartById
  <2>11. stored' \ askedAway' \subseteq IdsOf(records') /\ erased' \cap IdsOf(records') = {}
    BY <2>4, <2>5, <2>6, <2>7, RecordIs DEF UsedIds
  <2>12. \E k \in Nat : UsedIds' = 1..k
    BY <2>8
  <2>. QED BY <1>1, <1>2, <2>9, <2>10, <2>11, <2>12, RecordIs DEF RecordInv
\* A record is deleted, that was asked for.
<1>8. ASSUME s.op = "delete", records' = Effect(s)
      PROVE  RecordInv'
  <2>1. records' = {r \in records : ~Deletes(s, r)} /\ stored' = stored
    BY <1>8 DEF Effect
  <2>2. s.id \in askedAway
    BY <1>8, RecordIs DEF CallOK
  <2>3. \A r \in records \ records' : r.id = s.id
    BY <2>1 DEF Deletes
  <2>4. IdsOf(records) \subseteq IdsOf(records') \cup {s.id} /\ IdsOf(records') \subseteq IdsOf(records)
    BY <2>1, <2>3 DEF IdsOf
  <2>5. UsedIds' = UsedIds
    BY <2>1, <2>2, <2>4 DEF UsedIds
  <2>6. IsFiniteSet(records') /\ records' \subseteq RecordRow /\ ApartById(records')
    BY <2>1, RecordIs, FS_Subset DEF ApartById
  <2>7. stored' \ askedAway' \subseteq IdsOf(records')
    BY <2>1, <2>2, <2>4, RecordIs
  <2>8. erased' \cap IdsOf(records') = {}
    <3>1. CASE erased' = erased
      BY <2>4, <3>1, RecordIs
    <3>2. CASE erased' = erased \cup {s.id} /\ \E r \in records : r.id = s.id /\ MayDelete(s, r)
      <4>1. PICK r \in records : r.id = s.id /\ MayDelete(s, r)
        BY <3>2
      <4>2. \A q \in records : q.id = s.id => q = r
        BY <4>1, RecordIs DEF ApartById
      <4>3. r \notin records'
        BY <2>1, <4>1 DEF Deletes
      <4>4. s.id \notin IdsOf(records')
        BY <2>1, <4>2, <4>3 DEF IdsOf
      <4>. QED BY <2>4, <3>2, <4>4, RecordIs
    <3>. QED BY <3>1, <3>2
  <2>9. \E k \in Nat : UsedIds' = 1..k
    BY <1>3, <2>5
  <2>. QED BY <1>1, <1>2, <2>6, <2>7, <2>8, <2>9, RecordIs DEF RecordInv
<1>9. ASSUME s.op \notin {"create", "capture", "delete"}
      PROVE  RecordInv'
  <2>1. Effect(s) = records
    BY <1>9 DEF Effect
  <2>2. erased' = erased
    BY <1>5, <1>9, RecordIs DEF CallOK
  <2>. QED BY <1>6, <1>9, <2>1, <2>2
<1>. QED BY <1>6, <1>7, <1>8, <1>9

\* What a list answers.
LEMMA ListIs ==
  ASSUME RecordInv, NEW s \in CallRec, NEW given \in ProviderSearch(s.who, s.department),
         listing' = [who |-> s.who,
                     readable |-> {r \in records : PolicyReadable(r, s.who, s.department)},
                     rows |-> FilterReadable(given, s.who, s.department)],
         provider' = provider
  PROVE  ListingOK(listing)'
<1>. DEFINE can == {r \in records : PolicyReadable(r, s.who, s.department)}
            rowsNow == FilterReadable(given, s.who, s.department)
            sql == {r \in records : SqlReadable(r, s.who, s.department)}
            own == {r \in records : r.owner = s.who}
<1>1. listing'.who = s.who /\ listing'.readable = can /\ listing'.rows = rowsNow
  OBVIOUS
<1>2. \A r \in records : r.visibility \in MemoryVisibilities
  BY RecordIs DEF RecordRow
<1>3. ASSUME NEW X \in SUBSET records
      PROVE  /\ X \in SUBSET RecordRow /\ IsFiniteSet(X) /\ ApartById(X)
             /\ Cardinality(X) \in Nat
  <2>1. X \in SUBSET RecordRow /\ IsFiniteSet(X) /\ ApartById(X)
    BY RecordIs, FS_Subset DEF ApartById
  <2>. QED BY <2>1, FS_CardinalityType
<1>4. CASE provider = "local"
  <2>1. given = BestOf(sql)
    BY <1>4 DEF ProviderSearch
  <2>2. /\ given \subseteq sql /\ IsFiniteSet(given)
        /\ Cardinality(given) = IF Cardinality(sql) < MemoryLimit THEN Cardinality(sql) ELSE MemoryLimit
    <3>1. sql \in SUBSET RecordRow /\ IsFiniteSet(sql) /\ ApartById(sql)
      BY <1>3
    <3>. QED BY <2>1, <3>1, BestAreAsMany
  <2>3. rowsNow \subseteq given /\ rowsNow \subseteq can
    BY <2>2 DEF FilterReadable
  <2>4. Cardinality(sql) \in Nat
    BY <1>3
  <2>5. Cardinality(given) <= MemoryLimit
    BY <2>2, <2>4, LimitsAre
  <2>6. Cardinality(rowsNow) <= Cardinality(given) /\ Cardinality(rowsNow) \in Nat /\ Cardinality(given) \in Nat
    <3>1. IsFiniteSet(rowsNow) /\ Cardinality(rowsNow) <= Cardinality(given)
      BY <2>2, <2>3, FS_Subset
    <3>. QED BY <2>2, <3>1, FS_CardinalityType
  <2>7. Cardinality(rowsNow) <= MemoryLimit
    BY <2>5, <2>6, LimitsAre
  <2>8. \A r \in rowsNow : r.owner = s.who \/ r.visibility # "private"
    BY <2>2, <2>3 DEF SqlReadable
  <2>9. ASSUME s.who \notin Admins
        PROVE  Cardinality(rowsNow) = Min({MemoryLimit, Cardinality(can)})
    <3>1. \A r \in records : PolicyReadable(r, s.who, s.department) <=>
                             SqlReadable(r, s.who, s.department)
      BY <1>2, <2>9 DEF PolicyReadable, SqlReadable, MemoryVisibilities
    <3>2. can = sql
      BY <3>1
    <3>3. rowsNow = given
      BY <2>2, <3>1 DEF FilterReadable
    <3>4. Min({MemoryLimit, Cardinality(sql)}) =
            IF Cardinality(sql) < MemoryLimit THEN Cardinality(sql) ELSE MemoryLimit
      BY <2>4, LimitsAre, LeastOfTwo
    <3>. QED BY <2>2, <3>2, <3>3, <3>4
  <2>. QED BY <1>1, <1>4, <2>3, <2>7, <2>8, <2>9 DEF ListingOK
<1>5. CASE provider = "mem0"
  <2>1. given \in SUBSET own /\ Cardinality(given) = IF Cardinality(own) < MemoryLimit THEN Cardinality(own)
                                                                              ELSE MemoryLimit
    BY <1>5 DEF ProviderSearch
  <2>2. Cardinality(own) \in Nat /\ IsFiniteSet(given)
    BY <1>3, <2>1
  <2>3. Cardinality(given) <= MemoryLimit /\ Cardinality(given) \in Nat
    BY <2>1, <2>2, LimitsAre
  <2>4. rowsNow \subseteq given /\ rowsNow \subseteq can
    BY <2>1 DEF FilterReadable
  <2>5. Cardinality(rowsNow) <= Cardinality(given) /\ IsFiniteSet(rowsNow)
    BY <2>2, <2>4, FS_Subset
  <2>6. Cardinality(rowsNow) \in Nat
    BY <2>5, FS_CardinalityType
  <2>7. Cardinality(rowsNow) <= MemoryLimit
    BY <2>3, <2>5, <2>6, LimitsAre
  <2>8. \A r \in rowsNow : r.owner = s.who
    BY <2>1, <2>4
  <2>. QED BY <1>1, <1>5, <2>4, <2>7, <2>8 DEF ListingOK
<1>. QED BY <1>4, <1>5, RecordIs

\* A call returns, or fails with or without its effect.
LEMMA CallSafe ==
  ASSUME RecordInv, NEW c \in Rememberers
  PROVE  /\ CallReturns(c) => RecordInv'
         /\ \A effect \in BOOLEAN : CallFails(c, effect) => RecordInv'
<1>1. PICK s \in CallRec : s = memoryCall[c]
  BY RecordIs
<1>2. ASSUME CallReturns(c)
      PROVE  RecordInv'
  <2>1. /\ records' = Effect(s) /\ memoryCall' = [memoryCall EXCEPT ![c] = NoCall]
        /\ breaker' = [fails |-> 0, open |-> FALSE, probing |-> FALSE]
        /\ UNCHANGED <<provider, section, askedAway>>
    BY <1>1, <1>2 DEF CallReturns
  <2>2. ListingOK(listing)'
    <3>1. CASE s.op = "list"
      <4>1. PICK given \in ProviderSearch(s.who, s.department) :
              listing' = [who |-> s.who,
                          readable |-> {r \in records : PolicyReadable(r, s.who, s.department)},
                          rows |-> FilterReadable(given, s.who, s.department)]
        BY <1>1, <1>2, <3>1 DEF CallReturns
      <4>. QED BY <2>1, <4>1, ListIs
    <3>2. CASE s.op # "list"
      <4>1. listing' = listing
        BY <1>1, <1>2, <3>2 DEF CallReturns
      <4>. QED BY <2>1, <4>1, RecordIs DEF ListingOK
    <3>. QED BY <3>1, <3>2
  <2>3. stored' = stored \cup (IF s.op \in {"create", "capture"} THEN {NextId} ELSE {})
    BY <1>1, <1>2 DEF CallReturns
  <2>4. erased' = erased \/ (/\ erased' = erased \cup {s.id}
                             /\ \E r \in records : r.id = s.id /\ MayDelete(s, r))
    BY <1>1, <1>2 DEF CallReturns
  <2>. QED BY <1>1, <2>1, <2>2, <2>3, <2>4, CallEndSafe
<1>3. ASSUME NEW effect \in BOOLEAN, CallFails(c, effect)
      PROVE  RecordInv'
  <2>1. /\ records' = records \/ records' = Effect(s)
        /\ memoryCall' = [memoryCall EXCEPT ![c] = NoCall]
        /\ UNCHANGED <<provider, section, listing, erased, stored, askedAway>>
    BY <1>1, <1>3 DEF CallFails
  <2>2. breaker' \in [fails : Nat, open : BOOLEAN, probing : {FALSE}]
    <3>1. PICK fails \in Nat : fails = IF breaker.fails < FailureLimit THEN breaker.fails + 1 ELSE breaker.fails
      BY RecordIs
    <3>2. breaker' = [fails |-> fails, open |-> breaker.open \/ fails = FailureLimit, probing |-> FALSE]
      BY <1>3, <3>1 DEF CallFails
    <3>3. (breaker.open \/ fails = FailureLimit) \in BOOLEAN
      BY RecordIs
    <3>. QED BY <3>2, <3>3
  <2>3. ListingOK(listing)'
    BY <2>1, RecordIs DEF ListingOK
  <2>4. CASE records' = records
    BY <1>1, <2>1, <2>2, <2>3, <2>4, CallEndSafe
  <2>5. CASE records' = Effect(s)
    BY <1>1, <2>1, <2>2, <2>3, <2>5, CallEndSafe
  <2>. QED BY <2>1, <2>4, <2>5
<1>. QED BY <1>2, <1>3

\* RecordInv is inductive.
LEMMA RecordStepSafe ==
  ASSUME RecordInv, [RecordNext]_recordVars
  PROVE  RecordInv'
<1>1. CASE UNCHANGED recordVars
  BY <1>1 DEF recordVars, RecordInv, UsedIds, ListingOK
<1>2. CASE CircuitCools
  <2>1. /\ breaker' \in [fails : Nat, open : BOOLEAN, probing : BOOLEAN]
        /\ breaker'.probing = breaker.probing
    BY <1>2 DEF CircuitCools, RecordInv
  <2>. QED BY <1>2, <2>1 DEF CircuitCools, RecordInv, UsedIds, ListingOK
<1>3. ASSUME NEW who \in MemoryOwners \ Admins, ChangesSection(who)
      PROVE  RecordInv'
  <2>1. section[who] \in {"", "sales"}
    BY RecordIs DEF Sections
  <2>2. \E d \in Sections : d # section[who]
    BY <2>1 DEF Sections
  <2>3. section' \in [MemoryOwners -> Sections]
    BY <1>3, <2>2, RecordIs DEF ChangesSection
  <2>. QED BY <1>3, <2>3 DEF ChangesSection, RecordInv, UsedIds, ListingOK
<1>4. ASSUME NEW c \in Rememberers, NEW who \in Makers,
             \/ CaptureFromConversation(c, who)
             \/ \E v \in MemoryVisibilities : CreateMemory(c, who, v, FALSE)
             \/ CreateMemory(c, who, "private", TRUE)
      PROVE  RecordInv'
  <2>1. who \in MemoryOwners /\ "private" \in MemoryVisibilities /\ TRUE \in BOOLEAN /\ FALSE \in BOOLEAN
    BY MakersAreUsers DEF MemoryVisibilities
  <2>. QED BY <1>4, <2>1, BeginsSafe
<1>. QED BY <1>1, <1>2, <1>3, <1>4, BeginsSafe, CallSafe DEF RecordNext

\* A memory is kept until a delete is asked for, and a list holds what its reader
\* may read, as much of it as the limit allows (MemoryController,
\* LongTermMemoryService, its two providers).
THEOREM RecordsKept == RecordSpec => []MemoriesKept
<1>1. RecordInit => RecordInv
  BY RecordInitSafe
<1>2. RecordInv /\ [RecordNext]_recordVars => RecordInv'
  BY RecordStepSafe
<1>. QED BY <1>1, <1>2, RecordsAreKept, PTL DEF RecordSpec

==============================================================================
