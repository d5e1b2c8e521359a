------------------------------ MODULE ChatPage ------------------------------
(***************************************************************************)
(* What the chat page shows of a conversation.  Answers to typed questions *)
(* come over HTTP into a list of the AI SDK, those to spoken ones over the *)
(* socket into the list of the page, and the first is copied into the      *)
(* second whenever either changes (useTextChat, useConversation).  Asking  *)
(* for a session, or opening another conversation, replaces both while a   *)
(* question may be under way.  ChatSession has the sessions themselves:    *)
(* here a session:start is answered with the latest conversation.          *)
(***************************************************************************)
EXTENDS Integers, Sequences, FiniteSets

CONSTANTS Conversations, NoConversation, MaxQuestions,
  MaxBusy  \* questions so far and opens on their way
ASSUME NoneIsOpen == NoConversation \notin Conversations

VARIABLES
  stores,  \* sessionStore and conversation.state
  list,    \* conversation.messages
  sdk,     \* textChat.messages
  asking,     \* the request of the SDK
  ending,  \* questions whose request was stopped, until the SDK says so
  spoken,  \* the question that is answered by voice
  said,    \* by question: its conversation and the rows stored
  opens,   \* session:start messages and history requests on their way
  newest,  \* the latest conversation of the persona
  redone,  \* ghost: answers that were asked for again
  unlike   \* ghost: why the list may differ from the conversation

chatPageVars ==
  <<stores, list, sdk, asking, ending, spoken, said, opens, newest, redone, unlike>>

Questions == 1..MaxQuestions
Somewhere == Conversations \cup {NoConversation}
Messages == {"user", "assistant"} \X Questions
NoAsk == [at |-> "none", n |-> 0, in |-> NoConversation]
Rows == {"none", "open", "alone", "both", "refused"}
Opens == [kind : {"start", "fresh", "ready", "history", "rows"}, in : Somewhere,
          rows : Seq(Messages)]

ChatPageTypeOK ==
  /\ stores \in [in : Somewhere, loading : BOOLEAN, talk : {"idle", "thinking"},
                 active : BOOLEAN]
  /\ list \in Seq(Messages) /\ sdk \in Seq(Messages)
  /\ asking \in [at : {"none", "submitted", "accepted", "streaming"}, n : 0..MaxQuestions,
              in : Somewhere]
  /\ ending \subseteq [n : Questions, in : Somewhere, met : BOOLEAN]
  /\ spoken \in 0..MaxQuestions
  /\ said \in [Questions -> [in : Somewhere, rows : Rows]]
  /\ \A i \in DOMAIN opens : opens[i] \in Opens
  /\ newest \in Conversations
  /\ redone \subseteq Questions /\ unlike \subseteq {"raced", "overridden"}

ChatPageInit ==
  /\ \E c \in Conversations :
       /\ newest = c
       /\ stores = [in |-> c, loading |-> FALSE, talk |-> "idle", active |-> FALSE]
  /\ list = <<>> /\ sdk = <<>> /\ asking = NoAsk /\ ending = {} /\ spoken = 0
  /\ said = [n \in Questions |-> [in |-> NoConversation, rows |-> "none"]]
  /\ opens = <<>> /\ redone = {} /\ unlike = {}

-----------------------------------------------------------------------------
\* The rows of a conversation, oldest first.
RowsOf(c) ==
  LET stored(n) ==
        IF said[n].in # c \/ said[n].rows \in {"none", "refused"} THEN <<>>
        ELSE IF said[n].rows \in {"open", "alone"} THEN << <<"user", n>> >>
        ELSE << <<"user", n>>, <<"assistant", n>> >>
      upTo[n \in 0..MaxQuestions] == IF n = 0 THEN <<>> ELSE upTo[n - 1] \o stored(n)
  IN  upTo[MaxQuestions]
Has(s, m) == \E i \in DOMAIN s : s[i] = m

\* syncMessages: what the SDK has and the page has not joins the end.
Synced(l, s) == l \o SelectSeq(s, LAMBDA m : ~Has(l, m))
PageShows(l, s) == sdk' = s /\ list' = Synced(l, s)

\* reset: the request is stopped, the SDK tells so later.
Stopped ==
  /\ asking' = NoAsk
  /\ ending' = IF asking.at = "none" THEN ending
               ELSE ending \cup {[n |-> asking.n, in |-> asking.in,
                                  met |-> asking.at = "streaming"]}
Under == {n \in Questions : said[n].rows = "open"}
Accepted(n, c) ==
  said' = [said EXCEPT ![n] =
             [in |-> IF c = NoConversation THEN newest ELSE c, rows |-> "open"]]
Next0 == {n \in Questions :
            said[n].rows = "none" /\ n # asking.n /\ \A e \in ending : e.n # n}
\* A question is numbered when it is asked.
Asked(n) == n \in Next0 /\ (\A k \in Next0 : n <= k) /\ n + Len(opens) <= MaxBusy

-----------------------------------------------------------------------------
(* Typed questions.                                                        *)
Question(l, n) ==
  /\ Asked(n) /\ asking.at = "none" /\ ending = {}
  /\ asking' = [at |-> "submitted", n |-> n, in |-> stores.in]
  /\ PageShows(l, Append(sdk, <<"user", n>>))
  /\ stores' = [stores EXCEPT !.talk = "thinking", !.active = TRUE]
  /\ UNCHANGED <<ending, spoken, said, opens, newest, unlike>>
OnSendText(n) ==
  /\ ~stores.loading /\ stores.talk = "idle" /\ spoken = 0
  /\ Question(list, n) /\ UNCHANGED redone
\* The question a search left is asked half a second after the page asked for a
\* new conversation, whether it has it by then or not.
SendDraft(n) == stores.loading /\ Question(list, n) /\ UNCHANGED redone
\* The last answer leaves the list of the page, not that of the SDK.
HandleRegenerate(n) ==
  /\ list # <<>> /\ list[Len(list)][1] = "assistant" /\ spoken = 0
  /\ LET last == list[Len(list)]
     IN  /\ Question(SubSeq(list, 1, Len(list) - 1), n)
         /\ redone' = IF Has(sdk, last) THEN redone ELSE redone \cup {last[2]}

\* ChatController finds the conversation and stores the question.
QuestionStored ==
  /\ asking.at = "submitted" /\ asking' = [asking EXCEPT !.at = "accepted"]
  /\ Accepted(asking.n, asking.in)
  /\ UNCHANGED <<stores, list, sdk, ending, spoken, opens, newest, redone, unlike>>
\* A refused question stays on the page.
OnChatError ==
  /\ asking.at = "submitted" /\ asking' = NoAsk
  /\ said' = [said EXCEPT ![asking.n].rows = "refused"]
  /\ stores' = [stores EXCEPT !.active = FALSE, !.talk = "idle"]
  /\ PageShows(list, sdk) /\ UNCHANGED <<ending, spoken, opens, newest, redone, unlike>>
\* The answer begins, with the conversation it is of.
Streams ==
  /\ asking.at = "accepted" /\ asking' = [asking EXCEPT !.at = "streaming"]
  /\ PageShows(list, Append(sdk, <<"assistant", asking.n>>))
  /\ UNCHANGED <<stores, ending, spoken, said, opens, newest, redone, unlike>>
OnFinish ==
  /\ asking.at = "streaming" /\ asking' = NoAsk
  /\ said' = [said EXCEPT ![asking.n].rows = "both"]
  /\ stores' = [stores EXCEPT !.in = said[asking.n].in, !.active = FALSE, !.talk = "idle"]
  /\ PageShows(list, sdk) /\ UNCHANGED <<ending, spoken, opens, newest, redone, unlike>>
\* A stopped request finishes too, with what the page shows by then.
OnStopped(e) ==
  /\ said[e.n].rows # "none" /\ ending' = ending \ {e}
  /\ stores' = [stores EXCEPT !.in = IF e.met THEN said[e.n].in ELSE @,
                              !.active = FALSE, !.talk = "idle"]
  /\ unlike' = IF stores'.in = stores.in THEN unlike ELSE unlike \cup {"overridden"}
  /\ PageShows(list, sdk)
  /\ UNCHANGED <<asking, spoken, said, opens, newest, redone>>
\* A request that is stopped at once reaches the server all the same, or not.
StoppedAtOnce(e) ==
  /\ said[e.n].rows = "none"
  /\ Accepted(e.n, e.in) \/ said' = [said EXCEPT ![e.n].rows = "refused"]
  /\ unlike' = IF Has(list, <<"user", e.n>>) THEN unlike ELSE unlike \cup {"raced"}
  /\ UNCHANGED <<stores, list, sdk, asking, ending, spoken, opens, newest, redone>>
\* The server notices that the request is gone; an answer without a word is not
\* stored.
AnswerStored(n) ==
  /\ n \in Under /\ n # asking.n /\ n # spoken
  /\ \E rows \in {"alone", "both"} :
       /\ said' = [said EXCEPT ![n].rows = rows]
       /\ unlike' = IF \/ said[n].in # stores.in
                      \/ Has(list, <<"assistant", n>>) <=> rows = "both"
                   THEN unlike ELSE unlike \cup {"raced"}
  /\ UNCHANGED <<stores, list, sdk, asking, ending, spoken, opens, newest, redone>>
OnStopText ==
  /\ stores.talk = "thinking" /\ spoken = 0
  /\ Stopped /\ stores' = [stores EXCEPT !.talk = "idle", !.active = FALSE]
  /\ UNCHANGED <<list, sdk, spoken, said, opens, newest, redone, unlike>>

(* Spoken questions.                                                       *)
VoiceStarts(n) ==
  /\ Asked(n) /\ asking.at = "none" /\ ending = {} /\ spoken = 0 /\ ~stores.loading
  /\ opens = <<>> /\ unlike = {}
  /\ spoken' = n /\ said' = [said EXCEPT ![n] = [in |-> stores.in, rows |-> "open"]]
  /\ PageShows(list \o << <<"user", n>>, <<"assistant", n>> >>, sdk)
  /\ stores' = [stores EXCEPT !.talk = "thinking"]
  /\ UNCHANGED <<asking, ending, opens, newest, redone, unlike>>
VoiceEnds ==
  /\ spoken # 0 /\ spoken' = 0 /\ said' = [said EXCEPT ![spoken].rows = "both"]
  /\ stores' = IF stores.active THEN stores ELSE [stores EXCEPT !.talk = "idle"]
  /\ unlike' = IF Has(list, <<"assistant", spoken>>) \/ stores.loading THEN unlike
               ELSE unlike \cup {"raced"}
  /\ UNCHANGED <<list, sdk, asking, ending, opens, newest, redone>>

-----------------------------------------------------------------------------
(* Other conversations.                                                    *)
Sends(kind, c) ==
  /\ Len(opens) + Cardinality(Questions \ Next0) < MaxBusy
  /\ opens' = Append(opens, [kind |-> kind, in |-> c, rows |-> <<>>])
Same == UNCHANGED <<spoken, said, redone, unlike>>
OnNewConversation ==
  /\ Sends("fresh", NoConversation) /\ Stopped /\ PageShows(<<>>, <<>>)
  /\ stores' = [stores EXCEPT !.loading = TRUE, !.active = FALSE]
  /\ UNCHANGED newest /\ Same
OnSelectPersona(c) ==
  /\ Sends("start", NoConversation) /\ Stopped /\ PageShows(<<>>, <<>>)
  /\ stores' = [stores EXCEPT !.in = NoConversation, !.loading = TRUE, !.active = FALSE]
  /\ newest' = c /\ Same
OnChangeMode ==
  /\ Sends("start", NoConversation)
  /\ stores' = [stores EXCEPT !.in = NoConversation, !.loading = TRUE]
  /\ UNCHANGED <<list, sdk, asking, ending, newest>> /\ Same
SelectHistory(c) ==
  /\ Sends("history", c) /\ Same
  /\ UNCHANGED <<stores, list, sdk, asking, ending, newest>>

\* The server answers, by what is stored when it does; "fresh" takes a
\* conversation nothing was said in.
Answers(i) ==
  LET o == opens[i]
      c == IF o.kind = "history" THEN o.in ELSE newest'
  IN  /\ o.kind \in {"start", "fresh", "history"}
      /\ \/ o.kind # "fresh" /\ UNCHANGED newest
         \/ o.kind = "fresh" /\ newest' \in {d \in Conversations : RowsOf(d) = <<>>}
      /\ opens' = [opens EXCEPT ![i] =
           [kind |-> IF o.kind = "history" THEN "rows" ELSE "ready", in |-> c,
            rows |-> RowsOf(c)]]
      /\ UNCHANGED <<stores, list, sdk, asking, ending, spoken, said, redone, unlike>>
Without(i) == SubSeq(opens, 1, i - 1) \o SubSeq(opens, i + 1, Len(opens))
RowsCurrent(o) ==
  IF \/ o.rows # RowsOf(o.in)
     \/ \E n \in Under : said[n].in = o.in /\ n # asking.n /\ n # spoken
     \/ asking.at # "none" \/ ending # {} \/ spoken # 0
  THEN {"raced"} ELSE {}
\* session:ready, in the order of the socket.
OnSessionReady(i) ==
  /\ opens[i].kind = "ready" /\ \A j \in 1..i - 1 : opens[j].kind \in {"history", "rows"}
  /\ opens' = Without(i) /\ Stopped /\ PageShows(opens[i].rows, <<>>)
  /\ stores' = [in |-> opens[i].in, loading |-> FALSE, talk |-> "idle", active |-> FALSE]
  /\ unlike' = RowsCurrent(opens[i]) /\ redone' = {} /\ spoken' = 0
  /\ UNCHANGED <<said, newest>>
\* The rows of the conversation that was clicked, whatever is shown by now.
OnSelectConversation(i) ==
  /\ opens[i].kind = "rows"
  /\ opens' = Append(Without(i), [kind |-> "start", in |-> NoConversation, rows |-> <<>>])
  /\ Stopped /\ PageShows(opens[i].rows, opens[i].rows)
  /\ stores' = [stores EXCEPT !.in = opens[i].in, !.active = FALSE]
  /\ unlike' = RowsCurrent(opens[i]) /\ redone' = {} /\ UNCHANGED <<spoken, said, newest>>

ChatPageNext ==
  \/ \E n \in Questions : \/ OnSendText(n) \/ SendDraft(n) \/ HandleRegenerate(n)
                          \/ VoiceStarts(n) \/ AnswerStored(n)
  \/ QuestionStored \/ OnChatError \/ Streams \/ OnFinish \/ OnStopText \/ VoiceEnds
  \/ \E e \in ending : OnStopped(e) \/ StoppedAtOnce(e)
  \/ OnNewConversation \/ OnChangeMode
  \/ \E c \in Conversations : OnSelectPersona(c) \/ SelectHistory(c)
  \/ \E i \in DOMAIN opens : \/ Answers(i) \/ OnSessionReady(i) \/ OnSelectConversation(i)
ChatPageSpec == ChatPageInit /\ [][ChatPageNext]_chatPageVars

-----------------------------------------------------------------------------
(* A page nothing is on its way to shows its conversation: the rows the    *)
(* server has, once each and in their order, but for refused questions and *)
(* answers asked for again.  It can differ when the rows were read while a *)
(* question was under way, or when a stopped request brought its own       *)
(* conversation back.  The page is thinking only while something that will *)
(* end it is under way.                                                    *)
Settled ==
  /\ ~stores.loading /\ opens = <<>> /\ asking.at = "none" /\ ending = {} /\ spoken = 0
  /\ Under = {} /\ unlike = {}
Kept(m) == said[m[2]].rows # "refused"
ListIsTheConversation ==
  /\ Settled =>
       /\ SelectSeq(list, Kept) =
            SelectSeq(RowsOf(stores.in), LAMBDA m : m[1] = "user" \/ m[2] \notin redone)
  /\ stores.talk = "thinking" => asking.at # "none" \/ ending # {} \/ spoken # 0
  /\ stores.active => asking.at # "none"
=============================================================================
