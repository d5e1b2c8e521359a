------------------------- MODULE ConversationMemory -------------------------
(***************************************************************************)
(* What a conversation keeps of its turns: the message rows                *)
(* (ConversationService.addMessage), the window and the rolling summary in *)
(* Redis (ShortTermMemoryService) and the long-term memory behind its      *)
(* circuit breaker (LongTermMemoryService), written by the two halves of   *)
(* the turn protocol (TurnSideEffectService), over HTTP (ChatController)   *)
(* or a realtime session.                                                  *)
(*                                                                         *)
(* Every Redis command is a step.  The reply's memory is written after the *)
(* turn has ended, so the next turn may already be running.  The summary   *)
(* is a text with a limit: it is measured here in lines, one for a message *)
(* that was folded into it (the first characters of its text).             *)
(***************************************************************************)
EXTENDS Integers, Sequences, SequencesExt, FiniteSets

CONSTANTS MaxTalks,      \* turns of the conversation
          WindowLimit,   \* SHORT_MEMORY_WINDOW_SIZE
          SummaryLimit,  \* MAX_SUMMARY_CHARS, in lines
          KeepHead,      \* headBudget: what a full summary keeps of itself
          KeepTail,      \* keepTail: and what it takes of the overflow
          Threshold,     \* failures that open a circuit
          MaxTalkFaults  \* failing writes and calls, expiries, crashes
ASSUME TalkCounts ==
  /\ {MaxTalks, WindowLimit, Threshold, MaxTalkFaults, KeepHead, KeepTail} \subseteq Nat
  /\ SummaryLimit \in Nat /\ KeepHead + KeepTail <= SummaryLimit

Talks == 1..MaxTalks
Roles == {"user", "assistant"}
Items == Talks \X Roles
Folding == {"overflow", "fold", "set", "trim", "seed"}

VARIABLES
  talk,    \* by turn: where it is, the number read, what it is to fold
  log,     \* the rows of conversation_message, and whether it was deleted
  memory,  \* the window (newest first), the summary, the circuit; ghosts: what was
           \* pushed, and how many lines from the end of the summary it was folded
  longTerm,\* the circuit of the long-term memory and the captured turns
  talkFaults,  \* failures so far
  raced    \* ghost: which pairs of steps ran past each other

talkVars == <<talk, log, memory, longTerm, talkFaults, raced>>

NoTalk == [at |-> "none", role |-> "user", seq |-> 0, over |-> <<>>, prev |-> <<>>,
           reply |-> FALSE]
\* Not folded yet; folded, and too many lines ago to be kept for certain.
Unfolded == 0
Old == KeepHead + 1

TalkTypeOK ==
  /\ talk \in [Talks -> [at : {"none", "number", "row", "push", "run", "refresh", "context",
                               "capture", "capturing", "done"} \cup Folding,
                         role : Roles, seq : 0..(2 * MaxTalks), over : Seq(Items),
                         prev : Seq(Items), reply : BOOLEAN]]
  /\ log \in [rows : SUBSET [item : Items, seq : 0..(2 * MaxTalks)], deleted : BOOLEAN]
  /\ memory \in [window : Seq(Items), summary : Seq(Items), pushed : SUBSET Items,
                 age : [Items -> 0..Old], fails : 0..Threshold, open : BOOLEAN]
  /\ longTerm \in [fails : 0..Threshold, open : BOOLEAN, probe : 0..MaxTalks]
  /\ talkFaults \in 0..MaxTalkFaults
  /\ raced \subseteq {"number", "memory"}

TalkInit ==
  /\ talk = [t \in Talks |-> NoTalk] /\ log = [rows |-> {}, deleted |-> FALSE]
  /\ memory = [window |-> <<>>, summary |-> <<>>, pushed |-> {},
               age |-> [i \in Items |-> Unfolded], fails |-> 0, open |-> FALSE]
  /\ longTerm = [fails |-> 0, open |-> FALSE, probe |-> 0]
  /\ talkFaults = 0 /\ raced = {}

TalkGoes(t, at) == talk' = [talk EXCEPT ![t].at = at]
Done(t) == talk' = [talk EXCEPT ![t] = [NoTalk EXCEPT !.at = "done"]]
TalkFault == talkFaults < MaxTalkFaults /\ talkFaults' = talkFaults + 1
OtherTalks(t, ats) == {u \in Talks \ {t} : talk[u].at \in ats}
Race(why, others) == raced' = raced \cup (IF others = {} THEN {} ELSE {why})

-----------------------------------------------------------------------------
\* The rows.
OnTurnStart(t) ==
  /\ talk[t].at = "none" /\ \A u \in 1..(t - 1) : talk[u].at # "none"
  /\ TalkGoes(t, "number") /\ UNCHANGED <<log, memory, longTerm, talkFaults, raced>>
GetNextMessageSeq(t) ==
  /\ talk[t].at = "number"
  /\ talk' = [talk EXCEPT ![t].at = "row",
                ![t].seq = CHOOSE n \in 0..(2 * MaxTalks) :
                  /\ \A r \in log.rows : r.seq < n
                  /\ n = 0 \/ \E r \in log.rows : r.seq = n - 1]
  /\ Race("number", OtherTalks(t, {"row"}))
  /\ UNCHANGED <<log, memory, longTerm, talkFaults>>
\* A reply without text is saved and leaves no memory.
AddMessage(t) ==
  LET s == talk[t]
  IN  /\ s.at = "row" /\ ~log.deleted
      /\ log' = [log EXCEPT !.rows = @ \cup {[item |-> <<t, s.role>>, seq |-> s.seq]}]
      /\ IF s.role = "user" \/ s.reply
         THEN talk' = [talk EXCEPT ![t] = [NoTalk EXCEPT !.at = "push", !.role = s.role]]
         ELSE Done(t)
      /\ UNCHANGED <<memory, longTerm, talkFaults, raced>>
\* A user row that is not saved refuses the turn; a reply is only missed.
AddMessageFails(t) ==
  /\ talk[t].at \in {"number", "row"}
  /\ IF log.deleted THEN UNCHANGED talkFaults ELSE TalkFault
  /\ Done(t) /\ UNCHANGED <<log, memory, longTerm, raced>>
DeleteConversation ==
  /\ ~log.deleted /\ TalkFault
  /\ log' = [rows |-> {}, deleted |-> TRUE]
  /\ UNCHANGED <<talk, memory, longTerm, raced>>
\* The agent ends: completed or failed, with or without text, or interrupted;
\* an interrupted turn without text has no row.
AgentEnds(t, reply, interrupted) ==
  /\ talk[t].at = "run"
  /\ IF reply \/ ~interrupted
     THEN talk' = [talk EXCEPT ![t] = [NoTalk EXCEPT !.at = "number", !.role = "assistant",
                                                     !.reply = reply]]
     ELSE Done(t)
  /\ UNCHANGED <<log, memory, longTerm, talkFaults, raced>>

-----------------------------------------------------------------------------
\* appendMessage: push, read the overflow, fold it, trim.
AfterAppend(t) == IF talk[t].role = "user" THEN "run" ELSE "refresh"
Worked(m) == [m EXCEPT !.fails = 0]

\* foldOverflowIntoSummary: a summary that would be too long keeps its own end
\* and takes the beginning of the overflow (of more lines at once than KeepTail
\* the last are lost).
FirstLines(s, n) == SubSeq(s, 1, IF Len(s) < n THEN Len(s) ELSE n)
LastLines(s, n) == SubSeq(s, IF Len(s) < n THEN 1 ELSE (Len(s) - n) + 1, Len(s))
SummaryFits(prev, over) == Len(prev) + Len(over) <= SummaryLimit
Taken(prev, over) == IF SummaryFits(prev, over) THEN over
                     ELSE FirstLines(over, IF prev = <<>> THEN SummaryLimit ELSE KeepTail)
\* Mutant: the summary is cut at its end, like every other text.
FoldAndSlice(prev, over) == FirstLines(prev \o over, SummaryLimit)
Fold(prev, over) ==
  (IF SummaryFits(prev, over) THEN prev ELSE LastLines(prev, KeepHead)) \o Taken(prev, over)
\* Ghost: the lines that are taken are the last ones, the others are as many older.
Aged(age, taken, over) ==
  [i \in Items |->
     IF i \in ToSet(taken) THEN CHOOSE n \in 1..Len(taken) : taken[(Len(taken) - n) + 1] = i
     ELSE IF i \in ToSet(over) THEN Len(over) + KeepHead
     ELSE IF age[i] = Unfolded THEN Unfolded ELSE age[i] + Len(taken)]
CapAge(age) == [i \in Items |-> IF age[i] < Old THEN age[i] ELSE Old]
Write(m, prev, over) ==
  [m EXCEPT !.summary = Fold(prev, over),
            !.age = CapAge(Aged(@, Taken(prev, over), over))]
LPush(t) ==
  /\ talk[t].at = "push" /\ ~memory.open
  /\ memory' = [memory EXCEPT !.window = <<<<t, talk[t].role>>>> \o @,
                              !.pushed = @ \cup {<<t, talk[t].role>>}]
  /\ Race("memory", OtherTalks(t, Folding))
  /\ TalkGoes(t, "overflow") /\ UNCHANGED <<log, longTerm, talkFaults>>
LRangeOverflow(t) ==
  LET over == SubSeq(memory.window, WindowLimit + 1, Len(memory.window))
  IN  /\ talk[t].at = "overflow"
      /\ talk' = [talk EXCEPT ![t].over = Reverse(over),
                              ![t].at = IF over = <<>> THEN "trim" ELSE "fold"]
      /\ UNCHANGED <<log, memory, longTerm, talkFaults, raced>>
GetSummary(t) ==
  /\ talk[t].at = "fold"
  /\ talk' = [talk EXCEPT ![t].prev = memory.summary, ![t].at = "set"]
  /\ UNCHANGED <<log, memory, longTerm, talkFaults, raced>>
SetSummary(t) ==
  /\ talk[t].at = "set"
  /\ memory' = Write(memory, talk[t].prev, talk[t].over)
  /\ talk' = [talk EXCEPT ![t].at = "trim", ![t].over = <<>>, ![t].prev = <<>>]
  /\ UNCHANGED <<log, longTerm, talkFaults, raced>>
LTrim(t) ==
  /\ talk[t].at = "trim"
  /\ memory' = Worked([memory EXCEPT !.window =
                 FirstLines(@, WindowLimit)])
  /\ TalkGoes(t, AfterAppend(t)) /\ UNCHANGED <<log, longTerm, talkFaults, raced>>

\* refreshSummaryFromWindow: an empty summary is seeded with the older half.
RefreshSummary(t) ==
  LET n == Len(memory.window)
      older == SubSeq(Reverse(memory.window), 1, IF n < 2 THEN 1 ELSE n \div 2)
  IN  /\ talk[t].at = "refresh" /\ ~memory.open
      /\ IF n > 0 /\ memory.summary = <<>>
         THEN talk' = [talk EXCEPT ![t].at = "seed", ![t].over = older] /\ UNCHANGED memory
         ELSE TalkGoes(t, "context") /\ memory' = Worked(memory)
      /\ Race("memory", IF n > 0 /\ memory.summary = <<>> THEN OtherTalks(t, Folding) ELSE {})
      /\ UNCHANGED <<log, longTerm, talkFaults>>
SeedSummary(t) ==
  /\ talk[t].at = "seed"
  /\ memory' = Worked(Write(memory, <<>>, talk[t].over))
  /\ talk' = [talk EXCEPT ![t].at = "context", ![t].over = <<>>]
  /\ UNCHANGED <<log, longTerm, talkFaults, raced>>
\* The owner's last question; it is no part of the conversation's memory.
SetActiveContext(t) ==
  /\ talk[t].at = "context" /\ ~memory.open
  /\ memory' = Worked(memory)
  /\ TalkGoes(t, "capture") /\ UNCHANGED <<log, longTerm, talkFaults, raced>>
\* A failing command ends the call where it is; the caller goes on and no flag
\* of the turn is set.
CallEnds(t) == CASE talk[t].at \in {"refresh", "seed"} -> "context"
                 [] talk[t].at = "context" -> "capture"
                 [] OTHER -> AfterAppend(t)
Calls == {"push", "refresh", "context"}
RedisFails(t) ==
  /\ talk[t].at \in Calls \cup Folding
  /\ talk[t].at \in Calls => ~memory.open
  /\ TalkFault
  /\ memory' = [memory EXCEPT !.fails = IF @ < Threshold THEN @ + 1 ELSE @,
                              !.open = @ \/ memory.fails + 1 >= Threshold]
  /\ talk' = [talk EXCEPT ![t].at = CallEnds(t), ![t].over = <<>>, ![t].prev = <<>>]
  /\ UNCHANGED <<log, longTerm, raced>>
CircuitSkips(t) ==
  /\ talk[t].at \in Calls /\ memory.open
  /\ TalkGoes(t, CallEnds(t)) /\ UNCHANGED <<log, memory, longTerm, talkFaults, raced>>
\* The time is over; the count is kept, so that one more failure opens it again.
CircuitCloses ==
  /\ memory.open /\ memory' = [memory EXCEPT !.open = FALSE]
  /\ UNCHANGED <<talk, log, longTerm, talkFaults, raced>>
\* A conversation is not used for the keys' time to live.
Folders == {t \in Talks : talk[t].at \in Folding}
WindowExpires ==
  /\ memory.window # <<>> /\ TalkFault
  /\ memory' = [memory EXCEPT !.window = <<>>,
                  !.pushed = {i \in @ : memory.age[i] # Unfolded}]
  /\ Race("memory", Folders) /\ UNCHANGED <<talk, log, longTerm>>
SummaryExpires ==
  /\ memory.summary # <<>> /\ TalkFault
  /\ memory' = [memory EXCEPT !.summary = <<>>, !.pushed = @ \cap ToSet(memory.window),
                              !.age = [i \in Items |-> Unfolded]]
  /\ Race("memory", Folders) /\ UNCHANGED <<talk, log, longTerm>>

-----------------------------------------------------------------------------
\* captureFromConversation: while its circuit is open one call at a time probes.
Capture(t) ==
  /\ talk[t].at = "capture"
  /\ IF longTerm.open /\ longTerm.probe # 0 THEN Done(t) /\ UNCHANGED longTerm
     ELSE /\ TalkGoes(t, "capturing")
          /\ longTerm' = IF longTerm.open THEN [longTerm EXCEPT !.probe = t] ELSE longTerm
  /\ UNCHANGED <<log, memory, talkFaults, raced>>
Captured(t) ==
  /\ talk[t].at = "capturing" /\ Done(t)
  /\ longTerm' = [fails |-> 0, open |-> FALSE, probe |-> 0]
  /\ UNCHANGED <<log, memory, talkFaults, raced>>
CaptureFails(t) ==
  /\ talk[t].at = "capturing" /\ TalkFault /\ Done(t)
  /\ longTerm' = [fails |-> IF longTerm.fails < Threshold THEN longTerm.fails + 1
                                                                  ELSE longTerm.fails,
                  open |-> longTerm.open \/ longTerm.fails + 1 >= Threshold, probe |-> 0]
  /\ UNCHANGED <<log, memory, raced>>
\* The process dies: what Redis and the database hold stays.
Crash ==
  /\ TalkFault /\ \E t \in Talks : talk[t].at \notin {"none", "done"}
  /\ talk' = [t \in Talks |-> IF talk[t].at = "none" THEN NoTalk
                              ELSE [NoTalk EXCEPT !.at = "done"]]
  /\ memory' = [memory EXCEPT !.fails = 0, !.open = FALSE]
  /\ longTerm' = [fails |-> 0, open |-> FALSE, probe |-> 0]
  /\ UNCHANGED <<log, raced>>

TalkNext ==
  \/ DeleteConversation \/ CircuitCloses \/ WindowExpires \/ SummaryExpires \/ Crash
  \/ \E t \in Talks :
       \/ OnTurnStart(t) \/ GetNextMessageSeq(t) \/ AddMessage(t) \/ AddMessageFails(t)
       \/ \E reply, interrupted \in BOOLEAN : AgentEnds(t, reply, interrupted)
       \/ LPush(t) \/ LRangeOverflow(t) \/ GetSummary(t) \/ SetSummary(t)
       \/ LTrim(t) \/ RefreshSummary(t) \/ SeedSummary(t) \/ SetActiveContext(t) \/ RedisFails(t) \/ CircuitSkips(t)
       \/ Capture(t) \/ Captured(t) \/ CaptureFails(t)
TalkSpec == TalkInit /\ [][TalkNext]_talkVars

-----------------------------------------------------------------------------
(* A user's message comes before the reply to it, and no two rows have one *)
(* number unless two were numbered at once.  The memory holds nothing the  *)
(* log does not.  The summary has its limit, and it forgets the oldest: a  *)
(* message that reached the window is in it or in the summary as long as   *)
(* it is among the last KeepHead lines that were folded, whatever command  *)
(* failed after it and wherever the process died, unless two turns wrote   *)
(* the memory at once or a key expired.                                    *)
LogAndMemoryAgree ==
  /\ \A r, s \in log.rows :
       /\ r.item[1] = s.item[1] /\ r.item[2] = "user" /\ s.item[2] = "assistant"
            => r.seq < s.seq
       /\ r # s /\ "number" \notin raced => r.seq # s.seq
  /\ ~log.deleted =>
       memory.pushed \subseteq {r.item : r \in log.rows}
  /\ Len(memory.summary) <= SummaryLimit
  /\ "memory" \notin raced =>
       \A i \in memory.pushed :
         memory.age[i] <= KeepHead => i \in ToSet(memory.window) \cup ToSet(memory.summary)
=============================================================================
