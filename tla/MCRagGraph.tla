----------------------------- MODULE MCRagGraph -----------------------------
(* RagGraph for model checking: the four profiles of rag-profile.ts.        *)
EXTENDS RagGraph

Realtime == [id |-> "realtime_voice", maxHops |-> 1, allowWeb |-> FALSE,
  useMultiQuery |-> FALSE, routeMode |-> "heuristic", rewriteMode |-> "heuristic",
  rerankMode |-> "score", evaluateMode |-> "heuristic", maxLlm |-> 2, maxEmbed |-> 2]
Balanced == [id |-> "balanced_chat", maxHops |-> 3, allowWeb |-> TRUE,
  useMultiQuery |-> TRUE, routeMode |-> "llm", rewriteMode |-> "llm",
  rerankMode |-> "score", evaluateMode |-> "llm", maxLlm |-> 6, maxEmbed |-> 6]
Research == [id |-> "deep_research", maxHops |-> 4, allowWeb |-> TRUE,
  useMultiQuery |-> TRUE, routeMode |-> "llm", rewriteMode |-> "llm",
  rerankMode |-> "llm", evaluateMode |-> "llm", maxLlm |-> 10, maxEmbed |-> 12]
Debug == [id |-> "search_debug", maxHops |-> 2, allowWeb |-> FALSE,
  useMultiQuery |-> TRUE, routeMode |-> "llm", rewriteMode |-> "llm",
  rerankMode |-> "llm", evaluateMode |-> "heuristic", maxLlm |-> 4, maxEmbed |-> 6]
AllProfiles == {Realtime, Balanced, Research, Debug}

Ask(key) == [key |-> key, mark |-> TRUE]
Name(key) == [key |-> key, mark |-> FALSE]
SomePlans == {<<Name(1), Name(2), Name(3), Name(4), Name(5)>>}
SomeFacts == {<<>>, <<Ask(1), Ask(6)>>}
=============================================================================
