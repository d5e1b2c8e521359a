------------------------------- MODULE SignIn -------------------------------
(***************************************************************************)
(* Who the tabs of a browser are signed in as.  A tab keeps the user it    *)
(* shows and a token that only its router looks at (stores/auth.ts); what  *)
(* its requests carry is read from localStorage, which all tabs share, at  *)
(* the time they are sent (main.ts, api/client.ts).  An answer is applied  *)
(* whoever is signed in by then.                                           *)
(***************************************************************************)
EXTENDS Integers, Sequences, FiniteSets

CONSTANTS BrowserTabs, Visitors, MaxSignIns, MaxCalls

ASSUME SignBounds == {MaxSignIns, MaxCalls} \subseteq Nat

VARIABLES
  tabs,     \* by tab: its page, the token and the user of its store, whether the
            \* browser is leaving the page
  storage,  \* localStorage: jwt_token, user_info
  issued,   \* by token: whose it is; a token is the number of the sign-in
  expired,  \* tokens past their time
  calls,    \* requests under way
  foreign,  \* ghost: tabs since whose last load another tab wrote localStorage
  late      \* ghost: an answer to a token no longer stored was applied

signVars == <<tabs, storage, issued, expired, calls, foreign, late>>

NoToken == 0
NoUser == "nobody"
Tokens == 1..MaxSignIns
ShownUsers == Visitors \cup {NoUser}
SignedOut == [page |-> "login", token |-> NoToken, user |-> NoUser, leaving |-> FALSE]
TabCalls == [tab : BrowserTabs, kind : {"login", "profile", "other"},
             token : {NoToken} \cup Tokens, for : ShownUsers]

SignTypeOK ==
  /\ tabs \in [BrowserTabs -> [page : {"login", "inside"}, token : {NoToken} \cup Tokens,
                        user : ShownUsers, leaving : BOOLEAN]]
  /\ storage \in [token : {NoToken} \cup Tokens, user : ShownUsers]
  /\ DOMAIN issued \subseteq Tokens /\ \A n \in DOMAIN issued : issued[n] \in Visitors
  /\ expired \subseteq Tokens /\ calls \subseteq TabCalls
  /\ foreign \subseteq BrowserTabs /\ late \in BOOLEAN

SignInit ==
  /\ tabs = [t \in BrowserTabs |-> SignedOut]
  /\ storage = [token |-> NoToken, user |-> NoUser]
  /\ issued = <<>> /\ expired = {} /\ calls = {} /\ foreign = {} /\ late = FALSE

SignedInAs(token) == IF token = NoToken THEN NoUser ELSE issued[token]
SendCall(t, kind, token, for) ==
  LET call == [tab |-> t, kind |-> kind, token |-> token, for |-> for]
  IN  /\ Cardinality(calls) < MaxCalls /\ call \notin calls
      /\ calls' = calls \cup {call}
      /\ UNCHANGED <<tabs, storage, issued, expired, foreign, late>>
OthersSee(t) == foreign' = foreign \cup (BrowserTabs \ {t})

\* One sign-in at a time: the button is off while one is under way.
Login(t, u) ==
  /\ tabs[t].page = "login" /\ Len(issued) < MaxSignIns
  /\ \A c \in calls : c.tab = t => c.kind # "login"
  /\ SendCall(t, "login", NoToken, u)
SetToken(t, token, u) ==
  /\ tabs' = [tabs EXCEPT ![t] = [@ EXCEPT !.token = token, !.user = u]]
  /\ storage' = [token |-> token, user |-> u]
  /\ foreign' = (foreign \cup BrowserTabs) \ {t} /\ late' = FALSE
LoginAnswered(c) ==
  LET token == Len(issued) + 1
  IN  /\ c \in calls /\ c.kind = "login" /\ token \in Tokens
      /\ issued' = Append(issued, c.for) /\ SetToken(c.tab, token, c.for)
      /\ calls' = calls \ {c} /\ UNCHANGED expired
LoginFails(c) ==
  /\ c \in calls /\ c.kind = "login" /\ calls' = calls \ {c}
  /\ UNCHANGED <<tabs, storage, issued, expired, foreign, late>>
\* The page is entered a moment later; the router asks the store for a token.
Enter(t) ==
  /\ tabs[t].page = "login" /\ tabs[t].token # NoToken
  /\ tabs' = [tabs EXCEPT ![t].page = "inside"]
  /\ UNCHANGED <<storage, issued, expired, calls, foreign, late>>
RequestFrom(t, kind) ==
  /\ tabs[t].page = "inside" /\ kind # "login" /\ SendCall(t, kind, storage.token, NoUser)
Expire(token) ==
  /\ token \in DOMAIN issued /\ token \notin expired /\ expired' = expired \cup {token}
  /\ UNCHANGED <<tabs, storage, issued, calls, foreign, late>>
TokenRefused(c) == c.token = NoToken \/ c.token \in expired
\* Whoever is signed in now is signed out, and the tab goes to the login page.
Unauthorized(c) ==
  /\ c \in calls /\ c.kind # "login" /\ TokenRefused(c) /\ calls' = calls \ {c}
  /\ storage' = [token |-> NoToken, user |-> NoUser]
  /\ tabs' = [tabs EXCEPT ![c.tab].leaving = tabs[c.tab].page # "login"]
  /\ OthersSee(c.tab) /\ late' = (late \/ (c.token # storage.token))
  /\ UNCHANGED <<issued, expired>>
\* The profile that is read or saved is the one the page shows from now on.
AnswerArrives(c) ==
  /\ c \in calls /\ c.kind # "login" /\ ~TokenRefused(c) /\ calls' = calls \ {c}
  /\ IF c.kind = "profile"
     THEN /\ tabs' = [tabs EXCEPT ![c.tab].user = SignedInAs(c.token)]
          /\ storage' = [storage EXCEPT !.user = SignedInAs(c.token)]
          /\ OthersSee(c.tab) /\ late' = (late \/ (c.token # storage.token))
     ELSE UNCHANGED <<tabs, storage, foreign, late>>
  /\ UNCHANGED <<issued, expired>>
\* The store is read from localStorage again; its requests are given up.
LoadTab(t) ==
  /\ tabs' = [tabs EXCEPT ![t] =
       [page |-> IF storage.token = NoToken THEN "login" ELSE "inside",
        token |-> storage.token, user |-> storage.user, leaving |-> FALSE]]
  /\ calls' = {c \in calls : c.tab # t} /\ foreign' = foreign \ {t}
  /\ UNCHANGED <<storage, issued, expired, late>>
Logout(t) ==
  /\ tabs[t].page = "inside" /\ tabs' = [tabs EXCEPT ![t] = SignedOut]
  /\ storage' = [token |-> NoToken, user |-> NoUser] /\ OthersSee(t)
  /\ UNCHANGED <<issued, expired, calls, late>>

SignNext ==
  \/ \E t \in BrowserTabs : \/ \E u \in Visitors : Login(t, u)
                     \/ \E kind \in {"profile", "other"} : RequestFrom(t, kind)
                     \/ Enter(t) \/ LoadTab(t) \/ Logout(t)
  \/ \E c \in calls : \/ LoginAnswered(c) \/ LoginFails(c)
                      \/ Unauthorized(c) \/ AnswerArrives(c)
  \/ \E n \in Tokens : Expire(n)
SignSpec == SignInit /\ [][SignNext]_signVars

-----------------------------------------------------------------------------
(* A tab shows the user its requests are made as, and a tab that is signed *)
(* out makes none, unless another tab has signed in or out or an answer to *)
(* an earlier sign-in came in since.                                       *)
ShowsWhoItIs == \A t \in BrowserTabs \ foreign :
  ~late /\ ~tabs[t].leaving =>
    /\ tabs[t].token = storage.token \/ tabs[t].page = "login"
    /\ tabs[t].page = "inside" => tabs[t].user = SignedInAs(storage.token)
    /\ tabs[t].token = NoToken => storage.token = NoToken
=============================================================================
