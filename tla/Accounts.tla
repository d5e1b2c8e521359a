------------------------------ MODULE Accounts ------------------------------
(***************************************************************************)
(* The rows of users, API keys and roles (AuthService, UserService,        *)
(* RbacService).  A change reads the row, sets its field and saves the     *)
(* whole row, two statements that other requests run between: TypeORM's    *)
(* save writes every column that differs from the table, and inserts a     *)
(* row that is no longer there.                                            *)
(***************************************************************************)
EXTENDS Integers, FiniteSets

CONSTANTS Callers,       \* requests that may be under way at a time
          AccountKeys,   \* API keys that can be made; they share their first characters
          MaxAccountOps  \* requests that change something

VARIABLES
  users,     \* app_user
  keys,      \* api_key
  roles,     \* role
  request,   \* by caller: the request under way, what it read, the fields of the
             \* row that others have changed since
  agreed,    \* ghost: what the last requests that answered made of a user
  putBack,   \* ghost: by user, fields put back by a save of an older row
  granted,   \* ghost: roles whose creation answered, until they are deleted
  odd,       \* ghost: roles a failed creation left or a late save brought back
  taken,     \* ghost: a password was replaced by one who did not know it
  accountOps \* requests left

accountVars == <<users, keys, roles, request, agreed, putBack, granted, odd, taken, accountOps>>

AccountNames == {"ann", "bob"}
Secrets == {"one", "two"}
Fields == {"password", "department"}
NoAccount == [password |-> "", department |-> ""]
Accounts == [password : Secrets \cup {""}, department : {"", "sales"}]
RoleNames == {"admin", "editor"}
NoRequest == [at |-> "none", name |-> "ann", field |-> "password", old |-> "", new |-> "",
              row |-> NoAccount, behind |-> {}, fits |-> TRUE]
NoKey == [user |-> "ann", made |-> FALSE, active |-> FALSE, revoked |-> FALSE]

AccountTypeOK ==
  /\ users \in [AccountNames -> Accounts] /\ agreed \in [AccountNames -> Accounts]
  /\ keys \in [AccountKeys -> [user : AccountNames, made : BOOLEAN, active : BOOLEAN,
                               revoked : BOOLEAN]]
  /\ roles \subseteq RoleNames /\ granted \subseteq RoleNames /\ odd \subseteq RoleNames
  /\ request \in [Callers -> [at : {"none", "insert", "find", "save", "insert role",
                                    "new role", "delete role", "save role"},
                       name : AccountNames \cup RoleNames, field : Fields,
                       old : Secrets \cup {""}, new : Secrets \cup {"", "sales"},
                       row : Accounts, behind : SUBSET Fields, fits : BOOLEAN]]
  /\ putBack \in [AccountNames -> SUBSET Fields]
  /\ taken \in BOOLEAN /\ accountOps \in 0..MaxAccountOps

\* The migrations insert the roles that are built in.
AccountInit ==
  /\ users = [n \in AccountNames |-> NoAccount] /\ agreed = users
  /\ keys = [k \in AccountKeys |-> NoKey] /\ roles = {"admin"} /\ granted = roles /\ odd = {}
  /\ request = [c \in Callers |-> NoRequest] /\ taken = FALSE
  /\ putBack = [n \in AccountNames |-> {}] /\ accountOps = MaxAccountOps

-----------------------------------------------------------------------------
Exists(n) == users[n] # NoAccount
Proceed(c, r) ==
  /\ request[c].at = "none" /\ accountOps > 0 /\ accountOps' = accountOps - 1
  /\ request' = [request EXCEPT ![c] = r]
  /\ UNCHANGED <<users, keys, roles, agreed, putBack, granted, odd, taken>>
Ends(c) == request' = [request EXCEPT ![c] = NoRequest]
\* The request answers an error; nothing it has not yet saved is saved.
RequestBreaks(c) ==
  /\ request[c].at # "none" /\ Ends(c)
  /\ odd' = IF request[c].at = "new role" THEN odd \cup {request[c].name} ELSE odd
  /\ UNCHANGED <<users, keys, roles, agreed, putBack, granted, taken, accountOps>>

\* UserService.create: the name is looked up, then inserted; it is unique.
RegisterUser(c, n, secret) ==
  /\ ~Exists(n)
  /\ Proceed(c, [NoRequest EXCEPT !.at = "insert", !.name = n, !.new = secret])
InsertUser(c) ==
  LET r == request[c]  row == [password |-> r.new, department |-> ""]
  IN  /\ r.at = "insert" /\ Ends(c)
      /\ IF Exists(r.name) THEN UNCHANGED <<users, agreed>>
         ELSE /\ users' = [users EXCEPT ![r.name] = row]
              /\ agreed' = [agreed EXCEPT ![r.name] = row]
      /\ UNCHANGED <<keys, roles, putBack, granted, odd, taken, accountOps>>
PasswordMatches(n, secret) == secret # "" /\ users[n].password = secret

\* The old password is compared with one reading of the row, the new one is
\* saved with another.
ChangePassword(c, n, old, new) ==
  /\ PasswordMatches(n, old)
  /\ Proceed(c, [NoRequest EXCEPT !.at = "find", !.name = n, !.old = old, !.new = new])
FindAgain(c) ==
  /\ request[c].at = "find"
  /\ request' = [request EXCEPT ![c] =
       [@ EXCEPT !.at = "save", !.row = users[request[c].name], !.behind = {}]]
  /\ UNCHANGED <<users, keys, roles, agreed, putBack, granted, odd, taken, accountOps>>
\* The user's own profile and the administrator's page both set the department.
UpdateDepartment(c, n, dept) ==
  /\ Exists(n)
  /\ Proceed(c, [NoRequest EXCEPT !.at = "save", !.name = n, !.field = "department",
                                  !.new = dept, !.row = users[n]])
RowOf(r) == [r.row EXCEPT ![r.field] = r.new]
SaveUser(c) ==
  LET r == request[c]
      row == RowOf(r)
      moved == {f \in Fields : row[f] # users[r.name][f]}
  IN  /\ r.at = "save"
      /\ users' = [users EXCEPT ![r.name] = row]
      /\ agreed' = [agreed EXCEPT ![r.name][r.field] = r.new]
      /\ putBack' = [putBack EXCEPT ![r.name] =
           (@ \ {r.field}) \cup (r.behind \ {r.field})]
      /\ taken' = (taken \/ (r.field = "password" /\ r.fits /\ users[r.name].password # r.old))
      /\ request' = [d \in Callers |->
           IF d = c THEN NoRequest
           ELSE IF request[d].name # r.name THEN request[d]
           ELSE [request[d] EXCEPT !.behind = @ \cup moved,
                                   !.fits = @ /\ "password" \notin moved]]
      /\ UNCHANGED <<keys, roles, granted, odd, accountOps>>

-----------------------------------------------------------------------------
MakeApiKey(n, k) ==
  /\ Exists(n) /\ ~keys[k].made
  /\ keys' = [keys EXCEPT ![k] = [user |-> n, made |-> TRUE, active |-> TRUE,
                                  revoked |-> FALSE]]
  /\ UNCHANGED <<users, roles, request, agreed, putBack, granted, odd, taken, accountOps>>
\* Only the caller's own keys are updated; no row updated is an error.
RevocableBy(n, k) == keys[k].made /\ keys[k].user = n
RevokeApiKey(n, k) ==
  /\ Exists(n) /\ RevocableBy(n, k)
  /\ keys' = [keys EXCEPT ![k].active = FALSE,
                          ![k].revoked = @ \/ n = keys[k].user]
  /\ UNCHANGED <<users, roles, request, agreed, putBack, granted, odd, taken, accountOps>>
\* All active keys with the same first characters are compared.
ValidateApiKey(k) == IF keys[k].active THEN {keys[k].user} ELSE {}

-----------------------------------------------------------------------------
\* createRole inserts the row before it looks the permissions up; what replaces
\* the links is AccessRules.
CreateRole(c, code) ==
  /\ code \notin roles
  /\ Proceed(c, [NoRequest EXCEPT !.at = "insert role", !.name = code])
InsertRole(c) ==
  /\ request[c].at = "insert role" /\ roles' = roles \cup {request[c].name}
  /\ IF request[c].name \in roles THEN Ends(c)
     ELSE request' = [request EXCEPT ![c].at = "new role"]
  /\ UNCHANGED <<users, keys, agreed, putBack, granted, odd, taken, accountOps>>
\* The links are in place and the row is read once more: it may be gone.
RoleAnswers(c) ==
  LET code == request[c].name
  IN  /\ request[c].at = "new role" /\ Ends(c)
      /\ granted' = granted \cup ({code} \cap (roles \ odd))
      /\ UNCHANGED <<users, keys, roles, agreed, putBack, odd, taken, accountOps>>
UpdateRole(c, code) ==
  /\ code \in roles /\ Proceed(c, [NoRequest EXCEPT !.at = "save role", !.name = code])
\* A role deleted in the meantime is inserted again, without its links.
SaveRole(c) ==
  LET code == request[c].name
  IN  /\ request[c].at = "save role" /\ Ends(c)
      /\ roles' = roles \cup {code} /\ odd' = odd \cup ({code} \ roles)
      /\ UNCHANGED <<users, keys, agreed, putBack, granted, taken, accountOps>>
Builtin(code) == code = "admin"
DeleteRoleAsked(c, code) ==
  /\ code \in roles /\ ~Builtin(code)
  /\ Proceed(c, [NoRequest EXCEPT !.at = "delete role", !.name = code])
DeleteRoleRow(c) ==
  LET code == request[c].name
  IN  /\ request[c].at = "delete role" /\ Ends(c)
      /\ roles' = roles \ {code} /\ odd' = odd \ {code} /\ granted' = granted \ {code}
      /\ UNCHANGED <<users, keys, agreed, putBack, taken, accountOps>>

AccountNext ==
  \/ \E c \in Callers :
       \/ \E n \in AccountNames, new \in Secrets :
            \/ RegisterUser(c, n, new)
            \/ \E old \in Secrets : ChangePassword(c, n, old, new)
       \/ \E n \in AccountNames, dept \in {"", "sales"} : UpdateDepartment(c, n, dept)
       \/ \E code \in RoleNames :
            CreateRole(c, code) \/ UpdateRole(c, code) \/ DeleteRoleAsked(c, code)
       \/ InsertUser(c) \/ FindAgain(c) \/ SaveUser(c) \/ RequestBreaks(c)
       \/ InsertRole(c) \/ RoleAnswers(c) \/ SaveRole(c) \/ DeleteRoleRow(c)
  \/ \E n \in AccountNames, k \in AccountKeys : MakeApiKey(n, k) \/ RevokeApiKey(n, k)
AccountSpec == AccountInit /\ [][AccountNext]_accountVars

-----------------------------------------------------------------------------
(* A user's password and department are what the last request that         *)
(* answered made them, unless a save of an older row put them back; nobody *)
(* changes a password without knowing the one before, unless another       *)
(* change came between; a key lets in the one who made it until it is      *)
(* revoked by that user; a role is one whose creation answered and that    *)
(* was not deleted, but for what failed creations leave and late saves     *)
(* bring back, and the roles that are built in stay.                       *)
AccountsStand ==
  /\ \A n \in AccountNames : \A f \in Fields \ putBack[n] : users[n][f] = agreed[n][f]
  /\ ~taken
  /\ \A k \in AccountKeys : ValidateApiKey(k) =
       IF keys[k].made /\ ~keys[k].revoked THEN {keys[k].user} ELSE {}
  /\ granted \subseteq roles /\ "admin" \in granted
  /\ roles \subseteq granted \cup odd \cup
       {request[c].name : c \in {d \in Callers : request[d].at = "new role"}}
=============================================================================
