------------------------------- MODULE Accounts -------------------------------
(***************************************************************************)
(* Users, roles and sessions: sign-in (auth.service.ts), the guard of      *)
(* every request (auth.guard.ts, pages.ts), the administration of users    *)
(* (settings.controller.ts, Settings.tsx) and what the dashboard offers    *)
(* to whom (Layout.tsx, api.ts).                                           *)
(*                                                                         *)
(* A token holds a copy of the account as it was at sign-in and is valid   *)
(* for Ttl; the guard looks at nothing else.  Passwords, email addresses   *)
(* and the signature are left out, and one browser is followed per user.   *)
(***************************************************************************)
EXTENDS Naturals, FiniteSets

CONSTANTS
  Users,
  First,        \* the administrator there is from the start
  Properties,
  Whitelists,   \* the choices of pages an administrator may tick
  Ttl,          \* expiresIn
  MaxClock,     \* bound: the clock
  MaxEdits      \* bound: changes of accounts

Roles == {"admin", "manager", "operator", "client"}
PageKeys == {"overview", "properties", "subscribers", "segments", "campaigns",
             "automations", "updates", "troubleshoot", "settings"}

AccountsAssumption ==
  /\ First \in Users /\ Whitelists \subseteq SUBSET PageKeys /\ {} \in Whitelists
  /\ Ttl \in Nat \ {0} /\ MaxClock \in Nat /\ MaxEdits \in Nat

VARIABLES
  clock,
  account,   \* per user: the row, and when it was last changed
  token,     \* per user: what the browser holds
  login,     \* per user: the account a sign-in has read
  saving,    \* per administrator: an update that has passed its checks
  edits

vars == <<clock, account, token, login, saving, edits>>

Access == [role : Roles, props : SUBSET Properties, pages : SUBSET PageKeys]
Unconfined(role) == [role |-> role, props |-> {}, pages |-> {}]
NoAccess == Unconfined("client")

TypeOK ==
  /\ clock \in 0..MaxClock /\ edits \in 0..MaxEdits
  /\ account \in [Users -> [there : BOOLEAN, access : Access, changed : 0..MaxClock]]
  /\ token \in [Users -> [held : BOOLEAN, access : Access, at : 0..MaxClock]]
  /\ login \in [Users -> [busy : BOOLEAN, access : Access]]
  /\ saving \in [Users -> [busy : BOOLEAN, target : Users, access : Access]]

Init ==
  /\ clock = 0 /\ edits = 0
  /\ account = [u \in Users |->
       [there |-> u = First, changed |-> 0,
        access |-> IF u = First THEN Unconfined("admin") ELSE NoAccess]]
  /\ token = [u \in Users |-> [held |-> FALSE, access |-> NoAccess, at |-> 0]]
  /\ login = [u \in Users |-> [busy |-> FALSE, access |-> NoAccess]]
  /\ saving = [u \in Users |-> [busy |-> FALSE, target |-> u, access |-> NoAccess]]

----------------------------------------------------------------------------
\* What a request needs.

\* The kinds of requests of the dashboard: the page it belongs to ("" for the
\* overview and the session), whether it writes, and who its handler serves.
Request == [page : PageKeys \cup {""}, write : BOOLEAN,
            kind : {"plain", "lifecycle"}, needs : {"any", "staff", "admin"}]

Requests ==
  {r \in Request :
     /\ r.kind = "lifecycle" => r.write /\ r.page \in {"campaigns", "segments"} /\ r.needs = "any"
     /\ r.needs # "any" <=> r.page \in {"updates", "troubleshoot", "settings"}}

\* pageForApiPath(): the overview belongs to no page.
PageOf(page) == IF page = "overview" THEN "" ELSE page

\* Mutant: a page of the whitelist is open whatever the role.
AdmitsListed(a, r) ==
  \/ r.page \in a.pages
  \/ /\ a.role = "admin" \/ a.pages = {} \/ r.page = ""
     /\ a.role = "client" => ~r.write
     /\ a.role = "operator" /\ r.write => r.kind = "lifecycle"

\* JwtAuthGuard
Admits(a, r) ==
  /\ a.role # "admin" /\ a.pages # {} => r.page \in a.pages \cup {""}
  /\ a.role = "client" => ~r.write
  /\ a.role = "operator" /\ r.write => r.kind = "lifecycle"

\* assertStaff(), and the handlers that serve administrators only
Serves(a, r) ==
  /\ r.needs = "staff" => a.role \in {"admin", "manager"}
  /\ r.needs = "admin" => a.role = "admin"

\* Mutant: clients find the segments in their menu, which their list forbids.
MenuUnlisted(a) ==
  IF a.role = "client" THEN {"overview", "subscribers", "campaigns", "automations"}
  ELSE {p \in PageKeys : (a.role # "admin" /\ a.pages # {} => p \in a.pages)
                          /\ (a.role = "operator" => p \notin {"properties", "updates",
                                                              "troubleshoot", "settings"})}

\* The menu of Layout
Menu(a) ==
  LET ofRole == CASE a.role = "client" -> {"overview", "subscribers", "campaigns", "automations"}
                  [] a.role = "operator" -> {"overview", "subscribers", "segments",
                                             "campaigns", "automations"}
                  [] OTHER -> PageKeys
  IN  {p \in ofRole : a.role # "admin" /\ a.pages # {} => p \in a.pages}

\* The request a page of the menu lives on.
MainRequest(p) ==
  [page |-> PageOf(p), write |-> FALSE, kind |-> "plain",
   needs |-> IF p \in {"updates", "troubleshoot", "settings"} THEN "staff" ELSE "any"]

----------------------------------------------------------------------------
\* Mutant: a token is good for as long as the browser keeps it.
ValidForEver(u) == token[u].held

Valid(u) == token[u].held /\ clock < token[u].at + Ttl

\* login() reads the account ...
LoginRead(u) ==
  /\ account[u].there /\ ~login[u].busy
  /\ login' = [login EXCEPT ![u] = [busy |-> TRUE, access |-> account[u].access]]
  /\ UNCHANGED <<clock, account, token, saving, edits>>

\* ... and signs what it has read.
LoginSign(u) ==
  /\ login[u].busy
  /\ token' = [token EXCEPT ![u] = [held |-> TRUE, access |-> login[u].access, at |-> clock]]
  /\ login' = [login EXCEPT ![u].busy = FALSE]
  /\ UNCHANGED <<clock, account, saving, edits>>

\* Sign out, or the 401 that an expired token gets: clearSession().
SignOut(u) ==
  /\ token[u].held
  /\ token' = [token EXCEPT ![u].held = FALSE]
  /\ UNCHANGED <<clock, account, login, saving, edits>>

IsAdmin(a) == Valid(a) /\ token[a].access.role = "admin"

Scoped(draft) ==
  [role |-> draft.role, pages |-> draft.pages,
   props |-> IF draft.role = "client" THEN draft.props ELSE {}]

Store(u, there, access) ==
  account' = [account EXCEPT ![u] = [there |-> there, access |-> access, changed |-> clock]]

\* createUser()
CreateUser(a, u, draft) ==
  /\ IsAdmin(a) /\ ~account[u].there /\ edits < MaxEdits
  /\ draft.role = "client" => draft.props # {}
  /\ Store(u, TRUE, Scoped(draft))
  /\ edits' = edits + 1
  /\ UNCHANGED <<clock, token, login, saving>>

\* updateUserAccess(): the checks.  The dashboard sends the role, the
\* properties and the pages together.
UpdateRead(a, u, draft) ==
  /\ IsAdmin(a) /\ ~saving[a].busy /\ account[u].there /\ edits < MaxEdits
  /\ a = u => draft.role = "admin"
  /\ draft.role = "client" => draft.props # {}
  /\ saving' = [saving EXCEPT ![a] = [busy |-> TRUE, target |-> u, access |-> Scoped(draft)]]
  /\ edits' = edits + 1
  /\ UNCHANGED <<clock, account, token, login>>

\* Mutant: only what differs from the row that was read is written.
UpdateWriteRoleOnly(a) ==
  LET u == saving[a].target
  IN  /\ saving[a].busy
      /\ saving' = [saving EXCEPT ![a].busy = FALSE]
      /\ Store(u, account[u].there, [account[u].access EXCEPT !.role = saving[a].access.role])
      /\ UNCHANGED <<clock, token, login, edits>>

\* updateUserAccess(): the update; it throws when the user is gone.
UpdateWrite(a) ==
  LET u == saving[a].target
  IN  /\ saving[a].busy
      /\ saving' = [saving EXCEPT ![a].busy = FALSE]
      /\ IF account[u].there THEN Store(u, TRUE, saving[a].access) ELSE UNCHANGED account
      /\ UNCHANGED <<clock, token, login, edits>>

\* deleteUser()
DeleteUser(a, u) ==
  /\ IsAdmin(a) /\ a # u /\ account[u].there /\ edits < MaxEdits
  /\ Store(u, FALSE, NoAccess)
  /\ edits' = edits + 1
  /\ UNCHANGED <<clock, token, login, saving>>

\* Requests under way are short against the life of a token.
Tick ==
  /\ clock < MaxClock
  /\ \A u \in Users : ~login[u].busy /\ ~saving[u].busy
  /\ clock' = clock + 1
  /\ UNCHANGED <<account, token, login, saving, edits>>

Drafts == [role : Roles, props : SUBSET Properties, pages : Whitelists]

Next ==
  \/ Tick
  \/ \E u \in Users : LoginRead(u) \/ LoginSign(u) \/ SignOut(u) \/ UpdateWrite(u)
  \/ \E a, u \in Users :
       \/ DeleteUser(a, u)
       \/ \E draft \in Drafts : CreateUser(a, u, draft) \/ UpdateRead(a, u, draft)

Spec == Init /\ [][Next]_vars

\* A client is confined to at least one property and nobody else is confined,
\* also when two administrators save the same user at once
\* (settings.controller.ts:208-224).
ClientsScoped ==
  \A u \in Users :
    account[u].there => (account[u].access.role = "client" <=> account[u].access.props # {})

\* Rights that were taken away, or an account that was removed, still work in
\* sessions that were open, but no longer than a token lives (app.module.ts:33,
\* auth.guard.ts:63-70).
RightsLapse ==
  \A u \in Users :
    Valid(u) /\ (~account[u].there \/ token[u].access # account[u].access)
      => clock < account[u].changed + Ttl

\* The whitelist of pages "can only NARROW access" (pages.ts:1-6), and whatever
\* the menu offers is then answered: menu, guard and handlers agree.
MenuFits ==
  \A u \in Users : token[u].held =>
    LET a == token[u].access
    IN  /\ \A r \in Requests : Admits(a, r) => Admits([a EXCEPT !.pages = {}], r)
        /\ \A p \in Menu(a) : Admits(a, MainRequest(p)) /\ Serves(a, MainRequest(p))

\* The three together.
AccountsSound == ClientsScoped /\ RightsLapse /\ MenuFits
=============================================================================
