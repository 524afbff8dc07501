--------------------------- MODULE PropertyEditor ---------------------------
(***************************************************************************)
(* A property and the administrators who edit it: properties.service.ts,    *)
(* with the page PropertyDetail.tsx, whose panels save their own fields,     *)
(* and Properties.tsx, which deletes it.                                    *)
(*                                                                          *)
(* A page has a copy of the row.  A save is a request on its way; requests   *)
(* arrive in any order, and the page reads the row again when its own has    *)
(* been answered.  A pattern is the set of the paths it matches.            *)
(***************************************************************************)
EXTENDS Integers, FiniteSets

CONSTANTS
  Editors,    \* pages open
  Paths,      \* paths the snippet has reported
  Patterns,   \* sets of paths: the globs in use, and every path by itself
  Rules,      \* patterns a property was set up with, by the API or the seed
  Texts,      \* what a text field may hold; "" is blank
  Domains,    \* hosted subdomains
  MaxMoves,   \* bound: changes of a form, and requests sent
  MaxLeads    \* bound: leads that subscribe

EditorAssumption ==
  /\ Patterns \subseteq SUBSET Paths
  /\ Rules \subseteq [include : SUBSET Patterns, exclude : SUBSET Patterns]
  /\ Paths \in Patterns /\ \A p \in Paths : {p} \in Patterns
  /\ "" \in Texts
  /\ MaxMoves \in Nat /\ MaxLeads \in Nat

Prompt == [include : SUBSET Patterns, exclude : SUBSET Patterns, look : Texts]
Fields == {"prompt", "caps", "call", "site", "secret"}
\* What a page lets the user change; the secret is never read back.
Form   == [prompt : Prompt, caps : Texts, call : Texts, site : Texts,
           secret : Texts]
Panels == {"prompt", "caps", "call", "keys", "toggle"}

VARIABLES
  row,       \* the stored property: fields, hosted domains and verifiedAt
  form,      \* what each page shows in its panels
  listed,    \* the discovered pages as each page shows them: allowed or not
  sent,      \* PATCH requests on their way
  reload,    \* pages whose answer has come and that read the row again
  hosted,    \* activations between their read and their write
  removal,   \* how far a deletion is; "none" when there is none
  exists,    \* the property is there
  parts,     \* its segments, automations and paths are there
  leads,     \* its subscribers
  moves,     \* changes made and requests sent
  \* history
  saved,     \* what the last answered save of a panel said about each field
  toggled    \* the last answered toggle: the path, and what it was to become

vars == <<row, form, listed, sent, reload, hosted, removal, exists, parts,
          leads, moves, saved, toggled>>

\* include and exclude, as the server's list, the snippet and the page read them.
Allowed(prompt, path) ==
  LET include == IF prompt.include = {} THEN {Paths} ELSE prompt.include
  IN  /\ \A g \in prompt.exclude : path \notin g
      /\ \E g \in include : path \in g

NoToggle == [path |-> "", allowed |-> FALSE]
SetUp(rules) ==
  [prompt |-> [include |-> rules.include, exclude |-> rules.exclude, look |-> ""],
   caps |-> "", call |-> "", site |-> "", secret |-> ""]

Init ==
  /\ \E rules \in Rules :
       row = [fields |-> SetUp(rules), domains |-> {}, verified |-> FALSE]
  /\ form = [e \in Editors |-> row.fields]
  /\ listed = [e \in Editors |->
                [p \in Paths |-> Allowed(row.fields.prompt, p)]]
  /\ sent = {}
  /\ reload = {}
  /\ hosted = {}
  /\ removal = "none"
  /\ exists = TRUE
  /\ parts = TRUE
  /\ leads = 0
  /\ moves = 0
  /\ saved = row.fields
  /\ toggled = NoToggle

-----------------------------------------------------------------------------
(* The page.                                                                *)

Edited ==
  /\ moves < MaxMoves /\ moves' = moves + 1
  /\ UNCHANGED <<row, listed, sent, reload, hosted, removal, exists, parts,
                 leads, saved, toggled>>

\* A panel is edited.
Edit(e, f, t) ==
  /\ f \in {"caps", "call", "site", "secret"} /\ form[e][f] # t
  /\ form' = [form EXCEPT ![e][f] = t]
  /\ Edited

Design(e, t) ==
  /\ form[e].prompt.look # t
  /\ form' = [form EXCEPT ![e].prompt.look = t]
  /\ Edited

\* Mutant: a save sends the whole form.
WholeForm(e, panel) == Fields

\* The fields a save of the panel sends; a blank secret is not sent.
Body(e, panel) ==
  CASE panel \in {"prompt", "toggle"} -> {"prompt"}
    [] panel = "keys" -> {"site"} \cup (IF form[e].secret = "" THEN {}
                                                              ELSE {"secret"})
    [] OTHER -> {panel}

Send(e, panel, shown, toggle) ==
  /\ moves < MaxMoves /\ moves' = moves + 1
  /\ sent' = sent \cup {[from |-> e, panel |-> panel, nth |-> moves,
                         sets |-> Body(e, panel), form |-> shown,
                         toggle |-> toggle]}
  /\ UNCHANGED <<row, listed, reload, hosted, removal, exists, parts, leads,
                 saved, toggled>>

\* saveConfig() of the designer, saveTurnstileKeys(), and the panels for the
\* caps and the call domain.
Save(e, panel) ==
  /\ panel \in Panels \ {"toggle"}
  /\ Send(e, panel, form[e], NoToggle)
  /\ UNCHANGED form

\* Mutant: allowing a page drops the exclusion of exactly that page.
TogglesExactly(e, p) ==
  LET prompt == form[e].prompt
  IN  IF listed[e][p] THEN [prompt EXCEPT !.exclude = @ \cup {{p}}]
                      ELSE [prompt EXCEPT !.exclude = @ \ {{p}}]

\* What a toggle makes of the prompt: a blocked page loses every exclusion that
\* matches it, and is included when no pattern covers it.
Toggles(e, p) ==
  LET prompt  == form[e].prompt
      include == IF prompt.include = {} THEN {Paths} ELSE prompt.include
      covered == \E g \in include : p \in g
  IN  IF listed[e][p]
      THEN [prompt EXCEPT !.include = include, !.exclude = @ \cup {{p}}]
      ELSE [prompt EXCEPT !.exclude = {g \in @ : p \notin g},
                          !.include = IF covered THEN include
                                                 ELSE include \cup {{p}}]

\* togglePage(): the whole prompt as the page has it, edits not saved included.
Toggle(e, p) ==
  /\ form' = [form EXCEPT ![e].prompt = Toggles(e, p)]
  /\ Send(e, "toggle", form'[e], [path |-> p, allowed |-> ~listed[e][p]])

\* load(): the prompt and the site key from the row, the secret blank.  The
\* inputs of caps and call domain keep what is in them.
LoadProperty(e) ==
  /\ [page |-> e, what |-> "property"] \in reload
  /\ reload' = reload \ {[page |-> e, what |-> "property"]}
  /\ form' = IF exists
             THEN [form EXCEPT ![e].prompt = row.fields.prompt,
                               ![e].site = row.fields.site,
                               ![e].secret = ""]
             ELSE form
  /\ UNCHANGED <<row, listed, sent, hosted, removal, exists, parts, leads,
                 moves, saved, toggled>>

LoadPages(e) ==
  /\ [page |-> e, what |-> "pages"] \in reload
  /\ reload' = reload \ {[page |-> e, what |-> "pages"]}
  /\ listed' = IF exists
               THEN [listed EXCEPT ![e] =
                       [p \in Paths |-> Allowed(row.fields.prompt, p)]]
               ELSE listed
  /\ UNCHANGED <<row, form, sent, hosted, removal, exists, parts, leads, moves,
                 saved, toggled>>

Reload(e) == {[page |-> e, what |-> w] : w \in {"property", "pages"}}

-----------------------------------------------------------------------------
(* The service.                                                             *)

\* update(): the fields of the body, the others untouched.  A property that is
\* gone answers an error, and the page keeps its form.
Update(r) ==
  /\ r \in sent
  /\ sent' = sent \ {r}
  /\ IF exists
     THEN /\ row' = [row EXCEPT !.fields =
                       [f \in Fields |-> IF f \in r.sets THEN r.form[f] ELSE @[f]]]
          /\ reload' = reload \cup Reload(r.from)
          /\ saved' = [f \in Fields |->
               IF \/ f = r.panel
                  \/ r.panel = "toggle" /\ f = "prompt"
                  \/ r.panel = "keys" /\ f = "site"
                  \/ r.panel = "keys" /\ f = "secret" /\ r.form[f] # ""
               THEN r.form[f] ELSE saved[f]]
          /\ toggled' = IF r.panel = "toggle" THEN r.toggle
                        ELSE IF r.panel = "prompt" THEN NoToggle ELSE toggled
     ELSE UNCHANGED <<row, reload, saved, toggled>>
  /\ UNCHANGED <<form, listed, hosted, removal, exists, parts, leads, moves>>

\* verify(): the property's sites are asked for the worker; one that serves it is
\* enough.
Verify(e) ==
  /\ exists /\ moves < MaxMoves /\ moves' = moves + 1
  /\ \E ok \in BOOLEAN : row' = [row EXCEPT !.verified = ok]
  /\ reload' = reload \cup Reload(e)
  /\ UNCHANGED <<form, listed, sent, hosted, removal, exists, parts, leads,
                 saved, toggled>>

\* activateHostedDomain(): the row is read, the DNS is asked, and the domains
\* that were read are written back with the new one.
Activate(d) ==
  /\ exists /\ moves < MaxMoves /\ moves' = moves + 1
  /\ hosted' = hosted \cup {[domain |-> d, read |-> row.domains]}
  /\ UNCHANGED <<row, form, listed, sent, reload, removal, exists, parts,
                 leads, saved, toggled>>

Activated(a) ==
  /\ a \in hosted
  /\ hosted' = hosted \ {a}
  /\ \/ /\ exists /\ a.domain \notin a.read
        /\ row' = [row EXCEPT !.domains = a.read \cup {a.domain}]
     \/ UNCHANGED row   \* the DNS does not point here, or it was there already
  /\ UNCHANGED <<form, listed, sent, reload, removal, exists, parts, leads,
                 moves, saved, toggled>>

\* A visitor subscribes.
Subscribe ==
  /\ exists /\ leads < MaxLeads
  /\ leads' = leads + 1
  /\ UNCHANGED <<row, form, listed, sent, reload, hosted, removal, exists,
                 parts, moves, saved, toggled>>

\* remove(): the leads are counted, then the parts are deleted, then the row.
RemoveCount ==
  /\ exists /\ removal = "none" /\ leads = 0
  /\ removal' = "counted"
  /\ UNCHANGED <<row, form, listed, sent, reload, hosted, exists, parts, leads,
                 moves, saved, toggled>>

RemoveParts ==
  /\ removal = "counted"
  /\ removal' = "parts"
  /\ parts' = FALSE
  /\ UNCHANGED <<row, form, listed, sent, reload, hosted, exists, leads, moves,
                 saved, toggled>>

\* Mutant: the leads' reference cascades, as that of the paths does.
RemoveCascades ==
  /\ removal = "parts"
  /\ removal' = "none"
  /\ exists' = FALSE
  /\ UNCHANGED <<row, form, listed, sent, reload, hosted, parts, leads, moves,
                 saved, toggled>>

\* The row is deleted, unless a lead has come in between: its reference holds
\* the property, and the request fails with the parts gone.
RemoveRow ==
  /\ removal = "parts"
  /\ removal' = "none"
  /\ exists' = (leads > 0)
  /\ UNCHANGED <<row, form, listed, sent, reload, hosted, parts, leads, moves,
                 saved, toggled>>

Next ==
  \/ \E e \in Editors :
       \/ \E f \in Fields, t \in Texts : Edit(e, f, t)
       \/ \E t \in Texts : Design(e, t)
       \/ \E panel \in Panels : Save(e, panel)
       \/ \E p \in Paths : Toggle(e, p)
       \/ LoadProperty(e)
       \/ LoadPages(e)
       \/ Verify(e)
  \/ \E r \in sent : Update(r)
  \/ \E d \in Domains : Activate(d)
  \/ \E a \in hosted : Activated(a)
  \/ Subscribe
  \/ RemoveCount
  \/ RemoveParts
  \/ RemoveRow

Spec == Init /\ [][Next]_vars

-----------------------------------------------------------------------------
TypeOK ==
  /\ row \in [fields : Form, domains : SUBSET Domains, verified : BOOLEAN]
  /\ form \in [Editors -> Form]
  /\ listed \in [Editors -> [Paths -> BOOLEAN]]
  /\ \A r \in sent : r.from \in Editors /\ r.form \in Form /\ r.sets \subseteq Fields
  /\ hosted \subseteq [domain : Domains, read : SUBSET Domains]
  /\ removal \in {"none", "counted", "parts"}
  /\ exists \in BOOLEAN /\ parts \in BOOLEAN
  /\ leads \in 0 .. MaxLeads /\ moves \in 0 .. MaxMoves

\* With pages that are out of date and requests that overtake each other, every
\* field holds what the last save of its own panel said: the save of another
\* panel, by whoever, does not write it back, and a blank secret keeps the stored
\* one (PropertyDetail.tsx:308).
PanelsApart == row.fields = saved

\* Until the prompt is saved again, a page that was allowed or blocked with its
\* button is so, whatever patterns there are (PropertyDetail.tsx:332).
ToggleTakes ==
  toggled # NoToggle =>
    (Allowed(row.fields.prompt, toggled.path) <=> toggled.allowed)

\* A lead that subscribes while its property is being deleted keeps its property.
LeadsHaveHome == leads > 0 => exists

\* The three together.
PropertySound == PanelsApart /\ ToggleTakes /\ LeadsHaveHome
=============================================================================
