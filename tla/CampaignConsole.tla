--------------------------- MODULE CampaignConsole ---------------------------
(***************************************************************************)
(* The designer of one campaign, open in several pages of the dashboard    *)
(* (CampaignDetail.tsx, Campaigns.tsx), and the requests it makes          *)
(* (campaigns.controller.ts).  Every request reads the campaign in one     *)
(* step and writes it in a later one, and answers arrive in any order.     *)
(*                                                                         *)
(* The editable part of a campaign is one number, that of the edit that    *)
(* wrote it, and the choice of leads.  The blast itself is CampaignRunner; *)
(* here it is claimed, paused and done.  Plan quota, the other timers and  *)
(* the tables of records are modules of their own.                         *)
(***************************************************************************)
EXTENDS Naturals, FiniteSets

CONSTANTS
  Pages,       \* pages of the dashboard that show the campaign
  Editors,     \* those of admins and managers; the others are operators'
  Leads,       \* choices of segments; "none" selects nobody
  MaxEdits,    \* bound: edits of a form
  MaxPresses,  \* bound: presses of a button
  MaxAnswers,  \* bound: loads of a page that are answered and not yet applied
  MaxLosses    \* bound: requests that fail on the way

ConsoleAssumption ==
  /\ Editors \subseteq Pages /\ "none" \in Leads
  /\ MaxEdits \in Nat /\ MaxPresses \in Nat /\ MaxLosses \in Nat
  /\ MaxAnswers \in Nat \ {0}

VARIABLES
  row,         \* the campaign in the database
  page,        \* per page: what it shows and what it waits for
  launch,      \* per page, and the timer: a dispatch or resume under way
  took,        \* what the latest blast took over when it was claimed
  edits, presses, losses

vars == <<row, page, launch, took, edits, presses, losses>>
counts == <<edits, presses, losses>>

Editable == {"draft", "scheduled", "paused"}
Statuses == Editable \cup {"sending", "sent", "cancelled", "gone"}
Content == [text : 0..MaxEdits, leads : Leads]
Ops == {"save", "send", "schedule", "pause", "resume", "cancel", "delete"}
Seen == [status : Statuses, content : Content]
Row == [status : Statuses, content : Content, saves : 0..MaxPresses]

Flow == [op : Ops \cup {"none"},
         stage : {"idle", "patch", "patching", "patched", "confirm", "post", "posting", "posted"},
         form : Content,           \* the form when the button was pressed
         audience : Leads \cup {"?"}, \* whose count the confirmation names
         saved : 0..MaxPresses]    \* the save that this press has made

Page == [known : Statuses,         \* campaign.status
         form : Content,
         audience : Leads \cup {"?"}, \* whose number of leads is shown
         counting : SUBSET [leads : Leads, stale : BOOLEAN],
         loads : BOOLEAN,          \* a load() is on its way to the server
         loaded : SUBSET Seen,      \* the answers on the way back
         flow : Flow]

Launch == [stage : {"idle", "asked", "read"}, from : {"draft", "paused"},
           form : Content,        \* the form its button was pressed on
           must : BOOLEAN,        \* the press was to save first
           need : 0..MaxPresses,  \* the save that it made
           saves : 0..MaxPresses, \* the save it has read
           same : BOOLEAN]        \* what it has read is that form

TypeOK ==
  /\ row \in Row
  /\ page \in [Pages -> Page]
  /\ launch \in [Pages \cup {"timer"} -> Launch]
  /\ took \in [from : {"draft", "paused"}, must : BOOLEAN, need : 0..MaxPresses,
               saves : 0..MaxPresses, same : BOOLEAN]
  /\ edits \in 0..MaxEdits /\ presses \in 0..MaxPresses /\ losses \in 0..MaxLosses

Blank == [text |-> 0, leads |-> "none"]
NoFlow == [op |-> "none", stage |-> "idle", form |-> Blank, audience |-> "?", saved |-> 0]
NoLaunch == [stage |-> "idle", from |-> "draft", form |-> Blank, must |-> FALSE,
             need |-> 0, saves |-> 0, same |-> TRUE]

\* The pages have loaded a campaign that may be edited.
Init ==
  /\ \E s \in Editable, l \in Leads :
       row = [status |-> s, content |-> [text |-> 0, leads |-> l], saves |-> 0]
  /\ page = [p \in Pages |->
       [known |-> row.status, form |-> row.content, audience |-> row.content.leads, counting |-> {},
        loads |-> FALSE, loaded |-> {}, flow |-> NoFlow]]
  /\ launch = [p \in Pages \cup {"timer"} |-> NoLaunch]
  /\ took = [from |-> "draft", must |-> FALSE, need |-> 0, saves |-> 0, same |-> TRUE]
  /\ edits = 0 /\ presses = 0 /\ losses = 0

Show(p, view) == page' = [page EXCEPT ![p] = view]

----------------------------------------------------------------------------
\* The form, the number of leads, loading and polling.

\* Mutant: an answer for an earlier choice of leads is not ignored.
RecountKeeps(view, leads) ==
  [view EXCEPT !.audience = "?", !.counting = @ \cup {[leads |-> leads, stale |-> FALSE]}]

\* The audience effect: the requests made before are stale.
Recount(view, leads) ==
  [view EXCEPT !.audience = "?",
     !.counting = {[leads |-> c.leads, stale |-> TRUE] : c \in @}
                    \cup {[leads |-> leads, stale |-> FALSE]}]

Edit(p, leads) ==
  /\ p \in Editors /\ page[p].known \in Editable /\ edits < MaxEdits
  /\ edits' = edits + 1
  /\ LET view == [page[p] EXCEPT !.form = [text |-> edits + 1, leads |-> leads]]
     IN  Show(p, IF leads = page[p].form.leads THEN view ELSE Recount(view, leads))
  /\ UNCHANGED <<row, launch, took, presses, losses>>

\* audienceCount()
Counted(p) ==
  \E c \in page[p].counting :
    /\ Show(p, [page[p] EXCEPT !.counting = @ \ {c},
                               !.audience = IF c.stale THEN @ ELSE c.leads])
    /\ UNCHANGED <<row, launch, took, counts>>

\* load(): asks for the campaign.  Requests that have not reached the server
\* read the same row and count as one.
Asking(view) == [view EXCEPT !.loads = TRUE]

\* get() answers 404 for a campaign that is gone.
LoadRead(p) ==
  /\ page[p].loads /\ Cardinality(page[p].loaded) < MaxAnswers
  /\ Show(p, [page[p] EXCEPT !.loads = FALSE,
                !.loaded = IF row.status = "gone" THEN @
                           ELSE @ \cup {[status |-> row.status, content |-> row.content]}])
  /\ UNCHANGED <<row, launch, took, counts>>

\* The answer fills the whole form, also over what is being typed.
Loaded(p) ==
  \E c \in page[p].loaded :
    /\ Show(p, Recount([page[p] EXCEPT !.loaded = @ \ {c}, !.known = c.status,
                                       !.form = c.content], c.content.leads))
    /\ UNCHANGED <<row, launch, took, counts>>

\* Mutant: the monitor is refreshed without the campaign.
PollLiveOnly(p) == page[p].known # row.status /\ UNCHANGED vars

\* live(), every two or ten seconds: a status that differs loads the campaign.
\* A late answer could only load it once more, so the answer comes at once.
Poll(p) ==
  /\ row.status \notin {"gone", page[p].known}
  /\ Show(p, Asking(page[p]))
  /\ UNCHANGED <<row, launch, took, counts>>

\* A GET that fails is dropped.
Dropped(p) ==
  /\ losses < MaxLosses
  /\ losses' = losses + 1
  /\ \/ page[p].loads /\ Show(p, [page[p] EXCEPT !.loads = FALSE])
     \/ \E c \in page[p].loaded : Show(p, [page[p] EXCEPT !.loaded = @ \ {c}])
  /\ UNCHANGED <<row, launch, took, edits, presses>>

----------------------------------------------------------------------------
\* The buttons.

\* The buttons a page shows for the status it knows.
Offered(p) ==
  LET s == page[p].known
  IN  {op \in Ops :
        CASE op = "save"     -> p \in Editors /\ s \in Editable
          [] op = "send"     -> s = "draft" \/ (p \in Editors /\ s = "scheduled")
          [] op = "schedule" -> p \in Editors /\ s = "draft"
          [] op = "pause"    -> s = "sending"
          [] op = "resume"   -> s = "paused"
          [] op = "cancel"   -> s = "scheduled"
          [] op = "delete"   -> p \in Editors /\ s # "sending"}

\* save() runs first for these; "Save & Resume" does not call it.
Saves(p, op) == op \in {"save", "send", "schedule"} /\ p \in Editors

Press(p, op) ==
  /\ page[p].flow.op = "none" /\ op \in Offered(p) /\ presses < MaxPresses
  /\ op \in {"send", "schedule"} => page[p].form.leads # "none"
  /\ presses' = presses + 1
  /\ Show(p, [page[p] EXCEPT !.flow =
       [op |-> op, form |-> page[p].form, audience |-> page[p].audience, saved |-> 0,
        stage |-> IF Saves(p, op) THEN "patch" ELSE IF op = "send" THEN "confirm" ELSE "post"]])
  /\ UNCHANGED <<row, launch, took, edits, losses>>

At(p, stage) == page[p].flow.stage = stage

To(p, stage) == Show(p, [page[p] EXCEPT !.flow.stage = stage])

\* The request fails, or is refused; the error is shown and nothing follows.
Fail(p) == Show(p, [page[p] EXCEPT !.flow = NoFlow])

\* The request is answered and the page loads the campaign again.
Finish(p) == Show(p, Asking([page[p] EXCEPT !.flow = NoFlow]))

\* update(): the status is looked at here ...
PatchRead(p) ==
  /\ At(p, "patch")
  /\ IF row.status \in Editable THEN To(p, "patching") ELSE Fail(p)
  /\ UNCHANGED <<row, launch, took, counts>>

\* ... and the whole form written here, whatever the status has become.
PatchWrite(p) ==
  /\ At(p, "patching")
  /\ IF row.status = "gone" THEN Fail(p) /\ UNCHANGED row
     ELSE /\ row' = [row EXCEPT !.content = page[p].flow.form, !.saves = @ + 1]
          /\ Show(p, [page[p] EXCEPT !.flow.stage = "patched", !.flow.saved = row.saves + 1])
  /\ UNCHANGED <<launch, took, counts>>

\* save() returns: loads the campaign and goes on with what was pressed.
PatchAnswer(p) ==
  /\ At(p, "patched")
  /\ CASE page[p].flow.op = "save" -> Finish(p)
       [] page[p].flow.op = "send" -> Show(p, Asking([page[p] EXCEPT !.flow.stage = "confirm"]))
       [] OTHER -> Show(p, Asking([page[p] EXCEPT !.flow.stage = "post"]))
  /\ UNCHANGED <<row, launch, took, counts>>

\* Mutant: what save() returns is not looked at.
PatchLostGoesOn(p) ==
  /\ At(p, "patch") \/ At(p, "patched")
  /\ losses < MaxLosses
  /\ losses' = losses + 1
  /\ IF page[p].flow.op = "save" THEN Fail(p) ELSE To(p, "post")
  /\ UNCHANGED <<row, launch, took, edits, presses>>

\* A save, or its answer, is lost: the press ends there.
PatchLost(p) ==
  /\ At(p, "patch") \/ At(p, "patched")
  /\ losses < MaxLosses
  /\ losses' = losses + 1
  /\ Fail(p)
  /\ UNCHANGED <<row, launch, took, edits, presses>>

Confirm(p, yes) ==
  /\ At(p, "confirm")
  /\ IF yes THEN To(p, "post") ELSE Fail(p)
  /\ UNCHANGED <<row, launch, took, counts>>

\* The conditions of sendNow(), schedule(), pause(), resume(), cancel() and
\* remove(), on the campaign as it is read.
Allowed(op) ==
  CASE op = "send"     -> row.status # "gone" /\ row.content.leads # "none"
    [] op = "schedule" -> row.status \in {"draft", "scheduled"}
    [] op = "pause"    -> row.status = "sending"
    [] op = "resume"   -> row.status # "gone"
    [] op = "cancel"   -> row.status = "scheduled"
    [] op = "delete"   -> row.status \notin {"sending", "gone"}

PostRead(p) ==
  /\ At(p, "post")
  /\ IF Allowed(page[p].flow.op) THEN To(p, "posting") ELSE Fail(p)
  /\ UNCHANGED <<row, launch, took, counts>>

Status(s) == row' = [row EXCEPT !.status = s]

\* sendNow() and resume() start the runner and answer; the others write.  A
\* write of a campaign that is gone throws, and the request with it.
PostWrite(p) ==
  LET f == page[p].flow
  IN  /\ At(p, "posting")
      /\ CASE f.op \in {"send", "resume"} ->
              /\ launch[p].stage = "idle"
              /\ launch' = [launch EXCEPT ![p] =
                   [NoLaunch EXCEPT !.stage = "asked", !.form = f.form, !.need = f.saved,
                      !.must = Saves(p, f.op),
                      !.from = IF f.op = "send" THEN "draft" ELSE "paused"]]
              /\ To(p, "posted") /\ UNCHANGED row
           [] f.op \in {"schedule", "pause", "cancel", "delete"} ->
              /\ IF row.status = "gone" THEN Fail(p) /\ UNCHANGED row
                 ELSE /\ To(p, "posted")
                      /\ Status(CASE f.op = "schedule" -> "scheduled" [] f.op = "pause" -> "paused"
                                  [] f.op = "cancel" -> "cancelled" [] f.op = "delete" -> "gone")
              /\ UNCHANGED launch
      /\ UNCHANGED <<took, counts>>

PostAnswer(p) == At(p, "posted") /\ Finish(p) /\ UNCHANGED <<row, launch, took, counts>>

----------------------------------------------------------------------------
\* The runner: dispatch() and resume() read the campaign, then claim it.

Timer ==
  /\ row.status = "scheduled" /\ launch["timer"].stage = "idle"
  /\ launch' = [launch EXCEPT !["timer"] = [NoLaunch EXCEPT !.stage = "asked"]]
  /\ UNCHANGED <<row, page, took, counts>>

Claimable(from) == IF from = "draft" THEN {"draft", "scheduled"} ELSE {"paused"}

LaunchRead(x) ==
  /\ launch[x].stage = "asked"
  /\ launch' = [launch EXCEPT ![x] =
       IF row.status \in Claimable(@.from) /\ (@.from = "draft" => row.content.leads # "none")
       THEN [@ EXCEPT !.stage = "read", !.saves = row.saves, !.same = row.content = launch[x].form]
       ELSE NoLaunch]
  /\ UNCHANGED <<row, page, took, counts>>

LaunchClaim(x) ==
  /\ launch[x].stage = "read"
  /\ IF row.status \in Claimable(launch[x].from)
     THEN /\ Status("sending")
          /\ took' = [from |-> launch[x].from, must |-> launch[x].must, need |-> launch[x].need,
                      saves |-> launch[x].saves, same |-> launch[x].same]
     ELSE UNCHANGED <<row, took>>
  /\ launch' = [launch EXCEPT ![x] = NoLaunch]
  /\ UNCHANGED <<page, counts>>

BlastDone ==
  /\ row.status = "sending"
  /\ Status("sent")
  /\ UNCHANGED <<page, launch, took, counts>>

----------------------------------------------------------------------------
Server == Timer \/ BlastDone \/ \E x \in DOMAIN launch : LaunchRead(x) \/ LaunchClaim(x)

View(p) == \/ Counted(p) \/ LoadRead(p) \/ Loaded(p) \/ Poll(p) \/ Dropped(p)

Buttons(p) ==
  \/ \E op \in Ops : Press(p, op)
  \/ PatchRead(p) \/ PatchWrite(p) \/ PatchAnswer(p) \/ PatchLost(p)
  \/ \E yes \in BOOLEAN : Confirm(p, yes)
  \/ PostRead(p) \/ PostWrite(p) \/ PostAnswer(p)

Next ==
  \/ Server
  \/ \E p \in Pages : View(p) \/ Buttons(p) \/ \E leads \in Leads : Edit(p, leads)

\* The poll is an interval, and what it asks for is answered in the end.
Fairness ==
  \A p \in Pages :
    WF_vars(Poll(p)) /\ WF_vars(LoadRead(p)) /\ WF_vars(Loaded(p))

Spec == Init /\ [][Next]_vars /\ Fairness

\* The number of leads a page shows, or asks a blast to be confirmed with,
\* belongs to the leads chosen in that form, in whatever order the answers come
\* (CampaignDetail.tsx:401-410, 484).
AudienceFits ==
  \A p \in Pages :
    /\ page[p].audience \in {"?", page[p].form.leads}
    /\ At(p, "confirm") => page[p].flow.audience \in {"?", page[p].flow.form.leads}

\* A blast that an editor starts from the designer carries what this press
\* has saved, or something saved later; a save that is refused, or whose answer
\* is lost, starts nothing (CampaignDetail.tsx:483).
SendsSaved == took.must => took.need > 0 /\ took.saves >= took.need

\* Once the campaign stays as it is, every page comes to show its status,
\* though loads overtake each other and may be lost (CampaignDetail.tsx:389-398).
PagesCatchUp ==
  \A s \in Statuses \ {"gone"} :
    <>[](row.status = s) => <>[](\A p \in Pages : page[p].known = s)

\* "Save & Resume" (CampaignDetail.tsx:842): the blast goes on with the form
\* that the button was pressed on.
ResumeSaves == took.from = "paused" => took.same
=============================================================================
