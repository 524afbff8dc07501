-------------------------------- MODULE OptIn --------------------------------
(***************************************************************************)
(* The opt-in snippet on a visitor's pages (apps/snippet/src/pushvault.ts).*)
(* Tabs of one browser share localStorage, the permission and the push     *)
(* subscription; each page load has its own script, with its own timers,   *)
(* prompts and requests in flight.  Closing a tab loses all of that.       *)
(*                                                                         *)
(* Clock times are left out: a timer may fire whenever it is pending, and  *)
(* whether the re-ask cooldown has passed since the "no" that the script   *)
(* has read is a choice.  The design of the prompt, its texts and its      *)
(* placement are left out; whether the page matches, and whether the       *)
(* device, source, country and language do, are choices of each page load, *)
(* and what the two gates answer is a choice as well.                      *)
(***************************************************************************)
EXTENDS Naturals, FiniteSets

CONSTANTS
  Tabs,
  Owners,        \* the configurations an owner of the property may have chosen
  MaxLoads,      \* bound: page loads
  MaxPrompts     \* bound: prompts rendered in a page view

Configs == [reask : BOOLEAN, samePage : BOOLEAN, autoClose : BOOLEAN,
            yes : {"subscribe", "link"}, ios : BOOLEAN,
            visitor : {"all", "new", "returning"},
            human : BOOLEAN, farm : BOOLEAN, turnstile : BOOLEAN]

OptInAssumption ==
  Owners \subseteq Configs /\ MaxLoads \in Nat /\ MaxPrompts \in Nat \ {0}

VARIABLES
  cfg,          \* what the property's owner has configured
  choice,       \* pv_choice_<key>: "none", "no", "subscribed"
  seen,         \* pv_seen_<key>
  permission,   \* Notification.permission
  pushSub,      \* the browser holds a push subscription
  lead,         \* the server's record: "none", "active", "unsubscribed"
  tab,          \* per tab: the script of its page
  loads

vars == <<cfg, choice, seen, permission, pushSub, lead, tab, loads>>
storage == <<choice, seen>>
browser == <<permission, pushSub, lead>>

Prompts == 1..MaxPrompts
Stages == {"closed", "off", "config", "quiet", "waiting", "human", "farm",
           "turnstile", "shown", "hidden"}
Events == {"fp", "fpTimer", "ts", "tsTimer"}

Script == [stage    : Stages,
           prior    : {"none", "no"},        \* the choice init() has read
           pending  : SUBSET Events,         \* answers and timers to come
           settled  : SUBSET {"farm", "turnstile"},
           why      : {"", "robotic", "farm", "bot", "error"}, \* why it hides
           prompts  : SUBSET Prompts,        \* the prompts on the page
           made     : 0..MaxPrompts,
           closers  : SUBSET Prompts,        \* autoClose timers
           reasks   : 0..MaxPrompts,         \* same-page re-ask timers
           sub      : {"idle", "asking", "worker", "posting", "accepted"},
           leave    : {"idle", "posted", "dropped"}]

\* A page whose script has only just come this far.
Page(stage, prior) ==
  [stage |-> stage, prior |-> prior, pending |-> {}, settled |-> {},
   why |-> "", prompts |-> {}, made |-> 0, closers |-> {}, reasks |-> 0,
   sub |-> "idle", leave |-> "idle"]

Blank == Page("closed", "none")

TypeOK ==
  /\ cfg \in Owners /\ choice \in {"none", "no", "subscribed"}
  /\ seen \in BOOLEAN /\ pushSub \in BOOLEAN
  /\ permission \in {"default", "granted", "denied"}
  /\ lead \in {"none", "active", "unsubscribed"}
  /\ tab \in [Tabs -> Script] /\ loads \in 0..MaxLoads

Init ==
  /\ cfg \in Owners
  /\ choice = "none" /\ seen = FALSE
  /\ permission = "default" /\ pushSub = FALSE /\ lead = "none"
  /\ tab = [t \in Tabs |-> Blank] /\ loads = 0

Put(t, script) == tab' = [tab EXCEPT ![t] = script]

----------------------------------------------------------------------------
\* Loading a page.

\* Up to the first await of init(); where the permission is denied the script
\* ends before it offers its functions to the site.
Load(t) ==
  /\ tab[t].stage = "closed" /\ loads < MaxLoads
  /\ loads' = loads + 1
  /\ Put(t, IF permission = "denied" /\ ~cfg.ios THEN Page("off", "none")
            ELSE IF choice = "subscribed" THEN Page("quiet", "none")
            ELSE Page("config", choice))
  /\ UNCHANGED <<cfg, storage, browser>>

\* audienceMatches(), the part that depends on the visitor's history
HistoryMatches ==
  LET known == choice # "none" \/ seen
  IN  CASE cfg.visitor = "all" -> TRUE
        [] cfg.visitor = "new" -> ~known
        [] cfg.visitor = "returning" -> known

\* The configuration arrives.  `found` says that there is one and that the page
\* matches, `match` stands for the rest of audienceMatches(), and for the
\* cooldown after a "no".
Configured(t, found, match) ==
  /\ tab[t].stage = "config"
  /\ LET arms == /\ found /\ match /\ HistoryMatches
                 /\ tab[t].prior = "no" => cfg.reask
     IN  /\ Put(t, [tab[t] EXCEPT !.stage = IF arms THEN "waiting" ELSE "quiet"])
         /\ seen' = (seen \/ (found /\ tab[t].prior = "none"))
  /\ UNCHANGED <<cfg, choice, browser, loads>>

Close(t) ==
  /\ tab[t].stage # "closed"
  /\ Put(t, Blank)
  /\ UNCHANGED <<cfg, storage, browser, loads>>

----------------------------------------------------------------------------
\* arm(): the trigger, the human signal, the two gates, the prompt.

\* renderBanner(), renderModal()
Render(s) ==
  IF s.made = MaxPrompts THEN s
  ELSE [s EXCEPT !.made = @ + 1,
                 !.prompts = @ \cup {s.made + 1},
                 !.closers = IF cfg.autoClose THEN @ \cup {s.made + 1} ELSE @]

\* render() of arm(): `fired` lets it run once.
Shown(s) == IF s.stage = "shown" THEN s ELSE Render([s EXCEPT !.stage = "shown"])

\* Mutant: nothing ends a challenge that stalls.
NoSafetyTimer(s) ==
  IF cfg.turnstile
  THEN [s EXCEPT !.stage = "turnstile", !.pending = @ \cup {"ts"}]
  ELSE Shown(s)

\* turnstileGate()
TurnstileGate(s) ==
  IF cfg.turnstile
  THEN [s EXCEPT !.stage = "turnstile", !.pending = @ \cup {"ts", "tsTimer"}]
  ELSE Shown(s)

\* canvasFarmGate()
FarmGate(s) ==
  IF cfg.farm
  THEN [s EXCEPT !.stage = "farm", !.pending = @ \cup {"fp", "fpTimer"}]
  ELSE TurnstileGate(s)

\* The trigger fires; a property that wants humans only waits for a signal.
Trigger(t) ==
  /\ tab[t].stage = "waiting"
  /\ Put(t, IF cfg.human THEN [tab[t] EXCEPT !.stage = "human"] ELSE FarmGate(tab[t]))
  /\ UNCHANGED <<cfg, storage, browser, loads>>

\* whenHuman(): the first real interaction, after which the movement may still
\* be taken for a robot's.
Human(t) ==
  /\ tab[t].stage = "human"
  /\ \/ Put(t, FarmGate(tab[t]))
     \/ Put(t, [tab[t] EXCEPT !.stage = "hidden", !.why = "robotic"])
  /\ UNCHANGED <<cfg, storage, browser, loads>>

\* Mutant: a gate may settle twice, and its timer is not cleared.
DoneAgain(s, gate, timer, show, why) ==
  IF show THEN (IF gate = "farm" THEN TurnstileGate(s) ELSE Shown(s))
  ELSE [s EXCEPT !.stage = "hidden", !.why = why]

\* done(show) of a gate: the first to come settles it and clears the timer.
Done(s, gate, timer, show, why) ==
  IF gate \in s.settled THEN s
  ELSE LET u == [s EXCEPT !.settled = @ \cup {gate}, !.pending = @ \ {timer}]
       IN  IF show THEN (IF gate = "farm" THEN TurnstileGate(u) ELSE Shown(u))
           ELSE [u EXCEPT !.stage = "hidden", !.why = why]

\* An answer or a timer of a gate.
Settle(t, event, gate, timer, show, why) ==
  /\ event \in tab[t].pending
  /\ Put(t, Done([tab[t] EXCEPT !.pending = @ \ {event}], gate, timer, show, why))
  /\ UNCHANGED <<cfg, storage, browser, loads>>

\* The server's answer about the fingerprint; anything but farm = true shows.
FarmAnswer(t) ==
  \E farm \in BOOLEAN : Settle(t, "fp", "farm", "fpTimer", ~farm, "farm")

FarmTimer(t) == Settle(t, "fpTimer", "farm", "fpTimer", TRUE, "")

\* Cloudflare and our own verification: a pass; a bot; an answer of the API
\* that is not a verdict (429, 403, 5xx carry JSON without `ok`); no answer.
TurnstileAnswer(t) ==
  \E answer \in {"pass", "bot", "error", "unreachable"} :
    Settle(t, "ts", "turnstile", "tsTimer", answer \in {"pass", "unreachable"}, answer)

TurnstileTimer(t) == Settle(t, "tsTimer", "turnstile", "tsTimer", TRUE, "")

----------------------------------------------------------------------------
\* The prompt on the page.

\* scheduleSamePageReask()
Rescheduled(s) ==
  IF cfg.reask /\ cfg.samePage /\ s.reasks < MaxPrompts
  THEN [s EXCEPT !.reasks = @ + 1] ELSE s

\* setChoice("no"), remove(), scheduleSamePageReask()
Refuse(t, p) ==
  /\ choice' = "no"
  /\ Put(t, Rescheduled([tab[t] EXCEPT !.prompts = @ \ {p}]))
  /\ UNCHANGED <<cfg, seen, browser, loads>>

No(t, p) == p \in tab[t].prompts /\ Refuse(t, p)

\* The timer of a prompt that is long gone acts when any other is there.
AutoClose(t, p) ==
  /\ p \in tab[t].closers
  /\ IF tab[t].prompts # {}
     THEN /\ choice' = "no"
          /\ Put(t, Rescheduled([tab[t] EXCEPT !.prompts = @ \ {p}, !.closers = @ \ {p}]))
     ELSE /\ Put(t, [tab[t] EXCEPT !.closers = @ \ {p}])
          /\ UNCHANGED choice
  /\ UNCHANGED <<cfg, seen, browser, loads>>

Yes(t, p) ==
  /\ p \in tab[t].prompts
  /\ IF cfg.yes = "link" THEN Refuse(t, p)
     ELSE /\ \/ /\ cfg.ios      \* showIosSteps(): the guide, no subscription
                /\ Put(t, [tab[t] EXCEPT !.prompts = @ \ {p}])
             \/ /\ ~cfg.ios /\ tab[t].sub = "idle"
                /\ Put(t, [tab[t] EXCEPT !.prompts = @ \ {p}, !.sub = "asking"])
          /\ UNCHANGED <<cfg, storage, browser, loads>>

Reask(t) ==
  /\ tab[t].reasks > 0
  /\ LET s == [tab[t] EXCEPT !.reasks = @ - 1]
     IN  Put(t, IF choice # "subscribed" THEN Render(s) ELSE s)
  /\ UNCHANGED <<cfg, storage, browser, loads>>

----------------------------------------------------------------------------
\* Subscribing and unsubscribing, by a prompt or by the site's own button.

ApiSubscribe(t) ==
  /\ tab[t].stage \notin {"closed", "off"} /\ ~cfg.ios /\ tab[t].sub = "idle"
  /\ Put(t, [tab[t] EXCEPT !.sub = "asking"])
  /\ UNCHANGED <<cfg, storage, browser, loads>>

Asked(t) ==
  /\ tab[t].sub = "asking"
  /\ \E p \in IF permission = "default" THEN {"granted", "denied", "default"} ELSE {permission} :
       /\ permission' = p
       /\ IF p = "granted"
          THEN /\ Put(t, [tab[t] EXCEPT !.sub = "worker"])
               /\ UNCHANGED choice
          ELSE /\ choice' = "no"
               /\ Put(t, [tab[t] EXCEPT !.sub = "idle"])
  /\ UNCHANGED <<cfg, seen, pushSub, lead, loads>>

\* The service worker and the browser's subscription, or their failure.
Worker(t) ==
  /\ tab[t].sub = "worker"
  /\ \E ok \in BOOLEAN :
       /\ pushSub' = (pushSub \/ ok)
       /\ Put(t, [tab[t] EXCEPT !.sub = IF ok THEN "posting" ELSE "idle"])
  /\ UNCHANGED <<cfg, storage, permission, lead, loads>>

\* POST /subscribe: refused, accepted, or accepted with the answer lost.
Post(t) ==
  /\ tab[t].sub = "posting"
  /\ \E outcome \in {"refused", "accepted", "lost"} :
       /\ lead' = IF outcome = "refused" THEN lead ELSE "active"
       /\ Put(t, [tab[t] EXCEPT !.sub = IF outcome = "accepted" THEN "accepted" ELSE "idle"])
  /\ UNCHANGED <<cfg, storage, permission, pushSub, loads>>

Accepted(t) ==
  /\ tab[t].sub = "accepted"
  /\ choice' = "subscribed"
  /\ Put(t, [tab[t] EXCEPT !.sub = "idle"])
  /\ UNCHANGED <<cfg, seen, browser, loads>>

\* PushVault.unsubscribe(): the server first, then the browser, then the choice.
Leave(t) ==
  /\ tab[t].stage \notin {"closed", "off"}
  /\ \/ /\ tab[t].leave = "idle" /\ pushSub
        /\ lead' = IF lead = "none" THEN lead ELSE "unsubscribed"
        /\ Put(t, [tab[t] EXCEPT !.leave = "posted"])
        /\ UNCHANGED <<choice, pushSub>>
     \/ /\ tab[t].leave = "posted"
        /\ pushSub' = FALSE
        /\ Put(t, [tab[t] EXCEPT !.leave = "dropped"])
        /\ UNCHANGED <<choice, lead>>
     \/ /\ tab[t].leave = "dropped"
        /\ choice' = "none"
        /\ Put(t, [tab[t] EXCEPT !.leave = "idle"])
        /\ UNCHANGED <<pushSub, lead>>
  /\ UNCHANGED <<cfg, seen, permission, loads>>

----------------------------------------------------------------------------
Next ==
  \E t \in Tabs :
       \/ Load(t) \/ Close(t) \/ Trigger(t) \/ Human(t)
       \/ \E found, match \in BOOLEAN : Configured(t, found, match)
       \/ FarmAnswer(t) \/ FarmTimer(t) \/ TurnstileAnswer(t) \/ TurnstileTimer(t)
       \/ \E p \in Prompts : No(t, p) \/ AutoClose(t, p) \/ Yes(t, p)
       \/ Reask(t) \/ ApiSubscribe(t) \/ Asked(t) \/ Worker(t) \/ Post(t)
       \/ Accepted(t) \/ Leave(t)

\* Timers fire; nobody owes the page an answer.
Fairness == \A t \in Tabs : WF_vars(FarmTimer(t)) /\ WF_vars(TurnstileTimer(t))

Spec == Init /\ [][Next]_vars /\ Fairness

\* A gate's verdict stands: a page view that was hidden shows no prompt later,
\* whatever answers and timers are still to come, and a page view that was
\* shown is not hidden by a late answer (pushvault.ts:1009-1021, 1048-1080).
VerdictStands ==
  \A t \in Tabs : tab[t].why # "" => tab[t].prompts = {} /\ tab[t].made = 0

\* A gate never holds the page view for good: the server or Cloudflare may
\* stay silent, the safety timers let the prompt out (pushvault.ts:1011, 1056).
GatesSettle ==
  \A t \in Tabs :
    tab[t].stage \in {"farm", "turnstile"}
      ~> tab[t].stage \in {"shown", "hidden", "closed"}

\* "Fails OPEN on any infrastructure error ... only Cloudflare's explicit bot
\* verdict (ok:false) holds the prompt back" (pushvault.ts:1026-1029).
OnlyBotsHidden == \A t \in Tabs : tab[t].why # "error"
=============================================================================
