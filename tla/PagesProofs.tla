---------------------------- MODULE PagesProofs -----------------------------
(***************************************************************************)
(* What pages promise, for any number of them: the script in the browser,  *)
(* and two pages of the dashboard.                                         *)
(*                                                                         *)
(* Script: a late answer or timer is harmless because the gate it is of is *)
(* either the one the page waits for or settled; and a prompt, or a timer  *)
(* that would bring one back, is only where one was shown (Good).          *)
(*                                                                         *)
(* Campaign page: an edit makes the counts under way stale, so one that is *)
(* not is for the form's leads; a press that saves goes on only from a     *)
(* save, and saves are numbered upwards (PageOK, LaunchOK).                *)
(*                                                                         *)
(* Property page: a request sets the fields that its panel is about and no *)
(* others, with a toggle's prompt saying what it was to say (RequestOK).   *)
(***************************************************************************)
EXTENDS PartsProofs

-----------------------------------------------------------------------------
\* The script in the browser.

\* What holds of the script of every tab.
Good(s) ==
  /\ s \in Script!Script
  /\ s.stage # "shown" => s.prompts = {} /\ s.made = 0 /\ s.reasks = 0
  /\ s.pending \cap {"fp", "fpTimer"} # {} => s.stage = "farm"
     \/ "farm" \in s.settled
  /\ s.pending \cap {"ts", "tsTimer"} # {} =>
       s.stage = "turnstile" \/ "turnstile" \in s.settled
  /\ s.why # "" => s.stage = "hidden"

ScriptInv == tab \in [ScriptParams.Tabs -> Script!Script]
/\ \A t \in ScriptParams.Tabs : Good(tab[t])

LEMMA PageGood ==
  ASSUME Script!OptInAssumption, NEW st \in Script!Stages, st # "shown",
         NEW prior \in {"none", "no"}
  PROVE  Good(Script!Page(st, prior))
<1>1. 0 \in 0..ScriptParams.MaxPrompts
  BY DEF Script!OptInAssumption
<1>2. Script!Page(st, prior) \in Script!Script
  BY <1>1 DEF Script!Page, Script!Script
<1> QED
  BY <1>2 DEF Good, Script!Page

LEMMA PutGood ==
  ASSUME ScriptInv, NEW t \in ScriptParams.Tabs, NEW s, Good(s),
         Script!Put(t, s)
  PROVE  ScriptInv'
BY DEF ScriptInv, Script!Put, Good

\* A page view moves on before any gate.
LEMMA StageGood ==
  ASSUME NEW s, Good(s), s.stage \in {"config", "waiting"},
         NEW st \in {"waiting", "quiet", "human"}
  PROVE  Good([s EXCEPT !.stage = st])
<1> DEFINE r == [s EXCEPT !.stage = st]
<1>1. s \in Script!Script
  BY DEF Good
<1>2. r \in Script!Script
  BY <1>1 DEF Script!Script, Script!Stages
<1>3. /\ r.stage = st /\ r.prompts = s.prompts /\ r.made = s.made
      /\ r.reasks = s.reasks /\ r.pending = s.pending
      /\ r.settled = s.settled /\ r.why = s.why
  BY <1>1 DEF Script!Script
<1> HIDE DEF r
<1>4. Good(r)
  BY <1>2, <1>3 DEF Good
<1> QED
  BY <1>4 DEF r

LEMMA RenderGood ==
  ASSUME Script!OptInAssumption, NEW s, Good(s), s.stage = "shown"
  PROVE  Good(Script!Render(s))
<1> USE DEF Script!OptInAssumption, Script!Script, Script!Prompts
<1>1. CASE s.made = ScriptParams.MaxPrompts
  BY <1>1 DEF Script!Render
<1>2. CASE s.made # ScriptParams.MaxPrompts
  <2>1. s.made + 1 \in 1..ScriptParams.MaxPrompts
    <3>1. s.made \in 0..ScriptParams.MaxPrompts
              /\ ScriptParams.MaxPrompts \in Nat
      BY DEF Good
    <3> QED
      BY <1>2, <3>1
  <2>2. Script!Render(s) \in Script!Script
    <3>1. /\ s.made + 1 \in 0..ScriptParams.MaxPrompts
          /\ s.prompts \cup {s.made + 1} \in SUBSET (1..ScriptParams.MaxPrompts)
          /\ s.closers \cup {s.made + 1} \in SUBSET (1..ScriptParams.MaxPrompts)
      <4>1. s.prompts \in SUBSET (1..ScriptParams.MaxPrompts)
                /\ s.closers \in SUBSET (1..ScriptParams.MaxPrompts)
        BY DEF Good
      <4>2. s.made + 1 \in 0..ScriptParams.MaxPrompts
        BY <2>1
      <4> QED
        BY <2>1, <4>1, <4>2
    <3> HIDE DEF Script!Prompts
    <3>2. s \in Script!Script
      BY DEF Good
    <3>3. CASE cfg.autoClose
      BY <1>2, <3>1, <3>2, <3>3 DEF Script!Render, Script!Prompts
    <3>4. CASE ~cfg.autoClose
      BY <1>2, <3>1, <3>2, <3>4 DEF Script!Render, Script!Prompts
    <3> QED
      BY <3>3, <3>4
  <2>3. /\ Script!Render(s).stage = s.stage
            /\ Script!Render(s).pending = s.pending
        /\ Script!Render(s).settled = s.settled /\ Script!Render(s).why = s.why
    BY <1>2 DEF Script!Render, Good
  <2> QED
    BY <2>2, <2>3 DEF Good
<1> QED
  BY <1>1, <1>2

LEMMA ShownGood ==
  ASSUME Script!OptInAssumption, NEW s, Good(s), s.why = "",
         s.pending \cap {"fp", "fpTimer"} # {} => "farm" \in s.settled,
         s.pending \cap {"ts", "tsTimer"} # {} => "turnstile" \in s.settled
  PROVE  Good(Script!Shown(s))
<1> DEFINE u == [s EXCEPT !.stage = "shown"]
<1>1. Good(u) /\ u.stage = "shown"
  BY DEF Good, Script!Script, Script!Stages
<1> QED
  BY <1>1, RenderGood DEF Script!Shown

LEMMA TurnstileGood ==
  ASSUME Script!OptInAssumption, NEW s, Good(s), s.why = "", s.stage # "shown",
         s.pending \cap {"fp", "fpTimer"} # {} => "farm" \in s.settled,
         s.pending \cap {"ts", "tsTimer"} # {} => "turnstile" \in s.settled
  PROVE  Good(Script!TurnstileGate(s))
<1>1. CASE cfg.turnstile
  BY <1>1 DEF Script!TurnstileGate, Good, Script!Script, Script!Stages,
     Script!Events
<1>2. CASE ~cfg.turnstile
  BY <1>2, ShownGood DEF Script!TurnstileGate
<1> QED
  BY <1>1, <1>2

LEMMA FarmGood ==
  ASSUME Script!OptInAssumption, NEW s, Good(s),
         s.stage \in {"waiting", "human"}
  PROVE  Good(Script!FarmGate(s))
<1>1. /\ s.why = "" /\ s.stage # "shown"
      /\ s.pending \cap {"fp", "fpTimer"} # {} => "farm" \in s.settled
      /\ s.pending \cap {"ts", "tsTimer"} # {} => "turnstile" \in s.settled
  BY DEF Good
<1>2. CASE cfg.farm
  BY <1>1, <1>2 DEF Script!FarmGate, Good, Script!Script, Script!Stages,
     Script!Events
<1>3. CASE ~cfg.farm
  BY <1>1, <1>3, TurnstileGood DEF Script!FarmGate
<1> QED
  BY <1>2, <1>3

Gate == [farm |-> {"fp", "fpTimer"}, turnstile |-> {"ts", "tsTimer"}]

\* A gate that is settled stays so; one that is not is the one waited for.
LEMMA SettleGood ==
  ASSUME Script!OptInAssumption, ScriptInv, NEW t \in ScriptParams.Tabs,
         NEW gate \in {"farm", "turnstile"},
         NEW event \in Gate[gate], NEW deadline \in Gate[gate],
         NEW show \in BOOLEAN, NEW why,
         ~show => why \in {"farm", "bot", "error"},
         Script!Put(t, Script!Done([tab[t] EXCEPT !.pending = @ \ {event}], gate, deadline, show, why)),
         event \in tab[t].pending
  PROVE  ScriptInv'
<1> DEFINE s == [tab[t] EXCEPT !.pending = @ \ {event}]
           u == [s EXCEPT !.settled = @ \cup {gate}, !.pending = @ \ {deadline}]
<1>1. Good(tab[t])
  BY DEF ScriptInv
<1>2. Good(s) /\ s.stage = tab[t].stage /\ s.settled = tab[t].settled
  BY <1>1 DEF Good, Script!Script
<1>3. CASE gate \in s.settled
  <2>1. Script!Done(s, gate, deadline, show, why) = s
    BY <1>3 DEF Script!Done
  <2> QED
    BY <1>2, <2>1, PutGood
<1>4. CASE gate \notin s.settled
  <2>1. tab[t].stage = gate
    <3>1. gate \notin tab[t].settled
      BY <1>2, <1>4
    <3>2. CASE gate = "farm"
      BY <1>1, <3>1, <3>2 DEF Good, Gate
    <3>3. CASE gate = "turnstile"
      BY <1>1, <3>1, <3>3 DEF Good, Gate
    <3> QED
      BY <3>2, <3>3
  <2>2. Good(u) /\ u.stage = gate /\ u.why = "" /\ gate \in u.settled
    <3>0. Good(s) /\ s \in Script!Script
      BY <1>2 DEF Good
    <3> HIDE DEF s
    <3>1. u \in Script!Script
      BY <3>0 DEF Script!Script
    <3>2. /\ u.stage = s.stage /\ u.why = s.why /\ u.prompts = s.prompts
          /\ u.made = s.made /\ u.reasks = s.reasks
          /\ u.pending \subseteq s.pending
          /\ u.settled = s.settled \cup {gate}
      BY <3>0 DEF Script!Script
    <3>3. s.stage = gate
      BY <1>2, <2>1
    <3> HIDE DEF u
    <3> QED
      BY <3>0, <3>1, <3>2, <3>3 DEF Good
  <2>3. /\ u.pending \cap {"fp", "fpTimer"} # {} => "farm" \in u.settled
        /\ gate = "turnstile" =>
             (u.pending \cap {"ts", "tsTimer"} # {} => "turnstile" \in u.settled)
        /\ gate = "farm" =>
             (u.pending \cap {"ts", "tsTimer"} # {} => "turnstile" \in u.settled)
    BY <2>2 DEF Good
  <2>4. CASE show /\ gate = "farm"
    BY <1>4, <2>2, <2>3, <2>4, TurnstileGood, PutGood DEF Script!Done
  <2>5. CASE show /\ gate = "turnstile"
    BY <1>4, <2>2, <2>3, <2>5, ShownGood, PutGood DEF Script!Done
  <2>6. CASE ~show
    <3> DEFINE h == [u EXCEPT !.stage = "hidden", !.why = why]
    <3>1. Good(h)
      <4>0. u \in Script!Script
        BY <2>2 DEF Good
      <4> HIDE DEF u
      <4>1. h \in Script!Script
        BY <2>6, <4>0 DEF Script!Script, Script!Stages
      <4>2. /\ h.stage = "hidden" /\ h.prompts = u.prompts /\ h.made = u.made
            /\ h.reasks = u.reasks /\ h.pending = u.pending
            /\ h.settled = u.settled
        BY <4>0 DEF Script!Script
      <4> HIDE DEF h
      <4> QED
        BY <2>2, <2>3, <4>1, <4>2 DEF Good
    <3> QED
      BY <1>4, <2>6, <3>1, PutGood DEF Script!Done
  <2> QED
    BY <2>4, <2>5, <2>6
<1> QED
  BY <1>3, <1>4

\* A prompt that is taken off the page, or a re-ask that is put off.
LEMMA ReschedGood ==
  ASSUME Script!OptInAssumption, NEW s, Good(s), s.stage = "shown"
  PROVE  Good(Script!Rescheduled(s))
<1>1. s.reasks \in 0..ScriptParams.MaxPrompts
          /\ ScriptParams.MaxPrompts \in Nat
  BY DEF Script!OptInAssumption, Good, Script!Script
<1>2. CASE s.reasks < ScriptParams.MaxPrompts
  <2>1. s.reasks + 1 \in 0..ScriptParams.MaxPrompts
    BY <1>1, <1>2
  <2>2. Script!Rescheduled(s) \in Script!Script
    BY <2>1 DEF Script!Rescheduled, Good, Script!Script
  <2>3. /\ Script!Rescheduled(s).stage = s.stage
            /\ Script!Rescheduled(s).pending = s.pending
        /\ Script!Rescheduled(s).settled = s.settled
           /\ Script!Rescheduled(s).why = s.why
    BY DEF Script!Rescheduled, Good, Script!Script
  <2> QED
    BY <2>2, <2>3 DEF Good
<1>3. CASE ~(s.reasks < ScriptParams.MaxPrompts)
  BY <1>3 DEF Script!Rescheduled
<1> QED
  BY <1>2, <1>3

LEMMA RefuseGood ==
  ASSUME Script!OptInAssumption, ScriptInv, NEW t \in ScriptParams.Tabs,
         NEW p \in tab[t].prompts, Script!Refuse(t, p)
  PROVE  ScriptInv'
<1> DEFINE s == [tab[t] EXCEPT !.prompts = @ \ {p}]
<1>1. tab[t] \in Script!Script /\ Good(tab[t]) /\ tab[t].stage = "shown"
  BY DEF ScriptInv, Good
<1>2. s \in Script!Script /\ s.stage = "shown"
  BY <1>1 DEF Script!Script
<1>3. s.pending = tab[t].pending /\ s.settled = tab[t].settled
          /\ s.why = tab[t].why
  BY <1>1 DEF Script!Script
<1> HIDE DEF s
<1>4. Good(s)
  BY <1>1, <1>2, <1>3 DEF Good
<1> QED
  BY <1>2, <1>4, ReschedGood, PutGood DEF Script!Refuse, s

LEMMA ScriptInvInit == ASSUME Script!OptInAssumption
  PROVE Script!Init => ScriptInv
<1>1. Good(Script!Blank) /\ Script!Blank \in Script!Script
  BY PageGood DEF Script!Blank, Script!Stages, Good
<1> QED
  BY <1>1 DEF Script!Init, ScriptInv

\* A script of which only what the invariant does not name has changed.
Same(s, u) ==
  /\ u \in Script!Script
  /\ u.stage = s.stage /\ u.prompts = s.prompts /\ u.made = s.made
  /\ u.reasks = s.reasks /\ u.pending = s.pending /\ u.settled = s.settled
  /\ u.why = s.why

LEMMA SameGood ==
  ASSUME NEW s, Good(s), NEW u, Same(s, u)
  PROVE  Good(u)
BY DEF Same, Good

LEMMA SubGood ==
  ASSUME ScriptInv, NEW t \in ScriptParams.Tabs,
         NEW to \in {"idle", "asking", "worker", "posting", "accepted"},
         Script!Put(t, [tab[t] EXCEPT !.sub = to])
  PROVE  ScriptInv'
<1>1. Good(tab[t]) /\ tab[t] \in Script!Script
  BY DEF ScriptInv
<1>2. Same(tab[t], [tab[t] EXCEPT !.sub = to])
  BY <1>1 DEF Same, Script!Script
<1> QED
  BY <1>1, <1>2, SameGood, PutGood

LEMMA LeaveGood ==
  ASSUME ScriptInv, NEW t \in ScriptParams.Tabs,
         NEW leave \in {"idle", "posted", "dropped"},
         Script!Put(t, [tab[t] EXCEPT !.leave = leave])
  PROVE  ScriptInv'
<1>1. Good(tab[t]) /\ tab[t] \in Script!Script
  BY DEF ScriptInv
<1>2. Same(tab[t], [tab[t] EXCEPT !.leave = leave])
  BY <1>1 DEF Same, Script!Script
<1> QED
  BY <1>1, <1>2, SameGood, PutGood

LEMMA ScriptInvStep ==
  ASSUME Script!OptInAssumption, ScriptInv,
         choice \in {"none", "no", "subscribed"}, [Script!Next]_(Script!vars)
  PROVE  ScriptInv'
<1>0. \A t \in ScriptParams.Tabs : Good(tab[t]) /\ tab[t] \in Script!Script
  BY DEF ScriptInv
<1>1. ASSUME NEW t \in ScriptParams.Tabs, Script!Load(t) PROVE ScriptInv'
  <2>1. CASE permission = "denied" /\ ~cfg.ios
    <3>1. Good(Script!Page("off", "none"))
      BY PageGood DEF Script!Stages
    <3> QED
      BY <1>1, <2>1, <3>1, PutGood DEF Script!Load
  <2>2. CASE ~(permission = "denied" /\ ~cfg.ios) /\ choice = "subscribed"
    <3>1. Good(Script!Page("quiet", "none"))
      BY PageGood DEF Script!Stages
    <3> QED
      BY <1>1, <2>2, <3>1, PutGood DEF Script!Load
  <2>3. CASE ~(permission = "denied" /\ ~cfg.ios) /\ choice # "subscribed"
    <3>1. Good(Script!Page("config", choice))
      BY <2>3, PageGood DEF Script!Stages
    <3> QED
      BY <1>1, <2>3, <3>1, PutGood DEF Script!Load
  <2> QED
    BY <2>1, <2>2, <2>3
<1>2. ASSUME NEW t \in ScriptParams.Tabs, Script!Close(t) PROVE ScriptInv'
  <2>1. Good(Script!Blank)
    BY PageGood DEF Script!Blank, Script!Stages
  <2> QED
    BY <1>2, <2>1, PutGood DEF Script!Close
<1>3. ASSUME NEW t \in ScriptParams.Tabs, Script!Trigger(t) PROVE ScriptInv'
  <2>1. CASE cfg.human
    <3>1. Good([tab[t] EXCEPT !.stage = "human"])
      BY <1>0, <1>3, StageGood DEF Script!Trigger
    <3> QED
      BY <1>3, <2>1, <3>1, PutGood DEF Script!Trigger
  <2>2. CASE ~cfg.human
    BY <1>0, <1>3, <2>2, FarmGood, PutGood DEF Script!Trigger
  <2> QED
    BY <2>1, <2>2
<1>4. ASSUME NEW t \in ScriptParams.Tabs, Script!Human(t) PROVE ScriptInv'
  <2>1. Good(Script!FarmGate(tab[t]))
    BY <1>0, <1>4, FarmGood DEF Script!Human
  <2> DEFINE s == [tab[t] EXCEPT !.stage = "hidden", !.why = "robotic"]
  <2>2. Good(s)
    <3>0. tab[t] \in Script!Script
      BY <1>0
    <3>1. s \in Script!Script
      BY <3>0 DEF Script!Script, Script!Stages
    <3>2. tab[t].stage = "human" /\ Good(tab[t])
      BY <1>0, <1>4 DEF Script!Human
    <3>3. /\ s.stage = "hidden" /\ s.prompts = tab[t].prompts
              /\ s.made = tab[t].made
          /\ s.reasks = tab[t].reasks /\ s.pending = tab[t].pending
          /\ s.settled = tab[t].settled
      BY <3>0 DEF Script!Script
    <3> HIDE DEF s
    <3> QED
      BY <3>1, <3>2, <3>3 DEF Good
  <2> QED
    BY <1>4, <2>1, <2>2, PutGood DEF Script!Human
<1>5. ASSUME NEW t \in ScriptParams.Tabs, NEW found \in BOOLEAN,
          NEW match \in BOOLEAN,
             Script!Configured(t, found, match)
      PROVE  ScriptInv'
  <2>1. /\ Good([tab[t] EXCEPT !.stage = "waiting"])
        /\ Good([tab[t] EXCEPT !.stage = "quiet"])
    BY <1>0, <1>5, StageGood DEF Script!Configured
  <2>2. \/ Script!Put(t, [tab[t] EXCEPT !.stage = "waiting"])
        \/ Script!Put(t, [tab[t] EXCEPT !.stage = "quiet"])
    BY <1>5 DEF Script!Configured
  <2> QED
    BY <2>1, <2>2, PutGood
<1>6. ASSUME NEW t \in ScriptParams.Tabs,
          Script!FarmAnswer(t) \/ Script!FarmTimer(t) PROVE ScriptInv'
  BY <1>6, SettleGood DEF Script!FarmAnswer, Script!FarmTimer, Script!Settle,
     Gate
<1>7. ASSUME NEW t \in ScriptParams.Tabs, Script!TurnstileTimer(t)
          PROVE ScriptInv'
  BY <1>7, SettleGood DEF Script!TurnstileTimer, Script!Settle, Gate
<1>8. ASSUME NEW t \in ScriptParams.Tabs, Script!TurnstileAnswer(t)
          PROVE ScriptInv'
  <2>1. PICK answer \in {"pass", "bot", "error", "unreachable"} :
          Script!Settle(t, "ts", "turnstile", "tsTimer", answer \in {"pass", "unreachable"},
                 answer)
    BY <1>8 DEF Script!TurnstileAnswer
  <2> DEFINE show == answer \in {"pass", "unreachable"}
  <2>2. show \in BOOLEAN /\ (~show => answer \in {"farm", "bot", "error"})
    OBVIOUS
  <2>3. "ts" \in Gate["turnstile"] /\ "tsTimer" \in Gate["turnstile"]
    BY DEF Gate
  <2> QED
    BY <2>1, <2>2, <2>3, SettleGood DEF Script!Settle
<1>9. ASSUME NEW t \in ScriptParams.Tabs, NEW p \in Script!Prompts,
          Script!No(t, p) PROVE ScriptInv'
  BY <1>9, RefuseGood DEF Script!No
<1>10. ASSUME NEW t \in ScriptParams.Tabs, NEW p \in Script!Prompts,
           Script!AutoClose(t, p) PROVE ScriptInv'
  <2>1. CASE tab[t].prompts # {}
    <3> DEFINE s == [tab[t] EXCEPT !.prompts = @ \ {p}, !.closers = @ \ {p}]
    <3>0. tab[t].stage = "shown" /\ Good(tab[t]) /\ tab[t] \in Script!Script
      BY <1>0, <2>1 DEF Good
    <3>1. Good(s) /\ s.stage = "shown"
      <4>1. s \in Script!Script
        BY <3>0 DEF Script!Script
      <4>2. /\ s.stage = "shown" /\ s.pending = tab[t].pending
            /\ s.settled = tab[t].settled /\ s.why = tab[t].why
        BY <3>0 DEF Script!Script
      <4> QED
        BY <3>0, <4>1, <4>2 DEF Good
    <3>2. Script!Put(t, Script!Rescheduled(s))
      BY <1>10, <2>1 DEF Script!AutoClose
    <3> QED
      BY <3>1, <3>2, ReschedGood, PutGood
  <2>2. CASE tab[t].prompts = {}
    <3> DEFINE s == [tab[t] EXCEPT !.closers = @ \ {p}]
    <3>0. tab[t] \in Script!Script
      BY <1>0
    <3>1. Same(tab[t], s)
      <4>1. s \in Script!Script
        BY <3>0 DEF Script!Script
      <4> QED
        BY <3>0, <4>1 DEF Same, Script!Script
    <3> QED
      BY <1>0, <1>10, <2>2, <3>1, SameGood, PutGood DEF Script!AutoClose
  <2> QED
    BY <2>1, <2>2
<1>11. ASSUME NEW t \in ScriptParams.Tabs, NEW p \in Script!Prompts,
           Script!Yes(t, p) PROVE ScriptInv'
  <2>1. CASE cfg.yes = "link"
    BY <1>11, <2>1, RefuseGood DEF Script!Yes
  <2>2. CASE cfg.yes # "link"
    <3> DEFINE s == [tab[t] EXCEPT !.prompts = @ \ {p}]
           u == [tab[t] EXCEPT !.prompts = @ \ {p}, !.sub = "asking"]
    <3>0. tab[t].stage = "shown" /\ Good(tab[t]) /\ tab[t] \in Script!Script
      BY <1>0, <1>11 DEF Script!Yes, Good
    <3>2. Good(s)
      <4>1. s \in Script!Script
        BY <3>0 DEF Script!Script
      <4>2. /\ s.stage = "shown" /\ s.pending = tab[t].pending
            /\ s.settled = tab[t].settled /\ s.why = tab[t].why
        BY <3>0 DEF Script!Script
      <4> HIDE DEF s
      <4> QED
        BY <3>0, <4>1, <4>2 DEF Good
    <3>3. Good(u)
      <4>1. u \in Script!Script
        BY <3>0 DEF Script!Script
      <4>2. /\ u.stage = "shown" /\ u.pending = tab[t].pending
            /\ u.settled = tab[t].settled /\ u.why = tab[t].why
        BY <3>0 DEF Script!Script
      <4> HIDE DEF u
      <4> QED
        BY <3>0, <4>1, <4>2 DEF Good
    <3> QED
      BY <1>11, <2>2, <3>2, <3>3, PutGood DEF Script!Yes
  <2> QED
    BY <2>1, <2>2
<1>12. ASSUME NEW t \in ScriptParams.Tabs, Script!Reask(t) PROVE ScriptInv'
  <2> DEFINE s == [tab[t] EXCEPT !.reasks = @ - 1]
  <2>1. tab[t].reasks \in 0..ScriptParams.MaxPrompts /\ tab[t].reasks > 0
            /\ ScriptParams.MaxPrompts \in Nat
    BY <1>0, <1>12 DEF Script!Reask, Script!Script, Script!OptInAssumption
  <2>2. tab[t].reasks - 1 \in 0..ScriptParams.MaxPrompts
    BY <2>1
  <2>3. tab[t].stage = "shown"
    <3>1. tab[t].stage # "shown" => tab[t].reasks = 0
      BY <1>0 DEF Good
    <3> QED
      BY <2>1, <3>1
  <2>4. Good(s) /\ s.stage = "shown"
    <3>0. tab[t].stage = "shown" /\ Good(tab[t]) /\ tab[t] \in Script!Script
      BY <1>0, <2>3
    <3>1. s \in Script!Script
      BY <2>2, <3>0 DEF Script!Script
    <3>2. /\ s.stage = "shown" /\ s.pending = tab[t].pending
          /\ s.settled = tab[t].settled /\ s.why = tab[t].why
      BY <3>0 DEF Script!Script
    <3> HIDE DEF s
    <3> QED
      BY <3>0, <3>1, <3>2 DEF Good
  <2>5. Script!Put(t, Script!Render(s)) \/ Script!Put(t, s)
    BY <1>12 DEF Script!Reask
  <2> QED
    BY <2>4, <2>5, RenderGood, PutGood
<1>13. ASSUME NEW t \in ScriptParams.Tabs,
              Script!ApiSubscribe(t) \/ Script!Asked(t) \/ Script!Worker(t)
              \/ Script!Post(t) \/ Script!Accepted(t)
       PROVE  ScriptInv'
  <2>1. \E to \in {"idle", "asking", "worker", "posting", "accepted"} :
          Script!Put(t, [tab[t] EXCEPT !.sub = to])
    BY <1>13 DEF Script!ApiSubscribe, Script!Asked, Script!Worker, Script!Post,
       Script!Accepted
  <2> QED
    BY <2>1, SubGood
<1>14. ASSUME NEW t \in ScriptParams.Tabs, Script!Leave(t) PROVE ScriptInv'
  <2>1. \E leave \in {"idle", "posted", "dropped"} :
          Script!Put(t, [tab[t] EXCEPT !.leave = leave])
    BY <1>14 DEF Script!Leave
  <2> QED
    BY <2>1, LeaveGood
<1>15. CASE UNCHANGED Script!vars
  BY <1>15 DEF Script!vars, ScriptInv, Good
<1> QED
  BY <1>1, <1>2, <1>3, <1>4, <1>5, <1>6, <1>7, <1>8, <1>9, <1>10, <1>11,
     <1>12, <1>13, <1>14, <1>15 DEF Script!Next

\* What is stored in the browser about the visitor's choice.
LEMMA ChoiceTyped ==
  ASSUME choice \in {"none", "no", "subscribed"}, [Script!Next]_(Script!vars)
  PROVE  choice' \in {"none", "no", "subscribed"}
<1>1. ASSUME NEW t \in ScriptParams.Tabs,
             \/ Script!Load(t) \/ Script!Close(t) \/ Script!Trigger(t)
                \/ Script!Human(t) \/ Script!Reask(t)
             \/ Script!ApiSubscribe(t) \/ Script!Worker(t) \/ Script!Post(t)
             \/ \E found,
                match \in BOOLEAN : Script!Configured(t, found, match)
      PROVE  choice' = choice
  BY <1>1 DEF Script!Load, Script!Close, Script!Trigger, Script!Human,
     Script!Reask, Script!ApiSubscribe, Script!Worker, Script!Post,
              Script!Configured, Script!storage
<1>2. ASSUME NEW t \in ScriptParams.Tabs,
             Script!FarmAnswer(t) \/ Script!FarmTimer(t)
             \/ Script!TurnstileAnswer(t) \/ Script!TurnstileTimer(t)
      PROVE  choice' = choice
  BY <1>2 DEF Script!FarmAnswer, Script!FarmTimer, Script!TurnstileAnswer,
     Script!TurnstileTimer, Script!Settle, Script!storage
<1>3. ASSUME NEW t \in ScriptParams.Tabs, NEW p \in Script!Prompts,
          Script!No(t, p) \/ Script!AutoClose(t, p) \/ Script!Yes(t, p)
      PROVE  choice' \in {choice, "no"}
  BY <1>3 DEF Script!No, Script!AutoClose, Script!Yes, Script!Refuse,
     Script!storage
<1>4. ASSUME NEW t \in ScriptParams.Tabs,
          Script!Asked(t) \/ Script!Accepted(t) \/ Script!Leave(t)
      PROVE  choice' \in {choice, "no", "subscribed", "none"}
  BY <1>4 DEF Script!Asked, Script!Accepted, Script!Leave
<1>5. CASE UNCHANGED Script!vars
  BY <1>5 DEF Script!vars
<1> QED
  BY <1>1, <1>2, <1>3, <1>4, <1>5 DEF Script!Next

\* A page view that a gate has hidden never shows a prompt
\* (pushvault.ts:1009-1021, 1048-1080).
THEOREM HiddenStaysHidden == Spec => []VerdictStands
<1> DEFINE J == ScriptInv /\ choice \in {"none", "no", "subscribed"}
           I == part = "script" => J
<1>0. J /\ [Script!Next]_(Script!vars) => J'
  BY PartsAssumption, ScriptInvStep, ChoiceTyped
<1>1. Init => I
  BY PartsAssumption, ScriptInvInit DEF Init, Script!Init
<1>2. I /\ [Next]_vars => I'
  BY <1>0, PartSteps
<1>3. I => VerdictStands
  BY DEF ScriptInv, Good, VerdictStands, Script!VerdictStands
<1> QED
  BY <1>1, <1>2, <1>3, PTL DEF Spec

-----------------------------------------------------------------------------
\* The designer: the audience that is confirmed, and what a press saves.

\* A page, without the bounds.
Written == [text : Nat, leads : ConsoleParams.Leads]
Pressed == [op : Console!Ops \cup {"none"},
            stage : {"idle", "patch", "patching", "patched", "confirm", "post",
                     "posting", "posted"},
            form : Written, audience : ConsoleParams.Leads \cup {"?"},
              saved : Nat]
PageShape == [known : Console!Statuses, form : Written,
    audience : ConsoleParams.Leads \cup {"?"},
              counting : SUBSET [leads : ConsoleParams.Leads, stale : BOOLEAN],
              loads : BOOLEAN,
              loaded : SUBSET [status : Console!Statuses, content : Written],
              flow : Pressed]
LaunchShape == [stage : {"idle", "asked", "read"}, from : {"draft", "paused"},
                form : Written, must : BOOLEAN, need : Nat, saves : Nat,
                same : BOOLEAN]

\* A count that is not stale is one for the leads of the form; the press has
\* the count of its own form; and it goes on from a save only when there was
\* one.
PageOK(v, p, saves) ==
  /\ v \in PageShape
  /\ v.audience \in {"?", v.form.leads}
  /\ \A c \in v.counting : ~c.stale => c.leads = v.form.leads
  /\ v.flow.audience \in {"?", v.flow.form.leads}
  /\ v.flow.saved <= saves
  /\ /\ Console!Saves(p, v.flow.op)
     /\ v.flow.stage \notin {"idle", "patch", "patching"}
     => v.flow.saved > 0
  /\ v.flow.stage # "idle" => v.flow.op \in Console!Ops
  /\ v.flow.stage \notin {"idle", "patch", "patching", "patched"}
       => v.flow.op # "save"

\* What a launch has read includes the save of its press.
LaunchOK(l, saves) ==
  /\ l \in LaunchShape
  /\ l.must => l.need > 0
  /\ l.need <= saves
  /\ l.stage = "read" => l.need <= l.saves

ConsoleInv ==
  /\ consoleRow \in [status : Console!Statuses, content : Written, saves : Nat]
  /\ consoleEdits \in Nat
  /\ page \in [ConsoleParams.Pages -> PageShape]
  /\ launch \in [ConsoleParams.Pages \cup {"timer"} -> LaunchShape]
  /\ \A p \in ConsoleParams.Pages : PageOK(page[p], p, consoleRow.saves)
  /\ \A x \in ConsoleParams.Pages \cup {"timer"} :
       LaunchOK(launch[x], consoleRow.saves)
  /\ Console!SendsSaved

LEMMA NoFlowOK == Console!ConsoleAssumption =>
  /\ Console!Blank \in Written /\ Console!NoFlow \in Pressed
  /\ Console!NoLaunch \in LaunchShape
  /\ Console!NoFlow.audience = "?" /\ Console!NoFlow.saved = 0
  /\ Console!NoFlow.stage = "idle"
  /\ Console!NoFlow.op = "none"
  /\ Console!NoLaunch.must = FALSE /\ Console!NoLaunch.need = 0
BY DEF Console!ConsoleAssumption, Console!Blank, Console!NoFlow,
   Console!NoLaunch, Written, Pressed, LaunchShape, Console!Ops

LEMMA ConsoleInit == Console!ConsoleAssumption /\ Console!Init => ConsoleInv
<1> SUFFICES ASSUME Console!ConsoleAssumption, Console!Init PROVE ConsoleInv
  OBVIOUS
<1>1. /\ consoleRow
           \in [status : Console!Statuses, content : Written, saves : Nat]
      /\ consoleRow.saves = 0
  BY DEF Console!Init, Written, Console!Statuses, Console!ConsoleAssumption
<1>2. ASSUME NEW p \in ConsoleParams.Pages
      PROVE  PageOK(page[p], p, consoleRow.saves)
  <2>1. page[p] = [known |-> consoleRow.status, form |-> consoleRow.content,
                   audience |-> consoleRow.content.leads, counting |-> {},
                   loads |-> FALSE, loaded |-> {}, flow |-> Console!NoFlow]
    BY DEF Console!Init
  <2>2. consoleRow.status \in Console!Statuses
          /\ consoleRow.content \in Written
          /\ consoleRow.content.leads \in ConsoleParams.Leads
    BY <1>1 DEF Written
  <2>3. page[p] \in PageShape
    BY <2>1, <2>2, NoFlowOK DEF PageShape
  <2> QED
    BY <1>1, <2>1, <2>3, NoFlowOK DEF PageOK
<1>3. page \in [ConsoleParams.Pages -> PageShape]
  BY <1>2 DEF Console!Init, PageOK
<1>4. launch \in [ConsoleParams.Pages \cup {"timer"} -> LaunchShape]
  BY NoFlowOK DEF Console!Init
<1>5. \A x \in ConsoleParams.Pages \cup {"timer"} :
        LaunchOK(launch[x], consoleRow.saves)
  BY <1>1, NoFlowOK DEF Console!Init, LaunchOK, Console!NoLaunch
<1>6. Console!SendsSaved /\ consoleEdits \in Nat
  BY DEF Console!Init, Console!SendsSaved
<1> QED
  BY <1>1, <1>2, <1>3, <1>4, <1>5, <1>6 DEF ConsoleInv

\* A step of one page.
LEMMA OnePage ==
  ASSUME ConsoleInv, NEW p \in ConsoleParams.Pages, NEW v, Console!Show(p, v),
         consoleRow'.saves \in Nat, consoleRow.saves <= consoleRow'.saves,
         PageOK(v, p, consoleRow'.saves)
  PROVE  /\ page' \in [ConsoleParams.Pages -> PageShape]
         /\ \A q \in ConsoleParams.Pages :
              PageOK(page'[q], q, consoleRow'.saves)
<1>1. v \in PageShape
  BY DEF PageOK
<1>2. page' \in [ConsoleParams.Pages -> PageShape] /\ page'[p] = v
      /\ \A q \in ConsoleParams.Pages \ {p} : page'[q] = page[q]
  BY <1>1 DEF Console!Show, ConsoleInv
<1>3. ASSUME NEW q \in ConsoleParams.Pages \ {p}
               PROVE PageOK(page'[q], q, consoleRow'.saves)
  <2>1. PageOK(page[q], q, consoleRow.saves) /\ consoleRow.saves \in Nat
    BY DEF ConsoleInv
  <2>2. page[q].flow.saved \in Nat
    BY <2>1 DEF PageOK, PageShape, Pressed
  <2> QED
    BY <1>2, <2>1, <2>2 DEF PageOK
<1> QED
  BY <1>2, <1>3

\* Pages that stay as they are.
LEMMA SamePages ==
  ASSUME ConsoleInv, UNCHANGED page, consoleRow'.saves = consoleRow.saves
  PROVE  /\ page' \in [ConsoleParams.Pages -> PageShape]
         /\ \A q \in ConsoleParams.Pages :
              PageOK(page'[q], q, consoleRow'.saves)
BY DEF ConsoleInv

LEMMA SameLaunches ==
  ASSUME ConsoleInv, UNCHANGED launch, consoleRow'.saves \in Nat,
           consoleRow.saves <= consoleRow'.saves
  PROVE  /\ launch' \in [ConsoleParams.Pages \cup {"timer"} -> LaunchShape]
         /\ \A x \in ConsoleParams.Pages \cup {"timer"} :
              LaunchOK(launch'[x], consoleRow'.saves)
<1>1. ASSUME NEW x \in ConsoleParams.Pages \cup {"timer"}
               PROVE LaunchOK(launch[x], consoleRow'.saves)
  <2>1. LaunchOK(launch[x], consoleRow.saves) /\ launch[x].need \in Nat
          /\ consoleRow.saves \in Nat
    BY DEF ConsoleInv, LaunchShape
  <2> QED
    BY <2>1 DEF LaunchOK
<1> QED
  BY <1>1 DEF ConsoleInv

LEMMA OneLaunch ==
  ASSUME ConsoleInv, NEW x \in ConsoleParams.Pages \cup {"timer"}, NEW l,
         launch' = [launch EXCEPT ![x] = l],
           consoleRow'.saves = consoleRow.saves,
         LaunchOK(l, consoleRow.saves)
  PROVE  /\ launch' \in [ConsoleParams.Pages \cup {"timer"} -> LaunchShape]
         /\ \A y \in ConsoleParams.Pages \cup {"timer"} :
              LaunchOK(launch'[y], consoleRow'.saves)
<1>1. l \in LaunchShape
  BY DEF LaunchOK
<1>2. launch' \in [ConsoleParams.Pages \cup {"timer"} -> LaunchShape]
        /\ launch'[x] = l
      /\ \A y \in (ConsoleParams.Pages \cup {"timer"}) \ {x} :
           launch'[y] = launch[y]
  BY <1>1 DEF ConsoleInv
<1>3. \A y \in (ConsoleParams.Pages \cup {"timer"}) \ {x} :
        LaunchOK(launch'[y], consoleRow'.saves)
  BY <1>2 DEF ConsoleInv
<1> QED
  BY <1>2, <1>3

\* The fields of a page.
LEMMA PageFields ==
  ASSUME NEW v \in PageShape
  PROVE  /\ v.known \in Console!Statuses /\ v.form \in Written
         /\ v.form.leads \in ConsoleParams.Leads /\ v.form.text \in Nat
         /\ v.audience \in ConsoleParams.Leads \cup {"?"}
         /\ \A c \in v.counting : c.leads \in ConsoleParams.Leads
              /\ c.stale \in BOOLEAN
         /\ \A c \in v.loaded : c.status \in Console!Statuses
              /\ c.content \in Written
                                /\ c.content.leads \in ConsoleParams.Leads
         /\ v.flow \in Pressed /\ v.flow.op \in Console!Ops \cup {"none"}
         /\ v.flow.form \in Written
         /\ v.flow.form.leads \in ConsoleParams.Leads
         /\ v.flow.audience \in ConsoleParams.Leads \cup {"?"}
         /\ v.flow.saved \in Nat
<1>1. /\ v.known \in Console!Statuses /\ v.form \in Written
      /\ v.audience \in ConsoleParams.Leads \cup {"?"}
      /\ v.counting \in SUBSET [leads : ConsoleParams.Leads, stale : BOOLEAN]
      /\ v.loaded \in SUBSET [status : Console!Statuses, content : Written]
      /\ v.flow \in Pressed
  BY DEF PageShape
<1>2. \A w \in Written : w.leads \in ConsoleParams.Leads /\ w.text \in Nat
  BY DEF Written
<1>3. /\ v.flow.op \in Console!Ops \cup {"none"} /\ v.flow.form \in Written
      /\ v.flow.audience \in ConsoleParams.Leads \cup {"?"}
      /\ v.flow.saved \in Nat
  BY <1>1 DEF Pressed
<1> QED
  BY <1>1, <1>2, <1>3

\* A press goes on, or ends.
LEMMA PressGoesOn ==
  ASSUME NEW v, NEW p, NEW saves \in Nat, PageOK(v, p, saves),
         NEW s \in {"patch", "patching", "patched", "confirm", "post",
                    "posting", "posted"},
         v.flow.stage \in {"idle", "patch", "patching"}
           => s \in {"idle", "patch", "patching"}
             \/ ~Console!Saves(p, v.flow.op),
         v.flow.op \in Console!Ops,
         s \notin {"idle", "patch", "patching", "patched"}
           => v.flow.op # "save"
  PROVE  /\ PageOK([v EXCEPT !.flow.stage = s], p, saves)
         /\ PageOK(Console!Asking([v EXCEPT !.flow.stage = s]), p, saves)
<1>1. v \in PageShape /\ v.flow \in Pressed
  BY DEF PageOK, PageShape
<1> DEFINE w == [v EXCEPT !.flow.stage = s]
<1>2. /\ [v.flow EXCEPT !.stage = s] \in Pressed
      /\ w = [v EXCEPT !.flow = [v.flow EXCEPT !.stage = s]]
  BY <1>1 DEF Pressed, PageShape
<1>3. /\ w \in PageShape /\ w.form = v.form /\ w.audience = v.audience
      /\ w.counting = v.counting /\ w.flow = [v.flow EXCEPT !.stage = s]
  BY <1>1, <1>2 DEF PageShape
<1>4. /\ w.flow.stage = s /\ w.flow.op = v.flow.op /\ w.flow.form = v.flow.form
      /\ w.flow.audience = v.flow.audience /\ w.flow.saved = v.flow.saved
  BY <1>1, <1>3 DEF Pressed
<1> HIDE DEF w
<1>5. PageOK(w, p, saves)
  BY <1>3, <1>4 DEF PageOK
<1>6. PageOK(Console!Asking(w), p, saves)
  <2>1. /\ Console!Asking(w) \in PageShape /\ Console!Asking(w).form = w.form
        /\ Console!Asking(w).audience = w.audience
        /\ Console!Asking(w).counting = w.counting
        /\ Console!Asking(w).flow = w.flow
    BY <1>3 DEF Console!Asking, PageShape
  <2> QED
    BY <1>5, <2>1 DEF PageOK
<1> QED
  BY <1>5, <1>6 DEF w

LEMMA PressEnds ==
  ASSUME Console!ConsoleAssumption, NEW v, NEW p, NEW saves \in Nat,
           PageOK(v, p, saves)
  PROVE  /\ PageOK([v EXCEPT !.flow = Console!NoFlow], p, saves)
         /\ PageOK(Console!Asking([v EXCEPT !.flow = Console!NoFlow]), p,
              saves)
<1> DEFINE w == [v EXCEPT !.flow = Console!NoFlow]
<1>1. /\ w \in PageShape /\ w.form = v.form /\ w.audience = v.audience
      /\ w.counting = v.counting /\ w.flow = Console!NoFlow
  BY NoFlowOK DEF PageOK, PageShape
<1> HIDE DEF w
<1>2. PageOK(w, p, saves)
  BY <1>1, NoFlowOK DEF PageOK
<1>3. /\ Console!Asking(w) \in PageShape /\ Console!Asking(w).form = w.form
      /\ Console!Asking(w).audience = w.audience
      /\ Console!Asking(w).counting = w.counting
      /\ Console!Asking(w).flow = w.flow
  BY <1>1 DEF Console!Asking, PageShape
<1>4. PageOK(Console!Asking(w), p, saves)
  BY <1>2, <1>3 DEF PageOK
<1> QED
  BY <1>2, <1>4 DEF w

\* The audience is counted again.
LEMMA Recounts ==
  ASSUME NEW v, NEW p, NEW saves \in Nat, v \in PageShape,
         NEW chosen \in ConsoleParams.Leads,
         v.form.leads = chosen, v.flow.audience \in {"?", v.flow.form.leads},
         v.flow.saved <= saves,
         Console!Saves(p, v.flow.op)
           /\ v.flow.stage \notin {"idle", "patch", "patching"}
           => v.flow.saved > 0,
         v.flow.stage # "idle" => v.flow.op \in Console!Ops,
         v.flow.stage \notin {"idle", "patch", "patching", "patched"}
           => v.flow.op # "save"
  PROVE  PageOK(Console!Recount(v, chosen), p, saves)
<1> DEFINE counts1 == {[leads |-> c.leads, stale |-> TRUE] : c \in v.counting}
                        \cup {[leads |-> chosen, stale |-> FALSE]}
           w == Console!Recount(v, chosen)
<1>1. counts1 \in SUBSET [leads : ConsoleParams.Leads, stale : BOOLEAN]
  <2>1. \A c \in v.counting : c.leads \in ConsoleParams.Leads
    BY PageFields
  <2>2. \A c \in v.counting :
          [leads |-> c.leads, stale |-> TRUE]
            \in [leads : ConsoleParams.Leads, stale : BOOLEAN]
    BY <2>1
  <2>3. [leads |-> chosen, stale |-> FALSE]
          \in [leads : ConsoleParams.Leads, stale : BOOLEAN]
    OBVIOUS
  <2>4. {[leads |-> c.leads, stale |-> TRUE] : c \in v.counting}
          \subseteq [leads : ConsoleParams.Leads, stale : BOOLEAN]
    BY <2>2
  <2> QED
    BY <2>3, <2>4
<1>2. \A c \in counts1 : ~c.stale => c.leads = chosen
  OBVIOUS
<1>3. w = [v EXCEPT !.audience = "?", !.counting = counts1]
  BY DEF Console!Recount
<1> HIDE DEF counts1, w
<1>4. /\ w \in PageShape /\ w.audience = "?" /\ w.counting = counts1
      /\ w.form = v.form /\ w.flow = v.flow
  BY <1>1, <1>3 DEF PageShape
<1>5. PageOK(w, p, saves)
  BY <1>2, <1>4 DEF PageOK
<1> QED
  BY <1>5 DEF w

\* A form whose lead group may be another is counted afresh.
LEMMA Reforms ==
  ASSUME NEW v, NEW p, NEW saves \in Nat, PageOK(v, p, saves),
         NEW w, w \in PageShape, w.flow = v.flow,
         NEW chosen \in ConsoleParams.Leads, w.form.leads = chosen
  PROVE  PageOK(Console!Recount(w, chosen), p, saves)
BY Recounts DEF PageOK

\* A page that differs in what it has loaded, or is to load.
LEMMA Reloads ==
  ASSUME NEW v, NEW p, NEW saves, PageOK(v, p, saves), NEW w,
         w \in PageShape, w.form = v.form, w.audience = v.audience,
         w.counting = v.counting, w.flow = v.flow
  PROVE  PageOK(w, p, saves)
BY DEF PageOK

LEMMA PageFacts ==
  ASSUME ConsoleInv, NEW p \in ConsoleParams.Pages
  PROVE  /\ PageOK(page[p], p, consoleRow.saves) /\ page[p] \in PageShape
         /\ consoleRow.saves \in Nat /\ consoleEdits \in Nat
BY DEF ConsoleInv

\* A page is seen, or its form edited.
LEMMA ConsoleViewStep ==
  ASSUME Console!ConsoleAssumption, ConsoleInv, NEW p \in ConsoleParams.Pages
  PROVE  Console!View(p)
           \/ (\E chosen \in ConsoleParams.Leads : Console!Edit(p, chosen))
           => ConsoleInv'
<1>0. /\ PageOK(page[p], p, consoleRow.saves) /\ page[p] \in PageShape
      /\ consoleRow.saves \in Nat /\ consoleEdits \in Nat
  BY PageFacts
<1>n. consoleEdits + 1 \in Nat
  BY <1>0
<1>v. SUFFICES ASSUME Console!View(p) \/ \E chosen \in ConsoleParams.Leads :
                        Console!Edit(p, chosen)
               PROVE  ConsoleInv'
  OBVIOUS
<1>1. UNCHANGED <<consoleRow, launch, took>>
  BY <1>v DEF Console!View, Console!Edit, Console!Counted, Console!LoadRead,
     Console!Loaded, Console!Poll, Console!Dropped, Console!counts
<1>2. consoleEdits' \in Nat
  <2>1. consoleEdits' = consoleEdits \/ consoleEdits' = consoleEdits + 1
    BY <1>v DEF Console!View, Console!Edit, Console!Counted, Console!LoadRead,
       Console!Loaded, Console!Poll, Console!Dropped, Console!counts
  <2> QED
    BY <1>0, <1>n, <2>1
<1>3. SUFFICES \E v : Console!Show(p, v) /\ PageOK(v, p, consoleRow.saves)
  <2>1. /\ page' \in [ConsoleParams.Pages -> PageShape]
        /\ \A q \in ConsoleParams.Pages :
             PageOK(page'[q], q, consoleRow'.saves)
    BY <1>0, <1>1, <1>3, OnePage
  <2>2. /\ launch' \in [ConsoleParams.Pages \cup {"timer"} -> LaunchShape]
        /\ \A x \in ConsoleParams.Pages \cup {"timer"} :
             LaunchOK(launch'[x], consoleRow'.saves)
    BY <1>0, <1>1, SameLaunches
  <2> QED
    BY <1>1, <1>2, <2>1, <2>2 DEF ConsoleInv, Console!SendsSaved
<1>4. ASSUME NEW chosen \in ConsoleParams.Leads, Console!Edit(p, chosen)
      PROVE  \E v : Console!Show(p, v) /\ PageOK(v, p, consoleRow.saves)
  <2> DEFINE shown1 == [page[p] EXCEPT !.form
                 = [text |-> consoleEdits + 1, leads |-> chosen]]
  <2>1. [text |-> consoleEdits + 1, leads |-> chosen] \in Written
    BY DEF ConsoleInv, Written
  <2>2. /\ shown1 \in PageShape /\ shown1.form.leads = chosen
        /\ shown1.audience = page[p].audience
        /\ shown1.counting = page[p].counting
        /\ shown1.flow = page[p].flow
    BY <1>0, <2>1 DEF PageShape
  <2>3. Console!Show(p,
          IF chosen = page[p].form.leads THEN shown1
          ELSE Console!Recount(shown1, chosen))
    BY <1>4 DEF Console!Edit
  <2> HIDE DEF shown1
  <2>4. CASE chosen = page[p].form.leads
    <3>1. PageOK(shown1, p, consoleRow.saves)
      BY <1>0, <2>2, <2>4 DEF PageOK
    <3> QED
      BY <2>3, <2>4, <3>1
  <2>5. CASE chosen # page[p].form.leads
    <3>1. PageOK(Console!Recount(shown1, chosen), p, consoleRow.saves)
      BY <1>0, <2>2, Reforms
    <3> QED
      BY <2>3, <2>5, <3>1
  <2> QED
    BY <2>4, <2>5
<1>5. ASSUME Console!Counted(p)
      PROVE  \E v : Console!Show(p, v) /\ PageOK(v, p, consoleRow.saves)
  <2>1. PICK c \in page[p].counting :
          Console!Show(p, [page[p] EXCEPT !.counting = @ \ {c},
                                  !.audience = IF c.stale THEN @ ELSE c.leads])
    BY <1>5 DEF Console!Counted
  <2> DEFINE v == [page[p] EXCEPT !.counting = @ \ {c},
                                  !.audience = IF c.stale THEN @ ELSE c.leads]
             shown == IF c.stale THEN page[p].audience ELSE c.leads
  <2>2. /\ v = [page[p] EXCEPT !.counting = page[p].counting \ {c},
                               !.audience = shown]
        /\ shown \in ConsoleParams.Leads \cup {"?"}
        /\ shown \in {"?", page[p].form.leads}
    BY <1>0, PageFields DEF PageOK
  <2> HIDE DEF v, shown
  <2>3. /\ v \in PageShape /\ v.audience = shown
        /\ v.counting = page[p].counting \ {c}
        /\ v.form = page[p].form /\ v.flow = page[p].flow
    BY <1>0, <2>2 DEF PageShape
  <2>4. PageOK(v, p, consoleRow.saves)
    BY <1>0, <2>2, <2>3 DEF PageOK
  <2> QED
    BY <2>1, <2>4 DEF v
<1>6. ASSUME Console!LoadRead(p)
      PROVE  \E v : Console!Show(p, v) /\ PageOK(v, p, consoleRow.saves)
  <2> DEFINE answers == IF consoleRow.status = "gone" THEN page[p].loaded
                        ELSE page[p].loaded
                               \cup {[status |-> consoleRow.status,
                                 content |-> consoleRow.content]}
             v == [page[p] EXCEPT !.loads = FALSE, !.loaded = answers]
  <2>1. Console!Show(p, v)
    BY <1>6 DEF Console!LoadRead
  <2>2. answers \in SUBSET [status : Console!Statuses, content : Written]
    BY <1>0 DEF PageShape, ConsoleInv
  <2> HIDE DEF answers
  <2>3. PageOK(v, p, consoleRow.saves)
    <3>1. /\ v \in PageShape /\ v.form = page[p].form
          /\ v.audience = page[p].audience /\ v.counting = page[p].counting
          /\ v.flow = page[p].flow
      BY <1>0, <2>2 DEF PageShape
    <3> HIDE DEF v
    <3> QED
      BY <1>0, <3>1, Reloads
  <2> QED
    BY <2>1, <2>3
<1>7. ASSUME Console!Loaded(p)
      PROVE  \E v : Console!Show(p, v) /\ PageOK(v, p, consoleRow.saves)
  <2>1. PICK c \in page[p].loaded :
          Console!Show(p, Console!Recount(
            [page[p] EXCEPT !.loaded = @ \ {c},
                            !.known = c.status,
                            !.form = c.content],
            c.content.leads))
    BY <1>7 DEF Console!Loaded
  <2>2. c.status \in Console!Statuses /\ c.content \in Written
          /\ c.content.leads \in ConsoleParams.Leads
    BY <1>0, PageFields
  <2> DEFINE v == [page[p] EXCEPT !.loaded = @ \ {c}, !.known = c.status,
                                  !.form = c.content]
  <2>3. v \in PageShape /\ v.form = c.content /\ v.flow = page[p].flow
    BY <1>0, <2>2 DEF PageShape
  <2> HIDE DEF v
  <2>4. PageOK(Console!Recount(v, c.content.leads), p, consoleRow.saves)
    BY <1>0, <2>2, <2>3, Reforms
  <2> QED
    BY <2>1, <2>4 DEF v
<1>8. ASSUME Console!Poll(p)
      PROVE  \E v : Console!Show(p, v) /\ PageOK(v, p, consoleRow.saves)
  <2>1. Console!Show(p, [page[p] EXCEPT !.loads = TRUE])
    BY <1>8 DEF Console!Poll, Console!Asking
  <2> DEFINE v == [page[p] EXCEPT !.loads = TRUE]
  <2>2. /\ v \in PageShape /\ v.form = page[p].form
        /\ v.audience = page[p].audience /\ v.counting = page[p].counting
        /\ v.flow = page[p].flow
    BY <1>0 DEF PageShape
  <2> HIDE DEF v
  <2>3. PageOK(v, p, consoleRow.saves)
    BY <1>0, <2>2, Reloads
  <2> QED
    BY <2>1, <2>3 DEF v
<1>9. ASSUME Console!Dropped(p)
      PROVE  \E v : Console!Show(p, v) /\ PageOK(v, p, consoleRow.saves)
  <2>1. CASE Console!Show(p, [page[p] EXCEPT !.loads = FALSE])
    <3> DEFINE v == [page[p] EXCEPT !.loads = FALSE]
    <3>1. /\ v \in PageShape /\ v.form = page[p].form
          /\ v.audience = page[p].audience /\ v.counting = page[p].counting
          /\ v.flow = page[p].flow
      BY <1>0 DEF PageShape
    <3> HIDE DEF v
    <3>2. PageOK(v, p, consoleRow.saves)
      BY <1>0, <3>1, Reloads
    <3> QED
      BY <2>1, <3>2 DEF v
  <2>2. CASE \E c \in page[p].loaded :
          Console!Show(p, [page[p] EXCEPT !.loaded = @ \ {c}])
    <3>0. PICK c \in page[p].loaded :
            Console!Show(p, [page[p] EXCEPT !.loaded = @ \ {c}])
      BY <2>2
    <3> DEFINE v == [page[p] EXCEPT !.loaded = @ \ {c}]
    <3>1. /\ v \in PageShape /\ v.form = page[p].form
          /\ v.audience = page[p].audience /\ v.counting = page[p].counting
          /\ v.flow = page[p].flow
      BY <1>0 DEF PageShape
    <3> HIDE DEF v
    <3>2. PageOK(v, p, consoleRow.saves)
      BY <1>0, <3>1, Reloads
    <3> QED
      BY <3>0, <3>2 DEF v
  <2> QED
    BY <1>9, <2>1, <2>2 DEF Console!Dropped
<1> QED
  BY <1>v, <1>4, <1>5, <1>6, <1>7, <1>8, <1>9 DEF Console!View

\* Steps of a button that leave the campaign and the launches alone.
LEMMA PressStep ==
  ASSUME Console!ConsoleAssumption, ConsoleInv, NEW p \in ConsoleParams.Pages,
         UNCHANGED <<consoleRow, launch, took, consoleEdits>>,
         NEW v, Console!Show(p, v), PageOK(v, p, consoleRow.saves)
  PROVE  ConsoleInv'
<1>0. consoleRow.saves \in Nat
  BY DEF ConsoleInv
<1>1. /\ page' \in [ConsoleParams.Pages -> PageShape]
      /\ \A q \in ConsoleParams.Pages : PageOK(page'[q], q, consoleRow'.saves)
  BY <1>0, OnePage
<1>2. /\ launch' \in [ConsoleParams.Pages \cup {"timer"} -> LaunchShape]
      /\ \A x \in ConsoleParams.Pages \cup {"timer"} :
           LaunchOK(launch'[x], consoleRow'.saves)
  BY <1>0, SameLaunches
<1> QED
  BY <1>1, <1>2 DEF ConsoleInv, Console!SendsSaved

LEMMA ButtonStep ==
  ASSUME Console!ConsoleAssumption, ConsoleInv, NEW p \in ConsoleParams.Pages,
         Console!Buttons(p)
  PROVE  ConsoleInv'
<1>0. /\ PageOK(page[p], p, consoleRow.saves) /\ page[p] \in PageShape
      /\ consoleRow.saves \in Nat
      /\ consoleRow
           \in [status : Console!Statuses, content : Written, saves : Nat]
  BY DEF ConsoleInv
<1> DEFINE v == page[p]
           f == page[p].flow
<1>a. /\ f.stage # "idle" => f.op \in Console!Ops
      /\ f.stage \notin {"idle", "patch", "patching", "patched"}
           => f.op # "save"
  BY <1>0 DEF PageOK
<1>1. ASSUME NEW op \in Console!Ops, Console!Press(p, op)
      PROVE  ConsoleInv'
  <2> DEFINE first == IF Console!Saves(p, op) THEN "patch"
                      ELSE IF op = "send" THEN "confirm" ELSE "post"
             pressed == [op |-> op, form |-> v.form, audience |-> v.audience,
                         saved |-> 0, stage |-> first]
             w == [page[p] EXCEPT !.flow = pressed]
  <2>1. Console!Show(p, w)
          /\ UNCHANGED <<consoleRow, launch, took, consoleEdits>>
    BY <1>1 DEF Console!Press
  <2>2. first \in {"patch", "confirm", "post"}
          /\ (Console!Saves(p, op) => first = "patch")
    OBVIOUS
  <2>7. op = "save" => first = "patch"
    <3>1. op = "save" => p \in ConsoleParams.Editors
      BY <1>1 DEF Console!Press, Console!Offered
    <3> QED
      BY <3>1 DEF Console!Saves
  <2> HIDE DEF first
  <2>3. pressed \in Pressed
    BY <1>0, <2>2, PageFields DEF Pressed
  <2>4. /\ pressed.op = op /\ pressed.form = v.form
        /\ pressed.audience = v.audience
        /\ pressed.saved = 0 /\ pressed.stage = first
    OBVIOUS
  <2> HIDE DEF pressed
  <2>5. /\ w \in PageShape /\ w.form = v.form /\ w.audience = v.audience
        /\ w.counting = v.counting /\ w.flow = pressed
    BY <1>0, <2>3 DEF PageShape
  <2> HIDE DEF w
  <2>6. PageOK(w, p, consoleRow.saves)
    BY <1>0, <2>2, <2>4, <2>5, <2>7 DEF PageOK
  <2> QED
    BY <2>1, <2>6, PressStep
<1>2. CASE Console!PatchRead(p)
  <2>1. f.stage = "patch"
          /\ UNCHANGED <<consoleRow, launch, took, consoleEdits>>
    BY <1>2 DEF Console!PatchRead, Console!At, Console!counts
  <2>2. PageOK([v EXCEPT !.flow.stage = "patching"], p, consoleRow.saves)
    BY <1>0, <1>a, <2>1, PressGoesOn
  <2>3. PageOK([v EXCEPT !.flow = Console!NoFlow], p, consoleRow.saves)
    BY <1>0, PressEnds
  <2>4. \/ Console!Show(p, [v EXCEPT !.flow.stage = "patching"])
        \/ Console!Show(p, [v EXCEPT !.flow = Console!NoFlow])
    BY <1>2 DEF Console!PatchRead, Console!To, Console!Fail
  <2> QED
    BY <2>1, <2>2, <2>3, <2>4, PressStep
<1>3. CASE Console!PatchWrite(p)
  <2>1. CASE consoleRow.status = "gone"
    <3>1. PageOK([v EXCEPT !.flow = Console!NoFlow], p, consoleRow.saves)
      BY <1>0, PressEnds
    <3>2. /\ Console!Show(p, [v EXCEPT !.flow = Console!NoFlow])
          /\ UNCHANGED <<consoleRow, launch, took, consoleEdits>>
      BY <1>3, <2>1 DEF Console!PatchWrite, Console!Fail, Console!counts
    <3> QED
      BY <3>1, <3>2, PressStep
  <2>2. CASE consoleRow.status # "gone"
    <3> DEFINE w == [page[p] EXCEPT !.flow.stage = "patched",
                                    !.flow.saved = consoleRow.saves + 1]
               g == [f EXCEPT !.stage = "patched",
                              !.saved = consoleRow.saves + 1]
    <3>1. /\ consoleRow'
               = [consoleRow EXCEPT !.content = f.form,
                                    !.saves = consoleRow.saves + 1]
          /\ Console!Show(p, w) /\ UNCHANGED <<launch, took, consoleEdits>>
      BY <1>3, <2>2 DEF Console!PatchWrite, Console!counts
    <3>2. f \in Pressed /\ f.form \in Written
      BY <1>0, PageFields
    <3>3. /\ consoleRow'
               \in [status : Console!Statuses, content : Written, saves : Nat]
          /\ consoleRow'.saves = consoleRow.saves + 1
      <4>1. consoleRow.status \in Console!Statuses
              /\ consoleRow.saves + 1 \in Nat
        BY <1>0
      <4>2. consoleRow' = [status |-> consoleRow.status, content |-> f.form,
                           saves |-> consoleRow.saves + 1]
        BY <1>0, <3>1
      <4> QED
        BY <3>2, <4>1, <4>2
    <3>4. /\ g \in Pressed /\ g.saved = consoleRow.saves + 1 /\ g.form = f.form
          /\ g.audience = f.audience /\ g.op = f.op /\ g.stage = "patched"
      <4>1. consoleRow.saves + 1 \in Nat
        BY <1>0
      <4> DEFINE n == consoleRow.saves + 1
      <4>2. g = [f EXCEPT !.stage = "patched", !.saved = n]
        OBVIOUS
      <4> HIDE DEF g, n
      <4>3. g \in Pressed /\ g.saved = n
        BY <3>2, <4>1, <4>2 DEF Pressed, n
      <4>4. /\ g.form = f.form /\ g.audience = f.audience /\ g.op = f.op
            /\ g.stage = "patched"
        BY <3>2, <4>2 DEF Pressed
      <4> QED
        BY <4>3, <4>4 DEF n
    <3>5. w = [page[p] EXCEPT !.flow = g]
      BY <1>0 DEF PageShape, Pressed
    <3> HIDE DEF g, w
    <3>6. /\ w \in PageShape /\ w.form = v.form /\ w.audience = v.audience
          /\ w.counting = v.counting /\ w.flow = g
      BY <1>0, <3>4, <3>5 DEF PageShape
    <3>7. PageOK(w, p, consoleRow'.saves)
      <4>1. f.op \in Console!Ops
        BY <1>3, <1>a DEF Console!PatchWrite, Console!At
      <4>2. consoleRow'.saves = consoleRow.saves + 1
              /\ consoleRow.saves \in Nat
        BY <1>0, <3>3
      <4>3. w.flow.saved <= consoleRow'.saves /\ w.flow.saved > 0
        BY <3>4, <3>6, <4>2
      <4> QED
        BY <1>0, <3>4, <3>6, <4>1, <4>3 DEF PageOK
    <3>8. consoleRow'.saves \in Nat /\ consoleRow.saves <= consoleRow'.saves
      BY <1>0, <3>3
    <3>9. /\ page' \in [ConsoleParams.Pages -> PageShape]
          /\ \A q \in ConsoleParams.Pages :
               PageOK(page'[q], q, consoleRow'.saves)
      BY <3>1, <3>7, <3>8, OnePage
    <3>10. /\ launch' \in [ConsoleParams.Pages \cup {"timer"} -> LaunchShape]
           /\ \A x \in ConsoleParams.Pages \cup {"timer"} :
                LaunchOK(launch'[x], consoleRow'.saves)
      BY <3>1, <3>8, SameLaunches
    <3> QED
      BY <3>1, <3>3, <3>9, <3>10 DEF ConsoleInv, Console!SendsSaved
  <2> QED
    BY <2>1, <2>2
<1>4. CASE Console!PatchAnswer(p)
  <2>1. f.stage = "patched"
          /\ UNCHANGED <<consoleRow, launch, took, consoleEdits>>
    BY <1>4 DEF Console!PatchAnswer, Console!At, Console!counts
  <2>2. f.op # "save" =>
          /\ PageOK(Console!Asking([v EXCEPT !.flow.stage = "confirm"]), p,
               consoleRow.saves)
          /\ PageOK(Console!Asking([v EXCEPT !.flow.stage = "post"]), p,
               consoleRow.saves)
    BY <1>0, <1>a, <2>1, PressGoesOn
  <2>3. PageOK(Console!Asking([v EXCEPT !.flow = Console!NoFlow]), p,
          consoleRow.saves)
    BY <1>0, PressEnds
  <2>4. \/ /\ f.op # "save"
           /\ \/ Console!Show(p,
                   Console!Asking([v EXCEPT !.flow.stage = "confirm"]))
              \/ Console!Show(p,
                   Console!Asking([v EXCEPT !.flow.stage = "post"]))
        \/ Console!Show(p, Console!Asking([v EXCEPT !.flow = Console!NoFlow]))
    BY <1>4 DEF Console!PatchAnswer, Console!Finish
  <2> QED
    BY <2>1, <2>2, <2>3, <2>4, PressStep
<1>5. CASE Console!PatchLost(p)
  <2>1. PageOK([v EXCEPT !.flow = Console!NoFlow], p, consoleRow.saves)
    BY <1>0, PressEnds
  <2>2. /\ Console!Show(p, [v EXCEPT !.flow = Console!NoFlow])
        /\ UNCHANGED <<consoleRow, launch, took, consoleEdits>>
    BY <1>5 DEF Console!PatchLost, Console!Fail
  <2> QED
    BY <2>1, <2>2, PressStep
<1>6. ASSUME NEW yes \in BOOLEAN, Console!Confirm(p, yes)
      PROVE  ConsoleInv'
  <2>1. f.stage = "confirm"
          /\ UNCHANGED <<consoleRow, launch, took, consoleEdits>>
    BY <1>6 DEF Console!Confirm, Console!At, Console!counts
  <2>2. PageOK([v EXCEPT !.flow.stage = "post"], p, consoleRow.saves)
    BY <1>0, <1>a, <2>1, PressGoesOn
  <2>3. PageOK([v EXCEPT !.flow = Console!NoFlow], p, consoleRow.saves)
    BY <1>0, PressEnds
  <2>4. \/ Console!Show(p, [v EXCEPT !.flow.stage = "post"])
        \/ Console!Show(p, [v EXCEPT !.flow = Console!NoFlow])
    BY <1>6 DEF Console!Confirm, Console!To, Console!Fail
  <2> QED
    BY <2>1, <2>2, <2>3, <2>4, PressStep
<1>7. CASE Console!PostRead(p)
  <2>1. f.stage = "post"
          /\ UNCHANGED <<consoleRow, launch, took, consoleEdits>>
    BY <1>7 DEF Console!PostRead, Console!At, Console!counts
  <2>2. PageOK([v EXCEPT !.flow.stage = "posting"], p, consoleRow.saves)
    BY <1>0, <1>a, <2>1, PressGoesOn
  <2>3. PageOK([v EXCEPT !.flow = Console!NoFlow], p, consoleRow.saves)
    BY <1>0, PressEnds
  <2>4. \/ Console!Show(p, [v EXCEPT !.flow.stage = "posting"])
        \/ Console!Show(p, [v EXCEPT !.flow = Console!NoFlow])
    BY <1>7 DEF Console!PostRead, Console!To, Console!Fail
  <2> QED
    BY <2>1, <2>2, <2>3, <2>4, PressStep
<1>8. CASE Console!PostWrite(p)
  <2>1. f.stage = "posting" /\ UNCHANGED <<took, consoleEdits>>
    BY <1>8 DEF Console!PostWrite, Console!At, Console!counts
  <2>2. PageOK([v EXCEPT !.flow.stage = "posted"], p, consoleRow.saves)
    BY <1>0, <1>a, <2>1, PressGoesOn
  <2>3. PageOK([v EXCEPT !.flow = Console!NoFlow], p, consoleRow.saves)
    BY <1>0, PressEnds
  <2>4. CASE f.op \in {"send", "resume"}
    <3> DEFINE l == [Console!NoLaunch EXCEPT !.stage = "asked",
                                             !.form = f.form,
                       !.need = f.saved, !.must = Console!Saves(p, f.op),
                       !.from = IF f.op = "send" THEN "draft" ELSE "paused"]
    <3>1. /\ launch' = [launch EXCEPT ![p] = l]
          /\ Console!Show(p, [v EXCEPT !.flow.stage = "posted"])
          /\ UNCHANGED consoleRow
      BY <1>8, <2>4 DEF Console!PostWrite, Console!To
    <3>2. /\ f.form \in Written /\ f.saved \in Nat
          /\ f.saved <= consoleRow.saves
          /\ Console!Saves(p, f.op) \in BOOLEAN
               /\ (Console!Saves(p, f.op) => f.saved > 0)
      BY <1>0, <2>1, PageFields DEF PageOK, Console!Saves
    <3>3. /\ l.stage = "asked" /\ l.need = f.saved
          /\ l.must = Console!Saves(p, f.op) /\ l \in LaunchShape
      <4> DEFINE from == IF f.op = "send" THEN "draft" ELSE "paused"
                 must == Console!Saves(p, f.op)
      <4>1. from \in {"draft", "paused"}
        OBVIOUS
      <4>2. l = [Console!NoLaunch EXCEPT !.stage = "asked", !.form = f.form,
                   !.need = f.saved, !.must = must, !.from = from]
        OBVIOUS
      <4> HIDE DEF l, from, must
      <4>3. must \in BOOLEAN
        BY <3>2 DEF must
      <4>4. /\ l.stage = "asked" /\ l.need = f.saved /\ l.must = must
            /\ l \in LaunchShape
        BY <3>2, <4>1, <4>2, <4>3, NoFlowOK DEF LaunchShape
      <4> QED
        BY <4>4 DEF must
    <3> HIDE DEF l
    <3>5. LaunchOK(l, consoleRow.saves)
      BY <3>2, <3>3 DEF LaunchOK
    <3>6. /\ launch' \in [ConsoleParams.Pages \cup {"timer"} -> LaunchShape]
          /\ \A x \in ConsoleParams.Pages \cup {"timer"} :
               LaunchOK(launch'[x], consoleRow'.saves)
      BY <3>1, <3>5, OneLaunch
    <3>7. /\ page' \in [ConsoleParams.Pages -> PageShape]
          /\ \A q \in ConsoleParams.Pages :
               PageOK(page'[q], q, consoleRow'.saves)
      BY <1>0, <2>2, <3>1, OnePage
    <3> QED
      BY <2>1, <3>1, <3>6, <3>7 DEF ConsoleInv, Console!SendsSaved
  <2>5. CASE f.op \in {"schedule", "pause", "cancel", "delete"}
          /\ consoleRow.status = "gone"
    <3>1. /\ Console!Show(p, [v EXCEPT !.flow = Console!NoFlow])
          /\ UNCHANGED <<consoleRow, launch, took, consoleEdits>>
      BY <1>8, <2>1, <2>5 DEF Console!PostWrite, Console!Fail
    <3> QED
      BY <2>3, <3>1, PressStep
  <2>6. CASE f.op \in {"schedule", "pause", "cancel", "delete"}
          /\ consoleRow.status # "gone"
    <3>1. /\ Console!Show(p, [v EXCEPT !.flow.stage = "posted"])
          /\ UNCHANGED launch
          /\ \E s \in Console!Statuses :
               consoleRow' = [consoleRow EXCEPT !.status = s]
      <4>1. /\ Console!To(p, "posted") /\ UNCHANGED launch
            /\ Console!Status(CASE f.op = "schedule" -> "scheduled" [] f.op
                 = "pause" -> "paused"
                        [] f.op = "cancel" -> "cancelled" [] f.op
                          = "delete" -> "gone")
        BY <1>8, <2>6 DEF Console!PostWrite
      <4> DEFINE s == CASE f.op = "schedule" -> "scheduled" [] f.op
                     = "pause" -> "paused"
                        [] f.op = "cancel" -> "cancelled" [] f.op
                          = "delete" -> "gone"
      <4>2. s \in Console!Statuses
        BY <2>6 DEF Console!Statuses, Console!Editable
      <4> HIDE DEF s
      <4>3. Console!Status(s)
        BY <4>1 DEF s
      <4> QED
        BY <4>1, <4>2, <4>3 DEF Console!Status, Console!To
    <3>2. /\ consoleRow'
               \in [status : Console!Statuses, content : Written, saves : Nat]
          /\ consoleRow'.saves = consoleRow.saves
      BY <1>0, <3>1
    <3>3. /\ page' \in [ConsoleParams.Pages -> PageShape]
          /\ \A q \in ConsoleParams.Pages :
               PageOK(page'[q], q, consoleRow'.saves)
      BY <1>0, <2>2, <3>1, <3>2, OnePage
    <3>4. /\ launch' \in [ConsoleParams.Pages \cup {"timer"} -> LaunchShape]
          /\ \A x \in ConsoleParams.Pages \cup {"timer"} :
               LaunchOK(launch'[x], consoleRow'.saves)
      BY <1>0, <3>1, <3>2, SameLaunches
    <3> QED
      BY <2>1, <3>2, <3>3, <3>4 DEF ConsoleInv, Console!SendsSaved
  <2>7. f.op \in {"send", "resume", "schedule", "pause", "cancel", "delete"}
    BY <1>a, <2>1 DEF Console!Ops
  <2> QED
    BY <2>4, <2>5, <2>6, <2>7
<1>9. CASE Console!PostAnswer(p)
  <2>1. /\ Console!Show(p, Console!Asking([v EXCEPT !.flow = Console!NoFlow]))
        /\ UNCHANGED <<consoleRow, launch, took, consoleEdits>>
    BY <1>9 DEF Console!PostAnswer, Console!Finish, Console!counts
  <2>2. PageOK(Console!Asking([v EXCEPT !.flow = Console!NoFlow]), p,
          consoleRow.saves)
    BY <1>0, PressEnds
  <2> QED
    BY <2>1, <2>2, PressStep
<1> QED
  BY <1>1, <1>2, <1>3, <1>4, <1>5, <1>6, <1>7, <1>8, <1>9 DEF Console!Buttons

LEMMA ServerStep ==
  ASSUME Console!ConsoleAssumption, ConsoleInv, Console!Server
  PROVE  ConsoleInv'
<1>0. /\ consoleRow.saves \in Nat
      /\ consoleRow
           \in [status : Console!Statuses, content : Written, saves : Nat]
  BY DEF ConsoleInv
<1>1. DOMAIN launch = ConsoleParams.Pages \cup {"timer"}
  BY DEF ConsoleInv
<1>2. CASE Console!Timer
  <2> DEFINE l == [Console!NoLaunch EXCEPT !.stage = "asked"]
  <2>1. launch' = [launch EXCEPT !["timer"] = l]
          /\ UNCHANGED <<consoleRow, page, took, consoleEdits>>
    BY <1>2 DEF Console!Timer, Console!counts
  <2>2. LaunchOK(l, consoleRow.saves)
    <3>1. l \in LaunchShape /\ l.stage = "asked" /\ l.must = FALSE
            /\ l.need = 0
      BY NoFlowOK DEF LaunchShape
    <3> QED
      BY <1>0, <3>1 DEF LaunchOK
  <2> HIDE DEF l
  <2>3. /\ launch' \in [ConsoleParams.Pages \cup {"timer"} -> LaunchShape]
        /\ \A x \in ConsoleParams.Pages \cup {"timer"} :
             LaunchOK(launch'[x], consoleRow'.saves)
    BY <2>1, <2>2, OneLaunch
  <2> QED
    BY <2>1, <2>3 DEF ConsoleInv, Console!SendsSaved
<1>3. CASE Console!BlastDone
  <2>1. consoleRow' = [consoleRow EXCEPT !.status = "sent"]
          /\ UNCHANGED <<page, launch, took, consoleEdits>>
    BY <1>3 DEF Console!BlastDone, Console!Status, Console!counts
  <2>2. /\ consoleRow'
             \in [status : Console!Statuses, content : Written, saves : Nat]
        /\ consoleRow'.saves = consoleRow.saves
    BY <1>0, <2>1 DEF Console!Statuses
  <2> QED
    BY <2>1, <2>2 DEF ConsoleInv, Console!SendsSaved
<1>4. ASSUME NEW x \in ConsoleParams.Pages \cup {"timer"},
               Console!LaunchRead(x)
      PROVE  ConsoleInv'
  <2> DEFINE l == [launch[x] EXCEPT
               !.stage = "read", !.saves = consoleRow.saves,
               !.same = consoleRow.content = launch[x].form]
  <2>1. /\ UNCHANGED <<consoleRow, page, took, consoleEdits>>
        /\ \/ launch' = [launch EXCEPT ![x] = l]
           \/ launch' = [launch EXCEPT ![x] = Console!NoLaunch]
    BY <1>4 DEF Console!LaunchRead, Console!counts, ConsoleInv
  <2>2. LaunchOK(Console!NoLaunch, consoleRow.saves)
    BY <1>0, NoFlowOK DEF LaunchOK, Console!NoLaunch
  <2>3. LaunchOK(l, consoleRow.saves)
    <3>1. LaunchOK(launch[x], consoleRow.saves) /\ launch[x] \in LaunchShape
      BY DEF ConsoleInv
    <3>2. /\ l \in LaunchShape /\ l.must = launch[x].must
          /\ l.need = launch[x].need /\ l.saves = consoleRow.saves
      BY <1>0, <3>1 DEF LaunchShape
    <3> HIDE DEF l
    <3> QED
      BY <1>0, <3>1, <3>2 DEF LaunchOK
  <2> HIDE DEF l
  <2>4. /\ launch' \in [ConsoleParams.Pages \cup {"timer"} -> LaunchShape]
        /\ \A y \in ConsoleParams.Pages \cup {"timer"} :
             LaunchOK(launch'[y], consoleRow'.saves)
    BY <2>1, <2>2, <2>3, OneLaunch
  <2> QED
    BY <2>1, <2>4 DEF ConsoleInv, Console!SendsSaved
<1>5. ASSUME NEW x \in ConsoleParams.Pages \cup {"timer"},
               Console!LaunchClaim(x)
      PROVE  ConsoleInv'
  <2>1. /\ launch[x].stage = "read"
        /\ launch' = [launch EXCEPT ![x] = Console!NoLaunch]
        /\ UNCHANGED <<page, consoleEdits>>
        /\ \/ UNCHANGED <<consoleRow, took>>
           \/ /\ consoleRow' = [consoleRow EXCEPT !.status = "sending"]
              /\ took'.must = launch[x].must /\ took'.need = launch[x].need
              /\ took'.saves = launch[x].saves
    BY <1>5 DEF Console!LaunchClaim, Console!Status, Console!counts
  <2>2. /\ consoleRow'
             \in [status : Console!Statuses, content : Written, saves : Nat]
        /\ consoleRow'.saves = consoleRow.saves
    BY <1>0, <2>1 DEF Console!Statuses
  <2>3. LaunchOK(Console!NoLaunch, consoleRow.saves)
    BY <1>0, NoFlowOK DEF LaunchOK, Console!NoLaunch
  <2>4. /\ launch' \in [ConsoleParams.Pages \cup {"timer"} -> LaunchShape]
        /\ \A y \in ConsoleParams.Pages \cup {"timer"} :
             LaunchOK(launch'[y], consoleRow'.saves)
    BY <2>1, <2>2, <2>3, OneLaunch
  <2>5. Console!SendsSaved'
    <3>1. LaunchOK(launch[x], consoleRow.saves) /\ Console!SendsSaved
      BY DEF ConsoleInv
    <3>2. launch[x].need \in Nat /\ launch[x].saves \in Nat
      BY <3>1 DEF LaunchOK, LaunchShape
    <3> QED
      BY <2>1, <3>1, <3>2 DEF LaunchOK, Console!SendsSaved
  <2> QED
    BY <2>1, <2>2, <2>4, <2>5 DEF ConsoleInv
<1> QED
  BY <1>1, <1>2, <1>3, <1>4, <1>5 DEF Console!Server

LEMMA ConsoleStep ==
  ASSUME Console!ConsoleAssumption
  PROVE  ConsoleInv /\ [Console!Next]_(Console!vars) => ConsoleInv'
<1> SUFFICES ASSUME ConsoleInv, [Console!Next]_(Console!vars) PROVE ConsoleInv'
  OBVIOUS
<1>1. CASE UNCHANGED Console!vars
  BY <1>1 DEF Console!vars, ConsoleInv, Console!SendsSaved
<1> QED
  BY <1>1, ServerStep, ConsoleViewStep, ButtonStep DEF Console!Next

LEMMA ConsoleHolds == ConsoleInv => Console!AudienceFits /\ Console!SendsSaved
BY DEF ConsoleInv, Console!AudienceFits, PageOK

\* The number of leads that a page shows, or asks a blast to be confirmed with,
\* is one for the leads chosen in that form (CampaignDetail.tsx:401-410, 484).
THEOREM CountsFitTheForm == Spec => []AudienceFits
<1> DEFINE I == part = "console" => ConsoleInv
<1>1. Init => I
  BY PartsAssumption, ConsoleInit DEF Init
<1>2. I /\ [Next]_vars => I'
  BY PartsAssumption, PartSteps, ConsoleStep
<1>3. I => AudienceFits
  BY PartsAssumption, ConsoleHolds DEF AudienceFits
<1> QED
  BY <1>1, <1>2, <1>3, PTL DEF Spec

\* A blast that an editor starts carries what that press has saved, or
\* something saved later, through any other pages, lost answers and other starts
\* (CampaignDetail.tsx:483).
THEOREM SavesComeFirst == Spec => []SendsSaved
<1> DEFINE I == part = "console" => ConsoleInv
<1>1. Init => I
  BY PartsAssumption, ConsoleInit DEF Init
<1>2. I /\ [Next]_vars => I'
  BY PartsAssumption, PartSteps, ConsoleStep
<1>3. I => SendsSaved
  BY PartsAssumption, ConsoleHolds DEF SendsSaved
<1> QED
  BY <1>1, <1>2, <1>3, PTL DEF Spec

-----------------------------------------------------------------------------
\* The property and its panels.

\* The fields that a save of the panel is about.
About(r) ==
  {f \in Editor!Fields : \/ f = r.panel
                         \/ r.panel = "toggle" /\ f = "prompt"
                         \/ r.panel = "keys" /\ f = "site"
                         \/ r.panel = "keys" /\ f = "secret" /\ r.form[f] # ""}

\* A request sets the fields that its panel is about, and a toggle has made the
\* prompt it sends say what it was to say.
RequestOK(r) ==
  /\ r.panel \in Editor!Panels
  /\ r.form \in Editor!Form
  /\ \A f \in Editor!Fields : f \in r.sets <=> f \in About(r)
  /\ r.panel = "toggle" =>
       (Editor!Allowed(r.form.prompt, r.toggle.path) <=> r.toggle.allowed)

EditorInv ==
  /\ editorRow
       \in [fields : Editor!Form, domains : SUBSET EditorParams.Domains,
       verified : BOOLEAN]
  /\ form \in [EditorParams.Editors -> Editor!Form]
  /\ listed \in [EditorParams.Editors -> [EditorParams.Paths -> BOOLEAN]]
  /\ hosted \subseteq [domain : EditorParams.Domains,
       read : SUBSET EditorParams.Domains]
  /\ leads \in Nat
  /\ \A r \in sent : RequestOK(r)
  /\ Editor!PropertySound

LEMMA FormShape ==
  /\ \A f \in Editor!Form : /\ DOMAIN f = Editor!Fields
                            /\ f.prompt \in Editor!Prompt
                            /\ f.caps \in EditorParams.Texts
                            /\ f.call \in EditorParams.Texts
                            /\ f.site \in EditorParams.Texts
                            /\ f.secret \in EditorParams.Texts
                            /\ f = [x \in Editor!Fields |-> f[x]]
  /\ \A q \in Editor!Prompt : /\ q.include \in SUBSET EditorParams.Patterns
                              /\ q.exclude \in SUBSET EditorParams.Patterns
                              /\ q.look \in EditorParams.Texts
<1>1. \A q \in Editor!Prompt : /\ q.include \in SUBSET EditorParams.Patterns
                               /\ q.exclude \in SUBSET EditorParams.Patterns
                               /\ q.look \in EditorParams.Texts
  BY DEF Editor!Prompt
<1>2. ASSUME NEW f \in Editor!Form
      PROVE  /\ DOMAIN f = Editor!Fields
             /\ f.prompt \in Editor!Prompt /\ f.caps \in EditorParams.Texts
             /\ f.call \in EditorParams.Texts
             /\ f.site \in EditorParams.Texts
             /\ f.secret \in EditorParams.Texts
             /\ f = [x \in Editor!Fields |-> f[x]]
  <2>1. /\ f.prompt \in Editor!Prompt /\ f.caps \in EditorParams.Texts
        /\ f.call \in EditorParams.Texts
        /\ f.site \in EditorParams.Texts /\ f.secret \in EditorParams.Texts
    BY DEF Editor!Form
  <2>2. DOMAIN f = Editor!Fields
    BY DEF Editor!Form, Editor!Fields
  <2>3. f = [x \in DOMAIN f |-> f[x]]
    BY DEF Editor!Form
  <2> QED
    BY <2>1, <2>2, <2>3
<1> QED
  BY <1>1, <1>2

\* A form made of the fields of two.
LEMMA Mixed ==
  ASSUME NEW f \in Editor!Form, NEW g \in Editor!Form, NEW S,
         NEW h, h = [x \in Editor!Fields |-> IF x \in S THEN g[x] ELSE f[x]]
  PROVE  h \in Editor!Form
<1>1. /\ h.prompt = IF "prompt" \in S THEN g.prompt ELSE f.prompt
      /\ h.caps = IF "caps" \in S THEN g.caps ELSE f.caps
      /\ h.call = IF "call" \in S THEN g.call ELSE f.call
      /\ h.site = IF "site" \in S THEN g.site ELSE f.site
      /\ h.secret = IF "secret" \in S THEN g.secret ELSE f.secret
  BY DEF Editor!Fields
<1>2. /\ h.prompt \in Editor!Prompt /\ h.caps \in EditorParams.Texts
      /\ h.call \in EditorParams.Texts
      /\ h.site \in EditorParams.Texts /\ h.secret \in EditorParams.Texts
  BY <1>1, FormShape
<1>3. h = [prompt |-> h.prompt, caps |-> h.caps, call |-> h.call,
           site |-> h.site, secret |-> h.secret]
  BY DEF Editor!Fields
<1> QED
  BY <1>2, <1>3 DEF Editor!Form

LEMMA EditorInit == Editor!EditorAssumption /\ Editor!Init => EditorInv
<1> SUFFICES ASSUME Editor!EditorAssumption, Editor!Init PROVE EditorInv
  OBVIOUS
<1>1. PICK rules \in EditorParams.Rules :
        editorRow
          = [fields |-> Editor!SetUp(rules), domains |-> {},
          verified |-> FALSE]
  BY DEF Editor!Init
<1>2. Editor!SetUp(rules) \in Editor!Form
  <2>1. rules.include \in SUBSET EditorParams.Patterns
          /\ rules.exclude \in SUBSET EditorParams.Patterns
    BY DEF Editor!EditorAssumption
  <2>2. "" \in EditorParams.Texts
    BY DEF Editor!EditorAssumption
  <2> QED
    BY <2>1, <2>2 DEF Editor!SetUp, Editor!Form, Editor!Prompt
<1>3. editorRow.fields = Editor!SetUp(rules)
  BY <1>1
<1>4. editorRow
        \in [fields : Editor!Form, domains : SUBSET EditorParams.Domains,
        verified : BOOLEAN]
  BY <1>1, <1>2
<1>5. form \in [EditorParams.Editors -> Editor!Form]
  BY <1>2, <1>3 DEF Editor!Init
<1>6. listed \in [EditorParams.Editors -> [EditorParams.Paths -> BOOLEAN]]
  <2>1. \A q, p : Editor!Allowed(q, p) \in BOOLEAN
    BY DEF Editor!Allowed
  <2> QED
    BY <2>1 DEF Editor!Init
<1>7. /\ hosted = {} /\ leads = 0 /\ sent = {} /\ saved = editorRow.fields
      /\ toggled = Editor!NoToggle
  BY DEF Editor!Init
<1> QED
  BY <1>4, <1>5, <1>6, <1>7 DEF EditorInv, Editor!PropertySound,
     Editor!PanelsApart,
     Editor!ToggleTakes, Editor!LeadsHaveHome

\* What a toggle makes of a prompt.
LEMMA TogglesWork ==
  ASSUME Editor!EditorAssumption, EditorInv, NEW e \in EditorParams.Editors,
         NEW p \in EditorParams.Paths
  PROVE  /\ Editor!Toggles(e, p) \in Editor!Prompt
         /\ Editor!Allowed(Editor!Toggles(e, p), p) <=> ~listed[e][p]
<1> DEFINE q == form[e].prompt
           include == IF q.include = {} THEN {EditorParams.Paths}
               ELSE q.include
           covered == \E g \in include : p \in g
           t == Editor!Toggles(e, p)
<1>1. q \in Editor!Prompt /\ q.include \in SUBSET EditorParams.Patterns
        /\ q.exclude \in SUBSET EditorParams.Patterns
      /\ q.look \in EditorParams.Texts
  BY FormShape DEF EditorInv
<1>2. include \in SUBSET EditorParams.Patterns /\ {p} \in EditorParams.Patterns
  BY <1>1 DEF Editor!EditorAssumption
<1>3. listed[e][p] \in BOOLEAN
  BY DEF EditorInv
<1>4. CASE listed[e][p]
  <2>1. t = [q EXCEPT !.include = include, !.exclude = q.exclude \cup {{p}}]
    BY <1>4 DEF Editor!Toggles
  <2>2. t \in Editor!Prompt /\ {p} \in t.exclude
    <3> DEFINE out == q.exclude \cup {{p}}
    <3>1. out \in SUBSET EditorParams.Patterns /\ {p} \in out
      BY <1>1, <1>2
    <3>2. t = [q EXCEPT !.include = include, !.exclude = out]
      BY <2>1
    <3> HIDE DEF out, include, t
    <3>3. t \in Editor!Prompt /\ t.exclude = out
      BY <1>1, <1>2, <3>1, <3>2 DEF Editor!Prompt
    <3> QED
      BY <3>1, <3>3
  <2>3. ~Editor!Allowed(t, p)
    BY <2>2 DEF Editor!Allowed
  <2> QED
    BY <1>4, <2>2, <2>3
<1>5. CASE ~listed[e][p]
  <2> DEFINE left == {g \in q.exclude : p \notin g}
             more == IF covered THEN include ELSE include \cup {{p}}
  <2>1. t = [q EXCEPT !.exclude = left, !.include = more]
    BY <1>5 DEF Editor!Toggles
  <2>2. left \in SUBSET EditorParams.Patterns
          /\ more \in SUBSET EditorParams.Patterns
        /\ more # {} /\ (\E g \in more : p \in g) /\ \A g \in left : p \notin g
    BY <1>1, <1>2
  <2> HIDE DEF left, more
  <2>3. t \in Editor!Prompt /\ t.include = more /\ t.exclude = left
    BY <1>1, <2>1, <2>2 DEF Editor!Prompt
  <2>4. Editor!Allowed(t, p)
    BY <2>2, <2>3 DEF Editor!Allowed
  <2> QED
    BY <1>5, <2>3, <2>4
<1> QED
  BY <1>3, <1>4, <1>5

\* A request on its way.
LEMMA Sending ==
  ASSUME EditorInv, NEW e \in EditorParams.Editors,
         NEW panel \in Editor!Panels, NEW shown \in Editor!Form,
         NEW toggle, Editor!Send(e, panel, shown, toggle),
         panel # "toggle" => shown = form[e],
         panel = "toggle"
           => (Editor!Allowed(shown.prompt, toggle.path) <=> toggle.allowed)
  PROVE  \A r \in sent' : RequestOK(r)
<1> DEFINE r == [from |-> e, panel |-> panel, nth |-> moves,
                 sets |-> Editor!Body(e, panel), form |-> shown,
                   toggle |-> toggle]
<1>1. sent' = sent \cup {r}
  BY DEF Editor!Send
<1>2. /\ r.panel = panel /\ r.sets = Editor!Body(e, panel) /\ r.form = shown
      /\ r.toggle = toggle
  OBVIOUS
<1> HIDE DEF r
<1>3. shown["secret"] = shown.secret
  OBVIOUS
<1>4. \A f \in Editor!Fields : f \in r.sets <=> f \in About(r)
  <2>1. CASE panel = "prompt"
    BY <1>2, <2>1 DEF Editor!Body, About, Editor!Fields
  <2>2. CASE panel = "toggle"
    BY <1>2, <2>2 DEF Editor!Body, About, Editor!Fields
  <2>3. CASE panel = "keys"
    <3>1. shown = form[e]
      BY <2>3
    <3>2. r.sets = {"site"} \cup (IF shown.secret = "" THEN {} ELSE {"secret"})
      BY <1>2, <2>3, <3>1 DEF Editor!Body
    <3> QED
      BY <1>2, <1>3, <2>3, <3>2 DEF About, Editor!Fields
  <2>4. CASE panel = "caps" \/ panel = "call"
    <3>1. r.sets = {panel}
      BY <1>2, <2>4 DEF Editor!Body
    <3> QED
      BY <1>2, <2>4, <3>1 DEF About, Editor!Fields
  <2> QED
    BY <2>1, <2>2, <2>3, <2>4 DEF Editor!Panels
<1>5. RequestOK(r)
  BY <1>2, <1>4 DEF RequestOK
<1> QED
  BY <1>1, <1>5 DEF EditorInv

\* A save arrives.
LEMMA SaveArrives ==
  ASSUME Editor!EditorAssumption, EditorInv, NEW r \in sent, Editor!Update(r)
  PROVE  EditorInv'
<1>0. /\ RequestOK(r) /\ editorRow.fields \in Editor!Form
      /\ editorRow.fields = saved
      /\ editorRow
           \in [fields : Editor!Form, domains : SUBSET EditorParams.Domains,
           verified : BOOLEAN]
  BY DEF EditorInv, Editor!PropertySound, Editor!PanelsApart
<1>1. /\ sent' \subseteq sent
      /\ UNCHANGED <<form, listed, hosted, editorExists, leads>>
  BY DEF Editor!Update
<1>2. \A q \in sent' : RequestOK(q)
  BY <1>1 DEF EditorInv
<1>3. CASE ~editorExists
  <2>1. UNCHANGED <<editorRow, saved, toggled>>
    BY <1>3 DEF Editor!Update
  <2> QED
    BY <1>1, <1>2, <2>1 DEF EditorInv, Editor!PropertySound,
       Editor!PanelsApart, Editor!ToggleTakes,
       Editor!LeadsHaveHome
<1>4. CASE editorExists
  <2> DEFINE now == [f \in Editor!Fields |-> IF f \in r.sets THEN r.form[f]
                                      ELSE editorRow.fields[f]]
  <2>1. /\ editorRow' = [editorRow EXCEPT !.fields = now]
        /\ saved' = [f \in Editor!Fields |-> IF f \in About(r) THEN r.form[f]
             ELSE saved[f]]
        /\ toggled' = IF r.panel = "toggle" THEN r.toggle
                      ELSE IF r.panel = "prompt" THEN Editor!NoToggle
                        ELSE toggled
    <3>1. /\ editorRow' = [editorRow EXCEPT !.fields = now]
          /\ saved' = [f \in Editor!Fields |->
               IF \/ f = r.panel
                  \/ r.panel = "toggle" /\ f = "prompt"
                  \/ r.panel = "keys" /\ f = "site"
                  \/ r.panel = "keys" /\ f = "secret" /\ r.form[f] # ""
               THEN r.form[f] ELSE saved[f]]
          /\ toggled' = IF r.panel = "toggle" THEN r.toggle
                        ELSE IF r.panel = "prompt" THEN Editor!NoToggle
                          ELSE toggled
      BY <1>4 DEF Editor!Update
    <3> QED
      BY <3>1 DEF About
  <2>2. \A f \in Editor!Fields : f \in r.sets <=> f \in About(r)
    BY <1>0 DEF RequestOK
  <2>3. r.form \in Editor!Form
    BY <1>0 DEF RequestOK
  <2>4. saved' = now
    BY <1>0, <2>1, <2>2
  <2>5. now \in Editor!Form
    BY <1>0, <2>3, Mixed
  <2>6. now.prompt = IF "prompt" \in r.sets THEN r.form.prompt
          ELSE editorRow.fields.prompt
    BY DEF Editor!Fields
  <2> HIDE DEF now
  <2>7. /\ editorRow'
             \in [fields : Editor!Form, domains : SUBSET EditorParams.Domains,
             verified : BOOLEAN]
        /\ editorRow'.fields = now
    BY <1>0, <2>1, <2>5
  <2>8. "prompt" \in r.sets <=> r.panel \in {"prompt", "toggle"}
    BY <1>0, <2>2 DEF About, Editor!Fields, RequestOK, Editor!Panels
  <2>9. Editor!ToggleTakes'
    <3>1. CASE r.panel = "toggle"
      <4>1. toggled' = r.toggle /\ editorRow'.fields.prompt = r.form.prompt
        BY <2>1, <2>6, <2>7, <2>8, <3>1
      <4> QED
        BY <1>0, <3>1, <4>1 DEF RequestOK, Editor!ToggleTakes
    <3>2. CASE r.panel = "prompt"
      BY <2>1, <3>2 DEF Editor!ToggleTakes
    <3>3. CASE r.panel \notin {"prompt", "toggle"}
      <4>1. toggled' = toggled
              /\ editorRow'.fields.prompt = editorRow.fields.prompt
        BY <2>1, <2>6, <2>7, <2>8, <3>3
      <4> QED
        BY <4>1 DEF EditorInv, Editor!PropertySound, Editor!ToggleTakes
    <3> QED
      BY <3>1, <3>2, <3>3
  <2> QED
    BY <1>1, <1>2, <2>4, <2>7, <2>9 DEF EditorInv, Editor!PropertySound,
       Editor!PanelsApart,
       Editor!LeadsHaveHome
<1> QED
  BY <1>3, <1>4

LEMMA EditorStep ==
  ASSUME Editor!EditorAssumption
  PROVE  EditorInv /\ [Editor!Next]_(Editor!vars) => EditorInv'
<1> SUFFICES ASSUME EditorInv, [Editor!Next]_(Editor!vars) PROVE EditorInv'
  OBVIOUS
<1> USE DEF Editor!PropertySound, Editor!PanelsApart, Editor!ToggleTakes,
      Editor!LeadsHaveHome
<1>0. /\ editorRow
           \in [fields : Editor!Form, domains : SUBSET EditorParams.Domains,
           verified : BOOLEAN]
      /\ form \in [EditorParams.Editors -> Editor!Form]
      /\ \A e \in EditorParams.Editors : form[e] \in Editor!Form
  BY DEF EditorInv
<1>1. ASSUME NEW e \in EditorParams.Editors, NEW f \in Editor!Fields,
               NEW t \in EditorParams.Texts, Editor!Edit(e, f, t)
      PROVE  EditorInv'
  <2>1. /\ form' = [form EXCEPT ![e][f] = t]
        /\ f \in {"caps", "call", "site", "secret"}
        /\ UNCHANGED <<editorRow, listed, sent, hosted, editorExists, leads,
             saved, toggled>>
    BY <1>1 DEF Editor!Edit, Editor!Edited
  <2>2. [form[e] EXCEPT ![f] = t] \in Editor!Form
    BY <1>0, <2>1 DEF Editor!Form
  <2>3. form' \in [EditorParams.Editors -> Editor!Form]
    BY <1>0, <2>1, <2>2
  <2> QED
    BY <2>1, <2>3 DEF EditorInv
<1>2. ASSUME NEW e \in EditorParams.Editors, NEW t \in EditorParams.Texts,
               Editor!Design(e, t)
      PROVE  EditorInv'
  <2>1. /\ form' = [form EXCEPT ![e].prompt.look = t]
        /\ UNCHANGED <<editorRow, listed, sent, hosted, editorExists, leads,
             saved, toggled>>
    BY <1>2 DEF Editor!Design, Editor!Edited
  <2>2. [form[e].prompt EXCEPT !.look = t] \in Editor!Prompt
    BY <1>0, FormShape DEF Editor!Prompt
  <2>3. [form[e] EXCEPT !.prompt = [form[e].prompt EXCEPT !.look = t]]
          \in Editor!Form
    BY <1>0, <2>2 DEF Editor!Form
  <2>4. form' \in [EditorParams.Editors -> Editor!Form]
    BY <1>0, <2>1, <2>3
  <2> QED
    BY <2>1, <2>4 DEF EditorInv
<1>3. ASSUME NEW e \in EditorParams.Editors, NEW panel \in Editor!Panels,
               Editor!Save(e, panel)
      PROVE  EditorInv'
  <2>1. /\ panel # "toggle" /\ Editor!Send(e, panel, form[e], Editor!NoToggle)
        /\ UNCHANGED <<form, editorRow, listed, hosted, editorExists, leads,
             saved, toggled>>
    BY <1>3 DEF Editor!Save, Editor!Send
  <2>2. \A r \in sent' : RequestOK(r)
    BY <1>0, <2>1, Sending
  <2> QED
    BY <2>1, <2>2 DEF EditorInv
<1>4. ASSUME NEW e \in EditorParams.Editors, NEW p \in EditorParams.Paths,
               Editor!Toggle(e, p)
      PROVE  EditorInv'
  <2> DEFINE toggle == [path |-> p, allowed |-> ~listed[e][p]]
  <2>1. /\ form' = [form EXCEPT ![e].prompt = Editor!Toggles(e, p)]
        /\ Editor!Send(e, "toggle", form'[e], toggle)
        /\ UNCHANGED <<editorRow, listed, hosted, editorExists, leads, saved,
             toggled>>
    BY <1>4 DEF Editor!Toggle, Editor!Send
  <2>2. Editor!Toggles(e, p) \in Editor!Prompt
          /\ (Editor!Allowed(Editor!Toggles(e, p), p) <=> ~listed[e][p])
    BY TogglesWork
  <2>3. /\ [form[e] EXCEPT !.prompt = Editor!Toggles(e, p)] \in Editor!Form
        /\ [form[e] EXCEPT !.prompt = Editor!Toggles(e, p)].prompt
             = Editor!Toggles(e, p)
    BY <1>0, <2>2 DEF Editor!Form
  <2>4. /\ form' \in [EditorParams.Editors -> Editor!Form]
        /\ form'[e] \in Editor!Form
        /\ form'[e].prompt = Editor!Toggles(e, p)
    BY <1>0, <2>1, <2>3
  <2>5. toggle.path = p /\ toggle.allowed = ~listed[e][p]
    OBVIOUS
  <2>6. \A r \in sent' : RequestOK(r)
    <3> HIDE DEF toggle
    <3>1. Editor!Allowed(form'[e].prompt, toggle.path) <=> toggle.allowed
      BY <2>2, <2>4, <2>5
    <3>2. "toggle" \in Editor!Panels
      BY DEF Editor!Panels
    <3> QED
      BY <2>1, <2>4, <3>1, <3>2, Sending
  <2> QED
    BY <2>1, <2>4, <2>6 DEF EditorInv
<1>5. ASSUME NEW e \in EditorParams.Editors, Editor!LoadProperty(e)
      PROVE  EditorInv'
  <2> DEFINE g == [form[e] EXCEPT !.prompt = editorRow.fields.prompt,
                                  !.site = editorRow.fields.site,
                                  !.secret = ""]
  <2>1. /\ form' = form \/ form' = [form EXCEPT ![e] = g]
        /\ UNCHANGED <<editorRow, listed, sent, hosted, editorExists, leads,
             saved, toggled>>
    <3>1. [form EXCEPT ![e].prompt = editorRow.fields.prompt,
                       ![e].site = editorRow.fields.site, ![e].secret = ""]
            = [form EXCEPT ![e] = g]
      BY <1>0
    <3> QED
      BY <1>5, <3>1 DEF Editor!LoadProperty
  <2>2. editorRow.fields.prompt \in Editor!Prompt
          /\ editorRow.fields.site \in EditorParams.Texts
          /\ "" \in EditorParams.Texts
    BY <1>0, FormShape DEF Editor!EditorAssumption
  <2>3. g \in Editor!Form
    BY <1>0, <2>2 DEF Editor!Form
  <2> HIDE DEF g
  <2>4. form' \in [EditorParams.Editors -> Editor!Form]
    BY <1>0, <2>1, <2>3
  <2> QED
    BY <2>1, <2>4 DEF EditorInv
<1>6. ASSUME NEW e \in EditorParams.Editors, Editor!LoadPages(e)
      PROVE  EditorInv'
  <2>1. /\ \/ listed' = listed
           \/ listed' = [listed EXCEPT ![e] =
                          [p \in EditorParams.Paths |-> Editor!Allowed(editorRow.fields.prompt, p)]]
        /\ UNCHANGED <<form, editorRow, sent, hosted, editorExists, leads,
             saved, toggled>>
    BY <1>6 DEF Editor!LoadPages
  <2>2. \A p : Editor!Allowed(editorRow.fields.prompt, p) \in BOOLEAN
    BY DEF Editor!Allowed
  <2>3. [p \in EditorParams.Paths |-> Editor!Allowed(editorRow.fields.prompt,
          p)] \in [EditorParams.Paths -> BOOLEAN]
    BY <2>2
  <2>4. listed' \in [EditorParams.Editors -> [EditorParams.Paths -> BOOLEAN]]
    BY <2>1, <2>3 DEF EditorInv
  <2> QED
    BY <2>1, <2>4 DEF EditorInv
<1>7. ASSUME NEW e \in EditorParams.Editors, Editor!Verify(e)
      PROVE  EditorInv'
  <2>1. PICK ok \in BOOLEAN : editorRow' = [editorRow EXCEPT !.verified = ok]
    BY <1>7 DEF Editor!Verify
  <2>2. /\ editorRow'
             \in [fields : Editor!Form, domains : SUBSET EditorParams.Domains,
             verified : BOOLEAN]
        /\ editorRow'.fields = editorRow.fields
    BY <1>0, <2>1
  <2>3. UNCHANGED <<form, listed, sent, hosted, editorExists, leads, saved,
          toggled>>
    BY <1>7 DEF Editor!Verify
  <2> QED
    BY <2>2, <2>3 DEF EditorInv
<1>8. ASSUME NEW d \in EditorParams.Domains, Editor!Activate(d)
      PROVE  EditorInv'
  <2>1. /\ hosted' = hosted \cup {[domain |-> d, read |-> editorRow.domains]}
        /\ UNCHANGED <<form, editorRow, listed, sent, editorExists, leads,
             saved, toggled>>
    BY <1>8 DEF Editor!Activate
  <2>2. editorRow.domains \in SUBSET EditorParams.Domains
    BY <1>0
  <2>3. hosted' \subseteq [domain : EditorParams.Domains,
          read : SUBSET EditorParams.Domains]
    BY <2>1, <2>2 DEF EditorInv
  <2> QED
    BY <2>1, <2>3 DEF EditorInv
<1>9. ASSUME NEW a \in hosted, Editor!Activated(a)
      PROVE  EditorInv'
  <2>1. /\ hosted' \subseteq hosted
        /\ editorRow' = editorRow
             \/ editorRow'
             = [editorRow EXCEPT !.domains = a.read \cup {a.domain}]
        /\ UNCHANGED <<form, listed, sent, editorExists, leads, saved,
             toggled>>
    BY <1>9 DEF Editor!Activated
  <2>2. a \in [domain : EditorParams.Domains,
          read : SUBSET EditorParams.Domains]
    BY DEF EditorInv
  <2>3. a.read \cup {a.domain} \in SUBSET EditorParams.Domains
    BY <2>2
  <2>4. /\ editorRow'
             \in [fields : Editor!Form, domains : SUBSET EditorParams.Domains,
             verified : BOOLEAN]
        /\ editorRow'.fields = editorRow.fields
    BY <1>0, <2>1, <2>3
  <2> QED
    BY <2>1, <2>4 DEF EditorInv
<1>10. CASE Editor!Subscribe
  BY <1>10 DEF Editor!Subscribe, EditorInv
<1>11. CASE Editor!RemoveCount
  BY <1>11 DEF Editor!RemoveCount, EditorInv
<1>12. CASE Editor!RemoveParts
  BY <1>12 DEF Editor!RemoveParts, EditorInv
<1>13. CASE Editor!RemoveRow
  BY <1>13 DEF Editor!RemoveRow, EditorInv
<1>14. CASE UNCHANGED Editor!vars
  BY <1>14 DEF Editor!vars, EditorInv
<1> QED
  BY <1>1, <1>2, <1>3, <1>4, <1>5, <1>6, <1>7, <1>8, <1>9, <1>10, <1>11, <1>12,
     <1>13, <1>14, SaveArrives DEF Editor!Next

LEMMA EditorHolds == EditorInv => Editor!PropertySound
BY DEF EditorInv

\* Panels of pages that are out of date do not write each other's fields back,
\* a toggle takes until the prompt is saved again, and a lead keeps its property
\* (PropertyDetail.tsx:308, 332; properties.service.ts:247).
THEOREM PropertyHolds == Spec => []PropertySound
<1> DEFINE I == part = "editor" => EditorInv
<1>1. Init => I
  BY PartsAssumption, EditorInit DEF Init
<1>2. I /\ [Next]_vars => I'
  BY PartsAssumption, PartSteps, EditorStep
<1>3. I => PropertySound
  BY PartsAssumption, EditorHolds DEF PropertySound
<1> QED
  BY <1>1, <1>2, <1>3, PTL DEF Spec
=============================================================================
