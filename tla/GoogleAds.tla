------------------------------ MODULE GoogleAds ------------------------------
(***************************************************************************)
(* The Google Ads integration (google-ads.service.ts, its controller, the    *)
(* credentials panel of Settings.tsx and the ads panel of                   *)
(* PropertyDetail.tsx): credentials that travel to the browser masked and    *)
(* come back; the review of a landing page that may change while it is       *)
(* reviewed; and the creation of an ad campaign at Google, whose answer may   *)
(* be lost.                                                                 *)
(*                                                                          *)
(* A page is the set of its defects as one device sees it, and its content.  *)
(* Google (external) creates a campaign whole or not at all.                *)
(***************************************************************************)
EXTENDS Integers, FiniteSets

CONSTANTS
  Staff,       \* admins and managers, each with the settings page open
  Secrets,     \* secrets a person may type
  Sites,       \* states the reviewed site may be in
  MaxMoves,    \* bound: credentials typed, changes of the site
  MaxPresses   \* bound: campaigns asked for

\* What a device may see: how the landing page fails a check.
Defects == {"down", "blank", "no-https", "elsewhere", "no-viewport",
            "no-privacy", "parked", "thin", "noindex", "slow", "very-slow",
            "long-chain", "style"}
Devices == {"mobile", "desktop"}
Robots  == {"none", "allow", "block"}
Site    == [mobile : SUBSET Defects, desktop : SUBSET Defects,
            alike : BOOLEAN, robots : Robots]

AdsAssumption ==
  /\ Sites \subseteq Site /\ Sites # {}
  /\ "" \notin Secrets
  /\ MaxMoves \in Nat /\ MaxPresses \in Nat

\* A text of the credentials form: typed, masked, or blank.
Plain(s) == [text |-> s, masked |-> FALSE]
Mask(s)  == IF s = "" THEN Plain("") ELSE [text |-> s, masked |-> TRUE]
Text     == [text : Secrets \cup {""}, masked : BOOLEAN]

VARIABLES
  stored,     \* google_ads of the tenant: the secret's text as it is stored
  shown,      \* the secret in each person's form
  setting,    \* a setConfig() or disconnect() under way: what it has read
  site,       \* the landing page as it is
  check,      \* the review under way
  adsCheck,   \* the review stored with the property
  google,     \* campaigns in the Google account, each by the press it is of
  press,      \* the creation under way
  told,       \* the presses whose campaign was reported as created
  used,       \* how much of each bound is spent
  \* history
  viewed      \* what the stored review's requests were answered with

vars == <<stored, shown, setting, site, check, adsCheck, google, press, told,
          used, viewed>>

NoSecret == Plain("")
NoSet   == [pc |-> "idle", input |-> NoSecret, existing |-> NoSecret]
Started == [mobile |-> {}, desktop |-> {}, alike |-> TRUE, robots |-> "none"]
NoCheck == [pc |-> "idle", seen |-> Started]
NoAds   == [verdict |-> "none", fails |-> 0, warns |-> 0]

Spend(k) == used' = [used EXCEPT ![k] = @ + 1]

Init ==
  /\ stored = NoSecret
  /\ shown = [u \in Staff |-> NoSecret]
  /\ setting = [u \in Staff |-> NoSet]
  /\ site \in Sites
  /\ check = NoCheck
  /\ adsCheck = NoAds
  /\ google = {}
  /\ press = "idle"
  /\ told = {}
  /\ used = [moves |-> 0, presses |-> 0]
  /\ viewed = Started

-----------------------------------------------------------------------------
(* Credentials.                                                             *)

\* The form is typed into.
Type(u, s) ==
  /\ used.moves < MaxMoves /\ Spend("moves")
  /\ shown' = [shown EXCEPT ![u] = Plain(s)]
  /\ UNCHANGED <<stored, setting, site, check, adsCheck, google, press, told,
                 viewed>>

\* GET config: the secret leaves the server masked.
GetConfig(u) ==
  /\ shown' = [shown EXCEPT ![u] = Mask(stored.text)]
  /\ shown' # shown
  /\ UNCHANGED <<stored, setting, site, check, adsCheck, google, press, told,
                 used, viewed>>

\* PUT config: what is stored is read.
SetConfig(u) ==
  /\ setting[u].pc = "idle"
  /\ setting' = [setting EXCEPT ![u] =
                   [pc |-> "set", input |-> shown[u], existing |-> stored]]
  /\ UNCHANGED <<stored, shown, site, check, adsCheck, google, press, told,
                 used, viewed>>

\* Mutant: only a blank field keeps what is stored.
KeepIfBlank(v, old) == IF v.text = "" THEN old ELSE v

\* A blank or masked field keeps what is stored.
Keep(v, old) == IF v.text = "" \/ v.masked THEN old ELSE v

\* The credentials that came out are written, unless one is missing; the answer
\* is the masked view.
WriteConfig(u) ==
  /\ setting[u].pc = "set"
  /\ setting' = [setting EXCEPT ![u] = NoSet]
  /\ LET next == Keep(setting[u].input, setting[u].existing)
     IN  IF next.text = ""
         THEN UNCHANGED <<stored, shown>>
         ELSE /\ stored' = next
              /\ shown' = [shown EXCEPT ![u] = Mask(next.text)]
  /\ UNCHANGED <<site, check, adsCheck, google, press, told, used, viewed>>

Disconnect(u) ==
  /\ shown[u].masked   \* the button is there when the page knows credentials
  /\ stored' = NoSecret
  /\ UNCHANGED <<shown, setting, site, check, adsCheck, google, press, told,
                 used, viewed>>

-----------------------------------------------------------------------------
(* The review.                                                              *)

\* The site's owner changes the page.
Change ==
  /\ used.moves < MaxMoves /\ Spend("moves")
  /\ \E s \in Sites : s # site /\ site' = s
  /\ UNCHANGED <<stored, shown, setting, check, adsCheck, google, press, told,
                 viewed>>

StartCheck ==
  /\ check.pc = "idle"
  /\ check' = [pc |-> "mobile", seen |-> Started]
  /\ UNCHANGED <<stored, shown, setting, site, adsCheck, google, press, told,
                 used, viewed>>

\* analyzePage(): the page is fetched as one device, redirects followed.
Analyze(d) ==
  /\ check.pc = d
  /\ check' = [pc   |-> IF d = "mobile" THEN "desktop" ELSE "shared",
               seen |-> [check.seen EXCEPT ![d] = site[d], !.alike = site.alike]]
  /\ UNCHANGED <<stored, shown, setting, site, adsCheck, google, press, told,
                 used, viewed>>

\* What a defect costs on a device.  A page that does not load, or has nothing
\* to read, has no further checks.
Costs(D, d) ==
  IF "down" \in D THEN [fails |-> {"down"}, warns |-> {}]
  ELSE IF "blank" \in D THEN [fails |-> {}, warns |-> {"blank"}]
  ELSE [fails |-> D \cap ({"no-https", "elsewhere", "no-privacy", "parked",
                           "noindex", "very-slow", "long-chain"} \cup
                          (IF d = "mobile" THEN {"no-viewport"} ELSE {})),
        warns |-> D \cap {"thin", "slow", "style"}]

Readable(D) == D \cap {"down", "blank"} = {}

\* sharedChecks(): the devices are compared when both had words to read, and a
\* robots.txt there is must not block everything.
SharedFails(seen, robots) == IF robots = "block" THEN {"robots"} ELSE {}
SharedWarns(seen) ==
  IF Readable(seen.mobile) /\ Readable(seen.desktop) /\ ~seen.alike
  THEN {"cloaking"} ELSE {}

\* Mutant: the verdict is that of the flat list kept for the older UI, which has
\* the desktop's checks alone.
RollUpFlat(seen, robots) ==
  LET D     == Costs(seen.desktop, "desktop")
      fails == Cardinality(D.fails) + Cardinality(SharedFails(seen, robots))
      warns == Cardinality(D.warns) + Cardinality(SharedWarns(seen))
  IN  [fails |-> fails, warns |-> warns,
       verdict |-> IF fails > 0 THEN "fix-needed"
                   ELSE IF warns > 0 THEN "ready-with-warnings" ELSE "ready"]

\* rollUp() of all the checks.
RollUp(seen, robots) ==
  LET M     == Costs(seen.mobile, "mobile")
      D     == Costs(seen.desktop, "desktop")
      fails == Cardinality(M.fails) + Cardinality(D.fails)
                 + Cardinality(SharedFails(seen, robots))
      warns == Cardinality(M.warns) + Cardinality(D.warns)
                 + Cardinality(SharedWarns(seen))
  IN  [fails |-> fails, warns |-> warns,
       verdict |-> IF fails > 0 THEN "fix-needed"
                   ELSE IF warns > 0 THEN "ready-with-warnings" ELSE "ready"]

\* robots.txt is fetched, and the result is stored and answered.
FinishCheck ==
  /\ check.pc = "shared"
  /\ check' = NoCheck
  /\ adsCheck' = RollUp(check.seen, site.robots)
  /\ viewed' = [check.seen EXCEPT !.robots = site.robots]
  /\ UNCHANGED <<stored, shown, setting, site, google, press, told, used>>

-----------------------------------------------------------------------------
(* Campaigns.                                                               *)

\* "Create ad campaign": the button is disabled until the answer.
Press ==
  /\ stored.text # "" /\ press = "idle"
  /\ used.presses < MaxPresses /\ Spend("presses")
  /\ press' = "token"
  /\ UNCHANGED <<stored, shown, setting, site, check, adsCheck, google, told,
                 viewed>>

\* Google's token service refuses, or does not answer in 15 s.
TokenFails ==
  /\ press = "token"
  /\ press' = "idle"
  /\ UNCHANGED <<stored, shown, setting, site, check, adsCheck, google, told,
                 used, viewed>>

\* The mutate is one call with partialFailure off: everything or nothing; its
\* answer comes, or 30 s pass.
Mutate(created, answered) ==
  /\ press = "token"
  /\ google' = IF created THEN google \cup {used.presses} ELSE google
  /\ press' = IF created /\ answered THEN "audit" ELSE "idle"
  /\ UNCHANGED <<stored, shown, setting, site, check, adsCheck, told, used,
                 viewed>>

\* The audit row is written and the page told; or the write fails.
Audit ==
  /\ press = "audit"
  /\ press' = "idle"
  /\ \/ told' = told \cup {used.presses}
     \/ UNCHANGED told
  /\ UNCHANGED <<stored, shown, setting, site, check, adsCheck, google, used,
                 viewed>>

Next ==
  \/ \E u \in Staff :
       \/ \E s \in Secrets : Type(u, s)
       \/ GetConfig(u)
       \/ SetConfig(u)
       \/ WriteConfig(u)
       \/ Disconnect(u)
  \/ Change
  \/ StartCheck
  \/ \E d \in Devices : Analyze(d)
  \/ FinishCheck
  \/ Press
  \/ TokenFails
  \/ \E c, a \in BOOLEAN : Mutate(c, a)
  \/ Audit

Spec == Init /\ [][Next]_vars

-----------------------------------------------------------------------------
TypeOK ==
  /\ stored \in Text
  /\ shown \in [Staff -> Text]
  /\ setting \in [Staff -> [pc : {"idle", "set"}, input : Text, existing : Text]]
  /\ site \in Sites
  /\ check \in [pc : {"idle", "shared"} \cup Devices, seen : Site]
  /\ google \subseteq 1 .. MaxPresses /\ told \subseteq google
  /\ press \in {"idle", "token", "audit"}

\* However often the masked form is sent back, by whoever, and whatever is
\* written or disconnected in between, what is stored was typed by somebody, and
\* is never a mask (google-ads.service.ts:109).
SecretsReal == ~stored.masked

\* A stored verdict is earned by every answer the review was given, on both
\* devices, though the site may have changed between them: ready means not a
\* single complaint, and a failing one always means fix-needed.
VerdictEarned ==
  LET mine    == [d \in Devices |-> viewed[d]]
      fatal   == {"down", "no-https", "elsewhere", "no-privacy", "parked",
                  "noindex", "very-slow", "long-chain"}
      broken(d) == \/ "down" \in mine[d]
                   \/ /\ "blank" \notin mine[d]
                      /\ mine[d] \cap fatal # {}
      bad     == \/ broken("mobile") \/ broken("desktop")
                 \/ "no-viewport" \in mine["mobile"] /\ Readable(mine["mobile"])
                 \/ viewed.robots = "block"
  IN  adsCheck # NoAds =>
        /\ (adsCheck.verdict = "fix-needed") <=> bad
        /\ adsCheck.verdict = "ready" =>
             /\ \A d \in Devices : mine[d] \subseteq {"no-viewport"}
             /\ viewed.alike

\* The two together.
AdsSound == SecretsReal /\ VerdictEarned
=============================================================================
