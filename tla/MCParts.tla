------------------------------ MODULE MCParts -------------------------------
(***************************************************************************)
(* Parts on small instances: the bounds of each part.                      *)
(***************************************************************************)
EXTENDS Parts, TLC

MCQuota ==
  [Campaigns |-> {"blast"} \X (1..3), NumLeads |-> 2, BatchSize |-> 1,
   Quota |-> 2, CapDay |-> 1, CapWeek |-> 1, Numbers |-> 2,
   DayTicks |-> 0, WeekTicks |-> 1, MonthTicks |-> 1, MaxParallel |-> 2,
   MaxTime |-> 1, MaxDirect |-> 1, MaxFailures |-> 1]

MCMembers ==
  [Segs |-> {"a", "b"}, Leads |-> {"l1", "l2"},
   Weight |-> ("a" :> 1) @@ ("b" :> 2), NoSeg |-> "none",
   Overlap |-> FALSE, MaxAssigns |-> 1, MaxEdits |-> 1, MaxFaults |-> 0]

\* A country that is not x and z's: y, of no country, is the odd one; a count
\* of pushes; and a condition the compiler does not accept.
Conditions ==
  {[field |-> "country", op |-> "neq", value |-> {1}],
   [field |-> "pushes", op |-> "gte", value |-> {1}],
   [field |-> "pushes", op |-> "contains", value |-> {1}]}

Filters ==
  {[country |-> 1, fresh |-> "all"], [country |-> Null, fresh |-> "yes"]}

MCAudience ==
  [Segs |-> {"a", "b"}, Leads |-> <<"x", "y", "z">>,
   Country |-> ("x" :> 1) @@ ("y" :> Null) @@ ("z" :> 1),
   Zone |-> ("x" :> 2) @@ ("y" :> 1) @@ ("z" :> 1),
   Conditions |-> Conditions, Filters |-> Filters, MaxAudience |-> 4,
   MaxEdits |-> 2]

MCDrips ==
  [Leads |-> {"l"}, Requests |-> {"r1", "r2"}, NumSteps |-> 2,
   BatchSize |-> 1, NoLead |-> "none", MaxLeaves |-> 1, MaxToggles |-> 0,
   MaxFaults |-> 1, MaxCrashes |-> 1]

MCSchedule ==
  [MaxHop |-> 2, Period |-> 2, MaxTime |-> 4, MaxRequests |-> 2,
   MaxCrashes |-> 1, MaxRefusals |-> 1]

MCRate ==
  [Keys |-> {"a", "b"}, Limit |-> ("a" :> 1) @@ ("b" :> 2),
   Window |-> ("a" :> 2) @@ ("b" :> 3), SweepEvery |-> 1, Horizon |-> 3,
   MaxClock |-> 6, MaxAdmitted |-> 4]

MCFarm ==
  [Prints |-> {"p", "q"}, Addresses |-> {"x", "y"}, FpWindow |-> 1,
   FarmIps |-> 2, MaxEntries |-> 1, MaxClock |-> 4]

MCHost ==
  [Requests |-> {"r1", "r2"}, Ttl |-> 1, MaxClock |-> 5]

MCIntake ==
  [Calls |-> {"c1", "c2"}, Browsers |-> {"b"},
   Paths |-> {"p1", "p2", "p3"}, Sends |-> {"s"},
   Origins |-> {"none", "site", "other"}, Domains |-> {"site"},
   PageCap |-> 1, MaxCalls |-> 4, MaxFaults |-> 1]

Plain == [reask |-> FALSE, samePage |-> FALSE, autoClose |-> FALSE,
          yes |-> "subscribe", ios |-> FALSE, visitor |-> "all",
          human |-> FALSE, farm |-> FALSE, turnstile |-> TRUE]

\* Between them they use every switch of the prompt.
Owners ==
  {[Plain EXCEPT !.reask = TRUE, !.samePage = TRUE, !.autoClose = TRUE],
   [Plain EXCEPT !.farm = TRUE, !.human = TRUE, !.visitor = "new",
                 !.reask = TRUE],
   [Plain EXCEPT !.turnstile = FALSE, !.ios = TRUE, !.visitor = "returning"],
   [Plain EXCEPT !.yes = "link"]}

MCScript ==
  [Tabs |-> {"t"}, Owners |-> Owners, MaxLoads |-> 2, MaxPrompts |-> 1]

MCPool ==
  [Tasks |-> {"p", "q", "r"}, Concurrency |-> 2, Intervals |-> {0, 1, 2},
   MaxClock |-> 4, MaxChanges |-> 1]

MCUpdate ==
  [Pages |-> {"p", "q"}, Scripts |-> {"s1", "s2"}, MaxCommits |-> 0,
   MaxApplies |-> 2, MaxKills |-> 1]

MCConsole ==
  [Pages |-> {"p"}, Editors |-> {"p"}, Leads |-> {"none", "a"},
   MaxEdits |-> 1, MaxPresses |-> 1, MaxAnswers |-> 2, MaxLosses |-> 1]

MCRights ==
  [Users |-> {"u", "v"}, First |-> "u", Properties |-> {"x"},
   Whitelists |-> {{}, {"campaigns", "settings", "segments"}}, Ttl |-> 1,
   MaxClock |-> 2, MaxEdits |-> 2]

\* No inclusions and a glob over a single page, and lists of single pages.
Rules ==
  {[include |-> {}, exclude |-> {{"p", "q"}, {"q"}}],
   [include |-> {{"q"}}, exclude |-> {{"p"}}]}

MCEditor ==
  [Editors |-> {"e"}, Paths |-> {"p", "q"},
   Patterns |-> {{"p"}, {"q"}, {"p", "q"}}, Rules |-> Rules,
   Texts |-> {"", "t"}, Domains |-> {"d"}, MaxMoves |-> 3, MaxLeads |-> 1]

Answer(mobile, desktop, alike, robots) ==
  [mobile |-> mobile, desktop |-> desktop, alike |-> alike, robots |-> robots]

\* A good page, and one with failures and warnings of both kinds.
Sites ==
  {Answer({}, {}, TRUE, "allow"),
   Answer({"no-viewport", "slow"}, {"no-viewport", "thin"}, FALSE, "block")}

MCAds ==
  [Staff |-> {"u", "v"}, Secrets |-> {"s"}, Sites |-> Sites,
   MaxMoves |-> 2, MaxPresses |-> 1]
=============================================================================
