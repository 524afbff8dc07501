------------------------------ MODULE HostCache ------------------------------
(***************************************************************************)
(* Which host belongs to an active property: the short-lived cache that    *)
(* answers Caddy's question whether to issue a certificate and chooses the *)
(* hosted opt-in page (public.service.ts activeProperties, propertyByHost; *)
(* public.controller.ts tlsCheck; the page route of main.ts).  A request   *)
(* that finds the cache old reads the table; several may do so at once,    *)
(* and the one whose read takes longest writes the cache last.  Rows are   *)
(* named by the time the database was read at: every change before that    *)
(* time is in them.                                                        *)
(***************************************************************************)
EXTENDS Integers

CONSTANTS
  Requests,
  Ttl,         \* 30 s
  MaxClock     \* bound: the clock

CacheAssumption == Ttl \in Nat /\ MaxClock \in Nat

VARIABLES
  clock,
  cache,     \* hostCache: the start of the read that filled it, and its rows
  req        \* per request: when it began, what it has read, the rows it answers with

vars == <<clock, cache, req>>

Times  == 0..MaxClock
Before == -1

TypeOK ==
  /\ clock \in Times
  /\ cache \in [at : Times \cup {Before}, rows : Times \cup {Before}]
  /\ req \in [Requests -> [pc : {"free", "reading", "read", "answered"},
                           since : Times, rows : Times \cup {Before}]]

Init ==
  /\ clock = 0
  /\ cache = [at |-> Before, rows |-> Before]
  /\ req = [r \in Requests |-> [pc |-> "free", since |-> 0, rows |-> Before]]

Tick == clock < MaxClock /\ clock' = clock + 1 /\ UNCHANGED <<cache, req>>

Stale(now) == cache.at = Before \/ now - cache.at > Ttl

\* activeProperties() up to the query.
Ask(r) ==
  /\ req[r].pc \in {"free", "answered"}
  /\ req' = [req EXCEPT ![r] = IF Stale(clock)
       THEN [pc |-> "reading", since |-> clock, rows |-> Before]
       ELSE [pc |-> "answered", since |-> clock, rows |-> cache.rows]]
  /\ UNCHANGED <<clock, cache>>

\* The database takes its snapshot.
Read(r) ==
  /\ req[r].pc = "reading"
  /\ req' = [req EXCEPT ![r].pc = "read", ![r].rows = clock]
  /\ UNCHANGED <<clock, cache>>

\* Mutant: the entry is dated when the read has come back.
FillLate(r) ==
  /\ req[r].pc = "read"
  /\ cache' = [at |-> clock, rows |-> req[r].rows]
  /\ req' = [req EXCEPT ![r].pc = "answered"]
  /\ UNCHANGED clock

\* this.hostCache = { at: now, rows }: dated when the request began.
Fill(r) ==
  /\ req[r].pc = "read"
  /\ cache' = [at |-> req[r].since, rows |-> req[r].rows]
  /\ req' = [req EXCEPT ![r].pc = "answered"]
  /\ UNCHANGED clock

Next == Tick \/ \E r \in Requests : Ask(r) \/ Read(r) \/ Fill(r)

Spec == Init /\ [][Next]_vars

\* A certificate is given, and a page shown, on what was true at most a TTL
\* before the question.  A slow read that ends after a newer one must not make
\* old rows look new (public.service.ts:77-82).
CertsFresh ==
  \A r \in Requests :
    req[r].pc = "answered" => req[r].rows >= req[r].since - Ttl
=============================================================================
