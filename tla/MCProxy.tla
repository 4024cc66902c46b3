------------------------------- MODULE MCProxy -------------------------------
(***************************************************************************)
(* ProxyParts on small values.                                             *)
(***************************************************************************)
EXTENDS ProxyParts, TLC

CONSTANTS ra, pa, px   \* Admission's route and paths

MCTarget == pa :> ra @@ px :> NoRoute

-----------------------------------------------------------------------------
(* Routing: a virtual host in any case, a wildcard, a regular expression,  *)
(* duplicates, entries without an upstream or with refused settings.       *)
Entry(host, path, s) ==
  [host |-> host, path |-> path, regex |-> path \in {"^/b", "x$"}, upstreams |-> TRUE,
   action |-> FALSE, settings |-> s, strategy |-> "RoundRobin"]

MCFiles ==
  {<<Entry("-", "/a/*", 1), Entry("Ex", "/a/x", 1), Entry("-", "^/b", 1)>>,
   <<Entry("ex", "/a/*", 2), Entry("-", "/a/*", 2), Entry("EX", "/a/x", 2)>>,
   <<Entry("ex", "x$", 3), Entry("-", "/b", 3), Entry("-", "^/b", 3)>>,
   <<Entry("Ex", "x$", 3), Entry("ex", "/a/x", Invalid), Entry("-", "/a/*", 4)>>,
   <<Entry("ex", "/a/*", 4), Entry("-", "/a/*", 3), Entry("-", "^/b", Invalid)>>,
   <<Entry("-", "/b", 1), Entry("-", "/b", 1)>>,
   <<[Entry("-", "/b", 4) EXCEPT !.upstreams = FALSE, !.action = TRUE],
     Entry("Ex", "/a/*", 3)>>,
   <<[Entry("-", "/b", 4) EXCEPT !.upstreams = FALSE]>>,
   <<Entry("-", "*", 4)>>}

MCLower == "Ex" :> "ex" @@ "EX" :> "ex" @@ "ex" :> "ex"
MCHostKey == "EX:80" :> "ex" @@ "eu" :> "eu"
MCTransform ==
  [p \in {"/a/*", "/a/x", "/b", "*"} |-> IF p = "/a/*" THEN "/a/{*rest}" ELSE p]
MCMatching == "/a/x" :> <<"/a/x", "/a/{*rest}">> @@ "/b" :> <<"/b">>
MCRegexMatches == "/a/x" :> {"x$"} @@ "/b" :> {"^/b"}

-----------------------------------------------------------------------------
(* Exchange: a TLS client behind a proxy, a plain one behind two with an   *)
(* id of its own, and one without an address; three configurations.        *)
Header == [n \in {"host", "real", "xff", "proto", "id", "hsts"} |-> <<>>]
NoLines == [n \in {} |-> ""]

MCArrivals ==
  {[tls |-> TRUE, method |-> "GET", address |-> "a",
    header |-> [Header EXCEPT !["xff"] = <<<<"f">>>>]],
   [tls |-> FALSE, method |-> "GET", address |-> "b",
    header |-> [Header EXCEPT !["id"] = <<"mine">>, !["xff"] = <<<<"f">>, <<"g">>>>]],
   [tls |-> FALSE, method |-> "POST", address |-> None, header |-> Header]}

Plain ==
  [headers |-> [forwarded |-> Unset, trusted |-> Unset, host |-> "preserve",
                set |-> NoLines, remove |-> {},
                add_response |-> NoLines, remove_response |-> {}],
   tls |-> [enabled |-> FALSE, verify |-> Unset, h2 |-> FALSE],
   retry |-> [max |-> Unset, on_connect_error |-> Unset],
   timeout |-> Unset, hsts |-> TRUE, cache |-> "enabled"]

MCInputs ==
  {Plain,
   [Plain EXCEPT !.headers.trusted = TRUE, !.headers.host = "up",
                 !.headers.set = "id" :> "x", !.headers.remove_response = {"id"},
                 !.retry.on_connect_error = FALSE, !.timeout = 1, !.hsts = FALSE],
   [Plain EXCEPT !.headers.forwarded = FALSE, !.headers.remove = {"id"},
                 !.headers.add_response = "id" :> "x", !.tls.enabled = TRUE,
                 !.tls.h2 = TRUE, !.retry.max = 0, !.cache = Unset]}

MCOrigins ==
  {[ok |-> TRUE, control |-> "none", echo |-> TRUE],
   [ok |-> TRUE, control |-> "no-store", echo |-> FALSE],
   [ok |-> FALSE, control |-> "none", echo |-> FALSE]}

-----------------------------------------------------------------------------
\* Admission begins with stripped paths and a limit of two, which a reload may
\* change; a part that does not move starts in one of its initial states.
MCInit ==
  /\ AllInit
  /\ \A n \in DOMAIN states : states[n] = [strip |-> TRUE, max |-> 2]
  /\ part # "probe" => ~reuse

MCSpec == MCInit /\ [][AllNext]_all

Symmetric == Permutations(Request) \cup Permutations(Caller)
=============================================================================
