------------------------------ MODULE HealthProbe ------------------------------
(***************************************************************************)
(* One health check of one backend: `check` of TcpHealthCheck and of       *)
(* HttpHealthCheck (health_check.rs), step by step, with the connections   *)
(* that HTTP checks may keep for later ones (reuse_connection).            *)
(*                                                                         *)
(* Checks run one after the other, or side by side: with port_override two *)
(* backends of one machine are probed at the same address and share the    *)
(* connector's pool.  The connector, the network and the backend are       *)
(* external: a backend answers late, in pieces, or never; what it has sent *)
(* stays in the connection until it is read or the connection is dropped.  *)
(*                                                                         *)
(* Abstractions.  Of an answer remain the check whose request it answers,  *)
(* its status and its parts: the header and the pieces of the body up to   *)
(* the end.  A read that exceeds the timeout fails.                        *)
(***************************************************************************)
EXTENDS Naturals, Sequences

CONSTANTS
  Prober,        \* checks that may run side by side
  Connection,
  NoConnection,
  Statuses,      \* what a backend may answer
  MaxBody,       \* bound on the pieces of a body
  MaxChecks      \* bound on the checks

VARIABLES
  reuse,      \* HttpHealthCheck::reuse_connection
  pool,       \* connections released for reuse
  owed,       \* per connection: the requests that wait for an answer
  wire,       \* per connection: what was sent back and is not read yet
  checks,     \* the checks started so far
  prober      \* per prober: its place in `check`

Parameters ==
  /\ NoConnection \notin Connection
  /\ Statuses \subseteq Nat /\ MaxBody \in Nat /\ MaxChecks \in Nat

vars == <<reuse, pool, owed, wire, checks, prober>>

NoPart == [of |-> 0, kind |-> "none", status |-> 0]

\* Places: connect, request, header, validate, drain, release and idle, with
\* the last part that was read and the verdict of the last check.
Idle == [pc |-> "idle", kind |-> "http", check |-> 0, conn |-> NoConnection,
         heard |-> NoPart, verdict |-> "none"]

Init ==
  /\ reuse \in BOOLEAN
  /\ pool = {}
  /\ owed = [c \in Connection |-> <<>>]
  /\ wire = [c \in Connection |-> <<>>]
  /\ checks = 0
  /\ prober = [p \in Prober |-> Idle]

InUse == {prober[p].conn : p \in Prober}

\* check(target) begins; port_override and the peer's template are constant.
Start(p, kind) ==
  /\ prober[p].pc = "idle" /\ checks < MaxChecks
  /\ checks' = checks + 1
  /\ prober' = [prober EXCEPT ![p] = [Idle EXCEPT !.pc = "connect", !.kind = kind,
                                                  !.check = checks + 1]]
  /\ UNCHANGED <<reuse, pool, owed, wire>>

\* A stream or session that goes out of scope closes its connection.
Drop(p, verdict) ==
  LET c == prober[p].conn
  IN /\ prober' = [prober EXCEPT ![p].pc = "idle", ![p].conn = NoConnection,
                                 ![p].verdict = verdict]
     /\ owed' = [d \in Connection |-> IF d = c THEN <<>> ELSE owed[d]]
     /\ wire' = [d \in Connection |-> IF d = c THEN <<>> ELSE wire[d]]
     /\ UNCHANGED <<reuse, pool, checks>>

\* get_stream of a TCP check: the connection is all it asks for.
TcpConnected(p) ==
  /\ prober[p].pc = "connect" /\ prober[p].kind = "tcp"
  /\ Drop(p, "ok")

\* get_stream or get_http_session fails, or times out.
ConnectFails(p) ==
  /\ prober[p].pc = "connect"
  /\ Drop(p, "failed")

\* get_http_session: a connection of the pool, or a new one.
Connected(p, c) ==
  /\ prober[p].pc = "connect" /\ prober[p].kind = "http"
  /\ IF pool = {} THEN c \notin InUse ELSE c \in pool
  /\ pool' = pool \ {c}
  /\ prober' = [prober EXCEPT ![p].pc = "request", ![p].conn = c]
  /\ UNCHANGED <<reuse, owed, wire, checks>>

\* write_request_header and finish_request_body.
SendRequest(p) ==
  LET c == prober[p].conn
  IN /\ prober[p].pc = "request"
     /\ owed' = [owed EXCEPT ![c] = Append(@, prober[p].check)]
     /\ prober' = [prober EXCEPT ![p].pc = "header"]
     /\ UNCHANGED <<reuse, pool, wire, checks>>

\* Writing fails: the peer has closed.
RequestFails(p) ==
  /\ prober[p].pc = "request"
  /\ Drop(p, "failed")

\* The backend answers the oldest request of a connection, all of it now;
\* when the client reads it is another matter.
Answer(c, status, body) ==
  /\ owed[c] # <<>>
  /\ LET part(kind) == [of |-> Head(owed[c]), kind |-> kind, status |-> status]
     IN wire' = [wire EXCEPT ![c] =
          @ \o <<part("header")>> \o [i \in 1 .. body |-> part("body")] \o <<part("end")>>]
  /\ owed' = [owed EXCEPT ![c] = Tail(@)]
  /\ UNCHANGED <<reuse, pool, checks, prober>>

Unread(p) == wire[prober[p].conn]

\* A read of the session takes the next part of its connection.
Read(p, there) ==
  /\ Unread(p) # <<>>
  /\ wire' = [wire EXCEPT ![prober[p].conn] = Tail(@)]
  /\ prober' = [prober EXCEPT ![p].pc = there, ![p].heard = Head(Unread(p))]
  /\ UNCHANGED <<reuse, pool, owed, checks>>

\* read_response_header: what comes first on the connection is taken for it.
ReadHeader(p) ==
  /\ prober[p].pc = "header"
  /\ Read(p, "validate")

\* The read timeout, or the end of the connection.
ReadFails(p) ==
  /\ prober[p].pc \in {"header", "drain"}
  /\ Drop(p, "failed")

\* The validator, or without one the comparison with 200.
Valid(p) ==
  /\ prober[p].pc = "validate" /\ prober[p].heard.status = 200
  /\ prober' = [prober EXCEPT ![p].pc = "drain"]
  /\ UNCHANGED <<reuse, pool, owed, wire, checks>>

\* Mutant: a connection is kept although its answer was refused.
KeepAfterRefusal(p) ==
  /\ prober[p].pc = "validate" /\ prober[p].heard.status # 200
  /\ prober' = [prober EXCEPT ![p].pc = "idle", ![p].conn = NoConnection,
                              ![p].verdict = "failed"]
  /\ pool' = IF reuse THEN pool \cup {prober[p].conn} ELSE pool
  /\ UNCHANGED <<reuse, owed, wire, checks>>

Refuse(p) ==
  /\ prober[p].pc = "validate" /\ prober[p].heard.status # 200
  /\ Drop(p, "failed")

\* The loop over read_response_body, which returns None at the end.
Drain(p) ==
  /\ prober[p].pc = "drain"
  /\ Unread(p) # <<>>
  /\ Read(p, IF Head(Unread(p)).kind = "end" THEN "release" ELSE "drain")

\* release_http_session keeps the connection for the next check.
Release(p) ==
  /\ prober[p].pc = "release" /\ reuse
  /\ pool' = pool \cup {prober[p].conn}
  /\ prober' = [prober EXCEPT ![p].pc = "idle", ![p].conn = NoConnection,
                              ![p].verdict = "ok"]
  /\ UNCHANGED <<reuse, owed, wire, checks>>

\* Without reuse the session is dropped.
Done(p) ==
  /\ prober[p].pc = "release" /\ ~reuse
  /\ Drop(p, "ok")

\* The idle timeout of the pool.
IdleTimeout(c) ==
  /\ c \in pool
  /\ pool' = pool \ {c}
  /\ owed' = [owed EXCEPT ![c] = <<>>]
  /\ wire' = [wire EXCEPT ![c] = <<>>]
  /\ UNCHANGED <<reuse, checks, prober>>

Check(p) ==
  \/ \E kind \in {"tcp", "http"} : Start(p, kind)
  \/ TcpConnected(p) \/ ConnectFails(p)
  \/ \E c \in Connection : Connected(p, c)
  \/ SendRequest(p) \/ RequestFails(p)
  \/ ReadHeader(p) \/ ReadFails(p)
  \/ Valid(p) \/ Refuse(p) \/ Drain(p) \/ Release(p) \/ Done(p)

Next ==
  \/ \E p \in Prober : Check(p)
  \/ \E c \in Connection, s \in Statuses, n \in 0 .. MaxBody : Answer(c, s, n)
  \/ \E c \in Connection : IdleTimeout(c)

Spec == Init /\ [][Next]_vars

-----------------------------------------------------------------------------
Part == [of : Nat, kind : {"none", "header", "body", "end"}, status : Nat]

\* The type invariant.
TypeOK ==
  /\ reuse \in BOOLEAN
  /\ pool \subseteq Connection
  /\ owed \in [Connection -> Seq(Nat)]
  /\ wire \in [Connection -> Seq(Part)]
  /\ checks \in 0 .. MaxChecks
  /\ prober \in [Prober ->
       [pc : {"idle", "connect", "request", "header", "validate", "drain", "release"},
        kind : {"tcp", "http"}, check : Nat, conn : Connection \cup {NoConnection},
        heard : Part, verdict : {"none", "ok", "failed"}]]

(***************************************************************************)
(* A verdict is about the backend as it is now: what a check takes for its *)
(* header is the header of the answer to its own request, whatever earlier *)
(* checks left behind on a connection that is reused, by a refused status, *)
(* a timeout or a body that was not read.                                  *)
(***************************************************************************)
OwnAnswer ==
  \A p \in Prober :
    /\ prober[p].pc \in {"validate", "drain", "release"} =>
         prober[p].heard.of = prober[p].check
    /\ prober[p].pc = "validate" => prober[p].heard.kind = "header"
=============================================================================
