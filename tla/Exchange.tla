------------------------------- MODULE Exchange -------------------------------
(***************************************************************************)
(* A request that request_filter has let through, up to its response: the  *)
(* shared response cache, the peer of each attempt, the headers sent to    *)
(* the upstream and to the client, and the request id (proxy.rs), with the *)
(* settings as config.rs converts them and route.rs applies them.          *)
(*                                                                         *)
(* Requests run side by side on one route, and all of them ask for the     *)
(* same resource.  A header is a function from names to the sequence of    *)
(* its lines; insert_header leaves one line.  A line of X-Forwarded-For is *)
(* the sequence of its addresses.                                          *)
(*                                                                         *)
(* External: pingora looks into its cache, connects, clones the client's   *)
(* header for every attempt, and tries again by itself when a reused       *)
(* connection turns out to be dead.  resp_cacheable says what the origin's *)
(* Cache-Control allows.                                                   *)
(***************************************************************************)
EXTENDS Naturals, Sequences

CONSTANTS
  Request,
  Arrivals,      \* requests that may come: TLS, method, address, header
  Inputs,        \* settings of the route's entry in the configuration file
  Unset,         \* a setting the file leaves out
  None,
  RequestIds,    \* Proxy::request_id
  Origins,       \* answers of the upstream: 200 or not, Cache-Control
  MaxAttempts    \* bound on the attempts of a request

VARIABLES
  config,     \* the route's current settings
  template,   \* the peer that the backend carries, for plain HTTP
  stored,     \* the response the cache has, or None
  exchange    \* per request: its place and its context

Names == {"host", "real", "xff", "proto", "id", "hsts"}

\* What the constants have to be: headers have lines, perhaps none, of every
\* name, ids are not None, flags are flags, and no rule of the operator adds
\* Strict-Transport-Security itself.
Parameters ==
  /\ RequestIds \in BOOLEAN /\ None \notin Request
  /\ \A a \in Arrivals :
       /\ Names \subseteq DOMAIN a.header
       /\ a.header["id"] # <<>> => Head(a.header["id"]) # None
  /\ \A i \in Inputs :
       /\ i.tls.enabled \in BOOLEAN /\ i.tls.h2 \in BOOLEAN
       /\ i.tls.verify \in BOOLEAN \cup {Unset}
       /\ "hsts" \notin DOMAIN i.headers.add_response
  /\ Inputs # {}

vars == <<config, template, stored, exchange>>

-----------------------------------------------------------------------------
Or(value, default) == IF value = Unset THEN default ELSE value

\* HeadersConfig::to_rules
ToRules(h) ==
  [forwarded |-> Or(h.forwarded, TRUE),
   trusted   |-> Or(h.trusted, FALSE),
   host      |-> IF h.host = "preserve" THEN Unset ELSE h.host,
   set |-> h.set, remove |-> h.remove,
   add_response |-> h.add_response, remove_response |-> h.remove_response]

\* UpstreamTlsInput::to_upstream_tls
ToUpstreamTls(t) == [enabled |-> t.enabled, verify |-> Or(t.verify, TRUE), h2 |-> t.h2]

\* RetryConfigInput::to_retry
ToRetry(retry) ==
  [max |-> Or(retry.max, 1), on_connect_error |-> Or(retry.on_connect_error, TRUE)]

\* RouteEntry::route_config
ToConfig(i) ==
  [rules |-> ToRules(i.headers), tls |-> ToUpstreamTls(i.tls),
   retry |-> ToRetry(i.retry), timeout |-> i.timeout, hsts |-> i.hsts,
   cache |-> i.cache]

PlainPeer == [tls |-> FALSE, verify |-> FALSE, h2 |-> FALSE, timeout |-> Unset]

Idle == [pc |-> "idle"]

Init ==
  /\ config = ToConfig(CHOOSE i \in Inputs : TRUE)
  /\ template = PlainPeer
  /\ stored = None
  /\ exchange = [r \in Request |-> Idle]

-----------------------------------------------------------------------------
\* Proxy::request_filter: the request id, of the client or generated, and the
\* snapshot of the settings.
RequestId(r, header) ==
  IF ~RequestIds THEN None ELSE IF header["id"] = <<>> THEN r ELSE Head(header["id"])

Arrive(r, a) ==
  /\ exchange[r].pc = "idle"
  /\ exchange' = [exchange EXCEPT ![r] =
       [pc |-> "cache", arrival |-> a, id |-> RequestId(r, a.header),
        config |-> config, cacheable |-> FALSE, attempts |-> 0,
        peer |-> PlainPeer, sent |-> a.header, response |-> a.header]]
  /\ UNCHANGED <<config, template, stored>>

\* request_cache_filter: GET and HEAD of a route whose cache is enabled.
Cacheable(r) ==
  exchange[r].config.cache = "enabled" /\ exchange[r].arrival.method \in {"GET", "HEAD"}

\* The cache has the resource and the upstream is not asked.
CacheHit(r) ==
  /\ exchange[r].pc = "cache"
  /\ Cacheable(r) /\ stored # None
  /\ exchange' = [exchange EXCEPT ![r].pc = "respond", ![r].response = stored.header]
  /\ UNCHANGED <<config, template, stored>>

CacheMiss(r) ==
  /\ exchange[r].pc = "cache"
  /\ ~Cacheable(r) \/ stored = None
  /\ exchange' = [exchange EXCEPT ![r].pc = "peer", ![r].cacheable = Cacheable(r)]
  /\ UNCHANGED <<config, template, stored>>

\* The entry expires or is evicted.
CacheExpire ==
  /\ stored # None
  /\ stored' = None
  /\ UNCHANGED <<config, template, exchange>>

-----------------------------------------------------------------------------
\* TimeoutConfig::apply: what is not set stays as the peer has it.
WithSettings(peer, c) ==
  [peer EXCEPT !.h2 = @ \/ c.tls.h2, !.timeout = Or(c.timeout, @)]

\* The peer of an attempt: a new one with TLS, or a clone of the backend's own.
Peer(c) ==
  WithSettings(IF c.tls.enabled
               THEN [PlainPeer EXCEPT !.tls = TRUE, !.verify = c.tls.verify]
               ELSE template, c)

Fail(r) ==
  /\ exchange' = [exchange EXCEPT ![r].pc = "failed"]
  /\ UNCHANGED <<config, template, stored>>

\* Mutant: the settings are written into the backend's own peer.
UpstreamPeerShared(r) ==
  LET peer == Peer(exchange[r].config)
  IN /\ exchange[r].pc = "peer" /\ exchange[r].attempts < MaxAttempts
     /\ exchange' = [exchange EXCEPT ![r].pc = "connect", ![r].peer = peer,
                                     ![r].attempts = @ + 1]
     /\ template' = IF peer.tls THEN template ELSE peer
     /\ UNCHANGED <<config, stored>>

\* upstream_peer
UpstreamPeer(r) ==
  /\ exchange[r].pc = "peer" /\ exchange[r].attempts < MaxAttempts
  /\ exchange' = [exchange EXCEPT ![r].pc = "connect", ![r].attempts = @ + 1,
                                  ![r].peer = Peer(exchange[r].config)]
  /\ UNCHANGED <<config, template, stored>>

\* upstream_peer finds no backend: an error that is not retried.
NoBackend(r) == exchange[r].pc = "peer" /\ Fail(r)

Retries(r) ==
  LET retry == exchange[r].config.retry
  IN retry.on_connect_error /\ exchange[r].attempts <= retry.max

\* fail_to_connect: another attempt,
Retry(r) ==
  /\ exchange[r].pc = "connect" /\ Retries(r)
  /\ exchange' = [exchange EXCEPT ![r].pc = "peer"]
  /\ UNCHANGED <<config, template, stored>>

\* or the error is final.
GiveUp(r) == exchange[r].pc = "connect" /\ ~Retries(r) /\ Fail(r)

\* HeaderRules::apply_request, the forwarded headers of a client whose address
\* is known.  Of several lines of X-Forwarded-For the first one is kept.
Forwarded(rules, header, a) ==
  IF ~rules.forwarded \/ a.address = None THEN header
  ELSE [header EXCEPT
         !["real"] = <<a.address>>,
         !["xff"] = <<IF rules.trusted /\ @ # <<>>
                      THEN Append(Head(@), a.address) ELSE <<a.address>>>>,
         !["proto"] = <<IF a.tls THEN "https" ELSE "http">>]

\* Lines set, and then lines removed.
Ruled(header, set, remove) ==
  [n \in DOMAIN header |->
     IF n \in remove THEN <<>> ELSE IF n \in DOMAIN set THEN <<set[n]>> ELSE header[n]]

\* HeaderRules::apply_request
ApplyRequest(rules, header, a) ==
  LET hosted == IF rules.host = Unset THEN header
                ELSE [header EXCEPT !["host"] = <<rules.host>>]
  IN Ruled(Forwarded(rules, hosted, a), rules.set, rules.remove)

\* insert_header of the id, when there is one.
WithId(header, id) == IF id = None THEN header ELSE [header EXCEPT !["id"] = <<id>>]

\* Mutant: the header of the attempt before is taken up again.
HeaderOfAttempt(r) == exchange[r].sent

\* pingora clones the client's header for each attempt.
HeaderToSend(r) == exchange[r].arrival.header

\* upstream_request_filter
Send(r) ==
  /\ exchange[r].pc = "connect"
  /\ exchange' = [exchange EXCEPT ![r].pc = "sent",
       ![r].sent = WithId(ApplyRequest(exchange[r].config.rules, HeaderToSend(r),
                                       exchange[r].arrival), exchange[r].id)]
  /\ UNCHANGED <<config, template, stored>>

\* The connection was a reused one and dead: pingora takes the next peer.
SendAgain(r) ==
  /\ exchange[r].pc = "sent"
  /\ exchange' = [exchange EXCEPT ![r].pc = "peer"]
  /\ UNCHANGED <<config, template, stored>>

-----------------------------------------------------------------------------
\* resp_cacheable, and a route's own time to live for a 200 without it.
MayStore(r, o) ==
  exchange[r].cacheable /\ (o.control = "max-age" \/ o.ok)

\* What the upstream answers; it may echo the id it was sent.
OriginHeader(r, o) ==
  [n \in DOMAIN exchange[r].sent |->
     IF n = "id" /\ o.echo THEN exchange[r].sent[n] ELSE <<>>]

\* Mutant: the response is stored as the client gets it.
HstsBefore(r, header) ==
  IF exchange[r].config.hsts /\ exchange[r].arrival.tls
  THEN [header EXCEPT !["hsts"] = <<"max-age">>] ELSE header

StoreHeaderAsSent(r, o) == HstsBefore(r, OriginHeader(r, o))

\* What response_cache_filter hands to the cache.
StoreHeader(r, o) == OriginHeader(r, o)

\* The upstream's response: response_cache_filter.
Response(r, o) ==
  /\ exchange[r].pc = "sent"
  /\ stored' = IF MayStore(r, o)
               THEN [header |-> StoreHeader(r, o), control |-> o.control]
               ELSE stored
  /\ exchange' = [exchange EXCEPT ![r].pc = "respond", ![r].response = OriginHeader(r, o)]
  /\ UNCHANGED <<config, template>>

\* Mutant: an id that the response has already is left alone.
ResponseIdKept(header, id) ==
  IF id = None \/ header["id"] # <<>> THEN header ELSE [header EXCEPT !["id"] = <<id>>]

ResponseId(header, id) == WithId(header, id)

\* response_filter, for answers of the upstream and of the cache alike: the
\* rules, HSTS on TLS connections, the request id.
Respond(r) ==
  LET x == exchange[r]
      ruled == Ruled(x.response, x.config.rules.add_response,
                     x.config.rules.remove_response)
      secure == IF x.config.hsts /\ x.arrival.tls
                THEN [ruled EXCEPT !["hsts"] = <<"max-age">>] ELSE ruled
  IN /\ x.pc = "respond"
     /\ exchange' = [exchange EXCEPT ![r].pc = "done",
                                     ![r].response = ResponseId(secure, x.id)]
     /\ UNCHANGED <<config, template, stored>>

\* fail_to_proxy and the log, or the log alone: the context is gone.
Finish(r) ==
  /\ exchange[r].pc \in {"done", "failed"}
  /\ exchange' = [exchange EXCEPT ![r] = Idle]
  /\ UNCHANGED <<config, template, stored>>

\* RouteRuntime::reload
Reload(i) ==
  /\ config' = ToConfig(i)
  /\ config' # config
  /\ UNCHANGED <<template, stored, exchange>>

Step(r) ==
  \/ \E a \in Arrivals : Arrive(r, a)
  \/ CacheHit(r) \/ CacheMiss(r)
  \/ UpstreamPeer(r) \/ NoBackend(r) \/ Retry(r) \/ GiveUp(r)
  \/ Send(r) \/ SendAgain(r)
  \/ \E o \in Origins : Response(r, o)
  \/ Respond(r) \/ Finish(r)

Next ==
  \/ \E r \in Request : Step(r)
  \/ CacheExpire
  \/ \E i \in Inputs : Reload(i)

Spec == Init /\ [][Next]_vars

-----------------------------------------------------------------------------
\* The upstream is told where the request comes from, by no rule of the operator.
Forwards(r) ==
  LET rules == exchange[r].config.rules
  IN /\ exchange[r].pc = "sent"
     /\ rules.forwarded /\ exchange[r].arrival.address # None
     /\ "xff" \notin DOMAIN rules.set \cup rules.remove

(***************************************************************************)
(* The upstream learns the client's address once, however many attempts    *)
(* there were: behind a trusted proxy after the line the client sent, and  *)
(* alone where it sent none, or is not trusted, so that it cannot forge    *)
(* one.  Of several lines see AppendsToExisting.                           *)
(***************************************************************************)
ForwardedOnce ==
  \A r \in Request :
    Forwards(r) =>
      LET x == exchange[r]
          trusted == x.config.rules.trusted
          came == x.arrival.header["xff"]
          address == x.arrival.address
      IN /\ trusted /\ Len(came) = 1 => x.sent["xff"] = <<Append(Head(came), address)>>
         /\ ~trusted \/ came = <<>> => x.sent["xff"] = <<<<address>>>>

(***************************************************************************)
(* Behind a trusted proxy "append the client IP to an existing             *)
(* X-Forwarded-For" (the doc of HeaderRules::trusted_proxy): whatever      *)
(* addresses came, in one line or several, the upstream sees them all.     *)
(***************************************************************************)
AppendsToExisting ==
  \A r \in Request :
    Forwards(r) /\ exchange[r].config.rules.trusted =>
      LET came == exchange[r].arrival.header["xff"]
          sent == exchange[r].sent["xff"]
      IN \A i \in DOMAIN came : \A k \in DOMAIN came[i] :
           \E j \in DOMAIN sent : \E l \in DOMAIN sent[j] : sent[j][l] = came[i][k]

(***************************************************************************)
(* "The request's X-Request-Id for upstream/response/log propagation": the *)
(* upstream, the client and the log see one and the same id, whatever the  *)
(* rules set or remove, and also when the response comes from the cache,   *)
(* where it was stored with the id of another request.                     *)
(***************************************************************************)
OneRequestId ==
  \A r \in Request :
    RequestIds =>
      /\ exchange[r].pc = "sent" => exchange[r].sent["id"] = <<exchange[r].id>>
      /\ exchange[r].pc = "done" => exchange[r].response["id"] = <<exchange[r].id>>

(***************************************************************************)
(* HSTS "only for TLS-terminated requests": a response that was fetched    *)
(* for a TLS client and cached does not carry it to a plain one.           *)
(***************************************************************************)
HstsOverTlsOnly ==
  \A r \in Request :
    exchange[r].pc = "done" /\ exchange[r].response["hsts"] # <<>>
      => exchange[r].arrival.tls

(***************************************************************************)
(* The peer of an attempt follows the settings of its own request: no      *)
(* timeout or protocol of another request, or of the settings before a     *)
(* reload, sticks to the peer that the requests share.                     *)
(***************************************************************************)
PeerAsConfigured ==
  \A r \in Request :
    exchange[r].pc \in {"connect", "sent"} =>
      LET c == exchange[r].config
      IN exchange[r].peer =
           [tls |-> c.tls.enabled, verify |-> c.tls.enabled /\ c.tls.verify,
            h2 |-> c.tls.h2, timeout |-> c.timeout]

(***************************************************************************)
(* "Origin Cache-Control is honored": the cache holds nothing whose origin *)
(* forbade it.                                                             *)
(***************************************************************************)
OriginHonored == stored # None => stored.control # "no-store"
=============================================================================
