----------------------------- MODULE ExchangeProofs -----------------------------
(***************************************************************************)
(* Proofs about Exchange, for any settings, any requests side by side, any *)
(* answers of the upstream and any number of attempts.                     *)
(***************************************************************************)
EXTENDS Exchange, TLAPS

-----------------------------------------------------------------------------
Configs == {ToConfig(i) : i \in Inputs}

\* The peer that the settings of a request ask for.
PeerOf(c) ==
  [tls |-> c.tls.enabled, verify |-> c.tls.enabled /\ c.tls.verify,
   h2 |-> c.tls.h2, timeout |-> c.timeout]

HeaderOf(d) == WithId(ApplyRequest(d.config.rules, d.arrival.header, d.arrival), d.id)

\* A context has these fields.
Shaped(d) ==
  d \in [pc : {d.pc}, arrival : {d.arrival}, id : {d.id}, config : {d.config},
         cacheable : {d.cacheable}, attempts : {d.attempts}, peer : {d.peer},
         sent : {d.sent}, response : {d.response}]

\* What a context knows at its place.
Fits(r, d) ==
  /\ d.arrival \in Arrivals /\ d.config \in Configs
  /\ d.id = RequestId(r, d.arrival.header)
  /\ d.pc \in {"connect", "sent"} => d.peer = PeerOf(d.config)
  /\ d.pc = "sent" => d.sent = HeaderOf(d)
  /\ d.pc = "respond" => Names \subseteq DOMAIN d.response /\ d.response["hsts"] = <<>>
  /\ d.pc = "done" =>
       /\ RequestIds => d.response["id"] = <<d.id>>
       /\ d.response["hsts"] # <<>> => d.arrival.tls

\* What the requests share: the backend's peer is never written, and what is
\* stored carries no HSTS.
SharedInv ==
  /\ config \in Configs
  /\ template = PlainPeer
  /\ stored # None => Names \subseteq DOMAIN stored.header /\ stored.header["hsts"] = <<>>

ContextInv ==
  /\ exchange = [r \in Request |-> exchange[r]]
  /\ \A r \in Request :
       exchange[r] = Idle \/ (Shaped(exchange[r]) /\ Fits(r, exchange[r]))

IInv == SharedInv /\ ContextInv

-----------------------------------------------------------------------------
\* What the settings say when they come from the file.
LEMMA ConfigTyped ==
  ASSUME Parameters, NEW c \in Configs
  PROVE  /\ c.tls.enabled \in BOOLEAN /\ c.tls.verify \in BOOLEAN /\ c.tls.h2 \in BOOLEAN
         /\ "hsts" \notin DOMAIN c.rules.add_response
<1>1. PICK i \in Inputs : c = ToConfig(i)
  BY DEF Configs
<1>2. c.tls = ToUpstreamTls(i.tls) /\ c.rules = ToRules(i.headers)
  BY <1>1 DEF ToConfig
<1>3. c.tls.enabled = i.tls.enabled /\ c.tls.h2 = i.tls.h2 /\ c.tls.verify = Or(i.tls.verify, TRUE)
  BY <1>2 DEF ToUpstreamTls
<1>4. c.rules.add_response = i.headers.add_response
  BY <1>2 DEF ToRules
<1> QED BY <1>3, <1>4 DEF Parameters, Or

LEMMA PeerFields ==
  \A p, tls, verify, h2, timeout, v :
    p = [tls |-> tls, verify |-> verify, h2 |-> h2, timeout |-> timeout]
      => /\ [p EXCEPT !.tls = v] =
              [tls |-> v, verify |-> verify, h2 |-> h2, timeout |-> timeout]
         /\ [p EXCEPT !.verify = v] =
              [tls |-> tls, verify |-> v, h2 |-> h2, timeout |-> timeout]
OBVIOUS

\* TimeoutConfig::apply and the TLS peer, on the plain one of the backend.
LEMMA PeerRight ==
  ASSUME Parameters, template = PlainPeer, NEW c \in Configs
  PROVE  Peer(c) = PeerOf(c)
<1>1. c.tls.enabled \in BOOLEAN /\ c.tls.verify \in BOOLEAN /\ c.tls.h2 \in BOOLEAN
  BY ConfigTyped
<1>2. WithSettings(PlainPeer, c) =
        [tls |-> FALSE, verify |-> FALSE, h2 |-> c.tls.h2, timeout |-> c.timeout]
  <2>1. (FALSE \/ c.tls.h2) = c.tls.h2
    BY <1>1
  <2>2. Or(c.timeout, Unset) = c.timeout
    BY DEF Or
  <2>3. PlainPeer.h2 = FALSE /\ PlainPeer.timeout = Unset
    BY DEF PlainPeer
  <2>4. WithSettings(PlainPeer, c) = [PlainPeer EXCEPT !.h2 = c.tls.h2, !.timeout = c.timeout]
    BY <2>1, <2>2, <2>3, Zenon DEF WithSettings
  <2> QED BY <2>4 DEF PlainPeer
<1>3. WithSettings([PlainPeer EXCEPT !.tls = TRUE, !.verify = c.tls.verify], c) =
        [tls |-> TRUE, verify |-> c.tls.verify, h2 |-> c.tls.h2, timeout |-> c.timeout]
  <2>1. (FALSE \/ c.tls.h2) = c.tls.h2
    BY <1>1
  <2>2. Or(c.timeout, Unset) = c.timeout
    BY DEF Or
  <2> DEFINE p == [PlainPeer EXCEPT !.tls = TRUE, !.verify = c.tls.verify]
  <2>a. p = [tls |-> TRUE, verify |-> c.tls.verify, h2 |-> FALSE, timeout |-> Unset]
    <3> DEFINE no == FALSE
               yes == TRUE
               v == c.tls.verify
    <3>1. PlainPeer = [tls |-> no, verify |-> no, h2 |-> no, timeout |-> Unset]
      BY DEF PlainPeer
    <3> HIDE DEF no, yes, v
    <3>2. [PlainPeer EXCEPT !.tls = yes] =
            [tls |-> yes, verify |-> no, h2 |-> no, timeout |-> Unset]
      BY <3>1, PeerFields
    <3> DEFINE q == [PlainPeer EXCEPT !.tls = yes]
    <3>3. q = [tls |-> yes, verify |-> no, h2 |-> no, timeout |-> Unset]
      BY <3>2
    <3> HIDE DEF q
    <3>4. [q EXCEPT !.verify = v]
            = [tls |-> yes, verify |-> v, h2 |-> no, timeout |-> Unset]
      BY <3>3, PeerFields
    <3> QED BY <3>4, Zenon DEF no, yes, v, q
  <2> HIDE DEF p
  <2>3. p.h2 = FALSE /\ p.timeout = Unset
    BY <2>a
  <2>4. WithSettings(p, c) = [p EXCEPT !.h2 = c.tls.h2, !.timeout = c.timeout]
    BY <2>1, <2>2, <2>3, Zenon DEF WithSettings
  <2>5. WithSettings(p, c) =
          [tls |-> TRUE, verify |-> c.tls.verify, h2 |-> c.tls.h2, timeout |-> c.timeout]
    BY <2>a, <2>4
  <2> QED BY <2>5 DEF p
<1>4. CASE c.tls.enabled = TRUE
  <2>1. (c.tls.enabled /\ c.tls.verify) = c.tls.verify
    BY <1>1, <1>4
  <2> QED BY <1>3, <1>4, <2>1 DEF Peer, PeerOf
<1>5. CASE c.tls.enabled = FALSE
  <2>1. (c.tls.enabled /\ c.tls.verify) = FALSE
    BY <1>5
  <2> QED BY <1>2, <1>5, <2>1 DEF Peer, PeerOf
<1> QED BY <1>1, <1>4, <1>5

\* The rules keep the names of a header.
LEMMA ApplyKeepsNames ==
  \A rules, header, a : DOMAIN ApplyRequest(rules, header, a) = DOMAIN header
<1>1. \A rules, h, a : DOMAIN Forwarded(rules, h, a) = DOMAIN h
  BY DEF Forwarded
<1>2. \A h, set, remove : DOMAIN Ruled(h, set, remove) = DOMAIN h
  BY DEF Ruled
<1> QED BY <1>1, <1>2 DEF ApplyRequest

\* A context at one of the places between arrival and end.
LEMMA Active ==
  ASSUME ContextInv, NEW r \in Request, exchange[r].pc # "idle"
  PROVE  Shaped(exchange[r]) /\ Fits(r, exchange[r])
  BY DEF ContextInv, Idle

\* One request gets another context, which fits.
LEMMA Move ==
  ASSUME ContextInv, NEW r \in Request, NEW d,
         exchange' = [exchange EXCEPT ![r] = d],
         d = Idle \/ (Shaped(d) /\ Fits(r, d))
  PROVE  ContextInv'
<1>1. exchange' = [q \in Request |-> IF q = r THEN d ELSE exchange[q]]
  BY DEF ContextInv
<1>2. exchange' = [q \in Request |-> exchange'[q]]
  BY <1>1
<1>3. ASSUME NEW q \in Request
      PROVE  exchange'[q] = Idle \/ (Shaped(exchange'[q]) /\ Fits(q, exchange'[q]))
  BY <1>1, <1>3 DEF ContextInv
<1> QED BY <1>2, <1>3 DEF ContextInv

-----------------------------------------------------------------------------
\* No header is stored with HSTS: the upstream answers without it.
LEMMA OriginPlain ==
  ASSUME NEW r, NEW o, Names \subseteq DOMAIN exchange[r].sent
  PROVE  /\ Names \subseteq DOMAIN OriginHeader(r, o)
         /\ OriginHeader(r, o)["hsts"] = <<>>
BY DEF OriginHeader, Names

LEMMA InitIInv == ASSUME Parameters, Init PROVE IInv
<1>1. PICK i \in Inputs : config = ToConfig(i)
  BY DEF Init, Parameters
<1> QED BY <1>1 DEF Init, IInv, SharedInv, ContextInv, Configs

LEMMA ArriveSafe ==
  ASSUME Parameters, IInv, NEW r \in Request, NEW a \in Arrivals, Arrive(r, a)
  PROVE  ContextInv'
<1> DEFINE d == [pc |-> "cache", arrival |-> a, id |-> RequestId(r, a.header),
                 config |-> config, cacheable |-> FALSE, attempts |-> 0,
                 peer |-> PlainPeer, sent |-> a.header, response |-> a.header]
<1>1. exchange' = [exchange EXCEPT ![r] = d]
  BY DEF Arrive
<1>2. Shaped(d)
  BY DEF Shaped
<1>3. Fits(r, d)
  BY DEF Fits, IInv, SharedInv
<1> HIDE DEF d
<1> QED BY <1>1, <1>2, <1>3, Move DEF IInv

LEMMA CacheHitSafe ==
  ASSUME Parameters, IInv, NEW r \in Request, CacheHit(r)
  PROVE  ContextInv'
<1> DEFINE d == exchange[r]
           e == [d EXCEPT !.pc = "respond", !.response = stored.header]
<1>1. Shaped(d) /\ Fits(r, d)
  BY Active DEF CacheHit, IInv
<1>2. exchange' = [exchange EXCEPT ![r] = e]
  BY DEF CacheHit, IInv, ContextInv
<1>3. Shaped(e)
  BY <1>1 DEF Shaped
<1>4. Fits(r, e)
  BY <1>1 DEF Fits, Shaped, CacheHit, IInv, SharedInv
<1> HIDE DEF e
<1> QED BY <1>2, <1>3, <1>4, Move DEF IInv

LEMMA CacheMissSafe ==
  ASSUME Parameters, IInv, NEW r \in Request, CacheMiss(r)
  PROVE  ContextInv'
<1> DEFINE d == exchange[r]
           e == [d EXCEPT !.pc = "peer", !.cacheable = Cacheable(r)]
<1>1. Shaped(d) /\ Fits(r, d)
  BY Active DEF CacheMiss, IInv
<1>2. exchange' = [exchange EXCEPT ![r] = e]
  BY DEF CacheMiss, IInv, ContextInv
<1>3. Shaped(e)
  BY <1>1 DEF Shaped
<1>4. Fits(r, e)
  BY <1>1 DEF Fits, Shaped, CacheMiss
<1> HIDE DEF e
<1> QED BY <1>2, <1>3, <1>4, Move DEF IInv

LEMMA NoBackendSafe ==
  ASSUME Parameters, IInv, NEW r \in Request, NoBackend(r)
  PROVE  ContextInv'
<1> DEFINE d == exchange[r]
           e == [d EXCEPT !.pc = "failed"]
<1>1. Shaped(d) /\ Fits(r, d)
  BY Active DEF NoBackend, Fail, IInv
<1>2. exchange' = [exchange EXCEPT ![r] = e]
  BY DEF NoBackend, Fail, IInv, ContextInv
<1>3. Shaped(e)
  BY <1>1 DEF Shaped
<1>4. Fits(r, e)
  BY <1>1 DEF Fits, Shaped, NoBackend
<1> HIDE DEF e
<1> QED BY <1>2, <1>3, <1>4, Move DEF IInv

LEMMA RetrySafe ==
  ASSUME Parameters, IInv, NEW r \in Request, Retry(r)
  PROVE  ContextInv'
<1> DEFINE d == exchange[r]
           e == [d EXCEPT !.pc = "peer"]
<1>1. Shaped(d) /\ Fits(r, d)
  BY Active DEF Retry, IInv
<1>2. exchange' = [exchange EXCEPT ![r] = e]
  BY DEF Retry, IInv, ContextInv
<1>3. Shaped(e)
  BY <1>1 DEF Shaped
<1>4. Fits(r, e)
  BY <1>1 DEF Fits, Shaped, Retry
<1> HIDE DEF e
<1> QED BY <1>2, <1>3, <1>4, Move DEF IInv

LEMMA GiveUpSafe ==
  ASSUME Parameters, IInv, NEW r \in Request, GiveUp(r)
  PROVE  ContextInv'
<1> DEFINE d == exchange[r]
           e == [d EXCEPT !.pc = "failed"]
<1>1. Shaped(d) /\ Fits(r, d)
  BY Active DEF GiveUp, Fail, IInv
<1>2. exchange' = [exchange EXCEPT ![r] = e]
  BY DEF GiveUp, Fail, IInv, ContextInv
<1>3. Shaped(e)
  BY <1>1 DEF Shaped
<1>4. Fits(r, e)
  BY <1>1 DEF Fits, Shaped, GiveUp
<1> HIDE DEF e
<1> QED BY <1>2, <1>3, <1>4, Move DEF IInv

LEMMA SendAgainSafe ==
  ASSUME Parameters, IInv, NEW r \in Request, SendAgain(r)
  PROVE  ContextInv'
<1> DEFINE d == exchange[r]
           e == [d EXCEPT !.pc = "peer"]
<1>1. Shaped(d) /\ Fits(r, d)
  BY Active DEF SendAgain, IInv
<1>2. exchange' = [exchange EXCEPT ![r] = e]
  BY DEF SendAgain, IInv, ContextInv
<1>3. Shaped(e)
  BY <1>1 DEF Shaped
<1>4. Fits(r, e)
  BY <1>1 DEF Fits, Shaped, SendAgain
<1> HIDE DEF e
<1> QED BY <1>2, <1>3, <1>4, Move DEF IInv

LEMMA UpstreamPeerSafe ==
  ASSUME Parameters, IInv, NEW r \in Request, UpstreamPeer(r)
  PROVE  ContextInv'
<1> DEFINE d == exchange[r]
           e == [d EXCEPT !.pc = "connect", !.attempts = @ + 1, !.peer = Peer(d.config)]
<1>1. Shaped(d) /\ Fits(r, d)
  BY Active DEF UpstreamPeer, IInv
<1>2. exchange' = [exchange EXCEPT ![r] = e]
  BY DEF UpstreamPeer, IInv, ContextInv
<1>3. Shaped(e)
  BY <1>1 DEF Shaped
<1>4. Fits(r, e)
  <2>1. Peer(d.config) = PeerOf(d.config)
    BY <1>1, PeerRight DEF Fits, IInv, SharedInv
  <2> QED BY <1>1, <2>1 DEF Fits, Shaped, UpstreamPeer
<1> HIDE DEF e
<1> QED BY <1>2, <1>3, <1>4, Move DEF IInv

LEMMA SendSafe ==
  ASSUME Parameters, IInv, NEW r \in Request, Send(r)
  PROVE  ContextInv'
<1> DEFINE d == exchange[r]
           e == [d EXCEPT !.pc = "sent", !.sent = HeaderOf(d)]
<1>1. Shaped(d) /\ Fits(r, d)
  BY Active DEF Send, HeaderToSend, HeaderOf, IInv
<1>2. exchange' = [exchange EXCEPT ![r] = e]
  BY DEF Send, HeaderToSend, HeaderOf, IInv, ContextInv
<1>3. Shaped(e)
  BY <1>1 DEF Shaped
<1>4. Fits(r, e)
  <2>1. HeaderOf(e) = HeaderOf(d)
    BY <1>1 DEF HeaderOf, Shaped
  <2> QED BY <1>1, <2>1 DEF Fits, Shaped, Send
<1> HIDE DEF e
<1> QED BY <1>2, <1>3, <1>4, Move DEF IInv

\* The upstream's answer: the context has it, and the cache may.
LEMMA ResponseSafe ==
  ASSUME Parameters, IInv, NEW r \in Request, NEW o \in Origins, Response(r, o)
  PROVE  SharedInv' /\ ContextInv'
<1> DEFINE d == exchange[r]
           h == OriginHeader(r, o)
           e == [d EXCEPT !.pc = "respond", !.response = h]
<1>1. Shaped(d) /\ Fits(r, d) /\ d.pc = "sent"
  BY Active DEF Response, IInv
<1>2. Names \subseteq DOMAIN h /\ h["hsts"] = <<>>
  <2>1. d.sent = HeaderOf(d) /\ Names \subseteq DOMAIN d.arrival.header
    BY <1>1 DEF Fits, Parameters
  <2>2. DOMAIN HeaderOf(d) = DOMAIN d.arrival.header
    <3> DEFINE a == ApplyRequest(d.config.rules, d.arrival.header, d.arrival)
    <3>1. DOMAIN a = DOMAIN d.arrival.header
      BY ApplyKeepsNames
    <3> HIDE DEF a
    <3>2. DOMAIN WithId(a, d.id) = DOMAIN a
      BY DEF WithId
    <3> QED BY <3>1, <3>2 DEF HeaderOf, a
  <2> QED BY <2>1, <2>2, OriginPlain
<1> HIDE DEF h
<1>3. exchange' = [exchange EXCEPT ![r] = e]
  BY DEF Response, IInv, ContextInv, h
<1>4. Shaped(e)
  BY <1>1 DEF Shaped
<1>5. Fits(r, e)
  BY <1>1, <1>2 DEF Fits, Shaped
<1> HIDE DEF e
<1>6. ContextInv'
  BY <1>3, <1>4, <1>5, Move DEF IInv
<1>7. config' = config /\ template' = template
  BY DEF Response
<1>8. stored' = stored \/ stored' = [header |-> h, control |-> o.control]
  BY DEF Response, StoreHeader, h
<1>9. stored' # stored => stored'.header = h
  BY <1>8
<1>10. SharedInv'
  BY <1>2, <1>7, <1>9 DEF SharedInv, IInv
<1> QED BY <1>6, <1>10

\* What the client gets: its own id, and HSTS only on a TLS connection.
LEMMA RespondSafe ==
  ASSUME Parameters, IInv, NEW r \in Request, Respond(r)
  PROVE  ContextInv'
<1> DEFINE d == exchange[r]
           ruled == Ruled(d.response, d.config.rules.add_response,
                          d.config.rules.remove_response)
           secure == IF d.config.hsts /\ d.arrival.tls
                     THEN [ruled EXCEPT !["hsts"] = <<"max-age">>] ELSE ruled
           h == ResponseId(secure, d.id)
           e == [d EXCEPT !.pc = "done", !.response = h]
<1>1. Shaped(d) /\ Fits(r, d) /\ d.pc = "respond"
  BY Active DEF Respond, IInv
<1>2. /\ Names \subseteq DOMAIN d.response /\ d.response["hsts"] = <<>>
      /\ "hsts" \notin DOMAIN d.config.rules.add_response
  BY <1>1, ConfigTyped DEF Fits
<1>3. DOMAIN ruled = DOMAIN d.response /\ ruled["hsts"] = <<>>
  BY <1>2 DEF Ruled, Names
<1> HIDE DEF ruled
<1>4. /\ DOMAIN secure = DOMAIN d.response
      /\ ~d.arrival.tls => secure["hsts"] = <<>>
  BY <1>3
<1> HIDE DEF secure
<1>5. ~d.arrival.tls => h["hsts"] = <<>>
  BY <1>2, <1>4 DEF ResponseId, WithId, Names
<1>6. RequestIds => h["id"] = <<d.id>>
  <2>1. RequestIds => d.id # None
    BY <1>1 DEF Fits, RequestId, Parameters
  <2> QED BY <1>2, <1>4, <2>1 DEF ResponseId, WithId, Names
<1> HIDE DEF h
<1>7. exchange' = [exchange EXCEPT ![r] = e]
  BY DEF Respond, IInv, ContextInv, h, secure, ruled
<1>8. Shaped(e)
  BY <1>1 DEF Shaped
<1>9. Fits(r, e)
  BY <1>1, <1>5, <1>6 DEF Fits, Shaped
<1> HIDE DEF e
<1> QED BY <1>7, <1>8, <1>9, Move DEF IInv

\* Only Response, CacheExpire and Reload change what the requests share.
LEMMA NextIInv ==
  ASSUME Parameters, IInv, Next
  PROVE  IInv'
<1>1. ASSUME NEW r \in Request, NEW a \in Arrivals, Arrive(r, a) PROVE IInv'
  BY <1>1, ArriveSafe DEF Arrive, IInv, SharedInv
<1>2. ASSUME NEW r \in Request, CacheHit(r) PROVE IInv'
  BY <1>2, CacheHitSafe DEF CacheHit, IInv, SharedInv
<1>3. ASSUME NEW r \in Request, CacheMiss(r) PROVE IInv'
  BY <1>3, CacheMissSafe DEF CacheMiss, IInv, SharedInv
<1>4. ASSUME NEW r \in Request, UpstreamPeer(r) PROVE IInv'
  BY <1>4, UpstreamPeerSafe DEF UpstreamPeer, IInv, SharedInv
<1>5. ASSUME NEW r \in Request, NoBackend(r) PROVE IInv'
  BY <1>5, NoBackendSafe DEF NoBackend, Fail, IInv, SharedInv
<1>6. ASSUME NEW r \in Request, Retry(r) PROVE IInv'
  BY <1>6, RetrySafe DEF Retry, IInv, SharedInv
<1>7. ASSUME NEW r \in Request, GiveUp(r) PROVE IInv'
  BY <1>7, GiveUpSafe DEF GiveUp, Fail, IInv, SharedInv
<1>8. ASSUME NEW r \in Request, Send(r) PROVE IInv'
  BY <1>8, SendSafe DEF Send, IInv, SharedInv
<1>9. ASSUME NEW r \in Request, SendAgain(r) PROVE IInv'
  BY <1>9, SendAgainSafe DEF SendAgain, IInv, SharedInv
<1>10. ASSUME NEW r \in Request, NEW o \in Origins, Response(r, o) PROVE IInv'
  BY <1>10, ResponseSafe DEF IInv
<1>11. ASSUME NEW r \in Request, Respond(r) PROVE IInv'
  BY <1>11, RespondSafe DEF Respond, IInv, SharedInv
<1>12. ASSUME NEW r \in Request, Finish(r) PROVE IInv'
  <2>1. exchange' = [exchange EXCEPT ![r] = Idle]
    BY <1>12 DEF Finish
  <2>2. ContextInv'
    BY <2>1, Move DEF IInv
  <2> QED BY <1>12, <2>2 DEF Finish, IInv, SharedInv
<1>13. ASSUME CacheExpire PROVE IInv'
  BY <1>13 DEF CacheExpire, IInv, SharedInv, ContextInv, Fits, Shaped, HeaderOf
<1>14. ASSUME NEW i \in Inputs, Reload(i) PROVE IInv'
  BY <1>14 DEF Reload, IInv, SharedInv, ContextInv, Fits, Shaped, HeaderOf, Configs
<1> QED
  BY <1>1, <1>2, <1>3, <1>4, <1>5, <1>6, <1>7, <1>8, <1>9, <1>10, <1>11, <1>12,
     <1>13, <1>14 DEF Next, Step

(***************************************************************************)
(* The places of the requests and what they share keep what IInv says of   *)
(* them, in every state of Exchange.                                       *)
(***************************************************************************)
THEOREM ExchangeInvariance == ASSUME Parameters PROVE Spec => []IInv
<1>1. Init => IInv
  BY InitIInv
<1>2. IInv /\ [Next]_vars => IInv'
  <2>1. ASSUME IInv, UNCHANGED vars PROVE IInv'
    BY <2>1 DEF vars, IInv, SharedInv, ContextInv, Fits, Shaped, HeaderOf
  <2> QED BY <2>1, NextIInv
<1> QED BY <1>1, <1>2, PTL DEF Spec

(***************************************************************************)
(* The peer of an attempt is the one its own request's settings ask for,   *)
(* in every state, for any settings and any number of requests, attempts   *)
(* and reloads.                                                            *)
(***************************************************************************)
THEOREM PeersAreConfigured == ASSUME Parameters PROVE Spec => []PeerAsConfigured
<1>1. IInv => PeerAsConfigured
  <2>1. ASSUME IInv, NEW r \in Request, exchange[r].pc \in {"connect", "sent"}
        PROVE  exchange[r].peer = PeerOf(exchange[r].config)
    BY <2>1, Active DEF IInv, Fits
  <2> QED BY <2>1 DEF PeerAsConfigured, PeerOf
<1> QED BY <1>1, ExchangeInvariance, PTL

(***************************************************************************)
(* HSTS reaches clients on TLS only: also when the response was stored for *)
(* one kind of client and is given to the other.                           *)
(***************************************************************************)
THEOREM HstsIsSecure == ASSUME Parameters PROVE Spec => []HstsOverTlsOnly
<1>1. IInv => HstsOverTlsOnly
  <2>1. ASSUME IInv, NEW r \in Request, exchange[r].pc = "done",
               exchange[r].response["hsts"] # <<>>
        PROVE  exchange[r].arrival.tls
    BY <2>1, Active DEF IInv, Fits
  <2> QED BY <2>1 DEF HstsOverTlsOnly
<1> QED BY <1>1, ExchangeInvariance, PTL

(***************************************************************************)
(* The upstream and the client see the request's own id, whatever the      *)
(* rules do to the header and wherever the response comes from.            *)
(***************************************************************************)
THEOREM IdIsOne == ASSUME Parameters PROVE Spec => []OneRequestId
<1>1. IInv => OneRequestId
  <2>1. ASSUME IInv, NEW r \in Request, RequestIds, exchange[r].pc = "sent"
        PROVE  exchange[r].sent["id"] = <<exchange[r].id>>
    <3> DEFINE d == exchange[r]
               a == ApplyRequest(d.config.rules, d.arrival.header, d.arrival)
    <3>1. Fits(r, d) /\ d.pc = "sent"
      BY <2>1, Active DEF IInv
    <3>2. d.id # None /\ "id" \in DOMAIN d.arrival.header
      BY <2>1, <3>1 DEF Fits, RequestId, Parameters, Names
    <3>3. DOMAIN a = DOMAIN d.arrival.header
      BY ApplyKeepsNames
    <3>4. d.sent = WithId(a, d.id)
      BY <3>1 DEF Fits, HeaderOf
    <3> HIDE DEF a
    <3> QED BY <3>2, <3>3, <3>4 DEF WithId
  <2>2. ASSUME IInv, NEW r \in Request, RequestIds, exchange[r].pc = "done"
        PROVE  exchange[r].response["id"] = <<exchange[r].id>>
    BY <2>2, Active DEF IInv, Fits
  <2> QED BY <2>1, <2>2 DEF OneRequestId
<1> QED BY <1>1, ExchangeInvariance, PTL

\* The line of X-Forwarded-For that ApplyRequest leaves: what comes before
\* and after it in HeaderRules::apply_request touches other names.
LEMMA ForwardedLine ==
  ASSUME NEW rules, NEW header, NEW a, Names \subseteq DOMAIN header,
         rules.forwarded, a.address # None,
         "xff" \notin DOMAIN rules.set, "xff" \notin rules.remove
  PROVE  ApplyRequest(rules, header, a)["xff"] =
           <<IF rules.trusted /\ header["xff"] # <<>>
             THEN Append(Head(header["xff"]), a.address) ELSE <<a.address>>>>
<1> DEFINE hosted == IF rules.host = Unset THEN header
                     ELSE [header EXCEPT !["host"] = <<rules.host>>]
           line == <<IF rules.trusted /\ hosted["xff"] # <<>>
                     THEN Append(Head(hosted["xff"]), a.address) ELSE <<a.address>>>>
           proto == <<IF a.tls THEN "https" ELSE "http">>
           forwarded == Forwarded(rules, hosted, a)
<1>1. DOMAIN hosted = DOMAIN header /\ hosted["xff"] = header["xff"]
  BY DEF Names
<1>2. forwarded = [hosted EXCEPT !["real"] = <<a.address>>,
                                 !["xff"] = <<IF rules.trusted /\ @ # <<>>
                                              THEN Append(Head(@), a.address)
                                              ELSE <<a.address>>>>,
                                 !["proto"] = proto]
  BY Zenon DEF Forwarded
<1> HIDE DEF hosted, proto
<1>3. DOMAIN forwarded = DOMAIN hosted /\ forwarded["xff"] = line
  BY <1>1, <1>2 DEF Names
<1>4. ApplyRequest(rules, header, a) = Ruled(forwarded, rules.set, rules.remove)
  BY DEF ApplyRequest, hosted
<1> HIDE DEF forwarded, line
<1>5. Ruled(forwarded, rules.set, rules.remove)["xff"] = line
  BY <1>1, <1>3 DEF Ruled, Names
<1> QED BY <1>1, <1>4, <1>5 DEF line

(***************************************************************************)
(* The upstream sees one line of X-Forwarded-For, made of what the client  *)
(* sent and its address, however often the request was sent before.        *)
(***************************************************************************)
THEOREM ForwardedIsOnce == ASSUME Parameters PROVE Spec => []ForwardedOnce
<1>1. IInv => ForwardedOnce
  <2> SUFFICES ASSUME IInv, NEW r \in Request, Forwards(r)
               PROVE  LET x == exchange[r]
                          trusted == x.config.rules.trusted
                          came == x.arrival.header["xff"]
                          address == x.arrival.address
                      IN /\ trusted /\ Len(came) = 1 =>
                              x.sent["xff"] = <<Append(Head(came), address)>>
                         /\ ~trusted \/ came = <<>> => x.sent["xff"] = <<<<address>>>>
    BY DEF ForwardedOnce
  <2> DEFINE d == exchange[r]
             a == ApplyRequest(d.config.rules, d.arrival.header, d.arrival)
             came == d.arrival.header["xff"]
             line == <<IF d.config.rules.trusted /\ came # <<>>
                       THEN Append(Head(came), d.arrival.address)
                       ELSE <<d.arrival.address>>>>
  <2>1. d.sent = WithId(a, d.id) /\ Names \subseteq DOMAIN d.arrival.header
    BY Active DEF IInv, Fits, HeaderOf, Parameters, Forwards
  <2>2. DOMAIN a = DOMAIN d.arrival.header
    BY ApplyKeepsNames
  <2>3. a["xff"] = line
    BY <2>1, ForwardedLine DEF Forwards
  <2> HIDE DEF a
  <2>4. WithId(a, d.id)["xff"] = a["xff"]
    BY <2>1, <2>2 DEF WithId, Names
  <2>5. d.sent["xff"] = line
    BY <2>1, <2>3, <2>4
  <2>6. Len(came) = 1 => came # <<>>
    OBVIOUS
  <2> QED BY <2>5, <2>6
<1> QED BY <1>1, ExchangeInvariance, PTL
=============================================================================
