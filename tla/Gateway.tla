------------------------------- MODULE Gateway ------------------------------
(***************************************************************************)
(* handlers/gateway.go: ServeHTTP, which authenticates a request, checks   *)
(* its access, rewrites its query or chooses its tenant and forwards it    *)
(* (Forward of services/proxy, of which only the result matters here).     *)
(***************************************************************************)
EXTENDS TokenAuth

CONSTANTS
  Requests,       \* records [path, method, place, query, header]
  MaxRequests     \* bound: on the requests that are made

VARIABLES
  req,            \* the request of each handler
  sent,           \* what it has handed to Forward: [query, tenant]
  served          \* how many requests were made

vars == <<useProjectID, authVars, req, sent, served>>
flowVars == <<req, sent, served>>

NoQuery == [op |-> "none", account |-> NoAccount]
Unparsable == [op |-> "unparsable", account |-> NoAccount]     \* the parser rejects it
NoRequest == [path |-> "other", method |-> "GET", place |-> "url", query |-> NoQuery,
              header |-> NoHeader]
Nothing == [query |-> <<>>, tenant |-> NoHeader]

\* What a token and a request can hold.
ASSUME RequestsAssumption ==
  /\ MaxRequests \in Nat
  /\ \A t \in Tokens : t.groups \subseteq Groups
  /\ \A r \in Requests : r.query \in Query \cup {NoQuery, Unparsable}
  /\ \A r \in Requests : r.path \in Paths /\ r.method \in Methods

Places == {"idle", "load", "evict", "verify", "fresh", "fetch", "body", "fill", "found", "claims",
           "denied", "process", "forward"}

\* The types of the variables, the places where a handler can be among them.
GatewayTypeOK ==
  /\ AuthTypeOK
  /\ pc \in [Handlers -> Places]
  /\ req \in [Handlers -> Requests \cup {NoRequest}]
  /\ served \in 0..MaxRequests
  /\ \A h \in Handlers : sent[h] # Nothing => pc[h] = "forward"

Init ==
  /\ AuthInit
  /\ pc = [h \in Handlers |-> "idle"]
  /\ req = [h \in Handlers |-> NoRequest] /\ sent = [h \in Handlers |-> Nothing]
  /\ served = 0

-----------------------------------------------------------------------------
\* Mutant: what was forwarded is kept for the next request.
RespondOnly(h) ==
  /\ req' = [req EXCEPT ![h] = NoRequest] /\ token' = [token EXCEPT ![h] = NoToken]
  /\ excused' = [excused EXCEPT ![h] = FALSE]
  /\ Goto(h, "idle")
  /\ UNCHANGED <<worldVars, cacheVars, deadline, got, sent>>

\* writeError or writeResponse, and recordMetrics.
Respond(h) ==
  /\ sent' = [sent EXCEPT ![h] = Nothing] /\ req' = [req EXCEPT ![h] = NoRequest]
  /\ token' = [token EXCEPT ![h] = NoToken] /\ excused' = [excused EXCEPT ![h] = FALSE]
  /\ Goto(h, "idle")
  /\ UNCHANGED <<worldVars, cacheVars, deadline, got>>

\* ServeHTTP with extractToken.
ServeHTTP(h, t) ==
  /\ pc[h] = "idle" /\ served < MaxRequests
  /\ served' = served + 1
  /\ \/ t = NoToken /\ Respond(h)
     \/ /\ t # NoToken
        /\ token' = [token EXCEPT ![h] = t]
        /\ Goto(h, "load")
        /\ UNCHANGED <<worldVars, cacheVars, deadline, got, excused, req, sent>>

\* Authenticate has failed.
Deny(h) == pc[h] = "denied" /\ Respond(h) /\ UNCHANGED served

\* processQueryFiltering returns an error.
FilterError(r, ts) ==
  /\ isQueryEndpoint(r.path) /\ r.query # NoQuery
  /\ Len(ts) = 0 \/ r.query = Unparsable

\* processTargetTenant: the tenants that may result.
TargetTenant(r, ts) ==
  IF isWriteEndpoint(r.path, r.method) THEN DetermineTargetTenant(ts, r.header) ELSE {NoHeader}

\* The query that goes out, as buildTargetURL makes it: one in the URL is replaced by
\* the filtered one, one in a form stays in the body.
QuerySent(r, ts) ==
  IF r.query = NoQuery THEN <<>>
  ELSE IF isQueryEndpoint(r.path) /\ r.place = "url" THEN BuildSecureQuery(r.query, ts)
  ELSE <<r.query>>

\* CanAccess and processRequest up to Forward; what the request asks for, and not only
\* its token, is looked at here.
Process(h, r) ==
  LET groups == token[h].groups
      ts == VMTenants(groups)
      refused == \/ ~CanAccess(groups, r.path, r.method)
                 \/ FilterError(r, ts)
                 \/ TargetTenant(r, ts) = {}
  IN /\ pc[h] = "process"
     /\ \/ refused /\ Respond(h)
        \/ /\ ~refused
           /\ \E id \in TargetTenant(r, ts) :
                sent' = [sent EXCEPT ![h] = [query |-> QuerySent(r, ts), tenant |-> id]]
           /\ req' = [req EXCEPT ![h] = r]
           /\ Goto(h, "forward")
           /\ UNCHANGED <<worldVars, cacheVars, deadline, got, excused, token>>
     /\ UNCHANGED served

\* Forward returns a response or an error.
Forwarded(h) == pc[h] = "forward" /\ Respond(h) /\ UNCHANGED served

HandlerStep(h) ==
  \/ AuthStep(h) /\ UNCHANGED flowVars
  \/ Deny(h) \/ (\E r \in Requests : Process(h, r)) \/ Forwarded(h)

Next ==
  /\ ~crashed
  /\ \/ \E h \in Handlers : HandlerStep(h) \/ \E t \in Tokens \cup {NoToken} : ServeHTTP(h, t)
     \/ (Tick \/ CleanupCache \/ \E k \in Kids : Withdraw(k)) /\ UNCHANGED flowVars

Spec == Init /\ [][Next]_vars

-----------------------------------------------------------------------------
\* Whichever of two fetches stores its keys last, a token whose key is withdrawn is no
\* longer accepted when the client's timeout and the two times to live have passed one
\* after the other, but for one moment: when the keys are next replaced, however late,
\* a handler may have found the key in the old cache and go on with the new cacheTime,
\* and the user is then cached once more.
WithdrawnKeyFades ==
  \A h \in Handlers :
    pc[h] = "process" /\ algorithm = "RS256" /\ token[h].kid \notin published
      => \/ now <= withdrawn + Timeout + (JwksTTL - 1) + (TokenTTL - 1)
         \/ now <= renewed + (TokenTTL - 1)

\* A token is accepted until it expires and, from the cache, less than tokenTtl longer.
ExpiredTokenFades ==
  \A h \in Handlers : pc[h] = "process" => now <= token[h].exp + (TokenTTL - 1)

\* A good token with a published key is refused only if the keys could not be fetched, or
\* another handler replaced the cache while this one was about to use what it fetched.
GoodTokenAccepted ==
  \A h \in Handlers :
    pc[h] = "denied" /\ token[h].alg = algorithm /\ Verified(token[h])
      /\ (algorithm = "HS256" \/ token[h].kid \in published)
      => excused[h]

\* A query in the URL that names no account is answered from its user's tenants, as far as
\* the rewriting goes: AnsweredFrom has the cases in which that is exact.  One that names
\* an account is forwarded as it is, to be answered from that account.
ForwardedForUser ==
  \A h \in Handlers : pc[h] = "forward" =>
    LET r == req[h]
    IN isQueryEndpoint(r.path) /\ r.place = "url" /\ r.query # NoQuery
         => AnsweredFrom(r.query, sent[h].query, VMTenants(token[h].groups))

\* What is sent to a write endpoint of the gateway is for a tenant to which a mapping of
\* the user's groups grants writing; several mappings, their tenants without duplicates,
\* readOnly and the tenant header have to work together for that.
WrittenWhereGranted ==
  \A h \in Handlers : pc[h] = "forward" /\ isWriteEndpoint(req[h].path, req[h].method)
    => WriteGranted(token[h].groups, sent[h].tenant)
=============================================================================
