------------------------------ MODULE MCGateway -----------------------------
(***************************************************************************)
(* Gateway for model checking: two accounts with four projects, of which   *)
(* one has an id that matches others, three mappings that overlap, tokens  *)
(* that are good, that expire early and that are not yet valid, and a      *)
(* request of each kind.                                                   *)
(***************************************************************************)
EXTENDS Gateway, TLC

HandlerSymmetry == Permutations(Handlers)

Tenant(a, p) == [account |-> a, project |-> p]
MCMaps ==
  <<[groups |-> {"dev", "ops"}, vmTenants |-> <<Tenant("a", "p1"), Tenant("a", "q")>>, write |-> TRUE],
    [groups |-> {"ops"}, vmTenants |-> <<Tenant("b", ".*"), Tenant("a", "p1")>>, write |-> TRUE],
    [groups |-> {"view"}, vmTenants |-> <<Tenant("b", "q"), Tenant("a", "p.")>>, write |-> FALSE]>>
MCMatched == [S \in SUBSET Projects |-> IF "p." \in S THEN S \cup {"p1", "p2"} ELSE S]

Good == [alg |-> "RS256", kid |-> "k1", sound |-> TRUE, nbf |-> 0, exp |-> 9, sub |-> TRUE,
         groups |-> {"dev"}]
Short == [Good EXCEPT !.exp = 1, !.kid = "k2", !.groups = {"dev", "view"}]
Secret == [Good EXCEPT !.alg = "HS256", !.kid = "none", !.nbf = 1, !.exp = 2,
                       !.groups = {"ops", "admin"}]
MCTokens == {Good, Short, Secret}

Select == [op |-> "select", account |-> NoAccount]
Get == [path |-> "query", method |-> "GET", place |-> "url", query |-> Select, header |-> NoHeader]
Post == [Get EXCEPT !.path = "write", !.method = "POST", !.query = NoQuery]
MCRequests ==
  {Get, [Get EXCEPT !.query.op = "sum"], [Get EXCEPT !.query = Unparsable],
   [Get EXCEPT !.query.account = "b"], [Get EXCEPT !.method = "POST", !.place = "form"],
   Post, [Post EXCEPT !.header = <<"b">>], [Post EXCEPT !.header = <<"a", "q">>],
   [Post EXCEPT !.path = "import"], [Post EXCEPT !.path = "receive"],
   [Post EXCEPT !.method = "PATCH"], [Post EXCEPT !.path = "admin"],
   [Get EXCEPT !.path = "metrics", !.query = NoQuery],
   [Get EXCEPT !.path = "other", !.query = NoQuery]}
=============================================================================
