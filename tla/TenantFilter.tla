---------------------------- MODULE TenantFilter ----------------------------
(***************************************************************************)
(* The rules that need no state: what services/auth makes of the groups of *)
(* a user, services/access, and services/tenant with its filter strategies.*)
(* A query is a selector, alone or under sum(); a selector may name an     *)
(* account itself.  The series of the backend are told apart by account    *)
(* and project only.                                                       *)
(***************************************************************************)
EXTENDS Naturals, Sequences, FiniteSets

CONSTANTS Accounts, Projects, Groups,
  tenantMaps,      \* tenants.mappings: a sequence of [groups, vmTenants, write]
  Matched          \* Matched[S]: the projects that match the ids in S, joined by "|"
                   \* and taken for a regular expression

VARIABLE useProjectID    \* tenants.filter.labels.useProjectId

\* A project that stands for all the projects of its account.
Wildcards == {".*", ""}
VMTenant == [account : Accounts, project : Projects \cup Wildcards]
Series == [account : Accounts, project : Projects]
NoAccount == "no account"
Query == [op : {"select", "sum"}, account : Accounts \cup {NoAccount}]

\* VMTenant.String.
String(t) == IF t.project = "" THEN <<t.account>> ELSE <<t.account, t.project>>

\* What the configuration may hold.
ASSUME MapsAssumption ==
  tenantMaps \in Seq([groups : SUBSET Groups, vmTenants : Seq(VMTenant), write : BOOLEAN])

\* An id may hold any character, so that nothing relates what it matches to the id.
ASSUME MatchedAssumption == Matched \in [SUBSET Projects -> SUBSET Projects]

-----------------------------------------------------------------------------
\* removeDuplicateVMTenants: the first of each is kept.
removeDuplicateVMTenants(ts) ==
  LET kept[n \in 0..Len(ts)] ==
        IF n = 0 THEN <<>>
        ELSE IF \E i \in 1..n - 1 : String(ts[i]) = String(ts[n]) THEN kept[n - 1]
        ELSE Append(kept[n - 1], ts[n])
  IN kept[Len(ts)]

hasGroupMatch(groups, mapping) == groups \cap mapping.groups # {}

\* determineUserPermissions; one matching mapping without "write" is enough for readOnly.
determineUserPermissions ==
  [groups \in SUBSET Groups |->
     LET matching == {i \in 1..Len(tenantMaps) : hasGroupMatch(groups, tenantMaps[i])}
         granted[n \in 0..Len(tenantMaps)] ==
           IF n = 0 THEN <<>>
           ELSE IF n \in matching THEN granted[n - 1] \o tenantMaps[n].vmTenants
           ELSE granted[n - 1]
     IN [vmTenants |-> removeDuplicateVMTenants(granted[Len(tenantMaps)]),
         readOnly |-> \E i \in matching : ~tenantMaps[i].write]]
VMTenants(groups) == determineUserPermissions[groups].vmTenants
ReadOnly(groups) == determineUserPermissions[groups].readOnly

-----------------------------------------------------------------------------
\* The classes of paths that services/access and the gateway tell apart: "write" is
\* /api/v1/write, "receive" is /write and /receive, "import" is /api/v1/import and /insert/.
\* PUT and DELETE are treated as POST is.
Paths == {"query", "write", "receive", "import", "admin", "metrics", "other"}
Methods == {"GET", "POST", "PATCH"}

isWriteOperation(method, path) ==
  method \in {"POST", "PATCH"} \/ path \in {"admin", "write", "receive"}
isRestrictedPath(path) == path \in {"admin", "metrics"}
\* Mutant: readOnly is not looked at.
CanAccessIfAdmin(groups, path, method) == isRestrictedPath(path) => "admin" \in groups

CanAccess(groups, path, method) ==
  /\ ~(ReadOnly(groups) /\ isWriteOperation(method, path))
  /\ isRestrictedPath(path) => "admin" \in groups

\* The gateway's isQueryEndpoint and isWriteEndpoint.
isQueryEndpoint(path) == path = "query"
isWriteEndpoint(path, method) == method = "POST" /\ path \in {"write", "import"}

NoHeader == <<>>

\* CanAccessTenant: by the account, or by the whole tenant.
CanAccessTenant(ts, id) ==
  \E i \in 1..Len(ts) : id \in {<<ts[i].account>>, String(ts[i])}

\* DetermineTargetTenant: the tenants that may result, none for an error.
DetermineTargetTenant(ts, header) ==
  IF Len(ts) = 0 THEN {}
  ELSE IF header = NoHeader THEN {String(ts[1])}
  ELSE {id \in {header} : CanAccessTenant(ts, id)}

-----------------------------------------------------------------------------
\* optimizeGroups: one group per account, which is a wildcard or has a set of projects;
\* the groups are sorted by account.
AccountsOf(ts) == {ts[i].account : i \in 1..Len(ts)}
IsWildcard(ts, a) == \E i \in 1..Len(ts) : ts[i].account = a /\ ts[i].project \in Wildcards
ProjectIDs(ts, a) == {ts[i].project : i \in {j \in 1..Len(ts) : ts[j].account = a}}
Group(ts, a) ==
  [account |-> a, wildcard |-> IsWildcard(ts, a),
   projects |-> IF IsWildcard(ts, a) THEN {} ELSE ProjectIDs(ts, a)]
optimizeGroups(ts) ==
  LET S == AccountsOf(ts)
      as == CHOOSE f \in [1..Cardinality(S) -> S] : \A i, j \in DOMAIN f : i # j => f[i] # f[j]
  IN [i \in 1..Cardinality(S) |-> Group(ts, as[i])]

\* A selector of the rewritten query: its matchers on account and project, where
\* Projects means that there is none on the project.
Matches(q) ==
  [accounts |-> IF q.account = NoAccount THEN Accounts ELSE {q.account}, projects |-> Projects]

\* The matcher on the project: one id is compared, several are a regular expression.
ProjectMatcher(ids) == IF \E p \in ids : ids = {p} THEN ids ELSE Matched[ids]

\* Mutant: the projects of the group are not injected.
injectAccount(q, g) ==
  IF q.account # NoAccount THEN Matches(q)
  ELSE [accounts |-> {g.account}, projects |-> Projects]

\* injectTenantToVectorSelector; a selector that has an account is left alone.
injectTenant(q, g) ==
  IF q.account # NoAccount THEN Matches(q)
  ELSE [accounts |-> {g.account},
        projects |-> IF useProjectID /\ ~g.wildcard THEN ProjectMatcher(g.projects) ELSE Projects]

\* addSingleTenantFilter of the PromQL injector, for a user with one tenant.
addSingleTenantFilter(q, t) ==
  IF q.account # NoAccount THEN Matches(q)
  ELSE [accounts |-> {t.account},
        projects |-> IF useProjectID /\ t.project \notin Wildcards THEN {t.project} ELSE Projects]

\* BuildSecureQuery: the rewritten query, as the sequence of what "or" connects; the
\* operators of the query are repeated around each selector.
BuildSecureQuery(q, ts) ==
  IF Len(ts) = 1 THEN <<[op |-> q.op, sel |-> addSingleTenantFilter(q, ts[1])]>>
  ELSE LET gs == optimizeGroups(ts)
       IN [i \in 1..Len(gs) |-> [op |-> q.op, sel |-> injectTenant(q, gs[i])]]

-----------------------------------------------------------------------------
\* What the backend answers (PromQL, external): samples with their labels and the
\* series they are computed from.
Selected(sel) == {s \in Series : s.account \in sel.accounts /\ s.project \in sel.projects}
Evaluate(op, ss) ==
  CASE op = "select" -> {[labels |-> {s}, of |-> {s}] : s \in ss}
    [] op = "sum" -> IF ss = {} THEN {} ELSE {[labels |-> {}, of |-> ss]}

\* PromQL's or takes a sample from the right only if the left has none of its labels.
Answer(parts) ==
  LET part[i \in 1..Len(parts)] == Evaluate(parts[i].op, Selected(parts[i].sel))
  IN UNION {{x \in part[i] : \A j \in 1..i - 1 : \A y \in part[j] : y.labels # x.labels}
              : i \in 1..Len(parts)}

\* The series that the mappings give the user.
Allowed(ts) ==
  {s \in Series :
     \E i \in 1..Len(ts) : /\ ts[i].account = s.account
                           /\ ~useProjectID \/ ts[i].project \in Wildcards \cup {s.project}}

\* The ids that end up in one regular expression match themselves and nothing else.
PlainIDs(ts) ==
  useProjectID => \A a \in AccountsOf(ts) :
    ~IsWildcard(ts, a) => ProjectMatcher(ProjectIDs(ts, a)) = ProjectIDs(ts, a)

\* A query that names an account is answered from that account, whoever the user is.
\* Any other is answered from the accounts of the user's tenants and, with plain ids, from
\* exactly the series of these tenants if it keeps their labels; a sum is only the sum
\* over one of the accounts.
AnsweredFrom(q, parts, ts) ==
  LET answer == Answer(parts)
  IN IF q.account # NoAccount
     THEN answer = Evaluate(q.op, {s \in Series : s.account = q.account})
     ELSE /\ \A x \in answer : \A s \in x.of : s.account \in AccountsOf(ts)
          /\ PlainIDs(ts) =>
               \/ q.op = "select" /\ answer = Evaluate("select", Allowed(ts))
               \/ q.op = "sum" /\ \E a \in AccountsOf(ts) :
                    answer = Evaluate("sum", {s \in Allowed(ts) : s.account = a})

\* A mapping of one of the groups lets them write to the tenant, or to its account.
WriteGranted(groups, id) ==
  \E m \in 1..Len(tenantMaps) :
    /\ hasGroupMatch(groups, tenantMaps[m]) /\ tenantMaps[m].write
    /\ CanAccessTenant(tenantMaps[m].vmTenants, id)
=============================================================================
