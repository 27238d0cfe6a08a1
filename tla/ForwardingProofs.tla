--------------------------- MODULE ForwardingProofs -------------------------
(***************************************************************************)
(* What a request of a user comes to, for any mappings, tenants and        *)
(* requests.  First the rules without state: the selectors that            *)
(* BuildSecureQuery connects by "or" select the series of the user's       *)
(* tenants, no more and no fewer.  Then ServeHTTP, with any number of      *)
(* handlers: what it forwards follows these rules.                         *)
(***************************************************************************)
EXTENDS Gateway, FiniteSetTheorems, WellFoundedInduction, TLAPS

\* A set of numbers has a least one; the proofs by induction rest on it.
LEMMA LeastExists ==
  ASSUME NEW S, S \subseteq Nat, S # {}
  PROVE  \E m \in S : \A a \in S : m <= a
<1>1. PICK m \in S : \A a \in S : ~(<<a, m>> \in OpToRel(<, Nat))
  BY NatLessThanWellFounded, WFMin, Zenon
<1>2. ASSUME NEW a \in S PROVE m <= a
  <2>1. ~(a < m)
    BY <1>1, Zenon DEF OpToRel
  <2>2. QED
    BY <2>1
<1>3. QED
  BY <1>2, Zenon

\* The groups of optimizeGroups are those of the accounts, one for each.
LEMMA GroupsCover ==
  ASSUME NEW ts \in Seq(VMTenant)
  PROVE  LET gs == optimizeGroups(ts)
         IN /\ Len(gs) \in Nat
            /\ \A i \in 1..Len(gs) : \E a \in AccountsOf(ts) : gs[i] = Group(ts, a)
            /\ \A a \in AccountsOf(ts) : \E i \in 1..Len(gs) : gs[i] = Group(ts, a)
            /\ \A i, j \in 1..Len(gs) : i # j => gs[i].account # gs[j].account
<1> DEFINE S == AccountsOf(ts)
           OneToOne(f) == \A i, j \in DOMAIN f : i # j => f[i] # f[j]
           as == CHOOSE f \in [1..Cardinality(S) -> S] : OneToOne(f)
<1>1. IsFiniteSet(S)
  <2> DEFINE f == [i \in 1..Len(ts) |-> ts[i].account]
  <2>1. Len(ts) \in Nat /\ IsFiniteSet(1..Len(ts))
    BY FS_Interval
  <2>2. f \in Surjection(1..Len(ts), S)
    BY Zenon DEF Surjection, AccountsOf
  <2>3. QED
    BY <2>1, <2>2, FS_Surjection, Zenon
<1>2. Cardinality(S) \in Nat /\ ExistsBijection(1..Cardinality(S), S)
  BY <1>1, FS_CardinalityType, Zenon
<1>3. \E f \in [1..Cardinality(S) -> S] : OneToOne(f)
  <2>1. PICK f \in [1..Cardinality(S) -> S] : IsInjective(f)
    BY <1>2, Zenon DEF ExistsBijection, Bijection, Injection
  <2>2. OneToOne(f)
    BY <2>1, Zenon DEF IsInjective
  <2>3. QED
    BY <2>2, Zenon
<1>4. as \in [1..Cardinality(S) -> S] /\ OneToOne(as)
  BY <1>3, Zenon
<1>5. as \in Surjection(1..Cardinality(S), S)
  <2>1. IsFiniteSet(1..Cardinality(S)) /\ Cardinality(1..Cardinality(S)) = Cardinality(S)
    BY <1>2, FS_Interval
  <2> HIDE DEF as, S
  <2>2. as \in Injection(1..Cardinality(S), S)
    BY <1>4, Zenon DEF Injection, IsInjective
  <2> DEFINE I == 1..Cardinality(S)
  <2>3. as \in Injection(I, S) /\ IsFiniteSet(I) /\ Cardinality(I) = Cardinality(S)
    BY <2>1, <2>2, Zenon
  <2> HIDE DEF I
  <2>4. as \in Surjection(I, S)
    BY <1>1, <2>3, FS_Injection, Zenon
  <2>5. QED
    BY <2>4, Zenon DEF I
<1>6. optimizeGroups(ts) = [i \in 1..Cardinality(S) |-> Group(ts, as[i])]
  BY Zenon DEF optimizeGroups
<1>7. Len(optimizeGroups(ts)) = Cardinality(S)
  BY <1>2, <1>6
<1> HIDE DEF as
<1>8. \A i, j \in 1..Cardinality(S) : i # j => as[i] # as[j]
  BY <1>4, Zenon
<1>9. \A a \in S : \E i \in 1..Cardinality(S) : as[i] = a
  BY <1>5, Zenon DEF Surjection
<1> DEFINE gs == optimizeGroups(ts)
<1>10. Len(gs) = Cardinality(S) /\ Len(gs) \in Nat
  BY <1>2, <1>7, Zenon
<1>11. \A i \in 1..Len(gs) : as[i] \in S /\ gs[i] = Group(ts, as[i])
  BY <1>4, <1>6, <1>7, Zenon
<1> HIDE DEF as, gs, S
<1>12. \A i \in 1..Len(gs) : gs[i].account = as[i]
  <2>1. \A a : Group(ts, a).account = a
    BY Zenon DEF Group
  <2>2. QED
    BY <1>11, <2>1, Zenon
<1>13. \A i \in 1..Len(gs) : \E a \in S : gs[i] = Group(ts, a)
  BY <1>11, Zenon
<1>14. \A a \in S : \E i \in 1..Len(gs) : gs[i] = Group(ts, a)
  BY <1>9, <1>10, <1>11, Zenon
<1>15. \A i, j \in 1..Len(gs) : i # j => gs[i].account # gs[j].account
  BY ZenonT(60), <1>8, <1>10, <1>12
<1>16. QED
  BY <1>10, <1>13, <1>14, <1>15, Zenon DEF gs, S

\* What the rewritten query selects: of each account of the user's tenants every project,
\* or the ones that its matcher on the project lets through.
Reached(ts) ==
  {s \in Series :
     /\ s.account \in AccountsOf(ts)
     /\ useProjectID /\ ~IsWildcard(ts, s.account)
          => s.project \in ProjectMatcher(ProjectIDs(ts, s.account))}

\* These are the series of the user's tenants if the ids are plain.
LEMMA PlainReach ==
  ASSUME NEW ts \in Seq(VMTenant), PlainIDs(ts)
  PROVE  Reached(ts) = Allowed(ts)
<1>1. ASSUME NEW s \in Series, s.account \in AccountsOf(ts),
             useProjectID, ~IsWildcard(ts, s.account)
      PROVE  s.project \in ProjectMatcher(ProjectIDs(ts, s.account)) <=>
               \E i \in 1..Len(ts) : ts[i].account = s.account
                                     /\ ts[i].project \in Wildcards \cup {s.project}
  <2>1. ProjectMatcher(ProjectIDs(ts, s.account)) = ProjectIDs(ts, s.account)
    BY <1>1, Zenon DEF PlainIDs
  <2>2. s.project \in ProjectIDs(ts, s.account) <=>
          \E i \in 1..Len(ts) : ts[i].account = s.account /\ ts[i].project = s.project
    BY Zenon DEF ProjectIDs
  <2>3. \A i \in 1..Len(ts) : ts[i].account = s.account => ts[i].project \notin Wildcards
    BY <1>1, Zenon DEF IsWildcard
  <2>4. QED
    BY <2>1, <2>2, <2>3, Zenon
<1>2. ASSUME NEW s \in Series, ~useProjectID \/ IsWildcard(ts, s.account)
      PROVE  s.account \in AccountsOf(ts) <=>
               \E i \in 1..Len(ts) : /\ ts[i].account = s.account
                                     /\ ~useProjectID \/ ts[i].project \in Wildcards \cup {s.project}
  BY <1>2, Zenon DEF AccountsOf, IsWildcard
<1>3. \A s \in Allowed(ts) : s.account \in AccountsOf(ts)
  BY Zenon DEF Allowed, AccountsOf
<1>4. QED
  BY SMTT(30), <1>1, <1>2, <1>3 DEF Reached, Allowed

\* The matchers of one account's group select what is reached there.
LEMMA GroupSelects ==
  ASSUME NEW ts \in Seq(VMTenant), NEW a \in AccountsOf(ts), NEW q \in Query, q.account = NoAccount
  PROVE  Selected(injectTenant(q, Group(ts, a))) = {s \in Reached(ts) : s.account = a}
BY SMTT(30) DEF Selected, injectTenant, Group, Reached, Series

\* addSingleTenantFilter selects what is reached for a user's only tenant: one id is not
\* taken for a regular expression.
LEMMA SingleSelects ==
  ASSUME NEW ts \in Seq(VMTenant), Len(ts) = 1, NEW q \in Query, q.account = NoAccount
  PROVE  Selected(addSingleTenantFilter(q, ts[1])) = Reached(ts)
<1> DEFINE t == ts[1]
<1>1. AccountsOf(ts) = {t.account} /\ ProjectIDs(ts, t.account) = {t.project}
  BY DEF AccountsOf, ProjectIDs
<1>2. IsWildcard(ts, t.account) <=> t.project \in Wildcards
  BY DEF IsWildcard
<1>3. ProjectMatcher({t.project}) = {t.project}
  BY Zenon DEF ProjectMatcher
<1> HIDE DEF t
<1>4. Selected(addSingleTenantFilter(q, t)) = Reached(ts)
  <2>1. \A s \in Series : s \in Reached(ts) <=>
          s.account = t.account /\ (useProjectID /\ t.project \notin Wildcards => s.project = t.project)
    BY <1>1, <1>2, <1>3, Zenon DEF Reached
  <2>2. \A s \in Series : s \in Selected(addSingleTenantFilter(q, t)) <=>
          s.account = t.account /\ (useProjectID /\ t.project \notin Wildcards => s.project = t.project)
    <3>1. \A s \in Series : s.project \in Projects
      BY SMTT(30) DEF Series
    <3>2. QED
      BY <3>1, Zenon DEF Selected, addSingleTenantFilter
  <2>3. Selected(addSingleTenantFilter(q, t)) \subseteq Series /\ Reached(ts) \subseteq Series
    BY Zenon DEF Selected, Reached
  <2>4. QED
    BY <2>1, <2>2, <2>3, Zenon
<1>5. QED
  BY <1>4, Zenon DEF t

\* The selectors of the rewritten query, of a query that names no account, select
\* together what is reached.
LEMMA FilterReaches ==
  ASSUME NEW ts \in Seq(VMTenant), NEW q \in Query, q.account = NoAccount
  PROVE  LET parts == BuildSecureQuery(q, ts)
         IN UNION {Selected(parts[i].sel) : i \in 1..Len(parts)} = Reached(ts)
<1> DEFINE parts == BuildSecureQuery(q, ts)
<1>1. CASE Len(ts) = 1
  <2>1. parts = <<[op |-> q.op, sel |-> addSingleTenantFilter(q, ts[1])]>>
    BY <1>1, Zenon DEF BuildSecureQuery
  <2>2. Len(parts) = 1 /\ Selected(parts[1].sel) = Reached(ts)
    BY <1>1, <2>1, SingleSelects
  <2> HIDE DEF parts
  <2>3. {Selected(parts[i].sel) : i \in 1..Len(parts)} = {Reached(ts)}
    BY <2>2
  <2>4. QED
    BY <2>3, Zenon DEF parts
<1>2. CASE Len(ts) # 1
  <2> DEFINE gs == optimizeGroups(ts)
  <2>1. parts = [i \in 1..Len(gs) |-> [op |-> q.op, sel |-> injectTenant(q, gs[i])]]
    BY <1>2, Zenon DEF BuildSecureQuery
  <2>2. /\ Len(gs) \in Nat
        /\ \A i \in 1..Len(gs) : \E a \in AccountsOf(ts) : gs[i] = Group(ts, a)
        /\ \A a \in AccountsOf(ts) : \E i \in 1..Len(gs) : gs[i] = Group(ts, a)
    BY GroupsCover, Zenon
  <2> HIDE DEF gs, parts
  <2>3. Len(parts) = Len(gs) /\ \A i \in 1..Len(gs) : parts[i].sel = injectTenant(q, gs[i])
    BY <2>1, <2>2
  <2>4. \A a \in AccountsOf(ts) :
          Selected(injectTenant(q, Group(ts, a))) = {s \in Reached(ts) : s.account = a}
    BY GroupSelects, Zenon
  <2>5. \A s \in Reached(ts) : s.account \in AccountsOf(ts)
    BY Zenon DEF Reached
  <2>6. \A i \in 1..Len(gs) : Selected(parts[i].sel) \subseteq Reached(ts)
    BY SMTT(30), <2>2, <2>3, <2>4
  <2>7. \A s \in Reached(ts) : \E i \in 1..Len(gs) : s \in Selected(parts[i].sel)
    BY SMTT(30), <2>2, <2>3, <2>4, <2>5
  <2>8. UNION {Selected(parts[i].sel) : i \in 1..Len(parts)} = Reached(ts)
    BY SMTT(30), <2>3, <2>6, <2>7
  <2>9. QED
    BY <2>8, Zenon DEF parts
<1>3. QED
  BY <1>1, <1>2, Zenon

\* The selectors of the rewritten query, of a query that names no account, select together
\* only series of the accounts of the user's tenants and, when the project ids that
\* injectTenantToVectorSelector joins into a regular expression are plain, exactly the
\* series of these tenants (BuildSecureQuery).
THEOREM FilterIsExact ==
  ASSUME NEW ts \in Seq(VMTenant), NEW q \in Query, q.account = NoAccount
  PROVE  LET parts == BuildSecureQuery(q, ts)
             selected == UNION {Selected(parts[i].sel) : i \in 1..Len(parts)}
         IN /\ \A s \in selected : s.account \in AccountsOf(ts)
            /\ PlainIDs(ts) => selected = Allowed(ts)
<1>1. \A s \in Reached(ts) : s.account \in AccountsOf(ts)
  BY Zenon DEF Reached
<1>2. PlainIDs(ts) => Reached(ts) = Allowed(ts)
  BY PlainReach, Zenon
<1>3. QED
  BY SMTT(30), <1>1, <1>2, FilterReaches

\* The parts of the rewritten query select series of different accounts.
LEMMA PartsDisjoint ==
  ASSUME NEW ts \in Seq(VMTenant), NEW q \in Query, q.account = NoAccount
  PROVE  LET parts == BuildSecureQuery(q, ts)
         IN /\ Len(parts) \in Nat
            /\ \A i \in 1..Len(parts) : parts[i].op = q.op
            /\ \A i, j \in 1..Len(parts) :
                 i # j => Selected(parts[i].sel) \cap Selected(parts[j].sel) = {}
<1>1. CASE Len(ts) = 1
  BY <1>1 DEF BuildSecureQuery
<1>2. CASE Len(ts) # 1
  <2> DEFINE parts == BuildSecureQuery(q, ts)
             gs == optimizeGroups(ts)
  <2>1. parts = [i \in 1..Len(gs) |-> [op |-> q.op, sel |-> injectTenant(q, gs[i])]]
    BY <1>2, Zenon DEF BuildSecureQuery
  <2>2. /\ Len(gs) \in Nat
        /\ \A i, j \in 1..Len(gs) : i # j => gs[i].account # gs[j].account
    BY GroupsCover, Zenon
  <2> HIDE DEF gs, parts
  <2>3. /\ Len(parts) = Len(gs)
        /\ \A i \in 1..Len(gs) : parts[i].op = q.op /\ parts[i].sel = injectTenant(q, gs[i])
    BY <2>1, <2>2
  <2>4. \A i \in 1..Len(gs) : \A s \in Selected(parts[i].sel) : s.account = gs[i].account
    <3>1. \A g : injectTenant(q, g).accounts = {g.account}
      BY Zenon DEF injectTenant
    <3>2. QED
      BY <2>3, <3>1, Zenon DEF Selected
  <2>5. \A i, j \in 1..Len(gs) :
          i # j => Selected(parts[i].sel) \cap Selected(parts[j].sel) = {}
    BY SMTT(30), <2>2, <2>4
  <2>6. QED
    BY <2>2, <2>3, <2>5, Zenon DEF parts
<1>3. QED
  BY <1>1, <1>2, Zenon

\* A query that keeps the labels of its series is answered from exactly what is reached.
LEMMA SelectAnswers ==
  ASSUME NEW ts \in Seq(VMTenant), NEW q \in Query, q.account = NoAccount, q.op = "select"
  PROVE  Answer(BuildSecureQuery(q, ts)) = Evaluate("select", Reached(ts))
<1> DEFINE parts == BuildSecureQuery(q, ts)
           sample(s) == [labels |-> {s}, of |-> {s}]
           part == [i \in 1..Len(parts) |-> Evaluate(parts[i].op, Selected(parts[i].sel))]
           kept(i) == {x \in part[i] : \A j \in 1..i - 1 : \A y \in part[j] : y.labels # x.labels}
<1>1. UNION {Selected(parts[i].sel) : i \in 1..Len(parts)} = Reached(ts)
  BY FilterReaches, Zenon
<1>2. /\ Len(parts) \in Nat
      /\ \A i \in 1..Len(parts) : parts[i].op = "select"
      /\ \A i, j \in 1..Len(parts) :
           i # j => Selected(parts[i].sel) \cap Selected(parts[j].sel) = {}
  <2>1. /\ Len(parts) \in Nat
        /\ \A i \in 1..Len(parts) : parts[i].op = q.op
        /\ \A i, j \in 1..Len(parts) :
             i # j => Selected(parts[i].sel) \cap Selected(parts[j].sel) = {}
    BY ZenonT(60), PartsDisjoint
  <2> HIDE DEF parts
  <2>2. QED
    BY ZenonT(60), <2>1
<1>3. Answer(parts) = UNION {kept(i) : i \in 1..Len(parts)}
  BY Zenon DEF Answer
<1> HIDE DEF parts
<1>4. \A i \in 1..Len(parts) : part[i] = {sample(s) : s \in Selected(parts[i].sel)}
  BY <1>2, Zenon DEF Evaluate
<1>5. \A s, t : sample(s).labels = sample(t).labels => s = t
  BY Zenon
<1> HIDE DEF part, sample
<1>6. \A i \in 1..Len(parts) : kept(i) = part[i]
  <2> SUFFICES ASSUME NEW i \in 1..Len(parts), NEW x \in part[i],
                      NEW j \in 1..i - 1, NEW y \in part[j]
               PROVE  y.labels # x.labels
    BY Zenon
  <2>1. j \in 1..Len(parts) /\ j # i
    BY <1>2
  <2>2. PICK s \in Selected(parts[i].sel) : x = sample(s)
    BY <1>4, Zenon
  <2>3. PICK t \in Selected(parts[j].sel) : y = sample(t)
    BY SMTT(30), <1>4, <2>1
  <2>4. s # t
    BY <1>2, <2>1, Zenon
  <2>5. QED
    BY SMTT(30), <1>5, <2>2, <2>3, <2>4
<1>7. Evaluate("select", Reached(ts)) = {sample(s) : s \in Reached(ts)}
  BY Zenon DEF Evaluate, sample
<1> HIDE DEF kept
<1>8. QED
  BY SMTT(30), <1>1, <1>3, <1>4, <1>6, <1>7 DEF parts

\* A query that names no account and keeps the labels of its series is answered, with
\* plain project ids, from exactly the series of the user's tenants, although the "or"
\* of BuildSecureQuery may drop samples at the backend.
THEOREM SelectAnsweredExactly ==
  ASSUME NEW ts \in Seq(VMTenant), PlainIDs(ts),
         NEW q \in Query, q.account = NoAccount, q.op = "select"
  PROVE  Answer(BuildSecureQuery(q, ts)) = Evaluate("select", Allowed(ts))
<1>1. Answer(BuildSecureQuery(q, ts)) = Evaluate("select", Reached(ts))
  BY SelectAnswers, Zenon
<1>2. QED
  BY <1>1, PlainReach, Zenon

\* Each part of the rewritten query selects what is reached of one account.
LEMMA PartsByAccount ==
  ASSUME NEW ts \in Seq(VMTenant), Len(ts) # 0, NEW q \in Query, q.account = NoAccount
  PROVE  LET parts == BuildSecureQuery(q, ts)
         IN /\ Len(parts) \in Nat /\ Len(parts) # 0
            /\ \A i \in 1..Len(parts) :
                 /\ parts[i].op = q.op
                 /\ \E a \in AccountsOf(ts) :
                      Selected(parts[i].sel) = {s \in Reached(ts) : s.account = a}
<1> DEFINE parts == BuildSecureQuery(q, ts)
<1>1. 1 \in 1..Len(ts) /\ ts[1].account \in AccountsOf(ts)
  BY DEF AccountsOf
<1>2. CASE Len(ts) = 1
  <2>1. parts = <<[op |-> q.op, sel |-> addSingleTenantFilter(q, ts[1])]>>
    BY <1>2, Zenon DEF BuildSecureQuery
  <2>2. Len(parts) = 1 /\ parts[1].op = q.op /\ Selected(parts[1].sel) = Reached(ts)
    BY <1>2, <2>1, SingleSelects
  <2>3. Reached(ts) = {s \in Reached(ts) : s.account = ts[1].account}
    BY <1>2 DEF Reached, AccountsOf
  <2> HIDE DEF parts
  <2>4. QED
    BY <1>1, <2>2, <2>3 DEF parts
<1>3. CASE Len(ts) # 1
  <2> DEFINE gs == optimizeGroups(ts)
  <2>1. parts = [i \in 1..Len(gs) |-> [op |-> q.op, sel |-> injectTenant(q, gs[i])]]
    BY <1>3, Zenon DEF BuildSecureQuery
  <2>2. /\ Len(gs) \in Nat
        /\ \A i \in 1..Len(gs) : \E a \in AccountsOf(ts) : gs[i] = Group(ts, a)
        /\ \A a \in AccountsOf(ts) : \E i \in 1..Len(gs) : gs[i] = Group(ts, a)
    BY GroupsCover, Zenon
  <2>3. \A a \in AccountsOf(ts) :
          Selected(injectTenant(q, Group(ts, a))) = {s \in Reached(ts) : s.account = a}
    BY GroupSelects, Zenon
  <2> HIDE DEF gs, parts
  <2>4. /\ Len(parts) = Len(gs)
        /\ \A i \in 1..Len(gs) : parts[i].op = q.op /\ parts[i].sel = injectTenant(q, gs[i])
    BY <2>1, <2>2
  <2>5. Len(gs) # 0
    BY <1>1, <2>2
  <2>6. ASSUME NEW i \in 1..Len(gs)
        PROVE  \E a \in AccountsOf(ts) : Selected(parts[i].sel) = {s \in Reached(ts) : s.account = a}
    <3>1. PICK a \in AccountsOf(ts) : gs[i] = Group(ts, a)
      BY <2>2, Zenon
    <3>2. Selected(parts[i].sel) = {s \in Reached(ts) : s.account = a}
      BY <2>3, <2>4, <3>1, Zenon
    <3>3. QED
      BY <3>2, Zenon
  <2>7. QED
    BY <2>2, <2>4, <2>5, <2>6, Zenon DEF parts
<1>4. QED
  BY <1>2, <1>3, Zenon

\* A sum is the sum over what is reached of one account.
LEMMA SumAnswers ==
  ASSUME NEW ts \in Seq(VMTenant), Len(ts) # 0,
         NEW q \in Query, q.account = NoAccount, q.op = "sum"
  PROVE  \E a \in AccountsOf(ts) :
           Answer(BuildSecureQuery(q, ts)) = Evaluate("sum", {s \in Reached(ts) : s.account = a})
<1> DEFINE parts == BuildSecureQuery(q, ts)
           sel(i) == Selected(parts[i].sel)
           sample(ss) == [labels |-> {}, of |-> ss]
           part == [i \in 1..Len(parts) |-> Evaluate(parts[i].op, Selected(parts[i].sel))]
           kept(i) == {x \in part[i] : \A j \in 1..i - 1 : \A y \in part[j] : y.labels # x.labels}
<1>1. /\ Len(parts) \in Nat /\ Len(parts) # 0
      /\ \A i \in 1..Len(parts) :
           /\ parts[i].op = q.op
           /\ \E a \in AccountsOf(ts) : sel(i) = {s \in Reached(ts) : s.account = a}
  BY ZenonT(60), PartsByAccount
<1>2. Answer(parts) = UNION {kept(i) : i \in 1..Len(parts)}
  BY Zenon DEF Answer
<1> HIDE DEF parts
<1>3. \A i \in 1..Len(parts) : part[i] = IF sel(i) = {} THEN {} ELSE {sample(sel(i))}
  BY <1>1, Zenon DEF Evaluate
<1>4. \A ss : Evaluate("sum", ss) = IF ss = {} THEN {} ELSE {sample(ss)}
  BY Zenon DEF Evaluate
<1>5. \A ss, tt : sample(ss).labels = sample(tt).labels
  BY Zenon
<1> HIDE DEF part, sample, sel
<1>6. CASE \A i \in 1..Len(parts) : sel(i) = {}
  <2>1. \A i \in 1..Len(parts) : kept(i) = {}
    BY <1>3, <1>6, Zenon
  <2>2. Answer(parts) = {}
    BY <1>2, <2>1, Zenon
  <2>3. 1 \in 1..Len(parts)
    BY <1>1
  <2>4. PICK a \in AccountsOf(ts) : sel(1) = {s \in Reached(ts) : s.account = a}
    BY <1>1, <2>3, Zenon
  <2>5. Evaluate("sum", {s \in Reached(ts) : s.account = a}) = {}
    BY SMTT(30), <1>4, <1>6, <2>3, <2>4
  <2>6. QED
    BY <2>2, <2>5, Zenon DEF parts
<1>7. CASE \E i \in 1..Len(parts) : sel(i) # {}
  <2> DEFINE Full == {i \in 1..Len(parts) : sel(i) # {}}
  <2>1. PICK m \in Full : \A i \in Full : m <= i
    <3>1. Full \subseteq Nat /\ Full # {}
      BY <1>1, <1>7
    <3> HIDE DEF Full
    <3>2. QED
      BY <3>1, LeastExists, Zenon
  <2>2. m \in 1..Len(parts) /\ sel(m) # {} /\ part[m] = {sample(sel(m))}
    BY <1>3, <2>1, Zenon
  <2>3. ASSUME NEW i \in 1..m - 1 PROVE i \in 1..Len(parts) /\ part[i] = {}
    <3>1. i \in 1..Len(parts) /\ ~(m <= i)
      BY <1>1, <2>2
    <3>2. i \notin Full
      BY <2>1, <3>1, Zenon
    <3>3. QED
      BY <1>3, <3>1, <3>2, Zenon
  <2>4. kept(m) = part[m]
    BY <2>3, Zenon
  <2>5. ASSUME NEW i \in 1..Len(parts), i # m PROVE kept(i) = {}
    <3>1. CASE i < m
      <4>1. i \in 1..m - 1
        BY <1>1, <2>2, <3>1
      <4>2. QED
        BY <2>3, <4>1, Zenon
    <3>2. CASE m < i
      <4>1. m \in 1..i - 1
        BY SMTT(30), <1>1, <2>2, <3>2
      <4>2. \A x \in part[i] : x.labels = sample(sel(m)).labels
        BY <1>3, <1>5, Zenon
      <4>3. sample(sel(m)) \in part[m]
        BY <2>2, Zenon
      <4>4. QED
        BY Zenon, <4>1, <4>2, <4>3
    <3>3. QED
      BY <1>1, <2>2, <2>5, <3>1, <3>2
  <2> HIDE DEF kept
  <2>6. Answer(parts) = {sample(sel(m))}
    BY <1>2, <2>2, <2>4, <2>5
  <2>7. PICK a \in AccountsOf(ts) : sel(m) = {s \in Reached(ts) : s.account = a}
    BY <1>1, <2>2, Zenon
  <2>8. Evaluate("sum", {s \in Reached(ts) : s.account = a}) = {sample(sel(m))}
    BY <1>4, <2>2, <2>7, Zenon
  <2>9. QED
    BY <2>6, <2>8, Zenon DEF parts
<1>8. QED
  BY <1>6, <1>7, Zenon

\* A sum over a query that names no account is, with plain project ids, the sum over the
\* user's series of one account only: the first that has any, because the "or" of
\* BuildSecureQuery drops the sums that follow.
THEOREM SumAnsweredFromOne ==
  ASSUME NEW ts \in Seq(VMTenant), Len(ts) # 0, PlainIDs(ts),
         NEW q \in Query, q.account = NoAccount, q.op = "sum"
  PROVE  \E a \in AccountsOf(ts) :
           Answer(BuildSecureQuery(q, ts)) = Evaluate("sum", {s \in Allowed(ts) : s.account = a})
<1>1. Reached(ts) = Allowed(ts)
  BY PlainReach, Zenon
<1>2. PICK a \in AccountsOf(ts) :
        Answer(BuildSecureQuery(q, ts)) = Evaluate("sum", {s \in Reached(ts) : s.account = a})
  BY SumAnswers, Zenon
<1>3. QED
  BY <1>1, <1>2, Zenon

\* Whatever the ids are, an answer is computed from the accounts of the user's tenants.
LEMMA AnswerWithinAccounts ==
  ASSUME NEW ts \in Seq(VMTenant), Len(ts) # 0, NEW q \in Query, q.account = NoAccount
  PROVE  \A x \in Answer(BuildSecureQuery(q, ts)) : \A s \in x.of : s.account \in AccountsOf(ts)
<1>1. \A s \in Reached(ts) : s.account \in AccountsOf(ts)
  BY Zenon DEF Reached
<1>2. \A ss : \A x \in Evaluate("select", ss) \cup Evaluate("sum", ss) : x.of \subseteq ss
  BY SMTT(30) DEF Evaluate
<1>3. CASE q.op = "select"
  <2>1. Answer(BuildSecureQuery(q, ts)) = Evaluate("select", Reached(ts))
    BY <1>3, SelectAnswers, Zenon
  <2>2. QED
    BY <1>1, <1>2, <2>1, Zenon
<1>4. CASE q.op = "sum"
  <2>1. PICK a \in AccountsOf(ts) :
          Answer(BuildSecureQuery(q, ts)) = Evaluate("sum", {s \in Reached(ts) : s.account = a})
    BY <1>4, SumAnswers, Zenon
  <2>2. QED
    BY <1>1, <1>2, <2>1, Zenon
<1>5. q.op \in {"select", "sum"}
  BY SMTT(30) DEF Query
<1>6. QED
  BY <1>3, <1>4, <1>5, Zenon

\* A query that names an account is left alone by injectTenantToVectorSelector and by
\* injectTenantLabelsToVectorSelector, and to repeat it changes nothing.
LEMMA NamedAnswered ==
  ASSUME NEW ts \in Seq(VMTenant), Len(ts) # 0, NEW q \in Query, q.account # NoAccount
  PROVE  Answer(BuildSecureQuery(q, ts)) =
           Evaluate(q.op, {s \in Series : s.account = q.account})
<1> DEFINE parts == BuildSecureQuery(q, ts)
           all == Evaluate(q.op, Selected(Matches(q)))
           part == [i \in 1..Len(parts) |-> Evaluate(parts[i].op, Selected(parts[i].sel))]
           kept(i) == {x \in part[i] : \A j \in 1..i - 1 : \A y \in part[j] : y.labels # x.labels}
<1>1. /\ Len(parts) \in Nat /\ Len(parts) # 0
      /\ \A i \in 1..Len(parts) : parts[i].op = q.op /\ parts[i].sel = Matches(q)
  <2>1. CASE Len(ts) = 1
    BY <2>1 DEF BuildSecureQuery, addSingleTenantFilter
  <2>2. CASE Len(ts) # 1
    <3> DEFINE gs == optimizeGroups(ts)
    <3>1. parts = [i \in 1..Len(gs) |-> [op |-> q.op, sel |-> injectTenant(q, gs[i])]]
      BY <2>2, Zenon DEF BuildSecureQuery
    <3>2. /\ Len(gs) \in Nat
          /\ \A a \in AccountsOf(ts) : \E i \in 1..Len(gs) : gs[i] = Group(ts, a)
      BY GroupsCover, Zenon
    <3>3. 1 \in 1..Len(ts) /\ ts[1].account \in AccountsOf(ts)
      BY DEF AccountsOf
    <3>4. \A g : injectTenant(q, g) = Matches(q)
      BY Zenon DEF injectTenant
    <3> HIDE DEF gs, parts
    <3>5. Len(parts) = Len(gs) /\ Len(gs) # 0
      BY <3>1, <3>2, <3>3
    <3>6. QED
      BY <3>1, <3>2, <3>4, <3>5
  <2>3. QED
    BY <2>1, <2>2, Zenon
<1>2. Answer(parts) = UNION {kept(i) : i \in 1..Len(parts)}
  BY Zenon DEF Answer
<1> HIDE DEF parts
<1>3. \A i \in 1..Len(parts) : part[i] = all
  BY <1>1, Zenon
<1> HIDE DEF part, all
<1>4. 1 \in 1..Len(parts) /\ kept(1) = all
  BY <1>1, <1>3
<1>5. \A i \in 1..Len(parts) : kept(i) \subseteq all
  BY <1>3, Zenon
<1> HIDE DEF kept
<1>6. Answer(parts) = all
  BY <1>2, <1>4, <1>5, Zenon
<1>7. Selected(Matches(q)) = {s \in Series : s.account = q.account}
  BY SMTT(30) DEF Selected, Matches, Series
<1>8. QED
  BY <1>6, <1>7, Zenon DEF parts, all
-----------------------------------------------------------------------------
\* removeDuplicateVMTenants returns some of the tenants it is given.
LEMMA DuplicatesType ==
  ASSUME NEW X, NEW ts \in Seq(X)
  PROVE  removeDuplicateVMTenants(ts) \in Seq(X)
<1> DEFINE Step(f, n) == IF n = 0 THEN <<>>
                         ELSE IF \E i \in 1..n - 1 : String(ts[i]) = String(ts[n]) THEN f[n - 1]
                         ELSE Append(f[n - 1], ts[n])
           Kept(f, m) == f = [n \in 0..m |-> Step(f, n)]
           N == Len(ts)
<1>1. N \in Nat /\ \A n \in 1..N : ts[n] \in X
  OBVIOUS
<1>2. \A f, n : f \in Seq(X) /\ n \in 1..N => Append(f, ts[n]) \in Seq(X)
  BY <1>1
<1> HIDE DEF N
<1>3. \A f, m : m \in 0..N /\ Kept(f, m) => f \in [0..m -> Seq(X)]
  <2> SUFFICES ASSUME NEW f, NEW m \in 0..N, Kept(f, m), f \notin [0..m -> Seq(X)]
               PROVE  FALSE
    BY Zenon
  <2> DEFINE Bad == {n \in 0..m : f[n] \notin Seq(X)}
  <2>1. Bad # {} /\ Bad \subseteq Nat
    <3> HIDE DEF Step
    <3>1. DOMAIN f = 0..m /\ f = [n \in 0..m |-> f[n]]
      BY Zenon
    <3>2. QED
      BY <1>1, <3>1
  <2>2. PICK n \in Bad : \A a \in Bad : n <= a
    BY <2>1, LeastExists, Zenon
  <2>3. f[n] = Step(f, n)
    BY <2>2, Zenon
  <2>4. n # 0
    BY <2>2, <2>3
  <2>5. n - 1 \in 0..m /\ ~(n <= n - 1) /\ n \in 1..N
    BY <1>1, <2>2, <2>4
  <2>6. f[n - 1] \in Seq(X)
    BY SMTT(30), <2>2, <2>5
  <2>7. Step(f, n) \in Seq(X)
    BY <1>2, <2>4, <2>5, <2>6, Zenon
  <2>8. QED
    BY <2>2, <2>3, <2>7, Zenon
<1>4. \E f : Kept(f, N)
  <2> DEFINE Bad == {m \in 0..N : ~\E f : Kept(f, m)}
  <2> HIDE DEF Step, Kept
  <2> SUFFICES ASSUME ~\E f : Kept(f, N) PROVE FALSE
    BY Zenon
  <2>1. PICK m \in Bad : \A a \in Bad : m <= a
    <3>1. N \in Bad /\ Bad \subseteq Nat
      BY <1>1
    <3> HIDE DEF Bad
    <3>2. QED
      BY <3>1, LeastExists, Zenon
  <2>2. m # 0
    <3> DEFINE g == [n \in 0..0 |-> <<>>]
    <3>1. \A n \in 0..0 : Step(g, n) = <<>>
      BY DEF Step
    <3>2. Kept(g, 0)
      BY <3>1, Zenon DEF Kept
    <3> HIDE DEF g
    <3>3. QED
      BY <2>1, <3>2, Zenon
  <2>3. m - 1 \in 0..N /\ ~(m <= m - 1) /\ m \in 1..N
    BY <1>1, <2>1, <2>2
  <2>4. PICK g : Kept(g, m - 1)
    BY <2>1, <2>3, Zenon
  <2> DEFINE h == [n \in 0..m |-> IF n = m THEN Step(g, m) ELSE g[n]]
  <2>5. ASSUME NEW n \in 0..m PROVE h[n] = Step(h, n)
    <3>1. n # 0 => n - 1 \in 0..m /\ n - 1 # m /\ n - 1 \in 0..m - 1
      BY <2>3
    <3>2. n # 0 => h[n - 1] = g[n - 1]
      BY SMTT(30), <3>1
    <3>3. Step(h, n) = Step(g, n)
      BY <3>2 DEF Step
    <3>4. n # m => g[n] = Step(g, n)
      <4>1. \A i \in 0..m - 1 : g[i] = Step(g, i)
        BY SMTT(30), <2>4 DEF Kept
      <4>2. n # m => n \in 0..m - 1
        BY <2>3
      <4>3. QED
        BY <4>1, <4>2, Zenon
    <3>5. QED
      BY <3>3, <3>4, Zenon
  <2>6. Kept(h, m)
    <3> DEFINE k == [n \in 0..m |-> Step(h, n)]
    <3>1. \A n \in 0..m : h[n] = k[n]
      BY <2>5, Zenon
    <3>2. QED
      BY <3>1, Zenon DEF Kept
  <2> HIDE DEF h
  <2>7. QED
    BY <2>1, <2>6, Zenon
<1>5. removeDuplicateVMTenants(ts) = (CHOOSE f : Kept(f, N))[N]
  BY SMTT(30) DEF removeDuplicateVMTenants, N
<1> DEFINE kept == CHOOSE f : Kept(f, N)
<1>6. Kept(kept, N)
  BY <1>4, Zenon
<1> HIDE DEF kept, Kept
<1>7. kept \in [0..N -> Seq(X)]
  BY SMTT(30), <1>1, <1>3, <1>6
<1>8. QED
  BY <1>1, <1>5, <1>7 DEF kept

\* determineUserPermissions gives a user tenants of the mappings that match.
LEMMA VMTenantsFrom ==
  ASSUME NEW groups \in SUBSET Groups, NEW X,
         \A m \in 1..Len(tenantMaps) :
           hasGroupMatch(groups, tenantMaps[m]) => tenantMaps[m].vmTenants \in Seq(X)
  PROVE  VMTenants(groups) \in Seq(X)
<1> DEFINE N == Len(tenantMaps)
           matching == {i \in 1..N : hasGroupMatch(groups, tenantMaps[i])}
           Step(f, n) == IF n = 0 THEN <<>>
                         ELSE IF n \in matching THEN f[n - 1] \o tenantMaps[n].vmTenants
                         ELSE f[n - 1]
           Granted(f, m) == f = [n \in 0..m |-> Step(f, n)]
<1>1. N \in Nat /\ \A n \in matching : tenantMaps[n].vmTenants \in Seq(X)
  <2>1. N \in Nat
    BY MapsAssumption
  <2>2. QED
    BY <2>1, Zenon
<1>2. VMTenants(groups) = removeDuplicateVMTenants((CHOOSE f : Granted(f, N))[N])
  BY Zenon DEF VMTenants, determineUserPermissions
<1>3. \A f \in Seq(X), n \in matching : f \o tenantMaps[n].vmTenants \in Seq(X)
  BY <1>1
<1> HIDE DEF N, matching
<1>4. \E f : Granted(f, N)
  <2> DEFINE Bad == {m \in 0..N : ~\E f : Granted(f, m)}
  <2> HIDE DEF Step, Granted
  <2> SUFFICES ASSUME ~\E f : Granted(f, N) PROVE FALSE
    BY Zenon
  <2>1. PICK m \in Bad : \A a \in Bad : m <= a
    <3>1. N \in Bad /\ Bad \subseteq Nat
      BY <1>1
    <3> HIDE DEF Bad
    <3>2. QED
      BY <3>1, LeastExists, Zenon
  <2>2. m # 0
    <3> DEFINE g == [n \in 0..0 |-> <<>>]
    <3>1. \A n \in 0..0 : Step(g, n) = <<>>
      BY DEF Step
    <3>2. Granted(g, 0)
      BY <3>1, Zenon DEF Granted
    <3> HIDE DEF g
    <3>3. QED
      BY <2>1, <3>2, Zenon
  <2>3. m - 1 \in 0..N /\ ~(m <= m - 1) /\ m \in 1..N
    BY <1>1, <2>1, <2>2
  <2>4. PICK g : Granted(g, m - 1)
    BY <2>1, <2>3, Zenon
  <2> DEFINE h == [n \in 0..m |-> IF n = m THEN Step(g, m) ELSE g[n]]
  <2>5. ASSUME NEW n \in 0..m PROVE h[n] = Step(h, n)
    <3>1. n # 0 => n - 1 \in 0..m /\ n - 1 # m /\ n - 1 \in 0..m - 1
      BY <2>3
    <3>2. n # 0 => h[n - 1] = g[n - 1]
      BY SMTT(30), <3>1
    <3>3. Step(h, n) = Step(g, n)
      BY <3>2 DEF Step
    <3>4. n # m => g[n] = Step(g, n)
      <4>1. \A i \in 0..m - 1 : g[i] = Step(g, i)
        BY <2>4, Zenon DEF Granted
      <4>2. n # m => n \in 0..m - 1
        BY <2>3
      <4>3. QED
        BY <4>1, <4>2, Zenon
    <3>5. QED
      BY <3>3, <3>4, Zenon
  <2>6. Granted(h, m)
    <3> DEFINE k == [n \in 0..m |-> Step(h, n)]
    <3>1. \A n \in 0..m : h[n] = k[n]
      BY SMTT(30), <2>5
    <3>2. QED
      BY <3>1, Zenon DEF Granted
  <2> HIDE DEF h
  <2>7. QED
    BY <2>1, <2>6, Zenon
<1> DEFINE granted == CHOOSE f : Granted(f, N)
<1>5. Granted(granted, N)
  BY <1>4, Zenon
<1> HIDE DEF granted
<1>6. \A n \in 0..N : granted[n] \in Seq(X)
  <2> DEFINE Bad == {n \in 0..N : granted[n] \notin Seq(X)}
  <2> SUFFICES ASSUME Bad # {} PROVE FALSE
    BY Zenon
  <2>1. PICK n \in Bad : \A a \in Bad : n <= a
    <3>1. Bad \subseteq Nat
      BY <1>1
    <3> HIDE DEF Bad
    <3>2. QED
      BY <3>1, LeastExists, Zenon
  <2>2. granted[n] = Step(granted, n) /\ n \in 0..N
    BY <1>5, <2>1, Zenon
  <2>3. n # 0
    <3>1. Step(granted, 0) = <<>> /\ <<>> \in Seq(X)
      OBVIOUS
    <3> HIDE DEF Step, Granted
    <3>2. QED
      BY <2>1, <2>2, <3>1, Zenon
  <2>4. n - 1 \in 0..N /\ ~(n <= n - 1) /\ n \in 1..N
    BY SMTT(30), <1>1, <2>2, <2>3
  <2>5. granted[n - 1] \in Seq(X)
    BY SMTT(30), <2>1, <2>4
  <2>6. Step(granted, n) \in Seq(X)
    BY <1>3, <2>3, <2>5, Zenon
  <2>7. QED
    BY <2>1, <2>2, <2>6, Zenon
<1>7. granted[N] \in Seq(X)
  BY SMTT(30), <1>1, <1>6
<1>8. QED
  BY <1>2, <1>7, DuplicatesType, Zenon DEF granted

\* They are tenants.
LEMMA VMTenantsType ==
  ASSUME NEW groups \in SUBSET Groups
  PROVE  VMTenants(groups) \in Seq(VMTenant)
<1>1. \A n \in 1..Len(tenantMaps) : tenantMaps[n].vmTenants \in Seq(VMTenant)
  <2> DEFINE Mapping == [groups : SUBSET Groups, vmTenants : Seq(VMTenant), write : BOOLEAN]
  <2>1. \A x \in Mapping : x.vmTenants \in Seq(VMTenant)
    BY Zenon
  <2>2. tenantMaps \in Seq(Mapping)
    BY SMTT(30), MapsAssumption
  <2> HIDE DEF Mapping
  <2>3. QED
    BY <2>1, <2>2
<1>2. QED
  BY <1>1, VMTenantsFrom, Zenon
-----------------------------------------------------------------------------
SentInv ==
  /\ sent = [h \in Handlers |-> sent[h]]
  /\ \A h \in Handlers : pc[h] # "idle" => token[h] \in Tokens

\* Only forwarding leaves something in sent, and ending a request clears it.
LEMMA TypesStep ==
  ASSUME GatewayTypeOK, SentInv, [Next]_vars
  PROVE  GatewayTypeOK' /\ SentInv'
<1> USE TimesAssumption, RequestsAssumption DEF GatewayTypeOK, AuthTypeOK, SentInv, Never
<1>1. ASSUME NEW h \in Handlers, Respond(h), UNCHANGED served \/ (served < MaxRequests /\ served' = served + 1)
      PROVE  GatewayTypeOK' /\ SentInv'
  BY SMTT(30), <1>1 DEF Respond, Goto, worldVars, cacheVars, Places
<1>2. ASSUME NEW h \in Handlers, NEW t \in Tokens \cup {NoToken}, ServeHTTP(h, t), ~Respond(h)
      PROVE  GatewayTypeOK' /\ SentInv'
  BY SMTT(30), <1>2 DEF ServeHTTP, Goto, worldVars, cacheVars, Places
<1>3. ASSUME NEW h \in Handlers, NEW r \in Requests, Process(h, r), ~Respond(h)
      PROVE  GatewayTypeOK' /\ SentInv'
  <2>1. PICK id \in TargetTenant(r, VMTenants(token[h].groups)) :
          /\ sent' = [sent EXCEPT ![h] =
               [query |-> QuerySent(r, VMTenants(token[h].groups)), tenant |-> id]]
          /\ req' = [req EXCEPT ![h] = r] /\ pc' = [pc EXCEPT ![h] = "forward"]
          /\ pc[h] = "process"
          /\ UNCHANGED <<worldVars, cacheVars, deadline, got, excused, token, served>>
    <3> HIDE DEF GatewayTypeOK, AuthTypeOK, SentInv
    <3>1. QED
      BY SMTT(30), <1>3 DEF Process, Goto
  <2>2. QED
    BY SMTT(30), <2>1 DEF worldVars, cacheVars, Places
<1>4. ASSUME NEW h \in Handlers, LoadUser(h) \/ EvictUser(h) \/ StoreUser(h), UNCHANGED flowVars
      PROVE  GatewayTypeOK' /\ SentInv'
  BY SMTT(30), <1>4 DEF LoadUser, EvictUser, StoreUser, flowVars, worldVars,
     fetcherVars, Goto, Places
<1>5. ASSUME NEW h \in Handlers, FindKey(h) \/ CheckAge(h) \/ FindFetchedKey(h),
             UNCHANGED flowVars
      PROVE  GatewayTypeOK' /\ SentInv'
  <2>1. crashed' \in BOOLEAN
    BY <1>5, Zenon DEF FindKey, CheckAge, FindFetchedKey, MayCrash
  <2>2. /\ UNCHANGED <<worldVars, keys, cacheTime, renewed, got, excused, userCache, token,
                       flowVars>>
        /\ deadline' = deadline \/ deadline' = [deadline EXCEPT ![h] = now + Timeout]
    BY <1>5, Zenon DEF FindKey, CheckAge, StartFetch, FindFetchedKey, fetcherVars
  <2>3. PICK place \in {"claims", "denied", "fetch", "fresh"} : pc' = [pc EXCEPT ![h] = place]
    <3>1. CASE FindKey(h) \/ CheckAge(h)
      BY <3>1, Zenon DEF FindKey, CheckAge, StartFetch, Goto
    <3>2. CASE FindFetchedKey(h)
      BY ZenonT(60), <3>2 DEF FindFetchedKey, Goto
    <3>3. QED
      BY <1>5, <3>1, <3>2, Zenon
  <2>4. pc[h] \in {"verify", "fresh", "found"}
    BY SMTT(30), <1>5 DEF FindKey, CheckAge, FindFetchedKey
  <2>5. QED
    BY SMTT(30), <2>1, <2>2, <2>3, <2>4 DEF flowVars, worldVars, Places
<1>6. ASSUME NEW h \in Handlers, FetchAnswered(h) \/ FetchFails(h) \/ NewKeys(h), UNCHANGED flowVars
      PROVE  GatewayTypeOK' /\ SentInv'
  <2>1. CASE FetchAnswered(h) \/ FetchFails(h)
    <3>1. excused' \in [Handlers -> BOOLEAN]
      BY <2>1, Zenon DEF FetchAnswered, FetchFails
    <3>2. CASE FetchAnswered(h)
      BY SMTT(30), <1>6, <3>1, <3>2 DEF FetchAnswered, flowVars, worldVars, Goto, Places
    <3>3. CASE FetchFails(h)
      BY SMTT(30), <1>6, <3>1, <3>3 DEF FetchFails, flowVars, worldVars, Goto, Places
    <3>4. QED
      BY SMTT(30), <2>1, <3>2, <3>3
  <2>2. CASE NewKeys(h)
    <3>1. excused' \in [Handlers -> BOOLEAN]
      BY ZenonT(60), <2>2 DEF NewKeys
    <3>2. QED
      BY SMTT(30), <1>6, <2>2, <3>1 DEF NewKeys, flowVars, worldVars, Goto, Places
  <2>3. QED
    BY SMTT(30), <1>6, <2>1, <2>2
<1>7. ASSUME NEW h \in Handlers, StoreKey(h), UNCHANGED flowVars
      PROVE  GatewayTypeOK' /\ SentInv'
  <2>1. crashed' \in BOOLEAN
    BY <1>7, Zenon DEF StoreKey, MayCrash
  <2>2. QED
    BY SMTT(30), <1>7, <2>1 DEF StoreKey, flowVars, worldVars, Goto, Places
<1>8. CASE (Tick \/ CleanupCache \/ \E k \in Kids : Withdraw(k)) /\ UNCHANGED flowVars
  BY SMTT(30), <1>8 DEF Tick, CleanupCache, Withdraw, flowVars, worldVars, fetcherVars
<1>9. CASE UNCHANGED vars
  BY <1>9, Zenon DEF vars, authVars
<1>10. QED
  BY ZenonT(60), <1>1, <1>2, <1>3, <1>4, <1>5, <1>6, <1>7, <1>8, <1>9
  DEF Next, HandlerStep, AuthStep, Deny, Forwarded, Process, ServeHTTP

\* At first nothing is sent and no handler has a token.
LEMMA TypesInit == Init => GatewayTypeOK /\ SentInv
<1> SUFFICES ASSUME Init PROVE GatewayTypeOK /\ SentInv
  BY Zenon
<1>1. useProjectID \in BOOLEAN /\ crashed \in BOOLEAN /\ excused \in [Handlers -> BOOLEAN]
  BY Zenon DEF Init, AuthInit
<1>2. AuthTypeOK
  BY <1>1, TimesAssumption DEF Init, AuthInit, AuthTypeOK, Never
<1>3. QED
  BY <1>2, RequestsAssumption DEF Init, AuthInit, GatewayTypeOK, SentInv, Places

\* The types, and that nothing of an earlier request is left in what a handler sends.
THEOREM GatewayTypes == Spec => []GatewayTypeOK
<1>1. GatewayTypeOK /\ SentInv /\ [Next]_vars => GatewayTypeOK' /\ SentInv'
  BY TypesStep, Zenon
<1>2. QED
  BY TypesInit, <1>1, PTL DEF Spec
-----------------------------------------------------------------------------
\* A query that is not refused is answered as AnsweredFrom says.
LEMMA QueryAnswered ==
  ASSUME NEW ts \in Seq(VMTenant), NEW r \in Requests, ~FilterError(r, ts),
         isQueryEndpoint(r.path), r.place = "url", r.query # NoQuery
  PROVE  AnsweredFrom(r.query, QuerySent(r, ts), ts)
<1>1. Len(ts) # 0 /\ r.query \in Query
  BY RequestsAssumption, Zenon DEF FilterError
<1>2. QuerySent(r, ts) = BuildSecureQuery(r.query, ts)
  BY Zenon DEF QuerySent
<1>3. r.query.op \in {"select", "sum"}
  BY SMTT(30), <1>1 DEF Query
<1>4. CASE r.query.account # NoAccount
  BY <1>1, <1>2, <1>4, NamedAnswered, Zenon DEF AnsweredFrom
<1>5. CASE r.query.account = NoAccount
  <2>1. \A x \in Answer(QuerySent(r, ts)) : \A s \in x.of : s.account \in AccountsOf(ts)
    BY <1>1, <1>2, <1>5, AnswerWithinAccounts, Zenon
  <2>2. PlainIDs(ts) /\ r.query.op = "select" =>
          Answer(QuerySent(r, ts)) = Evaluate("select", Allowed(ts))
    BY <1>1, <1>2, <1>5, SelectAnsweredExactly, Zenon
  <2>3. PlainIDs(ts) /\ r.query.op = "sum" =>
          \E a \in AccountsOf(ts) :
            Answer(QuerySent(r, ts)) = Evaluate("sum", {s \in Allowed(ts) : s.account = a})
    BY <1>1, <1>2, <1>5, SumAnsweredFromOne, Zenon
  <2>4. QED
    BY <1>3, <1>5, <2>1, <2>2, <2>3, Zenon DEF AnsweredFrom
<1>6. QED
  BY <1>4, <1>5, Zenon

\* The tenant that is chosen for a write is one of the user's.
LEMMA TargetIsOwn ==
  ASSUME NEW ts \in Seq(VMTenant), NEW r \in Requests, isWriteEndpoint(r.path, r.method),
         NEW id \in TargetTenant(r, ts)
  PROVE  CanAccessTenant(ts, id)
<1>1. id \in DetermineTargetTenant(ts, r.header) /\ Len(ts) # 0
  BY Zenon DEF TargetTenant, DetermineTargetTenant
<1>2. 1 \in 1..Len(ts)
  BY <1>1
<1>3. id = String(ts[1]) \/ CanAccessTenant(ts, id)
  BY <1>1, Zenon DEF DetermineTargetTenant
<1>4. QED
  BY <1>2, <1>3, Zenon DEF CanAccessTenant

\* A mapping that matches grants it for writing: CanAccess refuses a user with a mapping
\* that does not.
LEMMA TargetGranted ==
  ASSUME NEW groups \in SUBSET Groups, NEW r \in Requests, isWriteEndpoint(r.path, r.method),
         CanAccess(groups, r.path, r.method), NEW id \in TargetTenant(r, VMTenants(groups))
  PROVE  WriteGranted(groups, id)
<1> DEFINE maps == {m \in 1..Len(tenantMaps) : hasGroupMatch(groups, tenantMaps[m])}
           X == UNION {{tenantMaps[m].vmTenants[j] : j \in 1..Len(tenantMaps[m].vmTenants)} : m \in maps}
<1>1. VMTenants(groups) \in Seq(VMTenant)
  BY VMTenantsType, Zenon
<1>2. \A m \in 1..Len(tenantMaps) : tenantMaps[m].vmTenants \in Seq(VMTenant)
  <2> DEFINE Mapping == [groups : SUBSET Groups, vmTenants : Seq(VMTenant), write : BOOLEAN]
  <2>1. \A x \in Mapping : x.vmTenants \in Seq(VMTenant)
    BY Zenon
  <2>2. tenantMaps \in Seq(Mapping)
    BY SMTT(30), MapsAssumption
  <2> HIDE DEF Mapping
  <2>3. QED
    BY <2>1, <2>2
<1>3. ASSUME NEW m \in maps PROVE tenantMaps[m].vmTenants \in Seq(X)
  <2> DEFINE t == tenantMaps[m].vmTenants
  <2>1. t \in Seq(VMTenant) /\ \A j \in 1..Len(t) : t[j] \in X
    <3>1. m \in 1..Len(tenantMaps)
      BY Zenon
    <3>2. ASSUME NEW j \in 1..Len(t) PROVE t[j] \in X
      <4>1. t[j] \in {tenantMaps[m].vmTenants[k] : k \in 1..Len(tenantMaps[m].vmTenants)}
        BY Zenon
      <4> HIDE DEF t, maps
      <4>2. QED
        BY <4>1, Zenon
    <3>3. QED
      BY <1>2, <3>1, <3>2, Zenon
  <2> HIDE DEF t, X
  <2>2. t \in Seq(X)
    BY <2>1
  <2>3. QED
    BY <2>2, Zenon DEF t
<1> HIDE DEF X
<1>4. VMTenants(groups) \in Seq(X)
  BY <1>3, VMTenantsFrom, Zenon
<1>5. PICK i \in 1..Len(VMTenants(groups)) :
        id \in {<<VMTenants(groups)[i].account>>, String(VMTenants(groups)[i])}
  BY <1>1, TargetIsOwn, Zenon DEF CanAccessTenant
<1>6. VMTenants(groups)[i] \in X
  <2> DEFINE ts == VMTenants(groups)
  <2> HIDE DEF ts
  <2>1. ts \in Seq(X) /\ i \in 1..Len(ts)
    BY <1>4, Zenon DEF ts
  <2>2. ts[i] \in X
    BY <2>1
  <2>3. QED
    BY <2>2, Zenon DEF ts
<1>7. PICK m \in maps : \E j \in 1..Len(tenantMaps[m].vmTenants) :
        VMTenants(groups)[i] = tenantMaps[m].vmTenants[j]
  BY <1>6, Zenon DEF X
<1>8. CanAccessTenant(tenantMaps[m].vmTenants, id)
  BY <1>5, <1>7, Zenon DEF CanAccessTenant
<1>9. isWriteOperation(r.method, r.path)
  BY Zenon DEF isWriteEndpoint, isWriteOperation
<1>10. tenantMaps[m].write
  <2>1. ~ReadOnly(groups)
    BY <1>9, Zenon DEF CanAccess
  <2>2. QED
    BY <2>1, Zenon DEF ReadOnly, determineUserPermissions
<1>11. QED
  BY <1>8, <1>10, Zenon DEF WriteGranted

ForwardTypes ==
  /\ req = [h \in Handlers |-> req[h]] /\ sent = [h \in Handlers |-> sent[h]]

\* AnsweredFrom, with the allowed series given and whether the ids are plain.
AnsweredIn(allowed, plain, q, parts, ts) ==
  IF q.account # NoAccount
  THEN Answer(parts) = Evaluate(q.op, {s \in Series : s.account = q.account})
  ELSE /\ \A x \in Answer(parts) : \A s \in x.of : s.account \in AccountsOf(ts)
       /\ plain =>
            \/ q.op = "select" /\ Answer(parts) = Evaluate("select", allowed)
            \/ q.op = "sum" /\ \E a \in AccountsOf(ts) :
                 Answer(parts) = Evaluate("sum", {s \in allowed : s.account = a})

\* A request r of a user with these groups may go out as x.
MayGoOut(allowed, plain, r, groups, x) ==
  /\ isQueryEndpoint(r.path) /\ r.place = "url" /\ r.query # NoQuery
       => AnsweredIn(allowed, plain, r.query, x.query, VMTenants(groups))
  /\ isWriteEndpoint(r.path, r.method) => WriteGranted(groups, x.tenant)

OwnTenants(h) == VMTenants(token[h].groups)
GoesOut(h) ==
  MayGoOut(Allowed(OwnTenants(h)), PlainIDs(OwnTenants(h)), req[h], token[h].groups, sent[h])

\* What ForwardedForUser and WrittenWhereGranted say of each handler.
ForwardedRightly == \A h \in Handlers : pc[h] = "forward" => GoesOut(h)

\* They say no more than that.
LEMMA ForUserMeans ==
  ASSUME ForwardedRightly PROVE ForwardedForUser /\ WrittenWhereGranted
<1>1. ForwardedForUser
  BY Zenon DEF ForwardedRightly, GoesOut, ForwardedForUser, MayGoOut, AnsweredIn, AnsweredFrom,
     OwnTenants
<1>2. WrittenWhereGranted
  BY Zenon DEF ForwardedRightly, GoesOut, WrittenWhereGranted, MayGoOut
<1>3. QED
  BY <1>1, <1>2, Zenon

\* What was forwarded stays as it is until the answer is there.
LEMMA StillForwarded ==
  ASSUME ForwardedRightly, UNCHANGED useProjectID, NEW h \in Handlers, pc'[h] = "forward",
         pc[h] = "forward", token'[h] = token[h], req'[h] = req[h], sent'[h] = sent[h]
  PROVE  GoesOut(h)'
<1>1. OwnTenants(h)' = OwnTenants(h)
  BY SMTT(30) DEF OwnTenants
<1>2. Allowed(OwnTenants(h))' = Allowed(OwnTenants(h))
  BY SMTT(30), <1>1 DEF Allowed
<1>3. PlainIDs(OwnTenants(h))' <=> PlainIDs(OwnTenants(h))
  BY <1>1, Zenon DEF PlainIDs
<1>4. GoesOut(h)
  BY Zenon DEF ForwardedRightly
<1>5. QED
  BY <1>1, <1>2, <1>3, <1>4, Zenon DEF GoesOut, MayGoOut, AnsweredIn

ForwardInv == ForwardTypes /\ ForwardedRightly

\* processRequest forwards a request only after the checks, with their results.
LEMMA ProcessForwards ==
  ASSUME GatewayTypeOK, SentInv, ForwardInv, NEW h \in Handlers, NEW r \in Requests, Process(h, r), ~Respond(h)
  PROVE  ForwardInv'
<1> DEFINE ts == VMTenants(token[h].groups)
<1>1. PICK id \in TargetTenant(r, ts) :
        /\ sent' = [sent EXCEPT ![h] = [query |-> QuerySent(r, ts), tenant |-> id]]
        /\ req' = [req EXCEPT ![h] = r] /\ pc' = [pc EXCEPT ![h] = "forward"]
        /\ pc[h] = "process" /\ UNCHANGED <<token, useProjectID>>
        /\ ~FilterError(r, ts) /\ CanAccess(token[h].groups, r.path, r.method)
  BY SMTT(30) DEF Process, Goto, worldVars
<1>2. ForwardTypes'
  BY <1>1, Zenon DEF ForwardInv, ForwardTypes
<1>3. token[h] \in Tokens
  BY <1>1, Zenon DEF SentInv
<1>4. ts \in Seq(VMTenant)
  BY <1>3, RequestsAssumption, VMTenantsType, Zenon
<1>5. sent'[h] = [query |-> QuerySent(r, ts), tenant |-> id] /\ req'[h] = r
  BY <1>1, Zenon DEF ForwardInv, ForwardTypes
<1>6. /\ OwnTenants(h)' = ts /\ Allowed(OwnTenants(h))' = Allowed(ts)
      /\ PlainIDs(OwnTenants(h))' <=> PlainIDs(ts)
      /\ token'[h].groups = token[h].groups /\ token[h].groups \in SUBSET Groups
  <2>1. OwnTenants(h)' = ts
    BY SMTT(30), <1>1 DEF OwnTenants
  <2>2. token'[h].groups = token[h].groups /\ token[h].groups \in SUBSET Groups
    BY <1>1, <1>3, RequestsAssumption, Zenon
  <2> HIDE DEF ts
  <2>3. Allowed(OwnTenants(h))' = Allowed(ts)
    BY <1>1, <2>1, Zenon DEF Allowed
  <2>4. PlainIDs(OwnTenants(h))' <=> PlainIDs(ts)
    BY <1>1, <2>1, Zenon DEF PlainIDs
  <2>5. QED
    BY <2>1, <2>2, <2>3, <2>4, Zenon
<1>7. isWriteEndpoint(r.path, r.method) => WriteGranted(token[h].groups, id)
  BY <1>1, <1>6, TargetGranted, Zenon
<1>8. isQueryEndpoint(r.path) /\ r.place = "url" /\ r.query # NoQuery
        => AnsweredIn(Allowed(ts), PlainIDs(ts), r.query, QuerySent(r, ts), ts)
  <2> HIDE DEF ts
  <2>1. \A q, parts : AnsweredFrom(q, parts, ts) <=> AnsweredIn(Allowed(ts), PlainIDs(ts), q, parts, ts)
    BY Zenon DEF AnsweredFrom, AnsweredIn
  <2>2. QED
    BY SMTT(30), <1>1, <1>4, <2>1, QueryAnswered
<1>9. GoesOut(h)'
  <2>1. MayGoOut(Allowed(ts), PlainIDs(ts), r, token[h].groups,
                 [query |-> QuerySent(r, ts), tenant |-> id])
    BY <1>7, <1>8, Zenon DEF MayGoOut
  <2> HIDE DEF ts
  <2>2. QED
    BY <1>5, <1>6, <2>1, Zenon DEF GoesOut, MayGoOut, AnsweredIn
<1>10. ASSUME NEW o \in Handlers, o # h, pc'[o] = "forward"
       PROVE  GoesOut(o)'
  <2>1. pc[o] = "forward" /\ token'[o] = token[o] /\ req'[o] = req[o] /\ sent'[o] = sent[o]
    BY ZenonT(60), <1>1, <1>10 DEF GatewayTypeOK, ForwardInv, ForwardTypes
  <2>2. QED
    BY SMTT(30), <1>1, <1>10, <2>1, StillForwarded DEF ForwardInv
<1>11. ForwardedRightly'
  BY <1>9, <1>10, Zenon DEF ForwardedRightly
<1>12. QED
  BY <1>2, <1>11, Zenon DEF ForwardInv

\* No other step makes a handler forward anything, or changes what it does.
LEMMA OthersForward ==
  ASSUME GatewayTypeOK, SentInv, ForwardInv, [Next]_vars,
         ~\E h \in Handlers, r \in Requests : Process(h, r) /\ ~Respond(h)
  PROVE  ForwardInv'
<1> SUFFICES ASSUME /\ ForwardTypes' /\ UNCHANGED useProjectID
                    /\ \A o \in Handlers : pc'[o] = "forward" =>
                         /\ pc[o] = "forward" /\ token'[o] = token[o]
                         /\ req'[o] = req[o] /\ sent'[o] = sent[o]
                    => ForwardInv'
             PROVE  ForwardInv'
  <2>1. ASSUME ForwardTypes', UNCHANGED useProjectID,
               \A o \in Handlers : pc'[o] = "forward" =>
                 /\ pc[o] = "forward" /\ token'[o] = token[o]
                 /\ req'[o] = req[o] /\ sent'[o] = sent[o]
        PROVE  ForwardInv'
    <3>1. ASSUME NEW o \in Handlers, pc'[o] = "forward"
          PROVE  GoesOut(o)'
      BY SMTT(30), <2>1, <3>1, StillForwarded DEF ForwardInv
    <3>2. QED
      BY <2>1, <3>1, Zenon DEF ForwardInv, ForwardedRightly
  <2>2. QED
    BY ZenonT(60), <2>1
<1>1. ASSUME NEW h \in Handlers, Respond(h)
      PROVE  ForwardInv'
  BY ZenonT(60), <1>1 DEF Respond, Goto, worldVars, GatewayTypeOK, AuthTypeOK,
     ForwardInv, ForwardTypes
<1>2. ASSUME NEW h \in Handlers, NEW t \in Tokens \cup {NoToken}, ServeHTTP(h, t), ~Respond(h)
      PROVE  ForwardInv'
  BY <1>2, Zenon DEF ServeHTTP, Goto, worldVars, GatewayTypeOK, AuthTypeOK, ForwardInv,
     ForwardTypes
<1>3. ASSUME NEW h \in Handlers, AuthStep(h), UNCHANGED flowVars
      PROVE  ForwardInv'
  <2>1. UNCHANGED <<useProjectID, token, req, sent>>
    BY <1>3, Zenon DEF AuthStep, LoadUser, EvictUser, FindKey, CheckAge, StartFetch, FetchAnswered,
       FetchFails, NewKeys, StoreKey,
       FindFetchedKey, StoreUser, flowVars, worldVars
  <2>2. pc' = pc \/ \E place \in Places \ {"forward"} : pc' = [pc EXCEPT ![h] = place]
    BY ZenonT(60), <1>3 DEF AuthStep, LoadUser, EvictUser, FindKey, CheckAge, StartFetch, FetchAnswered,
       FetchFails, NewKeys, StoreKey,
       FindFetchedKey, StoreUser, Goto, Places
  <2>3. QED
    BY <2>1, <2>2, Zenon DEF GatewayTypeOK, ForwardInv, ForwardTypes
<1>4. CASE (Tick \/ CleanupCache \/ \E k \in Kids : Withdraw(k)) /\ UNCHANGED flowVars
  BY SMTT(30), <1>4 DEF Tick, CleanupCache, Withdraw, flowVars, worldVars, ForwardInv,
     ForwardTypes
<1>5. CASE UNCHANGED vars
  BY <1>5, Zenon DEF vars, authVars, ForwardInv, ForwardTypes
<1>6. QED
  BY <1>1, <1>2, <1>3, <1>4, <1>5, Zenon DEF Next, HandlerStep, Deny, Forwarded

\* However the requests of several handlers interleave, the invariant holds.
LEMMA ForwardedInvariant == Spec => []ForwardInv
<1>1. Init => ForwardInv
  BY Zenon DEF Init, ForwardInv, ForwardTypes, ForwardedRightly
<1>2. GatewayTypeOK /\ SentInv /\ [Next]_vars => GatewayTypeOK' /\ SentInv'
  BY TypesStep, Zenon
<1>3. GatewayTypeOK /\ SentInv /\ ForwardInv /\ [Next]_vars => ForwardInv'
  BY ProcessForwards, OthersForward, Zenon
<1>4. QED
  BY TypesInit, <1>1, <1>2, <1>3, PTL DEF Spec

\* processRequest forwards a query of the URL that names no account so that it is answered
\* from the accounts of the user's tenants, exactly from their series with plain project
\* ids, and one that names an account as it is.
THEOREM ForwardedWithAccess == Spec => []ForwardedForUser
<1>1. ForwardInv => ForwardedForUser
  BY ForUserMeans, Zenon DEF ForwardInv
<1>2. QED
  BY ForwardedInvariant, <1>1, PTL

\* What processRequest sends to a write endpoint is for a tenant, or the account of one, to
\* which a mapping of one of the user's groups grants writing.
THEOREM WritesGranted == Spec => []WrittenWhereGranted
<1>1. ForwardInv => WrittenWhereGranted
  BY ForUserMeans, Zenon DEF ForwardInv
<1>2. QED
  BY ForwardedInvariant, <1>1, PTL
=============================================================================
