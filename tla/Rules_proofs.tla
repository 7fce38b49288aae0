---------------------------- MODULE Rules_proofs ----------------------------
(***************************************************************************)
(* Proofs about the decision procedures: for every well-formed question,   *)
(* of whatever size, the answers of PolicyDecision, PolicyChanges,         *)
(* EffectRules, ReleaseRules, AuthorityRules, EvidenceGraph,               *)
(* EvidenceBundle and Adapters have the properties stated there.  The      *)
(* specifications ask a question and answer it, so each proof has two      *)
(* parts: what is in answers is what the procedures say of what is given,  *)
(* an invariant; and what the procedures say, which is about functions and *)
(* sets only.                                                              *)
(***************************************************************************)
EXTENDS PolicyDecision, PolicyChanges, EffectRules, ReleaseRules, AuthorityRules,
        EvidenceGraph, EvidenceBundle, Adapters, FiniteSetTheorems, WellFoundedInduction, TLAPS

---------------------------------------------------------------------------
(* Minima                                                                  *)

\* Every set of naturals that is not empty has a least element.
LEMMA LeastNatural ==
    ASSUME NEW S \in SUBSET Nat, S # {}
    PROVE  \E n \in S : \A m \in S : n <= m
<1>1. IsWellFoundedOn(OpToRel(<, Nat), Nat)
  BY NatLessThanWellFounded
<1>2. PICK n \in S : \A m \in S : <<m, n>> \notin OpToRel(<, Nat)
  BY <1>1, WFMin
<1>3. \A m \in S : ~(m < n)
  BY <1>2 DEF OpToRel
<1> QED
  BY <1>3

\* A relation that is transitive and irreflexive has, in a finite set that is
\* not empty, an element that nothing goes before.
LEMMA FiniteMinimum ==
    ASSUME NEW S, IsFiniteSet(S), S # {}, NEW R \in SUBSET (S \X S),
           \A x \in S : <<x, x>> \notin R,
           \A x, y, z \in S : <<x, y>> \in R /\ <<y, z>> \in R => <<x, z>> \in R
    PROVE  \E m \in S : \A n \in S : <<n, m>> \notin R
<1> DEFINE Under(m) == {n \in S : <<n, m>> \in R}
           size == [m \in S |-> Cardinality(Under(m))]
           Sizes == {size[m] : m \in S}
<1>1. \A m \in S : IsFiniteSet(Under(m)) /\ Cardinality(Under(m)) \in Nat
  BY FS_Subset, FS_CardinalityType
<1>2. size \in [S -> Nat] /\ \A m \in S : size[m] = Cardinality(Under(m))
  BY <1>1
<1> HIDE DEF size
<1>3. PICK m \in S : \A n \in S : size[m] <= size[n]
  <2>1. Sizes \in SUBSET Nat /\ Sizes # {}
    BY <1>2
  <2>2. PICK k \in Sizes : \A j \in Sizes : k <= j
    <3> HIDE DEF Sizes
    <3> QED BY <2>1, LeastNatural
  <2> QED BY <2>2
<1>5. ASSUME NEW n \in S, <<n, m>> \in R PROVE FALSE
  <2>1. Under(n) \in SUBSET Under(m) /\ n \in Under(m) /\ n \notin Under(n)
    BY <1>5
  <2>2. /\ Cardinality(Under(n)) <= Cardinality(Under(m))
        /\ Cardinality(Under(m)) = Cardinality(Under(n)) => Under(m) = Under(n)
    BY <1>1, <2>1, FS_Subset, Zenon
  <2>3. size[n] <= size[m] /\ size[n] # size[m]
    BY <1>2, <2>1, <2>2
  <2> QED BY <1>2, <1>3, <2>3
<1> QED BY <1>5

---------------------------------------------------------------------------
(* PolicyDecision                                                          *)

\* maxRisk is the greatest of the levels.
LEMMA GreatestRisk ==
    ASSUME NEW levels \in SUBSET DOMAIN RiskRank
    PROVE  /\ maxRisk(levels) \in levels \cup {"safe"}
           /\ \A q \in levels : RiskRank[q] <= RiskRank[maxRisk(levels)]
<1>1. DOMAIN RiskRank = {"safe", "low", "medium", "high", "critical"}
  BY DEF RiskRank
<1>2. /\ RiskRank["safe"] = 0 /\ RiskRank["low"] = 1 /\ RiskRank["medium"] = 2
      /\ RiskRank["high"] = 3 /\ RiskRank["critical"] = 4
  BY DEF RiskRank
<1>3. \E r \in levels \cup {"safe"} : \A q \in levels : RiskRank[q] <= RiskRank[r]
  <2>1. CASE "critical" \in levels BY <1>1, <1>2, <2>1
  <2>2. CASE "critical" \notin levels /\ "high" \in levels BY <1>1, <1>2, <2>2
  <2>3. CASE "critical" \notin levels /\ "high" \notin levels /\ "medium" \in levels BY <1>1, <1>2, <2>3
  <2>4. CASE levels \subseteq {"safe", "low"} /\ "low" \in levels BY <1>1, <1>2, <2>4
  <2>5. CASE levels \subseteq {"safe"} BY <1>1, <1>2, <2>5
  <2> QED BY <1>1, <2>1, <2>2, <2>3, <2>4, <2>5
<1> QED BY <1>3 DEF maxRisk

Raised(c) == {r[2] : r \in {x \in Raises(c) : x[1]}}

\* What raises the risk of a call raises it to a level that classifyRisk ranks.
LEMMA RaisedLevels == ASSUME NEW c PROVE Raised(c) \subseteq DOMAIN RiskRank
BY DEF Raised, Raises, RiskRank

\* A call has a risk, and what raises it to critical makes it critical.
LEMMA RiskOfCall ==
    ASSUME NEW c
    PROVE  /\ classifyRisk(c) \in DOMAIN RiskRank
           /\ RiskRank[classifyRisk(c)] \in 0 .. 4
           /\ "critical" \in Raised(c) => classifyRisk(c) = "critical"
<1>1. /\ RiskRank["safe"] = 0 /\ RiskRank["low"] = 1 /\ RiskRank["medium"] = 2
      /\ RiskRank["high"] = 3 /\ RiskRank["critical"] = 4
      /\ DOMAIN RiskRank = {"safe", "low", "medium", "high", "critical"}
  BY DEF RiskRank
<1>2. classifyRisk(c) = IF Raised(c) = {} THEN "medium" ELSE maxRisk(Raised(c))
  BY DEF classifyRisk, Raised
<1>3. /\ maxRisk(Raised(c)) \in Raised(c) \cup {"safe"}
      /\ \A q \in Raised(c) : RiskRank[q] <= RiskRank[maxRisk(Raised(c))]
  BY RaisedLevels, GreatestRisk
<1>4. classifyRisk(c) \in DOMAIN RiskRank
  BY <1>1, <1>2, <1>3, RaisedLevels
<1>5. RiskRank[classifyRisk(c)] \in 0 .. 4
  BY <1>1, <1>4
<1>6. "critical" \in Raised(c) => classifyRisk(c) = "critical"
  BY <1>1, <1>2, <1>3, <1>4
<1> QED BY <1>4, <1>5, <1>6

\* The best rank of a list.
LEMMA TopRank ==
    ASSUME NEW S \in SUBSET (-1 .. 2), S # {}
    PROVE  Top(S) \in S /\ \A m \in S : m <= Top(S)
<1>1. \E n \in S : \A m \in S : m <= n
  <2>1. CASE 2 \in S BY <2>1
  <2>2. CASE 2 \notin S /\ 1 \in S BY <2>2
  <2>3. CASE 2 \notin S /\ 1 \notin S /\ 0 \in S BY <2>3
  <2>4. CASE 2 \notin S /\ 1 \notin S /\ 0 \notin S
    <3>1. \A m, n \in S : m <= n BY <2>4
    <3> QED BY <3>1, Zenon
  <2> QED BY <2>1, <2>2, <2>3, <2>4
<1> QED BY <1>1 DEF Top

---------------------------------------------------------------------------
(* The stages of evaluatePolicy                                            *)

ExactOf(c, pol, a) == {e \in pol.entries : /\ e.kind = "exact" /\ e.enabled
                                           /\ e.key = approvalFingerprint(c)
                                           /\ normalizeDecisionAction(e.effect) = a}
MatchesOf(c, pol) == {e \in pol.entries : structuredRuleMatches(e, c)}
DeniesOf(c, pol) == {e \in MatchesOf(c, pol) : normalizeDecisionAction(e.effect) = "deny"}

Stages(c, pol) ==
    << When(~validatePolicy(pol), Decision("throws", "validation", FALSE)),
       ByRules(ExactOf(c, pol, "deny"), "exact"),
       ByRules(chooseStructuredMatch(DeniesOf(c, pol), c), "rules"),
       When(bestMatch(pol, "blocked", c) >= 0, Decision("deny", "legacy", FALSE)),
       ByRules(ExactOf(c, pol, "needs_approval"), "exact"),
       ByRules(ExactOf(c, pol, "allow"), "exact"),
       ByRules(chooseStructuredMatch(MatchesOf(c, pol), c), "rules"),
       When(bestMatch(pol, "allowed", c) > bestMatch(pol, "approval", c), Decision("allow", "legacy", FALSE)),
       When(bestMatch(pol, "approval", c) >= 0, Decision("needs_approval", "legacy", FALSE)),
       {Decision(normalizeDecisionAction(pol.default), "default", FALSE)} >>

First(c, pol, i) == Stages(c, pol)[i] # {} /\ \A j \in 1 .. i - 1 : Stages(c, pol)[j] = {}

\* evaluatePolicy answers from the first of its ten stages that has something to say.
LEMMA EvaluateStages ==
    ASSUME NEW c, NEW pol
    PROVE  evaluatePolicy(c, pol) = Stages(c, pol)[CHOOSE i \in 1 .. 10 : First(c, pol, i)]
BY Zenon DEF evaluatePolicy, Stages, First, ExactOf, MatchesOf, DeniesOf

\* Some stage decides, and it is the first that matches.
LEMMA FirstStage ==
    ASSUME NEW c, NEW pol
    PROVE  /\ \E i \in 1 .. 10 : First(c, pol, i)
           /\ \A i \in 1 .. 10 : First(c, pol, i) => evaluatePolicy(c, pol) = Stages(c, pol)[i]
<1> DEFINE s == Stages(c, pol)
           Full == {i \in 1 .. 10 : s[i] # {}}
<1>1. s[10] # {}
  BY DEF Stages
<1> HIDE DEF s
<1>2. PICK i \in Full : \A j \in Full : i <= j
  <2>1. Full \in SUBSET Nat /\ Full # {}
    BY <1>1
  <2> HIDE DEF Full
  <2> QED BY <2>1, LeastNatural
<1>3. First(c, pol, i)
  <2>1. \A j \in 1 .. i - 1 : s[j] = {}
    BY <1>2
  <2> QED BY <1>2, <2>1 DEF First, s
<1>4. ASSUME NEW k \in 1 .. 10, First(c, pol, k), NEW n \in 1 .. 10, First(c, pol, n) PROVE k = n
  BY <1>4 DEF First
<1>5. ASSUME NEW k \in 1 .. 10, First(c, pol, k) PROVE evaluatePolicy(c, pol) = s[k]
  <2>1. (CHOOSE n \in 1 .. 10 : First(c, pol, n)) = k
    BY <1>4, <1>5
  <2> QED BY <2>1, EvaluateStages DEF s
<1> QED BY <1>3, <1>5 DEF s

---------------------------------------------------------------------------
(* The sort of chooseStructuredMatch                                       *)

\* The comparison of chooseStructuredMatch, key by key: priority, specificity,
\* the stricter effect, then the id.
LEMMA BeforeMeans ==
    ASSUME NEW a, NEW b, NEW c
    PROVE  LET s(e) == Specificity(e, c)
               t(e) == TieBreak[normalizeDecisionAction(e.effect)] IN
           Before(a, b, c) <=>
              \/ a.priority > b.priority
              \/ a.priority = b.priority /\ s(a) > s(b)
              \/ a.priority = b.priority /\ s(a) = s(b) /\ t(a) > t(b)
              \/ a.priority = b.priority /\ s(a) = s(b) /\ t(a) = t(b) /\ -a.id > -b.id
<1> DEFINE s(e) == Specificity(e, c)
           t(e) == TieBreak[normalizeDecisionAction(e.effect)]
           left == <<a.priority, s(a), t(a), -a.id>>
           right == <<b.priority, s(b), t(b), -b.id>>
<1>1. Before(a, b, c) <=> \E i \in 1 .. 4 : left[i] > right[i] /\ \A j \in 1 .. i - 1 : left[j] = right[j]
  BY DEF Before
<1>2. /\ left[1] = a.priority /\ left[2] = s(a) /\ left[3] = t(a) /\ left[4] = -a.id
      /\ right[1] = b.priority /\ right[2] = s(b) /\ right[3] = t(b) /\ right[4] = -b.id
  OBVIOUS
<1> HIDE DEF left, right, s, t
<1>3. (\E i \in 1 .. 4 : left[i] > right[i] /\ \A j \in 1 .. i - 1 : left[j] = right[j]) <=>
         \/ left[1] > right[1]
         \/ left[1] = right[1] /\ left[2] > right[2]
         \/ left[1] = right[1] /\ left[2] = right[2] /\ left[3] > right[3]
         \/ left[1] = right[1] /\ left[2] = right[2] /\ left[3] = right[3] /\ left[4] > right[4]
  OBVIOUS
<1> QED BY <1>1, <1>2, <1>3 DEF s, t

PolicyEntries == ExactRules \cup StructuredRules \cup LegacyPatterns

\* An entry of kind "rule" is a structured rule.
LEMMA RuleEntry == ASSUME NEW e \in PolicyEntries, e.kind = "rule" PROVE e \in StructuredRules
BY DEF PolicyEntries, ExactRules, LegacyPatterns

\* An entry of kind "exact" is an exact-action rule.
LEMMA ExactEntry == ASSUME NEW e \in PolicyEntries, e.kind = "exact" PROVE e \in ExactRules
BY DEF PolicyEntries, StructuredRules, LegacyPatterns

\* What the comparison needs to know of a rule.
Comparable(e) == /\ e.priority \in Int /\ e.id \in Int /\ IsFiniteSet(e.conditions)
                 /\ \A p \in e.resources : p.rank \in 0 .. 2

\* The structured rules of a policy can be compared.
LEMMA RulesComparable == ASSUME NEW e \in StructuredRules PROVE Comparable(e)
BY DEF StructuredRules, Finite, Comparable

\* The specificity of a rule for a call it matches is a number.
LEMMA SpecificityIsInt ==
    ASSUME NEW e, Comparable(e), NEW c, structuredRuleMatches(e, c)
    PROVE  Specificity(e, c) \in Int
<1> DEFINE A == {patternSpecificity(p) : p \in {q \in e.actions : matchesPattern(q, c)}}
           R == {p.rank : p \in {q \in e.resources : matchesResourcePattern(q, c)}}
<1>1. A # {} /\ R # {}
  BY DEF structuredRuleMatches
<1>2. A \in SUBSET (-1 .. 2)
  <2>1. \A p : patternSpecificity(p) \in {0, 1, 2}
    BY DEF patternSpecificity
  <2> QED BY <2>1
<1>3. R \in SUBSET (-1 .. 2)
  BY DEF Comparable
<1>4. Top(A) \in Int /\ Top(R) \in Int
  <2> HIDE DEF A, R
  <2>1. Top(A) \in A /\ Top(R) \in R
    BY <1>1, <1>2, <1>3, TopRank, Zenon
  <2>2. (\A t \in A : t \in Int) /\ (\A t \in R : t \in Int)
    BY <1>2, <1>3
  <2> QED BY <2>1, <2>2, Zenon
<1>5. Cardinality(e.conditions) \in Nat
  BY FS_CardinalityType DEF Comparable
<1> QED BY <1>4, <1>5 DEF Specificity

\* What Before compares is a number, for rules that match and validate.
Sortable(S, c) == \A e \in S : /\ Comparable(e) /\ structuredRuleMatches(e, c)
                               /\ normalizeDecisionAction(e.effect) \in Decisions

\* The keys of the comparison are numbers, so they can be compared.
LEMMA SortKeys ==
    ASSUME NEW S, NEW c, Sortable(S, c), NEW e \in S
    PROVE  /\ e.priority \in Int /\ Specificity(e, c) \in Int
           /\ TieBreak[normalizeDecisionAction(e.effect)] \in Int /\ e.id \in Int /\ -e.id \in Int
<1>1. Comparable(e) /\ structuredRuleMatches(e, c) /\ normalizeDecisionAction(e.effect) \in Decisions
  BY DEF Sortable
<1>2. e.priority \in Int /\ e.id \in Int /\ -e.id \in Int
  BY <1>1 DEF Comparable
<1>3. TieBreak[normalizeDecisionAction(e.effect)] \in Int
  BY <1>1 DEF TieBreak, Decisions
<1> QED BY <1>1, <1>2, <1>3, SpecificityIsInt

\* Some rule goes first, and of rules with distinct ids only one.
LEMMA SomeRuleFirst ==
    ASSUME NEW S, NEW c, IsFiniteSet(S), S # {}, Sortable(S, c)
    PROVE  chooseStructuredMatch(S, c) # {}
<1> DEFINE R == {r \in S \X S : Before(r[1], r[2], c)}
<1>1. \A x, y \in S : <<x, y>> \in R <=> Before(x, y, c)
  OBVIOUS
<1>2. \A x \in S : ~Before(x, x, c)
  <2> TAKE x \in S
  <2> QED BY SortKeys, BeforeMeans
<1>3. \A x, y, z \in S : Before(x, y, c) /\ Before(y, z, c) => Before(x, z, c)
  <2> TAKE x, y, z \in S
  <2> DEFINE s(e) == Specificity(e, c)
             t(e) == TieBreak[normalizeDecisionAction(e.effect)]
  <2>1. \A e \in S : e.priority \in Int /\ s(e) \in Int /\ t(e) \in Int /\ -e.id \in Int
    BY SortKeys
  <2>2. \A a, b \in S : Before(a, b, c) <=>
              \/ a.priority > b.priority
              \/ a.priority = b.priority /\ s(a) > s(b)
              \/ a.priority = b.priority /\ s(a) = s(b) /\ t(a) > t(b)
              \/ a.priority = b.priority /\ s(a) = s(b) /\ t(a) = t(b) /\ -a.id > -b.id
    BY BeforeMeans
  <2> HIDE DEF s, t
  <2> QED BY <2>1, <2>2
<1>4. PICK m \in S : \A n \in S : <<n, m>> \notin R
  <2>1. R \in SUBSET (S \X S)
    OBVIOUS
  <2>2. \A x \in S : <<x, x>> \notin R
    BY <1>1, <1>2
  <2>3. \A x, y, z \in S : <<x, y>> \in R /\ <<y, z>> \in R => <<x, z>> \in R
    BY <1>1, <1>3, Zenon
  <2> HIDE DEF R
  <2> QED BY <2>1, <2>2, <2>3, FiniteMinimum
<1> QED BY <1>1, <1>4 DEF chooseStructuredMatch

\* When no two rules share an id, the sort puts one rule first.
LEMMA OneRuleFirst ==
    ASSUME NEW S, NEW c, Sortable(S, c), \A e, f \in S : e # f => e.id # f.id,
           NEW m \in chooseStructuredMatch(S, c), NEW n \in chooseStructuredMatch(S, c)
    PROVE  m = n
<1>1. m \in S /\ n \in S /\ ~Before(m, n, c) /\ ~Before(n, m, c)
  BY DEF chooseStructuredMatch
<1>2. m.id = n.id
  BY <1>1, SortKeys, BeforeMeans
<1> QED BY <1>1, <1>2

\* The ten stages, each named by its place in evaluatePolicy.
LEMMA StageIs ==
    ASSUME NEW c, NEW pol
    PROVE  /\ Stages(c, pol)[1] = When(~validatePolicy(pol), Decision("throws", "validation", FALSE))
           /\ Stages(c, pol)[2] = ByRules(ExactOf(c, pol, "deny"), "exact")
           /\ Stages(c, pol)[3] = ByRules(chooseStructuredMatch(DeniesOf(c, pol), c), "rules")
           /\ Stages(c, pol)[4] = When(bestMatch(pol, "blocked", c) >= 0, Decision("deny", "legacy", FALSE))
           /\ Stages(c, pol)[5] = ByRules(ExactOf(c, pol, "needs_approval"), "exact")
           /\ Stages(c, pol)[6] = ByRules(ExactOf(c, pol, "allow"), "exact")
           /\ Stages(c, pol)[7] = ByRules(chooseStructuredMatch(MatchesOf(c, pol), c), "rules")
           /\ Stages(c, pol)[8] = When(bestMatch(pol, "allowed", c) > bestMatch(pol, "approval", c),
                                       Decision("allow", "legacy", FALSE))
           /\ Stages(c, pol)[9] = When(bestMatch(pol, "approval", c) >= 0, Decision("needs_approval", "legacy", FALSE))
           /\ Stages(c, pol)[10] = {Decision(normalizeDecisionAction(pol.default), "default", FALSE)}
BY DEF Stages

\* A legacy list has a best match when one of its patterns matches.
LEMMA BestMatchIs ==
    ASSUME NEW pol, NEW list, NEW c
    PROVE  /\ bestMatch(pol, list, c) \in Int
           /\ bestMatch(pol, list, c) >= 0 <=> \E x \in pol.entries : x.kind = list /\ matchesPattern(x.pattern, c)
<1> DEFINE hits == {x \in pol.entries : x.kind = list /\ matchesPattern(x.pattern, c)}
           ranks == {patternSpecificity(e.pattern) : e \in hits}
           S == {-1} \cup ranks
<1>1. ranks \in SUBSET (0 .. 2)
  <2>1. \A p : patternSpecificity(p) \in {0, 1, 2}
    BY DEF patternSpecificity
  <2> QED BY <2>1
<1>2. bestMatch(pol, list, c) = Top(S)
  BY DEF bestMatch
<1>3. ranks = {} <=> hits = {}
  OBVIOUS
<1> HIDE DEF ranks
<1>4. S \in SUBSET (-1 .. 2) /\ S # {}
  BY <1>1
<1>5. \A m \in S : m \in Int
  BY <1>4
<1> HIDE DEF S
<1>6. Top(S) \in S /\ \A m \in S : m <= Top(S)
  BY <1>4, TopRank, Zenon
<1>7. Top(S) \in Int
  BY <1>5, <1>6, Zenon
<1> DEFINE t == Top(S)
<1>8. t \in S /\ (\A m \in S : m <= t) /\ t \in Int
  BY <1>6, <1>7
<1> HIDE DEF t
<1>9. t >= 0 <=> ranks # {}
  <2>1. ASSUME t >= 0 PROVE t \in ranks
    BY <1>8, <2>1 DEF S
  <2>2. ASSUME NEW r \in ranks PROVE t >= 0
    <3>1. r \in Int /\ r >= 0 /\ r <= t
      BY <1>1, <1>8, <2>2 DEF S
    <3> QED BY <1>8, <3>1
  <2> QED BY <2>1, <2>2
<1> QED BY <1>2, <1>3, <1>7, <1>9 DEF t

\* A stage of rules decides as soon as it has a rule, and what one of its rules says.
LEMMA RulesDecide ==
    ASSUME NEW entries, NEW by
    PROVE  /\ entries # {} => ByRules(entries, by) # {}
           /\ \A d \in ByRules(entries, by) :
                 \E e \in entries : d = Decision(normalizeDecisionAction(e.effect), by, e.allowCritical)
BY DEF ByRules

\* What chooseStructuredMatch returns is one of the rules it was given.
LEMMA ChosenMatches == ASSUME NEW S, NEW c PROVE chooseStructuredMatch(S, c) \subseteq S
BY DEF chooseStructuredMatch

\* The first four stages deny, or report that the policy does not validate.
LEMMA EarlyStagesDeny ==
    ASSUME NEW c, NEW pol, NEW i \in 1 .. 4, NEW d \in Stages(c, pol)[i]
    PROVE  /\ d.action \in {"deny", "throws"}
           /\ validatePolicy(pol) => d.action = "deny"
<1>1. CASE i = 1 BY <1>1, StageIs DEF When, Decision
<1>2. CASE i = 2 BY <1>2, StageIs DEF ByRules, Decision, ExactOf
<1>3. CASE i = 3
  <2>0. d \in ByRules(chooseStructuredMatch(DeniesOf(c, pol), c), "rules")
    BY <1>3, StageIs
  <2>1. PICK e \in chooseStructuredMatch(DeniesOf(c, pol), c) :
          d = Decision(normalizeDecisionAction(e.effect), "rules", e.allowCritical)
    BY <2>0, RulesDecide
  <2>2. e \in DeniesOf(c, pol)
    BY ChosenMatches
  <2> QED BY <2>1, <2>2 DEF Decision, DeniesOf
<1>4. CASE i = 4 BY <1>4, StageIs DEF When, Decision
<1> QED BY <1>1, <1>2, <1>3, <1>4

\* When one of the first four stages speaks, the decision is a denial or an error.
LEMMA EarlyStageDecides ==
    ASSUME NEW c, NEW pol, \E i \in 1 .. 4 : Stages(c, pol)[i] # {}, NEW d \in evaluatePolicy(c, pol)
    PROVE  /\ d.action \in {"deny", "throws"}
           /\ validatePolicy(pol) => d.action = "deny"
<1>1. PICK i \in 1 .. 10 : First(c, pol, i)
  BY FirstStage
<1>2. i \in 1 .. 4
  BY <1>1 DEF First
<1>3. d \in Stages(c, pol)[i]
  BY <1>1, FirstStage
<1> QED BY <1>2, <1>3, EarlyStagesDeny

\* An explicit decision comes from an enabled rule of the policy.
LEMMA ExplicitDecision ==
    ASSUME NEW c, NEW pol, NEW d \in evaluatePolicy(c, pol), d.by \in {"exact", "rules"}
    PROVE  \E e \in pol.entries : /\ e.kind \in {"exact", "rule"} /\ e.enabled
                                  /\ d.action = normalizeDecisionAction(e.effect)
                                  /\ d.allowCritical = e.allowCritical
<1>1. PICK i \in 1 .. 10 : d \in Stages(c, pol)[i]
  BY FirstStage
<1>2. CASE i = 1 BY <1>1, <1>2, StageIs DEF When, Decision
<1>3. CASE i = 2 BY <1>1, <1>3, StageIs DEF ByRules, Decision, ExactOf
<1>4. CASE i = 3
  <2>0. d \in ByRules(chooseStructuredMatch(DeniesOf(c, pol), c), "rules")
    BY <1>1, <1>4, StageIs
  <2>1. PICK e \in chooseStructuredMatch(DeniesOf(c, pol), c) :
          d = Decision(normalizeDecisionAction(e.effect), "rules", e.allowCritical)
    BY <2>0, RulesDecide
  <2>2. e \in DeniesOf(c, pol)
    BY ChosenMatches
  <2> QED BY <2>1, <2>2 DEF Decision, DeniesOf, MatchesOf, structuredRuleMatches
<1>5. CASE i = 4 BY <1>1, <1>5, StageIs DEF When, Decision
<1>6. CASE i = 5 BY <1>1, <1>6, StageIs DEF ByRules, Decision, ExactOf
<1>7. CASE i = 6 BY <1>1, <1>7, StageIs DEF ByRules, Decision, ExactOf
<1>8. CASE i = 7
  <2>0. d \in ByRules(chooseStructuredMatch(MatchesOf(c, pol), c), "rules")
    BY <1>1, <1>8, StageIs
  <2>1. PICK e \in chooseStructuredMatch(MatchesOf(c, pol), c) :
          d = Decision(normalizeDecisionAction(e.effect), "rules", e.allowCritical)
    BY <2>0, RulesDecide
  <2>2. e \in MatchesOf(c, pol)
    BY ChosenMatches
  <2> QED BY <2>1, <2>2 DEF Decision, MatchesOf, structuredRuleMatches
<1>9. CASE i \in {8, 9, 10} BY <1>1, <1>9, StageIs DEF When, Decision
<1> QED BY <1>2, <1>3, <1>4, <1>5, <1>6, <1>7, <1>8, <1>9

---------------------------------------------------------------------------
(* Denials                                                                 *)

\* A denial that applies to a call.
Hits(e, c) == CASE e.kind = "exact" -> e.key = approvalFingerprint(c)
                [] e.kind = "rule" -> structuredRuleMatches(e, c)
                [] OTHER -> matchesPattern(e.pattern, c)

\* An entry that denies, and whose text covers a call, is one that evaluatePolicy finds.
LEMMA CoveredIsHit ==
    ASSUME NEW e \in PolicyEntries, NEW c \in CallRecords, Denial(e), Covers(e, c)
    PROVE  Hits(e, c)
<1>1. CASE e.kind = "exact"
  <2>1. e.key = approvalFingerprint(e.key)
    BY <1>1, ExactEntry DEF ExactRules
  <2> QED BY <1>1, <2>1 DEF Hits, Covers
<1>2. CASE e.kind = "rule"
  <2>1. RiskRank[classifyRisk(c)] \in 0 .. 4
    BY RiskOfCall
  <2>2. RiskRank["safe"] = 0 /\ RiskRank["critical"] = 4
    BY DEF RiskRank
  <2>3. /\ e.enabled /\ e.conditions = {} /\ e.atLeast = "safe" /\ e.atMost = "critical"
        /\ \E p \in e.actions : matchesPattern(p, c)
        /\ \E p \in e.resources : matchesResourcePattern(p, c)
    BY <1>2 DEF Covers, Denial, matchesPattern, matchesResourcePattern
  <2>4. structuredRuleMatches(e, c)
    BY <1>2, <2>1, <2>2, <2>3 DEF structuredRuleMatches
  <2> QED BY <1>2, <2>4 DEF Hits
<1>3. CASE e.kind = "blocked"
  BY <1>3 DEF Hits, Covers, matchesPattern
<1> QED BY <1>1, <1>2, <1>3 DEF Denial

\* The rules of a valid policy that match a call can be sorted.
LEMMA ValidSortable ==
    ASSUME NEW c, NEW pol, validatePolicy(pol), IsFiniteSet(pol.entries),
           \A e \in pol.entries : e.kind = "rule" => Comparable(e)
    PROVE  /\ IsFiniteSet(MatchesOf(c, pol)) /\ Sortable(MatchesOf(c, pol), c)
           /\ IsFiniteSet(DeniesOf(c, pol)) /\ Sortable(DeniesOf(c, pol), c)
<1>2. MatchesOf(c, pol) \in SUBSET pol.entries /\ DeniesOf(c, pol) \in SUBSET pol.entries
  BY DEF MatchesOf, DeniesOf
<1>3. Sortable(MatchesOf(c, pol), c)
  <2> SUFFICES ASSUME NEW e \in MatchesOf(c, pol)
               PROVE  /\ Comparable(e) /\ structuredRuleMatches(e, c)
                      /\ normalizeDecisionAction(e.effect) \in Decisions
    BY DEF Sortable
  <2>1. e \in pol.entries /\ e.kind = "rule" /\ structuredRuleMatches(e, c)
    BY DEF MatchesOf, structuredRuleMatches
  <2> QED BY <2>1 DEF validatePolicy
<1>4. Sortable(DeniesOf(c, pol), c)
  BY <1>3 DEF Sortable, DeniesOf
<1> QED BY <1>2, <1>3, <1>4, FS_Subset

\* Every policy that parses can be sorted once it validates.
LEMMA PolicySortable ==
    ASSUME NEW pol \in PolicyRecords
    PROVE  IsFiniteSet(pol.entries) /\ \A e \in pol.entries : e.kind = "rule" => Comparable(e)
<1>1. IsFiniteSet(pol.entries) /\ pol.entries \in SUBSET PolicyEntries
  BY DEF PolicyRecords, Finite, PolicyEntries
<1> QED BY <1>1, RuleEntry, RulesComparable

\* A denial that evaluatePolicy finds speaks in one of the first four stages.
LEMMA HitIsDenied ==
    ASSUME NEW c, NEW pol \in PolicyRecords, NEW e \in pol.entries, Denial(e), Hits(e, c)
    PROVE  \E i \in 1 .. 4 : Stages(c, pol)[i] # {}
<1>1. CASE ~validatePolicy(pol)
  <2>1. Stages(c, pol)[1] # {}
    BY <1>1, StageIs DEF When
  <2> QED BY <2>1
<1>2. CASE validatePolicy(pol) /\ e.kind = "exact"
  <2>1. e \in ExactOf(c, pol, "deny")
    BY <1>2 DEF ExactOf, Hits, Denial, normalizeDecisionAction
  <2>2. Stages(c, pol)[2] # {}
    <3>1. ExactOf(c, pol, "deny") # {} BY <2>1
    <3>2. ByRules(ExactOf(c, pol, "deny"), "exact") # {} BY <3>1, RulesDecide
    <3> QED BY <3>2, StageIs
  <2> QED BY <2>2
<1>3. CASE validatePolicy(pol) /\ e.kind = "rule"
  <2>1. e \in DeniesOf(c, pol)
    BY <1>3 DEF DeniesOf, MatchesOf, Hits, Denial, normalizeDecisionAction
  <2>2. chooseStructuredMatch(DeniesOf(c, pol), c) # {}
    BY <1>3, <2>1, PolicySortable, ValidSortable, SomeRuleFirst
  <2>3. Stages(c, pol)[3] # {}
    <3>1. ByRules(chooseStructuredMatch(DeniesOf(c, pol), c), "rules") # {} BY <2>2, RulesDecide
    <3> QED BY <3>1, StageIs
  <2> QED BY <2>3
<1>4. CASE e.kind = "blocked"
  <2>1. bestMatch(pol, "blocked", c) >= 0
    BY <1>4, BestMatchIs DEF Hits
  <2>2. Stages(c, pol)[4] # {}
    BY <2>1, StageIs DEF When
  <2> QED BY <2>2
<1> QED BY <1>1, <1>2, <1>3, <1>4 DEF Denial

\* A denial that does not apply to a call changes no stage.
LEMMA MissIsNothing ==
    ASSUME NEW c, NEW pol \in PolicyRecords, NEW e, Denial(e), ~Hits(e, c),
           NEW after, after = [pol EXCEPT !.entries = @ \cup {e}]
    PROVE  evaluatePolicy(c, after) = evaluatePolicy(c, pol)
<1>1. after.default = pol.default /\ after.entries = pol.entries \cup {e}
  BY DEF PolicyRecords
<1>2. validatePolicy(after) <=> validatePolicy(pol)
  <2>1. CASE e.kind = "exact"
    BY <1>1, <2>1 DEF validatePolicy, Denial, normalizeDecisionAction, Decisions
  <2>2. CASE e.kind = "rule"
    BY <1>1, <2>2 DEF validatePolicy, Denial, normalizeDecisionAction, Decisions
  <2>3. CASE e.kind = "blocked"
    BY <1>1, <2>3 DEF validatePolicy
  <2> QED BY <2>1, <2>2, <2>3 DEF Denial
<1>3. \A a : ExactOf(c, after, a) = ExactOf(c, pol, a)
  BY <1>1 DEF ExactOf, Hits, Denial
<1>4. MatchesOf(c, after) = MatchesOf(c, pol)
  BY <1>1 DEF MatchesOf, Hits, Denial, structuredRuleMatches
<1>5. DeniesOf(c, after) = DeniesOf(c, pol)
  BY <1>4 DEF DeniesOf
<1>6. ASSUME NEW list \in {"allowed", "approval", "blocked"} PROVE bestMatch(after, list, c) = bestMatch(pol, list, c)
  <2>1. {x \in after.entries : x.kind = list /\ matchesPattern(x.pattern, c)}
        = {x \in pol.entries : x.kind = list /\ matchesPattern(x.pattern, c)}
    BY <1>1 DEF Hits, Denial
  <2> QED BY <2>1 DEF bestMatch
<1>7. Stages(c, after) = Stages(c, pol)
  BY <1>1, <1>2, <1>3, <1>4, <1>5, <1>6, Zenon DEF Stages, When
<1> QED BY <1>7, EvaluateStages DEF First

\* The risk guards and the session change no denial.
LEMMA DenialStands ==
    ASSUME NEW c, NEW pol, NEW session, NEW ok, NEW D \in SUBSET {"deny", "throws"},
           \A d \in evaluatePolicy(c, pol) : d.action \in D
    PROVE  evaluatePermissionRequest(c, pol, session, ok) \subseteq D \cup {"deny"}
<1> SUFFICES ASSUME NEW v \in evaluatePermissionRequest(c, pol, session, ok), v # "deny"
             PROVE  v \in D
  OBVIOUS
<1>1. PICK d \in evaluatePolicy(c, pol) :
        v = IF classifyRisk(c) = "critical" THEN RiskGuard(c, d)
            ELSE applySessionDecision(RiskGuard(c, d), c, session)
  BY DEF evaluatePermissionRequest
<1>2. RiskGuard(c, d) \in D \cup {"deny"}
  BY DEF RiskGuard, isExplicitAllow
<1> QED BY <1>1, <1>2 DEF applySessionDecision

\* A denial that covers a call is final, and adding one to a policy only ever
\* turns decisions into denials.
LEMMA DenialWinsAlways ==
    ASSUME NEW c \in CallRecords, NEW before \in PolicyRecords, NEW pol \in PolicyRecords, NEW session, NEW ok,
           NEW e \in pol.entries, Denial(e)
    PROVE  /\ Covers(e, c) => evaluatePermissionRequest(c, pol, session, ok) \subseteq {"deny", "throws"}
           /\ pol = [before EXCEPT !.entries = @ \cup {e}]
                 => evaluatePermissionRequest(c, pol, session, ok)
                       \subseteq evaluatePermissionRequest(c, before, session, ok) \cup {"deny"}
<1>0. e \in PolicyEntries
  BY DEF PolicyRecords, Finite, PolicyEntries
<1>1. ASSUME Hits(e, c) PROVE evaluatePermissionRequest(c, pol, session, ok) \subseteq {"deny", "throws"}
  <2>1. \A d \in evaluatePolicy(c, pol) : d.action \in {"deny", "throws"}
    BY <1>1, HitIsDenied, EarlyStageDecides
  <2> QED BY <2>1, DenialStands
<1>2. ASSUME Covers(e, c) PROVE Hits(e, c)
  BY <1>0, <1>2, CoveredIsHit
<1>3. ASSUME pol = [before EXCEPT !.entries = @ \cup {e}]
      PROVE  evaluatePermissionRequest(c, pol, session, ok)
                \subseteq evaluatePermissionRequest(c, before, session, ok) \cup {"deny"}
  <2>1. CASE ~Hits(e, c)
    <3>1. evaluatePolicy(c, pol) = evaluatePolicy(c, before)
      BY <1>3, <2>1, MissIsNothing
    <3> QED BY <3>1 DEF evaluatePermissionRequest
  <2>2. CASE Hits(e, c) /\ validatePolicy(pol)
    <3>1. \A d \in evaluatePolicy(c, pol) : d.action \in {"deny"}
      BY <2>2, HitIsDenied, EarlyStageDecides
    <3>2. evaluatePermissionRequest(c, pol, session, ok) \subseteq {"deny"} \cup {"deny"}
      BY <3>1, DenialStands
    <3> QED BY <3>2
  <2>3. CASE ~validatePolicy(pol)
    <3>1. ~validatePolicy(before)
      <4>1. pol.default = before.default /\ pol.entries = before.entries \cup {e}
        BY <1>3 DEF PolicyRecords
      <4>2. CASE e.kind = "exact"
        BY <2>3, <4>1, <4>2 DEF validatePolicy, Denial, normalizeDecisionAction, Decisions
      <4>3. CASE e.kind = "rule"
        BY <2>3, <4>1, <4>3 DEF validatePolicy, Denial, normalizeDecisionAction, Decisions
      <4>4. CASE e.kind = "blocked"
        BY <2>3, <4>1, <4>4 DEF validatePolicy
      <4> QED BY <4>2, <4>3, <4>4 DEF Denial
    <3>2. ASSUME NEW p, ~validatePolicy(p)
          PROVE evaluatePolicy(c, p) = {Decision("throws", "validation", FALSE)}
      <4>1. Stages(c, p)[1] = {Decision("throws", "validation", FALSE)}
        BY <3>2, StageIs DEF When
      <4>2. First(c, p, 1)
        BY <4>1 DEF First
      <4>3. 1 \in 1 .. 10
        OBVIOUS
      <4> QED BY <4>1, <4>2, <4>3, FirstStage
    <3>3. evaluatePolicy(c, pol) = evaluatePolicy(c, before)
      BY <2>3, <3>1, <3>2
    <3> QED BY <3>3 DEF evaluatePermissionRequest
  <2> QED BY <2>1, <2>2, <2>3
<1> QED BY <1>1, <1>2, <1>3

\* What leaves the machine is external.
LEMMA LeavingIsExternal == ASSUME NEW c, Leaves(c) PROVE classifyDataFlow(c) = "external"
BY DEF Leaves, classifyDataFlow

\* A condition that holds puts its level among the levels a call is raised to.
LEMMA RaisedBy == ASSUME NEW c, NEW level, <<TRUE, level>> \in Raises(c) PROVE level \in Raised(c)
<1> DEFINE x == <<TRUE, level>>
<1>1. x \in {y \in Raises(c) : y[1]} /\ x[2] = level
  OBVIOUS
<1> HIDE DEF x
<1> QED BY <1>1 DEF Raised

\* A payment, the deletion of private files and a secret that leaves are critical,
\* and what is read-only among them flows out.
LEMMA CriticalCall ==
    ASSUME NEW c,
           \/ c.category = "payment"
           \/ c.category = "file" /\ c.operation = "delete" /\ c.sensitivity \in {"private", "secret"}
           \/ c.sensitivity = "secret" /\ Leaves(c)
    PROVE  /\ classifyRisk(c) = "critical"
           /\ classifySideEffect(c) = "read_only" => classifyDataFlow(c) = "external"
<1>1. CASE c.category = "payment"
  <2>1. <<c.category = "payment", "critical">> \in Raises(c)
    BY DEF Raises
  <2>2. "critical" \in Raised(c)
    BY <1>1, <2>1, RaisedBy
  <2>3. classifyDataFlow(c) = "external"
    BY <1>1 DEF classifyDataFlow
  <2> QED BY <2>2, <2>3, RiskOfCall
<1>2. CASE c.category = "file" /\ c.operation = "delete" /\ c.sensitivity \in {"private", "secret"}
  <2>1. <<c.category \in {"file", "filesystem"} /\ c.operation = "delete",
          IF c.sensitivity \in {"private", "secret"} THEN "critical" ELSE "high">> \in Raises(c)
    BY DEF Raises
  <2>2. "critical" \in Raised(c)
    BY <1>2, <2>1, RaisedBy
  <2>3. classifySideEffect(c) # "read_only"
    BY <1>2 DEF classifySideEffect
  <2> QED BY <2>2, <2>3, RiskOfCall
<1>3. CASE c.sensitivity = "secret" /\ Leaves(c)
  <2>0. classifyDataFlow(c) = "external"
    BY <1>3, LeavingIsExternal
  <2>1. <<c.sensitivity = "secret", IF classifyDataFlow(c) = "external" THEN "critical" ELSE "high">> \in Raises(c)
    BY DEF Raises
  <2>2. "critical" \in Raised(c)
    BY <1>3, <2>0, <2>1, RaisedBy
  <2> QED BY <2>0, <2>2, RiskOfCall
<1> QED BY <1>1, <1>2, <1>3

\* A critical call is allowed only by a rule that opts in to critical calls, and is never merely queued.
LEMMA CriticalOptIn ==
    ASSUME NEW c, NEW pol, NEW session, NEW ok, classifyRisk(c) = "critical",
           classifySideEffect(c) = "read_only" => classifyDataFlow(c) = "external",
           NEW v \in evaluatePermissionRequest(c, pol, session, ok)
    PROVE  /\ v # "needs_approval"
           /\ v = "allow" => \E e \in pol.entries : /\ e.kind \in {"exact", "rule"} /\ e.enabled
                                                    /\ e.effect = "allow" /\ e.allowCritical
<1>1. CASE v = "deny"
  BY <1>1
<1>2. CASE v # "deny"
  <2>0. ~InjectionSideEffectRisk(c) /\ ~ExfiltrationRisk(c)
    BY <1>2 DEF evaluatePermissionRequest
  <2>1. PICK d \in evaluatePolicy(c, pol) : v = RiskGuard(c, d)
    BY <1>2 DEF evaluatePermissionRequest
  <2>2. ~(Injected(c) /\ classifySideEffect(c) = "read_only")
    BY <2>0 DEF InjectionSideEffectRisk
  <2>3. v = "throws" \/ (v = "allow" /\ isExplicitAllow(d) /\ d.allowCritical)
    BY <1>2, <2>1, <2>2 DEF RiskGuard
  <2>4. CASE v = "allow"
    <3>1. d.action = "allow" /\ d.by \in {"exact", "rules"} /\ d.allowCritical
      BY <2>3, <2>4 DEF isExplicitAllow
    <3>0. d.by \in {"exact", "rules"}
      BY <3>1
    <3>2. PICK e \in pol.entries : /\ e.kind \in {"exact", "rule"} /\ e.enabled
                                   /\ d.action = normalizeDecisionAction(e.effect)
                                   /\ d.allowCritical = e.allowCritical
      BY <3>0, ExplicitDecision
    <3> QED BY <2>4, <3>1, <3>2 DEF normalizeDecisionAction
  <2> QED BY <2>3, <2>4
<1> QED BY <1>1, <1>2

---------------------------------------------------------------------------
(* Policies without lint errors                                            *)

AtMostOne(S) == \A x, y \in S : x = y

\* A policy without lint errors says at most one thing at each stage.
LEMMA LintedStages ==
    ASSUME NEW c, NEW pol \in PolicyRecords, lintPolicy(pol), NEW i \in 1 .. 10
    PROVE  AtMostOne(Stages(c, pol)[i])
<1>0. validatePolicy(pol) /\ pol.entries \in SUBSET PolicyEntries
  BY DEF lintPolicy, PolicyRecords, Finite, PolicyEntries
<1>1. ASSUME NEW a PROVE AtMostOne(ByRules(ExactOf(c, pol, a), "exact"))
  <2>1. \A e, f \in ExactOf(c, pol, a) : e = f
    BY DEF lintPolicy, ExactOf
  <2> SUFFICES ASSUME NEW x \in ByRules(ExactOf(c, pol, a), "exact"),
                      NEW y \in ByRules(ExactOf(c, pol, a), "exact")
               PROVE  x = y
    BY DEF AtMostOne
  <2>2. PICK e \in ExactOf(c, pol, a) : x = Decision(normalizeDecisionAction(e.effect), "exact", e.allowCritical)
    BY RulesDecide
  <2>3. PICK f \in ExactOf(c, pol, a) : y = Decision(normalizeDecisionAction(f.effect), "exact", f.allowCritical)
    BY RulesDecide
  <2> QED BY <2>1, <2>2, <2>3
<1>2. ASSUME NEW S \in SUBSET MatchesOf(c, pol) PROVE AtMostOne(ByRules(chooseStructuredMatch(S, c), "rules"))
  <2>1. Sortable(S, c)
    BY <1>0, PolicySortable, ValidSortable DEF Sortable
  <2>2. \A e, f \in S : e # f => e.id # f.id
    BY DEF MatchesOf, structuredRuleMatches, lintPolicy
  <2> SUFFICES ASSUME NEW x \in ByRules(chooseStructuredMatch(S, c), "rules"),
                      NEW y \in ByRules(chooseStructuredMatch(S, c), "rules")
               PROVE  x = y
    BY DEF AtMostOne
  <2>3. PICK e \in chooseStructuredMatch(S, c) :
          x = Decision(normalizeDecisionAction(e.effect), "rules", e.allowCritical)
    BY RulesDecide
  <2>4. PICK f \in chooseStructuredMatch(S, c) :
          y = Decision(normalizeDecisionAction(f.effect), "rules", f.allowCritical)
    BY RulesDecide
  <2>5. e = f
    BY <2>1, <2>2, OneRuleFirst
  <2> QED BY <2>3, <2>4, <2>5
<1>4. DeniesOf(c, pol) \in SUBSET MatchesOf(c, pol) /\ MatchesOf(c, pol) \in SUBSET MatchesOf(c, pol)
  BY DEF DeniesOf
<1>5. AtMostOne({}) /\ \A d : AtMostOne({d})
  BY DEF AtMostOne
<1>6. CASE i = 1
  <2>1. Stages(c, pol)[1] = {} \/ \E d : Stages(c, pol)[1] = {d}
    BY StageIs DEF When
  <2> QED BY <1>5, <1>6, <2>1
<1>7. CASE i = 2 BY <1>1, <1>7, StageIs
<1>8. CASE i = 3 BY <1>2, <1>4, <1>8, StageIs
<1>9. CASE i = 4
  <2>1. Stages(c, pol)[4] = {} \/ \E d : Stages(c, pol)[4] = {d}
    BY StageIs DEF When
  <2> QED BY <1>5, <1>9, <2>1
<1>10. CASE i = 5 BY <1>1, <1>10, StageIs
<1>11. CASE i = 6 BY <1>1, <1>11, StageIs
<1>12. CASE i = 7 BY <1>2, <1>4, <1>12, StageIs
<1>13. CASE i = 8
  <2>1. Stages(c, pol)[8] = {} \/ \E d : Stages(c, pol)[8] = {d}
    BY StageIs DEF When
  <2> QED BY <1>5, <1>13, <2>1
<1>14. CASE i = 9
  <2>1. Stages(c, pol)[9] = {} \/ \E d : Stages(c, pol)[9] = {d}
    BY StageIs DEF When
  <2> QED BY <1>5, <1>14, <2>1
<1>15. CASE i = 10 BY <1>5, <1>15, StageIs
<1> QED BY <1>6, <1>7, <1>8, <1>9, <1>10, <1>11, <1>12, <1>13, <1>14, <1>15

\* So it has one decision for every call.
LEMMA LintedVerdict ==
    ASSUME NEW c, NEW pol \in PolicyRecords, lintPolicy(pol), NEW session, NEW ok
    PROVE  Cardinality(evaluatePermissionRequest(c, pol, session, ok)) = 1
<1>1. PICK i \in 1 .. 10 : First(c, pol, i)
  BY FirstStage
<1>2. PICK d : d \in Stages(c, pol)[i]
  BY <1>1 DEF First
<1>3. evaluatePolicy(c, pol) = Stages(c, pol)[i]
  BY <1>1, FirstStage
<1>4. evaluatePolicy(c, pol) = {d}
  BY <1>2, <1>3, LintedStages DEF AtMostOne
<1>5. \E v : evaluatePermissionRequest(c, pol, session, ok) = {v}
  <2>1. CASE ~ok \/ ExfiltrationRisk(c) \/ InjectionSideEffectRisk(c)
    BY <2>1 DEF evaluatePermissionRequest
  <2>2. CASE ~(~ok \/ ExfiltrationRisk(c) \/ InjectionSideEffectRisk(c))
    <3> DEFINE v == IF classifyRisk(c) = "critical" THEN RiskGuard(c, d)
                    ELSE applySessionDecision(RiskGuard(c, d), c, session)
    <3>1. evaluatePermissionRequest(c, pol, session, ok) = {v}
      BY <1>4, <2>2 DEF evaluatePermissionRequest
    <3> QED BY <3>1
  <2> QED BY <2>1, <2>2
<1> QED BY <1>5, FS_Singleton

\* Two policies without lint errors, and with exact rules named apart, that
\* policy diff calls the same are the same.
LEMMA QuietDiffIsSame ==
    ASSUME NEW before \in PolicyRecords, NEW after \in PolicyRecords, lintPolicy(before), lintPolicy(after),
           NamedApart(before), NamedApart(after), ~diffPolicies(before, after)
    PROVE  before = after
<1> DEFINE list(pol) == {e \in pol.entries : e.kind \in {"allowed", "approval", "blocked"}}
           ids(pol, kind) == {e.id : e \in {x \in pol.entries : x.kind = kind}}
           named(pol, kind, i) == CHOOSE e \in pol.entries : e.kind = kind /\ e.id = i
<1>1. /\ before.default = after.default /\ list(before) = list(after)
      /\ \A kind \in {"exact", "rule"} :
            /\ ids(before, kind) = ids(after, kind)
            /\ \A i \in ids(after, kind) : named(before, kind, i) = named(after, kind, i)
  BY DEF diffPolicies
<1>2. ASSUME NEW p \in {before, after}, NEW e \in p.entries, e.kind \in {"exact", "rule"}
      PROVE  e.id \in ids(p, e.kind) /\ named(p, e.kind, e.id) = e
  <2>1. \A f \in p.entries : f.kind = e.kind /\ f.id = e.id => f = e
    BY <1>2 DEF lintPolicy, NamedApart
  <2> QED BY <2>1
<1>3. ASSUME NEW p \in {before, after}, NEW kind \in {"exact", "rule"}, NEW i \in ids(p, kind)
      PROVE  named(p, kind, i) \in p.entries
  OBVIOUS
<1>4. ASSUME NEW p \in {before, after}, NEW q \in {before, after}, NEW e \in p.entries PROVE e \in q.entries
  <2>1. CASE e.kind \in {"allowed", "approval", "blocked"}
    BY <1>1, <2>1
  <2>2. CASE e.kind \in {"exact", "rule"}
    <3>1. e.id \in ids(p, e.kind) /\ named(p, e.kind, e.id) = e
      BY <1>2, <2>2
    <3>2. e.id \in ids(q, e.kind) /\ named(p, e.kind, e.id) = named(q, e.kind, e.id)
      <4> HIDE DEF ids, named
      <4> QED BY <1>1, <2>2, <3>1
    <3>3. named(q, e.kind, e.id) \in q.entries
      BY <1>3, <2>2, <3>2
    <3> QED BY <3>1, <3>2, <3>3
  <2>3. e.kind \in {"allowed", "approval", "blocked", "exact", "rule"}
    BY DEF PolicyRecords, Finite, ExactRules, StructuredRules, LegacyPatterns
  <2> QED BY <2>1, <2>2, <2>3
<1>5. before.entries = after.entries
  BY <1>4
<1> QED BY <1>1, <1>5 DEF PolicyRecords

---------------------------------------------------------------------------
(* Spellings                                                               *)

\* Two calls that differ in nothing the classification looks at.
Alike(a, b) ==
    /\ a.category = b.category \/ {a.category, b.category} = {"file", "filesystem"}
    /\ a.operation = b.operation \/ {a.operation, b.operation} = {"execute", "run"}
    /\ a.scope = b.scope /\ a.secrets = b.secrets /\ a.injection = b.injection
    /\ a.sensitivity = b.sensitivity \/ {a.sensitivity, b.sensitivity} = {"unknown", ""}

\* Two spellings of a call normalise to calls that the classifiers cannot tell apart.
LEMMA SpelledAlike ==
    ASSUME NEW q \in SpellingAsked
    PROVE  Alike(normalizeToolCall(q.raw), q.call)
<1>1. /\ q.raw.form \in {"call", "action"} /\ q.raw.call \in CallRecords /\ q.call \in CallRecords
      /\ q.call.category # "" /\ q.call.operation # "" /\ q.call.scope # "" /\ Spells(q.raw, q.call)
  BY DEF SpellingAsked
<1> DEFINE c == q.raw.call
           n == normalizeToolCall(q.raw)
<1>2. CASE q.raw.form = "call"
  <2>1. n = c
    BY <1>2 DEF normalizeToolCall
  <2> QED BY <1>1, <1>2, <2>1 DEF Alike, Spells, Spelt
<1>3. CASE q.raw.form = "action"
  <2>1. /\ n.category = IF c.category = "" THEN categoryFromActionType(c.name) ELSE c.category
        /\ n.operation = IF c.operation = "" THEN operationFromActionType(c.name) ELSE c.operation
        /\ n.scope = IF c.scope = "" THEN "local" ELSE c.scope
        /\ n.sensitivity = IF c.sensitivity = "" THEN "unknown" ELSE c.sensitivity
        /\ n.secrets = c.secrets /\ n.injection = c.injection
    BY <1>1, <1>3 DEF normalizeToolCall, CallRecords
  <2> HIDE DEF n
  <2>2. n.category = q.call.category \/ {n.category, q.call.category} = {"file", "filesystem"}
    <3>1. CASE c.category # ""
      BY <1>1, <1>3, <2>1, <3>1 DEF Spells, Spelt
    <3>2. CASE c.category = ""
      <4>1. c.name.category = q.call.category \/ {c.name.category, q.call.category} = {"file", "filesystem"}
        BY <1>1, <1>3, <3>2 DEF Spells, Spelt
      <4>2. c.name.category # ""
        BY <1>1, <4>1
      <4> QED BY <2>1, <3>2, <4>1, <4>2 DEF categoryFromActionType
    <3> QED BY <3>1, <3>2
  <2>3. n.operation = q.call.operation \/ {n.operation, q.call.operation} = {"execute", "run"}
    <3>1. CASE c.operation # ""
      BY <1>1, <1>3, <2>1, <3>1 DEF Spells, Spelt
    <3>2. CASE c.operation = ""
      <4>1. c.name.operation = q.call.operation \/ {c.name.operation, q.call.operation} = {"run", "execute"}
        BY <1>1, <1>3, <3>2 DEF Spells, Spelt
      <4>2. c.name.operation # ""
        BY <1>1, <4>1
      <4> QED BY <2>1, <3>2, <4>1, <4>2 DEF operationFromActionType
    <3> QED BY <3>1, <3>2
  <2>4. n.scope = q.call.scope /\ n.secrets = q.call.secrets /\ n.injection = q.call.injection
    BY <1>1, <2>1 DEF Spells
  <2>5. n.sensitivity = q.call.sensitivity \/ {n.sensitivity, q.call.sensitivity} = {"unknown", ""}
    BY <1>1, <2>1 DEF Spells
  <2> QED BY <2>2, <2>3, <2>4, <2>5 DEF Alike, n
<1> QED BY <1>1, <1>2, <1>3

\* Such calls are classified alike.
LEMMA AlikeClassified ==
    ASSUME NEW a, NEW b, Alike(a, b)
    PROVE  /\ classifyRisk(a) = classifyRisk(b)
           /\ classifyDataFlow(a) = classifyDataFlow(b)
           /\ classifySideEffect(a) = classifySideEffect(b)
<1>1. classifyDataFlow(a) = classifyDataFlow(b)
  BY DEF Alike, classifyDataFlow
<1>2. classifySideEffect(a) = classifySideEffect(b)
  BY DEF Alike, classifySideEffect
<1>3. Raises(a) = Raises(b)
  <2> DEFINE file(c) == c.category \in {"file", "filesystem"}
             guarded(c) == c.sensitivity \in {"private", "secret"}
             F1(c) == file(c) /\ c.operation = "read" /\ ~guarded(c)
             G1(c) == IF c.sensitivity = "public" THEN "safe" ELSE "low"
             F2(c) == file(c) /\ c.operation = "read" /\ guarded(c)
             G2(c) == "medium"
             F3(c) == file(c) /\ c.operation \in {"write", "update", "create"}
             G3(c) == "medium"
             F4(c) == file(c) /\ c.operation = "delete"
             G4(c) == IF guarded(c) THEN "critical" ELSE "high"
             F5(c) == c.category = "email" \/ c.operation = "send"
             G5(c) == "high"
             F6(c) == c.category = "shell" \/ c.operation \in {"execute", "run"}
             G6(c) == "high"
             F7(c) == c.category = "payment"
             G7(c) == "critical"
             F8(c) == c.sensitivity = "private"
             G8(c) == "medium"
             F9(c) == c.sensitivity = "secret"
             G9(c) == IF classifyDataFlow(c) = "external" THEN "critical" ELSE "high"
             F10(c) == c.secrets
             G10(c) == IF ExfiltrationRisk(c) THEN "critical" ELSE "high"
             F11(c) == Injected(c)
             G11(c) == IF InjectionSideEffectRisk(c) THEN "critical" ELSE "high"
             F12(c) == classifyDataFlow(c) = "unknown" /\ classifySideEffect(c) # "read_only"
             G12(c) == "medium"
  <2>1. \A c : Raises(c) = {<<F1(c), G1(c)>>, <<F2(c), G2(c)>>, <<F3(c), G3(c)>>, <<F4(c), G4(c)>>,
                             <<F5(c), G5(c)>>, <<F6(c), G6(c)>>, <<F7(c), G7(c)>>, <<F8(c), G8(c)>>,
                             <<F9(c), G9(c)>>, <<F10(c), G10(c)>>, <<F11(c), G11(c)>>, <<F12(c), G12(c)>>}
    BY Zenon DEF Raises
  <2>2. F1(a) = F1(b) /\ F2(a) = F2(b) /\ F3(a) = F3(b) /\ F4(a) = F4(b)
    BY DEF Alike
  <2>3. F5(a) = F5(b) /\ F6(a) = F6(b) /\ F7(a) = F7(b) /\ F8(a) = F8(b) /\ F9(a) = F9(b)
    BY DEF Alike
  <2>4. F10(a) = F10(b) /\ F11(a) = F11(b) /\ F12(a) = F12(b)
    BY <1>1, <1>2 DEF Alike, Injected
  <2>5. /\ G1(a) = G1(b) /\ G4(a) = G4(b) /\ G9(a) = G9(b) /\ G10(a) = G10(b) /\ G11(a) = G11(b)
        /\ G2(a) = G2(b) /\ G3(a) = G3(b) /\ G5(a) = G5(b) /\ G6(a) = G6(b) /\ G7(a) = G7(b)
        /\ G8(a) = G8(b) /\ G12(a) = G12(b)
    BY <1>1, <1>2 DEF Alike, ExfiltrationRisk, InjectionSideEffectRisk, Injected
  <2> HIDE DEF F1, F2, F3, F4, F5, F6, F7, F8, F9, F10, F11, F12, G1, G2, G3, G4, G5, G6, G7, G8, G9, G10, G11, G12
  <2> QED BY <2>1, <2>2, <2>3, <2>4, <2>5
<1> QED BY <1>1, <1>2, <1>3 DEF classifyRisk

\* Nor can the guards tell them apart, whatever the policy says of either.
LEMMA AlikeGuarded ==
    ASSUME NEW a, NEW b, Alike(a, b)
    PROVE  ByClass(a) = ByClass(b)
<1>1. /\ classifyRisk(a) = classifyRisk(b) /\ classifyDataFlow(a) = classifyDataFlow(b)
      /\ classifySideEffect(a) = classifySideEffect(b)
  BY AlikeClassified
<1>2. a.secrets = b.secrets /\ Injected(a) = Injected(b)
  BY DEF Alike, Injected
<1>3. (ExfiltrationRisk(a) \/ InjectionSideEffectRisk(a)) = (ExfiltrationRisk(b) \/ InjectionSideEffectRisk(b))
  BY <1>1, <1>2 DEF ExfiltrationRisk, InjectionSideEffectRisk
<1>4. \A d \in PolicyDecisions : RiskGuard(a, d) = RiskGuard(b, d)
  BY <1>1, <1>2 DEF RiskGuard
<1>5. [d \in PolicyDecisions |-> RiskGuard(a, d)] = [d \in PolicyDecisions |-> RiskGuard(b, d)]
  BY <1>4
<1> HIDE DEF PolicyDecisions, RiskGuard
<1> QED BY <1>1, <1>3, <1>5 DEF ByClass

---------------------------------------------------------------------------
(* The answers                                                             *)

PolicyAnswer ==
    [before  |-> Verdicts(given.policy),
     after   |-> Verdicts(given.edited),
     linted  |-> lintPolicy(given.policy) /\ lintPolicy(given.edited),
     changed |-> diffPolicies(given.policy, given.edited)]

SpellingAnswer == [as |-> ByClass(normalizeToolCall(given.raw)), meant |-> ByClass(given.call)]

\* A question of its kind, without an answer or with the one the code gives.
PolicyAnswered ==
    \/ part = "policy" /\ given \in PolicyAsked /\ answers \in {<<>>, <<PolicyAnswer>>}
    \/ part = "spelling" /\ given \in SpellingAsked /\ answers \in {<<>>, <<SpellingAnswer>>}

\* What is in answers is what the procedures say of what is given.
LEMMA PolicyIsAnswered == PolicySpec => []PolicyAnswered
<1>1. Ask("policy", PolicyAsked) \/ Ask("spelling", SpellingAsked) => PolicyAnswered
  BY DEF Ask, PolicyAnswered
<1>2. PolicyAnswered /\ [AskPolicy \/ AskSpelling]_caseVars => PolicyAnswered'
  <2> SUFFICES ASSUME PolicyAnswered, [AskPolicy \/ AskSpelling]_caseVars PROVE PolicyAnswered'
    OBVIOUS
  <2>1. CASE AskPolicy
    <3>1. part = "policy" /\ answers' = <<PolicyAnswer>> /\ part' = part /\ given' = given
      BY <2>1 DEF AskPolicy, Answer, PolicyAnswer
    <3>2. PolicyAnswer' = PolicyAnswer
      BY <3>1 DEF PolicyAnswer, Verdicts
    <3> QED BY <3>1, <3>2, Zenon DEF PolicyAnswered
  <2>2. CASE AskSpelling
    <3>1. part = "spelling" /\ answers' = <<SpellingAnswer>> /\ part' = part /\ given' = given
      BY <2>2 DEF AskSpelling, Answer, SpellingAnswer
    <3>2. SpellingAnswer' = SpellingAnswer
      BY <3>1 DEF SpellingAnswer
    <3> QED BY <3>1, <3>2, Zenon DEF PolicyAnswered
  <2>3. CASE UNCHANGED caseVars
    <3>1. part' = part /\ given' = given /\ answers' = answers
      BY <2>3 DEF caseVars
    <3>2. PolicyAnswer' = PolicyAnswer /\ SpellingAnswer' = SpellingAnswer
      BY <3>1 DEF PolicyAnswer, SpellingAnswer, Verdicts
    <3> QED BY <3>1, <3>2 DEF PolicyAnswered
  <2> QED BY <2>1, <2>2, <2>3
<1> QED BY <1>1, <1>2, PTL DEF PolicySpec

\* The answer to a question about a policy, field by field.
LEMMA AnswerOfPolicy ==
    ASSUME PolicyAnswered, Answered("policy")
    PROVE  /\ given.policy \in PolicyRecords /\ given.edited \in PolicyRecords
           /\ \A c \in Calls :
                 /\ answer.before[c] = evaluatePermissionRequest(c, given.policy, given.session, given.authorityOk)
                 /\ answer.after[c] = evaluatePermissionRequest(c, given.edited, given.session, given.authorityOk)
           /\ answer.before = Verdicts(given.policy) /\ answer.after = Verdicts(given.edited)
           /\ answer.linted <=> lintPolicy(given.policy) /\ lintPolicy(given.edited)
           /\ answer.changed <=> diffPolicies(given.policy, given.edited)
<1>1. given \in PolicyAsked /\ answers = <<PolicyAnswer>>
  BY DEF PolicyAnswered, Answered
<1>2. answer = PolicyAnswer
  BY <1>1 DEF answer
<1>3. given.policy \in PolicyRecords /\ given.edited \in PolicyRecords
  BY <1>1 DEF PolicyAsked
<1> QED BY <1>2, <1>3 DEF PolicyAnswer, Verdicts

\* The guards hold whatever the policy is.
THEOREM GuardsAlwaysHold == PolicySpec => []GuardsCannotBeOverridden
<1>1. ASSUME PolicyAnswered PROVE SecretsStayInside
  <2> SUFFICES ASSUME Answered("policy"), NEW c \in Calls, c.secrets, Leaves(c) PROVE answer.before[c] = {"deny"}
    BY DEF SecretsStayInside
  <2>1. ExfiltrationRisk(c)
    BY LeavingIsExternal DEF ExfiltrationRisk
  <2> QED BY <1>1, <2>1, AnswerOfPolicy DEF evaluatePermissionRequest
<1>2. ASSUME PolicyAnswered PROVE DenialWins
  <2> SUFFICES ASSUME Answered("policy"), NEW e \in given.edited.entries, Denial(e), NEW c \in Calls
               PROVE  /\ Covers(e, c) => answer.after[c] \subseteq {"deny", "throws"}
                      /\ given.edited = [given.policy EXCEPT !.entries = @ \cup {e}]
                            => answer.after[c] \subseteq answer.before[c] \cup {"deny"}
    BY DEF DenialWins
  <2>1. c \in CallRecords
    BY CallsAssumption
  <2> QED BY <1>2, <2>1, AnswerOfPolicy, DenialWinsAlways
<1>3. ASSUME PolicyAnswered PROVE CriticalNeedsOptIn
  <2> SUFFICES ASSUME Answered("policy"), NEW c \in Calls,
                      \/ c.category = "payment"
                      \/ c.category = "file" /\ c.operation = "delete" /\ c.sensitivity \in {"private", "secret"}
                      \/ c.sensitivity = "secret" /\ Leaves(c)
               PROVE  /\ "needs_approval" \notin answer.before[c]
                      /\ "allow" \in answer.before[c] =>
                            \E e \in given.policy.entries : /\ e.kind \in {"exact", "rule"} /\ e.enabled
                                                            /\ e.effect = "allow" /\ e.allowCritical
    BY DEF CriticalNeedsOptIn
  <2>1. classifyRisk(c) = "critical" /\ (classifySideEffect(c) = "read_only" => classifyDataFlow(c) = "external")
    BY CriticalCall
  <2>2. answer.before[c] = evaluatePermissionRequest(c, given.policy, given.session, given.authorityOk)
    BY <1>3, AnswerOfPolicy
  <2> QED BY <2>1, <2>2, CriticalOptIn
<1>4. PolicyAnswered => GuardsCannotBeOverridden
  BY <1>1, <1>2, <1>3 DEF GuardsCannotBeOverridden
<1> QED BY <1>4, PolicyIsAnswered, PTL

\* A policy means one thing, whatever it is.
THEOREM PolicyIsUnambiguous == PolicySpec => []PolicyHasOneMeaning
<1>1. ASSUME PolicyAnswered PROVE LintedPolicyHasOneVerdict
  <2> SUFFICES ASSUME Answered("policy"), answer.linted, NEW c \in Calls PROVE Cardinality(answer.before[c]) = 1
    BY DEF LintedPolicyHasOneVerdict
  <2> QED BY <1>1, AnswerOfPolicy, LintedVerdict
<1>2. ASSUME PolicyAnswered PROVE QuietDiffChangesNothing
  <2> SUFFICES ASSUME Answered("policy"), answer.linted, ~answer.changed,
                      NamedApart(given.policy), NamedApart(given.edited)
               PROVE  answer.before = answer.after
    BY DEF QuietDiffChangesNothing
  <2>1. given.policy = given.edited
    BY <1>2, AnswerOfPolicy, QuietDiffIsSame
  <2> QED BY <1>2, <2>1, AnswerOfPolicy
<1>3. ASSUME PolicyAnswered PROVE GuardsIgnoreSpelling
  <2> SUFFICES ASSUME Answered("spelling") PROVE answer.as = answer.meant
    BY DEF GuardsIgnoreSpelling
  <2>1. given \in SpellingAsked /\ answer = SpellingAnswer
    BY <1>3 DEF PolicyAnswered, Answered, answer
  <2>2. Alike(normalizeToolCall(given.raw), given.call)
    BY <2>1, SpelledAlike
  <2> QED BY <2>1, <2>2, AlikeGuarded, Zenon DEF SpellingAnswer
<1>4. PolicyAnswered => PolicyHasOneMeaning
  BY <1>1, <1>2, <1>3 DEF PolicyHasOneMeaning
<1> QED BY <1>4, PolicyIsAnswered, PTL

---------------------------------------------------------------------------
(* PolicyChanges: what a call is told                                      *)

\* What is denied before the policy is asked; else what the risk guards make of
\* the policy's decisions.
Early(c) == ExfiltrationRisk(c) \/ InjectionSideEffectRisk(c)
Guarded(c, pol) == {RiskGuard(c, d) : d \in evaluatePolicy(c, pol)}

\* What a call is told that no answer was remembered for.
LEMMA WithoutMemory ==
    ASSUME NEW c, NEW pol
    PROVE  evaluatePermissionRequest(c, pol, NoMemory(c), TRUE) = IF Early(c) THEN {"deny"} ELSE Guarded(c, pol)
<1>1. \A a : applySessionDecision(a, c, NoMemory(c)) = a
  BY DEF applySessionDecision, NoMemory
<1> QED BY <1>1 DEF evaluatePermissionRequest, Early, Guarded

\* evaluatePolicy always decides.
LEMMA SomeDecision == ASSUME NEW c, NEW pol PROVE evaluatePolicy(c, pol) # {}
<1>1. PICK i \in 1 .. 10 : First(c, pol, i)
  BY FirstStage
<1> QED BY <1>1, FirstStage DEF First

\* Every decision is one of the first stage that speaks.
LEMMA DecidedAt ==
    ASSUME NEW c, NEW pol, NEW d \in evaluatePolicy(c, pol)
    PROVE  \E i \in 1 .. 10 : First(c, pol, i) /\ d \in Stages(c, pol)[i]
BY FirstStage

\* A policy that does not validate decides nothing.
LEMMA InvalidThrows ==
    ASSUME NEW c, NEW pol, ~validatePolicy(pol)
    PROVE  evaluatePolicy(c, pol) = {Decision("throws", "validation", FALSE)}
<1>1. Stages(c, pol)[1] = {Decision("throws", "validation", FALSE)}
  BY StageIs DEF When
<1>2. First(c, pol, 1)
  BY <1>1 DEF First
<1>3. 1 \in 1 .. 10
  OBVIOUS
<1> QED BY <1>1, <1>2, <1>3, FirstStage

\* Two policies that a call cannot tell apart decide it alike.
LEMMA SameForCall ==
    ASSUME NEW c, NEW p, NEW q, validatePolicy(p) <=> validatePolicy(q), p.default = q.default,
           \A a : ExactOf(c, p, a) = ExactOf(c, q, a), MatchesOf(c, p) = MatchesOf(c, q),
           \A list \in {"allowed", "approval", "blocked"} : bestMatch(p, list, c) = bestMatch(q, list, c)
    PROVE  evaluatePolicy(c, p) = evaluatePolicy(c, q)
<1>1. DeniesOf(c, p) = DeniesOf(c, q)
  BY DEF DeniesOf
<1>2. /\ ExactOf(c, p, "deny") = ExactOf(c, q, "deny") /\ ExactOf(c, p, "allow") = ExactOf(c, q, "allow")
      /\ ExactOf(c, p, "needs_approval") = ExactOf(c, q, "needs_approval")
      /\ bestMatch(p, "blocked", c) = bestMatch(q, "blocked", c)
      /\ bestMatch(p, "approval", c) = bestMatch(q, "approval", c)
      /\ bestMatch(p, "allowed", c) = bestMatch(q, "allowed", c)
  OBVIOUS
<1>3. Stages(c, p) = Stages(c, q)
  BY <1>1, <1>2, Zenon DEF Stages, When
<1> QED BY <1>3, EvaluateStages DEF First

---------------------------------------------------------------------------
(* PolicyChanges: guided rules                                             *)

\* A rule named by the effect and the action it is built from.
LEMMA GuidedRuleIs ==
    ASSUME NEW o \in GuidedOptions
    PROVE  LET r == buildGuidedPolicyRule(o) IN
           /\ r.kind = "rule" /\ r.id = GuidedId(o) /\ r.actions = {o.action}
           /\ normalizeDecisionAction(r.effect) \in Decisions
<1>1. normalizeDecisionAction(normalizeDecisionAction(o.effect)) \in Decisions
  BY DEF normalizeDecisionAction, Decisions, GuidedOptions
<1> QED BY <1>1, Zenon DEF buildGuidedPolicyRule

\* A call that neither the new rule nor the one it replaces is about is decided
\* as before.
LEMMA GuidedRuleIsLocal ==
    ASSUME NEW c, NEW pol \in ValidPolicies, NEW o \in GuidedOptions,
           ~matchesPattern(o.action, c),
           \A e \in pol.entries : e.kind = "rule" /\ e.id = GuidedId(o) => \A p \in e.actions : ~matchesPattern(p, c),
           NEW next, next = previewGuidedPolicyRule(pol, buildGuidedPolicyRule(o))
    PROVE  evaluatePolicy(c, next) = evaluatePolicy(c, pol)
<1> DEFINE r == buildGuidedPolicyRule(o)
           gone == {e \in pol.entries : e.kind = "rule" /\ e.id = r.id}
<1>1. /\ r.kind = "rule" /\ r.id = GuidedId(o) /\ r.actions = {o.action}
      /\ normalizeDecisionAction(r.effect) \in Decisions
  BY GuidedRuleIs
<1> HIDE DEF r
<1>2. next.default = pol.default /\ next.entries = (pol.entries \ gone) \cup {r}
  BY DEF previewGuidedPolicyRule, ValidPolicies, PolicyRecords, r
<1>3. \A e \in gone \cup {r} : e.kind = "rule" /\ ~structuredRuleMatches(e, c)
  BY <1>1 DEF structuredRuleMatches
<1> HIDE DEF gone
<1>4. validatePolicy(pol)
  BY DEF ValidPolicies
<1>5. validatePolicy(next)
  BY <1>1, <1>2, <1>4 DEF validatePolicy
<1>6. \A a : ExactOf(c, next, a) = ExactOf(c, pol, a)
  BY <1>2, <1>3 DEF ExactOf
<1>7. MatchesOf(c, next) = MatchesOf(c, pol)
  BY <1>2, <1>3 DEF MatchesOf
<1>8. ASSUME NEW list \in {"allowed", "approval", "blocked"} PROVE bestMatch(next, list, c) = bestMatch(pol, list, c)
  <2>1. {x \in next.entries : x.kind = list /\ matchesPattern(x.pattern, c)}
        = {x \in pol.entries : x.kind = list /\ matchesPattern(x.pattern, c)}
    BY <1>2, <1>3
  <2> QED BY <2>1 DEF bestMatch
<1> QED BY <1>2, <1>4, <1>5, <1>6, <1>7, <1>8, SameForCall

---------------------------------------------------------------------------
(* PolicyChanges: the migration                                            *)

\* A legacy list has a pattern for the call.
Listed(pol, list, c) == \E x \in pol.entries : x.kind = list /\ matchesPattern(x.pattern, c)

LegacyPolicies == {pol \in ValidPolicies : detectPolicyVersion(pol, 1) = 1}

Migrated(e) == CASE e.kind = "blocked" -> MigratedRule(e.pattern, "deny", 300)
                 [] e.kind = "approval" -> MigratedRule(e.pattern, "needs_approval", 200)
                 [] e.kind = "allowed" -> MigratedRule(e.pattern, "allow", 100)
                 [] OTHER -> e

\* The entries of a legacy policy are exact rules and patterns.
LEMMA LegacyEntriesAre ==
    ASSUME NEW pol \in LegacyPolicies
    PROVE  /\ pol.entries \in SUBSET PolicyEntries /\ IsFiniteSet(pol.entries) /\ pol.default \in STRING
           /\ \A e \in pol.entries : e.kind \in {"exact", "blocked", "approval", "allowed"}
           /\ \A e \in pol.entries : e.kind \in {"blocked", "approval", "allowed"} => e.pattern \in ActionPatterns
<1>1. pol.entries \in SUBSET PolicyEntries /\ IsFiniteSet(pol.entries) /\ pol.default \in STRING
  BY DEF LegacyPolicies, ValidPolicies, PolicyRecords, Finite, PolicyEntries
<1>2. \A e \in pol.entries : e.kind # "rule"
  BY DEF LegacyPolicies, detectPolicyVersion
<1>3. \A e \in pol.entries : e \in ExactRules \/ e \in LegacyPatterns
  BY <1>1, <1>2 DEF PolicyEntries, StructuredRules
<1>4. \A e \in ExactRules : e.kind = "exact"
  BY DEF ExactRules
<1>5. \A e \in LegacyPatterns : e.kind \in {"blocked", "approval", "allowed"} /\ e.pattern \in ActionPatterns
  BY DEF LegacyPatterns
<1> QED BY <1>1, <1>3, <1>4, <1>5

\* A migrated rule matches what its pattern matches.
LEMMA MigratedMatches ==
    ASSUME NEW p \in ActionPatterns, NEW effect \in {"deny", "needs_approval", "allow"}, NEW n \in Int, NEW c
    PROVE  /\ Comparable(MigratedRule(p, effect, n))
           /\ structuredRuleMatches(MigratedRule(p, effect, n), c) <=> matchesPattern(p, c)
<1> DEFINE r == MigratedRule(p, effect, n)
<1>1. r = [kind |-> "rule", id |-> 0, effect |-> effect, priority |-> n, actions |-> {p},
           resources |-> {[under |-> "*", rank |-> 0]}, conditions |-> {}, atLeast |-> "safe", atMost |-> "critical",
           allowCritical |-> FALSE, enabled |-> TRUE]
  BY Zenon DEF MigratedRule
<1> HIDE DEF r
<1>2. Comparable(r)
  <2>1. r.priority = n /\ r.id = 0 /\ r.conditions = {} /\ r.resources = {[under |-> "*", rank |-> 0]}
    BY <1>1
  <2> QED BY <2>1, FS_EmptySet DEF Comparable
<1>3. structuredRuleMatches(r, c) <=> matchesPattern(p, c)
  <2>1. RiskRank[classifyRisk(c)] \in RiskRank["safe"] .. RiskRank["critical"]
    BY RiskOfCall DEF RiskRank
  <2>2. \E x \in r.resources : matchesResourcePattern(x, c)
    BY <1>1 DEF matchesResourcePattern
  <2> QED BY <1>1, <2>1, <2>2 DEF structuredRuleMatches
<1> QED BY <1>2, <1>3 DEF r

\* The migrated policy, entry by entry.
LEMMA MigratedPolicyIs ==
    ASSUME NEW pol \in LegacyPolicies, NEW next, next = migratePolicyToV2(pol, 1)
    PROVE  /\ next.default = normalizeDecisionAction(pol.default)
           /\ next.entries = {Migrated(e) : e \in pol.entries}
           /\ IsFiniteSet(next.entries) /\ \A x \in next.entries : x.kind = "rule" => Comparable(x)
           /\ validatePolicy(next)
<1>1. next = [default |-> normalizeDecisionAction(pol.default), entries |-> {Migrated(e) : e \in pol.entries}]
  <2>1. detectPolicyVersion(pol, 1) # 2
    BY DEF LegacyPolicies
  <2> QED BY <2>1, Zenon DEF migratePolicyToV2, Migrated
<1>2. next.default = normalizeDecisionAction(pol.default) /\ next.entries = {Migrated(e) : e \in pol.entries}
  BY <1>1
<1>3. ASSUME NEW e \in pol.entries
      PROVE  /\ Migrated(e).kind = "rule" => Comparable(Migrated(e))
             /\ Migrated(e).kind = "rule" => normalizeDecisionAction(Migrated(e).effect) \in Decisions
             /\ Migrated(e).kind = "exact" => normalizeDecisionAction(Migrated(e).effect) \in Decisions \ {"dry_run_only"}
             /\ Migrated(e).kind \in {"rule", "exact"}
  <2>1. CASE e.kind = "exact"
    <3>1. Migrated(e) = e
      BY <2>1 DEF Migrated
    <3>2. validatePolicy(pol)
      BY DEF LegacyPolicies, ValidPolicies
    <3>3. normalizeDecisionAction(e.effect) \in Decisions \ {"dry_run_only"}
      BY <2>1, <3>2 DEF validatePolicy
    <3> QED BY <2>1, <3>1, <3>3, LegacyEntriesAre
  <2>2. CASE e.kind \in {"blocked", "approval", "allowed"}
    <3>1. PICK effect \in {"deny", "needs_approval", "allow"}, n \in Int : Migrated(e) = MigratedRule(e.pattern, effect, n)
      BY <2>2 DEF Migrated
    <3>2. e.pattern \in ActionPatterns
      BY <2>2, LegacyEntriesAre
    <3>3. Comparable(Migrated(e))
      BY <3>1, <3>2, MigratedMatches
    <3>4. Migrated(e).kind = "rule" /\ Migrated(e).effect = effect
      BY <3>1 DEF MigratedRule
    <3> QED BY <3>3, <3>4 DEF normalizeDecisionAction, Decisions
  <2> QED BY <2>1, <2>2, LegacyEntriesAre
<1>4. normalizeDecisionAction(next.default) \in Decisions
  <2>1. normalizeDecisionAction(pol.default) \in Decisions
    BY DEF LegacyPolicies, ValidPolicies, validatePolicy
  <2>2. normalizeDecisionAction(normalizeDecisionAction(pol.default)) = normalizeDecisionAction(pol.default)
    BY DEF normalizeDecisionAction
  <2> QED BY <1>2, <2>1, <2>2
<1>5. IsFiniteSet(next.entries)
  <2> DEFINE f == [e \in pol.entries |-> Migrated(e)]
  <2>1. f \in Surjection(pol.entries, next.entries)
    BY <1>2 DEF Surjection
  <2> QED BY <2>1, LegacyEntriesAre, FS_Surjection
<1>6. \A x \in next.entries : x.kind = "rule" => Comparable(x)
  BY <1>2, <1>3
<1>7. validatePolicy(next)
  <2>1. ASSUME NEW x \in next.entries
        PROVE  /\ x.kind = "rule" => normalizeDecisionAction(x.effect) \in Decisions
               /\ x.kind = "exact" => normalizeDecisionAction(x.effect) \in Decisions \ {"dry_run_only"}
    BY <1>2, <1>3
  <2> QED BY <1>4, <2>1 DEF validatePolicy
<1> QED BY <1>2, <1>5, <1>6, <1>7

\* The legacy lists, and the effects a migrated rule can have.
LegacyLists == {"allowed", "approval", "blocked"}
PlainEffects == {"deny", "needs_approval", "allow"}
PlainRules(rules) == \A x \in rules : x.effect \in PlainEffects /\ x.allowCritical = FALSE

\* Two policies have the same exact rules for a call.
SameExact(c, p, q) == \A a : ExactOf(c, p, a) = ExactOf(c, q, a)

\* What the migrated policy has for a call, and what it no longer has.
LEMMA MigratedForCall ==
    ASSUME NEW pol \in LegacyPolicies, NEW next, next = migratePolicyToV2(pol, 1), NEW c
    PROVE  /\ SameExact(c, next, pol)
           /\ PlainRules(MatchesOf(c, next))
           /\ \A x \in MatchesOf(c, next) : x.effect = "deny" => Listed(pol, "blocked", c)
           /\ \A x \in MatchesOf(c, next) : x.effect = "allow" => x.priority = 100 /\ Listed(pol, "allowed", c)
           /\ \A x \in MatchesOf(c, next) : x.effect = "needs_approval" => x.priority = 200 /\ Listed(pol, "approval", c)
           /\ Listed(pol, "blocked", c) => \E x \in MatchesOf(c, next) : x.effect = "deny"
           /\ Listed(pol, "allowed", c) => \E x \in MatchesOf(c, next) : x.effect = "allow"
           /\ Listed(pol, "approval", c) => \E x \in MatchesOf(c, next) : x.effect = "needs_approval"
           /\ \A list \in LegacyLists : bestMatch(next, list, c) < 0
<1>1. next.entries = {Migrated(e) : e \in pol.entries}
  BY MigratedPolicyIs
<1> DEFINE Rules(list, effect, n) ==
             \A e \in pol.entries : e.kind = list =>
                /\ Migrated(e).kind = "rule" /\ Migrated(e).effect = effect /\ Migrated(e).priority = n
                /\ Migrated(e).allowCritical = FALSE
                /\ structuredRuleMatches(Migrated(e), c) <=> matchesPattern(e.pattern, c)
<1>2. Rules("blocked", "deny", 300) /\ Rules("approval", "needs_approval", 200) /\ Rules("allowed", "allow", 100)
  <2>1. ASSUME NEW e \in pol.entries, NEW effect \in {"deny", "needs_approval", "allow"}, NEW n \in Int,
               Migrated(e) = MigratedRule(e.pattern, effect, n), e.kind \in {"blocked", "approval", "allowed"}
        PROVE  /\ Migrated(e).kind = "rule" /\ Migrated(e).effect = effect /\ Migrated(e).priority = n
               /\ Migrated(e).allowCritical = FALSE
               /\ structuredRuleMatches(Migrated(e), c) <=> matchesPattern(e.pattern, c)
    <3>1. e.pattern \in ActionPatterns
      BY <2>1, LegacyEntriesAre
    <3>2. structuredRuleMatches(Migrated(e), c) <=> matchesPattern(e.pattern, c)
      BY <2>1, <3>1, MigratedMatches
    <3>3. /\ Migrated(e).kind = "rule" /\ Migrated(e).effect = effect /\ Migrated(e).priority = n
          /\ Migrated(e).allowCritical = FALSE
      BY <2>1 DEF MigratedRule
    <3> QED BY <3>2, <3>3
  <2>2. \A e : e.kind = "blocked" => Migrated(e) = MigratedRule(e.pattern, "deny", 300)
    BY DEF Migrated
  <2>3. \A e : e.kind = "approval" => Migrated(e) = MigratedRule(e.pattern, "needs_approval", 200)
    BY DEF Migrated
  <2>4. \A e : e.kind = "allowed" => Migrated(e) = MigratedRule(e.pattern, "allow", 100)
    BY DEF Migrated
  <2>5. 100 \in Int /\ 200 \in Int /\ 300 \in Int
    OBVIOUS
  <2>6. Rules("blocked", "deny", 300)
    BY <2>1, <2>2, <2>5
  <2>7. Rules("approval", "needs_approval", 200)
    BY <2>1, <2>3, <2>5
  <2>8. Rules("allowed", "allow", 100)
    BY <2>1, <2>4, <2>5
  <2> QED BY <2>6, <2>7, <2>8
<1>3. \A e \in pol.entries : e.kind = "exact" => Migrated(e) = e
  BY DEF Migrated
<1>4. \A e \in pol.entries : e.kind \in {"exact", "blocked", "approval", "allowed"}
  BY LegacyEntriesAre
<1>5. ASSUME NEW x \in MatchesOf(c, next)
      PROVE  \E e \in pol.entries : x = Migrated(e) /\ e.kind \in {"blocked", "approval", "allowed"}
                                    /\ matchesPattern(e.pattern, c)
  <2>1. PICK e \in pol.entries : x = Migrated(e)
    BY <1>1 DEF MatchesOf
  <2>2. x.kind = "rule" /\ structuredRuleMatches(x, c)
    BY DEF MatchesOf, structuredRuleMatches
  <2>3. e.kind # "exact"
    BY <1>3, <2>1, <2>2
  <2> QED BY <1>2, <1>4, <2>1, <2>2, <2>3
<1>6. ASSUME NEW e \in pol.entries, e.kind \in {"blocked", "approval", "allowed"}, matchesPattern(e.pattern, c)
      PROVE  Migrated(e) \in MatchesOf(c, next)
  BY <1>1, <1>2, <1>6 DEF MatchesOf
<1>7. \A a : ExactOf(c, next, a) = ExactOf(c, pol, a)
  <2>1. ASSUME NEW x \in next.entries, x.kind = "exact" PROVE x \in pol.entries
    BY <1>1, <1>2, <1>3, <1>4, <2>1
  <2>2. ASSUME NEW x \in pol.entries, x.kind = "exact" PROVE x \in next.entries
    BY <1>1, <1>3, <2>2
  <2> QED BY <2>1, <2>2 DEF ExactOf
<1>8. ASSUME NEW list \in LegacyLists PROVE bestMatch(next, list, c) < 0
  <2>1. \A x \in next.entries : x.kind # list
    BY <1>1, <1>2, <1>3, <1>4 DEF LegacyLists
  <2> QED BY <2>1, BestMatchIs
<1> HIDE DEF Rules
<1>9. ASSUME NEW x \in MatchesOf(c, next)
      PROVE  /\ x.allowCritical = FALSE
             /\ \/ x.effect = "deny" /\ Listed(pol, "blocked", c)
                \/ x.effect = "needs_approval" /\ x.priority = 200 /\ Listed(pol, "approval", c)
                \/ x.effect = "allow" /\ x.priority = 100 /\ Listed(pol, "allowed", c)
  <2>1. PICK e \in pol.entries : x = Migrated(e) /\ e.kind \in {"blocked", "approval", "allowed"} /\ matchesPattern(e.pattern, c)
    BY <1>5
  <2>2. Listed(pol, e.kind, c)
    BY <2>1 DEF Listed
  <2> QED BY <1>2, <2>1, <2>2 DEF Rules
<1>10. \A x \in MatchesOf(c, next) :
         /\ x.effect \in PlainEffects /\ x.allowCritical = FALSE
         /\ x.effect = "deny" => Listed(pol, "blocked", c)
         /\ x.effect = "allow" => x.priority = 100 /\ Listed(pol, "allowed", c)
         /\ x.effect = "needs_approval" => x.priority = 200 /\ Listed(pol, "approval", c)
  <2> TAKE x \in MatchesOf(c, next)
  <2>1. CASE x.effect = "deny" BY <1>9, <2>1 DEF PlainEffects
  <2>2. CASE x.effect = "needs_approval" BY <1>9, <2>2 DEF PlainEffects
  <2>3. CASE x.effect = "allow" BY <1>9, <2>3 DEF PlainEffects
  <2> QED BY <1>9, <2>1, <2>2, <2>3 DEF PlainEffects
<1>11. /\ Listed(pol, "blocked", c) => \E x \in MatchesOf(c, next) : x.effect = "deny"
       /\ Listed(pol, "allowed", c) => \E x \in MatchesOf(c, next) : x.effect = "allow"
       /\ Listed(pol, "approval", c) => \E x \in MatchesOf(c, next) : x.effect = "needs_approval"
  BY <1>2, <1>6 DEF Listed, Rules
<1>12. PlainRules(MatchesOf(c, next))
  BY <1>10 DEF PlainRules
<1>13. SameExact(c, next, pol)
  BY <1>7 DEF SameExact
<1> QED BY <1>8, <1>10, <1>11, <1>12, <1>13

\* The stages of a legacy policy.
LEMMA LegacyStages ==
    ASSUME NEW pol \in LegacyPolicies, NEW c
    PROVE  /\ Stages(c, pol)[1] = {} /\ Stages(c, pol)[3] = {} /\ Stages(c, pol)[7] = {}
           /\ Stages(c, pol)[4] = When(Listed(pol, "blocked", c), Decision("deny", "legacy", FALSE))
           /\ Stages(c, pol)[9] = When(Listed(pol, "approval", c), Decision("needs_approval", "legacy", FALSE))
           /\ Stages(c, pol)[8] \subseteq {Decision("allow", "legacy", FALSE)}
           /\ ~Listed(pol, "approval", c) => (Stages(c, pol)[8] # {} <=> Listed(pol, "allowed", c))
<1>1. validatePolicy(pol)
  BY DEF LegacyPolicies, ValidPolicies
<1>2. MatchesOf(c, pol) = {} /\ DeniesOf(c, pol) = {}
  <2>1. \A e \in pol.entries : e.kind # "rule"
    BY LegacyEntriesAre
  <2> QED BY <2>1 DEF MatchesOf, DeniesOf, structuredRuleMatches
<1>3. ByRules(chooseStructuredMatch({}, c), "rules") = {}
  BY DEF ByRules, chooseStructuredMatch
<1>4. Stages(c, pol)[1] = {} /\ Stages(c, pol)[3] = {} /\ Stages(c, pol)[7] = {}
  BY <1>1, <1>2, <1>3, StageIs DEF When
<1>5. \A list \in {"allowed", "approval", "blocked"} :
        bestMatch(pol, list, c) \in Int /\ (bestMatch(pol, list, c) >= 0 <=> Listed(pol, list, c))
  BY BestMatchIs DEF Listed
<1>6. Stages(c, pol)[4] = When(Listed(pol, "blocked", c), Decision("deny", "legacy", FALSE))
  BY <1>5, StageIs DEF When
<1>7. Stages(c, pol)[9] = When(Listed(pol, "approval", c), Decision("needs_approval", "legacy", FALSE))
  BY <1>5, StageIs DEF When
<1>8. Stages(c, pol)[8] = When(bestMatch(pol, "allowed", c) > bestMatch(pol, "approval", c), Decision("allow", "legacy", FALSE))
  BY StageIs
<1>9. ASSUME ~Listed(pol, "approval", c)
      PROVE  Listed(pol, "allowed", c) <=> bestMatch(pol, "allowed", c) > bestMatch(pol, "approval", c)
  <2>1. CASE Listed(pol, "allowed", c)
    BY <1>5, <1>9, <2>1
  <2>2. CASE ~Listed(pol, "allowed", c)
    <3>1. /\ {x \in pol.entries : x.kind = "allowed" /\ matchesPattern(x.pattern, c)} = {}
          /\ {x \in pol.entries : x.kind = "approval" /\ matchesPattern(x.pattern, c)} = {}
      BY <1>9, <2>2 DEF Listed
    <3>2. bestMatch(pol, "allowed", c) = bestMatch(pol, "approval", c)
      BY <3>1 DEF bestMatch
    <3> QED BY <1>5, <2>2, <3>2
  <2> QED BY <2>1, <2>2
<1> QED BY <1>4, <1>6, <1>7, <1>8, <1>9 DEF When

\* The stages the migration leaves alone: exact rules and the default.
Untouched == {2, 5, 6, 10}
SameStages(c, p, q) == \A i \in Untouched : Stages(c, p)[i] = Stages(c, q)[i]

\* The stages of the policy it is migrated to.
LEMMA MigratedStages ==
    ASSUME NEW pol \in LegacyPolicies, NEW next, next = migratePolicyToV2(pol, 1), NEW c
    PROVE  /\ Stages(c, next)[1] = {} /\ Stages(c, next)[4] = {} /\ Stages(c, next)[9] = {}
           /\ SameStages(c, next, pol)
           /\ Stages(c, next)[3] # {} <=> Listed(pol, "blocked", c)
           /\ Stages(c, next)[3] \subseteq {Decision("deny", "rules", FALSE)}
           /\ Stages(c, next)[7] # {} <=> \E list \in {"blocked", "approval", "allowed"} : Listed(pol, list, c)
           /\ \A d \in Stages(c, next)[7] : ~Listed(pol, "blocked", c) =>
                 IF Listed(pol, "approval", c) THEN d = Decision("needs_approval", "rules", FALSE)
                 ELSE d = Decision("allow", "rules", FALSE) /\ Listed(pol, "allowed", c)
<1> DEFINE M == MatchesOf(c, next)
           D == DeniesOf(c, next)
<1>1. validatePolicy(next) /\ next.default = normalizeDecisionAction(pol.default)
  BY MigratedPolicyIs
<1>2. \A list \in LegacyLists : bestMatch(next, list, c) < 0
  BY MigratedForCall
<1>3. \A a : ExactOf(c, next, a) = ExactOf(c, pol, a)
  <2>1. SameExact(c, next, pol)
    BY MigratedForCall
  <2> QED BY <2>1 DEF SameExact
<1>4. \A x \in MatchesOf(c, next) : x.effect \in PlainEffects /\ x.allowCritical = FALSE
  <2>1. PlainRules(MatchesOf(c, next))
    BY MigratedForCall
  <2> QED BY <2>1 DEF PlainRules
<1>5. /\ \A x \in M : x.effect = "deny" => Listed(pol, "blocked", c)
      /\ \A x \in M : x.effect = "allow" => x.priority = 100 /\ Listed(pol, "allowed", c)
      /\ \A x \in M : x.effect = "needs_approval" => x.priority = 200 /\ Listed(pol, "approval", c)
  BY MigratedForCall
<1>6. /\ Listed(pol, "blocked", c) => \E x \in M : x.effect = "deny"
      /\ Listed(pol, "allowed", c) => \E x \in M : x.effect = "allow"
      /\ Listed(pol, "approval", c) => \E x \in M : x.effect = "needs_approval"
  BY MigratedForCall
<1>7. /\ \A a : ExactOf(c, next, a) = ExactOf(c, pol, a)
      /\ \A x \in M : x.effect \in PlainEffects /\ x.allowCritical = FALSE
      /\ \A x \in M : x.effect = "deny" => Listed(pol, "blocked", c)
      /\ \A x \in M : x.effect = "allow" => x.priority = 100 /\ Listed(pol, "allowed", c)
      /\ \A x \in M : x.effect = "needs_approval" => x.priority = 200 /\ Listed(pol, "approval", c)
      /\ Listed(pol, "blocked", c) => \E x \in M : x.effect = "deny"
      /\ Listed(pol, "allowed", c) => \E x \in M : x.effect = "allow"
      /\ Listed(pol, "approval", c) => \E x \in M : x.effect = "needs_approval"
      /\ \A list \in LegacyLists : bestMatch(next, list, c) < 0
  BY <1>2, <1>3, <1>4, <1>5, <1>6, Zenon
<1>8. IsFiniteSet(M) /\ Sortable(M, c) /\ IsFiniteSet(D) /\ Sortable(D, c)
  BY MigratedPolicyIs, ValidSortable
<1>9. D = {x \in M : x.effect = "deny"}
  BY <1>7 DEF DeniesOf, normalizeDecisionAction, PlainEffects
<1>10. /\ M # {} => chooseStructuredMatch(M, c) # {}
       /\ D # {} => chooseStructuredMatch(D, c) # {}
  BY <1>8, SomeRuleFirst
<1>11. chooseStructuredMatch(M, c) \subseteq M /\ chooseStructuredMatch(D, c) \subseteq D
  BY ChosenMatches
<1>12. /\ Stages(c, next)[3] = ByRules(chooseStructuredMatch(D, c), "rules")
       /\ Stages(c, next)[7] = ByRules(chooseStructuredMatch(M, c), "rules")
  BY StageIs
<1>13. Stages(c, next)[1] = {} /\ Stages(c, next)[4] = {} /\ Stages(c, next)[9] = {}
  <2>1. bestMatch(next, "blocked", c) \in Int /\ bestMatch(next, "approval", c) \in Int
    BY BestMatchIs
  <2>2. ~(bestMatch(next, "blocked", c) >= 0) /\ ~(bestMatch(next, "approval", c) >= 0)
    BY <1>7, <2>1 DEF LegacyLists
  <2> QED BY <1>1, <2>2, StageIs DEF When
<1>14. SameStages(c, next, pol)
  <2>1. normalizeDecisionAction(next.default) = normalizeDecisionAction(pol.default)
    BY <1>1 DEF normalizeDecisionAction
  <2>2. ASSUME NEW a PROVE ByRules(ExactOf(c, next, a), "exact") = ByRules(ExactOf(c, pol, a), "exact")
    BY <1>3
  <2>3. /\ Stages(c, next)[2] = ByRules(ExactOf(c, next, "deny"), "exact")
        /\ Stages(c, next)[5] = ByRules(ExactOf(c, next, "needs_approval"), "exact")
        /\ Stages(c, next)[6] = ByRules(ExactOf(c, next, "allow"), "exact")
        /\ Stages(c, next)[10] = {Decision(normalizeDecisionAction(next.default), "default", FALSE)}
    BY StageIs
  <2>4. /\ Stages(c, pol)[2] = ByRules(ExactOf(c, pol, "deny"), "exact")
        /\ Stages(c, pol)[5] = ByRules(ExactOf(c, pol, "needs_approval"), "exact")
        /\ Stages(c, pol)[6] = ByRules(ExactOf(c, pol, "allow"), "exact")
        /\ Stages(c, pol)[10] = {Decision(normalizeDecisionAction(pol.default), "default", FALSE)}
    BY StageIs
  <2> QED BY <2>1, <2>2, <2>3, <2>4 DEF SameStages, Untouched
<1> HIDE DEF M, D
<1>15. \A x \in M : Decision(normalizeDecisionAction(x.effect), "rules", x.allowCritical)
                    = Decision(x.effect, "rules", FALSE)
  BY <1>7 DEF normalizeDecisionAction, PlainEffects
<1>16. Stages(c, next)[3] # {} <=> Listed(pol, "blocked", c)
  <2>1. D # {} <=> Listed(pol, "blocked", c)
    BY <1>7, <1>9
  <2>2. Stages(c, next)[3] # {} <=> D # {}
    BY <1>10, <1>11, <1>12, RulesDecide
  <2> QED BY <2>1, <2>2
<1>17. ASSUME NEW d \in Stages(c, next)[3] PROVE d = Decision("deny", "rules", FALSE)
  <2>1. PICK x \in chooseStructuredMatch(D, c) : d = Decision(normalizeDecisionAction(x.effect), "rules", x.allowCritical)
    BY <1>12, <1>17, RulesDecide
  <2>2. x \in M /\ x.effect = "deny"
    BY <1>9, <1>11
  <2> QED BY <1>15, <2>1, <2>2
<1>18. Stages(c, next)[7] # {} <=> \E list \in {"blocked", "approval", "allowed"} : Listed(pol, list, c)
  <2>1. M # {} <=> \E list \in {"blocked", "approval", "allowed"} : Listed(pol, list, c)
    <3>1. ASSUME NEW x \in M PROVE \E list \in {"blocked", "approval", "allowed"} : Listed(pol, list, c)
      BY <1>7 DEF PlainEffects
    <3>2. ASSUME NEW list \in {"blocked", "approval", "allowed"}, Listed(pol, list, c) PROVE M # {}
      BY <1>7, <3>2
    <3> QED BY <3>1, <3>2
  <2>2. Stages(c, next)[7] # {} <=> M # {}
    BY <1>10, <1>11, <1>12, RulesDecide
  <2> QED BY <2>1, <2>2
<1>19. ASSUME NEW d \in Stages(c, next)[7], ~Listed(pol, "blocked", c)
       PROVE  IF Listed(pol, "approval", c) THEN d = Decision("needs_approval", "rules", FALSE)
              ELSE d = Decision("allow", "rules", FALSE) /\ Listed(pol, "allowed", c)
  <2>1. PICK x \in chooseStructuredMatch(M, c) : d = Decision(normalizeDecisionAction(x.effect), "rules", x.allowCritical)
    BY <1>12, <1>19, RulesDecide
  <2>2. x \in M /\ d = Decision(x.effect, "rules", FALSE) /\ \A n \in M : ~Before(n, x, c)
    BY <1>11, <1>15, <2>1 DEF chooseStructuredMatch
  <2>3. CASE Listed(pol, "approval", c)
    <3>1. PICK n \in M : n.effect = "needs_approval"
      BY <1>7, <2>3
    <3>2. n.priority = 200
      BY <1>7, <3>1
    <3>3. x.effect # "allow"
      <4> SUFFICES ASSUME x.effect = "allow" PROVE FALSE
        OBVIOUS
      <4>1. x.priority = 100
        BY <1>7, <2>2
      <4>2. Before(n, x, c)
        BY <3>2, <4>1, BeforeMeans
      <4> QED BY <2>2, <4>2
    <3> QED BY <1>7, <1>19, <2>2, <2>3, <3>3 DEF PlainEffects
  <2>4. CASE ~Listed(pol, "approval", c)
    BY <1>7, <1>19, <2>2, <2>4 DEF PlainEffects
  <2> QED BY <2>3, <2>4
<1> QED BY <1>13, <1>14, <1>16, <1>17, <1>18, <1>19

Denies(by) == Decision("deny", by, FALSE)
Asks(by) == Decision("needs_approval", by, FALSE)
Allows(by) == Decision("allow", by, FALSE)

\* A decision of the migrated policy is one the legacy policy took, or stands
\* for one of its patterns: a denial for a denial, a question for whatever an
\* approval pattern was about, an allowance for an allowance.
LEMMA MigratedDecision ==
    ASSUME NEW pol \in LegacyPolicies, NEW next, next = migratePolicyToV2(pol, 1), NEW c, NEW n \in evaluatePolicy(c, next)
    PROVE  \E d \in evaluatePolicy(c, pol) :
              \/ n = d /\ (n.by = "exact" \/ ~Listed(pol, "approval", c))
              \/ d = Denies("legacy") /\ n = Denies("rules")
              \/ d \in {Allows("legacy"), Asks("legacy")} /\ n = Asks("rules")
              \/ /\ d = Allows("legacy") /\ n = Allows("rules")
                 /\ Listed(pol, "allowed", c) /\ ~Listed(pol, "approval", c)
<1> DEFINE s == Stages(c, pol)
           t == Stages(c, next)
<1>1. PICK i \in 1 .. 10 : First(c, next, i) /\ n \in t[i]
  BY DecidedAt
<1>2. t[i] # {} /\ \A j \in 1 .. i - 1 : t[j] = {}
  BY <1>1 DEF First
<1>3. /\ s[1] = {} /\ s[3] = {} /\ s[7] = {}
      /\ s[4] = When(Listed(pol, "blocked", c), Denies("legacy"))
      /\ s[9] = When(Listed(pol, "approval", c), Asks("legacy"))
      /\ s[8] \subseteq {Allows("legacy")}
      /\ ~Listed(pol, "approval", c) => (s[8] # {} <=> Listed(pol, "allowed", c))
  BY LegacyStages DEF Denies, Asks, Allows
<1>4. /\ t[1] = {} /\ t[4] = {} /\ t[9] = {}
      /\ t[2] = s[2] /\ t[5] = s[5] /\ t[6] = s[6] /\ t[10] = s[10]
      /\ t[3] # {} <=> Listed(pol, "blocked", c)
      /\ t[3] \subseteq {Denies("rules")}
      /\ t[7] # {} <=> \E list \in {"blocked", "approval", "allowed"} : Listed(pol, list, c)
      /\ \A d \in t[7] : ~Listed(pol, "blocked", c) =>
            IF Listed(pol, "approval", c) THEN d = Asks("rules")
            ELSE d = Allows("rules") /\ Listed(pol, "allowed", c)
  <2>1. t[2] = s[2] /\ t[5] = s[5] /\ t[6] = s[6] /\ t[10] = s[10]
    <3>1. SameStages(c, next, pol)
      BY MigratedStages
    <3>2. 2 \in Untouched /\ 5 \in Untouched /\ 6 \in Untouched /\ 10 \in Untouched
      BY DEF Untouched
    <3> QED BY <3>1, <3>2, Zenon DEF SameStages
  <2>2. t[1] = {} /\ t[4] = {} /\ t[9] = {} /\ t[3] \subseteq {Denies("rules")}
    BY MigratedStages DEF Denies
  <2>3. /\ t[3] # {} <=> Listed(pol, "blocked", c)
        /\ t[7] # {} <=> \E list \in {"blocked", "approval", "allowed"} : Listed(pol, list, c)
    BY MigratedStages, Zenon
  <2>4. \A d \in t[7] : ~Listed(pol, "blocked", c) =>
            IF Listed(pol, "approval", c) THEN d = Asks("rules")
            ELSE d = Allows("rules") /\ Listed(pol, "allowed", c)
    BY MigratedStages, Zenon DEF Asks, Allows
  <2> QED BY <2>1, <2>2, <2>3, <2>4
<1>5. \A k \in 1 .. 10 : s[k] # {} /\ (\A j \in 1 .. k - 1 : s[j] = {}) => evaluatePolicy(c, pol) = s[k]
  BY FirstStage DEF First
<1>6. \A k \in {2, 5, 6} : \A d \in s[k] : d.by = "exact"
  BY StageIs DEF ByRules, Decision
<1>7. t[8] = {}
  <2>1. ASSUME NEW list \in {"allowed", "approval"}
        PROVE  {x \in next.entries : x.kind = list /\ matchesPattern(x.pattern, c)} = {}
    <3>1. bestMatch(next, list, c) < 0 /\ bestMatch(next, list, c) \in Int
      BY MigratedForCall, BestMatchIs DEF LegacyLists
    <3>2. ~ \E x \in next.entries : x.kind = list /\ matchesPattern(x.pattern, c)
      <4>1. ~(bestMatch(next, list, c) >= 0)
        BY <3>1
      <4> QED BY <4>1, BestMatchIs
    <3> QED BY <3>2
  <2>2. bestMatch(next, "allowed", c) = bestMatch(next, "approval", c)
    BY <2>1 DEF bestMatch
  <2>3. ~(bestMatch(next, "allowed", c) > bestMatch(next, "approval", c))
    BY <2>2, BestMatchIs
  <2> QED BY <2>3, StageIs DEF When
<1> HIDE DEF s, t
<1>8. CASE i = 2
  <2>1. evaluatePolicy(c, pol) = s[2]
    <3>1. \A j \in 1 .. 2 - 1 : s[j] = {}
      BY <1>3
    <3> QED BY <1>2, <1>4, <1>5, <1>8, <3>1
  <2> QED BY <1>1, <1>4, <1>6, <1>8, <2>1
<1>9. CASE i = 3
  <2>1. s[2] = {} /\ Listed(pol, "blocked", c) /\ n = Denies("rules")
    BY <1>1, <1>2, <1>4, <1>9
  <2>2. s[4] = {Denies("legacy")}
    BY <1>3, <2>1 DEF When
  <2>3. evaluatePolicy(c, pol) = s[4]
    <3>1. \A j \in 1 .. 4 - 1 : s[j] = {}
      <4>1. \A j \in 1 .. 4 - 1 : j \in {1, 2, 3}
        OBVIOUS
      <4> QED BY <1>3, <2>1, <4>1
    <3> QED BY <1>5, <2>2, <3>1
  <2> QED BY <2>1, <2>2, <2>3
<1>10. ASSUME i > 3 PROVE s[1] = {} /\ s[2] = {} /\ s[3] = {} /\ s[4] = {} /\ ~Listed(pol, "blocked", c)
  <2>1. t[2] = {} /\ t[3] = {}
    BY <1>2, <1>10
  <2> QED BY <1>3, <1>4, <2>1 DEF When
<1>11. CASE i = 5
  <2>1. evaluatePolicy(c, pol) = s[5]
    <3>1. \A j \in 1 .. 5 - 1 : s[j] = {}
      <4>1. \A j \in 1 .. 5 - 1 : j \in {1, 2, 3, 4}
        OBVIOUS
      <4> QED BY <1>10, <1>11, <4>1
    <3> QED BY <1>2, <1>4, <1>5, <1>11, <3>1
  <2> QED BY <1>1, <1>4, <1>6, <1>11, <2>1
<1>12. CASE i = 6
  <2>1. evaluatePolicy(c, pol) = s[6]
    <3>1. s[5] = {}
      BY <1>2, <1>4, <1>12
    <3>2. \A j \in 1 .. 6 - 1 : s[j] = {}
      <4>1. \A j \in 1 .. 6 - 1 : j \in {1, 2, 3, 4, 5}
        OBVIOUS
      <4> QED BY <1>10, <1>12, <3>1, <4>1
    <3> QED BY <1>2, <1>4, <1>5, <1>12, <3>2
  <2> QED BY <1>1, <1>4, <1>6, <1>12, <2>1
<1>13. ASSUME i > 6 PROVE \A j \in 1 .. 7 : s[j] = {}
  <2>1. s[5] = {} /\ s[6] = {}
    BY <1>2, <1>4, <1>13
  <2>2. \A j \in 1 .. 7 : j \in {1, 2, 3, 4, 5, 6, 7}
    OBVIOUS
  <2> QED BY <1>3, <1>10, <1>13, <2>1, <2>2
<1>14. CASE i = 7
  <2>1. IF Listed(pol, "approval", c) THEN n = Asks("rules") ELSE n = Allows("rules") /\ Listed(pol, "allowed", c)
    BY <1>1, <1>4, <1>10, <1>14
  <2>2. CASE s[8] # {}
    <3>1. evaluatePolicy(c, pol) = s[8]
      <4>1. \A j \in 1 .. 8 - 1 : s[j] = {}
        BY <1>13, <1>14
      <4> QED BY <1>5, <2>2, <4>1
    <3>2. s[8] = {Allows("legacy")}
      BY <1>3, <2>2
    <3> QED BY <2>1, <3>1, <3>2
  <2>3. CASE s[8] = {}
    <3>1. Listed(pol, "approval", c)
      BY <1>3, <2>1, <2>3
    <3>2. s[9] = {Asks("legacy")}
      BY <1>3, <3>1 DEF When
    <3>3. evaluatePolicy(c, pol) = s[9]
      <4>1. \A j \in 1 .. 9 - 1 : s[j] = {}
        <5>1. \A j \in 1 .. 9 - 1 : j \in 1 .. 7 \/ j = 8
          OBVIOUS
        <5> QED BY <1>13, <1>14, <2>3, <5>1
      <4> QED BY <1>5, <3>2, <4>1
    <3> QED BY <2>1, <3>1, <3>2, <3>3
  <2> QED BY <2>2, <2>3
<1>15. CASE i = 10
  <2>1. t[7] = {}
    BY <1>2, <1>15
  <2>2. ~Listed(pol, "approval", c) /\ ~Listed(pol, "allowed", c)
    BY <1>4, <2>1
  <2>3. s[8] = {} /\ s[9] = {}
    BY <1>3, <2>2 DEF When
  <2>4. evaluatePolicy(c, pol) = s[10]
    <3>1. \A j \in 1 .. 10 - 1 : s[j] = {}
      <4>1. \A j \in 1 .. 10 - 1 : j \in 1 .. 7 \/ j = 8 \/ j = 9
        OBVIOUS
      <4> QED BY <1>13, <1>15, <2>3, <4>1
    <3> QED BY <1>2, <1>4, <1>5, <1>15, <3>1
  <2> QED BY <1>1, <1>4, <1>15, <2>2, <2>4
<1>16. i \in {2, 3, 5, 6, 7, 10}
  BY <1>2, <1>4, <1>7
<1> QED BY <1>8, <1>9, <1>11, <1>12, <1>14, <1>15, <1>16

\* What the risk guards make of a decision that no exact rule took.
LEMMA GuardOfPlain ==
    ASSUME NEW c, NEW by
    PROVE  /\ RiskGuard(c, Denies(by)) = "deny"
           /\ RiskGuard(c, Asks(by)) \in {"needs_approval", "deny"}
           /\ RiskGuard(c, Allows(by)) = "deny" => RiskGuard(c, Asks("rules")) = "deny" /\ RiskGuard(c, Allows("rules")) = "deny"
           /\ RiskGuard(c, Asks(by)) = "deny" => RiskGuard(c, Asks("rules")) = "deny"
BY DEF RiskGuard, Denies, Asks, Allows, Decision, isExplicitAllow

\* A call the policy's structured rules and patterns decide is not by "exact".
LEMMA ByExactHasRule ==
    ASSUME NEW c, NEW pol, NEW d \in evaluatePolicy(c, pol), d.by = "exact"
    PROVE  \E e \in pol.entries : e.kind = "exact"
<1>1. PICK i \in 1 .. 10 : First(c, pol, i) /\ d \in Stages(c, pol)[i]
  BY DecidedAt
<1>2. \A a : \A x \in ByRules(ExactOf(c, pol, a), "exact") : \E e \in pol.entries : e.kind = "exact"
  BY DEF ByRules, ExactOf
<1>3. \A S : \A x \in ByRules(S, "rules") : x.by = "rules"
  BY DEF ByRules, Decision
<1>4. CASE i \in {2, 5, 6}
  <2>1. CASE i = 2 BY <1>1, <1>2, <2>1, StageIs
  <2>2. CASE i = 5 BY <1>1, <1>2, <2>2, StageIs
  <2>3. CASE i = 6 BY <1>1, <1>2, <2>3, StageIs
  <2> QED BY <1>4, <2>1, <2>2, <2>3
<1>5. CASE i \in {3, 7}
  <2>1. Stages(c, pol)[3] = ByRules(chooseStructuredMatch(DeniesOf(c, pol), c), "rules")
    BY StageIs
  <2>2. Stages(c, pol)[7] = ByRules(chooseStructuredMatch(MatchesOf(c, pol), c), "rules")
    BY StageIs
  <2>3. d.by = "rules"
    BY <1>1, <1>3, <1>5, <2>1, <2>2
  <2> QED BY <2>3
<1>6. CASE i \in {1, 4, 8, 9}
  <2>1. \A x \in Stages(c, pol)[1] : x.by = "validation"
    BY StageIs DEF When, Decision
  <2>2. \A x \in Stages(c, pol)[4] : x.by = "legacy"
    BY StageIs DEF When, Decision
  <2>3. \A x \in Stages(c, pol)[8] : x.by = "legacy"
    BY StageIs DEF When, Decision
  <2>4. \A x \in Stages(c, pol)[9] : x.by = "legacy"
    BY StageIs DEF When, Decision
  <2> QED BY <1>1, <1>6, <2>1, <2>2, <2>3, <2>4
<1>7. CASE i = 10
  <2>1. Stages(c, pol)[10] = {Decision(normalizeDecisionAction(pol.default), "default", FALSE)}
    BY StageIs
  <2>2. d.by = "default"
    BY <1>1, <1>7, <2>1 DEF Decision
  <2> QED BY <2>2
<1>8. i \in {2, 5, 6} \/ i \in {3, 7} \/ i \in {1, 4, 8, 9} \/ i = 10
  OBVIOUS
<1> QED BY <1>4, <1>5, <1>6, <1>7, <1>8

\* The verdicts on a call when no answer was remembered for it.
Told(c, pol) == evaluatePermissionRequest(c, pol, NoMemory(c), TRUE)

\* The migration keeps denials and questions, and allows what was listed.
LEMMA MigrationIsStrict ==
    ASSUME NEW pol \in ValidPolicies, NEW c, NEW declared \in 1 .. 2, NEW next, next = migratePolicyToV2(pol, declared)
    PROVE  /\ Told(c, pol) = {"deny"} => Told(c, next) = {"deny"}
           /\ declared = 1 /\ Listed(pol, "approval", c) /\ ~(\E e \in pol.entries : e.kind \in {"exact", "rule"})
                 => Told(c, next) \subseteq {"deny", "needs_approval"}
           /\ "allow" \in Told(c, next) \ Told(c, pol) => Listed(pol, "allowed", c)
<1>1. CASE detectPolicyVersion(pol, declared) = 2
  <2>1. next = pol
    BY <1>1 DEF migratePolicyToV2
  <2>2. declared = 2 \/ \E e \in pol.entries : e.kind = "rule"
    BY <1>1 DEF detectPolicyVersion
  <2> QED BY <2>1, <2>2
<1>2. CASE Early(c)
  <2>1. Told(c, pol) = {"deny"} /\ Told(c, next) = {"deny"}
    BY <1>2, WithoutMemory DEF Told
  <2> QED BY <2>1
<1>3. CASE ~Early(c) /\ detectPolicyVersion(pol, declared) = 1
  <2>0. declared = 1
    BY <1>3 DEF detectPolicyVersion
  <2>1. pol \in LegacyPolicies
    BY <1>3, <2>0 DEF LegacyPolicies
  <2>2. Told(c, pol) = Guarded(c, pol) /\ Told(c, next) = Guarded(c, next)
    BY <1>3, WithoutMemory DEF Told
  <2>3. ASSUME NEW n \in evaluatePolicy(c, next)
        PROVE  \E d \in evaluatePolicy(c, pol) :
                  \/ n = d /\ (n.by = "exact" \/ ~Listed(pol, "approval", c))
                  \/ d = Denies("legacy") /\ n = Denies("rules")
                  \/ d \in {Allows("legacy"), Asks("legacy")} /\ n = Asks("rules")
                  \/ /\ d = Allows("legacy") /\ n = Allows("rules")
                     /\ Listed(pol, "allowed", c) /\ ~Listed(pol, "approval", c)
    BY <2>0, <2>1, MigratedDecision
  <2>4. ASSUME Guarded(c, pol) = {"deny"} PROVE Guarded(c, next) = {"deny"}
    <3>1. ASSUME NEW n \in evaluatePolicy(c, next) PROVE RiskGuard(c, n) = "deny"
      <4>1. \A d \in evaluatePolicy(c, pol) : RiskGuard(c, d) = "deny"
        BY <2>4 DEF Guarded
      <4> QED BY <2>3, <4>1, GuardOfPlain
    <3> QED BY <3>1, SomeDecision DEF Guarded
  <2>5. ASSUME Listed(pol, "approval", c), ~(\E e \in pol.entries : e.kind \in {"exact", "rule"}),
               NEW n \in evaluatePolicy(c, next)
        PROVE  RiskGuard(c, n) \in {"deny", "needs_approval"}
    <3>1. \A d \in evaluatePolicy(c, pol) : d.by # "exact"
      BY <2>5, ByExactHasRule
    <3> QED BY <2>3, <2>5, <3>1, GuardOfPlain
  <2>6. ASSUME NEW n \in evaluatePolicy(c, next), RiskGuard(c, n) = "allow", "allow" \notin Guarded(c, pol)
        PROVE  Listed(pol, "allowed", c)
    <3>1. \A d \in evaluatePolicy(c, pol) : RiskGuard(c, d) # "allow"
      BY <2>6 DEF Guarded
    <3> QED BY <2>3, <2>6, <3>1, GuardOfPlain
  <2>7. Told(c, next) \subseteq {"deny", "needs_approval"}
      \/ ~Listed(pol, "approval", c) \/ \E e \in pol.entries : e.kind \in {"exact", "rule"}
    BY <2>2, <2>5 DEF Guarded
  <2>8. "allow" \in Told(c, next) \ Told(c, pol) => Listed(pol, "allowed", c)
    BY <2>2, <2>6 DEF Guarded
  <2> QED BY <2>2, <2>4, <2>7, <2>8
<1>4. detectPolicyVersion(pol, declared) \in {1, 2}
  BY DEF detectPolicyVersion
<1> QED BY <1>1, <1>2, <1>3, <1>4

\* A call that the guided rule is not about is told what it was told.
LEMMA AuthoringIsNarrow ==
    ASSUME NEW c, NEW pol \in ValidPolicies, NEW o \in GuidedOptions, ~matchesPattern(o.action, c),
           \A e \in pol.entries : e.kind = "rule" /\ e.id = GuidedId(o) => \A p \in e.actions : ~matchesPattern(p, c)
    PROVE  Told(c, previewGuidedPolicyRule(pol, buildGuidedPolicyRule(o))) = Told(c, pol)
<1> DEFINE next == previewGuidedPolicyRule(pol, buildGuidedPolicyRule(o))
<1>1. evaluatePolicy(c, next) = evaluatePolicy(c, pol)
  BY GuidedRuleIsLocal
<1> HIDE DEF next
<1>2. Told(c, next) = Told(c, pol)
  BY <1>1, WithoutMemory DEF Told, Guarded
<1> QED BY <1>2 DEF next

---------------------------------------------------------------------------
(* PolicyChanges: learning                                                 *)

\* What makes a call critical that is not denied before the policy is asked.
CriticalCause(c) ==
    \/ c.category \in {"file", "filesystem"} /\ c.operation = "delete" /\ c.sensitivity \in {"private", "secret"}
    \/ c.category = "payment"
    \/ c.sensitivity = "secret" /\ classifyDataFlow(c) = "external"

\* A critical call that the risk guards leave to the policy carries no injected
\* instruction, and is critical for what generalizedKey keeps of it.
LEMMA CriticalHasCause ==
    ASSUME NEW c, classifyRisk(c) = "critical", ~Early(c)
    PROVE  CriticalCause(c) /\ ~Injected(c)
<1>1. "critical" \in Raised(c)
  <2>1. classifyRisk(c) = IF Raised(c) = {} THEN "medium" ELSE maxRisk(Raised(c))
    BY DEF classifyRisk, Raised
  <2>2. maxRisk(Raised(c)) \in Raised(c) \cup {"safe"}
    BY RaisedLevels, GreatestRisk
  <2> QED BY <2>1, <2>2
<1>2. PICK x \in Raises(c) : x[1] /\ x[2] = "critical"
  BY <1>1 DEF Raised
<1>3. ~ExfiltrationRisk(c) /\ ~InjectionSideEffectRisk(c)
  BY DEF Early
<1>4. CriticalCause(c)
  <2>1. \A p, level : x = <<p, level>> => p /\ level = "critical"
    BY <1>2
  <2>2. \/ x = <<c.category \in {"file", "filesystem"} /\ c.operation = "delete",
               IF c.sensitivity \in {"private", "secret"} THEN "critical" ELSE "high">>
        \/ x = <<c.category = "payment", "critical">>
        \/ x = <<c.sensitivity = "secret", IF classifyDataFlow(c) = "external" THEN "critical" ELSE "high">>
        \/ x = <<c.secrets, IF ExfiltrationRisk(c) THEN "critical" ELSE "high">>
        \/ x = <<Injected(c), IF InjectionSideEffectRisk(c) THEN "critical" ELSE "high">>
        \/ \E p \in BOOLEAN, level \in {"safe", "low", "medium", "high"} : x = <<p, level>>
    BY DEF Raises
  <2>3. CASE x = <<c.category \in {"file", "filesystem"} /\ c.operation = "delete",
                   IF c.sensitivity \in {"private", "secret"} THEN "critical" ELSE "high">>
    <3>1. /\ c.category \in {"file", "filesystem"} /\ c.operation = "delete"
          /\ (IF c.sensitivity \in {"private", "secret"} THEN "critical" ELSE "high") = "critical"
      BY <2>1, <2>3, Zenon
    <3> QED BY <3>1 DEF CriticalCause
  <2>4. CASE x = <<c.category = "payment", "critical">>
    BY <2>1, <2>4, Zenon DEF CriticalCause
  <2>5. CASE x = <<c.sensitivity = "secret", IF classifyDataFlow(c) = "external" THEN "critical" ELSE "high">>
    <3>1. /\ c.sensitivity = "secret"
          /\ (IF classifyDataFlow(c) = "external" THEN "critical" ELSE "high") = "critical"
      BY <2>1, <2>5, Zenon
    <3> QED BY <3>1 DEF CriticalCause
  <2>6. x # <<c.secrets, IF ExfiltrationRisk(c) THEN "critical" ELSE "high">>
    BY <1>3, <2>1
  <2>7. x # <<Injected(c), IF InjectionSideEffectRisk(c) THEN "critical" ELSE "high">>
    BY <1>3, <2>1
  <2>8. ASSUME NEW p \in BOOLEAN, NEW level \in {"safe", "low", "medium", "high"} PROVE x # <<p, level>>
    BY <2>1
  <2> QED BY <2>2, <2>3, <2>4, <2>5, <2>6, <2>7, <2>8, Zenon
<1>5. classifySideEffect(c) # "read_only" \/ classifyDataFlow(c) = "external"
  BY <1>4 DEF CriticalCause, classifySideEffect, classifyDataFlow
<1> QED BY <1>3, <1>4, <1>5 DEF InjectionSideEffectRisk

\* Such a cause is common to all calls of a group.
LEMMA CauseIsShared ==
    ASSUME NEW b, NEW c, CriticalCause(c), generalizedKey(b) = generalizedKey(c)
    PROVE  classifyRisk(b) = "critical"
<1>1. /\ b.category = c.category /\ b.operation = c.operation /\ b.sensitivity = c.sensitivity
      /\ classifyDataFlow(b) = classifyDataFlow(c)
  BY DEF generalizedKey
<1>2. CASE c.category \in {"file", "filesystem"} /\ c.operation = "delete" /\ c.sensitivity \in {"private", "secret"}
  <2>1. <<b.category \in {"file", "filesystem"} /\ b.operation = "delete",
          IF b.sensitivity \in {"private", "secret"} THEN "critical" ELSE "high">> \in Raises(b)
    BY DEF Raises
  <2>2. "critical" \in Raised(b)
    BY <1>1, <1>2, <2>1, RaisedBy
  <2> QED BY <2>2, RiskOfCall
<1>3. CASE c.category = "payment"
  <2>1. <<b.category = "payment", "critical">> \in Raises(b)
    BY DEF Raises
  <2>2. "critical" \in Raised(b)
    BY <1>1, <1>3, <2>1, RaisedBy
  <2> QED BY <2>2, RiskOfCall
<1>4. CASE c.sensitivity = "secret" /\ classifyDataFlow(c) = "external"
  <2>1. <<b.sensitivity = "secret", IF classifyDataFlow(b) = "external" THEN "critical" ELSE "high">> \in Raises(b)
    BY DEF Raises
  <2>2. "critical" \in Raised(b)
    BY <1>1, <1>4, <2>1, RaisedBy
  <2> QED BY <2>2, RiskOfCall
<1> QED BY <1>2, <1>3, <1>4 DEF CriticalCause

Strict == {"deny", "needs_approval"}

\* An exact rule is for the call.
ExactFor(e, c) == e.kind = "exact" /\ e.key = approvalFingerprint(c)

\* R is P with the entries N added, exact rules for the same action replaced,
\* and what N has for the call is strict.
Tightens(c, P, R, N) ==
    /\ R.default = P.default /\ R.entries \subseteq P.entries \cup N
    /\ validatePolicy(P) /\ validatePolicy(R)
    /\ IsFiniteSet(R.entries) /\ \A e \in R.entries : e.kind = "rule" => Comparable(e)
    /\ \A e \in P.entries \ R.entries : e.kind = "exact"
    /\ \A e \in P.entries \ R.entries : ExactFor(e, c) => \E n \in N \cap R.entries : ExactFor(n, c) /\ n.enabled
    /\ \A n \in N : n.kind \in {"exact", "rule"}
    /\ \A n \in N : ExactFor(n, c) \/ structuredRuleMatches(n, c) => n.effect \in Strict

\* When the exact rules of R neither deny nor ask, P has the same.
LEMMA SameExactRules ==
    ASSUME NEW c, NEW P, NEW R, NEW N, Tightens(c, P, R, N),
           ExactOf(c, R, "deny") = {}, ExactOf(c, R, "needs_approval") = {}
    PROVE  \A a : ExactOf(c, P, a) = ExactOf(c, R, a)
<1>1. ASSUME NEW n \in R.entries, ExactFor(n, c), n.enabled PROVE n \notin N
  <2>1. n.effect \notin Strict
    <3> SUFFICES ASSUME n.effect \in Strict PROVE FALSE
      OBVIOUS
    <3>1. normalizeDecisionAction(n.effect) = n.effect
      BY DEF Strict, normalizeDecisionAction
    <3>2. n \in ExactOf(c, R, "deny") \/ n \in ExactOf(c, R, "needs_approval")
      BY <1>1, <3>1 DEF ExactOf, ExactFor, Strict
    <3> QED BY <3>2
  <2> QED BY <1>1, <2>1 DEF Tightens
<1>2. ASSUME NEW e \in P.entries, ExactFor(e, c) PROVE e \in R.entries
  BY <1>1, <1>2 DEF Tightens
<1>3. ASSUME NEW e \in R.entries, ExactFor(e, c), e.enabled PROVE e \in P.entries
  BY <1>1, <1>3 DEF Tightens
<1> QED BY <1>2, <1>3 DEF ExactOf, ExactFor

\* Legacy patterns are neither added nor removed.
LEMMA SameLegacyLists ==
    ASSUME NEW c, NEW P, NEW R, NEW N, Tightens(c, P, R, N), NEW list \in LegacyLists
    PROVE  bestMatch(P, list, c) = bestMatch(R, list, c)
<1>1. {x \in P.entries : x.kind = list /\ matchesPattern(x.pattern, c)}
      = {x \in R.entries : x.kind = list /\ matchesPattern(x.pattern, c)}
  BY DEF Tightens, LegacyLists
<1> QED BY <1>1 DEF bestMatch

\* Structured rules are only added.
LEMMA MoreRules ==
    ASSUME NEW c, NEW P, NEW R, NEW N, Tightens(c, P, R, N)
    PROVE  /\ MatchesOf(c, P) \subseteq MatchesOf(c, R) /\ DeniesOf(c, P) \subseteq DeniesOf(c, R)
           /\ \A m \in MatchesOf(c, R) : m \in MatchesOf(c, P) \/ m.effect \in Strict
           /\ MatchesOf(c, R) # {} => chooseStructuredMatch(MatchesOf(c, R), c) # {}
           /\ DeniesOf(c, R) # {} => chooseStructuredMatch(DeniesOf(c, R), c) # {}
<1>1. MatchesOf(c, P) \subseteq MatchesOf(c, R)
  BY DEF MatchesOf, structuredRuleMatches, Tightens
<1>2. DeniesOf(c, P) \subseteq DeniesOf(c, R)
  BY <1>1 DEF DeniesOf
<1>3. \A m \in MatchesOf(c, R) : m \in MatchesOf(c, P) \/ m.effect \in Strict
  BY DEF MatchesOf, Tightens
<1>4. /\ IsFiniteSet(MatchesOf(c, R)) /\ Sortable(MatchesOf(c, R), c)
      /\ IsFiniteSet(DeniesOf(c, R)) /\ Sortable(DeniesOf(c, R), c)
  BY ValidSortable DEF Tightens
<1> QED BY <1>1, <1>2, <1>3, <1>4, SomeRuleFirst

\* A decision of R is strict, or one that P takes as well.
LEMMA LearnedDecision ==
    ASSUME NEW c, NEW P, NEW R, NEW N, Tightens(c, P, R, N), NEW d \in evaluatePolicy(c, R)
    PROVE  d.action \in Strict \/ d \in evaluatePolicy(c, P)
<1> DEFINE s == Stages(c, P)
           t == Stages(c, R)
<1>1. PICK i \in 1 .. 10 : First(c, R, i) /\ d \in t[i]
  BY DecidedAt
<1>2. t[i] # {} /\ \A j \in 1 .. i - 1 : t[j] = {}
  BY <1>1 DEF First
<1>3. /\ s[1] = When(~validatePolicy(P), Decision("throws", "validation", FALSE))
      /\ s[2] = ByRules(ExactOf(c, P, "deny"), "exact")
      /\ s[3] = ByRules(chooseStructuredMatch(DeniesOf(c, P), c), "rules")
      /\ s[4] = When(bestMatch(P, "blocked", c) >= 0, Decision("deny", "legacy", FALSE))
      /\ s[5] = ByRules(ExactOf(c, P, "needs_approval"), "exact")
      /\ s[6] = ByRules(ExactOf(c, P, "allow"), "exact")
      /\ s[7] = ByRules(chooseStructuredMatch(MatchesOf(c, P), c), "rules")
      /\ s[8] = When(bestMatch(P, "allowed", c) > bestMatch(P, "approval", c), Decision("allow", "legacy", FALSE))
      /\ s[9] = When(bestMatch(P, "approval", c) >= 0, Decision("needs_approval", "legacy", FALSE))
      /\ s[10] = {Decision(normalizeDecisionAction(P.default), "default", FALSE)}
  BY StageIs
<1>4. /\ t[1] = When(~validatePolicy(R), Decision("throws", "validation", FALSE))
      /\ t[2] = ByRules(ExactOf(c, R, "deny"), "exact")
      /\ t[3] = ByRules(chooseStructuredMatch(DeniesOf(c, R), c), "rules")
      /\ t[4] = When(bestMatch(R, "blocked", c) >= 0, Decision("deny", "legacy", FALSE))
      /\ t[5] = ByRules(ExactOf(c, R, "needs_approval"), "exact")
      /\ t[6] = ByRules(ExactOf(c, R, "allow"), "exact")
      /\ t[7] = ByRules(chooseStructuredMatch(MatchesOf(c, R), c), "rules")
      /\ t[8] = When(bestMatch(R, "allowed", c) > bestMatch(R, "approval", c), Decision("allow", "legacy", FALSE))
      /\ t[9] = When(bestMatch(R, "approval", c) >= 0, Decision("needs_approval", "legacy", FALSE))
      /\ t[10] = {Decision(normalizeDecisionAction(R.default), "default", FALSE)}
  BY StageIs
<1>5. \A entries, by : entries # {} => ByRules(entries, by) # {}
  BY RulesDecide
<1>6. \A by : ByRules({}, by) = {}
  BY DEF ByRules
<1>7. validatePolicy(P) /\ validatePolicy(R) /\ R.default = P.default
  BY DEF Tightens
<1>8. s[1] = {} /\ t[1] = {}
  <2>1. ~validatePolicy(P) <=> FALSE
    BY <1>7
  <2>2. ~validatePolicy(R) <=> FALSE
    BY <1>7
  <2> HIDE DEF s, t
  <2> QED BY <1>3, <1>4, <2>1, <2>2 DEF When
<1>9. s[4] = t[4] /\ s[8] = t[8] /\ s[9] = t[9] /\ s[10] = t[10]
  <2>1. /\ bestMatch(P, "blocked", c) = bestMatch(R, "blocked", c)
        /\ bestMatch(P, "approval", c) = bestMatch(R, "approval", c)
        /\ bestMatch(P, "allowed", c) = bestMatch(R, "allowed", c)
    BY SameLegacyLists DEF LegacyLists
  <2> HIDE DEF s, t
  <2> QED BY <1>3, <1>4, <1>7, <2>1
<1>10. \A k \in 1 .. 10 : s[k] # {} /\ (\A j \in 1 .. k - 1 : s[j] = {}) => evaluatePolicy(c, P) = s[k]
  BY FirstStage DEF First
<1> HIDE DEF s
<1>11. CASE i \in 1 .. 4
  <2>1. d.action = "deny"
    BY <1>1, <1>7, <1>11, EarlyStagesDeny
  <2> QED BY <2>1 DEF Strict
<1> HIDE DEF t
<1>12. CASE i = 5
  <2>1. d \in ByRules(ExactOf(c, R, "needs_approval"), "exact")
    BY <1>1, <1>12, <1>4
  <2> QED BY <2>1 DEF ByRules, ExactOf, Decision, Strict
<1>13. CASE i > 5
  <2>1. ExactOf(c, R, "deny") = {} /\ ExactOf(c, R, "needs_approval") = {}
    <3>1. t[2] = {} /\ t[5] = {}
      BY <1>2, <1>13
    <3> QED BY <3>1, <1>4, <1>5
  <2>2. ExactOf(c, P, "deny") = {} /\ ExactOf(c, P, "needs_approval") = {} /\ ExactOf(c, P, "allow") = ExactOf(c, R, "allow")
    BY <2>1, SameExactRules
  <2>3. s[2] = {} /\ s[5] = {}
    BY <2>2, <1>3, <1>6
  <2>4. s[6] = t[6]
    BY <2>2, <1>3, <1>4
  <2>5. DeniesOf(c, P) = {}
    <3>1. t[3] = {}
      BY <1>2, <1>13
    <3>2. chooseStructuredMatch(DeniesOf(c, R), c) = {}
      BY <3>1, <1>4, <1>5
    <3> QED BY <3>2, MoreRules
  <2>6. s[3] = {}
    <3>1. chooseStructuredMatch(DeniesOf(c, P), c) = {}
      BY <2>5 DEF chooseStructuredMatch
    <3> QED BY <3>1, <1>3, <1>6
  <2>7. t[4] = {}
    BY <1>2, <1>13
  <2>8. \A j \in 1 .. 5 : s[j] = {}
    <3>1. \A j \in 1 .. 5 : j \in {1, 2, 3, 4, 5}
      OBVIOUS
        <3> QED BY <1>8, <1>9, <2>3, <2>6, <2>7, <3>1
  <2>9. CASE i = 6
        <3>1. evaluatePolicy(c, P) = s[6]
      <4>1. \A j \in 1 .. 6 - 1 : s[j] = {}
        BY <2>8
      <4> QED BY <1>2, <1>10, <2>4, <2>9, <4>1
    <3> QED BY <1>1, <2>4, <2>9, <3>1
  <2>10. ASSUME i > 6 PROVE \A j \in 1 .. 6 : s[j] = {}
        <3>1. s[6] = {}
      BY <1>2, <2>4, <2>10
    <3>2. \A j \in 1 .. 6 : j \in 1 .. 5 \/ j = 6
      OBVIOUS
    <3> QED BY <2>8, <3>1, <3>2
  <2>11. CASE i = 7
    <3>1. PICK m \in chooseStructuredMatch(MatchesOf(c, R), c) :
            d = Decision(normalizeDecisionAction(m.effect), "rules", m.allowCritical)
      <4>1. d \in ByRules(chooseStructuredMatch(MatchesOf(c, R), c), "rules")
        BY <1>1, <2>11, <1>4
      <4> QED BY <4>1, RulesDecide
    <3>2. m \in MatchesOf(c, R) /\ \A n \in MatchesOf(c, R) : ~Before(n, m, c)
      BY DEF chooseStructuredMatch
    <3>3. CASE m.effect \in Strict
      <4>1. normalizeDecisionAction(m.effect) = m.effect
        BY <3>3 DEF Strict, normalizeDecisionAction
      <4>2. d.action = m.effect
        BY <3>1, <4>1 DEF Decision
      <4> QED BY <3>3, <4>2
    <3>4. CASE m.effect \notin Strict
      <4>1. m \in MatchesOf(c, P) /\ MatchesOf(c, P) \subseteq MatchesOf(c, R)
        BY <3>2, <3>4, MoreRules
      <4>2. m \in chooseStructuredMatch(MatchesOf(c, P), c)
        BY <3>2, <4>1 DEF chooseStructuredMatch
      <4>3. d \in s[7]
        <5>1. s[7] = ByRules(chooseStructuredMatch(MatchesOf(c, P), c), "rules")
          BY <1>3
        <5>2. d \in ByRules(chooseStructuredMatch(MatchesOf(c, P), c), "rules")
          BY <3>1, <4>2 DEF ByRules
        <5> QED BY <5>1, <5>2
          <4>4. \A j \in 1 .. 7 - 1 : s[j] = {}
        BY <2>10, <2>11
      <4>5. evaluatePolicy(c, P) = s[7]
        BY <1>10, <4>3, <4>4
      <4> QED BY <4>3, <4>5
    <3> QED BY <3>3, <3>4
  <2>12. CASE i \in {8, 9, 10}
    <3>1. MatchesOf(c, P) = {}
      <4>1. t[7] = {}
        BY <1>2, <2>12
      <4>2. chooseStructuredMatch(MatchesOf(c, R), c) = {}
        BY <4>1, <1>4, <1>5
      <4> QED BY <4>2, MoreRules
    <3>2. s[7] = {}
      <4>1. chooseStructuredMatch(MatchesOf(c, P), c) = {}
        BY <3>1 DEF chooseStructuredMatch
      <4> QED BY <4>1, <1>3, <1>6
        <3>3. \A j \in 1 .. 6 : s[j] = {}
      BY <2>10, <2>12
    <3>4. s[i] = t[i]
      BY <1>9, <2>12
    <3>5. \A j \in 1 .. i - 1 : s[j] = {}
      <4>1. \A j \in 1 .. i - 1 : j \in 1 .. 6 \/ j = 7 \/ j \in {8, 9}
        BY <2>12
      <4>2. \A j \in {8, 9} : j \in 1 .. i - 1 => s[j] = {}
        BY <1>2, <1>9
      <4> QED BY <3>2, <3>3, <4>1, <4>2
    <3>6. evaluatePolicy(c, P) = s[i]
      BY <1>2, <1>10, <3>4, <3>5
    <3> QED BY <1>1, <3>4, <3>6
  <2>13. i = 6 \/ i = 7 \/ i \in {8, 9, 10}
    BY <1>13
  <2> QED BY <2>9, <2>11, <2>12, <2>13
<1>14. i \in 1 .. 4 \/ i = 5 \/ i > 5
  OBVIOUS
<1> QED BY <1>11, <1>12, <1>13, <1>14

\* A call that was denied or put to a human still is.
LEMMA StillStrict ==
    ASSUME NEW c, NEW P, NEW R, NEW N,
           ~Early(c) => Tightens(c, P, R, N), Told(c, P) \subseteq Strict
    PROVE  Told(c, R) \subseteq Strict
<1>1. CASE Early(c)
  BY <1>1, WithoutMemory DEF Told, Strict
<1>2. CASE ~Early(c)
  <2>1. Told(c, P) = Guarded(c, P) /\ Told(c, R) = Guarded(c, R)
    BY <1>2, WithoutMemory DEF Told
  <2>2. ASSUME NEW d \in evaluatePolicy(c, R) PROVE RiskGuard(c, d) \in Strict
    <3>1. CASE d.action \in Strict
      BY <3>1 DEF Strict, RiskGuard, isExplicitAllow
    <3>2. CASE d \in evaluatePolicy(c, P)
      BY <2>1, <3>2 DEF Guarded
    <3> QED BY <1>2, <3>1, <3>2, LearnedDecision
  <2> QED BY <2>1, <2>2 DEF Guarded
<1> QED BY <1>1, <1>2

\* A critical call that was denied still is.
LEMMA StillDenied ==
    ASSUME NEW c, NEW P, NEW R, NEW N, classifyRisk(c) = "critical",
           ~Early(c) => Tightens(c, P, R, N), Told(c, P) = {"deny"}
    PROVE  Told(c, R) = {"deny"}
<1>1. CASE Early(c)
  BY <1>1, WithoutMemory DEF Told
<1>2. CASE ~Early(c)
  <2>1. Told(c, P) = Guarded(c, P) /\ Told(c, R) = Guarded(c, R)
    BY <1>2, WithoutMemory DEF Told
  <2>2. ASSUME NEW d \in evaluatePolicy(c, R) PROVE RiskGuard(c, d) = "deny"
    <3>1. CASE d.action \in Strict
      <4>1. ~Injected(c)
        BY <1>2, CriticalHasCause
      <4> QED BY <3>1, <4>1 DEF Strict, RiskGuard, isExplicitAllow
    <3>2. CASE d \in evaluatePolicy(c, P)
      BY <2>1, <3>2 DEF Guarded
    <3> QED BY <1>2, <3>1, <3>2, LearnedDecision
  <2> QED BY <2>1, <2>2, SomeDecision DEF Guarded
<1> QED BY <1>1, <1>2

\* A placed entry as it stands at a path where it holds.
EntryAt(p) == IF p.place.kind = "below" THEN [p.entry EXCEPT !.resources = {[under |-> "*", rank |-> 1]}] ELSE p.entry

\* The policy at a path.
LEMMA SeenFromIs ==
    ASSUME NEW pol, NEW path
    PROVE  /\ SeenFrom(pol, path).default = pol.default
           /\ SeenFrom(pol, path).entries = {EntryAt(p) : p \in {q \in pol.placed : HoldsAt(q.place, path)}}
BY DEF SeenFrom, EntryAt

\* The observations of one group.
GroupOf(observations, key) == {b \in observations : generalizedKey(b.of.call) = key}

PlainObservations(observations) == \A b \in observations : b.of \in SeenRecords

\* What a suggestion is: an exact rule for an observed action, or a rule for a group.
ExactFrom(s, observations) ==
    \E b \in observations :
       s = ExactSuggestion(b, effectForObservation(GroupOf(observations, generalizedKey(b.of.call))))
GeneralFrom(s, observations) ==
    \E b \in observations : \E place : /\ place.kind \in {"everywhere", "below"}
       /\ s = GeneralSuggestion(generalizedKey(b.of.call), place,
                                effectForObservation(GroupOf(observations, generalizedKey(b.of.call))))

\* The pattern of a group of paths has no file name.
LEMMA PatternIsWide ==
    ASSUME NEW paths
    PROVE  commonResourcePattern(paths).kind \in {"everywhere", "below"}
BY DEF commonResourcePattern, Everywhere, Below

\* finalize makes no other suggestions.
LEMMA SuggestionIs ==
    ASSUME NEW observations, NEW s \in finalize(observations)
    PROVE  ExactFrom(s, observations) \/ GeneralFrom(s, observations)
<1> DEFINE effect(key) == effectForObservation(GroupOf(observations, key))
           paths(key) == {b.of.path : b \in GroupOf(observations, key)}
           exact(key) == {ExactSuggestion(b, effect(key)) : b \in GroupOf(observations, key)}
           general(key) == IF Cardinality(paths(key)) >= 2
                           THEN {GeneralSuggestion(key, commonResourcePattern(paths(key)), effect(key))} ELSE {}
<1>1. finalize(observations) = UNION {exact(key) \cup general(key) : key \in {generalizedKey(b.of.call) : b \in observations}}
  BY Zenon DEF finalize, GroupOf
<1>2. PICK b \in observations : s \in exact(generalizedKey(b.of.call)) \cup general(generalizedKey(b.of.call))
  <2> HIDE DEF exact, general
  <2> QED BY <1>1
<1>3. CASE s \in exact(generalizedKey(b.of.call))
  <2>1. PICK x \in GroupOf(observations, generalizedKey(b.of.call)) : s = ExactSuggestion(x, effect(generalizedKey(b.of.call)))
    BY <1>3
  <2>2. x \in observations /\ generalizedKey(x.of.call) = generalizedKey(b.of.call)
    BY <2>1 DEF GroupOf
  <2>3. s = ExactSuggestion(x, effect(generalizedKey(x.of.call)))
    BY <2>1, <2>2
  <2> QED BY <2>2, <2>3 DEF ExactFrom
<1>4. CASE s \in general(generalizedKey(b.of.call))
  <2>1. s = GeneralSuggestion(generalizedKey(b.of.call), commonResourcePattern(paths(generalizedKey(b.of.call))),
                              effect(generalizedKey(b.of.call)))
    BY <1>4
  <2> HIDE DEF paths
  <2> QED BY <2>1, PatternIsWide DEF GeneralFrom
<1> QED BY <1>2, <1>3, <1>4

\* A fingerprint keeps what generalizedKey looks at.
LEMMA SameFingerprintSameKey ==
    ASSUME NEW b \in CallRecords, NEW c \in CallRecords, approvalFingerprint(b) = approvalFingerprint(c)
    PROVE  generalizedKey(b) = generalizedKey(c)
<1>1. \A x \in CallRecords : LET f == approvalFingerprint(x) IN
         /\ f.name = x.name /\ f.category = x.category /\ f.operation = x.operation
         /\ f.scope = x.scope /\ f.sensitivity = x.sensitivity
  BY DEF CallRecords, approvalFingerprint
<1>2. /\ b.name = c.name /\ b.category = c.category /\ b.operation = c.operation
      /\ b.scope = c.scope /\ b.sensitivity = c.sensitivity
  BY <1>1
<1>3. classifyDataFlow(b) = classifyDataFlow(c) /\ classifySideEffect(b) = classifySideEffect(c)
  BY <1>2 DEF classifyDataFlow, classifySideEffect
<1> QED BY <1>2, <1>3 DEF generalizedKey

\* An exact suggestion is named after its action and its place.
LEMMA ExactSuggestionIs ==
    ASSUME NEW b, NEW effect
    PROVE  LET s == ExactSuggestion(b, effect) IN
           /\ s.name = <<"exact", s.entry.key, s.place.path>> /\ s.place = ExactlyAt(b.of.path)
           /\ s.entry.key = approvalFingerprint(b.of.call)
           /\ s.entry.kind = "exact" /\ s.entry.effect = effect /\ s.entry.enabled
           /\ EntryAt(s) = s.entry
<1> DEFINE s == ExactSuggestion(b, effect)
<1>1. /\ s.name = <<"exact", approvalFingerprint(b.of.call), b.of.path>> /\ s.place = ExactlyAt(b.of.path)
      /\ s.entry = [kind |-> "exact", id |-> 0, effect |-> effect, key |-> approvalFingerprint(b.of.call),
                    allowCritical |-> FALSE, enabled |-> TRUE]
  BY DEF ExactSuggestion
<1> HIDE DEF s
<1>2. s.place.path = b.of.path /\ s.place.kind = "exact"
  BY <1>1 DEF ExactlyAt
<1>3. /\ s.entry.key = approvalFingerprint(b.of.call) /\ s.entry.kind = "exact" /\ s.entry.effect = effect
      /\ s.entry.enabled
  BY <1>1
<1>4. EntryAt(s) = s.entry
  BY <1>2 DEF EntryAt
<1> QED BY <1>1, <1>2, <1>3, <1>4 DEF s

\* A suggestion for a group matches only calls of that group.
LEMMA GeneralSuggestionIs ==
    ASSUME NEW x, NEW place, NEW effect, NEW s, s = GeneralSuggestion(generalizedKey(x), place, effect)
    PROVE  /\ s.name[1] = "learned" /\ s.place = place /\ s.entry.kind = "rule"
           /\ EntryAt(s).kind = "rule" /\ EntryAt(s).effect = effect /\ Comparable(EntryAt(s))
           /\ x \in CallRecords =>
                 \A c \in CallRecords : structuredRuleMatches(EntryAt(s), c) => generalizedKey(c) = generalizedKey(x)
<1> DEFINE key == generalizedKey(x)
           conds == {[field |-> "category", values |-> {key[2]}], [field |-> "operation", values |-> {key[3]}],
                     [field |-> "data_flow", values |-> {key[4]}], [field |-> "side_effect", values |-> {key[5]}],
                     [field |-> "sensitivity", values |-> {key[6]}]}
<1>1. /\ s.name = <<"learned", key[1], place>> /\ s.place = place
      /\ s.entry = [kind |-> "rule", id |-> 0, effect |-> effect,
                    priority |-> CASE effect = "deny" -> 120 [] effect = "needs_approval" -> 70 [] OTHER -> 30,
                    actions |-> {key[1]},
                    resources |-> {[under |-> "*", rank |-> 0]}, conditions |-> conds,
                    atLeast |-> "safe", atMost |-> "critical", allowCritical |-> FALSE, enabled |-> TRUE]
  BY DEF GeneralSuggestion
<1>2. key = <<x.name, x.category, x.operation, classifyDataFlow(x), classifySideEffect(x), x.sensitivity>>
  BY DEF generalizedKey
<1> HIDE DEF key
<1>3. IsFiniteSet(conds)
  <2>1. \A a, S : IsFiniteSet(S) => IsFiniteSet(S \cup {a})
    BY FS_AddElement
  <2> DEFINE e1 == [field |-> "category", values |-> {key[2]}]
             e2 == [field |-> "operation", values |-> {key[3]}]
             e3 == [field |-> "data_flow", values |-> {key[4]}]
             e4 == [field |-> "side_effect", values |-> {key[5]}]
             e5 == [field |-> "sensitivity", values |-> {key[6]}]
  <2>2. conds = ((((({} \cup {e1}) \cup {e2}) \cup {e3}) \cup {e4}) \cup {e5})
    <3> HIDE DEF e1, e2, e3, e4, e5
    <3>1. {e1, e2, e3, e4, e5} = ((((({} \cup {e1}) \cup {e2}) \cup {e3}) \cup {e4}) \cup {e5})
      OBVIOUS
    <3> QED BY <3>1 DEF e1, e2, e3, e4, e5
  <2> HIDE DEF e1, e2, e3, e4, e5, conds
  <2> QED BY <2>1, <2>2, FS_EmptySet
<1>4. ASSUME NEW c, \A k \in conds : Metadata(c)[k.field] \in k.values PROVE c.name = x.name => generalizedKey(c) = key
  <2>1. \A f, v : [field |-> f, values |-> {v}] \in conds => Metadata(c)[f] = v
    <3> HIDE DEF conds
    <3> QED BY <1>4
  <2>2. /\ Metadata(c)["category"] = key[2] /\ Metadata(c)["operation"] = key[3]
        /\ Metadata(c)["data_flow"] = key[4] /\ Metadata(c)["side_effect"] = key[5]
        /\ Metadata(c)["sensitivity"] = key[6]
    <3>1. Metadata(c)["category"] = key[2]
      <4>1. [field |-> "category", values |-> {key[2]}] \in conds
        BY Zenon
      <4> HIDE DEF conds
      <4> QED BY <2>1, <4>1
    <3>2. Metadata(c)["operation"] = key[3]
      <4>1. [field |-> "operation", values |-> {key[3]}] \in conds
        BY Zenon
      <4> HIDE DEF conds
      <4> QED BY <2>1, <4>1
    <3>3. Metadata(c)["data_flow"] = key[4]
      <4>1. [field |-> "data_flow", values |-> {key[4]}] \in conds
        BY Zenon
      <4> HIDE DEF conds
      <4> QED BY <2>1, <4>1
    <3>4. Metadata(c)["side_effect"] = key[5]
      <4>1. [field |-> "side_effect", values |-> {key[5]}] \in conds
        BY Zenon
      <4> HIDE DEF conds
      <4> QED BY <2>1, <4>1
    <3>5. Metadata(c)["sensitivity"] = key[6]
      <4>1. [field |-> "sensitivity", values |-> {key[6]}] \in conds
        BY Zenon
      <4> HIDE DEF conds
      <4> QED BY <2>1, <4>1
    <3> QED BY <3>1, <3>2, <3>3, <3>4, <3>5
  <2>3. /\ Metadata(c)["category"] = c.category /\ Metadata(c)["operation"] = c.operation
        /\ Metadata(c)["data_flow"] = classifyDataFlow(c) /\ Metadata(c)["side_effect"] = classifySideEffect(c)
        /\ Metadata(c)["sensitivity"] = c.sensitivity
    BY DEF Metadata
  <2> QED BY <1>2, <2>2, <2>3 DEF generalizedKey
<1>5. s.name[1] = "learned" /\ s.entry.kind = "rule"
  BY <1>1
<1> HIDE DEF conds
<1>6. s.entry.priority \in Int
  BY <1>1
<1>7. /\ EntryAt(s).kind = "rule" /\ EntryAt(s).effect = effect /\ EntryAt(s).conditions = conds
      /\ EntryAt(s).actions = {key[1]}
      /\ EntryAt(s).id = 0 /\ EntryAt(s).priority \in Int
      /\ \A r \in EntryAt(s).resources : r.rank \in 0 .. 2
  <2>1. CASE s.place.kind = "below"
    <3>1. EntryAt(s) = [s.entry EXCEPT !.resources = {[under |-> "*", rank |-> 1]}]
      BY <2>1 DEF EntryAt
    <3>2. /\ EntryAt(s).kind = s.entry.kind /\ EntryAt(s).effect = s.entry.effect
          /\ EntryAt(s).conditions = s.entry.conditions /\ EntryAt(s).id = s.entry.id /\ EntryAt(s).actions = s.entry.actions
          /\ EntryAt(s).priority = s.entry.priority /\ EntryAt(s).resources = {[under |-> "*", rank |-> 1]}
      BY <1>1, <3>1
    <3> QED BY <1>1, <1>6, <3>2
  <2>2. CASE s.place.kind # "below"
    <3>1. EntryAt(s) = s.entry
      BY <2>2 DEF EntryAt
    <3> QED BY <1>1, <1>6, <3>1
  <2> QED BY <2>1, <2>2
<1>8. Comparable(EntryAt(s))
  BY <1>3, <1>7 DEF Comparable
<1>9. ASSUME x \in CallRecords, NEW c \in CallRecords, structuredRuleMatches(EntryAt(s), c) PROVE generalizedKey(c) = key
  <2>1. /\ \E p \in EntryAt(s).actions : matchesPattern(p, c)
        /\ \A k \in EntryAt(s).conditions : Metadata(c)[k.field] \in k.values
    BY <1>9 DEF structuredRuleMatches
  <2>2. matchesPattern(x.name, c)
    BY <1>2, <1>7, <2>1
  <2>3. /\ x.name \in NameRecords /\ c.name \in NameRecords
    BY <1>9 DEF CallRecords
  <2>4. x.name.category = c.name.category /\ x.name.operation = c.name.operation
    BY <2>2, <2>3 DEF matchesPattern, NameRecords
  <2>5. x.name = c.name
    BY <2>3, <2>4 DEF NameRecords
  <2> QED BY <1>4, <1>7, <2>1, <2>5
<1> QED BY <1>1, <1>5, <1>7, <1>8, <1>9 DEF key

\* A group in which something was denied, asked or critical is suggested no allowance.
LEMMA GroupEffect ==
    ASSUME NEW group
    PROVE  /\ effectForObservation(group) \in {"deny", "needs_approval", "allow"}
           /\ \A b \in group : b.critical \/ b.decision \in Strict => effectForObservation(group) \in Strict
BY DEF effectForObservation, Strict

ExactTwin(s, p) == /\ s.entry.kind = "exact" /\ p.entry.kind = "exact"
                   /\ s.place = p.place /\ s.entry.key = p.entry.key

\* What applying suggestions of S to pol can make of it: entries are added, and
\* an exact rule goes only where there is a suggestion for the same action.
Learned(pol, S, Q) ==
    /\ Q = [default |-> pol.default, placed |-> Q.placed]
    /\ Q.placed \subseteq pol.placed \cup S /\ IsFiniteSet(Q.placed)
    /\ \A p \in pol.placed \ Q.placed : \E s \in S \cap Q.placed : ExactTwin(s, p)

LearnedPolicies == [default : STRING, placed : Finite(PlacedRecords)]

\* Two suggestions of one name are for the same action, or are both for a group.
LEMMA SameName ==
    ASSUME NEW observations, NEW s \in finalize(observations), NEW t \in finalize(observations),
           s.name = t.name, t.entry.kind = "exact"
    PROVE  ExactTwin(s, t)
<1>1. ASSUME NEW x \in finalize(observations)
      PROVE  \/ x.name[1] = "learned" /\ x.entry.kind = "rule"
             \/ /\ x.name = <<"exact", x.entry.key, x.place.path>> /\ x.entry.kind = "exact"
                /\ x.place = ExactlyAt(x.place.path)
  <2>1. CASE ExactFrom(x, observations)
    <3>1. PICK b, effect : x = ExactSuggestion(b, effect)
      BY <2>1 DEF ExactFrom
    <3>2. x.name = <<"exact", x.entry.key, x.place.path>> /\ x.entry.kind = "exact" /\ x.place = ExactlyAt(b.of.path)
      BY <3>1, ExactSuggestionIs
    <3>3. x.place.path = b.of.path
      BY <3>2 DEF ExactlyAt
    <3> QED BY <3>2, <3>3
  <2>2. CASE GeneralFrom(x, observations)
    <3>1. PICK b, place, effect : x = GeneralSuggestion(generalizedKey(b.of.call), place, effect)
      BY <2>2 DEF GeneralFrom
    <3> QED BY <3>1, GeneralSuggestionIs
  <2> QED BY <2>1, <2>2, SuggestionIs
<1>2. /\ t.name = <<"exact", t.entry.key, t.place.path>> /\ t.place = ExactlyAt(t.place.path)
  BY <1>1
<1>3. s.name[1] = "exact"
  BY <1>2
<1>4. /\ s.name = <<"exact", s.entry.key, s.place.path>> /\ s.place = ExactlyAt(s.place.path)
      /\ s.entry.kind = "exact"
  BY <1>1, <1>3
<1>5. s.entry.key = t.entry.key /\ s.place.path = t.place.path
  BY <1>2, <1>4
<1> QED BY <1>2, <1>4, <1>5 DEF ExactTwin

\* Before anything is applied.
LEMMA LearnedNothing ==
    ASSUME NEW pol \in LearnedPolicies, NEW S
    PROVE  Learned(pol, S, pol)
<1>1. pol = [default |-> pol.default, placed |-> pol.placed] /\ IsFiniteSet(pol.placed)
  BY DEF LearnedPolicies, Finite
<1> QED BY <1>1, Zenon DEF Learned

\* Applying one more suggestion.
LEMMA LearnedMore ==
    ASSUME NEW observations, NEW pol \in LearnedPolicies, NEW Q, Learned(pol, finalize(observations), Q),
           NEW s \in finalize(observations)
    PROVE  Learned(pol, finalize(observations), applyLearningSuggestion(Q, s))
<1> DEFINE S == finalize(observations)
           Next == applyLearningSuggestion(Q, s)
           kept == {p \in Q.placed : p.name # s.name /\ ~ExactTwin(s, p)}
<1>1. Next = [default |-> pol.default, placed |-> kept \cup {s}]
  <2>1. Q = [default |-> pol.default, placed |-> Q.placed]
    BY DEF Learned
  <2>2. Next = [Q EXCEPT !.placed = kept \cup {s}]
    <3>1. kept = {p \in Q.placed : /\ p.name # s.name
                               /\ ~(p.entry.kind = "exact" /\ s.entry.kind = "exact"
                                    /\ p.place = s.place /\ p.entry.key = s.entry.key)}
      BY DEF ExactTwin
    <3> HIDE DEF kept
    <3> QED BY <3>1, Zenon DEF applyLearningSuggestion
  <2> HIDE DEF Next, kept
  <2>3. \A X : [Q EXCEPT !.placed = X] = [default |-> pol.default, placed |-> X]
    BY <2>1
  <2> QED BY <2>2, <2>3
<1> HIDE DEF Next
<1>2. Next.placed = kept \cup {s} /\ Next = [default |-> pol.default, placed |-> Next.placed]
  BY <1>1
<1>3. Q.placed \subseteq pol.placed \cup S /\ IsFiniteSet(Q.placed)
  BY DEF Learned
<1>4. Next.placed \subseteq pol.placed \cup S /\ IsFiniteSet(Next.placed)
  <2>1. kept \subseteq Q.placed /\ IsFiniteSet(kept)
    BY <1>3, FS_Subset
  <2>2. IsFiniteSet(kept \cup {s})
    BY <2>1, FS_AddElement
  <2> HIDE DEF kept, S
  <2>3. s \in S
    BY DEF S
  <2> QED BY <1>2, <1>3, <2>1, <2>2, <2>3
<1>5. ASSUME NEW p \in pol.placed \ Next.placed PROVE \E x \in S \cap Next.placed : ExactTwin(x, p)
  <2>1. s \in S \cap Next.placed
    BY <1>2
  <2>2. CASE p \in Q.placed
    <3>1. p.name = s.name \/ ExactTwin(s, p)
      BY <1>2, <1>5, <2>2
    <3>2. p.name # s.name
      <4>1. p.name[1] = "policy"
        BY DEF LearnedPolicies, Finite, PlacedRecords
      <4>2. s.name[1] # "policy"
        <5>1. CASE ExactFrom(s, observations)
          <6>1. PICK b, effect : s = ExactSuggestion(b, effect)
            BY <5>1 DEF ExactFrom
          <6>2. s.name = <<"exact", s.entry.key, s.place.path>>
            BY <6>1, ExactSuggestionIs
          <6> QED BY <6>2
        <5>2. CASE GeneralFrom(s, observations)
          <6>1. PICK b, place, effect : s = GeneralSuggestion(generalizedKey(b.of.call), place, effect)
            BY <5>2 DEF GeneralFrom
          <6>2. s.name[1] = "learned"
            BY <6>1, GeneralSuggestionIs
          <6> QED BY <6>2
        <5> QED BY <5>1, <5>2, SuggestionIs
      <4> QED BY <4>1, <4>2
    <3> QED BY <2>1, <3>1, <3>2
  <2>3. CASE p \notin Q.placed
    <3>1. PICK t \in S \cap Q.placed : ExactTwin(t, p)
      BY <1>5, <2>3 DEF Learned
    <3>2. CASE t \in Next.placed
      BY <3>1, <3>2
    <3>3. CASE t \notin Next.placed
      <4>1. t.name = s.name \/ ExactTwin(s, t)
        BY <1>2, <3>1, <3>3
      <4>2. t \in S /\ t.entry.kind = "exact"
        BY <3>1 DEF ExactTwin
      <4>3. ExactTwin(s, t)
        BY <4>1, <4>2, SameName
      <4>4. ExactTwin(s, p)
        BY <3>1, <4>3 DEF ExactTwin
      <4> QED BY <2>1, <4>4
    <3> QED BY <3>2, <3>3
  <2> QED BY <2>2, <2>3
<1>6. Learned(pol, S, Next)
  <2> HIDE DEF S, kept
  <2> QED BY <1>2, <1>4, <1>5, Zenon DEF Learned
<1> QED BY <1>6 DEF Next

\* An entry of the policy as it stands at a path.
LEMMA PlacedEntryIs ==
    ASSUME NEW p \in PlacedRecords
    PROVE  /\ EntryAt(p).kind = p.entry.kind
           /\ EntryAt(p).kind # "rule" => EntryAt(p) = p.entry
           /\ EntryAt(p).kind = "rule" => Comparable(EntryAt(p))
<1>1. p.entry \in PolicyEntries /\ (p.place.kind = "below" => p.entry.kind = "rule")
  BY DEF PlacedRecords, EntryRecords, PolicyEntries
<1>2. CASE p.place.kind # "below"
  <2>1. EntryAt(p) = p.entry
    BY <1>2 DEF EntryAt
  <2> QED BY <1>1, <2>1, RuleEntry, RulesComparable
<1>3. CASE p.place.kind = "below"
  <2>1. p.entry \in StructuredRules /\ p.entry.kind = "rule"
    BY <1>1, <1>3, RuleEntry
  <2>2. EntryAt(p) = [p.entry EXCEPT !.resources = {[under |-> "*", rank |-> 1]}]
    BY <1>3 DEF EntryAt
  <2>3. /\ EntryAt(p).kind = "rule" /\ EntryAt(p).priority = p.entry.priority /\ EntryAt(p).id = p.entry.id
        /\ EntryAt(p).conditions = p.entry.conditions /\ EntryAt(p).resources = {[under |-> "*", rank |-> 1]}
    BY <2>1, <2>2 DEF StructuredRules
  <2>4. Comparable(p.entry)
    BY <2>1, RulesComparable
  <2>5. Comparable(EntryAt(p))
    BY <2>3, <2>4 DEF Comparable
  <2> QED BY <2>1, <2>3, <2>5
<1> QED BY <1>2, <1>3

\* A suggestion as it stands at a path, and what it says of a call it matches.
LEMMA SuggestedEntryIs ==
    ASSUME NEW observations, PlainObservations(observations), NEW s \in finalize(observations)
    PROVE  /\ EntryAt(s).kind \in {"exact", "rule"} /\ EntryAt(s).effect \in PlainEffects
           /\ EntryAt(s).kind = "rule" => Comparable(EntryAt(s))
           /\ s.entry.kind = "exact" => EntryAt(s) = s.entry /\ s.entry.enabled
           /\ \A c \in CallRecords : ExactFor(EntryAt(s), c) \/ structuredRuleMatches(EntryAt(s), c) =>
                 /\ \E b \in observations : generalizedKey(b.of.call) = generalizedKey(c)
                 /\ EntryAt(s).effect = effectForObservation(GroupOf(observations, generalizedKey(c)))
<1>1. CASE ExactFrom(s, observations)
  <2>1. PICK b, effect : /\ b \in observations
                         /\ effect = effectForObservation(GroupOf(observations, generalizedKey(b.of.call)))
                         /\ s = ExactSuggestion(b, effect)
    BY <1>1 DEF ExactFrom
  <2>2. /\ s.entry.key = approvalFingerprint(b.of.call) /\ s.entry.kind = "exact" /\ s.entry.enabled
        /\ s.entry.effect = effectForObservation(GroupOf(observations, generalizedKey(b.of.call)))
        /\ EntryAt(s) = s.entry
    BY <2>1, ExactSuggestionIs
  <2>3. b.of.call \in CallRecords
    BY <2>1 DEF PlainObservations, SeenRecords
  <2>4. ASSUME NEW c \in CallRecords, ExactFor(EntryAt(s), c) \/ structuredRuleMatches(EntryAt(s), c)
        PROVE  generalizedKey(b.of.call) = generalizedKey(c)
    <3>1. s.entry.key = approvalFingerprint(c)
      BY <2>2, <2>4 DEF ExactFor, structuredRuleMatches
    <3> QED BY <2>2, <2>3, <3>1, SameFingerprintSameKey
  <2>5. EntryAt(s).effect \in PlainEffects
    BY <2>2, GroupEffect DEF PlainEffects
  <2>6. ASSUME NEW c \in CallRecords, ExactFor(EntryAt(s), c) \/ structuredRuleMatches(EntryAt(s), c)
        PROVE  /\ \E x \in observations : generalizedKey(x.of.call) = generalizedKey(c)
               /\ EntryAt(s).effect = effectForObservation(GroupOf(observations, generalizedKey(c)))
    <3>1. generalizedKey(b.of.call) = generalizedKey(c)
      BY <2>4, <2>6
    <3> QED BY <2>1, <2>2, <3>1, Zenon
  <2> QED BY <2>2, <2>5, <2>6
<1>2. CASE GeneralFrom(s, observations)
  <2>1. PICK b, place, effect :
          /\ b \in observations
          /\ effect = effectForObservation(GroupOf(observations, generalizedKey(b.of.call)))
          /\ s = GeneralSuggestion(generalizedKey(b.of.call), place, effect)
    BY <1>2 DEF GeneralFrom
  <2>2. /\ s.entry.kind = "rule" /\ EntryAt(s).kind = "rule" /\ Comparable(EntryAt(s))
        /\ EntryAt(s).effect = effectForObservation(GroupOf(observations, generalizedKey(b.of.call)))
        /\ \A c \in CallRecords : structuredRuleMatches(EntryAt(s), c) => generalizedKey(c) = generalizedKey(b.of.call)
    <3>1. /\ EntryAt(s).effect = effect /\ s.entry.kind = "rule" /\ EntryAt(s).kind = "rule" /\ Comparable(EntryAt(s))
      BY <2>1, GeneralSuggestionIs
    <3>2. b.of.call \in CallRecords
      BY <2>1 DEF PlainObservations, SeenRecords
    <3>3. \A c \in CallRecords : structuredRuleMatches(EntryAt(s), c) => generalizedKey(c) = generalizedKey(b.of.call)
      BY <2>1, <3>2, GeneralSuggestionIs
    <3> QED BY <2>1, <3>1, <3>3
  <2>3. EntryAt(s).effect \in PlainEffects
    BY <2>2, GroupEffect DEF PlainEffects
  <2>4. ASSUME NEW c \in CallRecords, ExactFor(EntryAt(s), c) \/ structuredRuleMatches(EntryAt(s), c)
        PROVE  /\ \E x \in observations : generalizedKey(x.of.call) = generalizedKey(c)
               /\ EntryAt(s).effect = effectForObservation(GroupOf(observations, generalizedKey(c)))
    <3>1. generalizedKey(c) = generalizedKey(b.of.call)
      BY <2>2, <2>4 DEF ExactFor
    <3> QED BY <2>1, <2>2, <3>1, Zenon
  <2> QED BY <2>2, <2>3, <2>4
<1> QED BY <1>1, <1>2, SuggestionIs

\* For a call whose group is not suggested an allowance, learning only tightens.
LEMMA LearningTightens ==
    ASSUME NEW observations, PlainObservations(observations), NEW pol \in LearnedPolicies, NEW Q,
           Learned(pol, finalize(observations), Q), NEW o \in SeenRecords, validatePolicy(SeenFrom(pol, o.path)),
           (\E b \in observations : generalizedKey(b.of.call) = generalizedKey(o.call)) =>
              effectForObservation(GroupOf(observations, generalizedKey(o.call))) \in Strict
    PROVE  \E N : Tightens(o.call, SeenFrom(pol, o.path), SeenFrom(Q, o.path), N)
<1> DEFINE S == finalize(observations)
           c == o.call
           P == SeenFrom(pol, o.path)
           R == SeenFrom(Q, o.path)
           N == {EntryAt(s) : s \in {x \in S : HoldsAt(x.place, o.path)}}
<1>1. /\ P.default = pol.default /\ R.default = Q.default
      /\ P.entries = {EntryAt(p) : p \in {q \in pol.placed : HoldsAt(q.place, o.path)}}
      /\ R.entries = {EntryAt(p) : p \in {q \in Q.placed : HoldsAt(q.place, o.path)}}
  BY SeenFromIs
<1>2. /\ Q.default = pol.default /\ Q.placed \subseteq pol.placed \cup S /\ IsFiniteSet(Q.placed)
      /\ \A p \in pol.placed \ Q.placed : \E s \in S \cap Q.placed : ExactTwin(s, p)
  BY DEF Learned
<1>3. pol.placed \subseteq PlacedRecords /\ c \in CallRecords
  BY DEF LearnedPolicies, Finite, SeenRecords
<1>4. validatePolicy(P)
  OBVIOUS
<1>5. \A s \in S : /\ EntryAt(s).kind \in {"exact", "rule"} /\ EntryAt(s).effect \in PlainEffects
                   /\ EntryAt(s).kind = "rule" => Comparable(EntryAt(s))
                   /\ s.entry.kind = "exact" => EntryAt(s) = s.entry /\ s.entry.enabled
                   /\ ExactFor(EntryAt(s), c) \/ structuredRuleMatches(EntryAt(s), c) => EntryAt(s).effect \in Strict
  <2> TAKE s \in S
  <2>1. ExactFor(EntryAt(s), c) \/ structuredRuleMatches(EntryAt(s), c) => EntryAt(s).effect \in Strict
    <3> SUFFICES ASSUME ExactFor(EntryAt(s), c) \/ structuredRuleMatches(EntryAt(s), c)
                 PROVE  EntryAt(s).effect \in Strict
      OBVIOUS
    <3>1. /\ \E b \in observations : generalizedKey(b.of.call) = generalizedKey(c)
          /\ EntryAt(s).effect = effectForObservation(GroupOf(observations, generalizedKey(c)))
      BY <1>3, SuggestedEntryIs, Zenon
    <3> QED BY <3>1
  <2>2. /\ EntryAt(s).kind \in {"exact", "rule"} /\ EntryAt(s).effect \in PlainEffects
        /\ EntryAt(s).kind = "rule" => Comparable(EntryAt(s))
    BY SuggestedEntryIs, Zenon
  <2>3. s.entry.kind = "exact" => EntryAt(s) = s.entry /\ s.entry.enabled
    BY SuggestedEntryIs, Zenon
  <2> QED BY <2>1, <2>2, <2>3
<1> HIDE DEF S, c, P, R
<1>6. R.entries \subseteq P.entries \cup N
  BY <1>1, <1>2
<1>7. ASSUME NEW e \in P.entries \ R.entries
      PROVE  /\ e.kind = "exact"
             /\ ExactFor(e, c) => \E n \in N \cap R.entries : ExactFor(n, c) /\ n.enabled
  <2>1. PICK p \in pol.placed : HoldsAt(p.place, o.path) /\ e = EntryAt(p)
    BY <1>1
  <2>2. p \notin Q.placed
    BY <1>1, <1>7, <2>1
  <2>3. PICK s \in S \cap Q.placed : ExactTwin(s, p)
    BY <1>2, <2>2
  <2>4. s.entry.kind = "exact" /\ p.entry.kind = "exact" /\ s.place = p.place /\ s.entry.key = p.entry.key
    BY <2>3 DEF ExactTwin
  <2>5. e.kind = "exact" /\ e = p.entry
    BY <1>3, <2>1, <2>4, PlacedEntryIs
  <2>6. EntryAt(s) = s.entry /\ s.entry.enabled
    BY <1>5, <2>4
  <2>7. s.entry \in N \cap R.entries
    BY <1>1, <2>1, <2>4, <2>6
  <2>8. ExactFor(e, c) => ExactFor(s.entry, c)
    BY <2>4, <2>5 DEF ExactFor
  <2> QED BY <2>5, <2>6, <2>7, <2>8
<1>8. \A n \in N : /\ n.kind \in {"exact", "rule"} /\ n.effect \in PlainEffects
                   /\ n.kind = "rule" => Comparable(n)
                   /\ ExactFor(n, c) \/ structuredRuleMatches(n, c) => n.effect \in Strict
  BY <1>5
<1>9. IsFiniteSet(R.entries)
  <2> DEFINE X == {q \in Q.placed : HoldsAt(q.place, o.path)}
             f == [p \in X |-> EntryAt(p)]
  <2>1. IsFiniteSet(X)
    BY <1>2, FS_Subset
  <2>2. f \in Surjection(X, R.entries)
    BY <1>1 DEF Surjection
  <2> HIDE DEF X, f
  <2> QED BY <2>1, <2>2, FS_Surjection
<1>10. \A e \in P.entries : e.kind = "rule" => Comparable(e)
  BY <1>1, <1>3, PlacedEntryIs
<1> HIDE DEF N
<1>11. \A e \in R.entries : e.kind = "rule" => Comparable(e)
  BY <1>6, <1>8, <1>10
<1>12. validatePolicy(R)
  <2>1. \A n \in N : normalizeDecisionAction(n.effect) \in Decisions \ {"dry_run_only"}
    BY <1>8 DEF PlainEffects, normalizeDecisionAction, Decisions
  <2>2. R.default = P.default
    BY <1>1, <1>2
  <2>3. ASSUME NEW e \in R.entries
        PROVE  /\ e.kind = "exact" => normalizeDecisionAction(e.effect) \in Decisions \ {"dry_run_only"}
               /\ e.kind = "rule" => normalizeDecisionAction(e.effect) \in Decisions
    <3>1. CASE e \in N
      BY <2>1, <3>1
    <3>2. CASE e \in P.entries
      BY <1>4, <3>2 DEF validatePolicy
    <3> QED BY <1>6, <3>1, <3>2
  <2>4. normalizeDecisionAction(R.default) \in Decisions
    BY <1>4, <2>2 DEF validatePolicy
  <2> QED BY <2>3, <2>4 DEF validatePolicy
<1>13. Tightens(c, P, R, N)
  BY <1>1, <1>2, <1>4, <1>6, <1>7, <1>8, <1>9, <1>11, <1>12 DEF Tightens
<1> QED BY <1>13 DEF c, P, R

\* A call with a verdict other than an error is under a policy that validates.
LEMMA VerdictIsOfValid ==
    ASSUME NEW c, NEW pol, ~Early(c), Told(c, pol) \subseteq Strict
    PROVE  validatePolicy(pol)
<1> SUFFICES ASSUME ~validatePolicy(pol) PROVE FALSE
  OBVIOUS
<1>1. evaluatePolicy(c, pol) = {Decision("throws", "validation", FALSE)}
  BY InvalidThrows
<1>2. RiskGuard(c, Decision("throws", "validation", FALSE)) = "throws"
  BY DEF RiskGuard, Decision
<1>3. RiskGuard(c, Decision("throws", "validation", FALSE)) \in Guarded(c, pol)
  BY <1>1 DEF Guarded
<1>4. Told(c, pol) = Guarded(c, pol)
  BY WithoutMemory DEF Told
<1> QED BY <1>2, <1>3, <1>4 DEF Strict

ObservedBy(q) == {observe(o, q.policy) : o \in q.seen}

\* An observation is of the call, with the verdict it got and its risk.
LEMMA ObservationIs ==
    ASSUME NEW o, NEW pol
    PROVE  /\ observe(o, pol).of = o /\ observe(o, pol).decision = (CHOOSE v \in VerdictAt(o, pol) : TRUE)
           /\ observe(o, pol).critical <=> classifyRisk(o.call) = "critical"
BY DEF observe

\* A verdict at a path is one of the policy as it stands there.
LEMMA VerdictIsTold == ASSUME NEW o, NEW pol PROVE VerdictAt(o, pol) = Told(o.call, SeenFrom(pol, o.path))
BY DEF VerdictAt, Told

\* What a session is asked.
LEMMA SessionIs ==
    ASSUME NEW q \in LearningAsked
    PROVE  /\ q.policy \in LearnedPolicies /\ q.seen \in SUBSET SeenRecords /\ q.seen # {}
           /\ q.unseen \in SUBSET SeenRecords /\ \A o \in q.unseen : classifyRisk(o.call) = "critical"
           /\ \A o \in q.seen : VerdictAt(o, q.policy) = {observe(o, q.policy).decision}
           /\ PlainObservations(ObservedBy(q))
<1>1. q \in LearningRecords /\ \A o \in q.unseen : classifyRisk(o.call) = "critical"
  BY DEF LearningAsked
<1>2. /\ q.policy \in LearnedPolicies /\ q.seen \in SUBSET SeenRecords /\ q.seen # {} /\ q.unseen \in SUBSET SeenRecords
  BY <1>1 DEF LearningRecords, LearnedPolicies, Finite
<1>3. ASSUME NEW o \in q.seen PROVE VerdictAt(o, q.policy) = {observe(o, q.policy).decision}
  <2>1. VerdictAt(o, q.policy) = {CHOOSE v \in VerdictAt(o, q.policy) : TRUE}
    BY Zenon DEF LearningAsked
  <2> QED BY <2>1, ObservationIs
<1>4. PlainObservations(ObservedBy(q))
  BY <1>2, ObservationIs DEF PlainObservations, ObservedBy
<1> QED BY <1>1, <1>2, <1>3, <1>4

\* Whatever of a session is applied, a call it saw denied or put to a human is
\* not allowed.
LEMMA SeenStaysStrict ==
    ASSUME NEW q \in LearningAsked, NEW Q, Learned(q.policy, finalize(ObservedBy(q)), Q),
           NEW o \in q.seen, observe(o, q.policy).decision \in Strict
    PROVE  VerdictAt(o, Q) \subseteq Strict
<1> DEFINE c == o.call
           P == SeenFrom(q.policy, o.path)
           R == SeenFrom(Q, o.path)
<1>1. Told(c, P) \subseteq Strict
  <2>1. VerdictAt(o, q.policy) = {observe(o, q.policy).decision}
    BY SessionIs
  <2> QED BY <2>1, VerdictIsTold
<1>2. ASSUME ~Early(c) PROVE \E N : Tightens(c, P, R, N)
  <2>1. validatePolicy(P)
    BY <1>1, <1>2, VerdictIsOfValid
  <2>2. observe(o, q.policy) \in GroupOf(ObservedBy(q), generalizedKey(c))
    BY ObservationIs DEF GroupOf, ObservedBy
  <2>3. effectForObservation(GroupOf(ObservedBy(q), generalizedKey(c))) \in Strict
    BY <2>2, GroupEffect
  <2>4. q.policy \in LearnedPolicies /\ o \in SeenRecords /\ PlainObservations(ObservedBy(q))
    BY SessionIs
  <2> QED BY <2>1, <2>3, <2>4, LearningTightens
<1> HIDE DEF c, P, R
<1>3. Told(c, R) \subseteq Strict
  BY <1>1, <1>2, StillStrict
<1> QED BY <1>3, VerdictIsTold DEF c, R

\* A critical call elsewhere that was denied is still denied.
LEMMA CriticalStaysDenied ==
    ASSUME NEW q \in LearningAsked, NEW Q, Learned(q.policy, finalize(ObservedBy(q)), Q),
           NEW o \in q.unseen, VerdictAt(o, q.policy) = {"deny"}
    PROVE  VerdictAt(o, Q) = {"deny"}
<1> DEFINE c == o.call
           P == SeenFrom(q.policy, o.path)
           R == SeenFrom(Q, o.path)
<1>1. Told(c, P) = {"deny"}
  BY VerdictIsTold
<1>2. /\ q.policy \in LearnedPolicies /\ o \in SeenRecords /\ PlainObservations(ObservedBy(q))
      /\ classifyRisk(c) = "critical"
  BY SessionIs
<1>3. ASSUME ~Early(c) PROVE \E N : Tightens(c, P, R, N)
  <2>1. validatePolicy(P)
    BY <1>1, <1>3, VerdictIsOfValid DEF Strict
  <2>2. ASSUME NEW b \in ObservedBy(q), generalizedKey(b.of.call) = generalizedKey(c)
        PROVE  effectForObservation(GroupOf(ObservedBy(q), generalizedKey(c))) \in Strict
    <3>1. PICK s \in q.seen : b = observe(s, q.policy)
      BY DEF ObservedBy
    <3>2. classifyRisk(b.of.call) = "critical"
      BY <1>2, <1>3, <2>2, CriticalHasCause, CauseIsShared
    <3>3. b.critical
      BY <3>1, <3>2, ObservationIs
    <3>4. b \in GroupOf(ObservedBy(q), generalizedKey(c))
      BY <2>2 DEF GroupOf
    <3> QED BY <3>3, <3>4, GroupEffect
  <2> QED BY <1>2, <2>1, <2>2, LearningTightens
<1> HIDE DEF c, P, R
<1>4. Told(c, R) = {"deny"}
  BY <1>1, <1>2, <1>3, StillDenied
<1> QED BY <1>4, VerdictIsTold DEF c, R

---------------------------------------------------------------------------
(* PolicyChanges: the answers                                              *)

Suggestions == finalize(ObservedBy(given))
AppliedOnce == {applyLearningSuggestion(given.policy, s) : s \in Suggestions}
AppliedTwice == UNION {{applyLearningSuggestion(p, s) : s \in Suggestions} : p \in AppliedOnce}

LearningAnswer ==
    [observed |-> ObservedBy(given),
     before |-> [o \in given.unseen |-> VerdictAt(o, given.policy)],
     after |-> [o \in given.seen |-> UNION {VerdictAt(o, p) : p \in AppliedOnce \cup AppliedTwice}],
     elsewhere |-> [o \in given.unseen |-> UNION {VerdictAt(o, p) : p \in AppliedOnce \cup AppliedTwice}]]

Migrates == migratePolicyToV2(given.policy, given.declared)
MigrationAnswer ==
    [c \in Calls |-> [before |-> evaluatePermissionRequest(c, given.policy, NoMemory(c), TRUE),
                      after |-> evaluatePermissionRequest(c, Migrates, NoMemory(c), TRUE)]]

Authored == previewGuidedPolicyRule(given.policy, buildGuidedPolicyRule(given.options))
GuidedAnswer ==
    [c \in Calls |-> [before |-> evaluatePermissionRequest(c, given.policy, NoMemory(c), TRUE),
                      after |-> evaluatePermissionRequest(c, Authored, NoMemory(c), TRUE)]]

\* A rewriting of its kind, without an answer or with the one the code gives.
ChangesAnswered ==
    \/ part = "learning" /\ given \in LearningAsked /\ answers \in {<<>>, <<LearningAnswer>>}
    \/ part = "migration" /\ given \in MigrationAsked /\ answers \in {<<>>, <<MigrationAnswer>>}
    \/ part = "guided" /\ given \in GuidedAsked /\ answers \in {<<>>, <<GuidedAnswer>>}

\* What is in answers is what the rewritings make of what is given.
LEMMA ChangesAreAnswered == ChangesSpec => []ChangesAnswered
<1>1. Ask("learning", LearningAsked) \/ Ask("migration", MigrationAsked) \/ Ask("guided", GuidedAsked) => ChangesAnswered
  BY DEF Ask, ChangesAnswered
<1>2. ChangesAnswered /\ [AskLearning \/ AskMigration \/ AskGuided]_caseVars => ChangesAnswered'
  <2> SUFFICES ASSUME ChangesAnswered, [AskLearning \/ AskMigration \/ AskGuided]_caseVars PROVE ChangesAnswered'
    OBVIOUS
  <2>0. ASSUME given' = given
        PROVE  LearningAnswer' = LearningAnswer /\ MigrationAnswer' = MigrationAnswer /\ GuidedAnswer' = GuidedAnswer
    <3>1. Suggestions' = Suggestions
      BY <2>0 DEF Suggestions
    <3>2. AppliedOnce' = AppliedOnce
      BY <2>0, <3>1 DEF AppliedOnce
    <3>3. AppliedTwice' = AppliedTwice
      BY <3>1, <3>2 DEF AppliedTwice
    <3>4. LearningAnswer' = LearningAnswer
      BY <2>0, <3>2, <3>3 DEF LearningAnswer
    <3>5. MigrationAnswer' = MigrationAnswer
      BY <2>0 DEF MigrationAnswer, Migrates
    <3>6. GuidedAnswer' = GuidedAnswer
      BY <2>0 DEF GuidedAnswer, Authored
    <3> QED BY <3>4, <3>5, <3>6
  <2>1. CASE AskLearning
    <3>1. part = "learning" /\ part' = part /\ given' = given
      BY <2>1 DEF AskLearning, Answer
    <3>2. answers' = <<LearningAnswer>>
      BY <2>1, Zenon DEF AskLearning, Answer, LearningAnswer, AppliedOnce, AppliedTwice, Suggestions, ObservedBy
    <3> QED BY <2>0, <3>1, <3>2, Zenon DEF ChangesAnswered
  <2>2. CASE AskMigration
    <3>1. part = "migration" /\ answers' = <<MigrationAnswer>> /\ part' = part /\ given' = given
      BY <2>2, Zenon DEF AskMigration, Answer, MigrationAnswer, Migrates
    <3> QED BY <2>0, <3>1, Zenon DEF ChangesAnswered
  <2>3. CASE AskGuided
    <3>1. part = "guided" /\ answers' = <<GuidedAnswer>> /\ part' = part /\ given' = given
      BY <2>3, Zenon DEF AskGuided, Answer, GuidedAnswer, Authored
    <3> QED BY <2>0, <3>1, Zenon DEF ChangesAnswered
  <2>4. CASE UNCHANGED caseVars
    <3>1. part' = part /\ given' = given /\ answers' = answers
      BY <2>4 DEF caseVars
    <3> QED BY <2>0, <3>1 DEF ChangesAnswered
  <2> QED BY <2>1, <2>2, <2>3, <2>4
<1> QED BY <1>1, <1>2, PTL DEF ChangesSpec

\* What is applied of a session, one suggestion or two, adds to the policy only.
LEMMA AppliedIsLearned ==
    ASSUME given \in LearningAsked, NEW Q \in AppliedOnce \cup AppliedTwice
    PROVE  Learned(given.policy, finalize(ObservedBy(given)), Q)
<1>1. given.policy \in LearnedPolicies
  BY SessionIs
<1>2. ASSUME NEW p \in AppliedOnce PROVE Learned(given.policy, finalize(ObservedBy(given)), p)
  BY <1>1, LearnedNothing, LearnedMore DEF AppliedOnce, Suggestions
<1>3. ASSUME NEW p \in AppliedTwice PROVE Learned(given.policy, finalize(ObservedBy(given)), p)
  BY <1>1, <1>2, LearnedMore DEF AppliedTwice, Suggestions
<1> QED BY <1>2, <1>3

\* finalize suggests the exact action of everything in a group.
LEMMA FinalizeCovers ==
    ASSUME NEW observations, NEW key \in {generalizedKey(b.of.call) : b \in observations},
           NEW s \in {ExactSuggestion(x, effectForObservation(GroupOf(observations, key))) : x \in GroupOf(observations, key)}
    PROVE  s \in finalize(observations)
<1> DEFINE effect(k) == effectForObservation(GroupOf(observations, k))
           paths(k) == {b.of.path : b \in GroupOf(observations, k)}
           exact(k) == {ExactSuggestion(b, effect(k)) : b \in GroupOf(observations, k)}
           general(k) == IF Cardinality(paths(k)) >= 2
                         THEN {GeneralSuggestion(k, commonResourcePattern(paths(k)), effect(k))} ELSE {}
<1>1. finalize(observations) = UNION {exact(k) \cup general(k) : k \in {generalizedKey(b.of.call) : b \in observations}}
  BY Zenon DEF finalize, GroupOf
<1>2. s \in exact(key)
  OBVIOUS
<1> HIDE DEF exact, general
<1> QED BY <1>1, <1>2

\* A session that saw something has a suggestion to apply.
LEMMA SomethingToApply == ASSUME given \in LearningAsked PROVE AppliedOnce # {}
<1>1. PICK o \in given.seen : TRUE
  BY SessionIs
<1> DEFINE b == observe(o, given.policy)
           key == generalizedKey(b.of.call)
           group == GroupOf(ObservedBy(given), key)
<1>2. b \in ObservedBy(given) /\ b \in group
  BY <1>1 DEF ObservedBy, GroupOf
<1> HIDE DEF b
<1>3. \E s : s \in finalize(ObservedBy(given))
  <2>1. ExactSuggestion(b, effectForObservation(group)) \in finalize(ObservedBy(given))
    <3>1. ExactSuggestion(b, effectForObservation(group)) \in {ExactSuggestion(x, effectForObservation(group)) : x \in group}
      BY <1>2
    <3>2. key \in {generalizedKey(x.of.call) : x \in ObservedBy(given)}
      BY <1>2
    <3> QED BY <3>1, <3>2, FinalizeCovers
  <2> QED BY <2>1
<1> QED BY <1>3 DEF AppliedOnce, Suggestions

\* RuleOak's own rewritings of a policy do not loosen it.
THEOREM RewritesNeverLoosen == ChangesSpec => []RewritesDoNotLoosen
<1>1. ASSUME ChangesAnswered PROVE LearningDoesNotLoosen
  <2> SUFFICES ASSUME Answered("learning")
               PROVE  /\ \A b \in answer.observed : b.decision \in Strict => answer.after[b.of] \subseteq Strict
                      /\ \A o \in given.unseen : answer.before[o] = {"deny"} => answer.elsewhere[o] = {"deny"}
    BY DEF LearningDoesNotLoosen, Strict
  <2>1. given \in LearningAsked /\ answers = <<LearningAnswer>>
    BY <1>1 DEF ChangesAnswered, Answered
  <2>2. answer = LearningAnswer
    BY <2>1 DEF answer
  <2>3. /\ answer.observed = ObservedBy(given)
        /\ answer.before = [o \in given.unseen |-> VerdictAt(o, given.policy)]
        /\ answer.after = [o \in given.seen |-> UNION {VerdictAt(o, p) : p \in AppliedOnce \cup AppliedTwice}]
        /\ answer.elsewhere = [o \in given.unseen |-> UNION {VerdictAt(o, p) : p \in AppliedOnce \cup AppliedTwice}]
    BY <2>2 DEF LearningAnswer
  <2>4. ASSUME NEW b \in answer.observed, b.decision \in Strict PROVE answer.after[b.of] \subseteq Strict
    <3>1. PICK o \in given.seen : b = observe(o, given.policy)
      BY <2>3, <2>4 DEF ObservedBy
    <3>2. b.of = o
      BY <3>1, ObservationIs
    <3>3. \A p \in AppliedOnce \cup AppliedTwice : VerdictAt(o, p) \subseteq Strict
      BY <2>1, <2>4, <3>1, AppliedIsLearned, SeenStaysStrict
    <3>4. answer.after[o] = UNION {VerdictAt(o, p) : p \in AppliedOnce \cup AppliedTwice}
      BY <2>3
    <3> QED BY <3>2, <3>3, <3>4
  <2>5. ASSUME NEW o \in given.unseen, answer.before[o] = {"deny"} PROVE answer.elsewhere[o] = {"deny"}
    <3>1. VerdictAt(o, given.policy) = {"deny"}
      BY <2>3, <2>5
    <3>2. \A p \in AppliedOnce \cup AppliedTwice : VerdictAt(o, p) = {"deny"}
      BY <2>1, <3>1, AppliedIsLearned, CriticalStaysDenied
    <3>3. answer.elsewhere[o] = UNION {VerdictAt(o, p) : p \in AppliedOnce \cup AppliedTwice}
      BY <2>3
    <3>4. AppliedOnce # {}
      BY <2>1, SomethingToApply
    <3> QED BY <3>2, <3>3, <3>4
  <2> QED BY <2>4, <2>5
<1>2. ASSUME ChangesAnswered PROVE MigrationKeepsGuards
  <2> SUFFICES ASSUME Answered("migration"), NEW c \in Calls
               PROVE  /\ answer[c].before = {"deny"} => answer[c].after = {"deny"}
                      /\ given.declared = 1 /\ (\E e \in given.policy.entries : e.kind = "approval" /\ Names(e, c))
                            /\ ~(\E e \in given.policy.entries : e.kind \in {"exact", "rule"})
                               => answer[c].after \subseteq {"deny", "needs_approval"}
                      /\ "allow" \in answer[c].after \ answer[c].before =>
                            \E e \in given.policy.entries : e.kind = "allowed" /\ Names(e, c)
    BY DEF MigrationKeepsGuards
  <2>1. given \in MigrationAsked /\ answers = <<MigrationAnswer>>
    BY <1>2 DEF ChangesAnswered, Answered
  <2>2. answer = MigrationAnswer
    BY <2>1 DEF answer
  <2>3. answer[c].before = Told(c, given.policy) /\ answer[c].after = Told(c, Migrates)
    BY <2>2 DEF MigrationAnswer, Told
  <2>4. \A list : Listed(given.policy, list, c) <=> \E e \in given.policy.entries : e.kind = list /\ Names(e, c)
    BY DEF Listed, Names, matchesPattern
  <2>5. /\ Told(c, given.policy) = {"deny"} => Told(c, Migrates) = {"deny"}
        /\ given.declared = 1 /\ Listed(given.policy, "approval", c) /\ ~(\E e \in given.policy.entries : e.kind \in {"exact", "rule"})
              => Told(c, Migrates) \subseteq {"deny", "needs_approval"}
        /\ "allow" \in Told(c, Migrates) \ Told(c, given.policy) => Listed(given.policy, "allowed", c)
    <3>1. given.policy \in ValidPolicies /\ given.declared \in 1 .. 2
      BY <2>1 DEF MigrationAsked
    <3> QED BY <3>1, MigrationIsStrict DEF Migrates
  <2> QED BY <2>3, <2>4, <2>5
<1>3. ASSUME ChangesAnswered PROVE AuthoringIsLocal
  <2> SUFFICES ASSUME Answered("guided"), NEW c \in Calls,
                      ~matchesPattern(given.options.action, c),
                      \A e \in given.policy.entries : e.kind = "rule" /\ e.id = GuidedId(given.options)
                                                         => \A p \in e.actions : ~matchesPattern(p, c)
               PROVE  answer[c].before = answer[c].after
    BY DEF AuthoringIsLocal, matchesPattern
  <2>1. given \in GuidedAsked /\ answers = <<GuidedAnswer>>
    BY <1>3 DEF ChangesAnswered, Answered
  <2>2. answer = GuidedAnswer
    BY <2>1 DEF answer
  <2>3. answer[c].before = Told(c, given.policy) /\ answer[c].after = Told(c, Authored)
    BY <2>2 DEF GuidedAnswer, Told
  <2>4. given.policy \in ValidPolicies /\ given.options \in GuidedOptions
    BY <2>1 DEF GuidedAsked
  <2>5. Told(c, Authored) = Told(c, given.policy)
    BY <2>4, AuthoringIsNarrow DEF Authored
  <2> QED BY <2>3, <2>5
<1>4. ChangesAnswered => RewritesDoNotLoosen
  BY <1>1, <1>2, <1>3 DEF RewritesDoNotLoosen
<1> QED BY <1>4, ChangesAreAnswered, PTL

---------------------------------------------------------------------------
(* EffectRules: the answers                                                *)

ContractOf == inferFilesystemEffectContract(given.call, given.at, resolveStdioEffectProfile(given.launch))

ContractAnswer ==
    [contract |-> ContractOf,
     verdict  |-> IF ContractOf = NoContract THEN "unknown" ELSE verifyFilesystemPostcondition(ContractOf, given.later)]

RecordOf == IF given.verified
            THEN buildEffectVerificationRecord(given.receipt, verifyByProbe(given.probe), RetrySafe(given.probe), given.lease)
            ELSE NoRecord

RetryAnswer == [valid |-> verifyEffectReceipt(given.receipt, given.lease),
                disposition |-> decideEffectRetry(given.receipt, RecordOf, given.retryLease, given.proves)]

EffectAnswered ==
    \/ part = "contract" /\ given \in ContractAsked /\ answers \in {<<>>, <<ContractAnswer>>}
    \/ part = "retry" /\ given \in RetryAsked /\ answers \in {<<>>, <<RetryAnswer>>}

\* What is in answers is what the procedures say of what is given.
LEMMA EffectIsAnswered == EffectRulesSpec => []EffectAnswered
<1>1. Ask("contract", ContractAsked) \/ Ask("retry", RetryAsked) => EffectAnswered
  BY DEF Ask, EffectAnswered
<1>2. EffectAnswered /\ [AskContract \/ AskRetry]_caseVars => EffectAnswered'
  <2> SUFFICES ASSUME EffectAnswered, [AskContract \/ AskRetry]_caseVars PROVE EffectAnswered'
    OBVIOUS
  <2>0. ASSUME given' = given PROVE ContractAnswer' = ContractAnswer /\ RetryAnswer' = RetryAnswer
    BY <2>0 DEF ContractAnswer, RetryAnswer, ContractOf, RecordOf
  <2>1. CASE AskContract
    <3>1. part = "contract" /\ answers' = <<ContractAnswer>> /\ part' = part /\ given' = given
      BY <2>1, Zenon DEF AskContract, Answer, ContractAnswer, ContractOf
    <3> QED BY <2>0, <3>1, Zenon DEF EffectAnswered
  <2>2. CASE AskRetry
    <3>1. part = "retry" /\ answers' = <<RetryAnswer>> /\ part' = part /\ given' = given
      BY <2>2, Zenon DEF AskRetry, Answer, RetryAnswer, RecordOf
    <3> QED BY <2>0, <3>1, Zenon DEF EffectAnswered
  <2>3. CASE UNCHANGED caseVars
    <3>1. part' = part /\ given' = given /\ answers' = answers
      BY <2>3 DEF caseVars
    <3> QED BY <2>0, <3>1 DEF EffectAnswered
  <2> QED BY <2>1, <2>2, <2>3
<1> QED BY <1>1, <1>2, PTL DEF EffectRulesSpec

---------------------------------------------------------------------------

\* A state of a path that is a plain file, a directory, absent or a link.
Shape(s) == /\ s.content \in Nat /\ s = [kind |-> s.kind, content |-> s.content]
            /\ s.kind \in {"absent", "directory", "symlink", "dangling", "file"}
            /\ s.kind \in {"absent", "symlink", "dangling"} => s.content = 0

\* Every state of a path has the shape of one.
LEMMA StateShapes == \A s \in States : Shape(s)
BY ContentsAssumption DEF States, Shape, Absent, Directory, Link, Dangling, File

\* What a path reads as, and when it reads as nothing.
LEMMA Reading ==
    ASSUME NEW s, Shape(s)
    PROVE  /\ ReadsAs(s) = Absent <=> s.kind \in {"absent", "dangling"}
           /\ s.kind \notin {"absent", "dangling"} => ReadsAs(s) = s
           /\ snapshot(s).present <=> ReadsAs(s) # Absent
           /\ captureFilesystemState(s).present <=> ReadsAs(s) # Absent
           /\ snapshot(s).kind = ReadsAs(s).kind /\ captureFilesystemState(s).kind = ReadsAs(s).kind
           /\ s.kind = "file" => snapshot(s).digest = s.content
           /\ s.kind # "file" => captureFilesystemState(s).digest = NoDigest
<1>1. s = Dangling <=> s.kind = "dangling"
  BY DEF Shape, Dangling
<1>2. s = Absent <=> s.kind = "absent"
  BY DEF Shape, Absent
<1>3. snapshot(s).present = (ReadsAs(s) # Absent) /\ captureFilesystemState(s).present = (ReadsAs(s) # Absent)
  BY DEF snapshot, captureFilesystemState
<1> QED BY <1>1, <1>2, <1>3 DEF ReadsAs, snapshot, captureFilesystemState, Absent, Dangling

\* What verification calls unchanged reads the same, for a state told from every other.
LEMMA MatchesIsSame ==
    ASSUME NEW before, NEW now, Shape(before), Shape(now), before.kind # "symlink",
           matches(snapshot(now), captureFilesystemState(before))
    PROVE  /\ ReadsAs(now).kind = ReadsAs(before).kind
           /\ Identified(before) => ReadsAs(now) = ReadsAs(before)
<1>1. CASE ReadsAs(before) = Absent
  BY <1>1, Reading, Zenon DEF matches
<1>2. CASE ReadsAs(before) # Absent
  <2>1. ReadsAs(now) # Absent /\ ReadsAs(now).kind = ReadsAs(before).kind
    BY <1>2, Reading DEF matches
  <2>2. ReadsAs(before) = before /\ ReadsAs(now) = now
    BY <1>2, <2>1, Reading
  <2>3. ASSUME Identified(before) PROVE now = before
    <3>1. before.kind = "file"
      BY <1>2, <2>3, Reading DEF Shape, Identified
    <3>2. captureFilesystemState(before).digest = before.content /\ before.content # NoDigest
      BY <2>3, <3>1 DEF captureFilesystemState, Identified, Shape, NoDigest
    <3>3. snapshot(now).digest = now.content
      BY <2>1, <2>2, <3>1, Reading
    <3>4. captureFilesystemState(before).present
      BY <1>2, Reading
    <3>5. now.content = before.content
      BY <3>2, <3>3, <3>4 DEF matches
    <3> QED BY <2>1, <2>2, <3>5 DEF Shape
  <2> QED BY <2>1, <2>2, <2>3
<1> QED BY <1>1, <1>2

\* The two worlds of a question hold states of paths.
LEMMA WorldShapes ==
    ASSUME given \in ContractAsked
    PROVE  /\ Shape(given.at.path) /\ Shape(given.at.dest)
           /\ Shape(given.later.path) /\ Shape(given.later.dest) /\ given.call.content \in Nat
BY StateShapes, ContentsAssumption DEF ContractAsked, Worlds

\* The contracts that are made.
LEMMA ContractIs ==
    ASSUME given \in ContractAsked, ContractOf # NoContract
    PROVE  /\ given.at.place \in given.launch.roots
           /\ given.call.operation = "move" => given.at.destPlace \in given.launch.roots
           /\ given.at.path.kind # "symlink" /\ (given.call.operation = "move" => given.at.dest.kind # "symlink")
           /\ ContractOf.operation = given.call.operation
           /\ ContractOf.place = given.at.place /\ ContractOf.destPlace = given.at.destPlace
           /\ ContractOf.before = captureFilesystemState(given.at.path)
           /\ ContractOf.destBefore = captureFilesystemState(given.at.dest)
           /\ given.call.operation \in {"write", "create_directory", "delete", "move", "edit"}
           /\ given.call.operation \in {"write", "edit"} => ContractOf.expected = given.call.content
<1> DEFINE roots == resolveStdioEffectProfile(given.launch)
           source == captureFilesystemState(given.at.path)
           target == captureFilesystemState(given.at.dest)
           c(expected, idempotent) ==
              [operation |-> given.call.operation, expected |-> expected, before |-> source,
               destBefore |-> target, place |-> given.at.place, destPlace |-> given.at.destPlace,
               idempotent |-> idempotent]
<1>0. Shape(given.at.path) /\ Shape(given.at.dest)
  BY WorldShapes
<1>1. /\ given.at.place \in roots /\ source.kind # "symlink"
      /\ given.call.operation = "move" => given.at.destPlace \in roots /\ target.kind # "symlink"
  BY DEF ContractOf, inferFilesystemEffectContract, pathGuard
<1>7. /\ given.at.path.kind # "symlink"
      /\ given.call.operation = "move" => given.at.dest.kind # "symlink"
  BY <1>0, <1>1, Reading
<1>2. roots \in {given.launch.roots, {}}
  BY DEF resolveStdioEffectProfile
<1>3. ContractOf =
        CASE given.call.operation = "write" /\ given.call.content <= Hashable -> c(given.call.content, given.call.idempotent)
           [] given.call.operation = "create_directory"                  -> c(NoDigest, TRUE)
           [] given.call.operation \in {"delete", "move"}                -> c(NoDigest, FALSE)
           [] given.call.operation = "edit" /\ source.digest # NoDigest /\ exactEditResult(given.call, given.at.path) # NoDigest
                                                                   -> c(exactEditResult(given.call, given.at.path), FALSE)
           [] OTHER -> NoContract
  BY <1>1 DEF ContractOf, inferFilesystemEffectContract, pathGuard
<1>4. \E e, i : ContractOf = c(e, i)
  BY <1>3
<1>5. given.call.operation \in {"write", "create_directory", "delete", "move", "edit"}
  BY <1>3
<1>6. ASSUME given.call.operation \in {"write", "edit"} PROVE ContractOf.expected = given.call.content
  <2>1. \E i : ContractOf = c(given.call.content, i)
    BY <1>3, <1>6 DEF exactEditResult
  <2> QED BY <2>1
<1> QED BY <1>1, <1>2, <1>4, <1>5, <1>6, <1>7

\* What a verdict says of the two comparisons it is made of.
LEMMA VerdictIs ==
    ASSUME NEW success \in BOOLEAN, NEW failure \in BOOLEAN
    PROVE  /\ Verdict(success, failure) = "confirmed_success" <=> success
           /\ Verdict(success, failure) = "confirmed_failure" <=> ~success /\ failure
           /\ Verdict(success, failure) # "unknown"
BY DEF Verdict

Verified == verifyFilesystemPostcondition(ContractOf, given.later)

Redirected == \/ given.later.place # given.at.place
              \/ given.call.operation = "move" /\ given.later.destPlace # given.at.destPlace

\* A path that came to be reached through a link is never confirmed.
LEMMA RedirectedVerdict ==
    ASSUME given \in ContractAsked, ContractOf # NoContract, Redirected
    PROVE  Verified = "partial_or_ambiguous"
BY ContractIs DEF Verified, Redirected, verifyFilesystemPostcondition, pathBinding

\* What the verdict on a move says of the two paths.
LEMMA MovedVerdict ==
    ASSUME given \in ContractAsked, ContractOf # NoContract, ~Redirected, given.call.operation = "move"
    PROVE  /\ Verified = "confirmed_success" => AsAsked(given.call, given.at, given.later)
           /\ Verified = "confirmed_failure" => /\ matches(snapshot(given.later.path), ContractOf.before)
                                                /\ matches(snapshot(given.later.dest), ContractOf.destBefore)
<1> DEFINE path == snapshot(given.later.path)
           dest == snapshot(given.later.dest)
           success == /\ ~path.present /\ dest.kind = "file" /\ ContractOf.before.digest # NoDigest
                      /\ dest.digest = ContractOf.before.digest
           failure == matches(path, ContractOf.before) /\ matches(dest, ContractOf.destBefore)
<1>1. Verified = Verdict(success, failure)
  BY ContractIs DEF Verified, Redirected, verifyFilesystemPostcondition, pathBinding
<1>2. success \in BOOLEAN /\ failure \in BOOLEAN
  BY DEF matches, snapshot
<1>3. success => AsAsked(given.call, given.at, given.later)
  <2> SUFFICES ASSUME success PROVE ReadsAs(given.later.path) = Absent /\ given.later.dest = given.at.path
    BY DEF AsAsked
  <2>1. ReadsAs(given.later.path) = Absent
    BY WorldShapes, Reading
  <2>2. given.at.path.kind = "file" /\ captureFilesystemState(given.at.path).digest = given.at.path.content
    BY WorldShapes, Reading, ContractIs DEF captureFilesystemState
  <2>3. ReadsAs(given.later.dest).kind = "file"
    BY WorldShapes, Reading
  <2>4. given.later.dest.kind = "file"
    BY <2>3 DEF ReadsAs, Absent
  <2>5. dest.digest = given.later.dest.content
    BY <2>4, WorldShapes, Reading
  <2>6. given.later.dest.content = given.at.path.content
    BY <2>2, <2>5, ContractIs
  <2> QED BY <2>1, <2>2, <2>4, <2>6, WorldShapes DEF Shape
<1> HIDE DEF success
<1>4. failure => /\ matches(snapshot(given.later.path), ContractOf.before)
                 /\ matches(snapshot(given.later.dest), ContractOf.destBefore)
  OBVIOUS
<1> HIDE DEF failure
<1> QED BY <1>1, <1>2, <1>3, <1>4, VerdictIs

\* Any other contract is verified at the path alone.
LEMMA PathVerdict ==
    ASSUME given \in ContractAsked, ContractOf # NoContract, ~Redirected, given.call.operation # "move"
    PROVE  /\ Verified = "confirmed_success" => AsAsked(given.call, given.at, given.later)
           /\ Verified = "confirmed_failure" => matches(snapshot(given.later.path), ContractOf.before)
<1> DEFINE path == snapshot(given.later.path)
           unchanged == matches(path, ContractOf.before)
           written == path.kind = "file" /\ path.digest = ContractOf.expected
           kept == IF path.present THEN path.kind = "file" /\ unchanged ELSE ~ContractOf.before.present
<1>0. /\ unchanged \in BOOLEAN /\ written \in BOOLEAN /\ kept \in BOOLEAN
      /\ (~path.present) \in BOOLEAN /\ (path.kind = "directory") \in BOOLEAN
  BY ContractIs DEF matches, snapshot, captureFilesystemState
<1>1. CASE given.call.operation = "delete"
  <2>1. Verified = Verdict(~path.present, unchanged)
    BY <1>1, ContractIs DEF Verified, Redirected, verifyFilesystemPostcondition, pathBinding
  <2>2. ~path.present => AsAsked(given.call, given.at, given.later)
    BY <1>1, WorldShapes, Reading DEF AsAsked
  <2> HIDE DEF path
  <2>4. Verified = "confirmed_failure" => unchanged
    BY <1>0, <2>1, VerdictIs
  <2> QED BY <1>0, <2>1, <2>2, <2>4, VerdictIs DEF path
<1>2. CASE given.call.operation = "create_directory"
  <2>1. Verified = Verdict(path.kind = "directory", unchanged)
    BY <1>2, ContractIs DEF Verified, Redirected, verifyFilesystemPostcondition, pathBinding
  <2>2. path.kind = "directory" => AsAsked(given.call, given.at, given.later)
    <3>1. path.kind = ReadsAs(given.later.path).kind
      BY WorldShapes, Reading
    <3> HIDE DEF path
    <3> QED BY <1>2, <3>1 DEF AsAsked, ReadsAs, Absent
  <2> HIDE DEF path
  <2>4. Verified = "confirmed_failure" => unchanged
    BY <1>0, <2>1, VerdictIs
  <2> QED BY <1>0, <2>1, <2>2, <2>4, VerdictIs DEF path
<1>3. CASE given.call.operation \in {"write", "edit"}
  <2>1. Verified = Verdict(written, kept)
    BY <1>3, ContractIs DEF Verified, Redirected, verifyFilesystemPostcondition, pathBinding
  <2>2. written => AsAsked(given.call, given.at, given.later)
    <3> SUFFICES ASSUME written PROVE given.later.path = File(given.call.content)
      BY <1>3 DEF AsAsked
    <3>1. path.kind = ReadsAs(given.later.path).kind
      BY WorldShapes, Reading
    <3>2. given.later.path.kind = "file"
      BY <3>1 DEF ReadsAs, Absent
    <3>3. path.digest = given.later.path.content
      BY <3>2, WorldShapes, Reading
    <3> QED BY <1>3, <3>2, <3>3, WorldShapes, ContractIs DEF Shape, File
  <2>4. kept => unchanged
    <3>0. path.present = (ReadsAs(given.later.path) # Absent)
      BY DEF snapshot
    <3>1. ContractOf.before.present = (ReadsAs(given.at.path) # Absent)
      <4>1. ContractOf.before = captureFilesystemState(given.at.path)
        BY ContractIs
      <4> QED BY <4>1 DEF captureFilesystemState
    <3> HIDE DEF path
    <3> QED BY <3>0, <3>1 DEF matches
  <2> HIDE DEF written, kept
  <2>5. Verified = "confirmed_failure" => kept
    BY <1>0, <2>1, VerdictIs
  <2> QED BY <1>0, <2>1, <2>2, <2>4, <2>5, VerdictIs
<1> QED BY <1>1, <1>2, <1>3, ContractIs

\* A confirmed effect is the one that was asked for, and a confirmed failure left
\* everything that can be told apart as it was.
LEMMA VerdictIsTrue ==
    ASSUME given \in ContractAsked, ContractOf # NoContract
    PROVE  /\ Verified = "confirmed_success" => AsAsked(given.call, given.at, given.later)
           /\ Verified = "confirmed_failure" =>
                 /\ Identified(given.at.path) => ReadsAs(given.later.path) = ReadsAs(given.at.path)
                 /\ Identified(given.at.dest) /\ given.call.operation = "move" => ReadsAs(given.later.dest) = ReadsAs(given.at.dest)
                 /\ given.later.path.kind # "dangling" => given.later.path.kind = ReadsAs(given.at.path).kind
<1>1. CASE Redirected
  BY <1>1, RedirectedVerdict
<1>2. CASE ~Redirected
  <2>1. Verified = "confirmed_success" => AsAsked(given.call, given.at, given.later)
    BY <1>2, MovedVerdict, PathVerdict
  <2>2. ASSUME Verified = "confirmed_failure"
        PROVE  /\ Identified(given.at.path) => ReadsAs(given.later.path) = ReadsAs(given.at.path)
               /\ given.later.path.kind # "dangling" => given.later.path.kind = ReadsAs(given.at.path).kind
    <3>1. matches(snapshot(given.later.path), captureFilesystemState(given.at.path))
      BY <1>2, <2>2, MovedVerdict, PathVerdict, ContractIs
    <3>2. /\ Identified(given.at.path) => ReadsAs(given.later.path) = ReadsAs(given.at.path)
          /\ ReadsAs(given.later.path).kind = ReadsAs(given.at.path).kind
      BY <3>1, WorldShapes, ContractIs, MatchesIsSame
    <3>3. given.later.path.kind # "dangling" => ReadsAs(given.later.path).kind = given.later.path.kind
      BY DEF ReadsAs, Dangling
    <3> QED BY <3>2, <3>3
  <2>3. ASSUME Verified = "confirmed_failure", Identified(given.at.dest), given.call.operation = "move"
        PROVE  ReadsAs(given.later.dest) = ReadsAs(given.at.dest)
    <3>1. matches(snapshot(given.later.dest), captureFilesystemState(given.at.dest))
      BY <1>2, <2>3, MovedVerdict, ContractIs
    <3> QED BY <2>3, <3>1, WorldShapes, ContractIs, MatchesIsSame
  <2> QED BY <2>1, <2>2, <2>3
<1> QED BY <1>1, <1>2

---------------------------------------------------------------------------

\* A probe confirms a failure only when it saw none of the effect, or could not look at a branch.
LEMMA ProbeVerdict ==
    ASSUME given \in RetryAsked
    PROVE  /\ verifyByProbe(given.probe) # "none"
           /\ verifyByProbe(given.probe) = "confirmed_failure" =>
                 \/ given.probe.seen = "no"
                 \/ given.probe.kind = "git_branch" /\ given.probe.seen = "error"
<1>1. given.probe \in [kind : {"git_branch", "git_commit", "git_push", "process", "http"}, seen : {"yes", "no", "error"},
              network : BOOLEAN, harmless : BOOLEAN, sure : BOOLEAN, safe : BOOLEAN, idempotent : BOOLEAN]
  BY DEF RetryAsked
<1>2. CASE given.probe.kind = "git_branch" BY <1>1, <1>2 DEF verifyByProbe, Verdict
<1>3. CASE given.probe.kind = "git_commit" BY <1>1, <1>3 DEF verifyByProbe, Verdict
<1>4. CASE given.probe.kind = "git_push" BY <1>1, <1>4 DEF verifyByProbe, Verdict
<1>5. CASE given.probe.kind = "process" BY <1>1, <1>5 DEF verifyByProbe, Verdict
<1>6. CASE given.probe.kind = "http" BY <1>1, <1>6 DEF verifyByProbe, Verdict
<1> QED BY <1>1, <1>2, <1>3, <1>4, <1>5, <1>6

\* A retry is called safe, on a verification record, only for the lease that was verified.
LEMMA SafeRetry ==
    ASSUME given \in RetryAsked, given.verified,
           decideEffectRetry(given.receipt, RecordOf, given.retryLease, given.proves) = "safe_to_retry"
    PROVE  /\ given.retryLease.id # 0 => given.retryLease = given.lease
           /\ verifyEffectReceipt(given.receipt, given.lease)
           /\ \/ given.probe.seen = "no"
              \/ given.probe.kind = "git_branch" /\ given.probe.seen = "error"
<1> DEFINE r == given.receipt
           state == verifyByProbe(given.probe)
           bound == given.lease.id # 0 /\ verifyEffectReceipt(r, given.lease)
<1>1. /\ RecordOf.state = IF bound THEN state ELSE "invalid"
      /\ RecordOf.effect = r.effect /\ RecordOf.lease = r.lease /\ RecordOf.decision = r.decision
      /\ RecordOf.action = given.lease.action
  BY DEF RecordOf, buildEffectVerificationRecord
<1>2. RecordOf # NoRecord
  BY <1>1, ProbeVerdict DEF NoRecord
<1>3. ~verificationBindingErrors(r, RecordOf, given.retryLease) /\ RecordOf.state # "invalid"
  BY DEF decideEffectRetry
<1>4. RecordOf.state = "confirmed_failure"
  BY <1>1, <1>3, ProbeVerdict DEF decideEffectRetry
<1>5. bound /\ state = "confirmed_failure"
  BY <1>1, <1>4
<1>6. given.retryLease.id # 0 =>
      /\ given.retryLease.id = r.lease /\ given.retryLease.decision = r.decision
      /\ given.retryLease.action = given.lease.action
  BY <1>1, <1>2, <1>3 DEF verificationBindingErrors
<1>7. r.lease = given.lease.id /\ r.decision = given.lease.decision
  BY <1>5 DEF verifyEffectReceipt
<1>8. given.lease \in LeaseRecords /\ given.retryLease \in LeaseRecords
  BY DEF RetryAsked
<1>9. given.retryLease.id # 0 => given.retryLease = given.lease
  BY <1>6, <1>7, <1>8 DEF LeaseRecords
<1> QED BY <1>5, <1>9, ProbeVerdict

\* Without a verification record only a receipt that says how the effect ended is decided.
LEMMA UnverifiedRetry ==
    ASSUME ~given.verified, NEW d \in {"safe_to_retry", "do_not_retry"},
           decideEffectRetry(given.receipt, RecordOf, given.retryLease, given.proves) = d
    PROVE  /\ given.receipt.status = IF d = "do_not_retry" THEN "success" ELSE "failure"
           /\ d = "safe_to_retry" => given.proves
BY DEF RecordOf, decideEffectRetry, verificationBindingErrors, NoRecord

\* For every filesystem call, every two worlds, and every receipt and probe: what
\* verifyFilesystemPostcondition confirms is so of the resource, as far as it can be
\* told apart (directories and files above the hash limit are not), and
\* decideEffectRetry calls a verified retry safe only when the probe saw no effect or
\* was rev-parse failing.
THEOREM VerdictsAreAlwaysProven == EffectRulesSpec => []VerdictsAreProven
<1>1. ASSUME EffectAnswered, Answered("contract")
      PROVE  given \in ContractAsked /\ answer = ContractAnswer
  BY <1>1 DEF EffectAnswered, Answered, answer
<1>2. ASSUME EffectAnswered, Answered("retry")
      PROVE  given \in RetryAsked /\ answer = RetryAnswer
  BY <1>2 DEF EffectAnswered, Answered, answer
<1>3. ASSUME EffectAnswered PROVE ConfirmedVerdictIsTrue
  <2> SUFFICES ASSUME Answered("contract")
               PROVE  /\ answer.verdict = "confirmed_success" => AsAsked(given.call, given.at, given.later)
                      /\ answer.verdict = "confirmed_failure" =>
                           /\ Identified(given.at.path) => ReadsAs(given.later.path) = ReadsAs(given.at.path)
                           /\ Identified(given.at.dest) /\ given.call.operation = "move" =>
                                ReadsAs(given.later.dest) = ReadsAs(given.at.dest)
                           /\ given.later.path.kind # "dangling" => given.later.path.kind = ReadsAs(given.at.path).kind
    BY DEF ConfirmedVerdictIsTrue
  <2>1. given \in ContractAsked /\ answer.verdict = IF ContractOf = NoContract THEN "unknown" ELSE Verified
    BY <1>1, <1>3 DEF ContractAnswer, Verified
  <2>2. CASE ContractOf = NoContract
    BY <2>1, <2>2
  <2>3. CASE ContractOf # NoContract
    BY <2>1, <2>3, VerdictIsTrue
  <2> QED BY <2>2, <2>3
<1>4. ASSUME EffectAnswered PROVE RedirectedIsNotConfirmed
  <2> SUFFICES ASSUME Answered("contract"), answer.contract # NoContract
               PROVE  /\ given.at.place \in given.launch.roots
                      /\ given.call.operation = "move" => given.at.destPlace \in given.launch.roots
                      /\ answer.verdict \in {"confirmed_success", "confirmed_failure"} => ~Redirected
    BY DEF RedirectedIsNotConfirmed, Redirected
  <2>1. given \in ContractAsked /\ ContractOf # NoContract /\ answer.verdict = Verified
    BY <1>1, <1>4 DEF ContractAnswer, Verified
  <2> QED BY <2>1, ContractIs, RedirectedVerdict
<1>5. ASSUME EffectAnswered PROVE RetryIsBoundAndProven
  <2> SUFFICES ASSUME Answered("retry")
               PROVE  /\ answer.disposition = "safe_to_retry" /\ given.verified =>
                           /\ given.retryLease.id # 0 => given.retryLease = given.lease
                           /\ answer.valid
                           /\ \/ given.probe.seen = "no"
                              \/ given.probe.kind = "git_branch" /\ given.probe.seen = "error"
                      /\ answer.disposition \in {"safe_to_retry", "do_not_retry"} /\ ~given.verified /\ answer.valid =>
                           /\ given.receipt.status = IF answer.disposition = "do_not_retry" THEN "success" ELSE "failure"
                           /\ answer.disposition = "safe_to_retry" => given.proves
    BY DEF RetryIsBoundAndProven
  <2>1. /\ given \in RetryAsked
        /\ answer.disposition = decideEffectRetry(given.receipt, RecordOf, given.retryLease, given.proves)
        /\ answer.valid <=> verifyEffectReceipt(given.receipt, given.lease)
    BY <1>2, <1>5 DEF RetryAnswer
  <2> QED BY <2>1, SafeRetry, UnverifiedRetry
<1>6. EffectAnswered => VerdictsAreProven
  BY <1>3, <1>4, <1>5 DEF VerdictsAreProven
<1> QED BY <1>6, EffectIsAnswered, PTL

---------------------------------------------------------------------------
(* ReleaseRules: the answers                                               *)

Manifests == [i \in 1 .. 3 |-> buildCapabilityManifest(given[i])]

DriftAnswer ==
    [review |-> [p \in (1 .. 3) \X (1 .. 3) |-> diffRequiresReview(Manifests[p[1]], Manifests[p[2]])],
     advice |-> [id \in DOMAIN Manifests[3].tools |->
                    recommendCapabilityPolicy(Manifests[3].tools[id], given[3].tools[id].secret)]]

Snapshot == collectAgentReleaseSnapshot(given.effects, buildCapabilityManifest(given.server),
                buildCapabilityManifest(given.baseServer), given.reviewed, given.crashlab, given.tests)
Baseline == [given.base EXCEPT !.capability = Fingerprint(buildCapabilityManifest(given.baseServer))]

GateAnswer == evaluateAgentReleaseGate(Baseline, Snapshot)

ReleaseAnswered ==
    \/ part = "drift" /\ given \in DriftAsked /\ answers \in {<<>>, <<DriftAnswer>>}
    \/ part = "scorecard" /\ given \in ScorecardAsked /\ answers \in {<<>>, <<buildReliabilityScorecard(given)>>}
    \/ part = "gate" /\ given \in GateAsked /\ answers \in {<<>>, <<GateAnswer>>}

\* What is in answers is what the procedures say of what is given.
LEMMA ReleaseIsAnswered == ReleaseSpec => []ReleaseAnswered
<1>1. Ask("drift", DriftAsked) \/ Ask("scorecard", ScorecardAsked) \/ Ask("gate", GateAsked) => ReleaseAnswered
  BY DEF Ask, ReleaseAnswered
<1>2. ReleaseAnswered /\ [AskDrift \/ AskScorecard \/ AskGate]_caseVars => ReleaseAnswered'
  <2> SUFFICES ASSUME ReleaseAnswered, [AskDrift \/ AskScorecard \/ AskGate]_caseVars PROVE ReleaseAnswered'
    OBVIOUS
  <2>0. ASSUME given' = given
        PROVE  /\ DriftAnswer' = DriftAnswer /\ GateAnswer' = GateAnswer
               /\ buildReliabilityScorecard(given)' = buildReliabilityScorecard(given)
    BY <2>0 DEF DriftAnswer, GateAnswer, Manifests, Snapshot, Baseline
  <2>1. CASE AskDrift
    <3>1. part = "drift" /\ answers' = <<DriftAnswer>> /\ part' = part /\ given' = given
      BY <2>1, Zenon DEF AskDrift, Answer, DriftAnswer, Manifests
    <3> QED BY <2>0, <3>1, Zenon DEF ReleaseAnswered
  <2>2. CASE AskScorecard
    <3>1. part = "scorecard" /\ answers' = <<buildReliabilityScorecard(given)>> /\ part' = part /\ given' = given
      BY <2>2, Zenon DEF AskScorecard, Answer
    <3> QED BY <2>0, <3>1, Zenon DEF ReleaseAnswered
  <2>3. CASE AskGate
    <3>1. part = "gate" /\ answers' = <<GateAnswer>> /\ part' = part /\ given' = given
      BY <2>3, Zenon DEF AskGate, Answer, GateAnswer, Snapshot, Baseline
    <3> QED BY <2>0, <3>1, Zenon DEF ReleaseAnswered
  <2>4. CASE UNCHANGED caseVars
    <3>1. part' = part /\ given' = given /\ answers' = answers
      BY <2>4 DEF caseVars
    <3> QED BY <2>0, <3>1 DEF ReleaseAnswered
  <2> QED BY <2>1, <2>2, <2>3, <2>4
<1> QED BY <1>1, <1>2, PTL DEF ReleaseSpec

---------------------------------------------------------------------------
(* The review of a change                                                  *)

Differs(a, b) == a.annotations # b.annotations \/ a.description # b.description

\* Two steps without review leave the tools that act as they were.
LEMMA ActorsAreKept ==
    ASSUME NEW a, NEW b, NEW c, ~diffRequiresReview(a, b), ~diffRequiresReview(b, c),
           NEW id \in DOMAIN c.tools, Acts(c.tools[id])
    PROVE  /\ id \in DOMAIN b.tools /\ Acts(b.tools[id]) /\ id \in DOMAIN a.tools /\ Acts(a.tools[id])
           /\ c.tools[id].schema = a.tools[id].schema /\ ~Differs(a.tools[id], c.tools[id])
           /\ c.tools[id].state = "state_changing" => a.tools[id].state = "state_changing"
           /\ c.tools[id].consequence \in Consequential => a.tools[id].consequence \in Consequential
<1>1. Broadened(a, b) = {} /\ Broadened(b, c) = {}
  BY DEF diffRequiresReview
<1>2. id \in DOMAIN b.tools
  BY <1>1 DEF Broadened
<1>3. /\ c.tools[id].state = "state_changing" => b.tools[id].state = "state_changing"
      /\ c.tools[id].consequence \in Consequential => b.tools[id].consequence \in Consequential
  BY <1>1, <1>2 DEF Broadened
<1>4. Acts(b.tools[id])
  BY <1>3 DEF Acts
<1>5. id \in DOMAIN a.tools
  BY <1>1, <1>2, <1>4 DEF Broadened
<1>6. /\ b.tools[id].state = "state_changing" => a.tools[id].state = "state_changing"
      /\ b.tools[id].consequence \in Consequential => a.tools[id].consequence \in Consequential
  BY <1>1, <1>2, <1>5 DEF Broadened
<1>7. id \in Kept(a, b) /\ id \in Kept(b, c)
  BY <1>2, <1>5 DEF Kept
<1>8. ~Differs(a.tools[id], b.tools[id]) /\ ~Differs(b.tools[id], c.tools[id])
  BY <1>7 DEF diffRequiresReview, Differs
<1>9. a.tools[id].schema = b.tools[id].schema /\ b.tools[id].schema = c.tools[id].schema
  BY <1>4, <1>7 DEF diffRequiresReview
<1> QED BY <1>2, <1>3, <1>4, <1>5, <1>6, <1>8, <1>9 DEF Acts, Differs

\* A change that needs review and is cut into two that do not brings a tool back
\* that does not act.
LEMMA NotSliced ==
    ASSUME NEW a, NEW b, NEW c, diffRequiresReview(a, c), ~diffRequiresReview(a, b), ~diffRequiresReview(b, c),
           \A id \in (DOMAIN a.tools \cap DOMAIN c.tools) \ DOMAIN b.tools : Acts(c.tools[id])
    PROVE  FALSE
<1>1. a.transport = b.transport /\ b.transport = c.transport
  BY DEF diffRequiresReview
<1>2. ASSUME NEW id \in DOMAIN c.tools, Acts(c.tools[id])
      PROVE  /\ id \in DOMAIN b.tools /\ id \in DOMAIN a.tools
             /\ c.tools[id].schema = a.tools[id].schema
             /\ c.tools[id].state = "state_changing" => a.tools[id].state = "state_changing"
             /\ c.tools[id].consequence \in Consequential => a.tools[id].consequence \in Consequential
  BY <1>2, ActorsAreKept
<1>3. Broadened(a, c) = {}
  <2> SUFFICES ASSUME NEW id \in Broadened(a, c) PROVE FALSE
    OBVIOUS
  <2>1. id \in DOMAIN c.tools /\ Acts(c.tools[id])
    BY DEF Broadened, Acts
  <2> QED BY <1>2, <2>1 DEF Broadened
<1>4. PICK id \in Kept(a, c) : \/ a.tools[id].schema # c.tools[id].schema /\ Acts(c.tools[id])
                               \/ Differs(a.tools[id], c.tools[id])
  BY <1>1, <1>3 DEF diffRequiresReview, Differs
<1>5. Differs(a.tools[id], c.tools[id])
  BY <1>2, <1>4 DEF Kept
<1>6. id \in DOMAIN b.tools
  BY <1>2, <1>4 DEF Kept
<1>7. id \in Kept(a, b) /\ id \in Kept(b, c)
  BY <1>4, <1>6 DEF Kept
<1>8. ~Differs(a.tools[id], b.tools[id]) /\ ~Differs(b.tools[id], c.tools[id])
  BY <1>7 DEF diffRequiresReview, Differs
<1> QED BY <1>5, <1>8 DEF Differs

\* The same of the manifests that were given.
LEMMA DriftIsNotSliced == ASSUME ReleaseAnswered PROVE ReviewCannotBeSliced
<1> DEFINE m == Manifests
           tool(i, id) == classifyToolCapability(given[i].tools[id])
           has(i) == DOMAIN given[i].tools
<1> SUFFICES ASSUME Answered("drift"), ~answer.review[<<1, 2>>], ~answer.review[<<2, 3>>]
             PROVE  /\ \A id \in has(3) : Acts(tool(3, id)) =>
                          /\ id \in has(1) /\ Acts(tool(1, id)) /\ tool(3, id).schema = tool(1, id).schema
                          /\ tool(3, id).annotations = tool(1, id).annotations
                          /\ tool(3, id).description = tool(1, id).description
                    /\ answer.review[<<1, 3>>] => \E id \in (has(1) \cap has(3)) \ has(2) : ~Acts(tool(3, id))
  BY Zenon DEF ReviewCannotBeSliced
<1>1. answer = DriftAnswer
  BY DEF ReleaseAnswered, Answered, answer
<1>2. /\ answer.review[<<1, 3>>] <=> diffRequiresReview(m[1], m[3])
      /\ ~diffRequiresReview(m[1], m[2]) /\ ~diffRequiresReview(m[2], m[3])
  BY <1>1 DEF DriftAnswer
<1>3. ASSUME NEW i \in 1 .. 3
      PROVE  DOMAIN m[i].tools = has(i) /\ \A id \in has(i) : m[i].tools[id] = tool(i, id)
  BY <1>3 DEF Manifests, buildCapabilityManifest
<1>4. /\ DOMAIN m[1].tools = has(1) /\ DOMAIN m[2].tools = has(2) /\ DOMAIN m[3].tools = has(3)
      /\ \A id \in has(1) : m[1].tools[id] = tool(1, id)
      /\ \A id \in has(3) : m[3].tools[id] = tool(3, id)
  BY <1>3
<1> HIDE DEF m
<1>5. ASSUME NEW id \in has(3), Acts(tool(3, id))
      PROVE  /\ id \in has(1) /\ Acts(tool(1, id)) /\ tool(3, id).schema = tool(1, id).schema
             /\ tool(3, id).annotations = tool(1, id).annotations
             /\ tool(3, id).description = tool(1, id).description
  <2>1. id \in DOMAIN m[3].tools /\ Acts(m[3].tools[id])
    BY <1>4, <1>5
  <2>2. /\ id \in DOMAIN m[1].tools /\ Acts(m[1].tools[id])
        /\ m[3].tools[id].schema = m[1].tools[id].schema /\ ~Differs(m[1].tools[id], m[3].tools[id])
    BY <1>2, <2>1, ActorsAreKept
  <2> QED BY <1>4, <2>2 DEF Differs
<1>6. ASSUME answer.review[<<1, 3>>] PROVE \E id \in (has(1) \cap has(3)) \ has(2) : ~Acts(tool(3, id))
  <2>1. \E id \in (DOMAIN m[1].tools \cap DOMAIN m[3].tools) \ DOMAIN m[2].tools : ~Acts(m[3].tools[id])
    BY <1>2, <1>6, NotSliced
  <2> QED BY <1>4, <2>1
<1> QED BY <1>5, <1>6

---------------------------------------------------------------------------
(* The scorecard                                                           *)

Scored(results) == UNION {ScoredChecks(r) : r \in results}

\* Every check belongs to one of the dimensions of the scorecard.
LEMMA DimensionsOfChecks == ASSUME NEW id, NEW r PROVE dimensionFor(id, r) \in Dimensions
BY DEF dimensionFor, Dimensions

\* A dimension fails exactly when one of its checks does.
LEMMA ScorecardIs ==
    ASSUME NEW results
    PROVE  LET card == buildReliabilityScorecard(results) IN
           /\ \A d \in Dimensions : card.dimensions[d] = "FAIL" <=> \E c \in Scored(results) : c.dimension = d /\ ~c.pass
           /\ card.status = IF (\A r \in results : r.status = "PASS") /\ (\A d \in Dimensions : card.dimensions[d] # "FAIL")
                            THEN "PASS" ELSE "FAIL"
<1> DEFINE card == buildReliabilityScorecard(results)
           scored == Scored(results)
           dimension == [d \in Dimensions |-> CASE \A c \in scored : c.dimension # d -> "NOT_APPLICABLE"
                                                [] \E c \in scored : c.dimension = d /\ ~c.pass -> "FAIL"
                                                [] OTHER -> "PASS"]
<1>1. card = [dimensions |-> dimension,
              status |-> IF (\A r \in results : r.status = "PASS") /\ (\A d \in Dimensions : dimension[d] # "FAIL")
                         THEN "PASS" ELSE "FAIL"]
  BY Zenon DEF buildReliabilityScorecard, Scored
<1>2. card.dimensions = dimension
  <2> HIDE DEF dimension, card
  <2> QED BY <1>1
<1>3. ASSUME NEW d \in Dimensions PROVE dimension[d] = "FAIL" <=> \E c \in scored : c.dimension = d /\ ~c.pass
  <2> HIDE DEF scored
  <2>1. CASE \A c \in scored : c.dimension # d
    BY <2>1
  <2>2. CASE \E c \in scored : c.dimension = d /\ ~c.pass
    BY <2>2
  <2>3. CASE (\E c \in scored : c.dimension = d) /\ (\A c \in scored : c.dimension = d => c.pass)
    BY <2>3
  <2> QED BY <2>1, <2>2, <2>3
<1> HIDE DEF dimension, card, scored
<1>4. card.status = IF (\A r \in results : r.status = "PASS") /\ (\A d \in Dimensions : card.dimensions[d] # "FAIL")
                    THEN "PASS" ELSE "FAIL"
  BY <1>1, <1>2
<1> QED BY <1>2, <1>3, <1>4 DEF card, scored

\* A check that does not pass, an invariant that is false, or a status that is
\* not PASS makes some dimension fail.
Clean(r) == r.status = "PASS" /\ r.falseInvariants = {} /\ \A c \in r.checks : c.pass

\* A result that did not pass cleanly fails one of the dimensions.
LEMMA UncleanFails ==
    ASSUME NEW results \in SUBSET ResultRecords, NEW r \in results, ~Clean(r)
    PROVE  \E d \in Dimensions : buildReliabilityScorecard(results).dimensions[d] = "FAIL"
<1>0. /\ r.status \in {"PASS", "FAIL"} /\ r.checks \subseteq [id : STRING, pass : BOOLEAN]
      /\ \A c \in r.checks : c.id \in r.falseInvariants => ~c.pass
  BY DEF ResultRecords
<1>1. \E c \in ScoredChecks(r) : c.dimension \in Dimensions /\ ~c.pass
  <2>1. CASE \E c \in r.checks : ~c.pass
    <3>1. PICK c \in r.checks : ~c.pass
      BY <2>1
    <3>2. [dimension |-> dimensionFor(c.id, r), pass |-> c.pass] \in ScoredChecks(r)
      BY DEF ScoredChecks
    <3> QED BY <3>1, <3>2, DimensionsOfChecks
  <2>2. CASE (\A c \in r.checks : c.pass) /\ r.falseInvariants # {}
    <3>1. PICK id \in r.falseInvariants : \A c \in r.checks : c.id # id
      BY <1>0, <2>2
    <3>2. id \in {i \in r.falseInvariants : \A c \in r.checks : c.id # i}
      BY <3>1
    <3>3. [dimension |-> dimensionFor(id, r), pass |-> FALSE] \in ScoredChecks(r)
      BY <3>2 DEF ScoredChecks
    <3> QED BY <3>3, DimensionsOfChecks
  <2>3. CASE (\A c \in r.checks : c.pass) /\ r.falseInvariants = {} /\ r.status = "FAIL"
    <3>1. "FAIL" \in {s \in {"FAIL"} : /\ r.status = s /\ r.falseInvariants = {}
                                       /\ \A c \in r.checks : c.pass}
      BY <2>3
    <3>2. [dimension |-> "recovery_correctness", pass |-> FALSE] \in ScoredChecks(r)
      BY <3>1 DEF ScoredChecks
    <3> QED BY <3>2 DEF Dimensions
  <2> QED BY <1>0, <2>1, <2>2, <2>3 DEF Clean
<1>2. PICK c \in ScoredChecks(r) : c.dimension \in Dimensions /\ ~c.pass
  BY <1>1
<1>3. c \in Scored(results)
  BY DEF Scored
<1> QED BY <1>2, <1>3, ScorecardIs

\* The overall verdict of a scorecard passes exactly when every result is clean.
LEMMA ScorecardsAgree == ASSUME ReleaseAnswered PROVE ScorecardAgrees
<1> SUFFICES ASSUME Answered("scorecard")
             PROVE  /\ answer.status = "FAIL" <=> \E d \in Dimensions : answer.dimensions[d] = "FAIL"
                    /\ answer.status = "PASS" => \A r \in given : /\ r.status = "PASS" /\ r.falseInvariants = {}
                                                                  /\ \A c \in r.checks : c.pass
  BY DEF ScorecardAgrees
<1>1. given \in SUBSET ResultRecords /\ answer = buildReliabilityScorecard(given)
  BY DEF ReleaseAnswered, Answered, answer, ScorecardAsked
<1>2. answer.status = IF (\A r \in given : r.status = "PASS") /\ (\A d \in Dimensions : answer.dimensions[d] # "FAIL")
                      THEN "PASS" ELSE "FAIL"
  BY <1>1, ScorecardIs
<1>3. (\A d \in Dimensions : answer.dimensions[d] # "FAIL") => \A r \in given : Clean(r)
  BY <1>1, UncleanFails
<1> QED BY <1>2, <1>3 DEF Clean

---------------------------------------------------------------------------
(* The gate                                                                *)

\* As many leases as effects are a lease for each.
LEMMA LeasesDistinct ==
    ASSUME NEW E, IsFiniteSet(E), Cardinality(E) - Cardinality({e.lease : e \in E}) <= 0
    PROVE  \A e, f \in E : e.lease = f.lease => e = f
<1> DEFINE L == {e.lease : e \in E}
           leaseOf == [e \in E |-> e.lease]
<1>1. leaseOf \in Surjection(E, L)
  BY DEF Surjection
<1>2. /\ IsFiniteSet(L) /\ Cardinality(L) <= Cardinality(E)
      /\ Cardinality(L) = Cardinality(E) <=> leaseOf \in Injection(E, L)
  BY <1>1, FS_Surjection, Zenon
<1>3. Cardinality(L) \in Nat /\ Cardinality(E) \in Nat
  BY <1>2, FS_CardinalityType, Zenon
<1>4. Cardinality(L) = Cardinality(E)
  <2> HIDE DEF L
  <2>1. Cardinality(E) - Cardinality(L) <= 0
    BY DEF L
  <2> QED BY <1>2, <1>3, <2>1
<1>5. leaseOf \in Injection(E, L)
  BY <1>2, <1>4, Zenon
<1>6. \A e, f \in E : leaseOf[e] = leaseOf[f] => e = f
  BY <1>5 DEF Injection, IsInjective
<1> QED BY <1>6

\* The effects of a log, counted.
LEMMA EffectsCounted ==
    ASSUME NEW E, IsFiniteSet(E)
    PROVE  LET leased == {e \in E : e.lease # 0} IN
           /\ IsFiniteSet(AmbiguousEffects(E)) /\ Cardinality(AmbiguousEffects(E)) \in Nat
           /\ IsFiniteSet(leased) /\ Cardinality(leased) \in Nat
           /\ Cardinality({e.lease : e \in leased}) \in Nat
           /\ Cardinality(E) \in Nat /\ Cardinality(VerifiedEffects(E)) \in Nat
<1> DEFINE leased == {e \in E : e.lease # 0}
           L == {e.lease : e \in leased}
           leaseOf == [e \in leased |-> e.lease]
<1>1. AmbiguousEffects(E) \subseteq E /\ leased \subseteq E /\ VerifiedEffects(E) \subseteq E
  BY DEF AmbiguousEffects, VerifiedEffects
<1>2. IsFiniteSet(AmbiguousEffects(E)) /\ IsFiniteSet(leased) /\ IsFiniteSet(VerifiedEffects(E))
  BY <1>1, FS_Subset, Zenon
<1>3. leaseOf \in Surjection(leased, L)
  BY DEF Surjection
<1>4. IsFiniteSet(L)
  BY <1>2, <1>3, FS_Surjection, Zenon
<1> QED BY <1>2, <1>4, FS_CardinalityType, Zenon

\* The gate releases only on clean evidence.
LEMMA GateIsClean == ASSUME ReleaseAnswered PROVE ReleasedOnCleanEvidence
<1> DEFINE E == given.effects
           c == Snapshot
           b == Baseline
           fingerprint == Fingerprint(buildCapabilityManifest(given.server))
           leased == {e \in E : e.lease # 0}
           L == {e.lease : e \in leased}
<1> SUFFICES ASSUME Answered("gate"), answer \in Released
             PROVE  /\ E # {} /\ 100 * Cardinality(VerifiedEffects(E)) >= 95 * Cardinality(E)
                    /\ \A e \in E : \/ e.verified \in {"confirmed_success", "confirmed_failure"}
                                    \/ e.verified = "none" /\ e.status # "unknown" /\ e.quality \notin Uncertain
                    /\ \A e, f \in E : e.lease # 0 /\ e.lease = f.lease => e = f
                    /\ given.tests.critical \subseteq given.base.critical /\ given.tests.unsafe = 0
                    /\ given.tests.success # Missing /\ given.tests.success >= given.base.success - MaxDrop
                    /\ given.crashlab = "PASS" /\ given.reviewed
  BY Zenon DEF ReleasedOnCleanEvidence
<1>1. given \in GateAsked /\ answer = evaluateAgentReleaseGate(b, c)
  BY DEF ReleaseAnswered, Answered, answer, GateAnswer
<1>2. /\ IsFiniteSet(E) /\ E \subseteq EffectRecords /\ given.reviewed \in BOOLEAN
      /\ given.tests \in TestRecords /\ given.base \in TestRecords
  BY <1>1 DEF GateAsked, OneOfEachId
<1>3. /\ given.tests.unsafe \in {Missing} \cup Nat /\ given.tests.success \in {Missing} \cup Nat
      /\ given.base.success \in {Missing} \cup Nat
  BY <1>2 DEF TestRecords
<1>4. /\ c.effects = deriveEffects(E) /\ c.capability = fingerprint
      /\ c.review = IF given.reviewed THEN fingerprint ELSE [transport |-> "none"]
      /\ c.crashlab = given.crashlab /\ c.unsafe = given.tests.unsafe /\ c.success = given.tests.success
      /\ c.critical = given.tests.critical
      /\ b.success = given.base.success /\ b.critical = given.base.critical
  <2>1. b = [given.base EXCEPT !.capability = Fingerprint(buildCapabilityManifest(given.baseServer))]
    BY Zenon DEF Baseline
  <2>2. b.success = given.base.success /\ b.critical = given.base.critical
    <3> HIDE DEF b
    <3> QED BY <1>2, <2>1 DEF TestRecords
  <2>3. \E drift : c = [given.tests EXCEPT !.effects = deriveEffects(E), !.capability = fingerprint,
                           !.review = IF given.reviewed THEN fingerprint ELSE [transport |-> "none"],
                           !.driftReview = drift, !.crashlab = given.crashlab]
    BY Zenon DEF Snapshot, collectAgentReleaseSnapshot
  <2> HIDE DEF b, c, fingerprint, E
  <2> QED BY <1>2, <2>2, <2>3 DEF TestRecords
<1>5. ~Blocking(b, c) /\ ~Gaps(b, c)
  BY <1>1 DEF evaluateAgentReleaseGate, Released
<1>6. /\ c.effects.total = Cardinality(E) /\ c.effects.verified = Cardinality(VerifiedEffects(E))
      /\ c.effects.ambiguous = Cardinality(AmbiguousEffects(E))
      /\ c.effects.duplicates = Cardinality(leased) - Cardinality(L)
  <2>1. c.effects = [total |-> Cardinality(E), verified |-> Cardinality(VerifiedEffects(E)),
                     ambiguous |-> Cardinality(AmbiguousEffects(E)),
                     duplicates |-> Cardinality(leased) - Cardinality(L)]
    BY <1>4, Zenon DEF deriveEffects
  <2> HIDE DEF c, E, leased, L
  <2> QED BY <2>1
<1>7. /\ IsFiniteSet(AmbiguousEffects(E)) /\ Cardinality(AmbiguousEffects(E)) \in Nat
      /\ IsFiniteSet(leased) /\ Cardinality(leased) \in Nat /\ Cardinality(L) \in Nat
      /\ Cardinality(E) \in Nat /\ Cardinality(VerifiedEffects(E)) \in Nat
  BY <1>2, EffectsCounted, Zenon
<1> HIDE DEF c, b, E, L, leased
<1>8. /\ c.critical \ b.critical = {} /\ ~(c.unsafe > 0) /\ ~(c.effects.duplicates > 0) /\ ~(c.effects.ambiguous > 0)
      /\ ~(b.capability # c.capability /\ c.review # c.capability /\ c.driftReview)
      /\ ~(c.success # Missing /\ b.success # Missing /\ b.success - c.success > MaxDrop)
  BY <1>5 DEF Blocking
<1>9. /\ c.unsafe # Missing /\ Covered(c.effects)
      /\ ~(c.review # c.capability /\ (b.capability # c.capability => ~c.driftReview))
      /\ c.crashlab = "PASS" /\ c.success # Missing /\ b.success # Missing
  BY <1>5 DEF Gaps
<1>10. E # {} /\ 100 * Cardinality(VerifiedEffects(E)) >= 95 * Cardinality(E)
  <2>1. Cardinality(E) > 0 /\ 100 * Cardinality(VerifiedEffects(E)) >= 95 * Cardinality(E)
    BY <1>6, <1>9 DEF Covered
  <2> QED BY <2>1, FS_EmptySet
<1>11. ASSUME NEW e \in E
       PROVE  \/ e.verified \in {"confirmed_success", "confirmed_failure"}
              \/ e.verified = "none" /\ e.status # "unknown" /\ e.quality \notin Uncertain
  <2>1. Cardinality(AmbiguousEffects(E)) = 0
    BY <1>6, <1>7, <1>8
  <2>2. AmbiguousEffects(E) = {}
    BY <1>7, <2>1, FS_EmptySet
  <2>3. ~(IF e.verified # "none" THEN e.verified \in UnresolvedStates ELSE e.status = "unknown" \/ e.quality \in Uncertain)
    BY <2>2 DEF AmbiguousEffects
  <2>4. e.verified \in {"none", "confirmed_success", "confirmed_failure"} \cup UnresolvedStates
    BY <1>2 DEF EffectRecords
  <2> QED BY <2>3, <2>4
<1>12. ASSUME NEW e \in E, NEW f \in E, e.lease # 0, e.lease = f.lease PROVE e = f
  <2>1. Cardinality(leased) - Cardinality(L) <= 0
    BY <1>6, <1>7, <1>8
  <2>2. \A x, y \in leased : x.lease = y.lease => x = y
    BY <1>7, <2>1, LeasesDistinct, Zenon DEF L
  <2>3. e \in leased /\ f \in leased
    BY <1>12 DEF leased
  <2> QED BY <1>12, <2>2, <2>3
<1>13. given.tests.unsafe = 0 /\ given.tests.success # Missing /\ given.tests.success >= given.base.success - MaxDrop
  BY <1>3, <1>4, <1>8, <1>9 DEF Missing, MaxDrop
<1>14. given.tests.critical \subseteq given.base.critical
  BY <1>4, <1>8
<1>15. given.reviewed
  <2>1. c.review = c.capability
    BY <1>8, <1>9
  <2>2. fingerprint # [transport |-> "none"]
    <3>1. DOMAIN fingerprint = {"transport", "tools"}
      BY DEF Fingerprint
    <3>2. DOMAIN [transport |-> "none"] = {"transport"}
      OBVIOUS
    <3> QED BY <3>1, <3>2
  <2> QED BY <1>2, <1>4, <2>1, <2>2
<1>16. given.crashlab = "PASS"
  BY <1>4, <1>9
<1> QED BY <1>10, <1>11, <1>12, <1>13, <1>14, <1>15, <1>16

\* For every three manifests, every set of scenario results and every snapshot: two
\* steps without review leave every tool that acts as it was, scorecards agree with
\* their results, and the gate lets a release through only on clean evidence, 95 in
\* a hundred effects verified and none in doubt.
THEOREM ReleaseIsAlwaysEarned == ReleaseSpec => []ReleaseIsEarned
<1>1. ReleaseAnswered => ReleaseIsEarned
  BY DriftIsNotSliced, ScorecardsAgree, GateIsClean DEF ReleaseIsEarned
<1> QED BY <1>1, ReleaseIsAnswered, PTL

---------------------------------------------------------------------------
(* AuthorityRules: the answers                                             *)

PatternAnswer ==
    [within |-> authorityPatternIsWithin(given.child, given.parent),
     child  |-> {v \in Paths : authorityPatternMatches(given.child, v)},
     parent |-> {v \in Paths : authorityPatternMatches(given.parent, v)}]

ObligationsAnswer ==
    [within |-> obligationsAreWithin(given.child, given.parent),
     met    |-> [side \in {"child", "parent"} |->
                   {w \in [now : Times, approved : BOOLEAN, effectReceipt : BOOLEAN, phase : {"pre", "post"}] :
                      evaluateObligations(given[side], w, w.phase)}]]

Drawn == Envelope(given.grant, given.spec, given.now)
Builds == BuildsEnvelope(given.grant, given.spec, given.now)

EnvelopeAnswer ==
    [builds   |-> Builds,
     envelope |-> Drawn,
     verifies |-> {t \in Times : verifyAuthorityEnvelope(Drawn, given.grant, t)},
     usable   |-> {x \in Paths \X Times :
                     /\ Builds
                     /\ authorizeWithAuthorityEnvelope(Drawn, given.grant, [action |-> x[1], resource |-> x[1]], x[2])}]

DelegationChild == delegateAuthorityGrant(given.grant, given.capabilities, given.id, given.now)
Reach(capabilities) == {x \in Paths \X Paths : Permits(capabilities, x[1], x[2])}

DelegationAnswer ==
    [delegable |-> Delegates(given.grant, given.capabilities, given.now),
     child     |-> DelegationChild,
     valid     |-> validateAuthorityGrant(DelegationChild),
     below     |-> Reach(DelegationChild.capabilities),
     above     |-> Reach(given.grant.capabilities)]

AuthorityAnswered ==
    \/ part = "pattern" /\ given \in PatternAsked /\ answers \in {<<>>, <<PatternAnswer>>}
    \/ part = "obligations" /\ given \in ObligationsAsked /\ answers \in {<<>>, <<ObligationsAnswer>>}
    \/ part = "envelope" /\ given \in EnvelopeAsked /\ answers \in {<<>>, <<EnvelopeAnswer>>}
    \/ part = "delegation" /\ given \in DelegationAsked /\ answers \in {<<>>, <<DelegationAnswer>>}

\* What is in answers is what the procedures say of what is given.
LEMMA AuthorityIsAnswered == AuthoritySpec => []AuthorityAnswered
<1> DEFINE Next == AskPattern \/ AskObligations \/ AskEnvelope \/ AskDelegation
           Start == \/ Ask("pattern", PatternAsked) \/ Ask("obligations", ObligationsAsked)
                    \/ Ask("envelope", EnvelopeAsked) \/ Ask("delegation", DelegationAsked)
<1>1. Start => AuthorityAnswered
  BY DEF Ask, AuthorityAnswered
<1>2. AuthorityAnswered /\ [Next]_caseVars => AuthorityAnswered'
  <2> SUFFICES ASSUME AuthorityAnswered, [Next]_caseVars PROVE AuthorityAnswered'
    OBVIOUS
  <2>0. ASSUME given' = given
        PROVE  /\ PatternAnswer' = PatternAnswer /\ ObligationsAnswer' = ObligationsAnswer
               /\ EnvelopeAnswer' = EnvelopeAnswer /\ DelegationAnswer' = DelegationAnswer
    BY <2>0 DEF PatternAnswer, ObligationsAnswer, EnvelopeAnswer, DelegationAnswer, Drawn, Builds, DelegationChild, Reach
  <2>1. CASE AskPattern
    <3>1. part = "pattern" /\ answers' = <<PatternAnswer>> /\ part' = part /\ given' = given
      BY <2>1, Zenon DEF AskPattern, Answer, PatternAnswer
    <3> QED BY <2>0, <3>1, Zenon DEF AuthorityAnswered
  <2>2. CASE AskObligations
    <3>1. part = "obligations" /\ answers' = <<ObligationsAnswer>> /\ part' = part /\ given' = given
      BY <2>2, Zenon DEF AskObligations, Answer, ObligationsAnswer
    <3> QED BY <2>0, <3>1, Zenon DEF AuthorityAnswered
  <2>3. CASE AskEnvelope
    <3>1. part = "envelope" /\ answers' = <<EnvelopeAnswer>> /\ part' = part /\ given' = given
      BY <2>3, Zenon DEF AskEnvelope, Answer, EnvelopeAnswer, Drawn, Builds
    <3> QED BY <2>0, <3>1, Zenon DEF AuthorityAnswered
  <2>4. CASE AskDelegation
    <3>1. part = "delegation" /\ answers' = <<DelegationAnswer>> /\ part' = part /\ given' = given
      BY <2>4, Zenon DEF AskDelegation, Answer, DelegationAnswer, DelegationChild, Reach
    <3> QED BY <2>0, <3>1, Zenon DEF AuthorityAnswered
  <2>5. CASE UNCHANGED caseVars
    <3>1. part' = part /\ given' = given /\ answers' = answers
      BY <2>5 DEF caseVars
    <3> QED BY <2>0, <3>1 DEF AuthorityAnswered
  <2> QED BY <2>1, <2>2, <2>3, <2>4, <2>5
<1> QED BY <1>1, <1>2, PTL DEF AuthoritySpec

\* A pattern or a name has a character.
LEMMA NameHasCharacter == ASSUME NEW p \in CharSeqs PROVE Len(p) \in Nat /\ Len(p) >= 1 /\ Len(p) # 0
BY DEF CharSeqs

\* The value is cut into one piece for each part of the pattern.
CutBy(cut, pattern, value) ==
    /\ cut \in [0 .. Len(pattern) -> 0 .. Len(value)]
    /\ cut[0] = 0 /\ cut[Len(pattern)] = Len(value)
    /\ \A i \in 1 .. Len(pattern) :
          CASE pattern[i] = "**" -> cut[i] >= cut[i - 1]
            [] pattern[i] = "*"  -> /\ cut[i] >= cut[i - 1]
                                    /\ \A k \in cut[i - 1] + 1 .. cut[i] : value[k] # "/"
            [] OTHER -> /\ cut[i] = cut[i - 1] + 1
                        /\ pattern[i] \in {"?", value[cut[i]]}

\* A pattern matches when it is a wildcard alone or the value can be cut.
LEMMA MatchesByCut ==
    ASSUME NEW p, NEW v
    PROVE  authorityPatternMatches(p, v) <=> Everything(p) \/ \E cut : CutBy(cut, p, v)
BY DEF authorityPatternMatches, CutBy

\* A character that is no wildcard is cut off alone, and stands for itself.
LEMMA LiteralIsCut ==
    ASSUME NEW p \in CharSeqs, NEW v \in CharSeqs, NEW cut, CutBy(cut, p, v),
           NEW i \in 1 .. Len(p), p[i] \notin Wildcards
    PROVE  cut[i] = cut[i - 1] + 1 /\ p[i] = v[cut[i]]
<1>1. p[i] # "**" /\ p[i] # "*" /\ p[i] # "?"
  BY DEF Wildcards
<1>2. (CASE p[i] = "**" -> cut[i] >= cut[i - 1]
         [] p[i] = "*"  -> cut[i] >= cut[i - 1] /\ \A k \in cut[i - 1] + 1 .. cut[i] : v[k] # "/"
         [] OTHER -> cut[i] = cut[i - 1] + 1 /\ p[i] \in {"?", v[cut[i]]})
  BY DEF CutBy
<1> QED
  BY <1>1, <1>2

\* The characters before the first wildcard stand for themselves.
LEMMA CutFollowsLiterals ==
    ASSUME NEW p \in CharSeqs, NEW v \in CharSeqs, NEW cut, CutBy(cut, p, v),
           NEW k \in 0 .. Len(p), \A i \in 1 .. k : p[i] \notin Wildcards
    PROVE  \A i \in 0 .. k : cut[i] = i /\ (i > 0 => p[i] = v[i])
<1> DEFINE Bad == {i \in 0 .. k : cut[i] # i}
<1>1. Bad = {}
  <2> SUFFICES ASSUME Bad # {} PROVE FALSE
    OBVIOUS
  <2>0. Len(p) \in Nat /\ Len(v) \in Nat
    BY NameHasCharacter
  <2>1. PICK n \in Bad : \A m \in Bad : n <= m
    <3>1. Bad \in SUBSET Nat
      BY <2>0
    <3> QED
      BY <3>1, LeastNatural
  <2>2. n # 0
    BY DEF CutBy
  <2>3. n - 1 \in 0 .. k /\ n \in 1 .. k /\ n \in 1 .. Len(p) /\ n - 1 \notin Bad
    BY <2>1, <2>2 DEF CharSeqs
  <2>4. cut[n - 1] = n - 1 /\ cut[n] = cut[n - 1] + 1
    BY <2>3, LiteralIsCut
  <2>5. cut[n] = n
    BY <2>3, <2>4
  <2> QED
    BY <2>1, <2>5
<1>2. ASSUME NEW i \in 0 .. k, i > 0 PROVE p[i] = v[i]
  <2>1. i \in 1 .. k /\ i \in 1 .. Len(p) /\ cut[i] = i
    BY <1>1, <1>2 DEF CharSeqs
  <2>2. p[i] = v[cut[i]]
    BY <2>1, LiteralIsCut
  <2> QED
    BY <2>1, <2>2
<1> QED
  BY <1>1, <1>2

\* The static prefix is cut off before the first wildcard.
LEMMA PrefixIsLiteral ==
    ASSUME NEW p \in CharSeqs
    PROVE  \E n \in 0 .. Len(p) : /\ staticPrefix(p) = SubSeq(p, 1, n)
                                  /\ \A i \in 1 .. n : p[i] \notin Wildcards
                                  /\ n < Len(p) => p[n + 1] \in Wildcards
<1> DEFINE literal == {n \in 0 .. Len(p) : \A i \in 1 .. n : p[i] \notin Wildcards}
           above == {Len(p) - n : n \in literal}
<1>0. Len(p) \in Nat
  BY NameHasCharacter
<1>1. 0 \in literal
  BY <1>0
<1>2. above \in SUBSET Nat /\ above # {}
  BY <1>1 DEF CharSeqs
<1>3. PICK a \in above : \A b \in above : a <= b
  BY <1>2, LeastNatural
<1>4. PICK g \in literal : a = Len(p) - g
  BY <1>3
<1>5. \A k \in literal : k <= g
  <2> TAKE k \in literal
  <2>1. Len(p) - k \in above /\ k \in Nat /\ g \in Nat
    BY <1>0
  <2>2. Len(p) - g <= Len(p) - k
    BY <2>1, <1>3, <1>4
  <2> QED
    BY <2>1, <2>2, <1>0
<1> DEFINE n == CHOOSE n \in literal : \A k \in literal : k <= n
<1>6. n \in literal /\ \A k \in literal : k <= n
  BY <1>5
<1>7. n < Len(p) => p[n + 1] \in Wildcards
  <2> SUFFICES ASSUME n < Len(p), p[n + 1] \notin Wildcards PROVE FALSE
    OBVIOUS
  <2>1. n + 1 \in literal
    <3>1. n \in 0 .. Len(p) /\ \A i \in 1 .. n : p[i] \notin Wildcards
      BY <1>6
    <3> HIDE DEF n
    <3> QED
      BY <3>1, <1>0
  <2>2. n \in Nat
    BY <1>6, <1>0
  <2>3. n + 1 <= n
    BY <2>1, <1>6
  <2> HIDE DEF n
  <2> QED
    BY <2>2, <2>3
<1>8. staticPrefix(p) = SubSeq(p, 1, n)
  BY DEF staticPrefix
<1> HIDE DEF n
<1> QED
  BY <1>6, <1>7, <1>8

\* What a pattern matches begins with the pattern's static prefix.
LEMMA MatchHasPrefix ==
    ASSUME NEW p \in CharSeqs, NEW v \in CharSeqs, authorityPatternMatches(p, v)
    PROVE  StartsWith(v, staticPrefix(p))
<1>0. Len(p) \in Nat /\ Len(v) \in Nat
  BY NameHasCharacter
<1>1. PICK n \in 0 .. Len(p) : /\ staticPrefix(p) = SubSeq(p, 1, n)
                               /\ \A i \in 1 .. n : p[i] \notin Wildcards
  BY PrefixIsLiteral
<1>2. CASE Everything(p)
  <2>1. Len(p) = 1 /\ p[1] \in Wildcards
    BY <1>2 DEF Everything, Wildcards
  <2>2. n = 0
    BY <1>1, <2>1
  <2>3. SubSeq(p, 1, 0) = <<>> /\ SubSeq(v, 1, 0) = <<>>
    BY DEF CharSeqs
  <2> QED
    BY <1>0, <1>1, <2>2, <2>3 DEF StartsWith
<1>3. CASE ~Everything(p)
  <2>1. PICK cut : CutBy(cut, p, v)
    BY <1>3, MatchesByCut
  <2>2. \A i \in 0 .. n : cut[i] = i /\ (i > 0 => p[i] = v[i])
    BY <1>1, <2>1, CutFollowsLiterals
  <2>3. n \in Nat /\ n <= Len(v)
    <3>1. cut[n] \in 0 .. Len(v)
      BY <1>1, <2>1 DEF CutBy
    <3> QED
      BY <1>0, <2>2, <3>1
  <2>4. SubSeq(v, 1, n) = SubSeq(p, 1, n) /\ Len(SubSeq(p, 1, n)) = n
    <3>1. /\ SubSeq(v, 1, n) \in Seq(STRING) /\ SubSeq(p, 1, n) \in Seq(STRING)
          /\ Len(SubSeq(v, 1, n)) = n /\ Len(SubSeq(p, 1, n)) = n
      BY <1>0, <2>3 DEF CharSeqs
    <3>2. \A i \in 1 .. n : SubSeq(v, 1, n)[i] = v[i] /\ SubSeq(p, 1, n)[i] = p[i] /\ v[i] = p[i]
      BY <1>0, <2>2, <2>3 DEF CharSeqs
    <3> QED
      BY <3>1, <3>2, <2>3
  <2> QED
    BY <1>1, <2>3, <2>4 DEF StartsWith
<1> QED
  BY <1>2, <1>3

\* A prefix of a prefix is a prefix.
LEMMA PrefixOfPrefix ==
    ASSUME NEW s \in Seq(STRING), NEW t \in Seq(STRING), NEW u \in Seq(STRING), StartsWith(s, t), StartsWith(t, u)
    PROVE  StartsWith(s, u)
<1>1. /\ Len(t) <= Len(s) /\ Len(u) <= Len(t) /\ SubSeq(s, 1, Len(t)) = t /\ SubSeq(t, 1, Len(u)) = u
      /\ Len(s) \in Nat /\ Len(t) \in Nat /\ Len(u) \in Nat
  BY DEF StartsWith
<1>2. \A i \in 1 .. Len(t) : t[i] = s[i]
  BY <1>1
<1>3. \A i \in 1 .. Len(u) : u[i] = t[i]
  BY <1>1
<1>4. SubSeq(s, 1, Len(u)) = u
  <2>1. Len(SubSeq(s, 1, Len(u))) = Len(u) /\ SubSeq(s, 1, Len(u)) \in Seq(STRING)
    BY <1>1
  <2>2. \A i \in 1 .. Len(u) : SubSeq(s, 1, Len(u))[i] = u[i]
    BY <1>1, <1>2, <1>3
  <2> QED
    BY <1>1, <2>1, <2>2
<1> QED
  BY <1>1, <1>4 DEF StartsWith

\* A pattern without wildcards matches itself only.
LEMMA PlainMatchesItself ==
    ASSUME NEW p \in CharSeqs, NEW v \in CharSeqs, ~HasWildcard(p), authorityPatternMatches(p, v)
    PROVE  v = p
<1>1. \A i \in 1 .. Len(p) : p[i] \notin Wildcards
  BY DEF HasWildcard, CharSeqs
<1>2. ~Everything(p)
  <2> SUFFICES ASSUME Everything(p) PROVE FALSE
    OBVIOUS
  <2>1. Len(p) = 1 /\ p[1] \in Wildcards
    BY DEF Everything, Wildcards
  <2> QED
    BY <2>1, <1>1
<1>3. PICK cut : CutBy(cut, p, v)
  BY <1>2, MatchesByCut
<1>4. \A i \in 0 .. Len(p) : cut[i] = i /\ (i > 0 => p[i] = v[i])
  BY <1>1, <1>3, CutFollowsLiterals DEF CharSeqs
<1>5. Len(v) = Len(p)
  BY <1>3, <1>4 DEF CutBy, CharSeqs
<1> QED
  BY <1>4, <1>5 DEF CharSeqs

\* An honest pattern that ends in "**" matches whatever begins with what stands
\* before it.
LEMMA PrefixIsEnough ==
    ASSUME NEW parent \in CharSeqs, NEW v \in CharSeqs, Honest(parent), EndsInStars(parent),
           StartsWith(v, staticPrefix(parent))
    PROVE  authorityPatternMatches(parent, v)
<1>0. PICK m \in Nat : Len(parent) = m + 1
  <2>1. Len(parent) - 1 \in Nat /\ Len(parent) = (Len(parent) - 1) + 1
    BY NameHasCharacter
  <2> QED
    BY <2>1
<1>1. /\ m + 1 = Len(parent) /\ Len(parent) \in Nat /\ Len(v) \in Nat
      /\ \A i \in 1 .. m : parent[i] \notin Wildcards
  BY <1>0, NameHasCharacter DEF Honest
<1>2. parent[m + 1] = "**"
  <2>1. ~(Len(parent) > 1 /\ parent[Len(parent) - 1] = "**")
    <3> SUFFICES ASSUME Len(parent) > 1, parent[Len(parent) - 1] = "**" PROVE FALSE
      OBVIOUS
    <3>1. m \in 1 .. m /\ parent[m] = "**"
      BY <1>0
    <3> QED
      BY <1>1, <3>1 DEF Wildcards
  <2> QED
    BY <1>0, <2>1 DEF EndsInStars
<1>3. PICK np \in 0 .. Len(parent) : /\ staticPrefix(parent) = SubSeq(parent, 1, np)
                                     /\ \A i \in 1 .. np : parent[i] \notin Wildcards
                                     /\ np < Len(parent) => parent[np + 1] \in Wildcards
  BY PrefixIsLiteral
<1>4. np = m
  <2>1. np # Len(parent)
    <3>1. "**" \in Wildcards /\ m + 1 \in 1 .. Len(parent)
      BY <1>1 DEF Wildcards
    <3> QED
      BY <3>1, <1>1, <1>2, <1>3
  <2>2. np + 1 \notin 1 .. m
    BY <2>1, <1>1, <1>3
  <2>3. np \in Nat /\ np < Len(parent) /\ ~(np + 1 <= m)
    BY <2>1, <2>2, <1>1
  <2> QED
    BY <2>3, <1>1
<1>5. m <= Len(v) /\ \A i \in 1 .. m : v[i] = parent[i]
  <2>1. /\ Len(SubSeq(parent, 1, m)) = m /\ m <= Len(v) /\ SubSeq(v, 1, m) = SubSeq(parent, 1, m)
    BY <1>1, <1>3, <1>4 DEF StartsWith, CharSeqs
  <2>2. \A i \in 1 .. m : SubSeq(v, 1, m)[i] = v[i] /\ SubSeq(parent, 1, m)[i] = parent[i]
    BY <1>1, <2>1 DEF CharSeqs
  <2> QED
    BY <2>1, <2>2
<1> DEFINE c == [i \in 0 .. Len(parent) |-> IF i <= m THEN i ELSE Len(v)]
<1>6. c \in [0 .. Len(parent) -> 0 .. Len(v)] /\ c[0] = 0 /\ c[Len(parent)] = Len(v)
  BY <1>1, <1>5
<1>7. ASSUME NEW i \in 1 .. Len(parent)
      PROVE  CASE parent[i] = "**" -> c[i] >= c[i - 1]
               [] parent[i] = "*"  -> c[i] >= c[i - 1] /\ \A k \in c[i - 1] + 1 .. c[i] : v[k] # "/"
               [] OTHER -> c[i] = c[i - 1] + 1 /\ parent[i] \in {"?", v[c[i]]}
  <2>1. CASE i <= m
    <3>1. c[i] = i /\ c[i - 1] = i - 1 /\ parent[i] = v[i]
      BY <2>1, <1>1, <1>5
    <3>2. parent[i] # "**" /\ parent[i] # "*"
      BY <1>1, <2>1 DEF Wildcards
    <3> QED
      BY <3>1, <3>2
  <2>2. CASE i = m + 1
    <3>1. c[i] = Len(v) /\ c[i - 1] = m /\ parent[i] = "**"
      BY <2>2, <1>1, <1>2
    <3> QED
      BY <3>1, <1>5
  <2> QED
    <3> HIDE DEF c
    <3>1. i \in Nat /\ i <= m + 1
      BY <1>1
    <3>2. i <= m \/ i = m + 1
      BY <3>1, <1>1
    <3> QED
      BY <3>2, <2>1, <2>2
<1>8. CutBy(c, parent, v)
  BY <1>6, <1>7 DEF CutBy
<1> HIDE DEF c
<1> QED
  BY <1>8, MatchesByCut

\* A static prefix is a sequence of characters.
LEMMA PrefixIsString == ASSUME NEW p \in CharSeqs PROVE staticPrefix(p) \in Seq(STRING)
<1>1. PICK n \in 0 .. Len(p) : staticPrefix(p) = SubSeq(p, 1, n)
  BY PrefixIsLiteral
<1> QED
  BY <1>1 DEF CharSeqs

\* What authorityPatternIsWithin calls within begins with its parent's static
\* prefix, or is matched by its parent.
LEMMA WithinKeepsPrefix ==
    ASSUME NEW child \in CharSeqs, NEW parent \in CharSeqs, NEW v \in CharSeqs,
           authorityPatternIsWithin(child, parent), authorityPatternMatches(child, v)
    PROVE  \/ authorityPatternMatches(parent, v)
           \/ EndsInStars(parent) /\ StartsWith(v, staticPrefix(parent))
<1>1. CASE Everything(parent)
  BY <1>1 DEF authorityPatternMatches
<1>2. CASE child = parent
  BY <1>2
<1>3. CASE ~HasWildcard(child) /\ authorityPatternMatches(parent, child)
  BY <1>3, PlainMatchesItself
<1>4. CASE EndsInStars(parent) /\ StartsWith(staticPrefix(child), staticPrefix(parent))
  <2>1. StartsWith(v, staticPrefix(child))
    BY MatchHasPrefix
  <2>2. v \in Seq(STRING) /\ staticPrefix(child) \in Seq(STRING) /\ staticPrefix(parent) \in Seq(STRING)
    BY PrefixIsString DEF CharSeqs
  <2>3. StartsWith(v, staticPrefix(parent))
    BY <1>4, <2>1, <2>2, PrefixOfPrefix, Zenon
  <2> QED
    BY <1>4, <2>3
<1> QED
  BY <1>1, <1>2, <1>3, <1>4, Zenon DEF authorityPatternIsWithin

\* What authorityPatternIsWithin calls within an honest pattern is inclusion.
LEMMA WithinIncludes ==
    ASSUME NEW child \in CharSeqs, NEW parent \in CharSeqs, NEW v \in CharSeqs,
           Honest(parent), authorityPatternIsWithin(child, parent), authorityPatternMatches(child, v)
    PROVE  authorityPatternMatches(parent, v)
BY WithinKeepsPrefix, PrefixIsEnough

\* The pattern question of NarrowedIsNarrower.
LEMMA PatternsNarrow == AuthorityAnswered => WithinIsInclusion
<1> SUFFICES ASSUME AuthorityAnswered, Answered("pattern"), answer.within, NEW v \in answer.child
             PROVE  \/ v \in answer.parent
                    \/ ~Honest(given.parent) /\ StartsWith(v, staticPrefix(given.parent))
  BY DEF WithinIsInclusion
<1>1. given \in PatternAsked /\ answers = <<PatternAnswer>>
  BY DEF AuthorityAnswered, Answered
<1>2. answer = PatternAnswer
  BY <1>1 DEF answer
<1>3. given.child \in CharSeqs /\ given.parent \in CharSeqs
  BY <1>1 DEF PatternAsked
<1>4. /\ authorityPatternIsWithin(given.child, given.parent)
      /\ v \in Paths /\ authorityPatternMatches(given.child, v)
  BY <1>2 DEF PatternAnswer
<1>5. v \in CharSeqs
  BY <1>4, PathsAssumption
<1>6. v \in answer.parent <=> authorityPatternMatches(given.parent, v)
  BY <1>2, <1>4 DEF PatternAnswer
<1> QED
  BY <1>3, <1>4, <1>5, <1>6, WithinIncludes, WithinKeepsPrefix

\* Whoever meets a narrower obligation meets the wider one.
LEMMA ObligationsImply ==
    ASSUME NEW child \in SUBSET ObligationRecords, NEW parent \in SUBSET ObligationRecords,
           obligationsAreWithin(child, parent),
           NEW w \in [now : Times, approved : BOOLEAN, effectReceipt : BOOLEAN, phase : {"pre", "post"}],
           evaluateObligations(child, w, w.phase)
    PROVE  evaluateObligations(parent, w, w.phase)
<1> SUFFICES ASSUME NEW o \in parent
             PROVE  CASE o.type = "require_approval"       -> w.phase = "pre" => w.approved
                      [] o.type = "execution_before"       -> w.phase = "pre" => w.now < o.deadline
                      [] o.type = "require_effect_receipt" -> w.phase = "post" => w.effectReceipt
                      [] OTHER -> TRUE
  BY DEF evaluateObligations
<1>1. PICK x \in child : x.type = o.type /\ x.deadline <= o.deadline
  BY DEF obligationsAreWithin
<1>2. /\ x.type = "require_approval" /\ w.phase = "pre" => w.approved
      /\ x.type = "execution_before" /\ w.phase = "pre" => w.now < x.deadline
      /\ x.type = "require_effect_receipt" /\ w.phase = "post" => w.effectReceipt
  BY DEF evaluateObligations
<1>3. w.now \in Nat /\ x.deadline \in Nat /\ o.deadline \in Nat
  BY HorizonAssumption DEF Times, ObligationRecords
<1>4. CASE o.type = "require_approval"
  BY <1>1, <1>2, <1>4
<1>5. CASE o.type = "execution_before"
  <2>1. w.phase = "pre" => w.now < x.deadline
    BY <1>1, <1>2, <1>5
  <2> QED
    BY <1>1, <1>3, <1>5, <2>1
<1>6. CASE o.type = "require_effect_receipt"
  BY <1>1, <1>2, <1>6
<1>7. CASE o.type \notin {"require_approval", "execution_before", "require_effect_receipt"}
  BY <1>7
<1> QED
  BY <1>4, <1>5, <1>6, <1>7

\* The obligations question of NarrowedIsNarrower.
LEMMA ObligationsNarrow == AuthorityAnswered => ObligationsWithinIsImplication
<1> SUFFICES ASSUME AuthorityAnswered, Answered("obligations"), answer.within, NEW w \in answer.met["child"]
             PROVE  w \in answer.met["parent"]
  BY DEF ObligationsWithinIsImplication
<1> DEFINE Circumstances == [now : Times, approved : BOOLEAN, effectReceipt : BOOLEAN, phase : {"pre", "post"}]
<1>1. given \in ObligationsAsked /\ answers = <<ObligationsAnswer>>
  BY DEF AuthorityAnswered, Answered
<1>2. answer = ObligationsAnswer
  BY <1>1 DEF answer
<1>3. given.child \in SUBSET ObligationRecords /\ given.parent \in SUBSET ObligationRecords
  BY <1>1 DEF ObligationsAsked
<1>4. obligationsAreWithin(given.child, given.parent)
  BY <1>2 DEF ObligationsAnswer
<1>5. /\ answer.met["child"] = {x \in Circumstances : evaluateObligations(given["child"], x, x.phase)}
      /\ answer.met["parent"] = {x \in Circumstances : evaluateObligations(given["parent"], x, x.phase)}
  BY <1>2 DEF ObligationsAnswer
<1>6. w \in Circumstances /\ evaluateObligations(given.child, w, w.phase)
  BY <1>5
<1>7. evaluateObligations(given.parent, w, w.phase)
  BY <1>3, <1>4, <1>6, ObligationsImply
<1> QED
  BY <1>5, <1>6, <1>7

---------------------------------------------------------------------------

\* The latest of three times is one of them and none is later.
LEMMA LatestOfThree ==
    ASSUME NEW a \in Nat, NEW b \in Nat, NEW c \in Nat
    PROVE  /\ Latest({a, b, c}) \in {a, b, c}
           /\ a <= Latest({a, b, c}) /\ b <= Latest({a, b, c}) /\ c <= Latest({a, b, c})
<1>1. \E t \in {a, b, c} : \A u \in {a, b, c} : u <= t
  <2>1. CASE b <= a /\ c <= a
    BY <2>1
  <2>2. CASE a <= b /\ c <= b
    BY <2>2
  <2>3. CASE a <= c /\ b <= c
    BY <2>3
  <2> QED
    BY <2>1, <2>2, <2>3
<1> QED
  BY <1>1 DEF Latest

\* What an envelope adds to its grant's obligations does not loosen them.
LEMMA MergedIsWithin ==
    ASSUME NEW parent \in SUBSET ObligationRecords, NEW requested
    PROVE  obligationsAreWithin(mergeAuthorityObligations(parent, requested), parent)
<1> SUFFICES ASSUME NEW o \in parent
             PROVE  \E x \in parent \cup requested : x.type = o.type /\ x.deadline <= o.deadline
  BY DEF obligationsAreWithin, mergeAuthorityObligations
<1>1. o.deadline \in Nat
  BY DEF ObligationRecords
<1>2. o \in parent \cup requested /\ o.type = o.type /\ o.deadline <= o.deadline
  BY <1>1
<1> QED
  BY <1>2

\* An envelope that could be built verifies against its grant exactly inside
\* its own window, if its budget fits.
LEMMA BuiltVerifies ==
    ASSUME NEW q \in EnvelopeAsked, BuildsEnvelope(q.grant, q.spec, q.now), NEW t
    PROVE  verifyAuthorityEnvelope(Envelope(q.grant, q.spec, q.now), q.grant, t)
           <=> /\ Within(Envelope(q.grant, q.spec, q.now).budget, q.grant.budget)
               /\ Envelope(q.grant, q.spec, q.now).notBefore <= t /\ t < Envelope(q.grant, q.spec, q.now).expiresAt
<1> DEFINE e == Envelope(q.grant, q.spec, q.now)
<1>1. /\ capabilitiesAreWithin(e.capabilities, q.grant.capabilities)
      /\ e.delegation => q.grant.allowed
      /\ e.notBefore >= q.grant.notBefore /\ e.expiresAt <= q.grant.expiresAt
  BY Zenon DEF BuildsEnvelope
<1>2. e.obligations = mergeAuthorityObligations(q.grant.obligations, q.spec.obligations)
  BY DEF Envelope
<1>3. q.grant.obligations \in SUBSET ObligationRecords
  BY DEF EnvelopeAsked, GrantRecords
<1>4. obligationsAreWithin(e.obligations, q.grant.obligations)
  BY <1>2, <1>3, MergedIsWithin
<1> HIDE DEF e
<1> QED
  BY <1>1, <1>4, Zenon DEF verifyAuthorityEnvelope, e

\* An envelope lets nothing through whose budget does not fit its grant's, nor
\* before it was issued, nor after it or its grant has expired.
LEMMA UsableIsGranted ==
    ASSUME NEW q \in EnvelopeAsked, NEW v \in CharSeqs, NEW t \in Nat,
           authorizeWithAuthorityEnvelope(Envelope(q.grant, q.spec, q.now), q.grant, [action |-> v, resource |-> v], t)
    PROVE  /\ Within(Envelope(q.grant, q.spec, q.now).budget, q.grant.budget)
           /\ t >= q.now /\ t < q.grant.expiresAt /\ t < Envelope(q.grant, q.spec, q.now).expiresAt
<1> DEFINE e == Envelope(q.grant, q.spec, q.now)
<1>1. verifyAuthorityGrant(q.grant, t) /\ verifyAuthorityEnvelope(e, q.grant, t)
  BY Zenon DEF authorizeWithAuthorityEnvelope, authorizeWithAuthorityGrant
<1>2. t < q.grant.expiresAt /\ e.notBefore <= t /\ t < e.expiresAt /\ Within(e.budget, q.grant.budget)
  BY <1>1, Zenon DEF verifyAuthorityGrant, verifyAuthorityEnvelope
<1>3. q.now \in Nat /\ q.grant.notBefore \in Nat /\ q.spec.notBefore \in Nat
  BY DEF EnvelopeAsked, GrantRecords
<1>4. e.notBefore = Latest({q.now, q.grant.notBefore, q.spec.notBefore})
  BY DEF Envelope
<1>5. q.now <= e.notBefore /\ e.notBefore \in Nat
  <2> DEFINE l == Latest({q.now, q.grant.notBefore, q.spec.notBefore})
  <2>1. l \in {q.now, q.grant.notBefore, q.spec.notBefore} /\ q.now <= l
    BY <1>3, LatestOfThree, Zenon
  <2> HIDE DEF e, l
  <2> QED
    BY <1>3, <1>4, <2>1 DEF l
<1>6. t >= q.now
  <2> HIDE DEF e
  <2> QED
    BY <1>2, <1>3, <1>5
<1> QED
  BY <1>2, <1>6

\* The envelope question of NarrowedIsNarrower.
LEMMA EnvelopesNarrow == AuthorityAnswered => BuiltEnvelopeHolds
<1> SUFFICES ASSUME AuthorityAnswered, Answered("envelope"), answer.builds
             PROVE  /\ answer.verifies = {t \in Times : /\ Within(answer.envelope.budget, given.grant.budget)
                                                        /\ t >= answer.envelope.notBefore
                                                        /\ t < answer.envelope.expiresAt}
                    /\ \A u \in answer.usable :
                          /\ Within(answer.envelope.budget, given.grant.budget)
                          /\ u[2] >= given.now /\ u[2] < given.grant.expiresAt /\ u[2] < answer.envelope.expiresAt
  BY Zenon DEF BuiltEnvelopeHolds
<1>1. given \in EnvelopeAsked /\ answers = <<EnvelopeAnswer>>
  BY DEF AuthorityAnswered, Answered
<1>2. answer = EnvelopeAnswer
  BY <1>1 DEF answer
<1>3. /\ Builds /\ answer.envelope = Drawn
      /\ answer.verifies = {t \in Times : verifyAuthorityEnvelope(Drawn, given.grant, t)}
      /\ answer.usable = {x \in Paths \X Times :
             /\ Builds
             /\ authorizeWithAuthorityEnvelope(Drawn, given.grant, [action |-> x[1], resource |-> x[1]], x[2])}
  BY <1>2 DEF EnvelopeAnswer
<1>4. ASSUME NEW t \in Times
      PROVE  verifyAuthorityEnvelope(Drawn, given.grant, t)
             <=> Within(Drawn.budget, given.grant.budget) /\ t >= Drawn.notBefore /\ t < Drawn.expiresAt
  <2>1. verifyAuthorityEnvelope(Drawn, given.grant, t)
        <=> Within(Drawn.budget, given.grant.budget) /\ Drawn.notBefore <= t /\ t < Drawn.expiresAt
    BY <1>1, <1>3, BuiltVerifies, Zenon DEF Drawn, Builds
  <2> QED
    BY <2>1
<1>5. answer.verifies = {t \in Times : /\ Within(answer.envelope.budget, given.grant.budget)
                                       /\ t >= answer.envelope.notBefore /\ t < answer.envelope.expiresAt}
  BY <1>3, <1>4
<1>6. ASSUME NEW u \in answer.usable
      PROVE  /\ Within(answer.envelope.budget, given.grant.budget)
             /\ u[2] >= given.now /\ u[2] < given.grant.expiresAt /\ u[2] < answer.envelope.expiresAt
  <2>1. /\ u[1] \in CharSeqs /\ u[2] \in Nat
        /\ authorizeWithAuthorityEnvelope(Drawn, given.grant, [action |-> u[1], resource |-> u[1]], u[2])
    BY <1>3, PathsAssumption, HorizonAssumption DEF Times
  <2>2. /\ Within(Drawn.budget, given.grant.budget)
        /\ u[2] >= given.now /\ u[2] < given.grant.expiresAt /\ u[2] < Drawn.expiresAt
    BY <1>1, <2>1, UsableIsGranted, Zenon DEF Drawn
  <2> QED
    BY <1>3, <2>2
<1> QED
  BY <1>5, <1>6

---------------------------------------------------------------------------

\* The ancestry of a valid grant and of its child: nobody twice.
LEMMA AncestorsGrow ==
    ASSUME NEW q \in DelegationAsked, validateAuthorityGrant(q.grant)
    PROVE  LET a == Append(q.grant.ancestors, q.grant.id) IN
           /\ a \in Seq(Nat) /\ Len(a) = q.grant.depth + 1 /\ a[q.grant.depth + 1] = q.grant.id
           /\ \A i, j \in DOMAIN a : a[i] = a[j] => i = j
           /\ \A i \in DOMAIN a : a[i] # q.id
<1> DEFINE g == q.grant
           s == g.ancestors
           d == g.depth
           a == Append(s, g.id)
<1>1. g \in GrantRecords /\ q.id # g.id /\ \A i \in DOMAIN s : s[i] # q.id
  BY DEF DelegationAsked
<1>2. s \in Seq(Nat) /\ d \in Nat /\ g.id \in Nat
  BY <1>1 DEF GrantRecords
<1>3. /\ Len(s) = d
      /\ \A i, j \in DOMAIN s : s[i] = s[j] => i = j
      /\ \A i \in DOMAIN s : s[i] # g.id
  BY Zenon DEF validateAuthorityGrant
<1> HIDE DEF g
<1>4. /\ a \in Seq(Nat) /\ Len(a) = d + 1 /\ DOMAIN a = 1 .. d + 1 /\ DOMAIN s = 1 .. d
      /\ a[d + 1] = g.id /\ \A i \in 1 .. d : a[i] = s[i]
  BY <1>2, <1>3
<1>5. ASSUME NEW i \in DOMAIN a, NEW j \in DOMAIN a, a[i] = a[j] PROVE i = j
  BY <1>2, <1>3, <1>4, <1>5
<1>6. ASSUME NEW i \in DOMAIN a PROVE a[i] # q.id
  BY <1>1, <1>2, <1>4
<1> QED
  BY <1>4, <1>5, <1>6 DEF g

\* As many names as places, when no name comes twice.
LEMMA DistinctNames ==
    ASSUME NEW a \in Seq(Nat), \A i, j \in DOMAIN a : a[i] = a[j] => i = j
    PROVE  Cardinality({a[i] : i \in DOMAIN a}) = Len(a)
<1> DEFINE S == {a[i] : i \in DOMAIN a}
           f == [i \in 1 .. Len(a) |-> a[i]]
<1>1. DOMAIN a = 1 .. Len(a) /\ Len(a) \in Nat
  OBVIOUS
<1>2. f \in [1 .. Len(a) -> S]
  BY <1>1
<1>3. f \in Bijection(1 .. Len(a), S)
  BY <1>1, <1>2 DEF Bijection, Injection, Surjection, IsInjective
<1>4. ExistsBijection(1 .. Len(a), S)
  BY <1>3 DEF ExistsBijection
<1> QED
  BY <1>1, <1>4, FS_CountingElements

\* Capabilities within honest ones permit no more than they do.
LEMMA PermitsNarrow ==
    ASSUME NEW caps \in SUBSET CapabilityRecords, NEW grantCaps \in SUBSET CapabilityRecords,
           NEW action \in CharSeqs, NEW resource \in CharSeqs,
           \A cap \in grantCaps : \A p \in cap.actions \cup cap.resources : Honest(p),
           capabilitiesAreWithin(caps, grantCaps), Permits(caps, action, resource)
    PROVE  Permits(grantCaps, action, resource)
<1>1. PICK cap \in caps : /\ \E p \in cap.actions : authorityPatternMatches(p, action)
                          /\ \E p \in cap.resources : authorityPatternMatches(p, resource)
  BY DEF Permits
<1>2. PICK pa \in cap.actions : authorityPatternMatches(pa, action)
  BY <1>1
<1>3. PICK pr \in cap.resources : authorityPatternMatches(pr, resource)
  BY <1>1
<1>4. PICK over \in grantCaps : /\ \A a \in cap.actions : \E p \in over.actions : authorityPatternIsWithin(a, p)
                                /\ \A r \in cap.resources : \E p \in over.resources : authorityPatternIsWithin(r, p)
  BY DEF capabilitiesAreWithin
<1>5. PICK qa \in over.actions : authorityPatternIsWithin(pa, qa)
  BY <1>4
<1>6. PICK qr \in over.resources : authorityPatternIsWithin(pr, qr)
  BY <1>4
<1>7. pa \in CharSeqs /\ pr \in CharSeqs /\ qa \in CharSeqs /\ qr \in CharSeqs
  BY DEF CapabilityRecords
<1>8. Honest(qa) /\ Honest(qr)
  BY <1>5, <1>6
<1>9. authorityPatternMatches(qa, action) /\ authorityPatternMatches(qr, resource)
  BY <1>2, <1>3, <1>5, <1>6, <1>7, <1>8, WithinIncludes, Zenon
<1> QED
  BY <1>9 DEF Permits

\* The delegation question of NarrowedIsNarrower.
LEMMA DelegationsNarrow == AuthorityAnswered => DelegableGrantHasChild
<1> SUFFICES ASSUME AuthorityAnswered, Answered("delegation"), answer.delegable
             PROVE  /\ answer.valid
                    /\ Cardinality({answer.child.ancestors[i] : i \in DOMAIN answer.child.ancestors}) = given.grant.depth + 1
                    /\ (\A cap \in given.grant.capabilities : \A p \in cap.actions \cup cap.resources : Honest(p))
                          => answer.below \subseteq answer.above
  BY DEF DelegableGrantHasChild
<1> DEFINE g == given.grant
           c == delegateAuthorityGrant(given.grant, given.capabilities, given.id, given.now)
<1>1. given \in DelegationAsked /\ answers = <<DelegationAnswer>>
  BY DEF AuthorityAnswered, Answered
<1>2. answer = DelegationAnswer
  BY <1>1 DEF answer
<1>3. /\ Delegates(g, given.capabilities, given.now)
      /\ answer.child = c /\ (answer.valid <=> validateAuthorityGrant(c))
      /\ answer.below = Reach(c.capabilities) /\ answer.above = Reach(g.capabilities)
  BY <1>2, Zenon DEF DelegationAnswer, DelegationChild
<1>31. /\ verifyAuthorityGrant(g, given.now) /\ g.allowed
       /\ capabilitiesAreWithin(given.capabilities, g.capabilities)
  BY <1>3, Zenon DEF Delegates
<1>4. /\ g \in GrantRecords /\ given.now \in Nat /\ given.id \in Nat \ {0}
      /\ given.capabilities \in SUBSET CapabilityRecords
  BY <1>1 DEF DelegationAsked
<1>5. /\ validateAuthorityGrant(g) /\ given.now < g.expiresAt
  BY <1>31, Zenon DEF verifyAuthorityGrant
<1> DEFINE a == Append(g.ancestors, g.id)
<1>6. /\ a \in Seq(Nat) /\ Len(a) = g.depth + 1 /\ a[g.depth + 1] = g.id
      /\ \A i, j \in DOMAIN a : a[i] = a[j] => i = j
      /\ \A i \in DOMAIN a : a[i] # given.id
  BY <1>1, <1>5, AncestorsGrow, Zenon
<1>7. /\ c.id = given.id /\ c.parent = g.id /\ c.depth = g.depth + 1 /\ c.ancestors = a /\ c.issuedAt = given.now
      /\ c.notBefore = (IF g.notBefore > given.now THEN g.notBefore ELSE given.now)
      /\ c.expiresAt = g.expiresAt /\ c.allowed = FALSE /\ c.maxDepth = g.depth + 1
      /\ c.capabilities = given.capabilities
  BY <1>4 DEF delegateAuthorityGrant, GrantRecords
<1>8. /\ g.notBefore < g.expiresAt /\ g.maxDepth > g.depth /\ g.maxDepth \in g.depth .. MaxDepth /\ g.depth \in 0 .. MaxDepth
  BY <1>31, <1>5, Zenon DEF validateAuthorityGrant
<1>9. /\ g.id \in Nat \ {0} /\ g.depth \in Nat /\ g.notBefore \in Nat /\ g.expiresAt \in Nat /\ g.maxDepth \in Nat
  BY <1>4 DEF GrantRecords
<1> HIDE DEF g, c, a
<1>10. validateAuthorityGrant(c)
  <2>1. c.issuedAt <= c.notBefore /\ c.notBefore < c.expiresAt
    BY <1>4, <1>5, <1>7, <1>8, <1>9
  <2>2. /\ c.depth \in 0 .. MaxDepth /\ ((c.parent = 0) <=> (c.depth = 0))
        /\ c.maxDepth \in c.depth .. MaxDepth /\ (c.allowed => c.maxDepth > c.depth)
    BY <1>7, <1>8, <1>9, HorizonAssumption
  <2>3. /\ Len(c.ancestors) = c.depth /\ (c.depth > 0 => c.ancestors[c.depth] = c.parent)
        /\ \A i, j \in DOMAIN c.ancestors : c.ancestors[i] = c.ancestors[j] => i = j
        /\ \A i \in DOMAIN c.ancestors : c.ancestors[i] # c.id
    BY <1>6, <1>7
  <2> QED
    BY <2>1, <2>2, <2>3, Zenon DEF validateAuthorityGrant
<1>11. Cardinality({a[i] : i \in DOMAIN a}) = g.depth + 1
  BY <1>6, DistinctNames
<1>12. ASSUME \A cap \in g.capabilities : \A p \in cap.actions \cup cap.resources : Honest(p)
       PROVE  answer.below \subseteq answer.above
  <2>1. g.capabilities \in SUBSET CapabilityRecords
    BY <1>4 DEF GrantRecords
  <2>2. ASSUME NEW x \in Paths \X Paths, Permits(given.capabilities, x[1], x[2])
        PROVE  Permits(g.capabilities, x[1], x[2])
    <3>1. x[1] \in CharSeqs /\ x[2] \in CharSeqs
      BY PathsAssumption
    <3> QED
      BY <1>4, <1>12, <1>31, <2>1, <2>2, <3>1, PermitsNarrow, Zenon
  <2> QED
    BY <1>3, <1>7, <2>2 DEF Reach
<1> QED
  BY <1>3, <1>7, <1>10, <1>11, <1>12 DEF g

\* What the rules of authority/*.js call narrower is narrower, for every
\* obligation, grant, envelope and delegation, and for every pattern under an
\* honest one; below any other pattern it keeps to the static prefix.
THEOREM NarrowedIsAlwaysNarrower == AuthoritySpec => []NarrowedIsNarrower
<1>1. AuthorityAnswered => NarrowedIsNarrower
  BY PatternsNarrow, ObligationsNarrow, EnvelopesNarrow, DelegationsNarrow DEF NarrowedIsNarrower
<1> QED
  BY <1>1, AuthorityIsAnswered, PTL

---------------------------------------------------------------------------
(* EvidenceGraph: the search backwards                                     *)

MapsInto(F, S) == F \in [S -> S]
Iterates(F, S, a, n) == \E g \in [0 .. n -> S] : g[0] = a /\ \A k \in 1 .. n : g[k] = F[g[k - 1]]

\* A function of a set to itself can be applied again and again, and the values
\* written down.
LEMMA IterationExists ==
    ASSUME NEW S, NEW F, NEW a, NEW d, MapsInto(F, S), a \in S, d \in Nat
    PROVE  Iterates(F, S, a, d)
<1> USE DEF MapsInto, Iterates
<1> DEFINE Runs(n) == \E g \in [0 .. n -> S] : g[0] = a /\ \A k \in 1 .. n : g[k] = F[g[k - 1]]
           Bad == {n \in Nat : ~Runs(n)}
<1> SUFFICES ASSUME Bad # {} PROVE FALSE
  OBVIOUS
<1>1. PICK n \in Bad : \A m \in Bad : n <= m
  BY LeastNatural
<1>2. CASE n = 0
  <2> DEFINE g == [i \in 0 .. 0 |-> a]
  <2>1. g \in [0 .. 0 -> S] /\ g[0] = a /\ \A k \in 1 .. 0 : g[k] = F[g[k - 1]]
    OBVIOUS
  <2>2. Runs(0)
    BY <2>1
  <2> QED
    BY <1>1, <1>2, <2>2
<1>3. CASE n # 0
  <2>1. n - 1 \in Nat /\ n \in Nat /\ ~(n <= n - 1)
    BY <1>3
  <2>2. Runs(n - 1)
    BY <1>1, <2>1
  <2>3. PICK g \in [0 .. n - 1 -> S] : g[0] = a /\ \A k \in 1 .. n - 1 : g[k] = F[g[k - 1]]
    BY <2>2
  <2> DEFINE h == [i \in 0 .. n |-> IF i = n THEN F[g[n - 1]] ELSE g[i]]
  <2>4. h \in [0 .. n -> S]
    BY <2>1
  <2>5. h[0] = a
    BY <2>1, <2>3, <1>3
  <2>6. ASSUME NEW k \in 1 .. n PROVE h[k] = F[h[k - 1]]
    <3>1. k - 1 \in 0 .. n /\ k - 1 # n /\ h[k - 1] = g[k - 1]
      BY <2>1
    <3>2. CASE k = n
      BY <3>1, <3>2
    <3>3. CASE k # n
      BY <3>1, <3>3, <2>3, <2>1
    <3> QED
      BY <3>2, <3>3
  <2>7. Runs(n)
    BY <2>4, <2>5, <2>6
  <2> QED
    BY <2>7, <1>1
<1> QED
  BY <1>2, <1>3

\* One step of the search, and the search itself.
Further(graph, s) == [keep |-> s.keep \cup Behind(graph, s.frontier), frontier |-> Behind(graph, s.frontier) \ s.keep]

Searches(graph, target, d, run) ==
    /\ DOMAIN run = 0 .. d
    /\ \A i \in 0 .. d : /\ run[i] \in [keep : SUBSET graph.nodes, frontier : SUBSET graph.nodes]
                         /\ i = 0 => run[i] = [keep |-> {target}, frontier |-> {target}]
                         /\ i # 0 => run[i] = Further(graph, run[i - 1])

\* traceEvidenceGraph makes such a search.
LEMMA TraceSearches ==
    ASSUME NEW graph, NEW target \in graph.nodes, NEW d \in Nat,
           \A e \in graph.edges : e[1] \in graph.nodes
    PROVE  \E run : /\ Searches(graph, target, d, run)
                    /\ traceEvidenceGraph(graph, target, d) =
                         LET kept == run[d].keep
                             open == {u \in graph.unresolved : u.source \in kept}
                         IN [nodes |-> kept, unresolved |-> open, complete |-> open = {}]
<1> DEFINE S == [keep : SUBSET graph.nodes, frontier : SUBSET graph.nodes]
           F == [s \in S |-> Further(graph, s)]
           a == [keep |-> {target}, frontier |-> {target}]
           Value(r, i) == IF i = 0 THEN [keep |-> {target}, frontier |-> {target}]
                          ELSE [keep |-> r[i - 1].keep \cup Behind(graph, r[i - 1].frontier),
                                frontier |-> Behind(graph, r[i - 1].frontier) \ r[i - 1].keep]
           run == CHOOSE r : r = [i \in 0 .. d |-> Value(r, i)]
<1>1. \A s \in S : Further(graph, s) \in S
  BY DEF Further, Behind
<1>2. F \in [S -> S] /\ a \in S
  BY <1>1
<1>3. PICK g \in [0 .. d -> S] : g[0] = a /\ \A k \in 1 .. d : g[k] = F[g[k - 1]]
  <2>1. MapsInto(F, S) /\ a \in S
    BY <1>2 DEF MapsInto
  <2>2. Iterates(F, S, a, d)
    <3> HIDE DEF F, S, a
    <3> QED BY <2>1, IterationExists
  <2> QED BY <2>2 DEF Iterates
<1>4. \A i \in 0 .. d : g[i] = Value(g, i)
  <2> SUFFICES ASSUME NEW i \in 0 .. d PROVE g[i] = Value(g, i)
    OBVIOUS
  <2>1. CASE i = 0
    BY <2>1, <1>3
  <2>2. CASE i # 0
    <3>1. i \in 1 .. d /\ i - 1 \in 0 .. d
      BY <2>2
    <3>2. g[i] = Further(graph, g[i - 1])
      BY <3>1, <1>3
    <3> QED
      BY <3>2, <2>2 DEF Further
  <2> QED
    BY <2>1, <2>2
<1>5. g = [i \in 0 .. d |-> Value(g, i)]
  BY <1>3, <1>4
<1>6. run = [i \in 0 .. d |-> Value(run, i)]
  BY <1>5
<1>7. \A r : r = [i \in 0 .. d |-> Value(r, i)] => Searches(graph, target, d, r)
  <2> SUFFICES ASSUME NEW r, r = [i \in 0 .. d |-> Value(r, i)] PROVE Searches(graph, target, d, r)
    OBVIOUS
  <2>1. DOMAIN r = 0 .. d /\ \A i \in 0 .. d : r[i] = Value(r, i)
    OBVIOUS
  <2>2. \A i \in 0 .. d : i # 0 => r[i] = Further(graph, r[i - 1])
    BY <2>1 DEF Further
  <2>3. r[0] = a
    BY <2>1
  <2>4. \A i \in 0 .. d : r[i] = g[i]
    <3> DEFINE Bad == {i \in 0 .. d : r[i] # g[i]}
    <3> SUFFICES ASSUME Bad # {} PROVE FALSE
      OBVIOUS
    <3>1. PICK n \in Bad : \A m \in Bad : n <= m
      <4>1. Bad \in SUBSET Nat
        OBVIOUS
      <4> QED BY <4>1, LeastNatural
    <3>2. n \in 1 .. d /\ n - 1 \in 0 .. d /\ n # 0
      BY <3>1, <2>3, <1>3
    <3>3. r[n - 1] = g[n - 1]
      <4>1. ~(n <= n - 1)
        BY <3>2
      <4> QED BY <3>1, <3>2, <4>1
    <3>4. r[n] = Further(graph, r[n - 1]) /\ g[n] = Further(graph, g[n - 1])
      BY <3>2, <2>2, <1>3
    <3> QED
      BY <3>1, <3>3, <3>4
  <2>5. \A i \in 0 .. d : r[i] \in S
    BY <2>4, <1>3
  <2> QED
    BY <2>1, <2>2, <2>3, <2>5 DEF Searches
<1>8. traceEvidenceGraph(graph, target, d) =
         LET kept == run[d].keep
             open == {u \in graph.unresolved : u.source \in kept}
         IN [nodes |-> kept, unresolved |-> open, complete |-> open = {}]
  BY DEF traceEvidenceGraph
<1>9. Searches(graph, target, d, run)
  <2> HIDE DEF run, Value
  <2> QED BY <1>6, <1>7
<1> HIDE DEF run
<1> QED
  BY <1>8, <1>9

\* A node that the search has kept and whose predecessors it has not is in the
\* frontier, which is as deep as the steps taken.
LEMMA SearchGoesOn ==
    ASSUME NEW graph, NEW target, NEW d \in Nat, NEW run, Searches(graph, target, d, run),
           NEW rank, \A n \in graph.nodes : rank[n] \in 0 .. d - 1, Ranks(graph, rank),
           \A e \in graph.edges : e[1] \in graph.nodes /\ e[2] \in graph.nodes,
           NEW i \in 0 .. d
    PROVE  /\ \A e \in graph.edges : e[2] \in run[i].keep => e[1] \in run[i].keep \/ e[2] \in run[i].frontier
           /\ \A n \in run[i].frontier : rank[n] + i <= d - 1
           /\ target \in run[i].keep
<1> DEFINE Goes(k) == /\ \A e \in graph.edges : e[2] \in run[k].keep => e[1] \in run[k].keep \/ e[2] \in run[k].frontier
                      /\ \A n \in run[k].frontier : rank[n] + k <= d - 1
                      /\ target \in run[k].keep
           Bad == {k \in 0 .. d : ~Goes(k)}
<1> SUFFICES ASSUME Bad # {} PROVE FALSE
  OBVIOUS
<1>1. PICK k \in Bad : \A m \in Bad : k <= m
  <2>1. Bad \in SUBSET Nat
    OBVIOUS
  <2> HIDE DEF Bad
  <2> QED BY <2>1, LeastNatural
<1>2. CASE k = 0
  <2>1. run[0] = [keep |-> {target}, frontier |-> {target}] /\ target \in graph.nodes
    BY DEF Searches
  <2>2. rank[target] + 0 <= d - 1
    BY <2>1
  <2>3. Goes(0)
    BY <2>1, <2>2
  <2> QED
    BY <1>1, <1>2, <2>3
<1>3. CASE k # 0
  <2> DEFINE j == k - 1
  <2>1. j \in 0 .. d /\ ~(k <= j) /\ k = j + 1 /\ j \in Int /\ k \in 0 .. d /\ k \in Int
    BY <1>1, <1>3
  <2>2. Goes(j)
    BY <1>1, <2>1
  <2>3. /\ run[k].keep = run[j].keep \cup Behind(graph, run[j].frontier)
        /\ run[k].frontier = Behind(graph, run[j].frontier) \ run[j].keep
        /\ run[j].frontier \subseteq graph.nodes
    BY <2>1, <1>3 DEF Searches, Further
  <2> HIDE DEF j
  <2>4. ASSUME NEW e \in graph.edges, e[2] \in run[k].keep
        PROVE  e[1] \in run[k].keep \/ e[2] \in run[k].frontier
    <3>1. CASE e[2] \in run[j].keep
      <4>1. CASE e[1] \in run[j].keep
        BY <4>1, <2>3
      <4>2. CASE e[2] \in run[j].frontier
        BY <4>2, <2>3 DEF Behind
      <4> QED
        BY <4>1, <4>2, <3>1, <2>2
    <3>2. CASE e[2] \notin run[j].keep
      BY <3>2, <2>3, <2>4
    <3> QED
      BY <3>1, <3>2
  <2>5. ASSUME NEW n \in run[k].frontier PROVE rank[n] + k <= d - 1
    <3>1. PICK e \in graph.edges : e[2] \in run[j].frontier /\ n = e[1]
      BY <2>3 DEF Behind
    <3>2. rank[e[1]] < rank[e[2]] /\ rank[e[2]] + j <= d - 1
      BY <3>1, <2>2 DEF Ranks
    <3>3. rank[e[1]] \in Int /\ rank[e[2]] \in Int
      BY <3>1
    <3> QED
      BY <3>1, <3>2, <3>3, <2>1
  <2>6. target \in run[k].keep
    BY <2>2, <2>3
  <2>7. Goes(k)
    BY <2>4, <2>5, <2>6
  <2> QED
    BY <2>7, <1>1
<1> QED
  BY <1>2, <1>3

\* So in a graph without longer chains the search keeps everything behind the target.
LEMMA SearchIsClosed ==
    ASSUME NEW graph, NEW target, NEW d \in Nat, NEW run, Searches(graph, target, d, run),
           NEW rank, \A n \in graph.nodes : rank[n] \in 0 .. d - 1, Ranks(graph, rank),
           \A e \in graph.edges : e[1] \in graph.nodes /\ e[2] \in graph.nodes
    PROVE  /\ target \in run[d].keep
           /\ \A e \in graph.edges : e[2] \in run[d].keep => e[1] \in run[d].keep
<1>1. d \in 0 .. d
  OBVIOUS
<1>2. /\ \A e \in graph.edges : e[2] \in run[d].keep => e[1] \in run[d].keep \/ e[2] \in run[d].frontier
      /\ \A n \in run[d].frontier : rank[n] + d <= d - 1
      /\ target \in run[d].keep
  BY <1>1, SearchGoesOn
<1>3. \A n \in run[d].frontier : n \in graph.nodes /\ rank[n] \in 0 .. d - 1
  BY <1>1 DEF Searches
<1>4. run[d].frontier = {}
  BY <1>2, <1>3
<1> QED
  BY <1>2, <1>4

---------------------------------------------------------------------------
(* The graph                                                               *)

\* The parts of the graph.
LEMMA GraphParts ==
    ASSUME NEW docs, NEW events
    PROVE  LET graph == buildEvidenceGraph(docs, events) IN
           /\ graph.nodes = NodesOf(docs) \cup {EventNode(i) : i \in DOMAIN events}
                             \cup {n \in {AdapterNode} : EffectsOf(docs) # {}}
           /\ graph.edges = AuthorityEdges(docs) \cup EventEdges(NodesOf(docs), events) \cup AdapterEdges(NodesOf(docs), docs)
           /\ graph.unresolved = MissingSources(docs) \cup MissingOfEvents(NodesOf(docs), events)
                                  \cup ConsumedWithoutEffect(docs, events)
<1> DEFINE authority == buildAuthorityGraph(docs)
           graph == buildEvidenceGraph(docs, events)
<1>1. authority.nodes = NodesOf(docs) /\ authority.edges = AuthorityEdges(docs) /\ authority.unresolved = MissingSources(docs)
  BY DEF buildAuthorityGraph
<1>2. graph = [nodes |-> authority.nodes \cup {EventNode(i) : i \in DOMAIN events} \cup {n \in {AdapterNode} : EffectsOf(docs) # {}},
               edges |-> authority.edges \cup EventEdges(authority.nodes, events) \cup AdapterEdges(authority.nodes, docs),
               unresolved |-> authority.unresolved \cup MissingOfEvents(authority.nodes, events)
                              \cup ConsumedWithoutEffect(docs, events)]
  BY Zenon DEF buildEvidenceGraph
<1> HIDE DEF authority, graph
<1> QED
  BY <1>1, <1>2 DEF graph

\* Every relation of the graph, and everything unresolved, is of a node in it.
LEMMA GraphIsValid ==
    ASSUME NEW docs, NEW events
    PROVE  validateEvidenceGraph(buildEvidenceGraph(docs, events))
<1> DEFINE graph == buildEvidenceGraph(docs, events)
<1>1. /\ graph.nodes = NodesOf(docs) \cup {EventNode(i) : i \in DOMAIN events} \cup {n \in {AdapterNode} : EffectsOf(docs) # {}}
      /\ graph.edges = AuthorityEdges(docs) \cup EventEdges(NodesOf(docs), events) \cup AdapterEdges(NodesOf(docs), docs)
      /\ graph.unresolved = MissingSources(docs) \cup MissingOfEvents(NodesOf(docs), events) \cup ConsumedWithoutEffect(docs, events)
  BY GraphParts
<1> HIDE DEF graph
<1>2. \A d \in docs : d.node \in NodesOf(docs)
  BY DEF NodesOf
<1>3. EffectsOf(docs) \subseteq docs
  BY DEF EffectsOf
<1>4. ASSUME NEW e \in AuthorityEdges(docs) PROVE e[1] \in graph.nodes /\ e[2] \in graph.nodes
  BY <1>1, <1>2 DEF AuthorityEdges
<1>5. ASSUME NEW e \in EventEdges(NodesOf(docs), events) PROVE e[1] \in graph.nodes /\ e[2] \in graph.nodes
  BY <1>1 DEF EventEdges
<1>6. ASSUME NEW e \in AdapterEdges(NodesOf(docs), docs) PROVE e[1] \in graph.nodes /\ e[2] \in graph.nodes
  BY <1>1, <1>2, <1>3 DEF AdapterEdges
<1>7. ASSUME NEW u \in MissingSources(docs) PROVE u.source \in graph.nodes
  BY <1>1, <1>2 DEF MissingSources
<1>8. ASSUME NEW u \in MissingOfEvents(NodesOf(docs), events) PROVE u.source \in graph.nodes
  BY <1>1 DEF MissingOfEvents
<1>9. ASSUME NEW u \in ConsumedWithoutEffect(docs, events) PROVE u.source \in graph.nodes
  BY <1>1 DEF ConsumedWithoutEffect
<1>10. \A e \in graph.edges : e[1] \in graph.nodes /\ e[2] \in graph.nodes
  <2>1. \A e \in graph.edges :
           e \in AuthorityEdges(docs) \/ e \in EventEdges(NodesOf(docs), events) \/ e \in AdapterEdges(NodesOf(docs), docs)
    BY <1>1
  <2> QED
    BY <2>1, <1>4, <1>5, <1>6
<1>11. \A u \in graph.unresolved : u.source \in graph.nodes
  <2>1. \A u \in graph.unresolved : \/ u \in MissingSources(docs) \/ u \in MissingOfEvents(NodesOf(docs), events)
                                     \/ u \in ConsumedWithoutEffect(docs, events)
    BY <1>1
  <2> QED
    BY <2>1, <1>7, <1>8, <1>9
<1> QED
  BY <1>10, <1>11 DEF validateEvidenceGraph, graph

TraceAnswer ==
    LET graph == buildEvidenceGraph(given.docs, given.events) IN
    [valid |-> ~Conflicting(given.docs) /\ validateEvidenceGraph(graph),
     trace |-> traceEvidenceGraph(graph, given.target, MaxDepthOfTrace)]

TraceAnswered == part = "trace" /\ given \in TraceAsked /\ answers \in {<<>>, <<TraceAnswer>>}

\* What is in answers is the trace of what is given.
LEMMA TraceIsAnswered == TraceSpec => []TraceAnswered
<1>1. Ask("trace", TraceAsked) => TraceAnswered
  BY DEF Ask, TraceAnswered
<1>2. TraceAnswered /\ [AskTrace]_caseVars => TraceAnswered'
  <2> SUFFICES ASSUME TraceAnswered, [AskTrace]_caseVars PROVE TraceAnswered'
    OBVIOUS
  <2>0. ASSUME given' = given PROVE TraceAnswer' = TraceAnswer
    BY <2>0 DEF TraceAnswer
  <2>1. CASE AskTrace
    <3>1. part = "trace" /\ answers' = <<TraceAnswer>> /\ part' = part /\ given' = given
      BY <2>1, Zenon DEF AskTrace, Answer, TraceAnswer
    <3> QED BY <2>0, <3>1, Zenon DEF TraceAnswered
  <2>2. CASE UNCHANGED caseVars
    <3>1. part' = part /\ given' = given /\ answers' = answers
      BY <2>2 DEF caseVars
    <3> QED BY <2>0, <3>1 DEF TraceAnswered
  <2> QED BY <2>1, <2>2
<1> QED BY <1>1, <1>2, PTL DEF TraceSpec

\* The trace, and the set of nodes it keeps.
LEMMA TraceKeeps ==
    ASSUME given \in TraceAsked
    PROVE  LET graph == buildEvidenceGraph(given.docs, given.events) IN
           \E kept : /\ given.target \in kept
                     /\ \A e \in graph.edges : e[2] \in kept => e[1] \in kept
                     /\ TraceAnswer.trace.complete <=> \A u \in graph.unresolved : u.source \notin kept
<1> DEFINE graph == buildEvidenceGraph(given.docs, given.events)
           open(kept) == {u \in graph.unresolved : u.source \in kept}
<1>1. given.target \in NodesOf(given.docs) /\ Shallow(graph)
  BY DEF TraceAsked
<1>2. given.target \in graph.nodes
  BY <1>1, GraphParts
<1>3. PICK rank \in [graph.nodes -> 0 .. 16 - 1] : Ranks(graph, rank)
  BY <1>1 DEF Shallow, MaxDepthOfTrace
<1>4. \A e \in graph.edges : e[1] \in graph.nodes /\ e[2] \in graph.nodes
  BY GraphIsValid DEF validateEvidenceGraph
<1>5. TraceAnswer.trace = traceEvidenceGraph(graph, given.target, 16)
  BY DEF TraceAnswer, MaxDepthOfTrace
<1> HIDE DEF graph
<1>6. PICK run : /\ Searches(graph, given.target, 16, run)
                 /\ traceEvidenceGraph(graph, given.target, 16) =
                       [nodes |-> run[16].keep, unresolved |-> open(run[16].keep), complete |-> open(run[16].keep) = {}]
  BY <1>2, <1>4, TraceSearches
<1>7. /\ given.target \in run[16].keep
      /\ \A e \in graph.edges : e[2] \in run[16].keep => e[1] \in run[16].keep
  BY <1>3, <1>4, <1>6, SearchIsClosed
<1>8. TraceAnswer.trace.complete = (open(run[16].keep) = {})
  <2> HIDE DEF open
  <2> QED BY <1>5, <1>6
<1> QED
  BY <1>7, <1>8 DEF graph

\* A complete trace holds all that is behind its target.
LEMMA CompleteTrace == ASSUME TraceAnswered PROVE CompleteIsComplete
<1> SUFFICES ASSUME Answered("trace"), answer.trace.complete
             PROVE  \E S \in SUBSET given.docs :
                       /\ given.target \in {d.node : d \in S}
                       /\ \A d \in S : d.names \subseteq {c.node : c \in S}
                       /\ \A d \in S, i \in DOMAIN given.events :
                             d.node = given.events[i].consumed =>
                                \E e \in given.docs : e.node[1] = "effect" /\ d.node \in e.names
  BY Zenon DEF CompleteIsComplete
<1> given \in TraceAsked /\ TraceAnswer.trace.complete
  BY DEF TraceAnswered, Answered, answer
<1> DEFINE docs == given.docs
           events == given.events
           graph == buildEvidenceGraph(docs, events)
<1>1. PICK kept : /\ given.target \in kept
                  /\ \A e \in graph.edges : e[2] \in kept => e[1] \in kept
                  /\ \A u \in graph.unresolved : u.source \notin kept
  BY TraceKeeps
<1>2. given.target \in NodesOf(docs)
  BY DEF TraceAsked
<1>3. \A d \in docs : \A n \in d.names \cap NodesOf(docs) : <<n, d.node>> \in graph.edges
  BY GraphParts DEF AuthorityEdges
<1>4. MissingSources(docs) \cup ConsumedWithoutEffect(docs, events) \subseteq graph.unresolved
  BY GraphParts
<1> HIDE DEF graph
<1> DEFINE S == {d \in docs : d.node \in kept}
<1>5. given.target \in {d.node : d \in S}
  BY <1>1, <1>2 DEF NodesOf
<1>6. ASSUME NEW d \in S PROVE d.names \subseteq {c.node : c \in S}
  <2> SUFFICES ASSUME NEW n \in d.names PROVE n \in {c.node : c \in S}
    OBVIOUS
  <2>1. CASE n \in NodesOf(docs)
    <3>1. <<n, d.node>> \in graph.edges
      BY <2>1, <1>3
    <3>2. n \in kept
      BY <3>1, <1>1
    <3> QED
      BY <2>1, <3>2 DEF NodesOf
  <2>2. CASE n \notin NodesOf(docs)
    <3>1. [source |-> d.node, target |-> n] \in MissingSources(docs)
      BY <2>2 DEF MissingSources
    <3>2. [source |-> d.node, target |-> n].source \notin kept
      BY <3>1, <1>1, <1>4
    <3> QED
      BY <3>2
  <2> QED
    BY <2>1, <2>2
<1>7. ASSUME NEW d \in S, NEW i \in DOMAIN events, d.node = events[i].consumed
      PROVE  \E e \in docs : e.node[1] = "effect" /\ d.node \in e.names
  <2>1. CASE d.node \in UNION {LeasesOf(e) : e \in EffectsOf(docs)}
    BY <2>1 DEF LeasesOf, EffectsOf
  <2>2. CASE d.node \notin UNION {LeasesOf(e) : e \in EffectsOf(docs)}
    <3>1. d.node \in ({events[j].consumed : j \in DOMAIN events} \cap NodesOf(docs)) \ UNION {LeasesOf(e) : e \in EffectsOf(docs)}
      BY <2>2, <1>7 DEF NodesOf
    <3>2. [source |-> d.node, target |-> <<"effect", d.node[2]>>] \in ConsumedWithoutEffect(docs, events)
      BY <3>1 DEF ConsumedWithoutEffect
    <3>3. [source |-> d.node, target |-> <<"effect", d.node[2]>>].source \notin kept
      BY <3>2, <1>1, <1>4
    <3> QED
      BY <3>3
  <2> QED
    BY <2>1, <2>2
<1> QED
  BY <1>5, <1>6, <1>7

\* A workspace that lost nothing leaves nothing unresolved.
LEMMA WholeTrace == ASSUME TraceAnswered PROVE WholeIsComplete
<1> DEFINE docs == given.docs
           events == given.events
           graph == buildEvidenceGraph(docs, events)
           whole == /\ \A d \in docs : d.names \subseteq {c.node : c \in docs}
                    /\ \A i \in DOMAIN events :
                          /\ events[i].names \subseteq {c.node : c \in docs}
                          /\ events[i].consumed[1] = "lease" =>
                                \E e \in docs : e.node[1] = "effect" /\ events[i].consumed \in e.names
<1> SUFFICES ASSUME given \in TraceAsked, \A c, d \in docs : c.node = d.node => c = d
             PROVE  TraceAnswer.valid /\ (whole => TraceAnswer.trace.complete)
  BY DEF TraceAnswered, WholeIsComplete, Answered, answer
<1>1. TraceAnswer.valid
  BY GraphIsValid DEF TraceAnswer, Conflicting
<1>2. ASSUME whole PROVE graph.unresolved = {}
  <2>1. graph.unresolved = MissingSources(docs) \cup MissingOfEvents(NodesOf(docs), events) \cup ConsumedWithoutEffect(docs, events)
    BY GraphParts
  <2> HIDE DEF graph
  <2>2. MissingSources(docs) = {}
    BY <1>2 DEF MissingSources, NodesOf
  <2>3. MissingOfEvents(NodesOf(docs), events) = {}
    BY <1>2 DEF MissingOfEvents, NodesOf
  <2>4. ConsumedWithoutEffect(docs, events) = {}
    <3> SUFFICES ASSUME NEW i \in DOMAIN events, events[i].consumed \in NodesOf(docs)
                 PROVE  events[i].consumed \in UNION {LeasesOf(e) : e \in EffectsOf(docs)}
      BY DEF ConsumedWithoutEffect
    <3>1. docs \in SUBSET Documents /\ events \in Seq(EventRecords)
      BY DEF TraceAsked
    <3>2. events[i] \in EventRecords
      BY <3>1
    <3>3. events[i].consumed[1] \in {"lease", "none"}
      BY <3>2 DEF EventRecords
    <3>4. PICK d \in docs : d.node = events[i].consumed
      BY DEF NodesOf
    <3>5. d.node[1] \in DocumentKinds
      BY <3>1, <3>4 DEF Documents, DocumentNodes
    <3>6. events[i].consumed[1] = "lease"
      BY <3>3, <3>4, <3>5 DEF DocumentKinds
    <3>7. PICK e \in docs : e.node[1] = "effect" /\ events[i].consumed \in e.names
      BY <1>2, <3>6
    <3> QED
      BY <3>6, <3>7 DEF EffectsOf, LeasesOf
  <2> QED
    BY <2>1, <2>2, <2>3, <2>4
<1>3. ASSUME whole PROVE TraceAnswer.trace.complete
  BY <1>2, <1>3, TraceKeeps
<1> QED
  BY <1>1, <1>3

\* For every workspace and every document in it: a trace of a graph that could
\* be built and that calls itself complete leaves nothing out, and a workspace
\* that lost nothing, with one version of each document, has a graph and
\* complete traces (evidence/graph.js).
THEOREM TracesAreAlwaysComplete == TraceSpec => []TracesAreComplete
<1>1. TraceAnswered => TracesAreComplete
  BY CompleteTrace, WholeTrace DEF TracesAreComplete
<1> QED
  BY <1>1, TraceIsAnswered, PTL

---------------------------------------------------------------------------
(* EvidenceBundle: the answers                                             *)

CheckpointAnswer ==
    LET cp == buildEvidenceCheckpoint(given.log, given.policyFile, given.secret) IN
    verifyEvidenceCheckpoint(cp, given.later.log, given.later.policyFile, given.secret, given.required)

Built == createEvidenceBundle(given.profile, given.ws, given.secret)

BundleAnswer ==
    [names |-> NamesOf(Built),
     untouched |-> given.found = Built,
     same |-> given.found.meta = Built.meta /\ EntriesOf(given.found) = EntriesOf(Built),
     ok |-> verifyEvidenceBundleBuffer(given.found, given.secret, given.required)]

ExportAnswered ==
    \/ part = "checkpoint" /\ given \in CheckpointAsked /\ answers \in {<<>>, <<CheckpointAnswer>>}
    \/ part = "bundle" /\ given \in BundleAsked /\ answers \in {<<>>, <<BundleAnswer>>}

\* What is in answers is what the procedures say of what is given.
LEMMA ExportIsAnswered == BundleSpec => []ExportAnswered
<1>1. Ask("checkpoint", CheckpointAsked) \/ Ask("bundle", BundleAsked) => ExportAnswered
  BY DEF Ask, ExportAnswered
<1>2. ExportAnswered /\ [AskCheckpoint \/ AskBundle]_caseVars => ExportAnswered'
  <2> SUFFICES ASSUME ExportAnswered, [AskCheckpoint \/ AskBundle]_caseVars PROVE ExportAnswered'
    OBVIOUS
  <2>0. ASSUME given' = given PROVE CheckpointAnswer' = CheckpointAnswer /\ BundleAnswer' = BundleAnswer
    BY <2>0 DEF CheckpointAnswer, BundleAnswer, Built
  <2>1. CASE AskCheckpoint
    <3>1. part = "checkpoint" /\ answers' = <<CheckpointAnswer>> /\ part' = part /\ given' = given
      BY <2>1, Zenon DEF AskCheckpoint, Answer, CheckpointAnswer
    <3> QED BY <2>0, <3>1, Zenon DEF ExportAnswered
  <2>2. CASE AskBundle
    <3>1. part = "bundle" /\ answers' = <<BundleAnswer>> /\ part' = part /\ given' = given
      BY <2>2, Zenon DEF AskBundle, Answer, BundleAnswer, Built
    <3> QED BY <2>0, <3>1, Zenon DEF ExportAnswered
  <2>3. CASE UNCHANGED caseVars
    <3>1. part' = part /\ given' = given /\ answers' = answers
      BY <2>3 DEF caseVars
    <3> QED BY <2>0, <3>1 DEF ExportAnswered
  <2> QED BY <2>1, <2>2, <2>3
<1> QED BY <1>1, <1>2, PTL DEF BundleSpec

\* A checkpoint fits one log and one policy.
LEMMA CheckpointFits == ASSUME ExportAnswered PROVE CheckpointPins
<1> SUFFICES ASSUME Answered("checkpoint"), answer
             PROVE  given.later = [log |-> given.log, policyFile |-> given.policyFile] /\ given.log.chained
  BY Zenon DEF CheckpointPins
<1>1. given \in CheckpointAsked /\ CheckpointAnswer
  BY DEF ExportAnswered, Answered, answer
<1>2. given.later \in [log : LogRecords, policyFile : Nat]
  BY <1>1 DEF CheckpointAsked
<1>3. /\ given.later.log.chained
      /\ given.log = given.later.log
      /\ given.policyFile = given.later.policyFile
  BY <1>1 DEF CheckpointAnswer, verifyEvidenceCheckpoint, buildEvidenceCheckpoint, CheckpointPayload
<1>4. given.later = [log |-> given.later.log, policyFile |-> given.later.policyFile]
  BY <1>2
<1> QED
  BY <1>3, <1>4

---------------------------------------------------------------------------
(* The exported bundle                                                     *)

ExportNames == Exported(given.profile, given.ws)
Files == [n \in ExportNames |-> ContentOf(n, given.ws)]
Manifest == buildEvidenceBundleMetadata(given.profile, Files, given.ws, given.secret)

\* The exported bundle: an entry for each file, at the place of its name.
LEMMA BuiltIs ==
    /\ Built.entries = [n \in ExportNames |-> [name |-> n, data |-> ContentOf(n, given.ws)]]
    /\ Built.meta = Manifest
    /\ NamesOf(Built) = ExportNames
    /\ \A n \in ExportNames : DataOf(Built, n) = ContentOf(n, given.ws)
<1>1. Built = [entries |-> [n \in DOMAIN Files |-> [name |-> n, data |-> Files[n]]], meta |-> Manifest]
  BY Zenon DEF createEvidenceBundle, Built, Manifest, Files, ExportNames
<1>2. Built.meta = Manifest
  BY <1>1
<1>3. Built.entries = [n \in DOMAIN Files |-> [name |-> n, data |-> Files[n]]]
  BY <1>1
<1>4. Built.entries = [n \in ExportNames |-> [name |-> n, data |-> ContentOf(n, given.ws)]]
  BY <1>3 DEF Files
<1>5. NamesOf(Built) = ExportNames
  BY <1>4 DEF NamesOf
<1>6. ASSUME NEW n \in ExportNames PROVE DataOf(Built, n) = ContentOf(n, given.ws)
  BY <1>4 DEF DataOf
<1> QED
  BY <1>2, <1>4, <1>5, <1>6

BodyNames == {"profile", "files", "privacy", "source", "graphs", "chain", "graphCheck"}

\* Its manifest, field by field.
LEMMA ManifestIs ==
    /\ Manifest = [k \in BodyNames \cup {"id", "signature"} |-> Manifest[k]]
    /\ Manifest.profile = given.profile /\ Manifest.files = Files /\ Manifest.privacy = Privacy(ExportNames)
    /\ Manifest.source = [digest |-> given.ws.first, count |-> Len(given.ws.second.events),
                          last |-> LastHash(given.ws.second.events), raw |-> given.profile # "minimal"]
    /\ Manifest.graphs = given.ws.second
    /\ Manifest.chain = (IF given.profile # "minimal" THEN "reverify" ELSE "at_export")
    /\ Manifest.graphCheck = (IF given.profile = "minimal" THEN "at_export" ELSE "reverify")
    /\ Manifest.id = Semantic(Manifest) /\ Manifest.signature = Sign(SignedPart(Manifest), given.secret)
<1> DEFINE meta == Manifest
           profile == given.profile
           ws == given.ws
           body == [profile |-> profile, files |-> Files, privacy |-> Privacy(DOMAIN Files),
                    source |-> [digest |-> ws.first, count |-> Len(ws.second.events),
                                last |-> LastHash(ws.second.events), raw |-> profile # "minimal"],
                    graphs |-> ws.second,
                    chain |-> IF profile # "minimal" THEN "reverify" ELSE "at_export",
                    graphCheck |-> IF profile = "minimal" THEN "at_export" ELSE "reverify"]
           named == [k \in DOMAIN body \cup {"id"} |-> IF k = "id" THEN body ELSE body[k]]
<1>0. DOMAIN Files = ExportNames
  BY DEF Files
<1>1. meta = [k \in DOMAIN named \cup {"signature"} |-> IF k = "signature" THEN Sign(named, given.secret) ELSE named[k]]
  BY Zenon DEF buildEvidenceBundleMetadata, Manifest
<1>2. DOMAIN body = BodyNames /\ body = [k \in BodyNames |-> body[k]]
  BY DEF BodyNames
<1>3. /\ body.profile = profile /\ body.files = Files /\ body.privacy = Privacy(DOMAIN Files)
      /\ body.source = [digest |-> ws.first, count |-> Len(ws.second.events), last |-> LastHash(ws.second.events),
                        raw |-> profile # "minimal"]
      /\ body.graphs = ws.second
      /\ body.chain = (IF profile # "minimal" THEN "reverify" ELSE "at_export")
      /\ body.graphCheck = (IF profile = "minimal" THEN "at_export" ELSE "reverify")
  OBVIOUS
<1> HIDE DEF meta, body
<1>4. DOMAIN named = BodyNames \cup {"id"} /\ named.id = body /\ \A k \in BodyNames : named[k] = body[k]
  BY <1>2 DEF BodyNames
<1>5. named = [k \in BodyNames \cup {"id"} |-> named[k]]
  BY <1>2
<1> HIDE DEF named
<1>6. /\ DOMAIN meta = BodyNames \cup {"id", "signature"} /\ meta = [k \in BodyNames \cup {"id", "signature"} |-> meta[k]]
      /\ meta.signature = Sign(named, given.secret) /\ meta.id = body
      /\ \A k \in BodyNames : meta[k] = body[k]
      /\ \A k \in BodyNames \cup {"id"} : meta[k] = named[k]
  BY <1>1, <1>4 DEF BodyNames
<1>7. Semantic(meta) = [k \in BodyNames |-> meta[k]]
  BY <1>6 DEF Semantic, BodyNames
<1>8. Semantic(meta) = body
  BY <1>2, <1>6, <1>7
<1>9. SignedPart(meta) = [k \in BodyNames \cup {"id"} |-> meta[k]]
  BY <1>6 DEF SignedPart, BodyNames
<1>10. SignedPart(meta) = named
  BY <1>5, <1>6, <1>9
<1>11. /\ meta.profile = body.profile /\ meta.files = body.files /\ meta.privacy = body.privacy /\ meta.source = body.source
       /\ meta.graphs = body.graphs /\ meta.chain = body.chain /\ meta.graphCheck = body.graphCheck
  BY <1>6 DEF BodyNames
<1> QED
  BY <1>0, <1>3, <1>6, <1>8, <1>10, <1>11 DEF meta

\* What a question about a bundle is.
LEMMA BundleQuestion ==
    ASSUME given \in BundleAsked
    PROVE  /\ given.profile \in {"minimal", "operational", "forensic_local"} /\ given.ws \in WorkspaceRecords
           /\ given.secret \in Nat /\ given.required \in BOOLEAN /\ given.found \in Archives
           /\ Grows(given.ws) /\ Unforged(given.found, Built, given.secret)
BY DEF BundleAsked, Built

\* The files an export has, of each profile.
LEMMA ExportedFiles ==
    ASSUME given.ws \in WorkspaceRecords
    PROVE  /\ "timeline" \in ExportNames /\ "unsafe" \notin ExportNames
           /\ "evidence" \in ExportNames <=> given.profile # "minimal"
           /\ "summary" \in ExportNames <=> given.profile = "minimal"
           /\ "authority-graph" \in ExportNames <=> given.profile # "minimal"
           /\ "evidence-graph" \in ExportNames <=> given.profile # "minimal"
           /\ given.profile # "forensic_local" => ExportNames \cap StateFiles = {}
BY DEF ExportNames, Exported, WorkspaceRecords, StateFiles

\* What the files hold.
LEMMA FileContents ==
    ASSUME NEW ws
    PROVE  /\ ContentOf("authority-graph", ws) = [of |-> "authority-graph", log |-> ws.second]
           /\ ContentOf("evidence-graph", ws) = [of |-> "evidence-graph", log |-> ws.second]
           /\ ContentOf("summary", ws) = [of |-> "summary", log |-> ws.second]
           /\ ContentOf("timeline", ws).log = ws.second /\ ContentOf("evidence", ws).log = ws.first
<1>1. /\ ContentOf("timeline", ws) = [of |-> "timeline", log |-> ws.second]
      /\ ContentOf("evidence", ws) = [of |-> "evidence", log |-> ws.first]
  BY DEF ContentOf
<1>2. /\ ContentOf("authority-graph", ws) = [of |-> "authority-graph", log |-> ws.second]
      /\ ContentOf("evidence-graph", ws) = [of |-> "evidence-graph", log |-> ws.second]
      /\ ContentOf("summary", ws) = [of |-> "summary", log |-> ws.second]
  BY DEF ContentOf
<1> QED
  BY <1>1, <1>2

\* A bundle takes no more than its profile allows.
LEMMA ExportKeepsPrivate == ASSUME ExportAnswered PROVE ProfileKeepsPrivate
<1> SUFFICES ASSUME Answered("bundle")
             PROVE  /\ given.profile # "forensic_local" => answer.names \cap StateFiles = {}
                    /\ given.profile = "minimal" => "evidence" \notin answer.names
  BY Zenon DEF ProfileKeepsPrivate, StateFiles
<1>1. given \in BundleAsked /\ answer = BundleAnswer
  BY DEF ExportAnswered, Answered, answer
<1>2. answer.names = ExportNames
  BY <1>1, BuiltIs DEF BundleAnswer
<1> QED
  BY <1>1, <1>2, BundleQuestion, ExportedFiles

\* An export of one state of the log verifies.
LEMMA ExportIsVerified == ASSUME ExportAnswered PROVE ExportVerifies
<1> SUFFICES ASSUME Answered("bundle"), answer.untouched, given.ws.first = given.ws.second, given.required => given.secret # 0
             PROVE  answer.ok
  BY Zenon DEF ExportVerifies
<1>1. given \in BundleAsked /\ answer = BundleAnswer
  BY DEF ExportAnswered, Answered, answer
<1>2. given.found = Built
  BY <1>1 DEF BundleAnswer
<1> DEFINE profile == given.profile
           ws == given.ws
<1>3. SUFFICES verifyEvidenceBundleBuffer(Built, given.secret, given.required)
  BY <1>1, <1>2 DEF BundleAnswer
<1>4. /\ profile \in {"minimal", "operational", "forensic_local"} /\ ws \in WorkspaceRecords /\ Grows(ws)
      /\ given.required \in BOOLEAN
  BY <1>1, BundleQuestion
<1>5. DOMAIN Files = ExportNames /\ \A n \in ExportNames : Files[n] = ContentOf(n, ws)
  BY DEF Files
<1>10. ws.first.chained /\ given.ws.first = given.ws.second
  BY <1>4 DEF Grows
<1>11. parseStoredZip(Built)
  BY BuiltIs, <1>4, ExportedFiles DEF parseStoredZip
<1>12. DeclaredFilesMatch(Built)
  BY BuiltIs, ManifestIs, <1>5 DEF DeclaredFilesMatch
<1>13. GraphsVerify(Built)
  <2>1. Built.meta.graphs = ws.second /\ (Built.meta.graphCheck = "reverify" <=> profile # "minimal")
    BY BuiltIs, ManifestIs
  <2>2. CASE profile = "minimal"
    <3>1. "summary" \in ExportNames /\ "authority-graph" \notin ExportNames /\ "evidence-graph" \notin ExportNames
      BY <2>2, <1>4, ExportedFiles
    <3>2. DataOf(Built, "summary") = [of |-> "summary", log |-> Built.meta.graphs]
      BY <2>1, <3>1, BuiltIs, FileContents
    <3> QED
      BY <2>1, <2>2, <3>1, <3>2, BuiltIs DEF GraphsVerify
  <2>3. CASE profile # "minimal"
    <3>1. "authority-graph" \in ExportNames /\ "evidence-graph" \in ExportNames
      BY <2>3, <1>4, ExportedFiles
    <3>2. DataOf(Built, "authority-graph") = ContentOf("authority-graph", ws)
      BY <3>1, BuiltIs
    <3>3. DataOf(Built, "evidence-graph") = ContentOf("evidence-graph", ws)
      BY <3>1, BuiltIs
    <3>4. \A g \in {"authority-graph", "evidence-graph"} :
             g \in NamesOf(Built) /\ DataOf(Built, g) = [of |-> g, log |-> Built.meta.graphs]
      BY <2>1, <3>1, <3>2, <3>3, BuiltIs, FileContents
    <3> QED
      BY <2>1, <2>3, <3>4 DEF GraphsVerify
  <2> QED
    BY <2>2, <2>3
<1>14. SourceVerifies(Built)
  <2>1. /\ Built.meta.source.digest = ws.first /\ Built.meta.source.count = Len(ws.second.events)
        /\ Built.meta.source.last = LastHash(ws.second.events) /\ Built.meta.source.raw = (profile # "minimal")
    BY BuiltIs, ManifestIs
  <2>2. Built.meta.source.raw <=> profile # "minimal"
    BY <2>1
  <2>3. "evidence" \in NamesOf(Built) <=> profile # "minimal"
    BY <1>4, BuiltIs, ExportedFiles
  <2>4. profile # "minimal" => DataOf(Built, "evidence").log = ws.first
    <3> SUFFICES ASSUME profile # "minimal" PROVE DataOf(Built, "evidence").log = ws.first
      OBVIOUS
    <3>1. DataOf(Built, "evidence") = ContentOf("evidence", ws)
      BY <2>3, BuiltIs
    <3> QED
      BY <3>1, FileContents
  <2>5. ws.first.events = ws.second.events /\ ws.first.chained
    BY <1>10
  <2> QED
    BY <2>1, <2>2, <2>3, <2>4, <2>5, Zenon DEF SourceVerifies
<1>15. TimelineVerifies(Built)
  <2>1. "timeline" \in ExportNames /\ DataOf(Built, "timeline") = ContentOf("timeline", ws)
    BY <1>4, ExportedFiles, BuiltIs
  <2>2. DataOf(Built, "timeline").log = ws.second
    BY <2>1, FileContents
  <2>3. Built.meta.source.count = Len(ws.second.events)
    BY BuiltIs, ManifestIs
  <2> QED
    BY <2>1, <2>2, <2>3, BuiltIs DEF TimelineVerifies
<1>16. ExportNames \cap Forbidden(profile) = {}
  BY <1>4, ExportedFiles DEF Forbidden, StateFiles
<1>17. SignatureAccepted(Manifest.signature, SignedPart(Manifest), given.secret, given.required)
  <2> DEFINE signed == SignedPart(Manifest)
  <2>1. Manifest.signature = IF given.secret = 0 THEN Unsigned ELSE <<given.secret, signed>>
    BY ManifestIs DEF Sign
  <2> HIDE DEF signed
  <2>2. CASE given.secret = 0
    BY <2>1, <2>2, <1>4 DEF SignatureAccepted
  <2>3. CASE given.secret # 0
    <3>1. Manifest.signature = <<given.secret, signed>> /\ <<given.secret, signed>> # Unsigned
      BY <2>1, <2>3 DEF Unsigned
    <3>2. Manifest.signature # Unsigned
      BY <3>1
    <3> QED
      BY <2>3, <3>1, <3>2, Zenon DEF SignatureAccepted, signed
  <2> QED
    BY <2>2, <2>3 DEF signed
<1>18. /\ Manifest.profile \in {"minimal", "operational", "forensic_local"} /\ Manifest.id = Semantic(Manifest)
       /\ Manifest.privacy = Privacy(ExportNames) /\ ExportNames \cap Forbidden(Manifest.profile) = {}
       /\ Manifest.chain = (IF "evidence" \in ExportNames THEN "reverify" ELSE "at_export")
       /\ Manifest.graphCheck = (IF Manifest.profile = "minimal" THEN "at_export" ELSE "reverify")
  BY ManifestIs, <1>4, <1>16, ExportedFiles
<1> QED
  BY BuiltIs, <1>11, <1>12, <1>13, <1>14, <1>15, <1>17, <1>18, Zenon DEF verifyEvidenceBundleBuffer

EntryFor(n) == [name |-> n, data |-> ContentOf(n, given.ws)]

\* The exported entries are those of the exported names.
LEMMA EntriesBuilt ==
    /\ EntriesOf(Built) = {EntryFor(n) : n \in ExportNames}
    /\ \A n \in ExportNames : EntryFor(n).name = n /\ EntryFor(n).data = ContentOf(n, given.ws)
<1>1. \A n \in ExportNames : EntryFor(n).name = n /\ EntryFor(n).data = ContentOf(n, given.ws)
  BY DEF EntryFor
<1>2. Built.entries = [n \in ExportNames |-> EntryFor(n)]
  BY BuiltIs DEF EntryFor
<1>3. EntriesOf(Built) = {EntryFor(n) : n \in ExportNames}
  BY <1>2 DEF EntriesOf
<1> QED
  BY <1>1, <1>3

\* In an archive that has the entries of the exported one, every name leads to
\* what was exported under it.
LEMMA SameEntries ==
    ASSUME NEW archive, EntriesOf(archive) = EntriesOf(Built)
    PROVE  /\ NamesOf(archive) = ExportNames
           /\ \A n \in ExportNames : DataOf(archive, n) = ContentOf(n, given.ws)
<1>1. \A i \in DOMAIN archive.entries : \E n \in ExportNames : archive.entries[i] = EntryFor(n)
  BY EntriesBuilt DEF EntriesOf
<1>2. \A n \in ExportNames : \E i \in DOMAIN archive.entries : archive.entries[i] = EntryFor(n)
  BY EntriesBuilt DEF EntriesOf
<1>3. \A i \in DOMAIN archive.entries : archive.entries[i].name \in ExportNames
  BY <1>1, EntriesBuilt
<1>4. \A n \in ExportNames : \E i \in DOMAIN archive.entries : archive.entries[i].name = n
  BY <1>2, EntriesBuilt
<1>5. NamesOf(archive) = ExportNames
  BY <1>3, <1>4 DEF NamesOf
<1>6. ASSUME NEW n \in ExportNames PROVE DataOf(archive, n) = ContentOf(n, given.ws)
  <2> DEFINE k == CHOOSE i \in DOMAIN archive.entries : archive.entries[i].name = n
  <2>1. k \in DOMAIN archive.entries /\ archive.entries[k].name = n
    BY <1>4
  <2>2. DataOf(archive, n) = archive.entries[k].data
    BY DEF DataOf
  <2> HIDE DEF k
  <2>3. PICK m \in ExportNames : archive.entries[k] = EntryFor(m)
    BY <1>1, <2>1
  <2>4. m = n
    BY <2>1, <2>3, EntriesBuilt
  <2> QED
    BY <2>2, <2>3, <2>4, EntriesBuilt
<1> QED
  BY <1>5, <1>6

\* Two logs of one length, the second an extension of the first, are one log.
LEMMA GrownByNothing ==
    ASSUME NEW ws \in WorkspaceRecords, Grows(ws), Len(ws.first.events) = Len(ws.second.events)
    PROVE  ws.first = ws.second
<1>1. /\ ws.first \in LogRecords /\ ws.second \in LogRecords
  BY DEF WorkspaceRecords
<1>2. /\ ws.first = [events |-> ws.first.events, chained |-> ws.first.chained]
      /\ ws.second = [events |-> ws.second.events, chained |-> ws.second.chained]
      /\ ws.first.events \in Seq(Nat) /\ ws.second.events \in Seq(Nat)
      /\ ws.first.chained \in BOOLEAN /\ ws.second.chained \in BOOLEAN
  BY <1>1 DEF LogRecords
<1>3. ws.first.events = ws.second.events
  BY <1>2 DEF Grows
<1>4. ws.first.chained = ws.second.chained
  BY <1>2 DEF Grows
<1> QED
  BY <1>2, <1>3, <1>4

\* A bundle that verifies is of one state of the log.
LEMMA ExportIsOneSnapshot == ASSUME ExportAnswered PROVE BundleIsOneSnapshot
<1> SUFFICES ASSUME Answered("bundle"), answer.same, answer.ok, "evidence" \in answer.names
             PROVE  given.ws.first = given.ws.second
  BY Zenon DEF BundleIsOneSnapshot
<1> DEFINE found == given.found
<1>1. given \in BundleAsked /\ answer = BundleAnswer
  BY DEF ExportAnswered, Answered, answer
<1>2. given.ws \in WorkspaceRecords /\ Grows(given.ws)
  BY <1>1, BundleQuestion
<1>3. /\ found.meta = Built.meta /\ EntriesOf(found) = EntriesOf(Built)
      /\ verifyEvidenceBundleBuffer(found, given.secret, given.required)
      /\ "evidence" \in NamesOf(Built)
  BY <1>1 DEF BundleAnswer
<1>4. "evidence" \in ExportNames
  BY <1>3, BuiltIs
<1>5. given.profile # "minimal"
  BY <1>2, <1>4, ExportedFiles
<1>6. found.meta.source = [digest |-> given.ws.first, count |-> Len(given.ws.second.events),
                           last |-> LastHash(given.ws.second.events), raw |-> given.profile # "minimal"]
  BY <1>3, BuiltIs, ManifestIs
<1>7. SourceVerifies(found)
  BY <1>3 DEF verifyEvidenceBundleBuffer
<1> HIDE DEF found
<1>8. DataOf(found, "evidence").log = given.ws.first
  <2>1. DataOf(found, "evidence") = ContentOf("evidence", given.ws)
    BY <1>3, <1>4, SameEntries
  <2> QED
    BY <2>1, FileContents
<1>9. Len(DataOf(found, "evidence").log.events) = found.meta.source.count
  <2>1. found.meta.source.raw = (given.profile # "minimal")
    BY <1>6
  <2>2. found.meta.source.raw
    BY <1>5, <2>1
  <2> QED
    BY <1>7, <2>2, Zenon DEF SourceVerifies
<1>10. Len(given.ws.first.events) = Len(given.ws.second.events)
  BY <1>6, <1>8, <1>9
<1> QED
  BY <1>2, <1>10, GrownByNothing

\* A bundle that verifies under the secret is the one that was exported.
LEMMA ExportIsAuthentic == ASSUME ExportAnswered PROVE BundleIsAuthentic
<1> SUFFICES ASSUME Answered("bundle"), given.secret # 0, given.required, answer.ok
             PROVE  answer.same
  BY Zenon DEF BundleIsAuthentic
<1> DEFINE found == given.found
           K == BodyNames \cup {"id", "signature"}
<1>1. given \in BundleAsked /\ answer = BundleAnswer
  BY DEF ExportAnswered, Answered, answer
<1>2. found \in Archives /\ Unforged(found, Built, given.secret)
  BY <1>1, BundleQuestion
<1>3. verifyEvidenceBundleBuffer(found, given.secret, given.required)
  BY <1>1 DEF BundleAnswer
<1>4. SignatureAccepted(found.meta.signature, SignedPart(found.meta), given.secret, given.required)
  BY <1>3 DEF verifyEvidenceBundleBuffer
<1>5. found.meta.signature # Unsigned /\ found.meta.signature = <<given.secret, SignedPart(found.meta)>>
  BY <1>4 DEF SignatureAccepted
<1>6. found.meta.signature = Built.meta.signature
  BY <1>2, <1>5 DEF Unforged
<1>7. /\ Built.meta = [k \in K |-> Built.meta[k]]
      /\ Built.meta.signature = Sign(SignedPart(Built.meta), given.secret)
      /\ Built.meta.files = Files
  BY BuiltIs, ManifestIs
<1>8. SignedPart(found.meta) = SignedPart(Built.meta)
  BY <1>5, <1>6, <1>7 DEF Sign
<1>9. DOMAIN found.meta = K /\ found.meta = [k \in K |-> found.meta[k]]
  BY <1>2 DEF Archives, MetaRecords, BodyNames
<1>10. DOMAIN Built.meta = K
  BY <1>7
<1> HIDE DEF K
<1>11. found.meta = Built.meta
  <2>1. \A k \in K \ {"signature"} : found.meta[k] = SignedPart(found.meta)[k] /\ Built.meta[k] = SignedPart(Built.meta)[k]
    BY <1>9, <1>10 DEF SignedPart
  <2>2. \A k \in K \ {"signature"} : found.meta[k] = Built.meta[k]
    BY <2>1, <1>8
  <2>3. \A k \in K : found.meta[k] = Built.meta[k]
    BY <2>2, <1>6
  <2> QED
    BY <2>3, <1>7, <1>9
<1>12. DOMAIN Files = ExportNames /\ \A n \in ExportNames : Files[n] = ContentOf(n, given.ws)
  BY DEF Files
<1>13. NamesOf(found) = ExportNames /\ \A n \in ExportNames : DataOf(found, n) = ContentOf(n, given.ws)
  BY <1>3, <1>7, <1>11, <1>12 DEF verifyEvidenceBundleBuffer, DeclaredFilesMatch
<1>14. parseStoredZip(found)
  BY <1>3 DEF verifyEvidenceBundleBuffer
<1>16. \A i \in DOMAIN found.entries :
          found.entries[i] = [name |-> found.entries[i].name, data |-> found.entries[i].data]
  <2>1. PICK places \in SUBSET STRING : found.entries \in [places -> [name : STRING, data : DataRecords]]
    BY <1>2 DEF Archives
  <2> QED
    BY <2>1
<1> HIDE DEF found
<1>17. ASSUME NEW i \in DOMAIN found.entries
       PROVE  found.entries[i].name \in ExportNames /\ found.entries[i] = EntryFor(found.entries[i].name)
  <2>1. found.entries[i].name \in NamesOf(found)
    BY DEF NamesOf
  <2>2. \A j \in DOMAIN found.entries : found.entries[j].name = found.entries[i].name => j = i
    BY <1>14 DEF parseStoredZip
  <2>3. DataOf(found, found.entries[i].name) = found.entries[i].data
    <3> DEFINE n == found.entries[i].name
               k == CHOOSE j \in DOMAIN found.entries : found.entries[j].name = n
    <3>1. k \in DOMAIN found.entries /\ found.entries[k].name = n
      OBVIOUS
    <3>2. k = i
      BY <3>1, <2>2
    <3> QED
      BY <3>2, Zenon DEF DataOf
  <2> QED
    BY <2>1, <2>3, <1>13, <1>16 DEF EntryFor
<1>18. \A n \in ExportNames : \E i \in DOMAIN found.entries : found.entries[i].name = n
  BY <1>13 DEF NamesOf
<1>19. EntriesOf(found) = EntriesOf(Built)
  <2>1. \A i \in DOMAIN found.entries : \E n \in ExportNames : found.entries[i] = EntryFor(n)
    BY <1>17
  <2>2. \A n \in ExportNames : \E i \in DOMAIN found.entries : found.entries[i] = EntryFor(n)
    BY <1>17, <1>18
  <2>3. EntriesOf(found) = {EntryFor(n) : n \in ExportNames}
    BY <2>1, <2>2 DEF EntriesOf
  <2> QED
    BY <2>3, EntriesBuilt
<1> QED
  BY <1>1, <1>11, <1>19 DEF BundleAnswer, found

\* For every log, policy, workspace and profile, and whatever is found in place
\* of the export: checkpoints and bundles verify if and only if they are what was
\* exported, from one state of the log, and take no more than their profile lets
\* them (workstation.js, cli.js).
THEOREM ExportsAreAlwaysFaithful == BundleSpec => []ExportsAreFaithful
<1>1. ExportAnswered => ExportsAreFaithful
  BY CheckpointFits, ExportIsVerified, ExportIsAuthentic, ExportIsOneSnapshot, ExportKeepsPrivate DEF ExportsAreFaithful
<1> QED
  BY <1>1, ExportIsAnswered, PTL

---------------------------------------------------------------------------
(* Adapters: the answers                                                   *)

RouteAnswer == [gate |-> Profile(actionFromJsonRpcToolCall(given.name, given.sensitivity)),
                adapted |-> Profile(adaptAction(given))]

RouteAnswered == part = "route" /\ given \in RouteAsked /\ answers \in {<<>>, <<RouteAnswer>>}

\* What is in answers is what the two routes make of the tool that is given.
LEMMA RouteIsAnswered == RouteSpec => []RouteAnswered
<1>1. Ask("route", RouteAsked) => RouteAnswered
  BY DEF Ask, RouteAnswered
<1>2. RouteAnswered /\ [AskRoute]_caseVars => RouteAnswered'
  <2> SUFFICES ASSUME RouteAnswered, [AskRoute]_caseVars PROVE RouteAnswered'
    OBVIOUS
  <2>0. ASSUME given' = given PROVE RouteAnswer' = RouteAnswer
    BY <2>0 DEF RouteAnswer
  <2>1. CASE AskRoute
    <3>1. part = "route" /\ answers' = <<RouteAnswer>> /\ part' = part /\ given' = given
      BY <2>1, Zenon DEF AskRoute, Answer, RouteAnswer
    <3> QED BY <2>0, <3>1, Zenon DEF RouteAnswered
  <2>2. CASE UNCHANGED caseVars
    <3>1. part' = part /\ given' = given /\ answers' = answers
      BY <2>2 DEF caseVars
    <3> QED BY <2>0, <3>1 DEF RouteAnswered
  <2> QED BY <2>1, <2>2
<1> QED BY <1>1, <1>2, PTL DEF RouteSpec

\* A call of a tool, without credentials or injected instructions.
Plain(c, category, operation, sensitivity) ==
    /\ c.category = category /\ c.operation = operation /\ c.sensitivity = sensitivity
    /\ ~c.secrets /\ c.injection = "none"

\* Its scope matters as far as the data flow depends on it.
LEMMA SameFlowSameProfile ==
    ASSUME NEW category, NEW operation, NEW sensitivity, NEW a, NEW b,
           Plain(a, category, operation, sensitivity), Plain(b, category, operation, sensitivity),
           classifyDataFlow(a) = classifyDataFlow(b)
    PROVE  Profile(a) = Profile(b)
<1>1. classifySideEffect(a) = classifySideEffect(b)
  BY DEF Plain, classifySideEffect
<1>2. /\ a.secrets <=> b.secrets
      /\ ExfiltrationRisk(a) <=> ExfiltrationRisk(b)
      /\ Injected(a) <=> Injected(b)
      /\ InjectionSideEffectRisk(a) <=> InjectionSideEffectRisk(b)
  BY DEF Plain, ExfiltrationRisk, InjectionSideEffectRisk, Injected
<1>3. a.category = b.category /\ a.operation = b.operation /\ a.sensitivity = b.sensitivity
  BY DEF Plain
<1>4. Raised(a) = Raised(b)
  <2>1. ASSUME NEW x, NEW y, Plain(x, category, operation, sensitivity), Plain(y, category, operation, sensitivity),
               classifyDataFlow(x) = classifyDataFlow(y), classifySideEffect(x) = classifySideEffect(y),
               NEW l \in Raised(x)
        PROVE  l \in Raised(y)
    BY <2>1 DEF Raised, Raises, Plain, ExfiltrationRisk, InjectionSideEffectRisk, Injected
  <2> QED BY <1>1, <2>1
<1> QED
  BY <1>1, <1>4 DEF Profile, classifyRisk, Raised

RaisedAtHome(c, operation, sensitivity, l) ==
              \/ operation = "send" /\ l = "high"
              \/ operation \in {"execute", "run"} /\ l = "high"
              \/ sensitivity = "private" /\ l = "medium"
              \/ sensitivity = "secret" /\ l = "high"
              \/ classifyDataFlow(c) = "unknown" /\ classifySideEffect(c) # "read_only" /\ l = "medium"

\* What raises the risk of such a call that keeps to the machine.
LEMMA RaisedPlain ==
    ASSUME NEW c, NEW operation, NEW sensitivity, Plain(c, "custom", operation, sensitivity),
           classifyDataFlow(c) # "external", NEW l
    PROVE  l \in Raised(c) <=>
              \/ operation = "send" /\ l = "high"
              \/ operation \in {"execute", "run"} /\ l = "high"
              \/ sensitivity = "private" /\ l = "medium"
              \/ sensitivity = "secret" /\ l = "high"
              \/ classifyDataFlow(c) = "unknown" /\ classifySideEffect(c) # "read_only" /\ l = "medium"
<1>1. l \in Raised(c) <=> \E x \in Raises(c) : x[1] /\ x[2] = l
  BY DEF Raised
<1>3. (\E x \in Raises(c) : x[1] /\ x[2] = l) => RaisedAtHome(c, operation, sensitivity, l)
  <2> SUFFICES ASSUME NEW x \in Raises(c), x[1], x[2] = l PROVE RaisedAtHome(c, operation, sensitivity, l)
    OBVIOUS
  <2>1. /\ ~(c.category \in {"file", "filesystem"}) /\ c.category \notin {"email", "shell", "payment"}
        /\ c.operation = operation /\ c.sensitivity = sensitivity /\ ~c.secrets /\ ~Injected(c)
    BY DEF Plain, Injected
  <2> DEFINE file == c.category \in {"file", "filesystem"}
             guarded == c.sensitivity \in {"private", "secret"}
             external == classifyDataFlow(c) = "external"
  <2>2. \/ x = <<file /\ c.operation = "read" /\ ~guarded, IF c.sensitivity = "public" THEN "safe" ELSE "low">>
        \/ x = <<file /\ c.operation = "read" /\ guarded, "medium">>
        \/ x = <<file /\ c.operation \in {"write", "update", "create"}, "medium">>
        \/ x = <<file /\ c.operation = "delete", IF guarded THEN "critical" ELSE "high">>
        \/ x = <<c.category = "email" \/ c.operation = "send", "high">>
        \/ x = <<c.category = "shell" \/ c.operation \in {"execute", "run"}, "high">>
        \/ x = <<c.category = "payment", "critical">>
        \/ x = <<c.sensitivity = "private", "medium">>
        \/ x = <<c.sensitivity = "secret", IF external THEN "critical" ELSE "high">>
        \/ x = <<c.secrets, IF ExfiltrationRisk(c) THEN "critical" ELSE "high">>
        \/ x = <<Injected(c), IF InjectionSideEffectRisk(c) THEN "critical" ELSE "high">>
        \/ x = <<classifyDataFlow(c) = "unknown" /\ classifySideEffect(c) # "read_only", "medium">>
    BY Zenon DEF Raises
  <2>3. ~file /\ ~external /\ ~(c.category = "email") /\ ~(c.category = "shell") /\ ~(c.category = "payment")
    BY <2>1
  <2>5. ASSUME NEW f, NEW g, x = <<f, g>> PROVE f /\ g = l
    BY <2>5
  <2>6. \/ (file /\ c.operation = "read" /\ ~guarded) /\ (IF c.sensitivity = "public" THEN "safe" ELSE "low") = l
        \/ (file /\ c.operation = "read" /\ guarded) /\ ("medium") = l
        \/ (file /\ c.operation \in {"write", "update", "create"}) /\ ("medium") = l
        \/ (file /\ c.operation = "delete") /\ (IF guarded THEN "critical" ELSE "high") = l
        \/ (c.category = "email" \/ c.operation = "send") /\ ("high") = l
        \/ (c.category = "shell" \/ c.operation \in {"execute", "run"}) /\ ("high") = l
        \/ (c.category = "payment") /\ ("critical") = l
        \/ (c.sensitivity = "private") /\ ("medium") = l
        \/ (c.sensitivity = "secret") /\ (IF external THEN "critical" ELSE "high") = l
        \/ (c.secrets) /\ (IF ExfiltrationRisk(c) THEN "critical" ELSE "high") = l
        \/ (Injected(c)) /\ (IF InjectionSideEffectRisk(c) THEN "critical" ELSE "high") = l
        \/ (classifyDataFlow(c) = "unknown" /\ classifySideEffect(c) # "read_only") /\ ("medium") = l
    <3>1. x = <<file /\ c.operation = "read" /\ ~guarded, IF c.sensitivity = "public" THEN "safe" ELSE "low">> 
             => (file /\ c.operation = "read" /\ ~guarded) /\ (IF c.sensitivity = "public" THEN "safe" ELSE "low") = l
      BY <2>5, Zenon
    <3>2. x = <<file /\ c.operation = "read" /\ guarded, "medium">> 
             => (file /\ c.operation = "read" /\ guarded) /\ ("medium") = l
      BY <2>5, Zenon
    <3>3. x = <<file /\ c.operation \in {"write", "update", "create"}, "medium">> 
             => (file /\ c.operation \in {"write", "update", "create"}) /\ ("medium") = l
      BY <2>5, Zenon
    <3>4. x = <<file /\ c.operation = "delete", IF guarded THEN "critical" ELSE "high">> 
             => (file /\ c.operation = "delete") /\ (IF guarded THEN "critical" ELSE "high") = l
      BY <2>5, Zenon
    <3>5. x = <<c.category = "email" \/ c.operation = "send", "high">> 
             => (c.category = "email" \/ c.operation = "send") /\ ("high") = l
      BY <2>5, Zenon
    <3>6. x = <<c.category = "shell" \/ c.operation \in {"execute", "run"}, "high">> 
             => (c.category = "shell" \/ c.operation \in {"execute", "run"}) /\ ("high") = l
      BY <2>5, Zenon
    <3>7. x = <<c.category = "payment", "critical">> => (c.category = "payment") /\ ("critical") = l
      BY <2>5, Zenon
    <3>8. x = <<c.sensitivity = "private", "medium">> => (c.sensitivity = "private") /\ ("medium") = l
      BY <2>5, Zenon
    <3>9. x = <<c.sensitivity = "secret", IF external THEN "critical" ELSE "high">> 
             => (c.sensitivity = "secret") /\ (IF external THEN "critical" ELSE "high") = l
      BY <2>5, Zenon
    <3>10. x = <<c.secrets, IF ExfiltrationRisk(c) THEN "critical" ELSE "high">> 
              => (c.secrets) /\ (IF ExfiltrationRisk(c) THEN "critical" ELSE "high") = l
      BY <2>5, Zenon
    <3>11. x = <<Injected(c), IF InjectionSideEffectRisk(c) THEN "critical" ELSE "high">> 
              => (Injected(c)) /\ (IF InjectionSideEffectRisk(c) THEN "critical" ELSE "high") = l
      BY <2>5, Zenon
    <3> DEFINE vague == classifyDataFlow(c) = "unknown" /\ classifySideEffect(c) # "read_only"
    <3>12. x = <<vague, "medium">> => vague /\ "medium" = l
      <4> HIDE DEF vague
      <4> QED BY <2>5, Zenon
    <3> QED
      BY <2>2, <3>1, <3>2, <3>3, <3>4, <3>5, <3>6, <3>7, <3>8, <3>9, <3>10, <3>11, <3>12 DEF vague
  <2> HIDE DEF file, guarded, external
  <2>4. \/ c.operation = "send" /\ l = "high"
        \/ c.operation \in {"execute", "run"} /\ l = "high"
        \/ c.sensitivity = "private" /\ l = "medium"
        \/ c.sensitivity = "secret" /\ l = "high"
        \/ classifyDataFlow(c) = "unknown" /\ classifySideEffect(c) # "read_only" /\ l = "medium"
    BY <2>1, <2>3, <2>6
  <2> QED
    BY <2>1, <2>4 DEF RaisedAtHome
<1>4. RaisedAtHome(c, operation, sensitivity, l) => (\E x \in Raises(c) : x[1] /\ x[2] = l)
  <2>1. CASE operation = "send" /\ l = "high"
    <3> DEFINE x == <<c.category = "email" \/ c.operation = "send", "high">>
    <3>1. x \in Raises(c)
      BY Zenon DEF Raises
    <3>2. x[1] /\ x[2] = l
      BY <2>1 DEF Plain
    <3> QED BY <3>1, <3>2, Zenon
  <2>2. CASE operation \in {"execute", "run"} /\ l = "high"
    <3> DEFINE x == <<c.category = "shell" \/ c.operation \in {"execute", "run"}, "high">>
    <3>1. x \in Raises(c)
      BY Zenon DEF Raises
    <3>2. x[1] /\ x[2] = l
      BY <2>2 DEF Plain
    <3> QED BY <3>1, <3>2, Zenon
  <2>3. CASE sensitivity = "private" /\ l = "medium"
    <3> DEFINE x == <<c.sensitivity = "private", "medium">>
    <3>1. x \in Raises(c)
      BY Zenon DEF Raises
    <3>2. x[1] /\ x[2] = l
      BY <2>3 DEF Plain
    <3> QED BY <3>1, <3>2, Zenon
  <2>4. CASE sensitivity = "secret" /\ l = "high"
    <3> DEFINE x == <<c.sensitivity = "secret", IF classifyDataFlow(c) = "external" THEN "critical" ELSE "high">>
    <3>1. x \in Raises(c)
      BY Zenon DEF Raises
    <3>2. x[1] /\ x[2] = l
      BY <2>4 DEF Plain
    <3> QED BY <3>1, <3>2, Zenon
  <2>5. CASE classifyDataFlow(c) = "unknown" /\ classifySideEffect(c) # "read_only" /\ l = "medium"
    <3> DEFINE x == <<classifyDataFlow(c) = "unknown" /\ classifySideEffect(c) # "read_only", "medium">>
    <3>1. x \in Raises(c)
      BY Zenon DEF Raises
    <3>2. x[1] /\ x[2] = l
      BY <2>5 DEF Plain
    <3> QED BY <3>1, <3>2, Zenon
  <2> QED BY <2>1, <2>2, <2>3, <2>4, <2>5 DEF RaisedAtHome
<1> QED
  BY <1>1, <1>3, <1>4 DEF RaisedAtHome

\* A tool of no known category that keeps to the machine: whether the route
\* knows that it does or not, its risk is the same.
LEMMA CustomRisk ==
    ASSUME NEW c, NEW operation \in {"read", "write", "update", "create", "delete", "execute"}, NEW sensitivity,
           Plain(c, "custom", operation, sensitivity), classifyDataFlow(c) # "external"
    PROVE  classifyRisk(c) = IF operation = "execute" \/ sensitivity = "secret" THEN "high" ELSE "medium"
<1>1. Raised(c) \subseteq {"medium", "high"}
  BY RaisedPlain
<1>2. "high" \in Raised(c) <=> operation = "execute" \/ sensitivity = "secret"
  BY RaisedPlain
<1>3. classifyRisk(c) = IF Raised(c) = {} THEN "medium" ELSE maxRisk(Raised(c))
  BY DEF classifyRisk, Raised
<1>4. RiskRank["safe"] = 0 /\ RiskRank["medium"] = 2 /\ RiskRank["high"] = 3
  BY DEF RiskRank
<1>5. /\ maxRisk(Raised(c)) \in Raised(c) \cup {"safe"}
      /\ \A q \in Raised(c) : RiskRank[q] <= RiskRank[maxRisk(Raised(c))]
  BY RaisedLevels, GreatestRisk
<1> QED
  BY <1>1, <1>2, <1>3, <1>4, <1>5

KnownVerbs == {"read", "write", "update", "create", "delete", "send", "execute"}
Known(prefix) == IF prefix = "filesystem" THEN "file" ELSE prefix
KnownCategories == {"file", "shell", "email", "web", "memory", "payment", "calendar", "custom"}

\* What both routes read from a name they know.
LEMMA NameIsKnown ==
    ASSUME NEW name \in PlainNames
    PROVE  LET v == Segment(name)
               k == Known(name.prefix) IN
           /\ v \in KnownVerbs /\ k \in KnownCategories
           /\ StdioOperation(name) = v /\ StdioCategory(name) = k
           /\ inferOperation(name) = v /\ categoryFromName(name) = k
           /\ normalizeCategory(name.prefix) = k /\ normalizeCategory(k) = k /\ name.prefix # "" /\ v # ""
<1>1. /\ name.prefix \in KnownCategories \cup {"filesystem"}
      /\ name.words \in {<<w>> : w \in KnownVerbs}
  BY DEF PlainNames, KnownCategories, KnownVerbs
<1>2. PICK v \in KnownVerbs : name.words = <<v>>
  BY <1>1
<1>3. Segment(name) = v
  BY <1>2 DEF Segment
<1>4. /\ normalizeCategory(name.prefix) = Known(name.prefix) /\ Known(name.prefix) \in KnownCategories
      /\ normalizeCategory(Known(name.prefix)) = Known(name.prefix)
  BY <1>1 DEF normalizeCategory, Known, KnownCategories, External
<1>5. StdioOperation(name) = v
  <2>1. \A o \in DOMAIN Verbs : name.prefix \notin Verbs[o]
    BY <1>1 DEF Verbs, KnownCategories
  <2> QED
    BY <1>1, <1>3, <2>1 DEF StdioOperation, KnownCategories
<1>6. StdioCategory(name) = Known(name.prefix)
  <2>1. {name.words[i] : i \in DOMAIN name.words} = {v}
    BY <1>2
  <2> QED
    BY <1>1, <1>3, <2>1 DEF StdioCategory, Known, KnownCategories, KnownVerbs, External
<1>7. inferOperation(name) = v
  BY <1>3 DEF inferOperation, KnownVerbs
<1> QED
  BY <1>1, <1>3, <1>4, <1>5, <1>6, <1>7 DEF categoryFromName, KnownCategories, KnownVerbs

\* A call as the routes make it.
LEMMA CallIsPlain ==
    ASSUME NEW category, NEW operation, NEW scope, NEW sensitivity
    PROVE  LET c == AsCall(category, operation, scope, sensitivity) IN
           Plain(c, category, operation, sensitivity) /\ c.scope = scope
BY DEF AsCall, Plain

\* Its scope as one of the routes has it.
ScopeIs(scope, k, v) ==
    /\ scope \in {"external", "local", "unknown"}
    /\ scope = "external" <=> k \in External \/ v = "send"
    /\ scope = "unknown" => k = "custom"

FilesystemScope(scope, k, v) == scope = "local" /\ k = "file"

\* Two such calls, of a category and verb all routes know, have one profile.
LEMMA ScopesAgree ==
    ASSUME NEW k \in KnownCategories, NEW v \in KnownVerbs, NEW s, NEW x, NEW y,
           ScopeIs(x, k, v), ScopeIs(y, k, v) \/ FilesystemScope(y, k, v)
    PROVE  Profile(AsCall(k, v, x, s)) = Profile(AsCall(k, v, y, s))
<1> DEFINE a == AsCall(k, v, x, s)
           b == AsCall(k, v, y, s)
<1>1. Plain(a, k, v, s) /\ a.scope = x /\ Plain(b, k, v, s) /\ b.scope = y
  BY CallIsPlain
<1> HIDE DEF a, b
<1>2. CASE k \in External \/ v = "send"
  <2>1. classifyDataFlow(a) = "external" /\ classifyDataFlow(b) = "external"
    BY <1>1, <1>2 DEF Plain, classifyDataFlow, External, ScopeIs
  <2> QED
    BY <1>1, <2>1, SameFlowSameProfile DEF a, b
<1>3. CASE ~(k \in External \/ v = "send") /\ k # "custom"
  <2>1. classifyDataFlow(a) = "local" /\ classifyDataFlow(b) = "local"
    BY <1>1, <1>3 DEF Plain, classifyDataFlow, External, ScopeIs, FilesystemScope, KnownCategories
  <2> QED
    BY <1>1, <2>1, SameFlowSameProfile DEF a, b
<1>4. CASE ~(k \in External \/ v = "send") /\ k = "custom"
  <2>1. classifyDataFlow(a) # "external" /\ classifyDataFlow(b) # "external"
    BY <1>1, <1>4 DEF Plain, classifyDataFlow, External, ScopeIs, FilesystemScope
  <2>2. v \in {"read", "write", "update", "create", "delete", "execute"}
    BY <1>4 DEF KnownVerbs
  <2>3. classifyRisk(a) = classifyRisk(b)
    BY <1>1, <1>4, <2>1, <2>2, CustomRisk
  <2>4. classifySideEffect(a) = classifySideEffect(b)
    BY <1>1 DEF Plain, classifySideEffect
  <2> QED
    BY <2>1, <2>3, <2>4 DEF Profile, a, b
<1> QED
  BY <1>2, <1>3, <1>4

\* The stdio gate's call.
LEMMA GateCall ==
    ASSUME NEW name \in PlainNames, NEW s
    PROVE  LET k == Known(name.prefix)
               v == Segment(name) IN
           \E x : ScopeIs(x, k, v) /\ actionFromJsonRpcToolCall(name, s) = AsCall(k, v, x, s)
<1> DEFINE k == Known(name.prefix)
           v == Segment(name)
           x == IF k \in External \/ v = "send" THEN "external" ELSE "local"
<1>1. actionFromJsonRpcToolCall(name, s) = AsCall(k, v, x, s)
  BY NameIsKnown DEF actionFromJsonRpcToolCall
<1>2. ScopeIs(x, k, v)
  BY DEF ScopeIs
<1> QED
  BY <1>1, <1>2

\* The scope the adapters infer.
LEMMA InferredScope ==
    ASSUME NEW k \in KnownCategories, NEW v
    PROVE  ScopeIs(scopeForCategory(k, v), k, v) /\ scopeForCategory(k, v) # ""
BY DEF ScopeIs, scopeForCategory, KnownCategories, External

\* The adapters' call.
LEMMA AdaptedCall ==
    ASSUME NEW q \in RouteAsked
    PROVE  LET k == Known(q.name.prefix)
               v == Segment(q.name) IN
           \E y : /\ ScopeIs(y, k, v) \/ FilesystemScope(y, k, v)
                  /\ adaptAction(q) = AsCall(k, v, y, q.sensitivity)
<1> DEFINE name == q.name
           k == Known(name.prefix)
           v == Segment(name)
           s == q.sensitivity
           y == scopeForCategory(k, v)
<1>1. q \in RouteRecords /\ name \in PlainNames
  BY DEF RouteAsked, RouteRecords
<1>2. /\ v \in KnownVerbs /\ k \in KnownCategories
      /\ inferOperation(name) = v /\ categoryFromName(name) = k
      /\ normalizeCategory(name.prefix) = k /\ normalizeCategory(k) = k /\ name.prefix # "" /\ v # ""
  BY <1>1, NameIsKnown
<1>3. ScopeIs(y, k, v) /\ y # ""
  BY <1>2, InferredScope
<1>4. ASSUME NEW c, normalizeCategory(c) = k
      PROVE  buildCall(c, v, y, s) = AsCall(k, v, y, s) /\ buildCall(c, v, "", s) = AsCall(k, v, y, s)
  BY <1>3, <1>4, Zenon DEF buildCall
<1>5. CASE q.route \in {"mcp", "openai"}
  <2>1. adaptAction(q) = adaptToolCall(name, s)
    BY <1>5 DEF adaptAction
  <2>2. adaptToolCall(name, s) = buildCall(k, v, y, s)
    BY <1>2, Zenon DEF adaptToolCall
  <2> QED
    BY <1>2, <1>3, <1>4, <2>1, <2>2
<1>6. CASE q.route = "authorization"
  <2>1. adaptAction(q) = adaptAuthorizationRequest(name, "", "", s)
    BY <1>6 DEF adaptAction
  <2>2. adaptAuthorizationRequest(name, "", "", s) = buildCall(k, v, "", s)
    BY <1>2, Zenon DEF adaptAuthorizationRequest
  <2> QED
    BY <1>2, <1>3, <1>4, <2>1, <2>2
<1>7. CASE q.route = "descriptor"
  <2>1. adaptAction(q) = adaptAuthorizationRequest(name, name.prefix, v, s)
    BY <1>7 DEF adaptAction
  <2>2. adaptAuthorizationRequest(name, name.prefix, v, s) = buildCall(name.prefix, v, "", s)
    BY <1>2, Zenon DEF adaptAuthorizationRequest
  <2> QED
    BY <1>2, <1>3, <1>4, <2>1, <2>2
<1>8. CASE q.route = "shell"
  <2>1. name = [prefix |-> "shell", words |-> <<"execute">>]
    BY <1>8 DEF RouteAsked
  <2>2. name.prefix = "shell" /\ v = "execute" /\ k = "shell"
    BY <2>1 DEF Segment, Known
  <2>3. adaptAction(q) = adaptShellCommand(s)
    BY <1>8 DEF adaptAction
  <2>4. adaptShellCommand(s) = AsCall("shell", "execute", "local", s)
    BY DEF adaptShellCommand, buildCall, normalizeCategory, External
  <2>5. ScopeIs("local", k, v)
    BY <2>2 DEF ScopeIs, External
  <2> QED
    BY <2>2, <2>3, <2>4, <2>5
<1>9. CASE q.route = "filesystem"
  <2>1. name.prefix = "filesystem" /\ k = "file"
    BY <1>9 DEF RouteAsked, Known
  <2>2. adaptAction(q) = adaptFilesystemAction(v, s)
    BY <1>9 DEF adaptAction
  <2>3. adaptFilesystemAction(v, s) = AsCall("file", v, "local", s)
    BY <1>2 DEF adaptFilesystemAction, buildCall, normalizeCategory, External, KnownVerbs
  <2>4. FilesystemScope("local", k, v)
    BY <2>1 DEF FilesystemScope
  <2> QED
    BY <2>1, <2>2, <2>3, <2>4
<1>10. CASE q.route = "http"
  <2> DEFINE o == IF q.method \in {"GET", "HEAD", "OPTIONS"} THEN "read" ELSE "send"
  <2>1. name = [prefix |-> "web", words |-> <<o>>]
    BY <1>10 DEF RouteAsked, WebCall
  <2>2. v = o /\ k = "web"
    BY <2>1 DEF Segment, Known
  <2>3. adaptAction(q) = adaptHttpAction(q.method, s)
    BY <1>10 DEF adaptAction
  <2>4. adaptHttpAction(q.method, s) = AsCall("web", o, "external", s)
    BY DEF adaptHttpAction, buildCall, normalizeCategory, External
  <2>5. ScopeIs("external", k, v)
    BY <2>2 DEF ScopeIs, External
  <2> QED
    BY <2>2, <2>3, <2>4, <2>5
<1> QED
  BY <1>1, <1>5, <1>6, <1>7, <1>8, <1>9, <1>10 DEF RouteRecords

\* For every known name and sensitivity, the stdio gate, the HTTP gateway, the
\* authorization API and the helpers of the SDK classify the call alike.
THEOREM RoutesAlwaysAgree == RouteSpec => []RoutesAgree
<1>1. ASSUME RouteAnswered PROVE RoutesAgree
  <2> SUFFICES ASSUME Answered("route") PROVE answer.gate = answer.adapted
    BY DEF RoutesAgree
  <2> DEFINE k == Known(given.name.prefix)
             v == Segment(given.name)
             s == given.sensitivity
  <2>1. given \in RouteAsked /\ answer = RouteAnswer
    BY <1>1 DEF RouteAnswered, Answered, answer
  <2>2. given.name \in PlainNames
    BY <2>1 DEF RouteAsked, RouteRecords
  <2>3. k \in KnownCategories /\ v \in KnownVerbs
    BY <2>2, NameIsKnown
  <2>4. PICK x : ScopeIs(x, k, v) /\ actionFromJsonRpcToolCall(given.name, s) = AsCall(k, v, x, s)
    BY <2>2, GateCall
  <2>5. PICK y : /\ ScopeIs(y, k, v) \/ FilesystemScope(y, k, v)
                 /\ adaptAction(given) = AsCall(k, v, y, s)
    BY <2>1, AdaptedCall
  <2> HIDE DEF k, v, s
  <2>6. Profile(AsCall(k, v, x, s)) = Profile(AsCall(k, v, y, s))
    BY <2>3, <2>4, <2>5, ScopesAgree
  <2> QED
    BY <2>1, <2>4, <2>5, <2>6 DEF RouteAnswer, s
<1> QED
  BY <1>1, RouteIsAnswered, PTL
=============================================================================
