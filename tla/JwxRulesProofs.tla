---------------------------- MODULE JwxRulesProofs ----------------------------
(***************************************************************************)
(* What the operators of JwxRules and GoModResult return, for every rule   *)
(* set that JwxRules admits.                                               *)
(***************************************************************************)
EXTENDS GoModResult, TLAPS, WellFoundedInduction

LEMMA MinExists ==
    ASSUME NEW S \in SUBSET Nat, S # {}
    PROVE  /\ Min(S) \in S
           /\ \A s \in S : Min(S) <= s
<1> DEFINE R == OpToRel(<, Nat)
<1>1. PICK d \in S : \A e \in S : ~ (<<e, d>> \in R)
  <2>1. IsWellFoundedOn(R, Nat)
    BY NatLessThanWellFounded
  <2> HIDE DEF R
  <2> QED BY <2>1, WFMin
<1>2. \A e \in S : d <= e
  <2>1. R = {ss \in Nat \X Nat : ss[1] < ss[2]}
    BY DEF OpToRel
  <2> HIDE DEF R
  <2>2. ASSUME NEW e \in S, e < d PROVE FALSE
    <3>1. <<e, d>> \in Nat \X Nat
      OBVIOUS
    <3> QED BY <1>1, <2>1, <2>2, <3>1
  <2> QED BY <2>2
<1> QED BY <1>2 DEF Min

LEMMA MaxExists ==
    ASSUME NEW S \in SUBSET Nat, S # {},
           NEW bound \in Nat, \A s \in S : s <= bound
    PROVE  /\ Max(S) \in S
           /\ \A s \in S : s <= Max(S)
<1> DEFINE D == {d \in Nat : \E s \in S : d = bound - s}
<1>1. D \in SUBSET Nat /\ D # {}
  <2>1. PICK s \in S : TRUE
    OBVIOUS
  <2>2. bound - s \in D
    OBVIOUS
  <2> QED BY <2>2
<1>2. Min(D) \in D /\ \A e \in D : Min(D) <= e
  <2> HIDE DEF D
  <2> QED BY <1>1, MinExists
<1>3. PICK s \in S : Min(D) = bound - s
  BY <1>2
<1>4. \A t \in S : t <= s
  <2>1. TAKE t \in S
  <2>2. bound - t \in D
    OBVIOUS
  <2>3. bound - s <= bound - t
    BY <1>2, <1>3, <2>2
  <2> QED BY <2>3
<1> QED BY <1>4 DEF Max

LEMMA MaxIs ==
    ASSUME NEW S \in SUBSET Nat, NEW x \in S, \A s \in S : s <= x
    PROVE  Max(S) = x
<1>1. \A y \in S : (\A s \in S : s <= y) => y = x
  OBVIOUS
<1> QED BY <1>1 DEF Max

\* A set of versions with NoVersion among them has a maximum, which is one of
\* them and bounds them all.
LEMMA MaxVersion ==
    ASSUME NEW S \in SUBSET MaybeVersion
    PROVE  /\ Max({NoVersion} \cup S) \in MaybeVersion
           /\ Max({NoVersion} \cup S) = NoVersion \/ Max({NoVersion} \cup S) \in S
           /\ \A v \in S : v <= Max({NoVersion} \cup S)
<1>1. {NoVersion} \cup S \in SUBSET Nat /\ {NoVersion} \cup S # {}
  BY ModuleAssumption DEF MaybeVersion, NoVersion
<1>2. HighestRank \in Nat /\ \A s \in {NoVersion} \cup S : s <= HighestRank
  BY ModuleAssumption DEF MaybeVersion, NoVersion
<1>3. /\ Max({NoVersion} \cup S) \in {NoVersion} \cup S
      /\ \A s \in {NoVersion} \cup S : s <= Max({NoVersion} \cup S)
  BY <1>1, <1>2, MaxExists
<1>4. {NoVersion} \cup S \subseteq MaybeVersion
  BY ModuleAssumption DEF MaybeVersion, NoVersion
<1> QED BY <1>3, <1>4

LEMMA RuleFields ==
    ASSUME NEW r \in RuleId
    PROVE  /\ Rules[r] \in RuleType
           /\ Rules[r].floors \in Requires
           /\ \A m \in Module : Rules[r].floors[m] \in MaybeVersion
<1>1. Rules[r] \in RuleType
  BY RulesAssumption DEF RuleId
<1> QED BY <1>1 DEF RuleType, Requires

LEMMA RuleIds == RuleId \in SUBSET Nat /\ RuleId = 1 .. Len(Rules) /\ Len(Rules) \in Nat
BY RulesAssumption DEF RuleId

\* The version written for a path is at least every floor a fired rule sets,
\* and it is the baseline or one of those floors.
LEMMA requiredVersionForBounds ==
    ASSUME NEW path \in Module, NEW F \in SUBSET RuleId
    PROVE  /\ requiredVersionFor(path, F) \in MaybeVersion
           /\ \A r \in F : Rules[r].floors[path] <= requiredVersionFor(path, F)
           /\ \/ requiredVersionFor(path, F) = NoVersion
              \/ path = Target /\ requiredVersionFor(path, F) = Baseline
              \/ \E r \in F : Rules[r].floors[path] = requiredVersionFor(path, F)
<1> DEFINE S == (IF path = Target THEN {Baseline} ELSE {})
                  \cup {Rules[r].floors[path] : r \in F}
<1>1. S \in SUBSET MaybeVersion
  BY RuleFields, ModuleAssumption DEF MaybeVersion
<1>2. requiredVersionFor(path, F) = Max({NoVersion} \cup S)
  <2>1. {NoVersion} \cup (IF path = Target THEN {Baseline} ELSE {})
          \cup {Rules[r].floors[path] : r \in F} = {NoVersion} \cup S
    OBVIOUS
  <2> QED BY <2>1 DEF requiredVersionFor
<1>3. \A r \in F : Rules[r].floors[path] \in S
  OBVIOUS
<1>4. \A v \in S : (path = Target /\ v = Baseline) \/ \E r \in F : Rules[r].floors[path] = v
  OBVIOUS
<1> HIDE DEF S
<1> QED BY <1>1, <1>2, <1>3, <1>4, MaxVersion

\* The version a companion is added at is the floor of a rule that points at
\* it, and at least the floor of each of them.
LEMMA companionRequirementsBounds ==
    ASSUME NEW path \in Module, NEW F \in SUBSET RuleId
    PROVE  /\ companionRequirements(path, F) \in MaybeVersion
           /\ \A r \in CompanionRules(path, F) :
                 Rules[r].floors[path] <= companionRequirements(path, F)
           /\ CompanionRules(path, F) # {} =>
                 \E r \in CompanionRules(path, F) :
                    Rules[r].floors[path] = companionRequirements(path, F)
<1> DEFINE C == CompanionRules(path, F)
           S == {Rules[r].floors[path] : r \in C}
<1>1. C \subseteq F /\ C \subseteq RuleId /\ \A r \in C : Rules[r].floors[path] # NoVersion
  BY DEF CompanionRules
<1>2. S \in SUBSET MaybeVersion
  BY <1>1, RuleFields
<1>3. companionRequirements(path, F) = Max({NoVersion} \cup S)
  BY DEF companionRequirements
<1>4. \A r \in C : Rules[r].floors[path] \in S
  OBVIOUS
<1>5. /\ companionRequirements(path, F) \in MaybeVersion
      /\ companionRequirements(path, F) \in S \/ companionRequirements(path, F) = NoVersion
      /\ \A v \in S : v <= companionRequirements(path, F)
  <2> HIDE DEF S
  <2> QED BY <1>2, <1>3, MaxVersion
<1>6. ASSUME C # {} PROVE companionRequirements(path, F) # NoVersion
  <2>1. PICK r \in C : TRUE
    BY <1>6
  <2>2. Rules[r].floors[path] \in MaybeVersion /\ Rules[r].floors[path] # NoVersion
    BY <1>1, <2>1, RuleFields
  <2>3. Rules[r].floors[path] <= companionRequirements(path, F)
    BY <1>4, <1>5
  <2> QED BY <1>5, <2>2, <2>3, ModuleAssumption DEF MaybeVersion, NoVersion
<1> QED BY <1>4, <1>5, <1>6

-----------------------------------------------------------------------------
(* The four steps of fixGoMod *)

\* Where the version of module m in a rewritten go.mod comes from.
Sourced(version, m, block, F) ==
    \/ version \in {block[m], NoVersion}
    \/ m = Target /\ version = Baseline
    \/ \E r \in F : Rules[r].floors[m] = version

LEMMA SwappedVersions ==
    ASSUME NEW block \in Requires, NEW F \in SUBSET RuleId
    PROVE  /\ Swapped(block, F) \in Requires
           /\ \A r \in importRewriteRules : Swapped(block, F)[Rules[r].from] = NoVersion
           /\ \A m \in Module : Sourced(Swapped(block, F)[m], m, block, F)
<1> USE DEF Swapped
<1>1. NoVersion \in MaybeVersion
  BY ModuleAssumption DEF MaybeVersion, NoVersion
<1>2. Swapped(block, F) \in Requires
  BY <1>1, requiredVersionForBounds DEF Requires
<1>3. ASSUME NEW r \in importRewriteRules
      PROVE  Swapped(block, F)[Rules[r].from] = NoVersion
  <2>1. Rules[r].from \in Module
    BY RuleFields DEF importRewriteRules, RuleType
  <2>2. \A s \in ActiveRewrites(block) : Rules[s].to # Rules[r].from
    BY RewritesIndependent DEF ActiveRewrites
  <2>3. CASE r \in ActiveRewrites(block)
    BY <2>1, <2>2, <2>3
  <2>4. CASE r \notin ActiveRewrites(block)
    BY <2>1, <2>2, <2>4 DEF ActiveRewrites
  <2> QED BY <2>3, <2>4
<1>4. ASSUME NEW m \in Module
      PROVE  Sourced(Swapped(block, F)[m], m, block, F)
  BY requiredVersionForBounds DEF Sourced
<1> QED BY <1>2, <1>3, <1>4

LEMMA RaisedVersions ==
    ASSUME NEW block \in Requires, NEW F \in SUBSET RuleId, NEW m \in Module
    PROVE  /\ Raised(block, F)[m] \in MaybeVersion
           /\ Raised(block, F)[m] = NoVersion <=> block[m] = NoVersion
           /\ block[m] <= Raised(block, F)[m]
           /\ block[m] # NoVersion =>
                 \A r \in F : Rules[r].floors[m] <= Raised(block, F)[m]
           /\ \/ Raised(block, F)[m] = block[m]
              \/ \E r \in F : Rules[r].floors[m] = Raised(block, F)[m]
<1>1. block[m] \in MaybeVersion /\ NoVersion \in MaybeVersion
  BY ModuleAssumption DEF Requires, MaybeVersion, NoVersion
<1>2. CASE block[m] = NoVersion
  BY <1>1, <1>2, ModuleAssumption DEF Raised, MaybeVersion, NoVersion
<1>3. CASE block[m] # NoVersion
  <2> DEFINE S == {block[m]} \cup {Rules[r].floors[m] : r \in F}
  <2>1. Raised(block, F)[m] = Max(S)
    BY <1>3 DEF Raised
  <2>2. S \in SUBSET MaybeVersion
    BY <1>1, RuleFields
  <2>3. block[m] \in S /\ \A r \in F : Rules[r].floors[m] \in S
    OBVIOUS
  <2>4. \A v \in S : v = block[m] \/ \E r \in F : Rules[r].floors[m] = v
    OBVIOUS
  <2> HIDE DEF S
  <2>5. S \in SUBSET Nat /\ S # {} /\ HighestRank \in Nat /\ \A v \in S : v <= HighestRank
    BY <2>2, <2>3, ModuleAssumption DEF MaybeVersion
  <2>6. Max(S) \in S /\ \A v \in S : v <= Max(S)
    BY <2>5, MaxExists
  <2>7. Max(S) # NoVersion
    BY <1>1, <1>3, <2>2, <2>3, <2>6 DEF MaybeVersion, NoVersion
  <2> QED BY <1>3, <2>1, <2>2, <2>3, <2>4, <2>6, <2>7
<1> QED BY <1>2, <1>3

LEMMA RaisedType ==
    ASSUME NEW block \in Requires, NEW F \in SUBSET RuleId
    PROVE  Raised(block, F) \in Requires
<1>1. Raised(block, F) = [m \in Module |-> Raised(block, F)[m]]
  BY DEF Raised
<1> QED BY <1>1, RaisedVersions DEF Requires

\* Companions of a set of rules are companions of the whole rule set.
LEMMA CompanionsOfAll ==
    ASSUME NEW F \in SUBSET RuleId, NEW m \in Module
    PROVE  /\ CompanionRules(m, F) \subseteq CompanionRules(m, RuleId)
           /\ CompanionRules(m, F) = {} => companionRequirements(m, F) = NoVersion
           /\ absorbedModules(F) \subseteq absorbedModules(RuleId)
<1>1. ASSUME CompanionRules(m, F) = {} PROVE companionRequirements(m, F) = NoVersion
  <2>1. companionRequirements(m, F) = Max({NoVersion} \cup {})
    BY <1>1 DEF companionRequirements
  <2>2. Max({NoVersion} \cup {}) = NoVersion
    BY MaxVersion
  <2> QED BY <2>1, <2>2
<1> QED BY <1>1 DEF CompanionRules, absorbedModules, AbsorbingRules

\* By CompanionFloors the rules that point at a companion are the ones that set
\* a floor for it.
LEMMA companionRequirementsMeet ==
    ASSUME NEW F \in SUBSET RuleId, NEW m \in Module, CompanionRules(m, F) # {}
    PROVE  \A r \in F : Rules[r].floors[m] <= companionRequirements(m, F)
<1> TAKE r \in F
<1>1. PICK s \in CompanionRules(m, F) : TRUE
  OBVIOUS
<1>2. s \in RuleId /\ s \in CompanionRules(m, {s})
  BY <1>1 DEF CompanionRules
<1>3. CASE Rules[r].floors[m] = NoVersion
  BY <1>3, companionRequirementsBounds, ModuleAssumption DEF MaybeVersion, NoVersion
<1>4. CASE Rules[r].floors[m] # NoVersion
  <2>1. CompanionRules(m, {r}) # {}
    BY <1>2, <1>4, CompanionFloors
  <2>2. r \in CompanionRules(m, F)
    BY <2>1 DEF CompanionRules
  <2> QED BY <2>2, companionRequirementsBounds
<1> QED BY <1>3, <1>4

\* A require block that meets the floors of the rules.
Meets(block, rules) ==
    \A r \in rules : \A m \in Module :
        block[m] # NoVersion => Rules[r].floors[m] <= block[m]

\* A go.mod that none of the four steps would change.
Settled(block, F) ==
    /\ ActiveRewrites(block) = {}
    /\ Meets(block, F)
    /\ \A m \in absorbedModules(F) : block[m] = NoVersion
    /\ \A m \in Module : CompanionRules(m, F) # {} => block[m] # NoVersion

\* The block fixGoMod comes to has its types, only versions that are accounted
\* for, and is settled: a second run would find nothing to do.
LEMMA FixedVersions ==
    ASSUME NEW block \in Requires, NEW F \in SUBSET RuleId
    PROVE  /\ FixedRequires(block, F) \in Requires
           /\ \A m \in Module : Sourced(FixedRequires(block, F)[m], m, block, F)
           /\ Settled(FixedRequires(block, F), F)
<1> DEFINE S == Swapped(block, F)
           P == Raised(S, F)
           X == FixedRequires(block, F)
<1>1. S \in Requires /\ P \in Requires
  BY SwappedVersions, RaisedType
<1>2. \A m \in Module :
        X[m] = IF P[m] # NoVersion /\ m \notin absorbedModules(F)
                 THEN P[m] ELSE companionRequirements(m, F)
  BY DEF FixedRequires, Completed
<1>3. \A m \in Module : companionRequirements(m, F) \in MaybeVersion
  BY companionRequirementsBounds
<1>4. X \in Requires
  <2>1. X = [m \in Module |-> X[m]]
    BY DEF FixedRequires, Completed
  <2> HIDE DEF X, P
  <2> QED BY <1>1, <1>2, <1>3, <2>1 DEF Requires
<1>5. \A m \in Module :
        /\ P[m] = NoVersion <=> S[m] = NoVersion
        /\ P[m] # NoVersion => \A r \in F : Rules[r].floors[m] <= P[m]
        /\ P[m] = S[m] \/ \E r \in F : Rules[r].floors[m] = P[m]
  <2> HIDE DEF S
  <2> QED BY <1>1, RaisedVersions
<1>6. /\ \A m \in Module : Sourced(S[m], m, block, F)
      /\ \A r \in importRewriteRules : S[Rules[r].from] = NoVersion
  BY SwappedVersions
<1> HIDE DEF X, P, S
<1>7. ASSUME NEW m \in Module
      PROVE  Sourced(X[m], m, block, F)
  <2>1. CASE X[m] = P[m]
    BY <1>5, <1>6, <2>1 DEF Sourced
  <2>2. CASE X[m] = companionRequirements(m, F)
    <3>1. CASE CompanionRules(m, F) = {}
      BY <2>2, <3>1, CompanionsOfAll DEF Sourced
    <3>2. CASE CompanionRules(m, F) # {}
      <4>1. PICK r \in CompanionRules(m, F) : Rules[r].floors[m] = X[m]
        BY <2>2, <3>2, companionRequirementsBounds
      <4> QED BY <4>1 DEF Sourced, CompanionRules
    <3> QED BY <3>1, <3>2
  <2> QED BY <1>2, <2>1, <2>2
<1>8. \A r \in importRewriteRules :
        Rules[r].from \in Module /\ CompanionRules(Rules[r].from, F) = {}
  BY CompanionsStay, CompanionsOfAll, RuleFields DEF importRewriteRules, RuleType
<1>9. ActiveRewrites(X) = {}
  BY <1>2, <1>5, <1>6, <1>8, CompanionsOfAll DEF ActiveRewrites
<1>10. Meets(X, F)
  <2>1. ASSUME NEW r \in F, NEW m \in Module, X[m] # NoVersion
        PROVE  Rules[r].floors[m] <= X[m]
    <3>1. CASE P[m] # NoVersion /\ m \notin absorbedModules(F)
      BY <1>2, <1>5, <3>1
    <3>2. CASE ~ (P[m] # NoVersion /\ m \notin absorbedModules(F))
      BY <1>2, <2>1, <3>2, CompanionsOfAll, companionRequirementsMeet
    <3> QED BY <3>1, <3>2
  <2> QED BY <2>1 DEF Meets
<1>11. ASSUME NEW m \in absorbedModules(F) PROVE X[m] = NoVersion
  <2>1. m \in Module /\ CompanionRules(m, F) = {}
    BY CompanionsStay, CompanionsOfAll DEF absorbedModules
  <2> QED BY <1>2, <2>1, CompanionsOfAll
<1>12. ASSUME NEW m \in Module, CompanionRules(m, F) # {} PROVE X[m] # NoVersion
  <2>1. companionRequirements(m, F) # NoVersion
    <3>1. PICK r \in CompanionRules(m, F) : Rules[r].floors[m] = companionRequirements(m, F)
      BY <1>12, companionRequirementsBounds
    <3> QED BY <3>1 DEF CompanionRules
  <2> QED BY <1>2, <2>1
<1>13. Settled(X, F)
  BY <1>9, <1>10, <1>11, <1>12 DEF Settled
<1> QED BY <1>4, <1>7, <1>13 DEF X

=============================================================================
