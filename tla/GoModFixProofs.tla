---------------------------- MODULE GoModFixProofs ----------------------------
(***************************************************************************)
(* For every rule set that satisfies the assumptions of GoModFix and       *)
(* JwxRules, and every go.mod: fixGoMod keeps its types, what it reports   *)
(* done meets the floors of the rules that fired and has no version of     *)
(* another, it is idempotent, and its loops implement GoModSpec.           *)
(***************************************************************************)
EXTENDS GoModFix, JwxRulesProofs

-----------------------------------------------------------------------------
(* Types *)

LEMMA RaisedByType ==
    ASSUME TypeOK, NEW r \in RuleId
    PROVE  RaisedBy(r) \in Requires
BY RuleFields DEF RaisedBy, Requires, TypeOK

LEMMA SwappedByType ==
    ASSUME TypeOK, NEW r \in importRewriteRules
    PROVE  SwappedBy(r) \in Requires
<1>1. Rules[r].to \in Module
  BY RuleFields DEF importRewriteRules, RuleType
<1>2. requiredVersionFor(Rules[r].to, fired) \in MaybeVersion
  BY <1>1, requiredVersionForBounds DEF TypeOK
<1>3. NoVersion \in MaybeVersion
  BY ModuleAssumption DEF MaybeVersion, NoVersion
<1> QED BY <1>2, <1>3 DEF SwappedBy, Requires, TypeOK

LEMMA CreditedRules ==
    ASSUME TypeOK, NEW m \in Module
    PROVE  /\ m \in absorbedModules(fired) => Max(AbsorbingRules(m, fired)) \in RuleId
           /\ CompanionRules(m, fired) # {} =>
                Min({r \in CompanionRules(m, fired) :
                        Rules[r].floors[m] = companionRequirements(m, fired)}) \in RuleId
<1>1. fired \in SUBSET RuleId
  BY DEF TypeOK
<1>2. ASSUME m \in absorbedModules(fired)
      PROVE  Max(AbsorbingRules(m, fired)) \in RuleId
  <2>1. AbsorbingRules(m, fired) \in SUBSET RuleId /\ AbsorbingRules(m, fired) # {}
    BY <1>1, <1>2 DEF absorbedModules, AbsorbingRules
  <2>2. \A r \in AbsorbingRules(m, fired) : r <= Len(Rules)
    BY <2>1, RuleIds
  <2>3. AbsorbingRules(m, fired) \in SUBSET Nat
    BY <2>1, RuleIds
  <2>4. Max(AbsorbingRules(m, fired)) \in AbsorbingRules(m, fired)
    BY <2>1, <2>2, <2>3, RuleIds, MaxExists
  <2> QED BY <2>1, <2>4
<1>3. ASSUME CompanionRules(m, fired) # {}
      PROVE  Min({r \in CompanionRules(m, fired) :
                    Rules[r].floors[m] = companionRequirements(m, fired)}) \in RuleId
  <2> DEFINE S == {r \in CompanionRules(m, fired) :
                      Rules[r].floors[m] = companionRequirements(m, fired)}
  <2>1. S # {}
    BY <1>1, <1>3, companionRequirementsBounds
  <2>2. S \in SUBSET RuleId
    BY <1>1 DEF CompanionRules
  <2>3. S \in SUBSET Nat
    BY <2>2, RuleIds
  <2>4. Min(S) \in S
    <3> HIDE DEF S
    <3> QED BY <2>1, <2>3, MinExists
  <2>5. Min(S) \in RuleId
    BY <2>2, <2>4
  <2> QED BY <2>5
<1> QED BY <1>2, <1>3

LEMMA InitType == Init => TypeOK
<1> SUFFICES ASSUME Init PROVE TypeOK
  OBVIOUS
<1>1. Unrequired \in Requires
  BY ModuleAssumption DEF Unrequired, Requires, MaybeVersion, NoVersion
<1>2. file \in Requires
  BY GoModsAssumption DEF Init
<1> QED BY <1>1, <1>2, MaxRunsAssumption DEF Init, TypeOK, Results, PC

LEMMA StepType == TypeOK /\ [Next]_vars => TypeOK'
<1> SUFFICES ASSUME TypeOK, [Next]_vars PROVE TypeOK'
  OBVIOUS
<1> USE DEF Results, PC, Return
<1>1. CASE Read
  BY <1>1 DEF Read, TypeOK
<1>2. ASSUME NEW r \in importRewriteRules, Swap(r) PROVE TypeOK'
  <2>1. r \in RuleId /\ SwappedBy(r) \in Requires
    BY SwappedByType DEF importRewriteRules
  <2>2. applied \cup {r} \in SUBSET RuleId
    BY <2>1 DEF TypeOK
  <2> QED BY <1>2, <2>1, <2>2 DEF Swap, TypeOK
<1>3. CASE SwapDone
  BY <1>3 DEF SwapDone, TypeOK
<1>4. CASE Raise
  <2>1. next \in RuleId /\ RaisedBy(next) \in Requires
    BY <1>4, RaisedByType DEF Raise
  <2>2. applied \cup {next} \in SUBSET RuleId
    BY <2>1 DEF TypeOK
  <2>3. next + 1 \in Nat \ {0}
    BY DEF TypeOK
  <2> QED BY <1>4, <2>1, <2>2, <2>3 DEF Raise, TypeOK
<1>5. CASE RaiseDone
  BY <1>5 DEF RaiseDone, TypeOK
<1>6. ASSUME NEW m \in Module, Drop(m) PROVE TypeOK'
  <2>1. Max(AbsorbingRules(m, fired)) \in RuleId
    BY <1>6, CreditedRules DEF Drop
  <2>2. [req EXCEPT ![m] = NoVersion] \in Requires
    BY ModuleAssumption DEF Requires, MaybeVersion, NoVersion, TypeOK
  <2> QED BY <1>6, <2>1, <2>2 DEF Drop, TypeOK
<1>7. CASE DropDone
  BY <1>7 DEF DropDone, TypeOK
<1>8. ASSUME NEW m \in Module, Add(m) PROVE TypeOK'
  <2> DEFINE credited == Min({r \in CompanionRules(m, fired) :
                                Rules[r].floors[m] = companionRequirements(m, fired)})
  <2>1. credited \in RuleId
    BY <1>8, CreditedRules DEF Add
  <2>2. companionRequirements(m, fired) \in MaybeVersion
    BY companionRequirementsBounds DEF TypeOK
  <2>3. [req EXCEPT ![m] = companionRequirements(m, fired)] \in Requires
    BY <2>2 DEF Requires, TypeOK
  <2>4. /\ req' = [req EXCEPT ![m] = companionRequirements(m, fired)]
        /\ applied' = applied \cup {credited}
        /\ UNCHANGED <<file, fired, result, pc, before, current, next, runs, previous>>
    BY <1>8 DEF Add
  <2> HIDE DEF credited
  <2> QED BY <2>1, <2>3, <2>4 DEF TypeOK
<1>9. CASE AddDone
  BY <1>9 DEF AddDone, TypeOK
<1>10. CASE Write
  BY <1>10 DEF Write, TypeOK
<1>11. CASE Again
  BY <1>11, MaxRunsAssumption DEF Again, TypeOK
<1>12. CASE UNCHANGED vars
  BY <1>12 DEF vars, TypeOK
<1>13. CASE Finished
  BY <1>12, <1>13 DEF Finished
<1> QED
  BY <1>1, <1>2, <1>3, <1>4, <1>5, <1>6, <1>7, <1>8, <1>9, <1>10, <1>11, <1>12, <1>13
     DEF Next, Step

\* The variables of fixGoMod keep their types: every rule it credits is a rule
\* of the set and every version it writes one the rules or the file mention.
THEOREM TypeCorrect == Spec => []TypeOK
<1>1. Init => TypeOK
  BY InitType
<1>2. TypeOK /\ [Next]_vars => TypeOK'
  BY StepType
<1> QED BY <1>1, <1>2, PTL DEF Spec

-----------------------------------------------------------------------------
(* What each loop has computed when it is somewhere in the middle *)

Editing == {"swap", "raise", "drop", "add", "write"}

Floored == Raised(Swapped(file, fired), fired)

\* Step 1 has swapped the rewrites whose source is gone, and nothing else.
SwapInv ==
    pc = "swap" =>
        \A m \in Module :
            LET comesFrom == {r \in ActiveRewrites(file) : Rules[r].to = m}
                isSource == \E r \in ActiveRewrites(file) : Rules[r].from = m
            IN  IF \E r \in comesFrom : req[Rules[r].from] = NoVersion
                  THEN req[m] = requiredVersionFor(m, fired)
                  ELSE req[m] = file[m] \/ (isSource /\ req[m] = NoVersion)

\* Step 2 has raised the block to the floors of the rules before next.
RaiseInv ==
    pc = "raise" =>
        /\ current = Swapped(file, fired)
        /\ req = Raised(current, {r \in fired : r < next})

\* Step 3 has taken out some of the absorbed modules, step 4 has added some of
\* the missing companions.
DropInv ==
    pc = "drop" =>
        \A m \in Module :
            req[m] = Floored[m] \/ (m \in absorbedModules(fired) /\ req[m] = NoVersion)

AddInv ==
    pc = "add" =>
        \A m \in Module :
            IF Floored[m] # NoVersion /\ m \notin absorbedModules(fired)
              THEN req[m] = Floored[m]
              ELSE req[m] \in {NoVersion, companionRequirements(m, fired)}

\* An invocation that credits no rule has left the block as it is on disk, and
\* one that reports success leaves the block the reference definition gives.
OutcomeInv ==
    /\ pc # "done" => result = "none"
    /\ pc = "done" => result # "none"
    /\ pc \in Editing => before = file
    /\ (pc \in Editing /\ applied = {}) => req = file
    /\ pc = "write" => req = FixedRequires(file, fired)
    /\ Succeeded => file = FixedRequires(before, fired)

LoopInv == TypeOK /\ SwapInv /\ RaiseInv /\ DropInv /\ AddInv /\ OutcomeInv

LEMMA Rewrites ==
    ASSUME NEW r \in importRewriteRules
    PROVE  /\ r \in RuleId
           /\ Rules[r].from \in Module /\ Rules[r].to \in Module
           /\ \A s \in importRewriteRules :
                 /\ Rules[r].to # Rules[s].from
                 /\ Rules[r].from = Rules[s].from => r = s
BY RuleFields, RewritesIndependent DEF importRewriteRules, RuleType

\* Swapping one more rewrite: no other rewrite reads or writes its paths but to
\* give the same target the same version.
LEMMA SwapKeeps ==
    ASSUME LoopInv, NEW r \in importRewriteRules, Swap(r), pc' = "swap"
    PROVE  SwapInv'
<1>1. /\ TypeOK /\ pc = "swap" /\ before = file
      /\ req' = SwappedBy(r)
      /\ UNCHANGED <<file, fired>>
      /\ before[Rules[r].from] # NoVersion
  BY DEF Swap, Swappable, LoopInv, OutcomeInv, Editing, Return
<1>2. /\ r \in ActiveRewrites(file)
      /\ \A s \in ActiveRewrites(file) : s \in importRewriteRules
      /\ ActiveRewrites(file') = ActiveRewrites(file)
  BY <1>1 DEF ActiveRewrites
<1>3. \A m \in Module :
        req'[m] = IF m = Rules[r].from THEN NoVersion
                  ELSE IF m = Rules[r].to THEN requiredVersionFor(m, fired)
                  ELSE req[m]
  BY <1>1, Rewrites DEF SwappedBy, TypeOK, Requires
<1>4. ASSUME NEW s \in ActiveRewrites(file)
      PROVE  req'[Rules[s].from] = NoVersion <=> (s = r \/ req[Rules[s].from] = NoVersion)
  BY <1>2, <1>3, Rewrites
<1>5. ASSUME NEW m \in Module
      PROVE  IF \E s \in ActiveRewrites(file) :
                   Rules[s].to = m /\ req'[Rules[s].from] = NoVersion
               THEN req'[m] = requiredVersionFor(m, fired)
               ELSE \/ req'[m] = file[m]
                    \/ /\ \E s \in ActiveRewrites(file) : Rules[s].from = m
                       /\ req'[m] = NoVersion
  <2>0. IF \E s \in ActiveRewrites(file) : Rules[s].to = m /\ req[Rules[s].from] = NoVersion
          THEN req[m] = requiredVersionFor(m, fired)
          ELSE \/ req[m] = file[m]
               \/ /\ \E s \in ActiveRewrites(file) : Rules[s].from = m
                  /\ req[m] = NoVersion
    BY <1>1 DEF LoopInv, SwapInv
  <2>1. CASE m = Rules[r].from
    BY <1>2, <1>3, <2>1, Rewrites
  <2>2. CASE m = Rules[r].to
    BY <1>2, <1>3, <1>4, <2>2, Rewrites
  <2>3. CASE m # Rules[r].from /\ m # Rules[r].to
    BY <1>3, <1>4, <2>0, <2>3
  <2> QED BY <2>1, <2>2, <2>3
<1> QED BY <1>1, <1>2, <1>5 DEF SwapInv

\* When no rewrite is left to swap, all are.
LEMMA SwapComplete ==
    ASSUME LoopInv, SwapDone
    PROVE  req = Swapped(file, fired)
<1>1. TypeOK /\ pc = "swap" /\ before = file
  BY DEF SwapDone, LoopInv, OutcomeInv, Editing
<1>2. \A r \in ActiveRewrites(file) : r \in importRewriteRules /\ req[Rules[r].from] = NoVersion
  <2>1. TAKE r \in ActiveRewrites(file)
  <2>2. r \in importRewriteRules /\ ~ Swappable(r) /\ before[Rules[r].from] # NoVersion
    BY <1>1 DEF SwapDone, ActiveRewrites
  <2>3. \A s \in importRewriteRules : s < r => Rules[s].from # Rules[r].from
    <3>1. TAKE s \in importRewriteRules
    <3>2. s \in Nat /\ r \in Nat
      BY <2>2, Rewrites, RuleIds
    <3> QED BY <2>2, <3>2, Rewrites
  <2> QED BY <2>2, <2>3 DEF Swappable
<1>3. ASSUME NEW m \in Module
      PROVE  req[m] = Swapped(file, fired)[m]
  <2>0. IF \E s \in ActiveRewrites(file) : Rules[s].to = m /\ req[Rules[s].from] = NoVersion
          THEN req[m] = requiredVersionFor(m, fired)
          ELSE \/ req[m] = file[m]
               \/ /\ \E s \in ActiveRewrites(file) : Rules[s].from = m
                  /\ req[m] = NoVersion
    BY <1>1 DEF LoopInv, SwapInv
  <2>1. CASE \E r \in ActiveRewrites(file) : Rules[r].to = m
    BY <1>2, <2>0, <2>1 DEF Swapped
  <2>2. CASE ~ \E r \in ActiveRewrites(file) : Rules[r].to = m
    BY <1>2, <2>0, <2>2 DEF Swapped
  <2> QED BY <2>1, <2>2
<1> QED BY <1>1, <1>3 DEF Swapped, TypeOK, Requires

\* Step 2 sets a version outright, and by FloorsAscend never below one it set
\* before: setting the floor of one more rule is taking the maximum with it.
LEMMA RaiseKeeps ==
    ASSUME LoopInv, Raise
    PROVE  RaiseInv'
<1> DEFINE G == {r \in fired : r < next}
           H == {r \in fired : r < next + 1}
<1>1. /\ TypeOK /\ pc = "raise" /\ next \in RuleId /\ next \in Nat /\ next' = next + 1
      /\ UNCHANGED <<fired, current, file>>
  BY RuleIds DEF LoopInv, Raise
<1>2. /\ fired \in SUBSET RuleId /\ fired \in SUBSET Nat
      /\ G \in SUBSET RuleId /\ H \in SUBSET RuleId
      /\ H = IF next \in fired THEN G \cup {next} ELSE G
  <2>1. fired \in SUBSET RuleId /\ \A r \in fired : r \in Nat
    BY <1>1, RuleIds DEF TypeOK
  <2>2. H = IF next \in fired THEN G \cup {next} ELSE G
    <3>1. \A r \in fired : r < next + 1 <=> (r < next \/ r = next)
      BY <1>1, <2>1
    <3> QED BY <3>1
  <2> QED BY <2>1, <2>2
<1>3. current \in Requires /\ current = Swapped(file, fired) /\ req = Raised(current, G)
  BY <1>1 DEF LoopInv, RaiseInv, TypeOK
<1>4. req' = [m \in Module |->
                IF next \in fired /\ m \in unmetFloors(next, current)
                  THEN Rules[next].floors[m] ELSE req[m]]
  <2>1. CASE next \in fired /\ unmetFloors(next, current) # {}
    BY <2>1 DEF Raise, RaisedBy
  <2>2. CASE ~ (next \in fired /\ unmetFloors(next, current) # {})
    BY <1>1, <2>2 DEF Raise, TypeOK, Requires
  <2> QED BY <2>1, <2>2
<1> HIDE DEF G, H
<1>5. ASSUME NEW m \in Module
      PROVE  req'[m] = Raised(current, H)[m]
  <2> DEFINE floor == Rules[next].floors[m]
             S == {current[m]} \cup {Rules[r].floors[m] : r \in G}
  <2>1. req'[m] = IF next \in fired /\ m \in unmetFloors(next, current) THEN floor ELSE req[m]
    BY <1>4
  <2>2. CASE next \notin fired
    BY <1>2, <1>3, <2>1, <2>2
  <2>3. CASE current[m] = NoVersion
    BY <1>3, <2>1, <2>3 DEF Raised, unmetFloors
  <2>4. CASE next \in fired /\ current[m] # NoVersion
    <3>1. req[m] = Max(S)
      BY <1>3, <2>4 DEF Raised
    <3>2. Raised(current, H)[m] = Max(S \cup {floor})
      <4>1. {current[m]} \cup {Rules[r].floors[m] : r \in H} = S \cup {floor}
        BY <1>2, <2>4
      <4> QED BY <2>4, <4>1 DEF Raised
    <3>3. /\ S \in SUBSET MaybeVersion /\ current[m] \in S
          /\ current[m] \in MaybeVersion /\ floor \in MaybeVersion
      BY <1>1, <1>2, <1>3, RuleFields DEF Requires
    <3>4. S \in SUBSET Nat /\ current[m] \in Nat /\ floor \in Nat
          /\ HighestRank \in Nat /\ \A v \in S : v <= HighestRank
      BY <3>3, ModuleAssumption DEF MaybeVersion
    <3>5. ASSUME current[m] < floor, NEW v \in S PROVE v <= floor
      <4>1. CASE v = current[m]
        BY <3>4, <3>5, <4>1
      <4>2. CASE v # current[m]
        <5>1. PICK r \in G : v = Rules[r].floors[m]
          BY <4>2
        <5>2. r \in RuleId /\ r \in Nat /\ r < next
          BY <1>2, <5>1 DEF G
        <5>3. floor # NoVersion
          BY <3>4, <3>5 DEF NoVersion
        <5> QED BY <1>1, <5>1, <5>2, <5>3, FloorsAscend
      <4> QED BY <4>1, <4>2
    <3> HIDE DEF S, floor
    <3>6. CASE current[m] < floor
      <4>1. Max(S \cup {floor}) = floor
        BY <3>4, <3>5, <3>6, MaxIs
      <4>2. m \in unmetFloors(next, current)
        BY <2>4, <3>6 DEF unmetFloors, floor
      <4> QED BY <2>1, <2>4, <3>2, <4>1, <4>2
    <3>7. CASE ~ (current[m] < floor)
      <4>1. Max(S) \in S /\ \A v \in S : v <= Max(S)
        BY <3>3, <3>4, MaxExists
      <4>2. /\ Max(S) \in S \cup {floor} /\ S \cup {floor} \in SUBSET Nat
            /\ \A v \in S \cup {floor} : v <= Max(S)
        <5>1. current[m] <= Max(S) /\ Max(S) \in Nat
          BY <3>3, <3>4, <4>1
        <5>2. floor <= Max(S)
          BY <3>4, <3>7, <5>1
        <5> QED BY <3>4, <4>1, <5>2
      <4>3. Max(S \cup {floor}) = Max(S)
        BY <4>2, MaxIs
      <4>4. m \notin unmetFloors(next, current)
        BY <3>7 DEF unmetFloors, floor
      <4> QED BY <2>1, <3>1, <3>2, <4>3, <4>4
    <3> QED BY <3>6, <3>7
  <2> QED BY <2>2, <2>3, <2>4
<1>6. req' = Raised(current, H)
  BY <1>4, <1>5 DEF Raised
<1> QED BY <1>1, <1>3, <1>6 DEF RaiseInv, H

\* When the loop over the rules is over, every fired rule has had its turn.
LEMMA RaiseComplete ==
    ASSUME LoopInv, RaiseDone
    PROVE  req = Floored
<1>1. {r \in fired : r < next} = fired
  <2>1. \A r \in fired : r \in 1 .. Len(Rules) /\ Len(Rules) \in Nat
    BY RuleIds DEF LoopInv, TypeOK
  <2>2. Len(Rules) \in Nat /\ next \in Nat /\ next > Len(Rules)
    BY RuleIds DEF RaiseDone, LoopInv, TypeOK
  <2> QED BY <2>1, <2>2
<1> QED BY <1>1 DEF RaiseDone, LoopInv, RaiseInv, Floored

LEMMA AddComplete ==
    ASSUME LoopInv, AddDone
    PROVE  req = FixedRequires(file, fired)
<1>1. TypeOK /\ pc = "add" /\ fired \in SUBSET RuleId
  BY DEF LoopInv, AddDone, TypeOK
<1>2. ASSUME NEW m \in Module
      PROVE  req[m] = FixedRequires(file, fired)[m]
  <2>1. CASE Floored[m] # NoVersion /\ m \notin absorbedModules(fired)
    BY <1>1, <2>1 DEF LoopInv, AddInv, FixedRequires, Completed, Floored
  <2>2. CASE ~ (Floored[m] # NoVersion /\ m \notin absorbedModules(fired))
    <3>1. FixedRequires(file, fired)[m] = companionRequirements(m, fired)
      BY <2>2 DEF FixedRequires, Completed, Floored
    <3>2. req[m] \in {NoVersion, companionRequirements(m, fired)}
      BY <1>1, <2>2 DEF LoopInv, AddInv
    <3>3. CompanionRules(m, fired) # {} => req[m] # NoVersion
      BY DEF AddDone
    <3> QED BY <1>1, <3>1, <3>2, <3>3, CompanionsOfAll
  <2> QED BY <2>1, <2>2
<1> QED BY <1>1, <1>2 DEF FixedRequires, Completed, TypeOK, Requires

LEMMA InitLoop == Init => LoopInv
BY InitType DEF Init, LoopInv, SwapInv, RaiseInv, DropInv, AddInv, OutcomeInv, Succeeded, Editing

LEMMA StepLoop == LoopInv /\ [Next]_vars => LoopInv'
<1> SUFFICES ASSUME LoopInv, [Next]_vars PROVE LoopInv'
  OBVIOUS
<1>0. TypeOK /\ TypeOK' /\ fired \in SUBSET RuleId
  BY StepType DEF LoopInv, TypeOK
<1> USE <1>0 DEF Return, Editing, Succeeded
<1>1. CASE Read
  <2>1. ASSUME pc' = "swap" PROVE SwapInv'
    <3>1. req' = file' /\ UNCHANGED <<file, fired>>
      BY <1>1, <2>1 DEF Read
    <3>2. \A r \in ActiveRewrites(file') : req'[Rules[r].from] # NoVersion
      BY <3>1 DEF ActiveRewrites
    <3> QED BY <3>1, <3>2 DEF SwapInv
  <2> QED BY <1>1, <2>1 DEF Read, LoopInv, SwapInv, RaiseInv, DropInv, AddInv, OutcomeInv
<1>2. ASSUME NEW r \in importRewriteRules, Swap(r) PROVE LoopInv'
  <2>1. CASE pc' = "swap"
    <3>1. SwapInv'
      BY <1>2, <2>1, SwapKeeps
    <3>2. applied' # {}
      BY <1>2, <2>1 DEF Swap
    <3> QED BY <1>2, <2>1, <3>1, <3>2
            DEF Swap, LoopInv, RaiseInv, DropInv, AddInv, OutcomeInv
  <2>2. CASE pc' # "swap"
    BY <1>2, <2>2 DEF Swap, LoopInv, SwapInv, RaiseInv, DropInv, AddInv, OutcomeInv
  <2> QED BY <2>1, <2>2
<1>3. CASE SwapDone
  <2>1. req = Swapped(file, fired)
    BY <1>3, SwapComplete
  <2>2. {r \in fired : r < 1} = {}
    <3>1. \A r \in fired : r \in 1 .. Len(Rules) /\ Len(Rules) \in Nat
      BY RuleIds
    <3> QED BY <3>1
  <2>3. Raised(req, {}) = req
    <3>1. \A m \in Module : Raised(req, {})[m] = req[m]
      BY RaisedVersions DEF TypeOK
    <3> QED BY <3>1 DEF Raised, TypeOK, Requires
  <2> QED BY <1>3, <2>1, <2>2, <2>3
          DEF SwapDone, LoopInv, SwapInv, RaiseInv, DropInv, AddInv, OutcomeInv
<1>4. CASE Raise
  <2>1. RaiseInv'
    BY <1>4, RaiseKeeps
  <2>2. /\ pc = "raise" /\ pc' = "raise" /\ UNCHANGED <<file, fired, before, result>>
        /\ applied' = {} => applied = {} /\ req' = req
    BY <1>4 DEF Raise
  <2> QED BY <2>1, <2>2 DEF LoopInv, SwapInv, DropInv, AddInv, OutcomeInv
<1>5. CASE RaiseDone
  <2>1. req = Floored
    BY <1>5, RaiseComplete
  <2> QED BY <1>5, <2>1
          DEF RaiseDone, LoopInv, SwapInv, RaiseInv, DropInv, AddInv, OutcomeInv, Floored
<1>6. ASSUME NEW m \in Module, Drop(m) PROVE LoopInv'
  <2>1. /\ req' = [req EXCEPT ![m] = NoVersion] /\ m \in absorbedModules(fired)
        /\ pc = "drop" /\ UNCHANGED <<file, fired, before, result, pc>>
        /\ applied' # {} /\ req \in Requires
    BY <1>6 DEF Drop, TypeOK
  <2>2. DropInv'
    BY <2>1 DEF LoopInv, DropInv, Floored, Requires
  <2> QED BY <2>1, <2>2 DEF LoopInv, SwapInv, RaiseInv, AddInv, OutcomeInv
<1>7. CASE DropDone
  <2>1. /\ pc = "drop" /\ pc' = "add" /\ UNCHANGED <<file, fired, before, result, applied, req>>
        /\ \A m \in absorbedModules(fired) : req[m] = NoVersion
    BY <1>7 DEF DropDone
  <2>2. AddInv'
    BY <2>1 DEF LoopInv, DropInv, AddInv, Floored
  <2> QED BY <2>1, <2>2 DEF LoopInv, SwapInv, RaiseInv, DropInv, OutcomeInv
<1>8. ASSUME NEW m \in Module, Add(m) PROVE LoopInv'
  <2>1. /\ req' = [req EXCEPT ![m] = companionRequirements(m, fired)]
        /\ req[m] = NoVersion /\ req \in Requires
        /\ pc = "add" /\ UNCHANGED <<file, fired, before, result, pc>>
        /\ applied' # {}
    BY <1>8 DEF Add, TypeOK
  <2>2. AddInv'
    BY <2>1 DEF LoopInv, AddInv, Floored, Requires
  <2> QED BY <2>1, <2>2 DEF LoopInv, SwapInv, RaiseInv, DropInv, OutcomeInv
<1>9. CASE AddDone
  <2>1. req = FixedRequires(file, fired)
    BY <1>9, AddComplete
  <2> QED BY <1>9, <2>1
          DEF AddDone, LoopInv, SwapInv, RaiseInv, DropInv, AddInv, OutcomeInv
<1>10. CASE Write
  BY <1>10 DEF Write, LoopInv, SwapInv, RaiseInv, DropInv, AddInv, OutcomeInv
<1>11. CASE Again
  BY <1>11 DEF Again, LoopInv, SwapInv, RaiseInv, DropInv, AddInv, OutcomeInv
<1>12. CASE UNCHANGED vars
  BY <1>12 DEF vars, LoopInv, SwapInv, RaiseInv, DropInv, AddInv, OutcomeInv, Floored
<1>13. CASE Finished
  BY <1>12, <1>13 DEF Finished
<1> QED
  BY <1>1, <1>2, <1>3, <1>4, <1>5, <1>6, <1>7, <1>8, <1>9, <1>10, <1>11, <1>12, <1>13
     DEF Next, Step

LEMMA Looping == Spec => []LoopInv
<1>1. Init => LoopInv
  BY InitLoop
<1>2. LoopInv /\ [Next]_vars => LoopInv'
  BY StepLoop
<1> QED BY <1>1, <1>2, PTL DEF Spec

LEMMA Finishing ==
    ASSUME LoopInv, Succeeded
    PROVE  /\ file = FixedRequires(before, fired)
           /\ Settled(file, fired)
           /\ \A m \in Module : Sourced(file[m], m, before, fired)
<1>1. file = FixedRequires(before, fired)
  BY DEF LoopInv, OutcomeInv
<1>2. before \in Requires /\ fired \in SUBSET RuleId
  BY DEF LoopInv, TypeOK
<1> QED BY <1>1, <1>2, FixedVersions

\* A go.mod fixGoMod reports done, rewritten or left as it was, requires no
\* module below what a fired rule needs, whatever the order of its loops.
THEOREM FloorsAreMet == Spec => []FloorsMet
<1>1. LoopInv => FloorsMet
  BY Finishing DEF FloorsMet, Settled, Meets
<1> QED BY <1>1, Looping, PTL

\* Each version in it was there before, or is the baseline of the target or the
\* floor of a rule that fired: no other rule moves a consumer.
THEOREM VersionsAreAccountedFor == Spec => []OnlyFiredVersions
<1>1. LoopInv => OnlyFiredVersions
  BY Finishing DEF OnlyFiredVersions, Sourced
<1> QED BY <1>1, Looping, PTL

-----------------------------------------------------------------------------
(* A second run *)

\* An invocation that follows a successful one meets a settled go.mod, in which
\* none of the four loops finds anything to do.
SettledInv ==
    previous \in {"nil", "applied"} =>
        /\ pc # "done" => Settled(file, fired)
        /\ pc \in Editing => applied = {} /\ pc # "write"
        /\ pc = "raise" => current = file
        /\ Succeeded => result = "nil"

LEMMA StepSettled == LoopInv /\ SettledInv /\ [Next]_vars => SettledInv'
<1> SUFFICES ASSUME LoopInv, SettledInv, [Next]_vars PROVE SettledInv'
  OBVIOUS
<1> USE DEF Return, Editing, Succeeded
<1>0. pc \in Editing => before = file /\ (applied = {} => req = file)
  BY DEF LoopInv, OutcomeInv
<1>1. CASE Read
  BY <1>1 DEF Read, SettledInv
<1>2. ASSUME NEW r \in importRewriteRules, Swap(r) PROVE SettledInv'
  <2>1. pc = "swap" /\ r \in ActiveRewrites(file)
    BY <1>0, <1>2 DEF Swap, Swappable, ActiveRewrites
  <2> QED BY <1>2, <2>1 DEF Swap, SettledInv, Settled
<1>3. CASE SwapDone
  BY <1>0, <1>3 DEF SwapDone, SettledInv
<1>4. CASE Raise
  <2>1. ASSUME previous \in {"nil", "applied"}, next \in fired
        PROVE  unmetFloors(next, current) = {}
    <3>1. Meets(file, fired) /\ current = file
      BY <1>4, <2>1 DEF Raise, SettledInv, Settled
    <3>2. \A m \in Module : file[m] \in Nat /\ Rules[next].floors[m] \in Nat
      BY <1>4, RuleFields, ModuleAssumption DEF Raise, LoopInv, TypeOK, Requires, MaybeVersion
    <3> QED BY <2>1, <3>1, <3>2 DEF unmetFloors, Meets
  <2> QED BY <1>4, <2>1 DEF Raise, SettledInv
<1>5. CASE RaiseDone
  BY <1>5 DEF RaiseDone, SettledInv
<1>6. ASSUME NEW m \in Module, Drop(m) PROVE SettledInv'
  BY <1>0, <1>6 DEF Drop, SettledInv, Settled
<1>7. CASE DropDone
  BY <1>7 DEF DropDone, SettledInv
<1>8. ASSUME NEW m \in Module, Add(m) PROVE SettledInv'
  BY <1>0, <1>8 DEF Add, SettledInv, Settled
<1>9. CASE AddDone
  BY <1>9 DEF AddDone, SettledInv
<1>10. CASE Write
  BY <1>10 DEF Write, SettledInv
<1>11. CASE Again
  <2>1. result \in {"nil", "applied"} => Settled(file, fired)
    BY <1>11, Finishing DEF Again
  <2> QED BY <1>11, <2>1 DEF Again, SettledInv
<1>12. CASE UNCHANGED vars
  BY <1>12 DEF vars, SettledInv
<1>13. CASE Finished
  BY <1>12, <1>13 DEF Finished
<1> QED
  BY <1>1, <1>2, <1>3, <1>4, <1>5, <1>6, <1>7, <1>8, <1>9, <1>10, <1>11, <1>12, <1>13
     DEF Next, Step

\* A go.mod that --fix has been through is left as it is the next time, for any
\* rule set whose companions stay: fixGoMod is idempotent.
THEOREM SecondRunChangesNothing == Spec => []SecondRunIsNoOp
<1>1. Init => SettledInv
  BY DEF Init, SettledInv
<1>2. LoopInv /\ SettledInv /\ [Next]_vars => SettledInv'
  BY StepSettled
<1>3. SettledInv => SecondRunIsNoOp
  BY DEF SettledInv, SecondRunIsNoOp
<1> QED BY <1>1, <1>2, <1>3, Looping, PTL DEF Spec

-----------------------------------------------------------------------------
(* Refinement *)

\* GoModSpec speaks of the same block.
LEMMA AbstractFixed ==
    ASSUME NEW block, NEW F
    PROVE  Abstract!FixedRequires(block, F) = FixedRequires(block, F)
BY DEF Abstract!FixedRequires, FixedRequires, Abstract!Completed, Completed, Abstract!Raised,
       Raised, Abstract!Swapped, Swapped, Abstract!ActiveRewrites, ActiveRewrites,
       Abstract!importRewriteRules, importRewriteRules, Abstract!requiredVersionFor,
       requiredVersionFor, Abstract!absorbedModules, absorbedModules,
       Abstract!AbsorbingRules, AbsorbingRules, Abstract!companionRequirements,
       companionRequirements, Abstract!CompanionRules, CompanionRules,
       Abstract!RuleId, RuleId, Abstract!NoVersion, NoVersion, Abstract!NoPath, NoPath,
       Abstract!Max, Max

LEMMA StepImplements ==
    LoopInv /\ [Next]_vars => [Abstract!Next]_(Abstract!vars)
<1> SUFFICES ASSUME LoopInv, [Next]_vars PROVE [Abstract!Next]_(Abstract!vars)
  OBVIOUS
<1> USE DEF Abstract!vars, Abstract!Next, Return
<1>1. /\ pc # "done" => result = "none"
      /\ pc = "done" => result # "none"
      /\ pc = "write" => req = Abstract!FixedRequires(file, fired)
      /\ (pc = "add" /\ applied = {}) => req = file
  BY AbstractFixed DEF LoopInv, OutcomeInv, Editing
<1>2. CASE Read
  BY <1>1, <1>2 DEF Read, Abstract!Fail
<1>3. ASSUME NEW r \in importRewriteRules, Swap(r) PROVE [Abstract!Next]_(Abstract!vars)
  BY <1>1, <1>3 DEF Swap, Abstract!Fail
<1>4. CASE SwapDone \/ Raise \/ RaiseDone \/ DropDone
  BY <1>4 DEF SwapDone, Raise, RaiseDone, DropDone
<1>5. ASSUME NEW m \in Module, Drop(m) \/ Add(m) PROVE UNCHANGED Abstract!vars
  BY <1>5 DEF Drop, Add
\* The one place where the file is found to be what it should be.
<1>6. CASE AddDone
  <2>1. req = Abstract!FixedRequires(file, fired)
    BY <1>6, AddComplete, AbstractFixed
  <2> QED BY <1>1, <1>6, <2>1 DEF AddDone, Abstract!Keep
\* The one place where it becomes so.
<1>7. CASE Write
  BY <1>1, <1>7 DEF Write, Abstract!Rewrite, Abstract!Fail
<1>8. CASE Again
  BY <1>1, <1>8 DEF Again, Abstract!Again
<1>9. CASE UNCHANGED vars \/ Finished
  BY <1>9 DEF vars, Finished
<1> QED
  BY <1>2, <1>3, <1>4, <1>5, <1>6, <1>7, <1>8, <1>9 DEF Next, Step

\* The loops of fixGoMod, in any order they take, compute the four functions of
\* GoModResult one after the other, and show the result in a single step.
THEOREM Implements == Spec => ImplementsGoModSpec
<1>1. Init => Abstract!Init
  BY DEF Init, Abstract!Init, Abstract!RuleId, RuleId
<1>2. LoopInv /\ [Next]_vars => [Abstract!Next]_(Abstract!vars)
  BY StepImplements
<1> QED BY <1>1, <1>2, Looping, PTL DEF Spec, ImplementsGoModSpec, Abstract!Spec

=============================================================================
