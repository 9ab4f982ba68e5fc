------------------------------ MODULE JwxRules ------------------------------
(***************************************************************************)
(* The rule set of a migration (rules.go, v3-to-v4.yaml) as the go.mod     *)
(* rewriter and the version-floor pass see it, and the pure functions they *)
(* compute from it (version_floor.go, fix_absorb.go, fix_gomod.go).        *)
(*                                                                         *)
(* Data abstraction.  A version is its rank, from 1 to HighestRank, in     *)
(* semver order among the versions at hand; NoVersion stands for Go's "".  *)
(* The require block of a go.mod is a function from module paths to        *)
(* versions, NoVersion where the path is not required.                     *)
(* ext is extension_module already reduced to the path of its module, and  *)
(* to is the path a rule leads to: v4, or absorbed_into where it has one.  *)
(***************************************************************************)
EXTENDS Naturals, Sequences, FiniteSetsExt

CONSTANTS
    Module,        \* module paths a rule or a go.mod may name
    StdlibModule,  \* "module" paths that are really standard library packages
    Target,        \* targetImportPrefix, the rule set's `to`
    Baseline,      \* targetMinimumVersion, its minimum_target_version
    HighestRank,   \* rank of the highest version at hand
    Rules          \* the compiled rules, in the order of the YAML file

NoPath == ""
NoVersion == 0
MaybeVersion == 0 .. HighestRank

Kind == {"import_change", "moved_to_extension", "extension_absorbed", "other"}

RuleType ==
    [ kind       : Kind,
      allPkgs    : BOOLEAN,               \* package: all
      mechanical : BOOLEAN,
      from       : Module \cup {NoPath},
      to         : Module \cup {NoPath},
      ext        : Module \cup {NoPath},
      go         : MaybeVersion,          \* requires.go
      floors     : [Module -> MaybeVersion] ]   \* requires.modules

Requires == [Module -> MaybeVersion]

RuleId == DOMAIN Rules

ASSUME ModuleAssumption ==
    /\ Target \in Module
    /\ NoPath \notin Module
    /\ StdlibModule \subseteq Module
    /\ HighestRank \in Nat
    /\ Baseline \in 1 .. HighestRank

ASSUME RulesAssumption == Rules \in Seq(RuleType)

-----------------------------------------------------------------------------
(* version_floor.go *)

\* Go 1.27 and later satisfy a floor of 1.27; an absent directive satisfies none.
goDirectiveAtLeast(projectGo, floor) ==
    /\ projectGo # NoVersion
    /\ floor # NoVersion
    /\ floor <= projectGo

\* Mutant: the maximum over the whole rule set.
requiredVersionFor_AllRules(path, fired) ==
    Max({NoVersion}
          \cup (IF path = Target THEN {Baseline} ELSE {})
          \cup {Rules[r].floors[path] : r \in RuleId})

\* The version to write for path: the baseline, for the target only, or the
\* highest floor a fired rule declares for it.
requiredVersionFor(path, fired) ==
    Max({NoVersion}
          \cup (IF path = Target THEN {Baseline} ELSE {})
          \cup {Rules[r].floors[path] : r \in fired})

\* Mutant: a module exactly at the floor is reported too.
unmetFloors_AtFloor(r, current) ==
    {m \in Module : /\ current[m] # NoVersion
                    /\ Rules[r].floors[m] # NoVersion
                    /\ current[m] <= Rules[r].floors[m]}

\* The modules rule r finds present but older than it needs.
unmetFloors(r, current) ==
    {m \in Module : /\ current[m] # NoVersion
                    /\ current[m] < Rules[r].floors[m]}

\* The rules that point at path as a companion and declare a floor for it.
\* Packages of the target module are not modules of their own.
CompanionRules(path, fired) ==
    {r \in fired : /\ Rules[r].kind = "moved_to_extension"
                   /\ Rules[r].ext = path
                   /\ path # Target
                   /\ Rules[r].floors[path] # NoVersion}

companionRequirements(path, fired) ==
    Max({NoVersion} \cup {Rules[r].floors[path] : r \in CompanionRules(path, fired)})

(* fix_absorb.go *)

AbsorbingRules(path, fired) ==
    {r \in fired : /\ Rules[r].kind = "extension_absorbed"
                   /\ Rules[r].ext = path}

absorbedModules(fired) == {m \in Module : AbsorbingRules(m, fired) # {}}

(* fix_gomod.go *)

\* Only whole-module rewrites count, and a target in the standard library has
\* no module to require.
importRewriteRules ==
    {r \in RuleId : /\ Rules[r].kind = "import_change"
                    /\ Rules[r].allPkgs
                    /\ Rules[r].mechanical
                    /\ Rules[r].from # NoPath
                    /\ Rules[r].to # NoPath
                    /\ Rules[r].to \notin StdlibModule}

-----------------------------------------------------------------------------
(* What fix_gomod.go takes for granted of a rule file: nothing checks it, *)
(* and both rule files of the repository satisfy it.                       *)

\* A path is rewritten by one rule only and is not itself a rewrite's target:
\* both rule sets have a single rewrite, from their `from` to their `to`.
ASSUME RewritesIndependent ==
    \A r, s \in importRewriteRules :
        /\ Rules[r].to # Rules[s].from
        /\ Rules[r].from = Rules[s].from => r = s

\* Only the rules that move code to a companion declare a floor for it.  Step 4
\* looks at the floors of those rules alone, after step 2 is over, so it relies
\* on this; the floors of both rule sets are all for the target module.
ASSUME CompanionFloors ==
    \A r, s \in RuleId : \A m \in Module :
        (Rules[s].floors[m] # NoVersion /\ CompanionRules(m, {r}) # {})
            => CompanionRules(m, {s}) # {}

\* A companion is neither absorbed nor rewritten by another rule: step 4 would
\* add it back each time steps 1 and 3 have taken it out.
ASSUME CompanionsStay ==
    \A m \in Module : CompanionRules(m, RuleId) # {} =>
        /\ m \notin absorbedModules(RuleId)
        /\ \A r \in importRewriteRules : Rules[r].from # m

=============================================================================
