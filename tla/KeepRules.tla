-------------------------------- MODULE KeepRules --------------------------------
(***************************************************************************)
(* Which copy of a duplicate group survives: the keep rules of             *)
(* internal/scanner/keeprules.go and the plan that buildRecyclePlan        *)
(* (internal/gui/app_windows.go) makes of the checked rows.                *)
(*                                                                         *)
(* A file is its path.  Two paths can name one physical file: a file that  *)
(* another program renames back and forth during a scan is listed, and     *)
(* hashed, once under each name.                                           *)
(***************************************************************************)
EXTENDS Naturals, Sequences, FiniteSets

CONSTANTS
  Files,
  ModifiedAt,        \* time stamp of each file
  PathRank,          \* place of each path in the order of strings
  Copy,              \* physical file behind each path
  PriorityFolders,
  Below              \* files at or below each priority folder

ASSUME KeepRulesAssumption ==
  /\ IsFiniteSet(Files)
  /\ ModifiedAt \in [Files -> Nat]
  /\ PathRank \in [Files -> Nat]
  /\ \A f, g \in Files : PathRank[f] = PathRank[g] => f = g
  /\ DOMAIN Copy = Files
  /\ Below \in [PriorityFolders -> SUBSET Files]

--------------------------------------------------------------------------------
(* keeprules.go *)

Policies == [strategy : {"keep-newest", "keep-oldest"},
             priority : Seq(PriorityFolders)]

(* The priority folders some member of the group lies below. *)
Tiers(group, policy) ==
  {i \in DOMAIN policy.priority : group \cap Below[policy.priority[i]] # {}}

(* The members below the earliest such folder; without one, all of them.    *)
Candidates(group, policy) ==
  {f \in group :
     \A i \in Tiers(group, policy) :
       \/ f \in Below[policy.priority[i]]
       \/ \E j \in Tiers(group, policy) : j < i}

(* sort.Slice: by time in the direction of the strategy, then by path.      *)
Precedes(f, g, strategy) ==
  \/ strategy = "keep-oldest" /\ ModifiedAt[f] < ModifiedAt[g]
  \/ strategy = "keep-newest" /\ ModifiedAt[f] > ModifiedAt[g]
  \/ ModifiedAt[f] = ModifiedAt[g] /\ PathRank[f] < PathRank[g]

SelectKeeper(group, policy) ==
  CHOOSE k \in Candidates(group, policy) :
    \A f \in Candidates(group, policy) \ {k} : Precedes(k, f, policy.strategy)

Selection(group, policy) ==
  LET keeper == SelectKeeper(group, policy)
  IN [group |-> group, keep |-> keeper, marked |-> group \ {keeper}]

(* validateSelectionInvariant *)
IsValid(selection) ==
  /\ Cardinality(selection.group) >= 2
  /\ Cardinality(selection.marked) < Cardinality(selection.group)
  /\ selection.keep \in selection.group
  /\ selection.marked \subseteq selection.group
  /\ selection.keep \notin selection.marked

Selections(groups, policy) ==
  {Selection(g, policy) : g \in {h \in groups : Cardinality(h) >= 2}}

(* One invalid selection rejects them all. *)
PolicyAccepted(groups, policy) ==
  \A s \in Selections(groups, policy) : IsValid(s)

Marked(groups, policy) == UNION {s.marked : s \in Selections(groups, policy)}

--------------------------------------------------------------------------------
(* buildRecyclePlan *)

Copies(files) == {Copy[f] : f \in files}

\* mutant: the paths are counted, not the physical copies behind them
CoversEveryPath(group, selected) == Cardinality(selected) >= Cardinality(group)

CoversEveryCopy(group, selected) ==
  Cardinality(Copies(selected)) >= Cardinality(Copies(group))

Touched(groups, checked) == {g \in groups : g \cap checked # {}}

(* A plan that would cover every copy of some group is refused as a whole.  *)
PlanRefused(groups, checked) ==
  \E g \in Touched(groups, checked) : CoversEveryCopy(g, g \cap checked)

(* The plan; empty when it is refused or nothing is checked. *)
PlanFor(groups, checked) ==
  IF PlanRefused(groups, checked) THEN {}
  ELSE {[group |-> g, selected |-> g \cap checked] : g \in Touched(groups, checked)}

================================================================================
