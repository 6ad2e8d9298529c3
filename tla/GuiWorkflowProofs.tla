---------------------------- MODULE GuiWorkflowProofs ----------------------------
(***************************************************************************)
(* Theorems about the keep rules and about the window that applies them,   *)
(* for every inventory, every outcome of the matcher and every bound: what *)
(* the rules and the plan promise; that no plan that would take the last   *)
(* physical copy of a group is confirmed or executed; that the window      *)
(* drives the application state by its own steps only; and that what it    *)
(* shows belongs to the screen.                                            *)
(***************************************************************************)
EXTENDS GuiWorkflow, FiniteSetTheorems, SequenceTheorems, TLAPS

--------------------------------------------------------------------------------
(* Precedes is a strict total order: sort.Slice has one result.             *)
LEMMA PrecedesOrders ==
  ASSUME NEW s \in {"keep-newest", "keep-oldest"}
  PROVE  /\ \A f, g \in Files : f = g \/ Precedes(f, g, s) \/ Precedes(g, f, s)
         /\ \A f, g \in Files : Precedes(f, g, s) => ~Precedes(g, f, s)
         /\ \A f, g, h \in Files :
              Precedes(f, g, s) /\ Precedes(g, h, s) => Precedes(f, h, s)
<1>1. \A f \in Files : ModifiedAt[f] \in Nat /\ PathRank[f] \in Nat
  BY KeepRulesAssumption
<1>2. \A f, g \in Files : f = g \/ Precedes(f, g, s) \/ Precedes(g, f, s)
  BY <1>1, KeepRulesAssumption DEF Precedes
<1>3. \A f, g \in Files : Precedes(f, g, s) => ~Precedes(g, f, s)
  BY <1>1 DEF Precedes
<1>4. \A f, g, h \in Files :
        Precedes(f, g, s) /\ Precedes(g, h, s) => Precedes(f, h, s)
  BY <1>1 DEF Precedes
<1> QED BY <1>2, <1>3, <1>4

(* Every non-empty set of files has a first one in that order.              *)
LEMMA FirstExists ==
  ASSUME NEW s \in {"keep-newest", "keep-oldest"},
         NEW C \in SUBSET Files, C # {}
  PROVE  \E k \in C : \A f \in C \ {k} : Precedes(k, f, s)
<1> DEFINE Down(x) == {y \in C : y = x \/ Precedes(y, x, s)}
           T == {Down(x) : x \in C}
<1>1. T \subseteq FiniteSubsetsOf(C)
  <2>1. IsFiniteSet(C)
    BY KeepRulesAssumption, FS_Subset
  <2>2. FiniteSubsetsOf(C) = SUBSET C
    BY <2>1, FS_FiniteSubsetsOfFinite
  <2> QED BY <2>2
<1>2. T # {}
  OBVIOUS
<1>3. \E m \in T : \A n \in T : ~(<<n, m>> \in StrictSubsetOrdering(C))
  <2> HIDE DEF T
  <2> QED BY <1>1, <1>2, FS_StrictSubsetOrderingWellFounded, WFMin
<1>4. PICK k \in C : \A x \in C : ~(<<Down(x), Down(k)>> \in StrictSubsetOrdering(C))
  BY <1>3
<1>5. ASSUME NEW f \in C, Precedes(f, k, s) PROVE FALSE
  <2>1. Down(f) \subseteq Down(k)
    BY <1>5, PrecedesOrders
  <2>2. k \notin Down(f)
    BY <1>5, PrecedesOrders
  <2>3. k \in Down(k)
    OBVIOUS
  <2>4. <<Down(f), Down(k)>> \in StrictSubsetOrdering(C)
    BY <2>1, <2>2, <2>3 DEF StrictSubsetOrdering
  <2> QED BY <2>4, <1>4
<1> QED BY <1>5, PrecedesOrders

(* Some member is a candidate, whatever the priority folders.               *)
LEMMA CandidateExists ==
  ASSUME NEW group \in SUBSET Files, group # {}, NEW policy \in Policies
  PROVE  Candidates(group, policy) # {}
<1> DEFINE R == OpToRel(<, Nat)
           T == Tiers(group, policy)
<1>1. CASE T = {}
  BY <1>1 DEF Candidates
<1>2. CASE T # {}
  <2>1. T \subseteq Nat
    BY DEF Tiers, Policies
  <2>2. \E i \in T : \A j \in T : ~(<<j, i>> \in R)
    <3> HIDE DEF T, R
    <3>1. IsWellFoundedOn(R, Nat)
      BY NatLessThanWellFounded DEF R
    <3> QED BY <1>2, <2>1, <3>1, WFMin
  <2>3. PICK i \in T : \A j \in T : ~(j < i)
    BY <2>1, <2>2 DEF OpToRel
  <2>4. PICK f \in group : f \in Below[policy.priority[i]]
    BY <2>3 DEF Tiers
  <2>5. \A j \in T : j = i \/ i < j
    BY <2>1, <2>3
  <2>6. f \in Candidates(group, policy)
    BY <2>3, <2>4, <2>5 DEF Candidates
  <2> QED BY <2>6
<1> QED BY <1>1, <1>2

LEMMA KeeperIsFirst ==
  ASSUME NEW group \in SUBSET Files, group # {}, NEW policy \in Policies
  PROVE  /\ SelectKeeper(group, policy) \in Candidates(group, policy)
         /\ \A f \in Candidates(group, policy) \ {SelectKeeper(group, policy)} :
              Precedes(SelectKeeper(group, policy), f, policy.strategy)
<1>1. Candidates(group, policy) # {}
  BY CandidateExists
<1>2. Candidates(group, policy) \subseteq Files
  BY DEF Candidates
<1>3. policy.strategy \in {"keep-newest", "keep-oldest"}
  BY DEF Policies
<1>4. \E k \in Candidates(group, policy) :
        \A f \in Candidates(group, policy) \ {k} : Precedes(k, f, policy.strategy)
  BY <1>1, <1>2, <1>3, FirstExists
<1> QED BY <1>4 DEF SelectKeeper

--------------------------------------------------------------------------------
(* The keeper is the right one.  It is below the first priority folder that *)
(* any member is below, if there is one, and no other member of that tier   *)
(* is newer, or older, as the strategy has it (keeprules.go:110-143).       *)
THEOREM KeeperFollowsThePolicy ==
  ASSUME NEW group \in SUBSET Files, group # {}, NEW policy \in Policies,
         NEW keeper, keeper = SelectKeeper(group, policy)
  PROVE  /\ keeper \in group
         /\ \A i \in Tiers(group, policy) :
              (\A j \in Tiers(group, policy) : i <= j) =>
                /\ keeper \in Below[policy.priority[i]]
                /\ \A f \in group \cap Below[policy.priority[i]] :
                     IF policy.strategy = "keep-oldest"
                     THEN ModifiedAt[keeper] <= ModifiedAt[f]
                     ELSE ModifiedAt[keeper] >= ModifiedAt[f]
<1>1. keeper \in Candidates(group, policy)
  BY KeeperIsFirst
<1>2. keeper \in group
  BY <1>1 DEF Candidates
<1>3. ASSUME NEW i \in Tiers(group, policy),
             \A j \in Tiers(group, policy) : i <= j
      PROVE  /\ keeper \in Below[policy.priority[i]]
             /\ \A f \in group \cap Below[policy.priority[i]] :
                  IF policy.strategy = "keep-oldest"
                  THEN ModifiedAt[keeper] <= ModifiedAt[f]
                  ELSE ModifiedAt[keeper] >= ModifiedAt[f]
  <2>1. Tiers(group, policy) \subseteq Nat
    BY DEF Tiers, Policies
  <2>2. keeper \in Below[policy.priority[i]]
    BY <1>1, <1>3, <2>1 DEF Candidates
  <2>3. ASSUME NEW f \in group \cap Below[policy.priority[i]]
        PROVE  IF policy.strategy = "keep-oldest"
               THEN ModifiedAt[keeper] <= ModifiedAt[f]
               ELSE ModifiedAt[keeper] >= ModifiedAt[f]
    <3>1. f \in Candidates(group, policy)
      <4>1. ASSUME NEW n \in Tiers(group, policy)
            PROVE  \/ f \in Below[policy.priority[n]]
                   \/ \E j \in Tiers(group, policy) : j < n
        BY <1>3, <2>1
      <4> QED BY <4>1 DEF Candidates
    <3>2. f = keeper \/ Precedes(keeper, f, policy.strategy)
      BY <3>1, KeeperIsFirst
    <3>3. /\ ModifiedAt[f] \in Nat /\ ModifiedAt[keeper] \in Nat
          /\ policy.strategy \in {"keep-newest", "keep-oldest"}
      BY <1>2, KeepRulesAssumption DEF Policies
    <3> QED BY <3>2, <3>3 DEF Precedes
  <2> QED BY <2>2, <2>3
<1> QED BY <1>2, <1>3

(* validateSelectionInvariant never has to reject anything: a rule keeps    *)
(* one real member of each group and marks only others (keeprules.go:79-81, *)
(* 145-173).                                                                *)
THEOREM PolicyIsAccepted ==
  ASSUME NEW groups \in SUBSET SUBSET Files, NEW policy \in Policies
  PROVE  PolicyAccepted(groups, policy)
<1> SUFFICES ASSUME NEW g \in groups, Cardinality(g) >= 2
             PROVE  IsValid(Selection(g, policy))
  BY DEF PolicyAccepted, Selections
<1> DEFINE k == SelectKeeper(g, policy)
<1>1. IsFiniteSet(g)
  BY KeepRulesAssumption, FS_Subset
<1>2. g # {}
  <2>1. Cardinality({}) = 0
    BY FS_EmptySet
  <2> QED BY <2>1
<1>3. k \in g
  BY <1>2, KeeperFollowsThePolicy
<1>4. Cardinality(g \ {k}) = Cardinality(g) - 1 /\ Cardinality(g) \in Nat
  BY <1>1, <1>3, FS_RemoveElement, FS_CardinalityType
<1> HIDE DEF k
<1>5. Selection(g, policy) = [group |-> g, keep |-> k, marked |-> g \ {k}]
  BY DEF Selection, k
<1> QED BY <1>3, <1>4, <1>5 DEF IsValid

--------------------------------------------------------------------------------
LEMMA CopiesAreFinite ==
  ASSUME NEW S \in SUBSET Files
  PROVE  IsFiniteSet(Copies(S)) /\ Cardinality(Copies(S)) \in Nat
<1>1. IsFiniteSet(S)
  BY KeepRulesAssumption, FS_Subset
<1>2. [f \in S |-> Copy[f]] \in Surjection(S, Copies(S))
  BY DEF Surjection, Copies
<1>3. IsFiniteSet(Copies(S))
  BY <1>1, <1>2, FS_Surjection
<1> QED BY <1>3, FS_CardinalityType

(* A plan that is not refused leaves a physical copy of every group it      *)
(* touches, whatever is checked (app_windows.go:1124-1140).                 *)
THEOREM PlanLeavesACopy ==
  ASSUME NEW groups \in SUBSET SUBSET Files, NEW ticked,
         NEW e \in PlanFor(groups, ticked)
  PROVE  /\ e.selected # {}
         /\ \E k \in e.group : Copy[k] \notin Copies(e.selected)
<1>1. PICK g \in Touched(groups, ticked) :
        e = [group |-> g, selected |-> g \cap ticked]
  BY DEF PlanFor
<1>2. ~CoversEveryCopy(g, g \cap ticked)
  BY <1>1 DEF PlanFor, PlanRefused
<1>3. Copies(g \cap ticked) # Copies(g)
  <2>1. g \in SUBSET Files
    BY <1>1 DEF Touched
  <2>2. Cardinality(Copies(g)) \in Nat
    BY <2>1, CopiesAreFinite
  <2> QED BY <1>2, <2>2 DEF CoversEveryCopy
<1>4. Copies(g \cap ticked) \subseteq Copies(g)
  BY DEF Copies
<1>5. \E k \in g : Copy[k] \notin Copies(g \cap ticked)
  BY <1>3, <1>4 DEF Copies
<1> QED BY <1>1, <1>5 DEF Touched

(* What a keep rule checks is never refused, as long as the groups share no *)
(* file and no two members of a group are one physical file: a click on     *)
(* "keep newest" is always followed by a plan that can be confirmed         *)
(* (app_windows.go:1613-1672 against 1091-1163).                            *)
THEOREM KeepRuleIsPlannable ==
  ASSUME NEW groups \in SUBSET SUBSET Files, NEW policy \in Policies,
         \A g, h \in groups : g = h \/ g \cap h = {},
         \A g \in groups : \A f, h \in g : Copy[f] = Copy[h] => f = h
  PROVE  ~PlanRefused(groups, Marked(groups, policy))
<1> DEFINE M == Marked(groups, policy)
<1> SUFFICES ASSUME NEW g \in groups, g \cap M # {}
             PROVE  ~CoversEveryCopy(g, g \cap M)
  BY DEF PlanRefused, Touched
<1> DEFINE k == SelectKeeper(g, policy)
<1>1. k \in g
  BY KeeperFollowsThePolicy
<1>2. k \notin M
  <2>1. ASSUME NEW h \in groups, Cardinality(h) >= 2,
               k \in Selection(h, policy).marked
        PROVE  FALSE
    <3>1. k \in h \ {SelectKeeper(h, policy)}
      BY <2>1 DEF Selection
    <3>2. h = g
      BY <1>1, <3>1
    <3> QED BY <3>1, <3>2
  <2> QED BY <2>1 DEF Marked, Selections
<1> HIDE DEF k, M
<1>3. Copy[k] \notin Copies(g \cap M)
  BY <1>1, <1>2 DEF Copies
<1>4. Copies(g \cap M) \subseteq Copies(g) /\ Copies(g \cap M) # Copies(g)
  BY <1>1, <1>3 DEF Copies
<1>5. /\ IsFiniteSet(Copies(g)) /\ Cardinality(Copies(g)) \in Nat
      /\ Cardinality(Copies(g \cap M)) \in Nat
  BY CopiesAreFinite
<1>6. Cardinality(Copies(g \cap M)) < Cardinality(Copies(g))
  <2> DEFINE all == Copies(g)
             selected == Copies(g \cap M)
  <2>1. selected \in SUBSET all /\ selected # all
    BY <1>4
  <2>2. IsFiniteSet(all)
    BY <1>5
  <2> HIDE DEF all, selected
  <2>3. Cardinality(selected) <= Cardinality(all) /\ Cardinality(selected) # Cardinality(all)
    BY <2>1, <2>2, FS_Subset
  <2>4. Cardinality(selected) \in Nat /\ Cardinality(all) \in Nat
    BY <1>5 DEF all, selected
  <2>5. Cardinality(selected) < Cardinality(all)
    BY <2>3, <2>4
  <2> QED BY <2>5 DEF all, selected
<1> QED BY <1>5, <1>6 DEF CoversEveryCopy

--------------------------------------------------------------------------------
Machine == INSTANCE OperationStateProofs

CallbacksOf(s) == {s[i] : i \in DOMAIN s}

(* Groups reach the table only from the matcher, through the queue of       *)
(* posted callbacks.                                                        *)
GroupsAreOfFiles ==
  /\ rows.groups \in SUBSET SUBSET Files
  /\ posted \in Seq(CallbacksOf(posted))
  /\ \A c \in CallbacksOf(posted) : c.groups \in SUBSET SUBSET Files

(* A plan that is up for confirmation is a plan the table allowed, and the  *)
(* plan of a running batch is one that was up for confirmation.             *)
LeavesAKeeper(p) ==
  \A e \in p : /\ e.selected # {}
               /\ \E k \in e.group : Copy[k] \notin Copies(e.selected)

ConfirmedPlanIsSafe == dialog.kind = "confirm" => LeavesAKeeper(dialog.plan)
RunningPlansAreSafe ==
  \A w \in running : w.token.kind = "delete" => LeavesAKeeper(w.input)

IInv == GroupsAreOfFiles /\ ConfirmedPlanIsSafe /\ RunningPlansAreSafe

--------------------------------------------------------------------------------
LEMMA AppendedCallback ==
  ASSUME NEW s, s \in Seq(CallbacksOf(s)), NEW c
  PROVE  /\ Append(s, c) \in Seq(CallbacksOf(Append(s, c)))
         /\ CallbacksOf(Append(s, c)) = CallbacksOf(s) \cup {c}
<1> DEFINE S == CallbacksOf(s) \cup {c}
           t == Append(s, c)
<1>1. s \in Seq(S)
  BY SeqMonotonic
<1>2. /\ t \in Seq(S) /\ Len(s) \in Nat /\ Len(t) = Len(s) + 1
      /\ \A i \in 1..Len(s) : t[i] = s[i]
      /\ t[Len(s) + 1] = c
  BY <1>1
<1>3. DOMAIN t = 1..Len(s) + 1 /\ DOMAIN s = 1..Len(s)
  BY <1>1, <1>2, LenProperties
<1>4. CallbacksOf(t) = S
  <2>1. ASSUME NEW i \in DOMAIN t PROVE t[i] \in S
    BY <1>2, <1>3
  <2>2. ASSUME NEW i \in DOMAIN s PROVE s[i] \in CallbacksOf(t)
    BY <1>2, <1>3 DEF CallbacksOf
  <2>3. c \in CallbacksOf(t)
    BY <1>2, <1>3 DEF CallbacksOf
  <2> QED BY <2>1, <2>2, <2>3 DEF CallbacksOf
<1> QED BY <1>2, <1>4

LEMMA TakenCallback ==
  ASSUME NEW s, s \in Seq(CallbacksOf(s)), s # <<>>
  PROVE  /\ Head(s) \in CallbacksOf(s)
         /\ Tail(s) \in Seq(CallbacksOf(Tail(s)))
         /\ CallbacksOf(Tail(s)) \subseteq CallbacksOf(s)
<1> DEFINE S == CallbacksOf(s)
           t == Tail(s)
<1>1. /\ Head(s) \in S /\ t \in Seq(S)
  BY HeadTailProperties
<1>2. Len(t) \in Nat /\ t \in [1..Len(t) -> S] /\ DOMAIN t = 1..Len(t)
  BY <1>1, LenProperties
<1>3. t \in [1..Len(t) -> CallbacksOf(t)]
  BY <1>2 DEF CallbacksOf
<1>4. t \in Seq(CallbacksOf(t))
  BY <1>2, <1>3, SeqDef
<1>5. CallbacksOf(t) \subseteq S
  BY <1>2 DEF CallbacksOf
<1> QED BY <1>1, <1>4, <1>5

(* Posting keeps the queue a queue of matcher outcomes.                     *)
LEMMA PostKeepsGroups ==
  ASSUME GroupsAreOfFiles, NEW c, c.groups \in SUBSET SUBSET Files, Post(c),
         rows' = rows
  PROVE  GroupsAreOfFiles'
<1>1. CASE posted' = posted
  BY <1>1 DEF GroupsAreOfFiles, CallbacksOf
<1>2. CASE posted' = Append(posted, c)
  <2>1. /\ posted' \in Seq(CallbacksOf(posted'))
        /\ CallbacksOf(posted') = CallbacksOf(posted) \cup {c}
    BY <1>2, AppendedCallback DEF GroupsAreOfFiles
  <2> QED BY <2>1 DEF GroupsAreOfFiles
<1> QED BY <1>1, <1>2 DEF Post

LEMMA PlanIsSafe ==
  ASSUME GroupsAreOfFiles
  PROVE  LeavesAKeeper(Plan)
BY PlanLeavesACopy DEF GroupsAreOfFiles, Plan, LeavesAKeeper

--------------------------------------------------------------------------------
LEMMA InitIInv == Init => IInv
<1> SUFFICES ASSUME Init PROVE IInv
  OBVIOUS
<1>1. posted = <<>> /\ CallbacksOf(posted) = {}
  BY DEF Init, CallbacksOf
<1>2. posted \in Seq(CallbacksOf(posted))
  BY <1>1, EmptySeq
<1> QED BY <1>1, <1>2 DEF Init, IInv, GroupsAreOfFiles, ConfirmedPlanIsSafe,
           RunningPlansAreSafe, NoRows, NoDialog

(* Clicks that open, close or leave dialogs and review the table.           *)
LEMMA ReviewIInv ==
  ASSUME IInv,
         \/ OpenFolderDialog \/ CancelDialog \/ ResetAll \/ ClearResults
         \/ ToggleFocus \/ ClearSelection \/ OpenSaveDialog \/ Cancel
         \/ HandleWindowClosing
         \/ \E f \in Folders : SelectFolder(f)
         \/ \E f \in Files : SetChecked(f)
         \/ \E s \in {"keep-newest", "keep-oldest"} : SelectAllExcept(s)
  PROVE  IInv'
<1> DEFINE Quiet == /\ running' = running /\ posted' = posted
                    /\ rows' = rows \/ rows' = NoRows
                    /\ dialog' = dialog \/ dialog'.kind # "confirm"
<1>1. ASSUME OpenFolderDialog \/ CancelDialog \/ OpenSaveDialog PROVE Quiet
  <2>1. CASE OpenFolderDialog
    BY <2>1 DEF OpenFolderDialog, asyncVars, tableVars
  <2>2. CASE CancelDialog
    BY <2>2 DEF CancelDialog, asyncVars, tableVars, NoDialog
  <2>3. CASE OpenSaveDialog
    BY <2>3 DEF OpenSaveDialog, asyncVars, tableVars
  <2> QED BY <1>1, <2>1, <2>2, <2>3
<1>2. ASSUME ResetAll \/ ClearResults \/ ToggleFocus \/ Cancel \/ HandleWindowClosing
      PROVE  Quiet
  BY <1>2 DEF ResetAll, ClearResults, ToggleFocus, Cancel, HandleWindowClosing, asyncVars
<1>3. ASSUME ReviewStep PROVE Quiet
  BY <1>3 DEF ReviewStep, asyncVars
<1>4. ASSUME NEW f \in Folders, SelectFolder(f) PROVE Quiet
  BY <1>4 DEF SelectFolder, asyncVars, NoDialog
<1>5. Quiet
  BY <1>1, <1>2, <1>3, <1>4 DEF ClearSelection, SetChecked, SelectAllExcept
<1> QED BY <1>5 DEF IInv, GroupsAreOfFiles, ConfirmedPlanIsSafe,
           RunningPlansAreSafe, NoRows, LeavesAKeeper, CallbacksOf

(* The plan that is put up for confirmation.                                *)
LEMMA OpenConfirmIInv ==
  ASSUME IInv, OpenConfirmDialog
  PROVE  IInv'
<1>1. LeavesAKeeper(Plan)
  BY PlanIsSafe DEF IInv
<1> QED BY <1>1 DEF OpenConfirmDialog, IInv, GroupsAreOfFiles, ConfirmedPlanIsSafe,
           RunningPlansAreSafe, asyncVars, tableVars, LeavesAKeeper

(* Starting work: only the confirmed plan is handed to a batch.             *)
LEMMA StartIInv ==
  ASSUME IInv,
         StartSurfaceScan \/ StartDuplicateScan \/ ExportReport \/ ConfirmConsolidate
  PROVE  IInv'
<1>1. CASE StartSurfaceScan
  <2>1. active'.kind = "surface-scan"
    BY <1>1 DEF StartSurfaceScan, Op!BeginSurfaceScan, Op!BeginOperation, Op!NewToken
  <2> QED BY <1>1, <2>1 DEF StartSurfaceScan, StartWorker, IInv, GroupsAreOfFiles,
             ConfirmedPlanIsSafe, RunningPlansAreSafe, NoRows, LeavesAKeeper
<1>2. CASE StartDuplicateScan
  <2>1. active'.kind = "duplicate-scan"
    BY <1>2 DEF StartDuplicateScan, Op!BeginDuplicateScan, Op!BeginOperation, Op!NewToken
  <2> QED BY <1>2, <2>1 DEF StartDuplicateScan, StartWorker, IInv, GroupsAreOfFiles,
             ConfirmedPlanIsSafe, RunningPlansAreSafe, LeavesAKeeper
<1>3. CASE ExportReport
  <2>1. active'.kind = "export"
    BY <1>3 DEF ExportReport, Op!BeginExport, Op!BeginOperation, Op!NewToken
  <2> QED BY <1>3, <2>1 DEF ExportReport, StartWorker, IInv, GroupsAreOfFiles,
             ConfirmedPlanIsSafe, RunningPlansAreSafe, NoDialog
<1>4. CASE ConfirmConsolidate
  BY <1>4 DEF ConfirmConsolidate, StartWorker, IInv, GroupsAreOfFiles,
     ConfirmedPlanIsSafe, RunningPlansAreSafe, NoDialog, LeavesAKeeper
<1> QED BY <1>1, <1>2, <1>3, <1>4

(* Goroutines: a worker ends, or progress is posted.                        *)
LEMMA GoroutineIInv ==
  ASSUME IInv,
         \/ \E t \in consumers : PostProgress(t) \/ EndProgress(t)
         \/ \E w \in running : WorkerReturns(w)
  PROVE  IInv'
<1>1. ASSUME NEW t \in consumers, PostProgress(t) PROVE IInv'
  <2>1. GroupsAreOfFiles'
    BY <1>1, PostKeepsGroups DEF PostProgress, IInv, tableVars
  <2> QED BY <1>1, <2>1 DEF PostProgress, IInv, ConfirmedPlanIsSafe, RunningPlansAreSafe
<1>2. ASSUME NEW t \in consumers, EndProgress(t) PROVE IInv'
  BY <1>2 DEF EndProgress, IInv, GroupsAreOfFiles, ConfirmedPlanIsSafe,
     RunningPlansAreSafe, tableVars
<1>3. ASSUME NEW w \in running, NEW ok \in BOOLEAN, NEW groups \in SUBSET SUBSET Files,
             NEW files, NEW issues, Done(w, ok, groups, files, issues)
      PROVE  IInv'
  <2>1. GroupsAreOfFiles'
    BY <1>3, PostKeepsGroups DEF Done, IInv, tableVars
  <2> QED BY <1>3, <2>1 DEF Done, IInv, ConfirmedPlanIsSafe, RunningPlansAreSafe
<1>4. \A outcome \in Outcomes : outcome \in SUBSET SUBSET Files
  BY GuiWorkflowAssumption
<1>5. ASSUME NEW w \in running, WorkerReturns(w) PROVE IInv'
  BY <1>3, <1>4, <1>5 DEF WorkerReturns
<1> QED BY <1>1, <1>2, <1>5

(* Callbacks: the table shows what the matcher found, or what it showed.    *)
LEMMA CallbackIInv ==
  ASSUME IInv, RunCallback
  PROVE  IInv'
<1> DEFINE Shown == /\ TakeCallback /\ running' = running /\ dialog' = dialog
                    /\ \/ rows'.groups = rows.groups
                       \/ rows'.groups = Callback.groups
                       \/ rows'.groups = {}
<1>1. Shown
  <2>1. CASE ShowProgress \/ DropCallback
    BY <2>1 DEF ShowProgress, DropCallback, tableVars
  <2>2. CASE SurfaceScanFinished
    BY <2>2 DEF SurfaceScanFinished, Completion
  <2>3. CASE ScanFinished
    BY <2>3 DEF ScanFinished, PublishGroups, Completion
  <2>4. CASE ReportExportFinished \/ ApplyConsolidateBatch
    BY <2>4 DEF ReportExportFinished, ApplyConsolidateBatch, Completion
  <2> QED BY <2>1, <2>2, <2>3, <2>4 DEF RunCallback
<1>2. GroupsAreOfFiles'
  BY <1>1, TakenCallback DEF IInv, GroupsAreOfFiles, TakeCallback, Callback
<1> QED BY <1>1, <1>2 DEF IInv, ConfirmedPlanIsSafe, RunningPlansAreSafe, LeavesAKeeper

--------------------------------------------------------------------------------
(* Of every group that a confirmed or running plan touches, a physical copy *)
(* is left that the plan does not name (app_windows.go:1091-1163,           *)
(* app_consolidate_windows.go:84-146).                                      *)
THEOREM ConfirmedPlansLeaveAKeeper == Spec => []PlansLeaveAKeeper
<1>1. IInv /\ [Next]_vars => IInv'
  <2> SUFFICES ASSUME IInv, [Next]_vars PROVE IInv'
    OBVIOUS
  <2>1. CASE UNCHANGED vars
    BY <2>1 DEF vars, tableVars, asyncVars, IInv, GroupsAreOfFiles,
       ConfirmedPlanIsSafe, RunningPlansAreSafe
  <2> QED BY <2>1, ReviewIInv, OpenConfirmIInv, StartIInv, GoroutineIInv,
             CallbackIInv DEF Next
<1>2. IInv => PlansLeaveAKeeper
  BY DEF IInv, ConfirmedPlanIsSafe, RunningPlansAreSafe, LeavesAKeeper,
     PlansLeaveAKeeper
<1> QED BY <1>1, <1>2, InitIInv, PTL DEF Spec

--------------------------------------------------------------------------------
(* Every goroutine and every posted completion carries the token of one     *)
(* worker that is still out, and no two carry the same: an operation can be *)
(* completed once.  Tokens are never reused, because generations only grow. *)
TokensAreOut ==
  /\ \A w \in running : w.token \in workers
  /\ \A i \in DOMAIN posted :
       posted[i].kind = "done" => posted[i].token \in workers /\ posted[i].ok \in BOOLEAN

TokensAreUnique ==
  /\ \A v, w \in running : v.token = w.token => v = w
  /\ \A w \in running, i \in DOMAIN posted :
       posted[i].kind = "done" => posted[i].token # w.token
  /\ \A i, j \in DOMAIN posted :
       /\ posted[i].kind = "done" /\ posted[j].kind = "done"
       /\ posted[i].token = posted[j].token
       => i = j

TokensAreOld ==
  /\ nextGeneration \in Nat
  /\ \A t \in workers : t.generation \in Nat /\ t.generation <= nextGeneration

QueueIsSequence == posted \in Seq(CallbacksOf(posted))

TInv == QueueIsSequence /\ TokensAreOut /\ TokensAreUnique /\ TokensAreOld

(* Steps that start no work, end none and leave the queue alone.            *)
LEMMA QuietTInv ==
  ASSUME TInv, running' = running, posted' = posted, workers' = workers,
         nextGeneration' \in {nextGeneration, nextGeneration + 1}
  PROVE  TInv'
BY DEF TInv, QueueIsSequence, TokensAreOut, TokensAreUnique, TokensAreOld, CallbacksOf

(* A new worker gets a token that nobody carries.                           *)
LEMMA BeginTInv ==
  ASSUME TInv, NEW kind, NEW next, NEW cancellable, NEW input,
         Op!BeginOperation(kind, next, cancellable),
         StartWorker(input), posted' = posted
  PROVE  TInv'
<1> DEFINE new == Op!NewToken(kind)
           worker == [token |-> new, input |-> input]
<1>1. /\ workers' = workers \cup {new} /\ active' = new
      /\ nextGeneration' = nextGeneration + 1
  BY DEF Op!BeginOperation
<1>2. running' = running \cup {worker} /\ worker.token = new
  BY <1>1 DEF StartWorker
<1>3. new.generation = nextGeneration + 1
  BY DEF Op!NewToken
<1>4. new \notin workers
  BY <1>3 DEF TInv, TokensAreOld
<1> HIDE DEF new, worker
<1>5. TokensAreOld'
  BY <1>1, <1>3 DEF TInv, TokensAreOld
<1>6. TokensAreOut'
  BY <1>1, <1>2 DEF TInv, TokensAreOut
<1>7. TokensAreUnique'
  BY <1>2, <1>4 DEF TInv, TokensAreOut, TokensAreUnique
<1>8. QueueIsSequence'
  BY DEF TInv, QueueIsSequence, CallbacksOf
<1> QED BY <1>5, <1>6, <1>7, <1>8 DEF TInv

(* A callback that is taken off the queue retires at most its own token.    *)
LEMMA TakeTInv ==
  ASSUME TInv, TakeCallback, running' = running,
         nextGeneration' = nextGeneration,
         \/ workers' = workers
         \/ Callback.kind = "done" /\ workers' = workers \ {Callback.token}
  PROVE  TInv'
<1>1. /\ Len(posted) \in Nat /\ DOMAIN posted = 1..Len(posted)
      /\ posted' \in Seq(CallbacksOf(posted))
      /\ Len(posted') = Len(posted) - 1 /\ Len(posted') \in Nat
      /\ DOMAIN posted' = 1..Len(posted')
      /\ \A i \in 1..Len(posted') : posted'[i] = posted[i + 1]
  BY LenProperties, HeadTailProperties DEF TInv, QueueIsSequence, TakeCallback
<1>2. Callback = posted[1] /\ 1 \in DOMAIN posted
  BY <1>1 DEF Callback, TakeCallback
<1>3. \A i \in DOMAIN posted' : /\ i + 1 \in DOMAIN posted /\ i + 1 # 1
                                /\ posted'[i] = posted[i + 1]
  BY <1>1
<1>4. QueueIsSequence'
  BY TakenCallback DEF TInv, QueueIsSequence, TakeCallback
<1>5. TokensAreUnique'
  <2>1. \A i, j \in DOMAIN posted' : i + 1 = j + 1 => i = j
    BY <1>1
  <2> QED BY <1>3, <2>1 DEF TInv, TokensAreUnique
<1>6. TokensAreOut'
  BY <1>2, <1>3 DEF TInv, TokensAreOut, TokensAreUnique
<1>7. TokensAreOld'
  BY DEF TInv, TokensAreOld
<1> QED BY <1>4, <1>5, <1>6, <1>7 DEF TInv

(* Progress adds a callback that completes nothing; a worker that ends      *)
(* hands its token to its completion, or takes it away with the window.     *)
LEMMA PostTInv ==
  ASSUME TInv, NEW c, Post(c), nextGeneration' = nextGeneration,
         \/ c.kind = "progress" /\ running' = running /\ workers' = workers
         \/ \E w \in running :
              /\ c.kind = "done" /\ c.token = w.token /\ c.ok \in BOOLEAN
              /\ running' = running \ {w}
              /\ workers' = IF uiClosing THEN workers \ {w.token} ELSE workers
  PROVE  TInv'
<1>1. /\ Len(posted) \in Nat /\ DOMAIN posted = 1..Len(posted)
  BY LenProperties DEF TInv, QueueIsSequence
<1>2. CASE uiClosing
  <2>1. posted' = posted
    BY <1>2 DEF Post
  <2>2. QueueIsSequence'
    BY <2>1 DEF TInv, QueueIsSequence, CallbacksOf
  <2>3. TokensAreOut'
    BY <1>2, <2>1 DEF TInv, TokensAreOut, TokensAreUnique
  <2>4. TokensAreUnique'
    BY <2>1 DEF TInv, TokensAreUnique
  <2>5. TokensAreOld'
    BY DEF TInv, TokensAreOld
  <2> QED BY <2>2, <2>3, <2>4, <2>5 DEF TInv
<1>3. CASE ~uiClosing
  <2>1. posted' = Append(posted, c)
    BY <1>3 DEF Post
  <2>2. QueueIsSequence' /\ posted \in Seq(CallbacksOf(posted) \cup {c})
    BY <2>1, AppendedCallback, SeqMonotonic DEF TInv, QueueIsSequence
  <2>3. /\ Len(posted') = Len(posted) + 1
        /\ \A i \in 1..Len(posted) : posted'[i] = posted[i]
        /\ posted'[Len(posted) + 1] = c
    BY <2>1, <2>2
  <2>4. DOMAIN posted' = 1..Len(posted) + 1
    BY <1>1, <2>2, <2>3, LenProperties DEF QueueIsSequence
  <2>5. \A i \in DOMAIN posted' :
          \/ i \in DOMAIN posted /\ posted'[i] = posted[i]
          \/ i = Len(posted) + 1 /\ posted'[i] = c
    BY <1>1, <2>3, <2>4
  <2>6. workers' = workers
    BY <1>3
  <2>7. TokensAreOut'
    BY <2>5, <2>6 DEF TInv, TokensAreOut
  <2>8. TokensAreUnique'
    <3>1. CASE c.kind = "progress" /\ running' = running
      BY <2>5, <3>1 DEF TInv, TokensAreUnique
    <3>2. ASSUME NEW w \in running,
                 c.kind = "done", c.token = w.token, running' = running \ {w}
          PROVE  TokensAreUnique'
      BY <2>5, <3>2 DEF TInv, TokensAreUnique
    <3> QED BY <3>1, <3>2
  <2>9. TokensAreOld'
    BY <2>6 DEF TInv, TokensAreOld
  <2> QED BY <2>2, <2>7, <2>8, <2>9 DEF TInv
<1> QED BY <1>2, <1>3

(* What the state machine sees of a step of the window.                     *)
OpStep == Op!Next \/ UNCHANGED opVars

LEMMA QuietStep ==
  ASSUME TInv,
         \/ OpenFolderDialog \/ CancelDialog \/ ToggleFocus \/ ClearSelection
         \/ OpenSaveDialog \/ OpenConfirmDialog
         \/ \E f \in Files : SetChecked(f)
         \/ \E s \in {"keep-newest", "keep-oldest"} : SelectAllExcept(s)
         \/ \E t \in consumers : EndProgress(t)
  PROVE  TInv' /\ OpStep
<1>1. /\ UNCHANGED opVars /\ running' = running /\ posted' = posted
  BY DEF OpenFolderDialog, CancelDialog, ToggleFocus, ClearSelection, OpenSaveDialog,
     OpenConfirmDialog, SetChecked, SelectAllExcept, EndProgress, ReviewStep, asyncVars
<1>2. workers' = workers /\ nextGeneration' = nextGeneration
  BY <1>1 DEF opVars
<1> QED BY <1>1, <1>2, QuietTInv DEF OpStep

LEMMA ClickStep ==
  ASSUME TInv,
         \/ ResetAll \/ ClearResults \/ Cancel \/ HandleWindowClosing
         \/ \E f \in Folders : SelectFolder(f)
  PROVE  TInv' /\ OpStep
<1>1. CASE ResetAll
  <2>1. /\ Op!Reset /\ running' = running /\ posted' = posted
    BY <1>1 DEF ResetAll, asyncVars
  <2>2. workers' = workers /\ nextGeneration' = nextGeneration + 1
    BY <2>1 DEF Op!Reset, Op!InvalidateActiveOperation
  <2> QED BY <2>1, <2>2, QuietTInv DEF OpStep, Op!Next
<1>2. CASE ClearResults
  <2>1. /\ Op!ClearResults \/ UNCHANGED opVars
        /\ running' = running /\ posted' = posted
    BY <1>2 DEF ClearResults, asyncVars
  <2>2. workers' = workers /\ nextGeneration' = nextGeneration
    BY <2>1 DEF Op!ClearResults, opVars
  <2> QED BY <2>1, <2>2, QuietTInv DEF OpStep, Op!Next
<1>3. CASE Cancel
  <2>1. /\ Op!RequestScanCancellation \/ Op!RequestExportCancellation
        /\ running' = running /\ posted' = posted
    BY <1>3 DEF Cancel, asyncVars
  <2>2. workers' = workers /\ nextGeneration' = nextGeneration
    BY <2>1 DEF Op!RequestScanCancellation, Op!RequestExportCancellation
  <2> QED BY <2>1, <2>2, QuietTInv DEF OpStep, Op!Next
<1>4. CASE HandleWindowClosing
  <2>1. /\ Op!RequestClose /\ running' = running /\ posted' = posted
    BY <1>4 DEF HandleWindowClosing, asyncVars
  <2>2. workers' = workers /\ nextGeneration' \in {nextGeneration, nextGeneration + 1}
    BY <2>1 DEF Op!RequestClose, Op!RequestCloseNow, Op!RequestCloseDeferred,
       Op!RequestCloseAgain, Op!InvalidateActiveOperation, Op!vars
  <2> QED BY <2>1, <2>2, QuietTInv DEF OpStep, Op!Next
<1>5. ASSUME NEW f \in Folders, SelectFolder(f) PROVE TInv' /\ OpStep
  <2>1. /\ Op!SelectFolder(f) /\ running' = running /\ posted' = posted
    BY <1>5 DEF SelectFolder, asyncVars
  <2>2. workers' = workers /\ nextGeneration' = nextGeneration + 1
    BY <2>1 DEF Op!SelectFolder, Op!InvalidateActiveOperation
  <2> QED BY <2>1, <2>2, QuietTInv DEF OpStep, Op!Next
<1> QED BY <1>1, <1>2, <1>3, <1>4, <1>5

LEMMA StartStep ==
  ASSUME TInv,
         StartSurfaceScan \/ StartDuplicateScan \/ ExportReport \/ ConfirmConsolidate
  PROVE  TInv' /\ OpStep
<1>1. CASE StartSurfaceScan
  <2>1. Op!BeginSurfaceScan /\ StartWorker(folderRevision) /\ posted' = posted
    BY <1>1 DEF StartSurfaceScan
  <2>2. Op!BeginOperation("surface-scan", "SurfaceScanning", TRUE)
    BY <2>1 DEF Op!BeginSurfaceScan
  <2> QED BY <2>1, <2>2, BeginTInv DEF OpStep, Op!Next
<1>2. CASE StartDuplicateScan
  <2>1. Op!BeginDuplicateScan /\ StartWorker(report.revision) /\ posted' = posted
    BY <1>2 DEF StartDuplicateScan
  <2>2. Op!BeginOperation("duplicate-scan", "DuplicateScanning", TRUE)
    BY <2>1 DEF Op!BeginDuplicateScan
  <2> QED BY <2>1, <2>2, BeginTInv DEF OpStep, Op!Next
<1>3. CASE ExportReport
  <2>1. Op!BeginExport /\ StartWorker(dialog.plan) /\ posted' = posted
    BY <1>3 DEF ExportReport
  <2>2. Op!BeginOperation("export", "Exporting", TRUE)
    BY <2>1 DEF Op!BeginExport
  <2> QED BY <2>1, <2>2, BeginTInv DEF OpStep, Op!Next
<1>4. CASE ConfirmConsolidate
  <2>1. Op!BeginDelete /\ StartWorker(dialog.plan) /\ posted' = posted
    BY <1>4 DEF ConfirmConsolidate
  <2>2. Op!BeginOperation("delete", "Deleting", FALSE)
    BY <2>1 DEF Op!BeginDelete
  <2> QED BY <2>1, <2>2, BeginTInv DEF OpStep, Op!Next
<1> QED BY <1>1, <1>2, <1>3, <1>4

LEMMA WorkerStep ==
  ASSUME TInv,
         \/ \E t \in consumers : PostProgress(t)
         \/ \E w \in running : WorkerReturns(w)
  PROVE  TInv' /\ OpStep
<1>1. ASSUME NEW t \in consumers, PostProgress(t) PROVE TInv' /\ OpStep
  <2>1. PICK c : c.kind = "progress" /\ Post(c)
    BY <1>1 DEF PostProgress
  <2>2. UNCHANGED opVars /\ running' = running
    BY <1>1 DEF PostProgress
  <2>3. workers' = workers /\ nextGeneration' = nextGeneration
    BY <2>2 DEF opVars
  <2> QED BY <2>1, <2>2, <2>3, PostTInv DEF OpStep
<1>2. ASSUME NEW w \in running, NEW ok \in BOOLEAN, NEW groups, NEW files, NEW issues,
             Done(w, ok, groups, files, issues)
      PROVE  TInv' /\ OpStep
  <2>1. PICK c : c.kind = "done" /\ c.token = w.token /\ c.ok \in BOOLEAN /\ Post(c)
    BY <1>2 DEF Done
  <2>2. /\ running' = running \ {w}
        /\ IF uiClosing THEN Op!StaleCompletion(w.token) ELSE UNCHANGED opVars
    BY <1>2 DEF Done
  <2>3. /\ workers' = IF uiClosing THEN workers \ {w.token} ELSE workers
        /\ nextGeneration' = nextGeneration
    BY <2>2 DEF Op!StaleCompletion, opVars
  <2>4. TInv'
    BY <2>1, <2>2, <2>3, PostTInv
  <2>5. w.token \in workers
    BY DEF TInv, TokensAreOut
  <2>6. OpStep
    BY <2>2, <2>5 DEF OpStep, Op!Next, Op!Callback
  <2> QED BY <2>4, <2>6
<1> QED BY <1>1, <1>2 DEF WorkerReturns

LEMMA CallbackStep ==
  ASSUME TInv, RunCallback
  PROVE  TInv' /\ OpStep
<1> DEFINE t == Callback.token
<1>1. TakeCallback /\ running' = running
  BY DEF RunCallback, ShowProgress, SurfaceScanFinished, ScanFinished,
     ReportExportFinished, ApplyConsolidateBatch, DropCallback, Completion
<1>2. Callback.kind = "done" => t \in workers /\ Callback.ok \in BOOLEAN
  <2>1. 1 \in DOMAIN posted /\ Callback = posted[1]
    BY <1>1, LenProperties, EmptySeq DEF TInv, QueueIsSequence, TakeCallback, Callback
  <2> QED BY <2>1 DEF TInv, TokensAreOut
<1>3. ASSUME Callback.kind = "done", Op!Callback(t) PROVE TInv' /\ OpStep
  <2>1. workers' = workers \ {t} /\ nextGeneration' = nextGeneration
    BY <1>3 DEF Op!Callback, Op!CompleteSurfaceScan, Op!CompleteDuplicateScan,
       Op!CompleteExport, Op!CompleteDelete, Op!RetireGuarded, Op!StaleCompletion
  <2>2. Op!Next
    BY <1>2, <1>3 DEF Op!Next
  <2> QED BY <1>1, <1>3, <2>1, <2>2, TakeTInv DEF OpStep
<1>4. ASSUME UNCHANGED opVars PROVE TInv' /\ OpStep
  <2>1. workers' = workers /\ nextGeneration' = nextGeneration
    BY <1>4 DEF opVars
  <2> QED BY <1>1, <1>4, <2>1, TakeTInv DEF OpStep
<1>5. \/ Callback.kind = "done" /\ Op!Callback(t)
      \/ UNCHANGED opVars
  <2>1. CASE ShowProgress
    BY <2>1 DEF ShowProgress
  <2>2. CASE SurfaceScanFinished
    <3>1. Callback.kind = "done" /\ Op!CompleteSurfaceScan(t, Callback.ok)
      BY <2>2 DEF SurfaceScanFinished, Completion
    <3> QED BY <1>2, <3>1 DEF Op!Callback
  <2>3. CASE ScanFinished
    <3>1. Callback.kind = "done" /\ Op!CompleteDuplicateScan(t, Callback.ok)
      BY <2>3 DEF ScanFinished, Completion
    <3> QED BY <1>2, <3>1 DEF Op!Callback
  <2>4. CASE ReportExportFinished
    <3>1. Callback.kind = "done" /\ Op!CompleteExport(t)
      BY <2>4 DEF ReportExportFinished, Completion
    <3> QED BY <3>1 DEF Op!Callback
  <2>5. CASE ApplyConsolidateBatch
    <3>1. Callback.kind = "done" /\ Op!CompleteDelete(t)
      BY <2>5 DEF ApplyConsolidateBatch, Completion
    <3> QED BY <3>1 DEF Op!Callback
  <2>6. CASE DropCallback
    BY <2>6 DEF DropCallback, Op!Callback
  <2> QED BY <2>1, <2>2, <2>3, <2>4, <2>5, <2>6 DEF RunCallback
<1> QED BY <1>3, <1>4, <1>5

LEMMA EveryStep ==
  ASSUME TInv, [Next]_vars
  PROVE  TInv' /\ OpStep
<1>1. CASE UNCHANGED vars
  <2>1. UNCHANGED opVars /\ running' = running /\ posted' = posted
    BY <1>1 DEF vars, asyncVars
  <2>2. workers' = workers /\ nextGeneration' = nextGeneration
    BY <2>1 DEF opVars
  <2> QED BY <2>1, <2>2, QuietTInv DEF OpStep
<1> QED BY <1>1, QuietStep, ClickStep, StartStep, WorkerStep, CallbackStep DEF Next

LEMMA InitTInv == Init => TInv
<1> SUFFICES ASSUME Init
             PROVE  TInv
  OBVIOUS
<1>1. posted = <<>> /\ DOMAIN posted = {}
  BY DEF Init
<1>2. QueueIsSequence
  BY <1>1, EmptySeq DEF QueueIsSequence
<1> QED
  BY <1>1, <1>2 DEF Init, Op!Init, TInv, TokensAreOut, TokensAreUnique, TokensAreOld

(* The window performs only steps of the operation state machine: no        *)
(* handler changes its state behind its back, and every completion it is    *)
(* given belongs to a worker that is out (app_windows.go, app_report_       *)
(* windows.go and app_consolidate_windows.go against operation_state.go).   *)
THEOREM WindowRefinesOperationState == Spec => ImplementsOperationState
<1>1. Init => Op!Init /\ TInv
  BY InitTInv DEF Init
<1>2. TInv /\ [Next]_vars => TInv' /\ [Op!Next]_(Op!vars)
  BY EveryStep DEF OpStep, opVars, Op!vars
<1> QED BY <1>1, <1>2, PTL DEF Spec, ImplementsOperationState, Op!Spec

--------------------------------------------------------------------------------
(* The theorems about the state machine hold of the window.                 *)
LEMMA MachineSpec == Op!Spec => Machine!Spec
<1>1. Op!NoToken = Machine!NoToken
  BY DEF Op!NoToken, Machine!NoToken
<1>2. Op!Init => Machine!Init
  BY <1>1 DEF Op!Init, Machine!Init
<1>3. Op!vars = Machine!vars
  BY DEF Op!vars, Machine!vars
<1>4. \A kind : Op!NewToken(kind) = Machine!NewToken(kind)
  BY DEF Op!NewToken, Machine!NewToken
<1>5. \A kind : Op!PhasesOf(kind) = Machine!PhasesOf(kind)
  BY Zenon DEF Op!PhasesOf, Machine!PhasesOf
<1>6. Op!Guarded = Machine!Guarded /\ Op!Idle = Machine!Idle
  BY DEF Op!Guarded, Machine!Guarded, Op!Idle, Machine!Idle
<1>7. Op!InvalidateActiveOperation <=> Machine!InvalidateActiveOperation
  BY <1>1
  DEF Op!InvalidateActiveOperation, Machine!InvalidateActiveOperation,
      Op!InvokeCancellation, Machine!InvokeCancellation
<1>8. Op!InvokeCancellation <=> Machine!InvokeCancellation
  BY DEF Op!InvokeCancellation, Machine!InvokeCancellation
<1>9. Op!ClearActiveOperation <=> Machine!ClearActiveOperation
  BY <1>1 DEF Op!ClearActiveOperation, Machine!ClearActiveOperation
<1>10. \A token : Op!Accepts(token) <=> Machine!Accepts(token)
  BY <1>1, <1>5 DEF Op!Accepts, Machine!Accepts
<1>11. \A kind, next, cancellable :
         Op!BeginOperation(kind, next, cancellable)
           <=> Machine!BeginOperation(kind, next, cancellable)
  BY <1>4, Zenon DEF Op!BeginOperation, Machine!BeginOperation
<1>12. /\ \A f : Op!SelectFolder(f) => Machine!SelectFolder(f)
       /\ Op!Reset => Machine!Reset
       /\ Op!ClearResults => Machine!ClearResults
  BY <1>6, <1>7, Zenon
  DEF Op!SelectFolder, Machine!SelectFolder, Op!Reset, Machine!Reset,
      Op!ClearResults, Machine!ClearResults, Op!CanReset, Machine!CanReset,
      Op!CanChangeFolder, Machine!CanChangeFolder
<1>13. /\ Op!BeginSurfaceScan => Machine!BeginSurfaceScan
       /\ Op!BeginDuplicateScan => Machine!BeginDuplicateScan
       /\ Op!BeginExport => Machine!BeginExport
       /\ Op!BeginDelete => Machine!BeginDelete
  BY <1>11, Zenon
  DEF Op!BeginSurfaceScan, Machine!BeginSurfaceScan, Op!BeginDuplicateScan,
      Machine!BeginDuplicateScan, Op!BeginExport, Machine!BeginExport,
      Op!BeginDelete, Machine!BeginDelete
<1>14. /\ Op!RequestScanCancellation => Machine!RequestScanCancellation
       /\ Op!RequestExportCancellation => Machine!RequestExportCancellation
  BY <1>8, Zenon
  DEF Op!RequestScanCancellation, Machine!RequestScanCancellation,
      Op!RequestExportCancellation, Machine!RequestExportCancellation
<1>15. Op!RequestClose => Machine!RequestClose
  BY <1>3, <1>6, <1>7, <1>8, Zenon
  DEF Op!RequestClose, Machine!RequestClose, Op!RequestCloseNow,
      Machine!RequestCloseNow, Op!RequestCloseDeferred, Machine!RequestCloseDeferred,
      Op!RequestCloseAgain, Machine!RequestCloseAgain, Op!MayCloseNow,
      Machine!MayCloseNow, Op!vars, Machine!vars
<1>16. \A token, ok :
         /\ Op!CompleteSurfaceScan(token, ok) => Machine!CompleteSurfaceScan(token, ok)
         /\ Op!CompleteDuplicateScan(token, ok)
              => Machine!CompleteDuplicateScan(token, ok)
  BY <1>9, <1>10, Zenon
  DEF Op!CompleteSurfaceScan, Machine!CompleteSurfaceScan, Op!CompleteDuplicateScan,
      Machine!CompleteDuplicateScan, Op!Publishes, Machine!Publishes
<1>17. \A token, closing :
         Op!RetireGuarded(token, closing) => Machine!RetireGuarded(token, closing)
  BY <1>9, <1>10, Zenon DEF Op!RetireGuarded, Machine!RetireGuarded
<1>18. \A token : Op!Callback(token) => Machine!Callback(token)
  BY <1>10, <1>16, <1>17, Zenon
  DEF Op!Callback, Machine!Callback, Op!CompleteExport, Machine!CompleteExport,
      Op!CompleteDelete, Machine!CompleteDelete, Op!StaleCompletion,
      Machine!StaleCompletion
<1>19. Op!Next => Machine!Next
  BY <1>12, <1>13, <1>14, <1>15, <1>18, Zenon DEF Op!Next, Machine!Next
<1>20. [Op!Next]_(Op!vars) => [Machine!Next]_(Machine!vars)
  BY <1>19 DEF Op!vars, Machine!vars
<1> QED
  BY <1>2, <1>20, PTL DEF Op!Spec, Machine!Spec

(* What the handlers lean on. *)
LEMMA MachineFacts ==
  ASSUME Machine!IInv
  PROVE  /\ active # Op!NoToken =>
              phase \in Op!PhasesOf(active.kind) /\ active \in workers
         /\ phase \in Op!Scanning \cup Op!Guarded => active # Op!NoToken
         /\ phase \in Op!Phases
         /\ \A t \in workers :
              /\ t.kind \in {"export", "delete"} => t = active /\ ~allowClose
              /\ t.folderRevision = folderRevision /\ t # Op!NoToken
         /\ folderRevision \in Nat /\ nextGeneration \in Nat
         /\ allowClose => phase = "Closing"
<1>1. Op!NoToken = Machine!NoToken /\ Op!NoToken \notin Machine!Token
  BY DEF Op!NoToken, Machine!NoToken, Machine!Token
<1>2. \A kind : Op!PhasesOf(kind) = Machine!PhasesOf(kind)
  BY Zenon DEF Op!PhasesOf, Machine!PhasesOf
<1>3. /\ Op!Scanning = Machine!Scanning /\ Op!Guarded = Machine!Guarded
      /\ Op!Phases = Machine!Phases
  BY DEF Op!Scanning, Machine!Scanning, Op!Guarded, Machine!Guarded, Op!Phases,
         Machine!Phases, Op!Idle, Machine!Idle
<1>4. /\ workers \subseteq Machine!Token /\ phase \in Machine!Phases
      /\ folderRevision \in Nat /\ nextGeneration \in Nat
  BY DEF Machine!IInv, Machine!TypeOK
<1> QED
  BY <1>1, <1>2, <1>3, <1>4
  DEF Machine!IInv, Machine!PhaseMatchesOperation, Machine!EffectsOutliveWindow,
      Machine!OneWorkerForTheScreen, Machine!CloseIsRemembered

LEMMA PhasesOfKinds ==
  /\ Op!PhasesOf("surface-scan") = {"SurfaceScanning", "SurfaceCancelling"}
  /\ Op!PhasesOf("duplicate-scan") = {"DuplicateScanning", "DuplicateCancelling"}
  /\ Op!PhasesOf("export") = {"Exporting", "ExportCancelling", "ClosingAfterExport"}
  /\ Op!PhasesOf("delete") = {"Deleting", "ClosingAfterDelete"}
BY Zenon DEF Op!PhasesOf

--------------------------------------------------------------------------------
(* The screen and the work behind it.  A scan works on the revision of its  *)
(* token, and reports for it.                                               *)
ScansKnowTheirRevision ==
  /\ \A w \in running : w.token.kind \in {"surface-scan", "duplicate-scan"} =>
       w.input = w.token.folderRevision
  /\ \A i \in DOMAIN posted :
       posted[i].kind = "done"
         /\ posted[i].token.kind \in {"surface-scan", "duplicate-scan"} =>
       posted[i].revision = posted[i].token.folderRevision

(* What a dialog was opened about has not changed behind it. *)
DialogShowsTheScreen ==
  /\ dialog.kind \in {"confirm", "save"} => phase = "ResultsReady"
  /\ dialog.kind = "confirm" => dialog.plan = Plan /\ dialog.plan # {}
  /\ dialog.kind = "save" => dialog.plan = rows.groups

SInv ==
  /\ PublishedBelongsToScreen /\ RunningPlanIsOnScreen
  /\ ScansKnowTheirRevision /\ DialogShowsTheScreen

(* A batch or an export at work is the active operation: nothing else can   *)
(* happen to the state machine than its completion or a close.              *)
LEMMA GuardedWork ==
  ASSUME Machine!IInv, TInv, NEW w \in running,
         w.token.kind \in {"export", "delete"}
  PROVE  /\ active = w.token /\ phase \in Op!Guarded
         /\ \A i \in DOMAIN posted :
              posted[i].kind = "done" => ~Op!Accepts(posted[i].token)
<1>1. w.token \in workers
  BY DEF TInv, TokensAreOut
<1>2. active = w.token /\ active # Op!NoToken
  BY <1>1, MachineFacts
<1>3. phase \in Op!PhasesOf(w.token.kind)
  BY <1>2, MachineFacts
<1>4. phase \in Op!Guarded
  BY <1>3, PhasesOfKinds DEF Op!Guarded
<1>5. \A i \in DOMAIN posted :
        posted[i].kind = "done" => ~Op!Accepts(posted[i].token)
  BY <1>2 DEF TInv, TokensAreUnique, Op!Accepts
<1> QED
  BY <1>2, <1>4, <1>5

LEMMA InitSInv == Init => SInv
<1> SUFFICES ASSUME Init
             PROVE  SInv
  OBVIOUS
<1>1. posted = <<>> /\ DOMAIN posted = {}
  BY DEF Init
<1>2. PublishedBelongsToScreen
  BY DEF Init, Op!Init, PublishedBelongsToScreen, NoRows, NoReport, HasRows, Op!Guarded
<1>3. RunningPlanIsOnScreen /\ ScansKnowTheirRevision /\ DialogShowsTheScreen
  BY <1>1 DEF Init, RunningPlanIsOnScreen, ScansKnowTheirRevision,
              DialogShowsTheScreen, NoDialog
<1> QED
  BY <1>2, <1>3 DEF SInv

(* Steps that leave the screen, the work and the state machine alone.       *)
LEMMA QuietSInv ==
  ASSUME SInv, UNCHANGED <<opVars, report, rows, checked, running, posted>>,
         uiClosing' = uiClosing, status' \in {status, Op!NoToken},
         \/ dialog' \in {dialog, NoDialog} \/ dialog'.kind = "pick-folder"
         \/ phase = "ResultsReady" /\ dialog' = [kind |-> "save", plan |-> rows.groups]
         \/ phase = "ResultsReady" /\ Plan # {}
              /\ dialog' = [kind |-> "confirm", plan |-> Plan]
  PROVE  SInv'
<1>1. UNCHANGED <<phase, folderRevision, active>>
  BY DEF opVars
<1>2. Plan' = Plan /\ (HasRows' <=> HasRows)
  BY DEF Plan, HasRows
<1>3. PublishedBelongsToScreen'
  BY <1>1, <1>2 DEF SInv, PublishedBelongsToScreen
<1>4. RunningPlanIsOnScreen' /\ ScansKnowTheirRevision'
  BY <1>1, <1>2 DEF SInv, RunningPlanIsOnScreen, ScansKnowTheirRevision
<1>5. DialogShowsTheScreen'
  BY <1>1, <1>2 DEF SInv, DialogShowsTheScreen, NoDialog
<1> QED
  BY <1>3, <1>4, <1>5 DEF SInv

LEMMA DialogSInv ==
  ASSUME SInv,
         \/ OpenFolderDialog \/ CancelDialog \/ ToggleFocus \/ OpenSaveDialog
         \/ OpenConfirmDialog \/ \E t \in consumers : EndProgress(t)
         \/ UNCHANGED vars
  PROVE  SInv'
<1>1. UNCHANGED <<opVars, report, rows, checked, running, posted, status, uiClosing>>
  BY DEF OpenFolderDialog, CancelDialog, ToggleFocus, OpenSaveDialog,
         OpenConfirmDialog, EndProgress, vars, tableVars, asyncVars
<1>2. CASE OpenFolderDialog \/ CancelDialog \/ ToggleFocus \/ UNCHANGED vars
           \/ \E t \in consumers : EndProgress(t)
  <2>1. dialog' \in {dialog, NoDialog} \/ dialog'.kind = "pick-folder"
    BY <1>2 DEF OpenFolderDialog, CancelDialog, ToggleFocus, EndProgress, vars
  <2> QED
    BY <1>1, <2>1, QuietSInv
<1>3. CASE OpenSaveDialog \/ OpenConfirmDialog
  <2>1. phase = "ResultsReady"
    BY <1>3 DEF OpenSaveDialog, OpenConfirmDialog, DeleteEnabled, ResultActionsEnabled
  <2>2. \/ dialog' = [kind |-> "save", plan |-> rows.groups]
        \/ Plan # {} /\ dialog' = [kind |-> "confirm", plan |-> Plan]
    BY <1>3 DEF OpenSaveDialog, OpenConfirmDialog
  <2> QED
    BY <1>1, <2>1, <2>2, QuietSInv
<1> QED
  BY <1>2, <1>3

(* Checking and unchecking: no batch is running. *)
LEMMA ReviewSInv ==
  ASSUME Machine!IInv, TInv, SInv,
         \/ ClearSelection \/ \E f \in Files : SetChecked(f)
         \/ \E s \in {"keep-newest", "keep-oldest"} : SelectAllExcept(s)
  PROVE  SInv'
<1>1. /\ UNCHANGED <<opVars, report, rows, running, posted, dialog, uiClosing>>
      /\ status' = Op!NoToken /\ dialog = NoDialog
      /\ phase \in {"SurfaceReady", "ResultsReady"}
  BY DEF ClearSelection, SetChecked, SelectAllExcept, ReviewStep, Interactive,
         asyncVars, TableEnabled, ResultActionsEnabled, Reviewable
<1>2. UNCHANGED <<phase, folderRevision, active>>
  BY <1>1 DEF opVars
<1>3. \A w \in running : w.token.kind # "delete"
  BY <1>1, GuardedWork DEF Op!Guarded
<1>4. PublishedBelongsToScreen'
  BY <1>1, <1>2 DEF SInv, PublishedBelongsToScreen, HasRows
<1>5. RunningPlanIsOnScreen' /\ ScansKnowTheirRevision'
  BY <1>1, <1>3 DEF SInv, RunningPlanIsOnScreen, ScansKnowTheirRevision
<1>6. DialogShowsTheScreen'
  BY <1>1 DEF DialogShowsTheScreen, NoDialog
<1> QED
  BY <1>4, <1>5, <1>6 DEF SInv

(* The table is emptied, with or without a new folder: nothing guarded is   *)
(* at work.                                                                 *)
LEMMA EmptySInv ==
  ASSUME Machine!IInv, TInv, SInv,
         ResetAll \/ ClearResults \/ \E f \in Folders : SelectFolder(f)
  PROVE  SInv'
<1>1. /\ UNCHANGED <<running, posted, uiClosing>> /\ status' = Op!NoToken
      /\ rows' = NoRows /\ dialog'.kind \notin {"confirm", "save"}
  BY DEF ResetAll, ClearResults, SelectFolder, Interactive, NoDialog, asyncVars
<1>2. ~HasRows' /\ rows'.groups = {}
  BY <1>1 DEF HasRows, NoRows
<1>3. phase \in Op!Idle
  BY DEF ResetAll, ClearResults, SelectFolder, Op!Reset, Op!CanReset, Op!SelectFolder,
         Op!CanChangeFolder, ClearEnabled, Reviewable, Op!Idle
<1>4. \A w \in running : w.token.kind \notin {"export", "delete"}
  BY <1>3, GuardedWork DEF Op!Guarded, Op!Idle
<1>5. RunningPlanIsOnScreen' /\ ScansKnowTheirRevision' /\ DialogShowsTheScreen'
  BY <1>1, <1>4
  DEF SInv, RunningPlanIsOnScreen, ScansKnowTheirRevision, DialogShowsTheScreen
<1>6. CASE ResetAll \/ \E f \in Folders : SelectFolder(f)
  <2>1. phase' \in {"NoFolder", "FolderReady"} /\ report'.revision = 0
    BY <1>6 DEF ResetAll, SelectFolder, Op!Reset, Op!SelectFolder, NoReport
  <2>2. PublishedBelongsToScreen'
    BY <1>1, <1>2, <2>1 DEF PublishedBelongsToScreen, Op!Guarded
  <2> QED
    BY <1>5, <2>2 DEF SInv
<1>7. CASE ClearResults
  <2>1. /\ UNCHANGED <<folderRevision, report>>
        /\ phase \in {"SurfaceReady", "ResultsReady"} /\ phase' = "SurfaceReady"
    BY <1>7 DEF ClearResults, Op!ClearResults, opVars
  <2>2. PublishedBelongsToScreen'
    BY <1>1, <1>2, <2>1 DEF SInv, PublishedBelongsToScreen
  <2> QED
    BY <1>5, <2>2 DEF SInv
<1> QED
  BY <1>6, <1>7

LEMMA StartSInv ==
  ASSUME Machine!IInv, TInv, SInv,
         StartSurfaceScan \/ StartDuplicateScan \/ ExportReport \/ ConfirmConsolidate
  PROVE  SInv'
<1> DEFINE Begun(kind, next, input) ==
             /\ active' = Op!NewToken(kind) /\ phase' = next
             /\ running' = running \cup {[token |-> Op!NewToken(kind), input |-> input]}
             /\ UNCHANGED <<folderRevision, posted, uiClosing>>
             /\ status' = Op!NoToken
<1>1. ASSUME NEW kind
      PROVE  /\ Op!NewToken(kind).kind = kind
             /\ Op!NewToken(kind).folderRevision = folderRevision
  BY DEF Op!NewToken
<1>2. phase \in {"FolderReady", "SurfaceReady", "ResultsReady"}
  BY DEF StartSurfaceScan, StartDuplicateScan, ExportReport, ConfirmConsolidate,
         ScanEnabled, Op!BeginExport, Op!BeginDelete
<1>3. \A w \in running : w.token.kind \notin {"export", "delete"}
  BY <1>2, GuardedWork DEF Op!Guarded
<1>4. CASE StartSurfaceScan
  <2>1. /\ Begun("surface-scan", "SurfaceScanning", folderRevision)
        /\ rows' = NoRows /\ report'.revision = 0 /\ dialog' = NoDialog
    BY <1>4 DEF StartSurfaceScan, Op!BeginSurfaceScan, Op!BeginOperation, StartWorker,
                Interactive, NoReport
  <2>2. PublishedBelongsToScreen'
    BY <2>1 DEF PublishedBelongsToScreen, HasRows, NoRows, Op!Guarded
  <2>3. RunningPlanIsOnScreen' /\ ScansKnowTheirRevision'
    BY <1>1, <1>3, <2>1 DEF SInv, RunningPlanIsOnScreen, ScansKnowTheirRevision
  <2>4. DialogShowsTheScreen'
    BY <2>1 DEF DialogShowsTheScreen, NoDialog
  <2> QED
    BY <2>2, <2>3, <2>4 DEF SInv
<1>5. CASE StartDuplicateScan
  <2>1. /\ Begun("duplicate-scan", "DuplicateScanning", report.revision)
        /\ UNCHANGED <<rows, report>> /\ dialog' = NoDialog
    BY <1>5 DEF StartDuplicateScan, Op!BeginDuplicateScan, Op!BeginOperation,
                StartWorker, Interactive
  <2>2. phase = "SurfaceReady"
    <3>1. phase = "FolderReady" => ScanDispatch = "surface-scan"
      BY Zenon DEF ScanDispatch
    <3>2. phase = "ResultsReady" => ScanDispatch = "ignored"
      BY Zenon DEF ScanDispatch
    <3>3. ScanDispatch = "duplicate-scan"
      BY <1>5 DEF StartDuplicateScan
    <3> QED
      BY <1>2, <3>1, <3>2, <3>3
  <2>3. rows.groups = {} /\ report.revision = folderRevision
    BY <2>2 DEF SInv, PublishedBelongsToScreen, Op!Guarded
  <2>4. PublishedBelongsToScreen'
    BY <2>1, <2>3 DEF SInv, PublishedBelongsToScreen, HasRows
  <2>5. RunningPlanIsOnScreen' /\ ScansKnowTheirRevision'
    BY <1>1, <1>3, <2>1, <2>3 DEF SInv, RunningPlanIsOnScreen, ScansKnowTheirRevision
  <2>6. DialogShowsTheScreen'
    BY <2>1 DEF DialogShowsTheScreen, NoDialog
  <2> QED
    BY <2>4, <2>5, <2>6 DEF SInv
<1>6. CASE ExportReport
  <2>1. /\ Begun("export", "Exporting", rows.groups) /\ phase = "ResultsReady"
        /\ UNCHANGED <<rows, report, checked>> /\ dialog' = NoDialog
    BY <1>6 DEF ExportReport, Op!BeginExport, Op!BeginOperation, StartWorker, SInv,
                DialogShowsTheScreen
  <2>2. PublishedBelongsToScreen'
    BY <2>1 DEF SInv, PublishedBelongsToScreen, HasRows, Op!Guarded
  <2>3. RunningPlanIsOnScreen' /\ ScansKnowTheirRevision'
    BY <1>1, <1>3, <2>1 DEF SInv, RunningPlanIsOnScreen, ScansKnowTheirRevision
  <2>4. DialogShowsTheScreen'
    BY <2>1 DEF DialogShowsTheScreen, NoDialog
  <2> QED
    BY <2>2, <2>3, <2>4 DEF SInv
<1>7. CASE ConfirmConsolidate
  <2>1. /\ Begun("delete", "Deleting", Plan) /\ Plan # {} /\ phase = "ResultsReady"
        /\ UNCHANGED <<rows, report, checked>> /\ dialog' = NoDialog
    BY <1>7 DEF ConfirmConsolidate, Op!BeginDelete, Op!BeginOperation, StartWorker,
                SInv, DialogShowsTheScreen
  <2>2. PublishedBelongsToScreen'
    BY <2>1 DEF SInv, PublishedBelongsToScreen, HasRows, Op!Guarded
  <2>3. Plan' = Plan
    BY <2>1 DEF Plan
  <2>4. RunningPlanIsOnScreen' /\ ScansKnowTheirRevision'
    BY <1>1, <1>3, <2>1, <2>3 DEF SInv, RunningPlanIsOnScreen, ScansKnowTheirRevision
  <2>5. DialogShowsTheScreen'
    BY <2>1 DEF DialogShowsTheScreen, NoDialog
  <2> QED
    BY <2>2, <2>4, <2>5 DEF SInv
<1> QED
  BY <1>4, <1>5, <1>6, <1>7

(* A cancellation or a close leaves the screen alone. *)
LEMMA StopSInv ==
  ASSUME Machine!IInv, TInv, SInv, Cancel \/ HandleWindowClosing
  PROVE  SInv'
<1>1. /\ UNCHANGED <<folderRevision, report, rows, checked, running, posted, dialog>>
      /\ dialog = NoDialog
  BY DEF Cancel, HandleWindowClosing, Interactive, asyncVars, Op!RequestClose,
         Op!RequestCloseNow, Op!RequestCloseDeferred, Op!RequestCloseAgain, Op!vars,
         Op!RequestScanCancellation, Op!RequestExportCancellation
<1>2. Plan' = Plan /\ (HasRows' <=> HasRows)
  BY <1>1 DEF Plan, HasRows
<1>3. RunningPlanIsOnScreen' /\ ScansKnowTheirRevision' /\ DialogShowsTheScreen'
  BY <1>1, <1>2 DEF SInv, RunningPlanIsOnScreen, ScansKnowTheirRevision,
                    DialogShowsTheScreen, NoDialog
<1>4. status' # Op!NoToken => status' = active' \/ uiClosing'
  <2>1. CASE Cancel
    BY <2>1 DEF Cancel
  <2>2. CASE HandleWindowClosing
    <3>1. uiClosing' = allowClose' /\ status' = status /\ ~uiClosing
      BY <2>2 DEF HandleWindowClosing, Interactive
    <3>2. allowClose' \/ active' = active
      BY <2>2 DEF HandleWindowClosing, Op!RequestClose, Op!RequestCloseNow,
                  Op!RequestCloseDeferred, Op!RequestCloseAgain, Op!vars
    <3> QED
      BY <3>1, <3>2 DEF SInv, PublishedBelongsToScreen
  <2> QED
    BY <2>1, <2>2
<1>5. \/ phase' = "Closing" \/ phase' = phase
      \/ phase = "SurfaceScanning" /\ phase' = "SurfaceCancelling"
      \/ phase = "DuplicateScanning" /\ phase' = "DuplicateCancelling"
      \/ phase \in Op!Guarded /\ phase' \in Op!Guarded
  BY DEF Cancel, HandleWindowClosing, Op!RequestClose,
         Op!RequestCloseNow, Op!RequestCloseDeferred, Op!RequestCloseAgain, Op!vars,
         Op!RequestScanCancellation, Op!RequestExportCancellation, Op!Guarded
<1>6. PublishedBelongsToScreen'
  BY <1>1, <1>2, <1>4, <1>5 DEF SInv, PublishedBelongsToScreen, Op!Guarded
<1> QED
  BY <1>3, <1>6 DEF SInv

(* Goroutines: the queue grows, the screen does not move. *)
LEMMA WorkSInv ==
  ASSUME Machine!IInv, TInv, SInv,
         \/ \E t \in consumers : PostProgress(t)
         \/ \E w \in running : WorkerReturns(w)
  PROVE  SInv'
<1>1. ASSUME NEW c, Post(c), UNCHANGED <<dialog, status, uiClosing>>,
             UNCHANGED <<phase, folderRevision, active, report, rows, checked>>,
             running' \subseteq running,
             c.kind = "done" /\ c.token.kind \in {"surface-scan", "duplicate-scan"} =>
               c.revision = c.token.folderRevision
      PROVE  SInv'
  <2>1. Plan' = Plan /\ (HasRows' <=> HasRows)
    BY <1>1 DEF Plan, HasRows
  <2>2. \A i \in DOMAIN posted' :
          (i \in DOMAIN posted /\ posted'[i] = posted[i]) \/ posted'[i] = c
    <3>1. CASE posted' = posted
      BY <3>1
    <3>2. CASE posted' = Append(posted, c)
      <4>1. posted \in Seq(CallbacksOf(posted) \cup {c})
        BY SeqMonotonic DEF TInv, QueueIsSequence
      <4>2. /\ Len(posted') = Len(posted) + 1 /\ Len(posted) \in Nat
            /\ \A i \in 1..Len(posted) : posted'[i] = posted[i]
            /\ posted'[Len(posted) + 1] = c
            /\ DOMAIN posted' = 1..(Len(posted) + 1) /\ DOMAIN posted = 1..Len(posted)
        BY <3>2, <4>1, AppendProperties, LenProperties
      <4> QED
        BY <4>2
    <3> QED
      BY <1>1, <3>1, <3>2 DEF Post
  <2>3. PublishedBelongsToScreen'
    BY <1>1, <2>1 DEF SInv, PublishedBelongsToScreen
  <2>4. RunningPlanIsOnScreen'
    BY <1>1, <2>1 DEF SInv, RunningPlanIsOnScreen
  <2>5. ScansKnowTheirRevision'
    BY <1>1, <2>2 DEF SInv, ScansKnowTheirRevision
  <2>6. DialogShowsTheScreen'
    BY <1>1, <2>1 DEF SInv, DialogShowsTheScreen
  <2> QED
    BY <2>3, <2>4, <2>5, <2>6 DEF SInv
<1>2. ASSUME NEW t \in consumers, PostProgress(t)
      PROVE  SInv'
  <2>1. PICK c : c.kind = "progress" /\ Post(c)
    BY <1>2 DEF PostProgress
  <2> QED
    BY <1>1, <1>2, <2>1 DEF PostProgress, opVars, tableVars
<1>3. ASSUME NEW w \in running, NEW ok, NEW groups, NEW files, NEW issues,
             Done(w, ok, groups, files, issues)
      PROVE  SInv'
  <2>1. PICK c : /\ c.token = w.token /\ Post(c)
                 /\ c.revision = IF w.token.kind \in {"surface-scan", "duplicate-scan"}
                                 THEN w.input ELSE 0
    BY <1>3 DEF Done
  <2>2. c.token.kind \in {"surface-scan", "duplicate-scan"} =>
          c.revision = c.token.folderRevision
    BY <2>1 DEF SInv, ScansKnowTheirRevision
  <2>3. UNCHANGED <<phase, folderRevision, active>>
    BY <1>3 DEF Done, opVars, Op!StaleCompletion
  <2>4. /\ UNCHANGED <<dialog, status, uiClosing, report, rows, checked>>
        /\ running' \subseteq running
    BY <1>3 DEF Done, tableVars
  <2> QED
    BY <1>1, <2>1, <2>2, <2>3, <2>4
<1> QED
  BY <1>2, <1>3 DEF WorkerReturns

(* Callbacks: only the completion of the active operation moves the screen. *)
LEMMA CallbackSInv ==
  ASSUME Machine!IInv, TInv, SInv, RunCallback
  PROVE  SInv'
<1>1. TakeCallback /\ UNCHANGED <<running, dialog>>
  BY DEF RunCallback, ShowProgress, SurfaceScanFinished, ScanFinished,
         ReportExportFinished, ApplyConsolidateBatch, DropCallback, Completion
<1>2. /\ 1 \in DOMAIN posted /\ Callback = posted[1]
      /\ \A i \in DOMAIN posted' : i + 1 \in DOMAIN posted /\ posted'[i] = posted[i + 1]
  <2>1. posted \in Seq(CallbacksOf(posted)) /\ posted # <<>> /\ posted' = Tail(posted)
    BY <1>1 DEF TInv, QueueIsSequence, TakeCallback
  <2>2. /\ Len(posted) \in Nat /\ DOMAIN posted = 1..Len(posted) /\ Len(posted) # 0
        /\ posted' \in Seq(CallbacksOf(posted)) /\ Len(posted') = Len(posted) - 1
        /\ \A i \in 1..Len(posted') : posted'[i] = posted[i + 1]
    BY <2>1, LenProperties, HeadTailProperties, EmptySeq
  <2>3. DOMAIN posted' = 1..Len(posted')
    BY <2>2, LenProperties
  <2> QED
    BY <2>1, <2>2, <2>3 DEF Callback
<1>3. ScansKnowTheirRevision'
  BY <1>1, <1>2 DEF SInv, ScansKnowTheirRevision
<1>4. ASSUME Callback.kind = "done"
      PROVE  /\ Callback.token \in workers
             /\ Callback.token.folderRevision = folderRevision
             /\ Callback.token.kind \in {"surface-scan", "duplicate-scan"} =>
                  Callback.revision = folderRevision
  BY <1>2, <1>4, MachineFacts
  DEF TInv, TokensAreOut, SInv, ScansKnowTheirRevision
<1>5. ASSUME Callback.kind = "done", Op!Accepts(Callback.token)
      PROVE  /\ \A w \in running : w.token.kind \notin {"export", "delete"}
             /\ phase \in Op!PhasesOf(Callback.token.kind)
  BY <1>2, <1>5, GuardedWork DEF Op!Accepts
<1>6. ASSUME UNCHANGED <<phase, folderRevision, active, report, rows, checked, uiClosing>>,
             status' # Op!NoToken => status' \in {status, active}
      PROVE  SInv'
  <2>1. Plan' = Plan /\ (HasRows' <=> HasRows)
    BY <1>6 DEF Plan, HasRows
  <2>2. PublishedBelongsToScreen'
    BY <1>6, <2>1 DEF SInv, PublishedBelongsToScreen
  <2>3. RunningPlanIsOnScreen' /\ DialogShowsTheScreen'
    BY <1>1, <1>6, <2>1 DEF SInv, RunningPlanIsOnScreen, DialogShowsTheScreen
  <2> QED
    BY <1>3, <2>2, <2>3 DEF SInv
<1>7. CASE ShowProgress \/ DropCallback
  <2>1. /\ UNCHANGED <<phase, folderRevision, active, report, rows, checked, uiClosing>>
        /\ status' # Op!NoToken => status' \in {status, active}
    BY <1>7 DEF ShowProgress, AcceptsProgress, Op!Accepts, DropCallback,
                Op!StaleCompletion, opVars, tableVars
  <2> QED
    BY <1>6, <2>1
<1>8. ASSUME Callback.kind = "done", Op!Accepts(Callback.token),
             phase \notin {"ResultsReady"}
      PROVE  RunningPlanIsOnScreen' /\ DialogShowsTheScreen'
  <2>1. \A w \in running : w.token.kind \notin {"export", "delete"}
    BY <1>5, <1>8
  <2> QED
    BY <1>1, <1>8, <2>1
    DEF SInv, RunningPlanIsOnScreen, DialogShowsTheScreen
<1>9. CASE SurfaceScanFinished
  <2>1. /\ Callback.kind = "done" /\ Callback.token.kind = "surface-scan"
        /\ Op!Accepts(Callback.token) /\ UNCHANGED <<folderRevision, uiClosing>>
        /\ phase' \in {"SurfaceReady", "FolderReady"} /\ status' = Op!NoToken
    BY <1>9 DEF SurfaceScanFinished, Completion, Op!CompleteSurfaceScan
  <2>2. phase \in {"SurfaceScanning", "SurfaceCancelling"}
    BY <1>5, <2>1, PhasesOfKinds
  <2>3. RunningPlanIsOnScreen' /\ DialogShowsTheScreen'
    BY <1>8, <2>1, <2>2
  <2>4. CASE phase' = "SurfaceReady"
    <3>1. /\ report'.revision = folderRevision /\ rows'.revision = folderRevision
          /\ rows'.groups = {}
      BY <1>4, <1>9, <2>1, <2>4 DEF SurfaceScanFinished
    <3>2. PublishedBelongsToScreen'
      BY <2>1, <3>1 DEF PublishedBelongsToScreen
    <3> QED
      BY <1>3, <2>3, <3>2 DEF SInv
  <2>5. CASE phase' = "FolderReady"
    <3>1. UNCHANGED <<report, rows>> /\ rows.groups = {}
      BY <1>9, <2>2, <2>5
      DEF SurfaceScanFinished, SInv, PublishedBelongsToScreen, Op!Guarded
    <3>2. PublishedBelongsToScreen'
      BY <2>1, <2>5, <3>1 DEF SInv, PublishedBelongsToScreen, HasRows, Op!Guarded
    <3> QED
      BY <1>3, <2>3, <3>2 DEF SInv
  <2> QED
    BY <2>1, <2>4, <2>5
<1>10. CASE ScanFinished
  <2>1. /\ Callback.kind = "done" /\ Callback.token.kind = "duplicate-scan"
        /\ Op!Accepts(Callback.token)
        /\ UNCHANGED <<folderRevision, uiClosing, report>>
        /\ phase' \in {"ResultsReady", "SurfaceReady"} /\ status' = Op!NoToken
    BY <1>10 DEF ScanFinished, Completion, Op!CompleteDuplicateScan
  <2>2. phase \in {"DuplicateScanning", "DuplicateCancelling"}
    BY <1>5, <2>1, PhasesOfKinds
  <2>3. RunningPlanIsOnScreen' /\ DialogShowsTheScreen'
    BY <1>8, <2>1, <2>2
  <2>4. rows.groups = {} /\ report.revision = folderRevision
    BY <2>2 DEF SInv, PublishedBelongsToScreen, Op!Guarded
  <2>5. CASE phase' = "ResultsReady"
    <3>1. rows'.revision = folderRevision
      BY <1>4, <1>10, <2>1, <2>5 DEF ScanFinished, PublishGroups
    <3>2. PublishedBelongsToScreen'
      BY <2>1, <2>4, <2>5, <3>1 DEF PublishedBelongsToScreen
    <3> QED
      BY <1>3, <2>3, <3>2 DEF SInv
  <2>6. CASE phase' = "SurfaceReady"
    <3>1. UNCHANGED rows
      BY <1>10, <2>6 DEF ScanFinished, PublishGroups
    <3>2. PublishedBelongsToScreen'
      BY <2>1, <2>4, <2>6, <3>1 DEF SInv, PublishedBelongsToScreen, HasRows
    <3> QED
      BY <1>3, <2>3, <3>2 DEF SInv
  <2> QED
    BY <2>1, <2>5, <2>6
<1>11. CASE ReportExportFinished \/ ApplyConsolidateBatch
  <2>1. /\ Callback.kind = "done" /\ Callback.token.kind \in {"export", "delete"}
        /\ Op!Accepts(Callback.token)
        /\ UNCHANGED <<folderRevision, report, rows>>
        /\ phase' \in {"Closing", "ResultsReady"} /\ status' = Op!NoToken
    BY <1>11 DEF ReportExportFinished, ApplyConsolidateBatch, Completion,
                 Op!CompleteExport, Op!CompleteDelete, Op!RetireGuarded
  <2>2. phase \in Op!Guarded
    BY <1>5, <2>1, PhasesOfKinds DEF Op!Guarded
  <2>3. phase # "ResultsReady"
    BY <2>2 DEF Op!Guarded
  <2>4. RunningPlanIsOnScreen' /\ DialogShowsTheScreen'
    BY <1>8, <2>1, <2>3
  <2>5. PublishedBelongsToScreen'
    BY <2>1, <2>2 DEF SInv, PublishedBelongsToScreen, HasRows
  <2> QED
    BY <1>3, <2>4, <2>5 DEF SInv
<1> QED
  BY <1>7, <1>9, <1>10, <1>11 DEF RunCallback

THEOREM ScreenInvariance == Spec => []SInv
<1>1. Spec => []Machine!IInv
  <2>1. Machine!Spec => []Machine!IInv
    BY Machine!Invariance, GuiWorkflowAssumption
  <2> QED
    BY <2>1, WindowRefinesOperationState, MachineSpec, PTL DEF ImplementsOperationState
<1>2. Spec => []TInv
  <2>1. Init => TInv
    BY InitTInv
  <2> QED
    BY <2>1, EveryStep, PTL DEF Spec
<1>3. Machine!IInv /\ TInv /\ SInv /\ [Next]_vars => SInv'
  BY DialogSInv, ReviewSInv, EmptySInv, StartSInv, StopSInv, WorkSInv, CallbackSInv
  DEF Next
<1> QED
  BY InitSInv, <1>1, <1>2, <1>3, PTL DEF Spec

(* What the table and the status line show belongs to the folder and the    *)
(* operation on screen: app_windows.go:750-880 against 542-589, 614-677.    *)
THEOREM ScreenIsCurrent == Spec => []PublishedBelongsToScreen
BY ScreenInvariance, PTL DEF SInv

(* A running batch works on the plan that the table shows as checked, a     *)
(* running export on the groups it shows: app_consolidate_windows.go:89-146.*)
THEOREM RunningPlanIsCurrent == Spec => []RunningPlanIsOnScreen
BY ScreenInvariance, PTL DEF SInv

================================================================================
