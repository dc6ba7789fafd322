----------------------------- MODULE SelectLoop -----------------------------
(***************************************************************************)
(* The loop of State.selectLocked (internal/router/select.go), one step    *)
(* per route, on whatever routing state the caller holds the lock on.      *)
(* RoutingState describes its result declaratively; the loop is what the   *)
(* code runs, and the invariant says that the two agree.                   *)
(***************************************************************************)
EXTENDS RoutingState

CONSTANT Loads   \* in-flight counts the selection may meet

ASSUME LoadsAssumption == Loads \subseteq Nat

VARIABLES
  name,          \* the alias argument
  attempted,     \* the attempted argument
  next,          \* position of the route the loop looks at next
  best,          \* the route chosen so far; 0 for nil
  bestInflight   \* in-flight count of its backend when it was chosen

loopVars == <<name, attempted, next, best, bestInflight>>
selectVars == <<stateVars, loopVars>>

(* Any call: flags as SetHealth leaves them, counters within capacity.     *)
SelectInit ==
  /\ checked \in [Backends -> BOOLEAN]
  /\ healthy \in [Backends -> BOOLEAN]
  /\ \A b \in Backends : healthy[b] => checked[b]
  /\ inflight \in [Backends -> Loads]
  /\ \A b \in Backends : inflight[b] <= MaxInflight[b]
  /\ gauge = [g \in Gauges |-> [b \in Backends |-> 0]]
  /\ pub = [g \in Goroutines |-> <<>>]
  /\ name \in Aliases
  /\ attempted \in SUBSET RouteIds(name)
  /\ next = 1
  /\ best = 0
  /\ bestInflight = 0

(* The three continue statements.                                          *)
Skipped(i) ==
  LET b == BackendOf(name, i) IN
  \/ i \in attempted
  \/ ~checked[b] \/ ~healthy[b]
  \/ inflight[b] >= MaxInflight[b]

(* Mutant of Better: an equally loaded later route replaces the best one.  *)
BetterOrEqual(i) ==
  \/ best = 0
  \/ PriorityOf(name, i) < PriorityOf(name, best)
  \/ /\ PriorityOf(name, i) = PriorityOf(name, best)
     /\ inflight[BackendOf(name, i)] <= bestInflight

(* best = nil, or one of the switch's cases that replace it.               *)
Better(i) ==
  \/ best = 0
  \/ PriorityOf(name, i) < PriorityOf(name, best)
  \/ /\ PriorityOf(name, i) = PriorityOf(name, best)
     /\ inflight[BackendOf(name, i)] < bestInflight

Consider ==
  /\ next \in RouteIds(name)
  /\ IF ~Skipped(next) /\ Better(next)
     THEN /\ best' = next
          /\ bestInflight' = inflight[BackendOf(name, next)]
     ELSE UNCHANGED <<best, bestInflight>>
  /\ next' = next + 1
  /\ UNCHANGED <<stateVars, name, attempted>>

SelectSpec == SelectInit /\ [][Consider]_selectVars

-----------------------------------------------------------------------------
(* The loop has looked at every route.                                     *)
Done == next \notin RouteIds(name)

(* select.go 3-11: the route the loop ends with is the one the documented  *)
(* order prescribes - not attempted, healthy, below capacity, then lowest  *)
(* priority value, then least loaded backend, then configuration order -   *)
(* and it ends with none exactly when no route qualifies.                  *)
LoopSelects ==
  Done => IF best = 0 THEN Eligible(name, attempted, inflight) = {}
                      ELSE selectLocked(name, attempted, inflight) = {best}

(* The loop invariant behind it: best is the preferred one of the eligible *)
(* routes among those already looked at.                                   *)
LoopTypeOK ==
  /\ RoutingStateTypeOK
  /\ name \in Aliases
  /\ next \in Nat \ {0}
  /\ best \in Nat
LoopInv ==
  /\ LoopTypeOK
  /\ best = 0 => \A j \in Eligible(name, attempted, inflight) : j >= next
  /\ best # 0 => /\ best \in Eligible(name, attempted, inflight)
                 /\ best < next
                 /\ bestInflight = inflight[BackendOf(name, best)]
                 /\ \A j \in Eligible(name, attempted, inflight) \ {best} :
                      j < next => Preferred(name, inflight, best, j)
=============================================================================
