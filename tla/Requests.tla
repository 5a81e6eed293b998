------------------------------ MODULE Requests ------------------------------
(* What the modules of the assistant share: the requests that may be in       *)
(* flight at once in the one process, and a budget of the things that may     *)
(* happen in a behaviour.  A behaviour chooses its budget at the start, so    *)
(* that a run can go far in one direction and less far in the others.         *)
EXTENDS Integers

CONSTANTS
  Handlers, \* requests in flight
  Kinds,    \* kinds of things that are bounded
  Budgets   \* how many of each there may be

ASSUME BudgetAssumption == Budgets \subseteq [Kinds -> Nat]

VARIABLE left \* what is left of the budget

BudgetInit == left \in Budgets
BudgetTypeOK == left \in [Kinds -> Nat]

Spend(kind) == left[kind] > 0 /\ left' = [left EXCEPT ![kind] = @ - 1]
=============================================================================
