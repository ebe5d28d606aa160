------------------------------- MODULE Income -------------------------------
(***************************************************************************)
(* Recurring income and its monthly overrides.  Editing, activating and    *)
(* deactivating a plan are a SELECT and an upsert of the whole row in a    *)
(* later statement; overrides are only ever added, and several may be      *)
(* entered for one plan and month.                                         *)
(***************************************************************************)
EXTENDS Integers, FiniteSets

CONSTANTS
  Owners,       \* owner contexts
  PlanIds,      \* ids of income plans
  OverrideIds,  \* ids of monthly overrides
  PlanForms,    \* what a plan form may say, after validation
  OverrideForms,\* what an override form may say
  Savers,       \* slots for plan updates in flight
  MaxColumn,    \* largest amount the integer column takes
  NoEnd,        \* a plan without an end month
  NoRow,        \* a table has no row of that id
  Idle          \* a slot without a request

\* Months are counted; a form's end month is not before its start month.
PlanForm == [owner : Owners, amount : Nat \ {0}, start : Nat, end : Nat \cup {NoEnd}]
Plan == [owner : Owners, amount : Nat \ {0}, start : Nat, end : Nat \cup {NoEnd},
         active : BOOLEAN]
Override == [plan : PlanIds, month : Nat, amount : Nat]

ASSUME PlanFormsAssumption ==
  /\ PlanForms \subseteq PlanForm
  /\ \A form \in PlanForms : form.end # NoEnd => form.end >= form.start
ASSUME OverrideFormsAssumption == OverrideForms \subseteq Override
ASSUME MaxColumnAssumption == MaxColumn \in Nat
ASSUME NoEndAssumption == NoEnd \notin Nat
ASSUME NoRowIncomeAssumption == NoRow \notin Plan \cup Override

\* The active field of a submitted form: a ticked checkbox is sent as "on", one
\* that is not ticked is not sent at all.
Boxes == {"on", "absent"}

\* An update between its SELECT and its upsert.
PlanSave == [id : PlanIds, next : Plan, of : {"edit", "activation"}]

ASSUME IdleIncomeAssumption == Idle \notin PlanSave

VARIABLES
  plans,        \* income_plans
  overrides,    \* monthly_income_overrides
  saves,        \* plan updates in flight
  entered,      \* history: the terms of a plan as its last form gave them
  overlapped    \* history: plans whose last form was saved while an activation held
                \* the row from before

incomeTables == <<plans, overrides>>
incomeVars == <<plans, overrides, saves, entered, overlapped>>

Terms(plan) == [owner |-> plan.owner, amount |-> plan.amount,
                start |-> plan.start, end |-> plan.end]

PlanOf(form, active) ==
  [owner |-> form.owner, amount |-> form.amount, start |-> form.start,
   end |-> form.end, active |-> active]

IncomeTypeOK ==
  /\ plans \in [PlanIds -> Plan \cup {NoRow}]
  /\ overrides \in [OverrideIds -> Override \cup {NoRow}]
  /\ saves \in [Savers -> PlanSave \cup {Idle}]
  /\ entered \in [PlanIds -> PlanForms \cup {NoRow}]
  /\ overlapped \subseteq PlanIds

IncomeInit(startPlans, startOverrides) ==
  /\ plans = startPlans
  /\ overrides = startOverrides
  /\ saves = [s \in Savers |-> Idle]
  /\ entered = [p \in PlanIds |-> IF plans[p] = NoRow THEN NoRow ELSE Terms(plans[p])]
  /\ overlapped = {}

\* The column refuses larger amounts, which the handler reports without a change.
Storable(amount) == amount <= MaxColumn

\* Fault: a box that is not sent leaves the column without a value.
ActiveOf_Unset(box) == IF box = "on" THEN TRUE ELSE NoRow

ActiveOf(box) == box # "off"

CreatePlan ==
  /\ \E p \in PlanIds, form \in PlanForms :
       /\ plans[p] = NoRow
       /\ Storable(form.amount)
       /\ plans' = [plans EXCEPT ![p] = PlanOf(form, ActiveOf("on"))]
       /\ entered' = [entered EXCEPT ![p] = form]
  /\ UNCHANGED <<overrides, saves, overlapped>>

\* The foreign key refuses an override of a plan that does not exist.
CreateOverride ==
  /\ \E v \in OverrideIds, form \in OverrideForms :
       /\ overrides[v] = NoRow
       /\ plans[form.plan] # NoRow
       /\ Storable(form.amount)
       /\ overrides' = [overrides EXCEPT ![v] = form]
  /\ UNCHANGED <<plans, saves, entered, overlapped>>

\* A form that fails validation changes nothing.
EditPlan(s, p, form, box) ==
  /\ saves[s] = Idle
  /\ plans[p] # NoRow
  /\ saves' = [saves EXCEPT ![s] = [id |-> p, next |-> PlanOf(form, ActiveOf(box)),
                                    of |-> "edit"]]
  /\ UNCHANGED <<incomeTables, entered, overlapped>>

\* Fault: deactivating a plan also ends it.
Activated_Ended(plan, active) ==
  [plan EXCEPT !.active = active, !.end = IF active THEN plan.end ELSE plan.start]

Activated(plan, active) == [plan EXCEPT !.active = active]

ActivatePlan(s, p, active) ==
  /\ saves[s] = Idle
  /\ plans[p] # NoRow
  /\ saves' = [saves EXCEPT ![s] = [id |-> p, next |-> Activated(plans[p], active),
                                    of |-> "activation"]]
  /\ UNCHANGED <<incomeTables, entered, overlapped>>

HeldByActivation(p, s) ==
  \E q \in Savers \ {s} :
    saves[q] # Idle /\ saves[q].id = p /\ saves[q].of = "activation"

SavePlan(s) ==
  /\ saves[s] # Idle
  /\ Storable(saves[s].next.amount)
  /\ LET p == saves[s].id IN
       /\ plans' = [plans EXCEPT ![p] = saves[s].next]
       /\ entered' = IF saves[s].of = "edit"
                     THEN [entered EXCEPT ![p] = Terms(saves[s].next)] ELSE entered
       /\ overlapped' = IF saves[s].of # "edit" THEN overlapped
                        ELSE IF HeldByActivation(p, s) THEN overlapped \cup {p}
                        ELSE overlapped \ {p}
  /\ saves' = [saves EXCEPT ![s] = Idle]
  /\ UNCHANGED overrides

SaveRefused(s) ==
  /\ saves[s] # Idle
  /\ ~Storable(saves[s].next.amount)
  /\ saves' = [saves EXCEPT ![s] = Idle]
  /\ UNCHANGED <<incomeTables, entered, overlapped>>

IncomeWrites == CreatePlan \/ CreateOverride \/ \E s \in Savers : SavePlan(s)

IncomeReads ==
  \E s \in Savers :
    \/ SaveRefused(s)
    \/ \E p \in PlanIds : \/ \E form \in PlanForms, box \in Boxes : EditPlan(s, p, form, box)
                          \/ \E active \in BOOLEAN : ActivatePlan(s, p, active)

-----------------------------------------------------------------------------
(* calculateMonthlyIncome, over the plans and overrides a request has read. *)

\* Fault: the end month is excluded.
ActiveIn_EndExcluded(plan, month) ==
  /\ plan.active /\ plan.start <= month
  /\ plan.end # NoEnd => plan.end > month

ActiveIn(plan, month) ==
  /\ plan.active /\ plan.start <= month
  /\ plan.end # NoEnd => plan.end >= month

Candidates(read, p, month) ==
  {v \in OverrideIds : /\ read.overrides[v] # NoRow
                       /\ read.overrides[v].plan = p
                       /\ read.overrides[v].month = month}

\* The overrides a statement returns are ordered by month alone: any of those
\* entered for a plan and month may come first, and the first one counts.
Firsts(read, month) ==
  {first \in [PlanIds -> OverrideIds] :
     \A p \in PlanIds : Candidates(read, p, month) # {} =>
       first[p] \in Candidates(read, p, month)}

IncomeEntry(read, p, month, first) ==
  IF Candidates(read, p, month) = {} THEN read.plans[p].amount
  ELSE read.overrides[first[p]].amount
=============================================================================
