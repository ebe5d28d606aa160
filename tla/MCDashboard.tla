---------------------------- MODULE MCDashboard ----------------------------
(* An instance of the dashboard model for TLC: months around a leap        *)
(* February, two owners, and amounts next to the rounding and to MaxSafe.  *)
EXTENDS DashboardProperties, TLC

CONSTANTS o1, o2, a1, a2, c1, c2, t1, t2, p1, v1, v2, s1, s2

Feb == 2024 * 12 + 1
Jan == Feb - 1
Nov == Feb - 3

Row(account, category, month, cents, booked, fixed, transfer) ==
  [account |-> account, category |-> category, month |-> month, cents |-> cents,
   booked |-> booked, fixed |-> fixed, transfer |-> transfer]

MCTxForms == { Row(a1, c1, Feb, -3, TRUE, FALSE, FALSE),
               Row(a2, c2, Feb, -70, FALSE, TRUE, FALSE),
               Row(a1, c1, Jan, -400, TRUE, TRUE, FALSE),
               Row(a2, c1, Nov, -4, TRUE, FALSE, FALSE),
               Row(a2, c2, Feb, -5, TRUE, FALSE, TRUE) }

NewPlan(owner, amount, start, end) ==
  [owner |-> owner, amount |-> amount, start |-> start, end |-> end]
MCPlanForms == { NewPlan(o1, 90, Jan, Feb), NewPlan(o2, 900, Feb, NoEnd) }

NewOverride(plan, month, amount) == [plan |-> plan, month |-> month, amount |-> amount]
MCOverrideForms == { NewOverride(p1, Feb, 0) }

MCFilters ==
  { [month |-> Feb, owner |-> NoFilter, account |-> NoFilter, category |-> NoFilter],
    [month |-> Jan, owner |-> o1, account |-> a1, category |-> c1] }

MCQueries ==
  LET asked(filters, style) == [filters |-> filters, style |-> style]
      all == [month |-> NoFilter, owner |-> NoFilter, account |-> NoFilter,
              category |-> NoFilter, booked |-> NoFilter, fixed |-> NoFilter,
              transfer |-> NoFilter] IN
  { asked(all, Canonical),
    asked([all EXCEPT !.month = Feb, !.owner = o1, !.transfer = FALSE], German),
    asked([all EXCEPT !.account = a2, !.category = c2, !.fixed = TRUE, !.booked = FALSE],
          Canonical) }

\* Every header of two parts, and those of three with usual parameters.
MCHeaders ==
  LET part(ranges, parameters) == [range : ranges, parameters : parameters]
      usual == {AnyRange, German, <<"de">>, English, <<"en", "gb">>, <<"fr">>}
      parts == part(usual \cup {<<>>, <<"de", "at">>},
                    {<<>>, <<0>>, <<500>>, <<1000>>, <<NotQuality>>, <<500, 500>>}) IN
  UNION {[1..n -> parts] : n \in 0..2}
    \cup [1..3 -> part(usual, {<<>>, <<0>>, <<500>>})]

MCToday == { [month |-> Feb, day |-> 2] }

Empty == [accounts |-> (a1 :> o1 @@ a2 :> NoRow), categories |-> (c1 :> "active" @@ c2 :> NoRow),
          transactions |-> [t \in TxIds |-> NoRow],
          plans |-> [p \in PlanIds |-> NoRow],
          overrides |-> [v \in OverrideIds |-> NoRow], fallback |-> German]
Lived == [accounts |-> (a1 :> o1 @@ a2 :> o2), categories |-> (c1 :> "active" @@ c2 :> "active"),
          transactions |-> (t1 :> Row(a1, c1, Feb, -3, TRUE, FALSE, FALSE)
                            @@ t2 :> Row(a2, c1, Nov, -4, TRUE, FALSE, FALSE)),
          plans |-> (p1 :> PlanOf(NewPlan(o1, 90, Jan, Feb), TRUE)),
          overrides |-> (v1 :> NewOverride(p1, Feb, 50) @@ v2 :> NoRow), fallback |-> English]
MCStartDatabases == {Empty, Lived}

SaverSymmetry == Permutations(Savers)
=============================================================================
