---------------------------- MODULE MCKpiControl -----------------------------
(* Small instances of KpiControl for TLC. *)
EXTENDS KpiControl, TLC

CONSTANTS t1, t2

\* A day of one hour is enough for what does not depend on the allowed hours.
Control(imp, clk, budget, uniform, allow) ==
    [imp |-> imp, clk |-> clk, budget |-> budget, uniform |-> uniform,
     allow |-> allow]

AllDay == 0 .. HoursPerDay - 1

Free == Control(-1, -1, -1, FALSE, AllDay)

Both(c, p) == [l \in Levels |-> IF l = "c" THEN c ELSE p]

\* Both levels are limited in impressions only, the policy to fewer.
OneLimitEach ==
    {Both(Control(2, -1, 0, FALSE, {}), Control(1, 0, -1, FALSE, AllDay))}

\* The targets of campaign and policy, of clicks, are raised and lowered, and
\* the campaign has a budget.
RaisedTargets ==
    {Both(Control(-1, n, 1, FALSE, {}), Control(-1, 3 - n, -1, FALSE, AllDay)) :
        n \in 1 .. 2}

\* Uniform delivery in the hours 0 and 2 of a day of three.
UniformTargets ==
    {Both(Free, Control(6, -1, -1, TRUE, {0, 2}))}

UniformLate == {Both(Free, Control(4, -1, -1, TRUE, {0}))}

BothLimits == {Both(Free, Control(1, 1, -1, FALSE, AllDay))}

BudgetOnly == {Both(Free, Control(-1, -1, 1, FALSE, AllDay))}

LimitRemoved == {Both(Free, Control(n, -1, -1, FALSE, AllDay)) : n \in {1, -1}}

Symmetry == Permutations(Threads)

==============================================================================
