---------------------------- MODULE MCFrequency -----------------------------
(* Small instances of Frequency for TLC. *)
EXTENDS Frequency, TLC

CONSTANTS t1, t2, d1, d2

Control(type, action, count, period, endtime) ==
    [type |-> type, action |-> action, count |-> count, period |-> period,
     endtime |-> endtime]

Both(c, p) == [k \in {"campaign", "policy"} |->
                  IF k = "campaign" THEN c ELSE p]

\* Impressions of a creative are capped per period of two seconds and those
\* of the policy for the whole campaign; or clicks of campaign and policy are
\* capped in the same period, at different counts.
OwnAndSharedFields ==
    {Both(Control(2, "i", 2, 2, 0), Control(1, "i", 1, 0, 2)),
     Both(Control(1, "c", 1, 2, 0), Control(1, "c", 2, 2, 0))}

\* Campaigns, policies and creatives are numbered independently, so that a
\* policy may have the number of its campaign and of its creative.
SameIds == [l \in Levels |-> 1]

\* Campaign and policy cap the impressions of the same kind of period.
SamePeriod == {Both(Control(1, "i", 2, 2, 0), Control(1, "i", 2, 2, 0))}

Symmetry == Permutations(Threads) \cup Permutations(Devices)

==============================================================================
