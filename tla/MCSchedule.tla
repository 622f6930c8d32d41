----------------------------- MODULE MCSchedule -----------------------------
(* Schedule around the ends of the months and the leap day of early 2028. *)
EXTENDS Schedule

Job(enabled, repeat, times) ==
    [form |-> "object", enabled |-> enabled, repeat |-> repeat, times |-> times]
List(times) == [form |-> "list", enabled |-> FALSE, repeat |-> [kind |-> "none"], times |-> times]
Every(days, interval, anchor) == [kind |-> "weekly", days |-> days, interval |-> interval, anchor |-> anchor]
Monthly(dates) == [kind |-> "monthly", dates |-> dates]

MCHours == 0 .. 2
MCDays == {425} \cup (756 .. 763) \cup {787, 788, 789, 790, 819, 820, 850, 851}
MCWritten == [id \in Jobs |->
    CASE id = "news" -> {List({0, 1}), List({Bad, 2}), Job(TRUE, Every({1, 4}, 2, NoAnchor), {1}),
                         Job(FALSE, [kind |-> "daily"], {0}), Job(TRUE, [kind |-> "daily"], {0})}
      [] id = "skills" -> {Job(TRUE, Every({2}, 4, NoAnchor), {0}), Job(TRUE, Monthly({-1}), {1, Bad}),
                           Job(TRUE, [kind |-> "daily"], {1})}
      [] id = "lotto" -> {Job(TRUE, Every({6}, 1, NoAnchor), {2}), Job(TRUE, Every({6}, 1, NoAnchor), {2, Bad}),
                          Job(TRUE, Every({0}, 1, NoAnchor), {2}), List({2})}]
MCEnvTimes == {{0}, {0, 2}}
MCProbes == {Job(TRUE, [kind |-> "daily"], {0, 2}), Job(TRUE, Monthly({31}), {1}), Job(TRUE, Monthly({29, 30}), {0}),
             Job(TRUE, Monthly({-1}), {0, 1}), Job(TRUE, Every({0, 1}, 4, 900), {1}), Job(TRUE, Every({3, 0, 1}, 2, 3), {0})}
=============================================================================
