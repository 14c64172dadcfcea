-------------------------- MODULE MCConsumerGroups --------------------------
(* Two groups over two partitions, and a topic that does not exist.        *)
EXTENDS ConsumerGroups

Line(action, groups, topics, scenario, n, execute) ==
    [action |-> action, groups |-> groups, topics |-> topics, scenario |-> scenario,
     n |-> n, execute |-> execute, file |-> [g \in {} |-> NoPlan]]

Reset(topics, scenario, n) == Line("reset", {"g", "h"}, topics, scenario, n, TRUE)

\* A file that names one group, and offsets past the end.
FromFile == [Reset({}, "file", 0) EXCEPT !.file = [g \in {"g"} |-> [p \in {"a", "b"} |-> 5]]]

\* No offset, the start, or the start of one log and the end of the other.
SomeOffsets == {[p \in Parts |-> None], [p \in Parts |-> 0],
                [p \in Parts |-> IF p = "a" THEN 0 ELSE 1]}

AllLines == {Reset({"a", "b"}, "offset", 0),
           Reset(All, "shift", 1), Reset({"a"}, "shift", -1),
           Reset({"a"}, "earliest", 0), Reset({"b"}, "latest", 0),
           Reset({"a", "b"}, "time", 1), Reset({"a", "b"}, "current", 0),
           Reset(All, "current", 0), Reset({"a", "x"}, "latest", 0), Reset({}, "latest", 0),
           FromFile,
           [FromFile EXCEPT !.groups = All, !.execute = FALSE],
           Line("describe", All, {}, "current", 0, TRUE),
           Line("describe", {"g"}, {}, "current", 0, FALSE),
           Line("delete", All, {}, "current", 0, TRUE),
           Line("delete", {"g", "h"}, {}, "current", 0, FALSE),
           Line("deleteOffsets", {"g"}, {"a", "x"}, "current", 0, TRUE),
           Line("deleteOffsets", {"g"}, {"a", "b"}, "current", 0, FALSE)}
=============================================================================
