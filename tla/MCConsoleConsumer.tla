------------------------- MODULE MCConsoleConsumer -------------------------
(***************************************************************************)
(* Runs that share one group over partitions of different lengths.         *)
(***************************************************************************)
EXTENDS ConsoleConsumer

CONSTANT Other   \* the run that may be of every kind

Line(partition, named, auto, max, timed, skip) ==
    [partition |-> partition, offset |-> 0, group |-> named, auto |-> auto,
     max |-> max, timed |-> timed, skip |-> skip]

\* A run of the group that ends by its bound, by its timeout, by Ctrl-C, or by a
\* record that it cannot format.
GroupLine == Line(None, "named", "unset", 1, TRUE, FALSE)

\* Every kind of run: with and without commits, of a partition, of a generated
\* group, with a bound that is below -1, and one that is refused.
KindsOfLines == {Line(None, "named", "unset", 1, FALSE, FALSE),
                 Line(None, "named", "false", 1, FALSE, TRUE),
                 Line("p", "none", "true", -1, TRUE, TRUE),
                 Line("p", "named", "unset", -1, TRUE, TRUE),
                 Line(None, "none", "unset", 1, FALSE, FALSE),
                 Line(None, "named", "true", -2, FALSE, FALSE)}

OneBad == {<<"p", 1>>}

NoBad == {}

AllLines == [r \in Runs |-> IF r = Other THEN KindsOfLines ELSE {GroupLine}]

PrintLines == [r \in Runs |-> {Line(None, "named", "unset", 2, FALSE, FALSE)}]

Ends == [p \in Partitions |-> IF p = "p" THEN 2 ELSE 1]
=============================================================================
