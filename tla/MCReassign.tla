----------------------------- MODULE MCReassign -----------------------------
(***************************************************************************)
(* Three brokers, two partitions of one topic and one of another.          *)
(***************************************************************************)
EXTENDS Reassign

MCInitial == [a |-> <<1>>, b |-> <<2>>, c |-> <<2>>]

\* x is a partition that the cluster does not have.
MCTopicOf == [a |-> "t", b |-> "t", c |-> "u", x |-> "u"]

Entry(p, replicas) ==
    [partition |-> p, replicas |-> replicas, dirs |-> [i \in 1..Len(replicas) |-> "any"]]

Into(p, replicas, d) == [Entry(p, replicas) EXCEPT !.dirs[1] = d]

\* Moves of a, which one file resubmits with a second replica; of b; and a file
\* that names a broker twice.
OneTopic == {<<Entry("a", <<2>>)>>,
             <<Entry("a", <<3, 1>>)>>,
             <<Entry("b", <<1, 3>>)>>,
             <<Entry("b", <<3, 3>>)>>}

\* A move between log dirs, by itself and with a move to another broker.
LogDirs == {<<Into("a", <<1>>, "d2")>>,
            <<Into("a", <<2>>, "d1"), Entry("b", <<1>>)>>}

\* What --execute refuses, at once or when it looks at the cluster.
Refused == {<<Entry("a", <<2>>), Entry("a", <<3>>)>>,
            <<Entry("a", <<2, 2>>)>>,
            <<Entry("a", <<4>>)>>,
            <<Entry("x", <<1>>)>>,
            <<>>}

DirsAndRefused == LogDirs \cup Refused

AllFiles == OneTopic \cup DirsAndRefused

OneAndNone == {<<Entry("a", <<2>>)>>, <<>>}
=============================================================================
