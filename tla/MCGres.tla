------------------------------- MODULE MCGres -------------------------------
(* An instance of Gres: two operators, four keys, four range ids.          *)
EXTENDS Gres, TLC

Create(password, ranges, hashed) ==
    [kind |-> "create", password |-> password, ranges |-> ranges, hashed |-> hashed]

Split(key, left, successor, bucket) ==
    [kind |-> "split", key |-> key, left |-> left, successor |-> successor, bucket |-> bucket]

Move(source, replacement) == [kind |-> "move", source |-> source, replacement |-> replacement]

Default == -1

MCRequests ==
    {Create("p", <<0, 2>>, FALSE), Create("p", <<>>, TRUE), Create(NoPassword, <<>>, FALSE),
     Create("p", <<0, 2, 2>>, FALSE),
     Split(3, Default, Default, FALSE), Split(1, 1, 2, FALSE), Split(1, Default, Default, TRUE),
     Move(0, 3)}
      \cup {[kind |-> k] : k \in {"suspend", "resume", "delete", "describe"}}

Symmetry == Permutations(Operators)
=============================================================================
