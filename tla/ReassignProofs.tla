--------------------------- MODULE ReassignProofs ---------------------------
(***************************************************************************)
(* krabka reassign-partitions for any cluster, any files and any number of *)
(* commands.                                                               *)
(*                                                                         *)
(* Whoever else reassigns partitions at the same time, the cluster stays   *)
(* in order and no command writes before it was agreed to.  Where one      *)
(* operator at a time does, what a command has read stays true, but for    *)
(* what the cluster completes meanwhile, until the command acts on it: the *)
(* throttles cover what moves, exit code 0 means what the report says, and *)
(* the rollback that --execute prints is what it replaces.                 *)
(*                                                                         *)
(* What the lists of replicas hold is proved by induction on their length. *)
(***************************************************************************)
EXTENDS Reassign, TLAPS, SequenceTheorems, WellFoundedInduction

\* The provers of a step that names none, and the seconds each has.
USE ZenonT(30), SMTT(20)

-----------------------------------------------------------------------------
(* Lists. *)

\* A set of numbers has a least one.
LEMMA LeastBy ==
    ASSUME NEW R, IsWellFoundedOn(R, Nat), \A x, y \in Nat : y < x => <<y, x>> \in R,
           NEW T \in SUBSET Nat, T # {}
    PROVE  \E x \in T : \A y \in T : x <= y
<1>1. \E x \in T : \A y \in T : <<y, x>> \notin R
  BY WFMin, Zenon
<1>2. PICK x \in T : \A y \in T : <<y, x>> \notin R
  BY <1>1
<1>3. \A y \in T : ~(y < x)
  BY <1>2
<1>4. QED
  BY SMTT(20), <1>3

LEMMA Least ==
    ASSUME NEW T \in SUBSET Nat, T # {}
    PROVE  \E x \in T : \A y \in T : x <= y
<1>1. IsWellFoundedOn(OpToRel(<, Nat), Nat)
  BY NatLessThanWellFounded, Zenon
<1>2. \A x, y \in Nat : y < x => <<y, x>> \in OpToRel(<, Nat)
  BY DEF OpToRel
<1>3. QED
  BY <1>1, <1>2, LeastBy, Zenon

\* Induction, over a set of numbers.
LEMMA Induction ==
    ASSUME NEW T \in SUBSET Nat, 0 \in T, \A n \in T : n + 1 \in T
    PROVE  T = Nat
<1> SUFFICES ASSUME T # Nat PROVE FALSE
  OBVIOUS
<1>1. Nat \ T # {}
  OBVIOUS
<1>2. PICK x \in Nat \ T : \A y \in Nat \ T : x <= y
  BY <1>1, Least
<1>3. x # 0 /\ x - 1 \in Nat /\ ~(x <= x - 1)
  BY <1>2, SMTT(20)
<1>4. x - 1 \in T
  BY <1>2, <1>3
<1>5. (x - 1) + 1 = x
  BY SMTT(20)
<1>6. QED
  BY <1>2, <1>4, <1>5

\* One step of Without.
Grown(f, s, S, n) ==
    IF n = 0 THEN <<>>
    ELSE IF s[n] \in S THEN f[n - 1] ELSE Append(f[n - 1], s[n])

\* The function that Without is defined by exists.
LEMMA Kept ==
    ASSUME NEW s, NEW S
    PROVE  \A n \in Nat : \E f : f = [i \in 0..n |-> Grown(f, s, S, i)]
<1> DEFINE Is(f, n) == f = [i \in 0..n |-> Grown(f, s, S, i)]
           T == {n \in Nat : \E f : Is(f, n)}
<1>1. 0 \in T
  <2> DEFINE f == [i \in 0..0 |-> <<>>]
  <2>1. \A i \in 0..0 : i = 0
    BY SMTT(20)
  <2>2. Is(f, 0)
    BY <2>1 DEF Grown
  <2> HIDE DEF Is, f
  <2>3. QED
    BY <2>2
<1>2. ASSUME NEW n \in T PROVE n + 1 \in T
  <2>1. PICK g : Is(g, n)
    OBVIOUS
  <2> DEFINE f == [i \in 0..(n + 1) |-> IF i = n + 1 THEN Grown(g, s, S, i) ELSE g[i]]
  <2>2. \A i \in 0..(n + 1) : i # n + 1 => i \in 0..n
    BY SMTT(20)
  <2>3. \A i \in 0..(n + 1) :
          i # 0 => i - 1 \in 0..n /\ i - 1 \in 0..(n + 1) /\ i - 1 # n + 1
    BY SMTT(20)
  <2>4. ASSUME NEW i \in 0..(n + 1) PROVE Grown(g, s, S, i) = Grown(f, s, S, i)
    <3>1. i # 0 => f[i - 1] = g[i - 1]
      BY <2>3
    <3>2. QED
      BY <3>1 DEF Grown
  <2>5. ASSUME NEW i \in 0..(n + 1) PROVE f[i] = Grown(f, s, S, i)
    <3>1. i # n + 1 => g[i] = Grown(g, s, S, i)
      BY <2>1, <2>2
    <3>2. f[i] = Grown(g, s, S, i)
      BY <3>1
    <3>3. QED
      BY <2>4, <3>2
  <2>6. Is(f, n + 1)
    BY <2>5
  <2>7. n + 1 \in Nat
    BY SMTT(20)
  <2> HIDE DEF Is, f
  <2>8. QED
    BY <2>6, <2>7
<1> HIDE DEF T
<1>3. T = Nat
  BY <1>1, <1>2, Induction DEF T
<1>4. QED
  BY <1>3 DEF T

\* Without goes over a list from its front.
LEMMA WithoutSteps ==
    ASSUME NEW s, NEW S, Len(s) \in Nat
    PROVE  \E f : /\ f[0] = <<>>
                  /\ \A n \in Nat : n + 1 <= Len(s) =>
                        f[n + 1] = IF s[n + 1] \in S THEN f[n] ELSE Append(f[n], s[n + 1])
                  /\ Without(s, S) = f[Len(s)]
<1>1. \E f : f = [i \in 0..Len(s) |-> Grown(f, s, S, i)]
  BY SMTT(20), Kept
<1>2. PICK f : f = [i \in 0..Len(s) |-> Grown(f, s, S, i)] /\ Without(s, S) = f[Len(s)]
  BY <1>1 DEF Without, Grown
<1>3. 0 \in 0..Len(s)
  BY SMTT(20)
<1>4. f[0] = <<>>
  BY <1>2, <1>3 DEF Grown
<1>5. ASSUME NEW n \in Nat, n + 1 <= Len(s)
      PROVE  f[n + 1] = IF s[n + 1] \in S THEN f[n] ELSE Append(f[n], s[n + 1])
  <2>1. n + 1 \in 0..Len(s) /\ n + 1 # 0 /\ (n + 1) - 1 = n
    BY SMTT(20), <1>5
  <2>2. f[n + 1] = Grown(f, s, S, n + 1)
    BY <1>2, <2>1
  <2>3. QED
    BY <2>1, <2>2 DEF Grown
<1>6. QED
  BY <1>2, <1>4, <1>5

\* An element at the end of a list.
LEMMA AppendFacts ==
    ASSUME NEW T, NEW s \in Seq(T), NEW x \in T
    PROVE  /\ Append(s, x) \in Seq(T)
           /\ Range(Append(s, x)) = Range(s) \cup {x}
           /\ NoDuplicates(s) /\ x \notin Range(s) => NoDuplicates(Append(s, x))
<1> DEFINE t == Append(s, x)
<1>1. /\ t \in Seq(T) /\ Len(t) = Len(s) + 1 /\ Len(s) \in Nat
      /\ \A i \in 1..Len(s) : t[i] = s[i]
      /\ t[Len(s) + 1] = x
  BY SMTT(20), AppendProperties, LenProperties
<1>2. Range(t) = {t[i] : i \in 1..Len(t)} /\ Range(s) = {s[i] : i \in 1..Len(s)}
  BY <1>1, RangeEquality
<1> HIDE DEF t
<1>3. Range(t) = Range(s) \cup {x}
  BY SMTT(20), <1>1, <1>2
<1>4. ASSUME NoDuplicates(s), x \notin Range(s), NEW i \in 1..Len(t), NEW j \in 1..Len(t), t[i] = t[j]
      PROVE  i = j
  <2>1. \A k \in 1..Len(s) : t[k] = s[k] /\ s[k] # x
    BY <1>1, <1>2, <1>4
  <2>2. i \in 1..Len(s) /\ j \in 1..Len(s) => i = j
    BY <1>4, <2>1 DEF NoDuplicates
  <2>3. (i \in 1..Len(s) \/ i = Len(s) + 1) /\ (j \in 1..Len(s) \/ j = Len(s) + 1)
    BY SMTT(20), <1>1
  <2>4. QED
    BY <1>1, <1>4, <2>1, <2>2, <2>3
<1>5. QED
  BY <1>1, <1>3, <1>4 DEF t, NoDuplicates

\* What Without keeps of a list: the elements that are not in S, each as often
\* as before.
LEMMA WithoutFacts ==
    ASSUME NEW T, NEW s \in Seq(T), NEW S
    PROVE  /\ Without(s, S) \in Seq(T)
           /\ Range(Without(s, S)) = Range(s) \ S
           /\ NoDuplicates(s) => NoDuplicates(Without(s, S))
<1>1. Len(s) \in Nat /\ s \in [1..Len(s) -> T] /\ DOMAIN s = 1..Len(s)
  BY LenProperties
<1>2. PICK f : /\ f[0] = <<>>
               /\ \A n \in Nat : n + 1 <= Len(s) =>
                     f[n + 1] = IF s[n + 1] \in S THEN f[n] ELSE Append(f[n], s[n + 1])
               /\ Without(s, S) = f[Len(s)]
  BY <1>1, WithoutSteps
<1> DEFINE Before(n) == {s[i] : i \in 1..n}
           Good(n) == /\ f[n] \in Seq(T)
                      /\ Range(f[n]) = Before(n) \ S
                      /\ NoDuplicates(s) => NoDuplicates(f[n])
           M == {n \in Nat : n <= Len(s) => Good(n)}
<1>3. 0 \in M
  <2>1. <<>> \in Seq(T) /\ Len(<<>>) = 0
    BY EmptySeq
  <2>2. 1..0 = {}
    BY SMTT(20)
  <2>3. Range(<<>>) = {<<>>[i] : i \in 1..Len(<<>>)}
    BY <2>1, RangeEquality
  <2>4. Range(<<>>) = {} /\ Before(0) = {}
    BY <2>1, <2>2, <2>3
  <2>5. NoDuplicates(<<>>)
    BY <2>1, <2>2 DEF NoDuplicates
  <2>6. QED
    BY <1>2, <2>1, <2>4, <2>5
<1>4. ASSUME NEW n \in M PROVE n + 1 \in M
  <2>1. n + 1 \in Nat /\ (n + 1 <= Len(s) => n <= Len(s) /\ n + 1 \in 1..Len(s))
    BY SMTT(20), <1>1
  <2> SUFFICES ASSUME n + 1 <= Len(s) PROVE Good(n + 1)
    BY <2>1
  <2>2. Good(n) /\ n + 1 \in 1..Len(s) /\ s[n + 1] \in T
    BY <1>1, <2>1
  <2>3. Before(n + 1) = Before(n) \cup {s[n + 1]}
    BY SMTT(20)
  <2>4. f[n + 1] = IF s[n + 1] \in S THEN f[n] ELSE Append(f[n], s[n + 1])
    BY <1>2
  <2>5. NoDuplicates(s) => s[n + 1] \notin Before(n)
    <3>1. \A i \in 1..n : i \in 1..Len(s) /\ i # n + 1
      BY SMTT(20), <1>1, <2>2
    <3>2. QED
      BY <2>2, <3>1 DEF NoDuplicates
  <2> HIDE DEF Before
  <2>6. CASE s[n + 1] \in S
    BY <2>2, <2>3, <2>4, <2>6
  <2>7. CASE s[n + 1] \notin S
    <3>1. f[n + 1] = Append(f[n], s[n + 1])
      BY <2>4, <2>7
    <3>2. /\ Append(f[n], s[n + 1]) \in Seq(T)
          /\ Range(Append(f[n], s[n + 1])) = Range(f[n]) \cup {s[n + 1]}
          /\ NoDuplicates(f[n]) /\ s[n + 1] \notin Range(f[n]) => NoDuplicates(Append(f[n], s[n + 1]))
      BY <2>2, AppendFacts
    <3>3. QED
      BY <2>2, <2>3, <2>5, <2>7, <3>1, <3>2
  <2>8. QED
    BY <2>6, <2>7
<1>5. M = Nat
  <2> HIDE DEF Good
  <2>1. M \in SUBSET Nat
    OBVIOUS
  <2> HIDE DEF M
  <2>2. QED
    BY <1>3, <1>4, <2>1, Induction
<1>6. Good(Len(s))
  <2> HIDE DEF Good
  <2>1. Len(s) <= Len(s)
    BY SMTT(20), <1>1
  <2>2. QED
    BY <1>1, <1>5, <2>1
<1>7. Before(Len(s)) = Range(s)
  BY RangeEquality
<1>8. QED
  BY <1>2, <1>6, <1>7

\* Of a list that goes on with elements of S only, Without keeps the beginning.
LEMMA WithoutTail ==
    ASSUME NEW T, NEW t \in Seq(T), NEW r \in Seq(T), NEW S, Range(t) \cap S = {}, Range(r) \subseteq S
    PROVE  Without(t \o r, S) = t
<1> DEFINE s == t \o r
<1>1. /\ s \in Seq(T) /\ Len(s) = Len(t) + Len(r)
      /\ Len(t) \in Nat /\ Len(r) \in Nat /\ Len(s) \in Nat
  BY ConcatProperties, LenProperties
<1>2. (\A i \in 1..Len(t) : s[i] = t[i]) /\ (\A i \in 1..Len(s) : i > Len(t) => s[i] = r[i - Len(t)])
  <2>1. /\ \A i \in 1..Len(s) : s[i] = IF i <= Len(t) THEN t[i] ELSE r[i - Len(t)]
    BY <1>1, ConcatProperties
  <2> HIDE DEF s
  <2>2. QED
    BY SMTT(20), <1>1, <2>1
<1>3. Range(t) = {t[i] : i \in 1..Len(t)} /\ Range(r) = {r[i] : i \in 1..Len(r)}
  BY RangeEquality
<1> HIDE DEF s
<1>4. PICK f : /\ f[0] = <<>>
               /\ \A n \in Nat : n + 1 <= Len(s) =>
                     f[n + 1] = IF s[n + 1] \in S THEN f[n] ELSE Append(f[n], s[n + 1])
               /\ Without(s, S) = f[Len(s)]
  BY <1>1, WithoutSteps
<1> DEFINE Good(n) == f[n] \in Seq(T) /\ f[n] = IF n <= Len(t) THEN SubSeq(t, 1, n) ELSE t
           M == {n \in Nat : n <= Len(s) => Good(n)}
<1>5. 0 \in M
  <2>1. <<>> \in Seq(T) /\ 0 <= Len(t) /\ SubSeq(t, 1, 0) = <<>>
    BY SMTT(20), <1>1, EmptySeq
  <2>2. QED
    BY <1>4, <2>1
<1>6. ASSUME NEW n \in M PROVE n + 1 \in M
  <2>1. n + 1 \in Nat /\ (n + 1 <= Len(s) => n <= Len(s) /\ n + 1 \in 1..Len(s))
    BY SMTT(20), <1>1
  <2> SUFFICES ASSUME n + 1 <= Len(s) PROVE Good(n + 1)
    BY <2>1
  <2>2. f[n + 1] = IF s[n + 1] \in S THEN f[n] ELSE Append(f[n], s[n + 1])
    BY <1>4
  <2>3. Good(n)
    BY <2>1
  <2>4. CASE n + 1 <= Len(t)
    <3>1. n + 1 \in 1..Len(t) /\ n <= Len(t)
      BY SMTT(20), <1>1, <2>4
    <3>2. s[n + 1] = t[n + 1] /\ t[n + 1] \notin S /\ t[n + 1] \in T
      BY <1>2, <1>3, <3>1, LenProperties
    <3>3. f[n + 1] = Append(SubSeq(t, 1, n), t[n + 1]) /\ SubSeq(t, 1, n) \in Seq(T)
      BY <2>2, <2>3, <3>1, <3>2
    <3>4. Append(SubSeq(t, 1, n), t[n + 1]) = SubSeq(t, 1, n + 1)
      BY SMTT(20), <1>1, <3>1, <3>2
    <3>5. Append(SubSeq(t, 1, n), t[n + 1]) \in Seq(T)
      BY <3>2, <3>3, AppendProperties
    <3>6. QED
      BY <2>4, <3>3, <3>4, <3>5
  <2>5. CASE ~(n + 1 <= Len(t))
    <3>1. n + 1 \in 1..Len(s) /\ n + 1 > Len(t) /\ (n + 1) - Len(t) \in 1..Len(r)
      BY SMTT(20), <1>1, <2>5
    <3>2. s[n + 1] \in S
      BY <1>2, <1>3, <3>1
    <3>3. f[n + 1] = f[n]
      BY <2>2, <3>2
    <3>4. n <= Len(t) => n = Len(t)
      BY SMTT(20), <1>1, <2>5
    <3>5. SubSeq(t, 1, Len(t)) = t
      BY SubSeqFull
    <3>6. f[n] = t
      BY <2>3, <3>4, <3>5
    <3>7. QED
      BY <2>5, <3>3, <3>6
  <2>6. QED
    BY <2>4, <2>5
<1>7. M = Nat
  <2> HIDE DEF Good
  <2>1. M \in SUBSET Nat
    OBVIOUS
  <2> HIDE DEF M
  <2>2. QED
    BY <1>5, <1>6, <2>1, Induction
<1>8. Good(Len(s))
  <2> HIDE DEF Good
  <2>1. Len(s) <= Len(s)
    BY SMTT(20), <1>1
  <2>2. QED
    BY <1>1, <1>7, <2>1
<1>9. Len(s) <= Len(t) => Len(s) = Len(t)
  BY SMTT(20), <1>1
<1>10. SubSeq(t, 1, Len(t)) = t
  BY SubSeqFull
<1>11. QED
  BY <1>4, <1>8, <1>9, <1>10 DEF s

\* Two lists with nothing in common, one after the other.
LEMMA ConcatNoDuplicates ==
    ASSUME NEW T, NEW t \in Seq(T), NEW r \in Seq(T), NoDuplicates(t), NoDuplicates(r),
           Range(t) \cap Range(r) = {}
    PROVE  NoDuplicates(t \o r)
<1> DEFINE s == t \o r
<1>1. /\ Len(s) = Len(t) + Len(r) /\ Len(t) \in Nat /\ Len(r) \in Nat
      /\ \A i \in 1..Len(s) : s[i] = IF i <= Len(t) THEN t[i] ELSE r[i - Len(t)]
  BY ConcatProperties, LenProperties
<1>2. Range(t) = {t[i] : i \in 1..Len(t)} /\ Range(r) = {r[i] : i \in 1..Len(r)}
  BY RangeEquality
<1>3. \A i \in 1..Len(t), j \in 1..Len(r) : t[i] # r[j]
  BY <1>2
<1> HIDE DEF s
<1>4. ASSUME NEW i \in 1..Len(s), NEW j \in 1..Len(s), s[i] = s[j] PROVE i = j
  <2>1. (i \in 1..Len(t) /\ i <= Len(t)) \/ (i - Len(t) \in 1..Len(r) /\ ~(i <= Len(t)))
    BY SMTT(20), <1>1
  <2>2. (j \in 1..Len(t) /\ j <= Len(t)) \/ (j - Len(t) \in 1..Len(r) /\ ~(j <= Len(t)))
    BY SMTT(20), <1>1
  <2>3. i - Len(t) = j - Len(t) => i = j
    BY SMTT(20), <1>1
  <2>4. QED
    BY <1>1, <1>3, <1>4, <2>1, <2>2, <2>3 DEF NoDuplicates
<1>5. QED
  BY <1>4 DEF NoDuplicates, s

-----------------------------------------------------------------------------
(* Files. *)

\* A file is a list of entries, and an entry has a list of brokers and as many
\* log dirs.
LEMMA FileFacts ==
    ASSUME NEW f \in Files \cup {<<>>}
    PROVE  /\ Len(f) \in Nat
           /\ Range(f) = {f[i] : i \in 1..Len(f)}
           /\ \A i \in 1..Len(f) :
                /\ f[i] \in Entries
                /\ f[i].replicas \in Seq(Range(f[i].replicas))
                /\ Range(f[i].replicas) \subseteq Brokers
                /\ \A k \in 1..Len(f[i].replicas) : f[i].replicas[k] \in Range(f[i].replicas)
                /\ \A k \in MovesOf(f[i]) :
                     k \in 1..Len(f[i].replicas) /\ f[i].dirs[k] \in Dirs
<1>1. f \in Seq(Range(f))
  <2>1. CASE f \in Files
    BY <2>1, FilesAreFiles DEF IsList
  <2>2. CASE f = <<>>
    BY <2>2, EmptySeq
  <2>3. QED
    BY <2>1, <2>2
<1>2. Len(f) \in Nat /\ Range(f) = {f[i] : i \in 1..Len(f)}
  BY <1>1, LenProperties, RangeEquality
<1>3. ASSUME NEW i \in 1..Len(f)
      PROVE  /\ f[i] \in Entries
             /\ f[i].replicas \in Seq(Range(f[i].replicas))
             /\ Range(f[i].replicas) \subseteq Brokers
             /\ \A k \in 1..Len(f[i].replicas) : f[i].replicas[k] \in Range(f[i].replicas)
             /\ \A k \in MovesOf(f[i]) :
                  k \in 1..Len(f[i].replicas) /\ f[i].dirs[k] \in Dirs
  <2> DEFINE e == f[i]
  <2>1. f \in Files
    <3>1. f = <<>> => Len(f) = 0
      BY EmptySeq
    <3>2. Len(f) # 0
      BY SMTT(20), <1>2
    <3>3. QED
      BY <3>1, <3>2
  <2>2. e \in Entries
    BY <1>2, <2>1 DEF Entries
  <2> HIDE DEF e
  <2>3. /\ e.replicas \in Seq(Range(e.replicas)) /\ e.dirs \in Seq(Range(e.dirs))
        /\ Len(e.replicas) = Len(e.dirs) /\ Range(e.dirs) \subseteq Dirs \cup {"any"}
    BY <2>2, FilesAreFiles DEF IsList
  <2>4. /\ Range(e.dirs) = {e.dirs[k] : k \in 1..Len(e.dirs)}
        /\ Range(e.replicas) = {e.replicas[k] : k \in 1..Len(e.replicas)}
    BY <2>3, RangeEquality
  <2>5. Range(e.replicas) \subseteq Brokers
    BY <2>2 DEF Brokers
  <2>6. \A k \in MovesOf(e) : k \in 1..Len(e.replicas) /\ e.dirs[k] \in Dirs
    BY <2>3, <2>4 DEF MovesOf
  <2>7. QED
    BY <2>2, <2>3, <2>4, <2>5, <2>6 DEF e
<1>4. QED
  BY <1>2, <1>3

\* targets has the entry of each partition, where each has one.
LEMMA TargetsFacts ==
    ASSUME NEW f \in Files \cup {<<>>}, NamedOnce(f)
    PROVE  /\ DOMAIN Targets(f) = Named(f)
           /\ \A i \in 1..Len(f) : Targets(f)[f[i].partition] = f[i].replicas
<1> DEFINE Last(p) == CHOOSE i \in 1..Len(f) :
                        f[i].partition = p /\ \A j \in (i + 1)..Len(f) : f[j].partition # p
<1>1. DOMAIN Targets(f) = Named(f) /\ \A p \in Named(f) : Targets(f)[p] = f[Last(p)].replicas
  BY DEF Targets
<1>2. ASSUME NEW i \in 1..Len(f) PROVE Targets(f)[f[i].partition] = f[i].replicas
  <2>1. \A j \in (i + 1)..Len(f) : j \in 1..Len(f) /\ j # i
    BY SMTT(20), FileFacts
  <2>2. \A j \in (i + 1)..Len(f) : f[j].partition # f[i].partition
    BY <2>1 DEF NamedOnce
  <2>3. Last(f[i].partition) \in 1..Len(f) /\ f[Last(f[i].partition)].partition = f[i].partition
    BY <2>2
  <2>4. Last(f[i].partition) = i
    BY <2>3 DEF NamedOnce
  <2> HIDE DEF Last
  <2>5. QED
    BY <1>1, <2>4 DEF Named
<1>3. QED
  BY <1>1, <1>2

\* Where a file names a log dir: an entry and a place in it.
Spots(f) == UNION {{i} \X MovesOf(f[i]) : i \in 1..Len(f)}

ReplicaAt(f, s) == <<f[s[1]].partition, f[s[1]].replicas[s[2]]>>

LastSpot(f, r) ==
    CHOOSE s \in Spots(f) :
        /\ ReplicaAt(f, s) = r
        /\ ~\E u \in Spots(f) :
              ReplicaAt(f, u) = r /\ (u[1] > s[1] \/ (u[1] = s[1] /\ u[2] > s[2]))

LEMMA SpotFacts ==
    ASSUME NEW f, NEW s \in Spots(f)
    PROVE  s[1] \in 1..Len(f) /\ s[2] \in MovesOf(f[s[1]]) /\ s = <<s[1], s[2]>>
  BY SMTT(20) DEF Spots

LEMMA LogDirMovesIs ==
    ASSUME NEW f
    PROVE  LogDirMoves(f) =
             [r \in {ReplicaAt(f, s) : s \in Spots(f)} |->
                 f[LastSpot(f, r)[1]].dirs[LastSpot(f, r)[2]]]
  BY DEF LogDirMoves, ReplicaAt, Spots, LastSpot

\* Whatever the file, its log dir moves are of brokers that it names.
LEMMA MovesFacts ==
    ASSUME NEW f \in Files \cup {<<>>}
    PROVE  /\ DOMAIN LogDirMoves(f) \subseteq Replicas
           /\ \A r \in DOMAIN LogDirMoves(f) : r[1] \in Named(f) /\ r[2] \in Brokers
<1>1. DOMAIN LogDirMoves(f) = {ReplicaAt(f, s) : s \in Spots(f)}
  BY LogDirMovesIs
<1>2. ASSUME NEW s \in Spots(f) PROVE ReplicaAt(f, s)[1] \in Named(f) /\ ReplicaAt(f, s)[2] \in Brokers
  <2>1. s[1] \in 1..Len(f) /\ s[2] \in MovesOf(f[s[1]])
    BY SpotFacts
  <2>2. f[s[1]].replicas[s[2]] \in Range(f[s[1]].replicas) /\ Range(f[s[1]].replicas) \subseteq Brokers
    BY <2>1, FileFacts
  <2>3. QED
    BY <2>1, <2>2 DEF ReplicaAt, Named
<1>3. DOMAIN LogDirMoves(f) \subseteq Replicas
  <2>1. CASE f \in Files
    BY <2>1 DEF Replicas
  <2>2. CASE f = <<>>
    <3>1. 1..Len(f) = {}
      BY SMTT(20), <2>2, EmptySeq
    <3>2. QED
      BY <1>1, <3>1, SpotFacts
  <2>3. QED
    BY <2>1, <2>2
<1>4. QED
  BY <1>1, <1>2, <1>3

\* A file that --execute takes moves replicas that its targets have, to log dirs
\* that it names.
LEMMA ExecutableMoves ==
    ASSUME NEW f \in Files \cup {<<>>}, CheckExecute(f), NEW r \in DOMAIN LogDirMoves(f)
    PROVE  /\ r[1] \in Named(f)
           /\ r[2] \in Range(Targets(f)[r[1]])
           /\ LogDirMoves(f)[r] \in Dirs
<1>1. PICK s \in Spots(f) : r = ReplicaAt(f, s)
  BY LogDirMovesIs
<1>2. s[1] \in 1..Len(f) /\ s[2] \in MovesOf(f[s[1]])
  BY SpotFacts
<1>3. r[1] = f[s[1]].partition /\ r[2] = f[s[1]].replicas[s[2]]
  BY <1>1 DEF ReplicaAt
<1>4. r[1] \in Named(f) /\ Targets(f)[r[1]] = f[s[1]].replicas
  BY <1>2, <1>3, TargetsFacts DEF Named, CheckExecute
<1>5. r[2] \in Range(f[s[1]].replicas)
  BY <1>2, <1>3, FileFacts
<1>6. ASSUME NEW u \in Spots(f), ReplicaAt(f, u) = r PROVE u = s
  <2>1. u[1] \in 1..Len(f) /\ u[2] \in MovesOf(f[u[1]]) /\ u = <<u[1], u[2]>> /\ s = <<s[1], s[2]>>
    BY SpotFacts
  <2>2. f[u[1]].partition = r[1] /\ f[u[1]].replicas[u[2]] = r[2]
    BY <1>6 DEF ReplicaAt
  <2>3. u[1] = s[1]
    BY <1>2, <1>3, <2>1, <2>2 DEF CheckExecute, NamedOnce
  <2>4. u[2] \in 1..Len(f[s[1]].replicas) /\ s[2] \in 1..Len(f[s[1]].replicas)
    BY <1>2, <2>1, <2>3, FileFacts
  <2>5. NoDuplicates(f[s[1]].replicas)
    BY SMTT(20), <1>2, FileFacts DEF CheckExecute
  <2>6. u[2] = s[2]
    BY <1>3, <2>2, <2>3, <2>4, <2>5 DEF NoDuplicates
  <2>7. QED
    BY <2>1, <2>3, <2>6
<1>7. ~(s[1] > s[1] \/ (s[1] = s[1] /\ s[2] > s[2]))
  <2>1. s[1] \in Nat /\ s[2] \in Nat
    BY SMTT(20), <1>2, FileFacts DEF MovesOf
  <2>2. QED
    BY SMTT(20), <2>1
<1>8. LastSpot(f, r) = s
  BY <1>1, <1>6, <1>7 DEF LastSpot
<1>9. LogDirMoves(f)[r] = f[s[1]].dirs[s[2]]
  <2>1. r \in {ReplicaAt(f, x) : x \in Spots(f)}
    BY <1>1
  <2>2. QED
    BY <1>8, <2>1, LogDirMovesIs
<1>10. QED
  BY <1>2, <1>4, <1>5, <1>9, FileFacts

-----------------------------------------------------------------------------
(* The invariant of the cluster and of the commands, for any operators. *)

\* The replicas of a partition, and how they are reassigned.
Whole(x) ==
    /\ DOMAIN x = {"replicas", "adding", "removing"}
    /\ x.replicas \in Seq(Nodes)
    /\ NoDuplicates(x.replicas)
    /\ x.adding \subseteq Range(x.replicas)
    /\ x.removing \subseteq Range(x.replicas)

DirType == [Replicas -> [at: Dirs \cup {None}, to: Dirs \cup {None}]]

ThrottleType == [leader: SUBSET (Parts \X Brokers), follower: SUBSET (Parts \X Brokers),
                 rate: SUBSET Brokers, dirRate: SUBSET Brokers]

ClusterInv ==
    /\ part = [p \in Parts |-> part[p]]
    /\ \A p \in Parts : Whole(part[p])
    /\ dir \in DirType
    /\ throttle \in ThrottleType
    /\ commands \in 0..MaxCommands
    /\ marks \in [Parts -> {"none", "stale", "leaders", "both"}]

\* The fields of a command.
Shape(me) ==
    DOMAIN me = {"pc", "kind", "file", "additional", "rates", "dry", "preserve", "active",
                 "current", "reassigning", "moves", "consent", "failed", "late"}

\* Where a command may stand.
Stands(me) ==
    \/ me.kind = "verify" /\ me.pc \in {"idle", "list", "describe", "findMoves", "clearBrokers",
                                        "clearTopics"}
    \/ me.kind = "cancel" /\ me.pc \in {"list", "findMoves", "prompt", "alter", "moves",
                                        "clearBrokers", "clearTopics"}
    \/ me.kind = "execute" /\ me.pc \in {"list", "describe", "prompt", "throttleTopics",
                                         "throttleBrokers", "throttleDirs", "alter", "moves"}

\* What it has read.
Read(me) ==
    /\ me.file \in Files \cup {<<>>}
    /\ me.reassigning \subseteq Parts
    /\ DOMAIN me.active \subseteq Parts
    /\ \A p \in DOMAIN me.active : me.active[p].replicas \in Seq(Nodes)
                                   /\ me.active[p].adding \subseteq Nodes
    /\ DOMAIN me.moves \subseteq Replicas
    /\ \A r \in DOMAIN me.moves : me.moves[r] \in Dirs /\ r[2] \in Brokers

\* A file that --execute may carry out.
Executable(f) ==
    /\ CheckExecute(f)
    /\ Named(f) \subseteq Parts
    /\ \A p \in Named(f) : Targets(f)[p] \in Seq(Nodes) /\ NoDuplicates(Targets(f)[p])

\* An --execute past its checks carries out such a file.
Executing(me) ==
    me.kind = "execute" =>
        /\ me.pc = "describe" => CheckExecute(me.file)
        /\ me.pc \notin {"list", "describe"} =>
             /\ Executable(me.file)
             /\ DOMAIN me.current = Named(me.file)
             /\ \A p \in Named(me.file) : me.current[p] \in Seq(Nodes)
             /\ DOMAIN me.moves \subseteq DOMAIN LogDirMoves(me.file)
             /\ \A r \in DOMAIN me.moves : me.moves[r] = LogDirMoves(me.file)[r]
             /\ me.pc # "moves" => DOMAIN me.moves = DOMAIN LogDirMoves(me.file)

\* A command that is about to write was agreed to.
Agreed(me) ==
    me.kind # "verify" =>
        /\ me.pc = "prompt" => ~me.dry
        /\ me.pc \in {"throttleTopics", "throttleBrokers", "throttleDirs", "alter", "moves",
                      "clearBrokers", "clearTopics"} => me.consent /\ ~me.dry

Local(me) == Shape(me) /\ Stands(me) /\ Read(me) /\ Executing(me) /\ Agreed(me)

ProcInv ==
    /\ proc = [o \in Operators |-> proc[o]]
    /\ \A o \in Operators : Local(proc[o])

-----------------------------------------------------------------------------
(* What one operator at a time may rely on. *)

OneOperator == \A o, q \in Operators : o = q

\* What a command has listed is what is on the move still, but for the
\* reassignments that ended meanwhile.
Lists(o) ==
    /\ Active \subseteq DOMAIN proc[o].active
    /\ \A p \in Active : proc[o].active[p].replicas = part[p].replicas
                         /\ proc[o].active[p].adding = part[p].adding

\* An --execute up to its write.
BeforeAlter(o) ==
    proc[o].kind = "execute" /\ proc[o].pc \notin {"list", "moves"} =>
        /\ Lists(o)
        /\ ~proc[o].additional => DOMAIN proc[o].active = {}
        /\ proc[o].pc # "describe" =>
             \A p \in Named(proc[o].file) :
                p \notin DOMAIN proc[o].active => proc[o].current[p] = part[p].replicas

\* The throttles that it has set, when it goes on.
Throttled(o) ==
    proc[o].kind = "execute" /\ proc[o].pc \in {"throttleTopics", "throttleBrokers", "throttleDirs", "alter"} =>
        /\ proc[o].pc \in {"throttleTopics", "throttleBrokers"} => "interBroker" \in proc[o].rates
        /\ proc[o].pc # "throttleTopics" /\ "interBroker" \in proc[o].rates =>
             /\ LeaderThrottles(Moves(o)) \subseteq throttle.leader
             /\ FollowerThrottles(Moves(o)) \subseteq throttle.follower
             /\ proc[o].pc # "throttleBrokers" => MovingBrokers(Moves(o)) \subseteq throttle.rate

\* The partitions of its file are on their way to their targets.
OnTheirWay(o) ==
    \A p \in Named(proc[o].file) :
        Without(part[p].replicas, part[p].removing) = Targets(proc[o].file)[p]

\* A replica is in the log dir that its file names, or is copied to it.
Bound(o, r) ==
    LET d == LogDirMoves(proc[o].file)[r]
    IN  IF dir[r].to = None THEN dir[r].at = d ELSE dir[r].to = d

\* An --execute after its write.
AfterAlter(o) ==
    proc[o].kind = "execute" /\ proc[o].pc = "moves" =>
        /\ OnTheirWay(o)
        /\ \A r \in DOMAIN LogDirMoves(proc[o].file) : r \notin DOMAIN proc[o].moves => Bound(o, r)

\* The partitions of its file are there.
AtRest(o) ==
    \A p \in Named(proc[o].file) :
        p \in Parts /\ ~Moving(p) /\ part[p].replicas = Targets(proc[o].file)[p]

\* A --verify, reading by reading.
Verifying(o) ==
    proc[o].kind = "verify" =>
        /\ proc[o].pc \in {"describe", "findMoves"} => Lists(o)
        /\ proc[o].pc \in {"findMoves", "clearBrokers", "clearTopics"} /\ ~proc[o].failed => AtRest(o)
        /\ proc[o].pc \in {"clearBrokers", "clearTopics"} =>
             Active = {} /\ \A r \in DOMAIN LogDirMoves(proc[o].file) : MoveDone(r)
        /\ proc[o].pc = "clearTopics" => (throttle.rate \cup throttle.dirRate) \cap Nodes = {}

Knows(o) == BeforeAlter(o) /\ Throttled(o) /\ AfterAlter(o) /\ Verifying(o)

ReportInv == VerifiedIsSettled /\ VerifiedIsUnthrottled /\ ExecutedIsUnderWay

KnowInv ==
    /\ \A o \in Operators : Knows(o)
    /\ ThrottledWhileMoving
    /\ ReportInv

-----------------------------------------------------------------------------
(* What the controller makes of the replicas of a partition. *)

LEMMA SettledWhole ==
    ASSUME NEW s \in Seq(Nodes), NoDuplicates(s)
    PROVE  /\ Whole(Settled(s))
           /\ Settled(s).replicas = s /\ Settled(s).adding = {} /\ Settled(s).removing = {}
<1>1. Settled(s).replicas = s /\ Settled(s).adding = {} /\ Settled(s).removing = {}
  BY DEF Settled
<1>2. DOMAIN Settled(s) = {"replicas", "adding", "removing"}
  BY DEF Settled
<1>3. QED
  BY <1>1, <1>2 DEF Whole

LEMMA OriginFacts ==
    ASSUME NEW p \in Parts, Whole(part[p])
    PROVE  /\ Origin(p) \in Seq(Nodes)
           /\ NoDuplicates(Origin(p))
           /\ Range(Origin(p)) = Range(part[p].replicas) \ part[p].adding
  BY WithoutFacts DEF Whole, Origin

\* A target is taken with all of its brokers, those that have the data still
\* do, and nothing but the target is left when the rest are removed.
LEMMA ReassignedFacts ==
    ASSUME NEW p \in Parts, Whole(part[p]), NEW target \in Seq(Nodes), NoDuplicates(target),
           NEW x, x = Reassigned(p, target)
    PROVE  /\ Whole(x)
           /\ x.adding = Range(target) \ Range(Origin(p))
           /\ Range(Without(x.replicas, x.adding)) = Range(Origin(p))
           /\ Without(x.replicas, x.removing) = target
           /\ Range(x.replicas) = Range(target) \cup Range(Origin(p))
<1> DEFINE rest == Without(Origin(p), Range(target))
<1>1. Origin(p) \in Seq(Nodes) /\ NoDuplicates(Origin(p))
  BY OriginFacts
<1>2. rest \in Seq(Nodes) /\ NoDuplicates(rest) /\ Range(rest) = Range(Origin(p)) \ Range(target)
  BY SMTT(20), <1>1, WithoutFacts
<1>3. /\ DOMAIN x = {"replicas", "adding", "removing"}
      /\ x.replicas = target \o rest
      /\ x.adding = Range(target) \ Range(Origin(p))
      /\ x.removing = Range(Origin(p)) \ Range(target)
  BY DEF Reassigned
<1> HIDE DEF rest
<1>4. target \o rest \in Seq(Nodes) /\ Range(target \o rest) = Range(target) \cup Range(rest)
  BY SMTT(20), <1>2, ConcatProperties, RangeConcatenation
<1>5. NoDuplicates(target \o rest)
  BY <1>2, ConcatNoDuplicates
<1>6. Range(x.replicas) = Range(target) \cup Range(Origin(p))
  BY <1>2, <1>3, <1>4
<1>7. Whole(x)
  BY <1>3, <1>4, <1>5, <1>6 DEF Whole
<1>8. Range(Without(x.replicas, x.adding)) = Range(x.replicas) \ x.adding
  BY SMTT(20), <1>7, WithoutFacts DEF Whole
<1>9. Range(Without(x.replicas, x.adding)) = Range(Origin(p))
  BY <1>3, <1>6, <1>8
<1>10. Without(target \o rest, x.removing) = target
  <2>1. Range(target) \cap x.removing = {} /\ Range(rest) \subseteq x.removing
    BY <1>2, <1>3
  <2>2. QED
    BY SMTT(20), <1>2, <2>1, WithoutTail
<1>11. QED
  BY <1>3, <1>6, <1>7, <1>9, <1>10

\* Nothing is left out of a list.
LEMMA WithoutNothing ==
    ASSUME NEW T, NEW s \in Seq(T)
    PROVE  Without(s, {}) = s
<1>1. <<>> \in Seq(T) /\ Len(<<>>) = 0
  BY EmptySeq
<1>2. Range(<<>>) = {<<>>[i] : i \in 1..Len(<<>>)}
  BY <1>1, RangeEquality
<1>3. 1..0 = {}
  BY SMTT(20)
<1>4. PICK r \in Seq(T) : r = <<>> /\ Range(r) = {}
  BY <1>1, <1>2, <1>3
<1>5. PICK S : S = {}
  OBVIOUS
<1>6. Range(s) \cap S = {} /\ Range(r) \subseteq S
  BY <1>4, <1>5
<1>7. Without(s \o r, S) = s
  BY <1>6, WithoutTail
<1>8. s \o <<>> = s
  BY ConcatEmptySeq
<1>9. QED
  BY <1>4, <1>5, <1>7, <1>8

\* The end of a reassignment, and of a cancelled one.
LEMMA RevertedFacts ==
    ASSUME NEW p \in Parts, Whole(part[p])
    PROVE  Whole(Reverted(p)) /\ Reverted(p).adding = {} /\ Reverted(p).removing = {}
  BY OriginFacts, SettledWhole DEF Reverted

LEMMA CompleteFacts ==
    ASSUME NEW x, Whole(x), NEW y, y = Settled(Without(x.replicas, x.removing))
    PROVE  /\ Whole(y) /\ y.adding = {} /\ y.removing = {}
           /\ y.replicas = Without(x.replicas, x.removing)
           /\ Without(y.replicas, y.removing) = Without(x.replicas, x.removing)
<1>1. Without(x.replicas, x.removing) \in Seq(Nodes) /\ NoDuplicates(Without(x.replicas, x.removing))
  BY WithoutFacts DEF Whole
<1>2. /\ Whole(y) /\ y.adding = {} /\ y.removing = {}
      /\ y.replicas = Without(x.replicas, x.removing)
  BY <1>1, SettledWhole
<1>3. Without(y.replicas, {}) = y.replicas
  BY <1>1, <1>2, WithoutNothing
<1>4. QED
  BY <1>2, <1>3

-----------------------------------------------------------------------------
(* The commands. *)

\* Only the command of operator o changes.
OnlyOf(o) ==
    /\ proc' = [q \in Operators |-> proc'[q]]
    /\ \A q \in Operators : q # o => proc'[q] = proc[q]

\* The command ends.
Ends(o, code) ==
    /\ OnlyOf(o)
    /\ proc'[o] = Idle
    /\ report' = [kind |-> proc[o].kind, file |-> proc[o].file, code |-> code,
                  dry |-> proc[o].dry, clears |-> DOMAIN proc[o].active = {} /\ ~proc[o].preserve]

\* The command goes on with other locals.
GoesOn(o, n) == OnlyOf(o) /\ proc'[o] = n /\ report' = None

LEMMA ExitIs == ASSUME ProcInv, NEW o \in Operators, NEW code, Exit(o, code) PROVE Ends(o, code)
  BY DEF ProcInv, Exit, Ends, OnlyOf

LEMMA ContinueIs == ASSUME ProcInv, NEW o \in Operators, NEW n, Continue(o, n) PROVE GoesOn(o, n)
  BY DEF ProcInv, Continue, GoesOn, OnlyOf

LEMMA AdvanceIs ==
    ASSUME ProcInv, NEW o \in Operators, NEW n, NEW label, Advance(o, n, label)
    PROVE  \/ label = "end" /\ Ends(o, 0)
           \/ label # "end" /\ GoesOn(o, [n EXCEPT !.pc = label])
<1>1. CASE label = "end"
  BY <1>1, ExitIs DEF Advance
<1>2. CASE label # "end"
  BY <1>2, ContinueIs DEF Advance
<1>3. QED
  BY <1>1, <1>2

LEMMA WrittenIs ==
    ASSUME ProcInv, NEW o \in Operators, NEW done, NEW asked, NEW label, Written(o, done, asked, label)
    PROVE  \/ done = asked /\ label = "end" /\ Ends(o, 0)
           \/ done = asked /\ label # "end" /\ GoesOn(o, [proc[o] EXCEPT !.pc = label])
           \/ Ends(o, 1)
<1>1. CASE done = asked /\ Advance(o, proc[o], label)
  BY <1>1, AdvanceIs
<1>2. CASE Exit(o, 1)
  BY <1>2, ExitIs
<1>3. QED
  BY <1>1, <1>2 DEF Written

LEMMA IdleLocal == Local(Idle)
<1>1. Shape(Idle)
  BY DEF Shape, Idle
<1>2. Idle.kind = "verify" /\ Idle.pc = "idle"
  BY DEF Idle
<1>3. Idle.file = <<>> /\ Idle.reassigning = {} /\ Idle.active = NoMoves /\ Idle.moves = NoMoves
  BY DEF Idle
<1>4. Stands(Idle) /\ Executing(Idle) /\ Agreed(Idle)
  BY <1>2 DEF Stands, Executing, Agreed
<1>5. DOMAIN NoMoves = {}
  BY DEF NoMoves
<1>6. Read(Idle)
  BY <1>3, <1>5 DEF Read
<1>7. QED
  BY <1>1, <1>4, <1>6 DEF Local

LEMMA EndsKeeps == ASSUME ProcInv, NEW o \in Operators, NEW code, Ends(o, code) PROVE ProcInv'
  BY IdleLocal DEF ProcInv, Ends, OnlyOf

LEMMA GoesOnKeeps ==
    ASSUME ProcInv, NEW o \in Operators, NEW n, GoesOn(o, n), Local(n)
    PROVE  ProcInv'
  BY DEF ProcInv, GoesOn, OnlyOf

\* The command line of two states of a command is the same.
SameLine(me, n) ==
    /\ n.kind = me.kind /\ n.file = me.file /\ n.additional = me.additional
    /\ n.rates = me.rates /\ n.dry = me.dry /\ n.preserve = me.preserve

\* What the reading steps make of the locals.
Listed(me, a) == [me EXCEPT !.pc = "describe", !.active = a]

Described(me, c, m) == [me EXCEPT !.pc = "prompt", !.current = c, !.moves = m]

Compared(me, b) == [me EXCEPT !.pc = "findMoves", !.failed = b]

Found(me, x) == [me EXCEPT !.pc = "findMoves", !.reassigning = x]

\* What a step that sets one part of the locals makes of the others.
PcSet(me, n, l) ==
    /\ Shape(n) /\ SameLine(me, n) /\ n.pc = l
    /\ n.active = me.active /\ n.current = me.current /\ n.reassigning = me.reassigning
    /\ n.moves = me.moves /\ n.consent = me.consent /\ n.failed = me.failed
    /\ n.late = me.late

LEMMA PcFields ==
    ASSUME NEW me, Shape(me), NEW l, NEW n, n = [me EXCEPT !.pc = l]
    PROVE  PcSet(me, n, l)
  BY DEF PcSet, Shape, SameLine

ActiveSet(me, n, a) ==
    /\ Shape(n) /\ SameLine(me, n) /\ n.pc = "describe"
    /\ n.active = a /\ n.current = me.current /\ n.reassigning = me.reassigning
    /\ n.moves = me.moves /\ n.consent = me.consent /\ n.failed = me.failed
    /\ n.late = me.late

LEMMA ActiveFields ==
    ASSUME NEW me, Shape(me), NEW a, NEW n, n = Listed(me, a)
    PROVE  ActiveSet(me, n, a)
  BY DEF ActiveSet, Shape, SameLine, Listed

CurrentSet(me, n, c, m) ==
    /\ Shape(n) /\ SameLine(me, n) /\ n.pc = "prompt"
    /\ n.active = me.active /\ n.current = c /\ n.reassigning = me.reassigning
    /\ n.moves = m /\ n.consent = me.consent /\ n.failed = me.failed
    /\ n.late = me.late

LEMMA DescribeFields ==
    ASSUME NEW me, Shape(me), NEW c, NEW m, NEW n,
           n = Described(me, c, m)
    PROVE  CurrentSet(me, n, c, m)
  BY DEF CurrentSet, Shape, SameLine, Described

FailedSet(me, n, b) ==
    /\ Shape(n) /\ SameLine(me, n) /\ n.pc = "findMoves"
    /\ n.active = me.active /\ n.current = me.current /\ n.reassigning = me.reassigning
    /\ n.moves = me.moves /\ n.consent = me.consent /\ n.failed = b
    /\ n.late = me.late

LEMMA FailedFields ==
    ASSUME NEW me, Shape(me), NEW b, NEW n, n = Compared(me, b)
    PROVE  FailedSet(me, n, b)
  BY DEF FailedSet, Shape, SameLine, Compared

ReassigningSet(me, n, x) ==
    /\ Shape(n) /\ SameLine(me, n) /\ n.pc = "findMoves"
    /\ n.active = me.active /\ n.current = me.current /\ n.reassigning = x
    /\ n.moves = me.moves /\ n.consent = me.consent /\ n.failed = me.failed
    /\ n.late = me.late

LEMMA ReassigningFields ==
    ASSUME NEW me, Shape(me), NEW x, NEW n, n = Found(me, x)
    PROVE  ReassigningSet(me, n, x)
  BY DEF ReassigningSet, Shape, SameLine, Found

MovesSet(me, n, m) ==
    /\ Shape(n) /\ SameLine(me, n) /\ n.pc = me.pc
    /\ n.active = me.active /\ n.current = me.current /\ n.reassigning = me.reassigning
    /\ n.moves = m /\ n.consent = me.consent /\ n.failed = me.failed
    /\ n.late = me.late

LEMMA MovesFields ==
    ASSUME NEW me, Shape(me), NEW m, NEW n, n = [me EXCEPT !.moves = m]
    PROVE  MovesSet(me, n, m)
  BY DEF MovesSet, Shape, SameLine

ConsentSet(me, n) ==
    /\ Shape(n) /\ SameLine(me, n) /\ n.pc = me.pc
    /\ n.active = me.active /\ n.current = me.current /\ n.reassigning = me.reassigning
    /\ n.moves = me.moves /\ n.consent /\ n.failed = me.failed
    /\ n.late = me.late

LEMMA ConsentFields ==
    ASSUME NEW me, Shape(me), NEW n, n = [me EXCEPT !.consent = TRUE]
    PROVE  ConsentSet(me, n)
  BY DEF ConsentSet, Shape, SameLine

LateSet(me, n) ==
    /\ Shape(n) /\ SameLine(me, n) /\ n.pc = me.pc
    /\ n.active = me.active /\ n.current = me.current /\ n.reassigning = me.reassigning
    /\ n.moves = me.moves /\ n.consent = me.consent /\ n.failed = me.failed
    /\ n.late

LEMMA LateFields ==
    ASSUME NEW me, Shape(me), NEW n, n = [me EXCEPT !.late = TRUE]
    PROVE  LateSet(me, n)
  BY DEF LateSet, Shape, SameLine

-----------------------------------------------------------------------------
(* Every step of a command leaves it in a state that a command may have. *)

\* A step that only moves the program counter keeps what was read.
LEMMA PcLocal ==
    ASSUME NEW me, Local(me), NEW l, NEW n, n = [me EXCEPT !.pc = l],
           Stands(n), Executing(n), Agreed(n)
    PROVE  Local(n)
<1>1. Shape(n) /\ SameLine(me, n) /\ n.active = me.active /\ n.reassigning = me.reassigning
      /\ n.moves = me.moves
  <2>1. PcSet(me, n, l)
    BY PcFields DEF Local
  <2>2. QED
    BY <2>1 DEF PcSet
<1>2. Read(n)
  BY <1>1 DEF Local, Read, SameLine
<1>3. QED
  BY <1>1, <1>2 DEF Local

LEMMA StartIs ==
    ASSUME ProcInv, NEW o \in Operators, Start(o)
    PROVE  GoesOn(o, proc'[o]) /\ Local(proc'[o]) /\ proc'[o].pc = "list"
<1>1. PICK kind \in Kinds, f \in Files, additional, dry, preserve \in BOOLEAN,
           rates \in SUBSET {"interBroker", "logDir"} :
        /\ kind = "execute" => ~preserve
        /\ kind # "execute" => ~additional /\ rates = {}
        /\ kind = "verify" => ~dry
        /\ Continue(o, [Idle EXCEPT !.pc = "list", !.kind = kind, !.file = f,
                          !.additional = additional, !.rates = rates, !.dry = dry,
                          !.preserve = preserve])
  BY DEF Start
<1> DEFINE n == [Idle EXCEPT !.pc = "list", !.kind = kind, !.file = f,
                   !.additional = additional, !.rates = rates, !.dry = dry,
                   !.preserve = preserve]
<1>2. GoesOn(o, n)
  BY <1>1, ContinueIs
<1>3. /\ Shape(n) /\ n.pc = "list" /\ n.kind = kind /\ n.file = f
      /\ n.active = Idle.active /\ n.reassigning = Idle.reassigning /\ n.moves = Idle.moves
  <2>1. Shape(Idle)
    BY IdleLocal DEF Local
  <2>2. QED
    BY <2>1 DEF Shape
<1> HIDE DEF n
<1>4. kind \in {"execute", "verify", "cancel"}
  BY ClusterIsThere
<1>5. Stands(n) /\ Executing(n) /\ Agreed(n)
  BY <1>3, <1>4 DEF Stands, Executing, Agreed
<1>6. Read(n)
  BY <1>3, IdleLocal DEF Local, Read
<1>7. QED
  BY <1>2, <1>3, <1>5, <1>6 DEF Local, GoesOn

\* The listing of some partitions.
LEMMA ListingFacts ==
    ASSUME ClusterInv, NEW ps \in SUBSET Parts
    PROVE  /\ DOMAIN Listing(ps) = ps
           /\ \A p \in ps : /\ Listing(ps)[p].replicas = part[p].replicas
                            /\ Listing(ps)[p].adding = part[p].adding
                            /\ part[p].replicas \in Seq(Nodes)
                            /\ part[p].adding \subseteq Nodes
<1>1. DOMAIN Listing(ps) = ps
  BY DEF Listing
<1>2. ASSUME NEW p \in ps
      PROVE  /\ Listing(ps)[p].replicas = part[p].replicas
             /\ Listing(ps)[p].adding = part[p].adding
             /\ part[p].replicas \in Seq(Nodes)
             /\ part[p].adding \subseteq Nodes
  <2>1. Listing(ps)[p] = [replicas |-> part[p].replicas, adding |-> part[p].adding]
    BY DEF Listing
  <2>2. Whole(part[p])
    BY DEF ClusterInv
  <2>3. Range(part[p].replicas) \in SUBSET Nodes
    BY <2>2, RangeOfSeq DEF Whole
  <2>4. QED
    BY SMTT(20), <2>1, <2>2, <2>3 DEF Whole
<1>3. QED
  BY <1>1, <1>2

LEMMA ListingRead ==
    ASSUME ClusterInv
    PROVE  \E a : /\ a = Listing(Active) /\ DOMAIN a \subseteq Parts
                  /\ \A p \in DOMAIN a : a[p].replicas \in Seq(Nodes) /\ a[p].adding \subseteq Nodes
<1>1. Active \in SUBSET Parts
  BY DEF Active
<1>2. PICK a : a = Listing(Active)
  OBVIOUS
<1>3. DOMAIN a = Active
  BY <1>1, <1>2, ListingFacts
<1>4. \A p \in Active : a[p].replicas = part[p].replicas /\ a[p].adding = part[p].adding
  BY <1>1, <1>2, ListingFacts
<1>5. \A p \in Active : part[p].replicas \in Seq(Nodes) /\ part[p].adding \subseteq Nodes
  BY <1>1, ListingFacts
<1>6. \A p \in Active : a[p].replicas \in Seq(Nodes) /\ a[p].adding \subseteq Nodes
  BY <1>4, <1>5
<1>7. QED
  BY <1>1, <1>2, <1>3, <1>6

LEMMA ExecuteListIs ==
    ASSUME ClusterInv, ProcInv, NEW o \in Operators, ExecuteList(o)
    PROVE  \/ Ends(o, 1)
           \/ /\ GoesOn(o, Listed(proc[o], Listing(Active)))
              /\ ~Refuses(o, Listing(Active))
              /\ CheckExecute(proc[o].file)
              /\ Local(proc'[o])
<1>1. CASE ~CheckExecute(proc[o].file) \/ Refuses(o, Listing(Active))
  BY <1>1, ExitIs DEF ExecuteList
<1>2. CASE CheckExecute(proc[o].file) /\ ~Refuses(o, Listing(Active))
  <2>1. GoesOn(o, Listed(proc[o], Listing(Active)))
    BY <1>2, ContinueIs DEF ExecuteList, Listed
  <2>2. PICK n : n = Listed(proc[o], Listing(Active))
    OBVIOUS
  <2>3. Local(proc[o]) /\ Shape(proc[o]) /\ proc[o].kind = "execute"
    BY DEF ProcInv, ExecuteList, At, Local
  <2>4. /\ Shape(n) /\ SameLine(proc[o], n) /\ n.pc = "describe" /\ n.active = Listing(Active)
        /\ n.reassigning = proc[o].reassigning /\ n.moves = proc[o].moves
    <3>1. ActiveSet(proc[o], n, Listing(Active))
      BY <2>2, <2>3, ActiveFields
    <3>2. QED
      BY <3>1 DEF ActiveSet
  <2>5. Stands(n) /\ Executing(n) /\ Agreed(n)
    BY <1>2, <2>3, <2>4 DEF Stands, Executing, Agreed, SameLine
  <2>6. Read(n)
    <3>1. PICK a : /\ a = Listing(Active) /\ DOMAIN a \subseteq Parts
                   /\ \A p \in DOMAIN a : a[p].replicas \in Seq(Nodes) /\ a[p].adding \subseteq Nodes
      BY ListingRead
    <3>2. n.active = a
      BY <2>4, <3>1
    <3>3. QED
      BY <2>3, <2>4, <3>1, <3>2 DEF Read, Local, SameLine
  <2>7. Local(proc'[o])
    BY <2>1, <2>2, <2>4, <2>5, <2>6 DEF Local, GoesOn
  <2>8. QED
    BY <1>2, <2>1, <2>7
<1>3. QED
  BY <1>1, <1>2

\* A file that passed the checks of --execute and names what is there.
LEMMA ExecutableFile ==
    ASSUME NEW f \in Files \cup {<<>>}, CheckExecute(f),
           \A p \in DOMAIN Targets(f) : p \in Parts /\ Range(Targets(f)[p]) \subseteq Nodes
    PROVE  Executable(f) /\ DOMAIN Targets(f) = Named(f)
<1>1. NamedOnce(f)
  BY DEF CheckExecute
<1>2. DOMAIN Targets(f) = Named(f) /\ \A i \in 1..Len(f) : Targets(f)[f[i].partition] = f[i].replicas
  BY <1>1, TargetsFacts
<1>3. ASSUME NEW p \in Named(f) PROVE Targets(f)[p] \in Seq(Nodes) /\ NoDuplicates(Targets(f)[p])
  <2>1. PICK i \in 1..Len(f) : p = f[i].partition
    BY DEF Named
  <2>2. Targets(f)[p] = f[i].replicas
    BY <1>2, <2>1
  <2>3. f[i].replicas \in Seq(Range(f[i].replicas)) /\ f[i] \in Range(f)
    BY FileFacts
  <2>4. NoDuplicates(f[i].replicas)
    BY <2>3 DEF CheckExecute
  <2>5. Range(f[i].replicas) \subseteq Nodes
    BY <1>2, <2>2
  <2>6. f[i].replicas \in Seq(Nodes)
    BY <2>3, <2>5, SeqMonotonic
  <2>7. QED
    BY <2>2, <2>4, <2>6
<1>4. QED
  BY <1>2, <1>3 DEF Executable

LEMMA ExecuteDescribeIs ==
    ASSUME ClusterInv, ProcInv, NEW o \in Operators, ExecuteDescribe(o)
    PROVE  \/ Ends(o, 1)
           \/ proc[o].dry /\ Ends(o, 0)
           \/ /\ GoesOn(o, Described(proc[o],
                             [p \in DOMAIN Targets(proc[o].file) |-> part[p].replicas],
                             LogDirMoves(proc[o].file)))
              /\ Local(proc'[o])
<1> DEFINE f == proc[o].file
           Bad == \E p \in DOMAIN Targets(f) : p \notin Parts \/ ~(Range(Targets(f)[p]) \subseteq Nodes)
<1>1. CASE Bad
  BY <1>1, ExitIs DEF ExecuteDescribe
<1>2. CASE ~Bad /\ proc[o].dry
  BY <1>2, ExitIs DEF ExecuteDescribe
<1>3. CASE ~Bad /\ ~proc[o].dry
  <2> DEFINE current == [p \in DOMAIN Targets(f) |-> part[p].replicas]
  <2>1. GoesOn(o, Described(proc[o], current, LogDirMoves(f)))
    BY <1>3, ContinueIs DEF ExecuteDescribe, Described
  <2>2. PICK n : n = Described(proc[o], current, LogDirMoves(f))
    OBVIOUS
  <2>3. Local(proc[o]) /\ Shape(proc[o]) /\ proc[o].kind = "execute" /\ proc[o].pc = "describe"
    BY DEF ProcInv, ExecuteDescribe, At, Local
  <2>4. f \in Files \cup {<<>>} /\ CheckExecute(f)
    BY <2>3 DEF Local, Read, Executing
  <2>5. Executable(f) /\ DOMAIN Targets(f) = Named(f)
    BY <1>3, <2>4, ExecutableFile
  <2>6. DOMAIN current = Named(f) /\ \A p \in Named(f) : current[p] \in Seq(Nodes)
    BY <2>5 DEF Executable, ClusterInv, Whole
  <2>7. /\ DOMAIN LogDirMoves(f) \subseteq Replicas
        /\ \A r \in DOMAIN LogDirMoves(f) : LogDirMoves(f)[r] \in Dirs /\ r[2] \in Brokers
    BY <2>4, MovesFacts, ExecutableMoves
  <2> HIDE DEF current
  <2>8. /\ Shape(n) /\ SameLine(proc[o], n) /\ n.pc = "prompt" /\ n.active = proc[o].active
        /\ n.current = current /\ n.reassigning = proc[o].reassigning /\ n.moves = LogDirMoves(f)
    <3>1. CurrentSet(proc[o], n, current, LogDirMoves(f))
      BY <2>2, <2>3, DescribeFields
    <3>2. QED
      BY <3>1 DEF CurrentSet
  <2>9. Stands(n) /\ Executing(n) /\ Agreed(n)
    BY <1>3, <2>3, <2>5, <2>6, <2>8 DEF Stands, Executing, Agreed, SameLine
  <2>10. Read(n)
    BY <2>3, <2>7, <2>8 DEF Read, Local, SameLine
  <2>11. Local(proc'[o])
    BY <2>1, <2>2, <2>8, <2>9, <2>10 DEF Local, GoesOn
  <2>12. QED
    BY <2>1, <2>11 DEF current
<1>4. QED
  BY <1>1, <1>2, <1>3

LEMMA VerifyListIs ==
    ASSUME ClusterInv, ProcInv, NEW o \in Operators, VerifyList(o)
    PROVE  GoesOn(o, Listed(proc[o], Listing(Active))) /\ Local(proc'[o])
<1>1. GoesOn(o, Listed(proc[o], Listing(Active)))
  BY ContinueIs DEF VerifyList, Listed
<1>2. PICK n : n = Listed(proc[o], Listing(Active))
  OBVIOUS
<1>3. Local(proc[o]) /\ Shape(proc[o]) /\ proc[o].kind = "verify"
  BY DEF ProcInv, VerifyList, At, Local
<1>4. /\ Shape(n) /\ SameLine(proc[o], n) /\ n.pc = "describe" /\ n.active = Listing(Active)
      /\ n.reassigning = proc[o].reassigning /\ n.moves = proc[o].moves
  <2>1. ActiveSet(proc[o], n, Listing(Active))
    BY <1>2, <1>3, ActiveFields
  <2>2. QED
    BY <2>1 DEF ActiveSet
<1>5. Stands(n) /\ Executing(n) /\ Agreed(n)
  BY <1>3, <1>4 DEF Stands, Executing, Agreed, SameLine
<1>6. Active \in SUBSET Parts
  BY DEF Active
<1>7. Read(n)
  <2>1. PICK a : /\ a = Listing(Active) /\ DOMAIN a \subseteq Parts
                 /\ \A p \in DOMAIN a : a[p].replicas \in Seq(Nodes) /\ a[p].adding \subseteq Nodes
    BY ListingRead
  <2>2. n.active = a
    BY <1>4, <2>1
  <2>3. QED
    BY <1>3, <1>4, <2>1, <2>2 DEF Read, Local, SameLine
<1>8. QED
  BY <1>1, <1>2, <1>4, <1>5, <1>7 DEF Local, GoesOn

LEMMA VerifyDescribeIs ==
    ASSUME ProcInv, NEW o \in Operators, VerifyDescribe(o)
    PROVE  /\ GoesOn(o, Compared(proc[o], Incomplete(proc[o].active, Targets(proc[o].file))))
           /\ Local(proc'[o])
<1> DEFINE b == Incomplete(proc[o].active, Targets(proc[o].file))
<1>1. GoesOn(o, Compared(proc[o], b))
  BY ContinueIs DEF VerifyDescribe, Compared
<1>2. PICK n : n = Compared(proc[o], b)
  OBVIOUS
<1>3. Local(proc[o]) /\ Shape(proc[o]) /\ proc[o].kind = "verify"
  BY DEF ProcInv, VerifyDescribe, At, Local
<1> HIDE DEF b
<1>4. /\ Shape(n) /\ SameLine(proc[o], n) /\ n.pc = "findMoves" /\ n.active = proc[o].active
      /\ n.reassigning = proc[o].reassigning /\ n.moves = proc[o].moves
  <2>1. FailedSet(proc[o], n, b)
    BY <1>2, <1>3, FailedFields
  <2>2. QED
    BY <2>1 DEF FailedSet
<1>5. Stands(n) /\ Executing(n) /\ Agreed(n)
  BY <1>3, <1>4 DEF Stands, Executing, Agreed, SameLine
<1>6. Read(n)
  BY <1>3, <1>4 DEF Read, Local, SameLine
<1>7. QED
  BY <1>1, <1>2, <1>4, <1>5, <1>6 DEF Local, GoesOn, b

\* Some log dir move of the file of a command goes on.
Ongoing(o) == \E r \in DOMAIN LogDirMoves(proc[o].file) : ~MoveDone(r)

LEMMA VerifyMovesIs ==
    ASSUME ProcInv, NEW o \in Operators, VerifyMoves(o)
    PROVE  \/ /\ GoesOn(o, [proc[o] EXCEPT !.pc = "clearBrokers"])
              /\ Local(proc'[o])
              /\ DOMAIN proc[o].active = {} /\ ~Ongoing(o) /\ ~proc[o].preserve
           \/ /\ Ends(o, IF Ongoing(o) \/ proc[o].failed THEN 1 ELSE 0)
              /\ ~(DOMAIN proc[o].active = {} /\ ~Ongoing(o) /\ ~proc[o].preserve)
<1>1. CASE DOMAIN proc[o].active = {} /\ ~Ongoing(o) /\ ~proc[o].preserve
  <2>1. GoesOn(o, [proc[o] EXCEPT !.pc = "clearBrokers"])
    BY <1>1, ContinueIs DEF VerifyMoves, Goto, Ongoing
  <2>2. PICK n : n = [proc[o] EXCEPT !.pc = "clearBrokers"]
    OBVIOUS
  <2>3. Local(proc[o]) /\ Shape(proc[o]) /\ proc[o].kind = "verify"
    BY DEF ProcInv, VerifyMoves, At, Local
  <2>4. SameLine(proc[o], n) /\ n.pc = "clearBrokers"
    <3>1. PcSet(proc[o], n, "clearBrokers")
      BY <2>2, <2>3, PcFields
    <3>2. QED
      BY <3>1 DEF PcSet
  <2>5. Stands(n) /\ Executing(n) /\ Agreed(n)
    BY <2>3, <2>4 DEF Stands, Executing, Agreed, SameLine
  <2>6. QED
    BY <1>1, <2>1, <2>2, <2>3, <2>5, PcLocal DEF GoesOn
<1>2. CASE ~(DOMAIN proc[o].active = {} /\ ~Ongoing(o) /\ ~proc[o].preserve)
  BY <1>2, ExitIs DEF VerifyMoves, Ongoing
<1>3. QED
  BY <1>1, <1>2

LEMMA CancelListIs ==
    ASSUME ProcInv, NEW o \in Operators, CancelList(o)
    PROVE  GoesOn(o, proc'[o]) /\ Local(proc'[o]) /\ proc'[o].kind = "cancel"
<1> DEFINE x == IF Named(proc[o].file) = {} THEN Active ELSE Active \cap Named(proc[o].file)
<1>1. GoesOn(o, Found(proc[o], x))
  BY ContinueIs DEF CancelList, Found
<1>2. PICK n : n = Found(proc[o], x)
  OBVIOUS
<1>3. Local(proc[o]) /\ Shape(proc[o]) /\ proc[o].kind = "cancel"
  BY DEF ProcInv, CancelList, At, Local
<1>4. x \subseteq Parts
  BY DEF Active
<1> HIDE DEF x
<1>5. /\ Shape(n) /\ SameLine(proc[o], n) /\ n.pc = "findMoves" /\ n.active = proc[o].active
      /\ n.reassigning = x /\ n.moves = proc[o].moves
  <2>1. ReassigningSet(proc[o], n, x)
    BY <1>2, <1>3, ReassigningFields
  <2>2. QED
    BY <2>1 DEF ReassigningSet
<1>6. Stands(n) /\ Executing(n) /\ Agreed(n)
  BY <1>3, <1>5 DEF Stands, Executing, Agreed, SameLine
<1>7. Read(n)
  BY <1>3, <1>4, <1>5 DEF Read, Local, SameLine
<1>8. QED
  BY <1>1, <1>2, <1>3, <1>5, <1>6, <1>7 DEF Local, GoesOn, SameLine

LEMMA CancelMovesIs ==
    ASSUME ClusterInv, ProcInv, NEW o \in Operators, CancelMoves(o)
    PROVE  \/ Ends(o, 0)
           \/ GoesOn(o, proc'[o]) /\ Local(proc'[o]) /\ proc'[o].kind = "cancel"
<1> DEFINE me == proc[o]
           asked == DOMAIN LogDirMoves(me.file)
           moving == [r \in {x \in asked : dir[x].at # None /\ dir[x].to # None} |-> dir[r].at]
           next == [me EXCEPT !.moves = moving]
<1>1. Local(me) /\ Shape(me) /\ me.kind = "cancel"
  BY DEF ProcInv, CancelMoves, At, Local
<1>2. CASE me.dry
  BY <1>2, ExitIs DEF CancelMoves
<1>3. CASE ~me.dry /\ Changes(o, moving)
  <2>1. GoesOn(o, [next EXCEPT !.pc = "prompt"])
    BY <1>3, ContinueIs DEF CancelMoves
  <2>2. PICK m : m = moving
    OBVIOUS
  <2>3. PICK v : v = [me EXCEPT !.moves = m]
    OBVIOUS
  <2>4. PICK n : n = [v EXCEPT !.pc = "prompt"]
    OBVIOUS
  <2>5. n = proc'[o] /\ GoesOn(o, n)
    BY <2>1, <2>2, <2>3, <2>4 DEF GoesOn
  <2>6. DOMAIN m \subseteq Replicas /\ \A r \in DOMAIN m : m[r] \in Dirs /\ r[2] \in Brokers
    <3>1. me.file \in Files \cup {<<>>}
      BY <1>1 DEF Local, Read
    <3>2. asked \subseteq Replicas /\ \A r \in asked : r[2] \in Brokers
      BY <3>1, MovesFacts
    <3>3. \A r \in asked : dir[r].at \in Dirs \cup {None}
      BY <3>2 DEF ClusterInv, DirType
    <3>4. QED
      BY <2>2, <3>2, <3>3
  <2> HIDE DEF me, moving, next
  <2>7. /\ Shape(v) /\ SameLine(me, v) /\ v.active = me.active
        /\ v.reassigning = me.reassigning /\ v.moves = m
    <3>1. MovesSet(me, v, m)
      BY <1>1, <2>3, MovesFields
    <3>2. QED
      BY <3>1 DEF MovesSet
  <2>8. /\ Shape(n) /\ SameLine(v, n) /\ n.pc = "prompt" /\ n.active = v.active
        /\ n.reassigning = v.reassigning /\ n.moves = v.moves
    <3>1. PcSet(v, n, "prompt")
      BY <2>4, <2>7, PcFields
    <3>2. QED
      BY <3>1 DEF PcSet
  <2>9. Stands(n) /\ Executing(n) /\ Agreed(n)
    BY <1>1, <1>3, <2>7, <2>8 DEF Stands, Executing, Agreed, SameLine
  <2>10. Read(n)
    BY <1>1, <2>6, <2>7, <2>8 DEF Read, Local, SameLine
  <2>11. QED
    BY <1>1, <2>5, <2>7, <2>8, <2>9, <2>10 DEF Local, SameLine
<1>4. CASE ~me.dry /\ ~Changes(o, moving)
  <2>1. Advance(o, next, AfterCancelPrompt(next))
    BY <1>4 DEF CancelMoves
  <2>2. me.reassigning = {} /\ DOMAIN moving = {} /\ me.preserve
    BY <1>4 DEF Changes
  <2>3. next.reassigning = me.reassigning /\ next.moves = moving /\ next.preserve = me.preserve
    <3>1. PICK m, v : m = moving /\ v = next /\ v = [me EXCEPT !.moves = m]
      OBVIOUS
    <3> HIDE DEF me, moving, next
    <3>2. MovesSet(me, v, m)
      BY <1>1, <3>1, MovesFields
    <3>3. QED
      BY <3>1, <3>2 DEF MovesSet, SameLine
  <2> HIDE DEF me, moving, next
  <2>4. AfterCancelPrompt(next) = "end"
    BY <2>2, <2>3 DEF AfterCancelPrompt, AfterReassign
  <2>5. QED
    BY <2>1, <2>4, AdvanceIs
<1>5. QED
  BY <1>2, <1>3, <1>4

\* The command goes on at a label, with what it has read.
MovesOn(o, l) ==
    /\ GoesOn(o, proc'[o])
    /\ Local(proc'[o])
    /\ SameLine(proc[o], proc'[o])
    /\ proc'[o].pc = l
    /\ proc'[o].active = proc[o].active
    /\ proc'[o].current = proc[o].current
    /\ proc'[o].moves = proc[o].moves
    /\ proc'[o].failed = proc[o].failed

\* What becomes of a command that writes: it ends well, goes on or fails.
WritesOn(o, done, asked, label) ==
    \/ done = asked /\ label = "end" /\ Ends(o, 0)
    \/ done = asked /\ label # "end" /\ MovesOn(o, label)
    \/ Ends(o, 1)

\* A write takes the command to a label where it may stand.
LEMMA WrittenOn ==
    ASSUME ProcInv, NEW o \in Operators, NEW done, NEW asked, NEW label,
           Written(o, done, asked, label),
           NEW n, n = [proc[o] EXCEPT !.pc = label],
           label = "end" \/ (Stands(n) /\ Executing(n) /\ Agreed(n))
    PROVE  WritesOn(o, done, asked, label)
<1>1. CASE done = asked /\ label # "end" /\ GoesOn(o, n)
  <2>1. Local(proc[o]) /\ Shape(proc[o])
    BY DEF ProcInv, Local
  <2>2. /\ SameLine(proc[o], n) /\ n.pc = label
        /\ n.active = proc[o].active /\ n.current = proc[o].current
        /\ n.moves = proc[o].moves /\ n.failed = proc[o].failed
    <3>1. PcSet(proc[o], n, label)
      BY <2>1, PcFields
    <3>2. QED
      BY <3>1 DEF PcSet
  <2>3. Local(n)
    BY <1>1, <2>1, PcLocal
  <2>4. proc'[o] = n
    BY <1>1 DEF GoesOn
  <2>5. MovesOn(o, label)
    BY <1>1, <2>2, <2>3, <2>4 DEF MovesOn
  <2>6. QED
    BY <1>1, <2>5 DEF WritesOn
<1>2. QED
  BY <1>1, WrittenIs DEF WritesOn

\* A command that is past its prompt, and stays past it, was agreed to still.
LEMMA PastPrompt ==
    ASSUME ProcInv, NEW o \in Operators, NEW l, NEW n, n = [proc[o] EXCEPT !.pc = l],
           proc[o].kind # "verify",
           proc[o].pc \in {"throttleTopics", "throttleBrokers", "throttleDirs", "alter", "moves",
                           "clearBrokers", "clearTopics"},
           l \in {"throttleTopics", "throttleBrokers", "throttleDirs", "alter", "moves",
                  "clearBrokers", "clearTopics"},
           proc[o].pc = "moves" => l = "moves" \/ proc[o].kind = "cancel"
    PROVE  Executing(n) /\ Agreed(n) /\ n.kind = proc[o].kind /\ n.pc = l
<1>1. Local(proc[o]) /\ Shape(proc[o])
  BY DEF ProcInv, Local
<1>2. /\ SameLine(proc[o], n) /\ n.pc = l /\ n.active = proc[o].active
      /\ n.current = proc[o].current /\ n.moves = proc[o].moves /\ n.consent = proc[o].consent
  <2>1. PcSet(proc[o], n, l)
    BY <1>1, PcFields
  <2>2. QED
    BY <2>1 DEF PcSet
<1>3. proc[o].consent /\ ~proc[o].dry
  BY <1>1 DEF Local, Agreed
<1>4. Agreed(n)
  BY <1>2, <1>3 DEF Agreed, SameLine
<1>5. l \notin {"list", "describe"} /\ proc[o].pc \notin {"list", "describe"}
  OBVIOUS
<1>6. Executing(n)
  BY <1>1, <1>2, <1>5 DEF Executing, Local, SameLine
<1>7. QED
  BY <1>2, <1>4, <1>6 DEF SameLine

LEMMA ThrottleTopicsIs ==
    ASSUME ProcInv, NEW o \in Operators, proc[o].pc = "throttleTopics",
           NEW done, NEW asked, Written(o, done, asked, "throttleBrokers")
    PROVE  Ends(o, 1) \/ (done = asked /\ MovesOn(o, "throttleBrokers"))
<1>1. proc[o].kind = "execute"
  BY DEF ProcInv, Local, Stands
<1>2. PICK l : l = "throttleBrokers"
  OBVIOUS
<1>3. PICK n : n = [proc[o] EXCEPT !.pc = l]
  OBVIOUS
<1>4. Executing(n) /\ Agreed(n) /\ n.kind = "execute" /\ n.pc = l
  BY <1>1, <1>2, <1>3, PastPrompt
<1>5. Stands(n)
  BY <1>2, <1>4 DEF Stands
<1>6. Written(o, done, asked, l) /\ l # "end"
  BY <1>2
<1>7. QED
  <2>1. WritesOn(o, done, asked, l)
    BY <1>2, <1>3, <1>4, <1>5, <1>6, WrittenOn
  <2>2. QED
    BY <1>2, <2>1 DEF WritesOn

LEMMA ThrottleBrokersIs ==
    ASSUME ProcInv, NEW o \in Operators, proc[o].pc = "throttleBrokers",
           NEW done, NEW asked, Written(o, done, asked, AfterRates(proc[o]))
    PROVE  Ends(o, 1) \/ (done = asked /\ MovesOn(o, AfterRates(proc[o])))
<1>1. proc[o].kind = "execute"
  BY DEF ProcInv, Local, Stands
<1>2. PICK l : l = AfterRates(proc[o])
  OBVIOUS
<1>3. PICK n : n = [proc[o] EXCEPT !.pc = l]
  OBVIOUS
<1>4. l \in {"throttleDirs", "alter"}
  BY <1>2 DEF AfterRates
<1>5. Executing(n) /\ Agreed(n) /\ n.kind = "execute" /\ n.pc = l
  BY <1>1, <1>3, <1>4, PastPrompt
<1>6. Stands(n)
  BY <1>4, <1>5 DEF Stands
<1>7. Written(o, done, asked, l) /\ l # "end"
  BY <1>2, <1>4
<1>8. QED
  <2>1. WritesOn(o, done, asked, l)
    BY <1>2, <1>3, <1>5, <1>6, <1>7, WrittenOn
  <2>2. QED
    BY <1>2, <1>7, <2>1 DEF WritesOn

LEMMA ThrottleDirsIs ==
    ASSUME ProcInv, NEW o \in Operators, proc[o].pc = "throttleDirs",
           NEW done, NEW asked, Written(o, done, asked, "alter")
    PROVE  Ends(o, 1) \/ (done = asked /\ MovesOn(o, "alter"))
<1>1. proc[o].kind = "execute"
  BY DEF ProcInv, Local, Stands
<1>2. PICK l : l = "alter"
  OBVIOUS
<1>3. PICK n : n = [proc[o] EXCEPT !.pc = l]
  OBVIOUS
<1>4. Executing(n) /\ Agreed(n) /\ n.kind = "execute" /\ n.pc = l
  BY <1>1, <1>2, <1>3, PastPrompt
<1>5. Stands(n)
  BY <1>2, <1>4 DEF Stands
<1>6. Written(o, done, asked, l) /\ l # "end"
  BY <1>2
<1>7. QED
  <2>1. WritesOn(o, done, asked, l)
    BY <1>2, <1>3, <1>4, <1>5, <1>6, WrittenOn
  <2>2. QED
    BY <1>2, <2>1 DEF WritesOn

\* After the reassignments come the log dir moves; an --execute without them ends.
LEMMA AlterIs ==
    ASSUME ProcInv, NEW o \in Operators, proc[o].pc = "alter",
           NEW done, NEW asked, Written(o, done, asked, AfterReassign(proc[o]))
    PROVE  \/ Ends(o, 1)
           \/ done = asked /\ DOMAIN proc[o].moves = {} /\ Ends(o, 0)
           \/ /\ done = asked
              /\ MovesOn(o, AfterReassign(proc[o]))
              /\ proc[o].kind = "execute" => AfterReassign(proc[o]) = "moves"
<1>1. proc[o].kind \in {"execute", "cancel"}
  BY DEF ProcInv, Local, Stands
<1>2. PICK l : l = AfterReassign(proc[o])
  OBVIOUS
<1>3. PICK n : n = [proc[o] EXCEPT !.pc = l]
  OBVIOUS
<1>4. /\ l \in {"moves", "clearBrokers", "end"}
      /\ proc[o].kind = "execute" => l \in {"moves", "end"}
      /\ l = "end" => DOMAIN proc[o].moves = {}
  BY <1>1, <1>2 DEF AfterReassign
<1>5. ASSUME l # "end" PROVE Stands(n) /\ Executing(n) /\ Agreed(n)
  <2>1. Executing(n) /\ Agreed(n) /\ n.kind = proc[o].kind /\ n.pc = l
    BY <1>1, <1>3, <1>4, <1>5, PastPrompt
  <2>2. Stands(n)
    BY <1>1, <1>4, <1>5, <2>1 DEF Stands
  <2>3. QED
    BY <2>1, <2>2
<1>6. Written(o, done, asked, l)
  BY <1>2
<1>7. QED
  <2>1. WritesOn(o, done, asked, l)
    BY <1>2, <1>3, <1>4, <1>5, <1>6, WrittenOn
  <2>2. QED
    BY <1>2, <1>4, <2>1 DEF WritesOn

LEMMA ClearBrokersIs ==
    ASSUME ProcInv, NEW o \in Operators, proc[o].pc = "clearBrokers",
           NEW done, NEW asked, Written(o, done, asked, "clearTopics")
    PROVE  Ends(o, 1) \/ (done = asked /\ MovesOn(o, "clearTopics"))
<1>1. proc[o].kind \in {"verify", "cancel"}
  BY DEF ProcInv, Local, Stands
<1>2. PICK l : l = "clearTopics"
  OBVIOUS
<1>3. PICK n : n = [proc[o] EXCEPT !.pc = l]
  OBVIOUS
<1>4. Executing(n) /\ Agreed(n) /\ n.kind = proc[o].kind /\ n.pc = l
  <2>1. CASE proc[o].kind = "cancel"
    BY <1>2, <1>3, <2>1, PastPrompt
  <2>2. CASE proc[o].kind = "verify"
    <3>1. SameLine(proc[o], n) /\ n.pc = l
      <4>1. PcSet(proc[o], n, l)
        BY <1>3, PcFields DEF ProcInv, Local
      <4>2. QED
        BY <4>1 DEF PcSet
    <3>2. QED
      BY <2>2, <3>1 DEF SameLine, Executing, Agreed
  <2>3. QED
    BY <1>1, <2>1, <2>2
<1>5. Stands(n)
  BY <1>1, <1>2, <1>4 DEF Stands
<1>6. Written(o, done, asked, l) /\ l # "end"
  BY <1>2
<1>7. QED
  <2>1. WritesOn(o, done, asked, l)
    BY <1>2, <1>3, <1>4, <1>5, <1>6, WrittenOn
  <2>2. QED
    BY <1>2, <2>1 DEF WritesOn

LEMMA PromptIs ==
    ASSUME ProcInv, NEW o \in Operators, Prompt(o)
    PROVE  \/ \E code \in {130, 2} : Ends(o, code)
           \/ proc[o].kind = "cancel" /\ Ends(o, 0)
           \/ MovesOn(o, AfterPrompt(proc[o]))
<1>1. Local(proc[o]) /\ Shape(proc[o]) /\ proc[o].kind \in {"execute", "cancel"} /\ proc[o].pc = "prompt"
  BY DEF ProcInv, Local, Stands, Prompt
<1>2. CASE Exit(o, 130) \/ Exit(o, 2)
  <2>1. Ends(o, 130) \/ Ends(o, 2)
    BY <1>2, ExitIs
  <2>2. QED
    BY <2>1
<1>3. CASE Advance(o, [proc[o] EXCEPT !.consent = TRUE], AfterPrompt(proc[o]))
  <2>1. PICK v : v = [proc[o] EXCEPT !.consent = TRUE]
    OBVIOUS
  <2>2. PICK l : l = AfterPrompt(proc[o])
    OBVIOUS
  <2>3. PICK n : n = [v EXCEPT !.pc = l]
    OBVIOUS
  <2>4. (l = "end" /\ Ends(o, 0)) \/ (l # "end" /\ GoesOn(o, n))
    BY <1>3, <2>1, <2>2, <2>3, AdvanceIs
  <2>5. /\ l = "end" => proc[o].kind = "cancel"
        /\ proc[o].kind = "cancel" => l \in {"end", "alter", "moves", "clearBrokers"}
        /\ proc[o].kind = "execute" => l \in {"throttleTopics", "throttleDirs", "alter"}
    BY <1>1, <2>2 DEF AfterPrompt, AfterCancelPrompt, AfterReassign, AfterRates
  <2>6. ASSUME l # "end", GoesOn(o, n) PROVE MovesOn(o, l)
    <3>1. /\ Shape(v) /\ SameLine(proc[o], v) /\ v.consent
          /\ v.active = proc[o].active /\ v.current = proc[o].current
          /\ v.reassigning = proc[o].reassigning
          /\ v.moves = proc[o].moves /\ v.failed = proc[o].failed
      <4>1. ConsentSet(proc[o], v)
        BY <1>1, <2>1, ConsentFields
      <4>2. QED
        BY <4>1 DEF ConsentSet
    <3>a. Shape(v)
      BY <3>1
    <3>2. /\ Shape(n) /\ SameLine(v, n) /\ n.pc = l /\ n.consent = v.consent
          /\ n.active = v.active /\ n.current = v.current /\ n.reassigning = v.reassigning
          /\ n.moves = v.moves /\ n.failed = v.failed
      <4>1. PcSet(v, n, l)
        BY <2>3, <3>a, PcFields
      <4>2. QED
        BY <4>1 DEF PcSet
    <3>3. SameLine(proc[o], n)
      BY <3>1, <3>2 DEF SameLine
    <3>4. Stands(n)
      BY <1>1, <2>5, <2>6, <3>2, <3>3 DEF Stands, SameLine
    <3>5. Agreed(n)
      BY <1>1, <3>1, <3>2, <3>3 DEF Agreed, Local, SameLine
    <3>6. Executing(n)
      <4>1. proc[o].kind = "execute" => l \notin {"list", "describe", "moves"}
        BY <2>5
      <4>2. proc[o].pc \notin {"list", "describe", "moves"}
        BY <1>1
      <4>3. QED
        <5>1. /\ n.kind = proc[o].kind /\ n.file = proc[o].file /\ n.pc = l
              /\ n.current = proc[o].current /\ n.moves = proc[o].moves
          BY <3>1, <3>2, <3>3 DEF SameLine
        <5>2. Executing(proc[o])
          BY <1>1 DEF Local
        <5>3. QED
          BY <4>1, <4>2, <5>1, <5>2 DEF Executing
    <3>7. Read(n)
      BY <1>1, <3>1, <3>2, <3>3 DEF Read, Local, SameLine
    <3>8. Local(n) /\ proc'[o] = n
      BY <2>6, <3>2, <3>4, <3>5, <3>6, <3>7 DEF Local, GoesOn
    <3>9. QED
      BY <2>6, <3>1, <3>2, <3>3, <3>8 DEF MovesOn
  <2>7. QED
    BY <2>2, <2>4, <2>5, <2>6
<1>4. QED
  BY <1>2, <1>3 DEF Prompt

LEMMA DeadlineIs == ASSUME ProcInv, NEW o \in Operators, Deadline(o) PROVE MovesOn(o, "moves")
<1>1. PICK n : n = [proc[o] EXCEPT !.late = TRUE]
  OBVIOUS
<1>2. GoesOn(o, n) /\ proc[o].pc = "moves"
  BY <1>1, ContinueIs DEF Deadline
<1>3. Local(proc[o]) /\ Shape(proc[o])
  BY DEF ProcInv, Local
<1>4. /\ Shape(n) /\ SameLine(proc[o], n) /\ n.pc = proc[o].pc
      /\ n.active = proc[o].active /\ n.current = proc[o].current
      /\ n.reassigning = proc[o].reassigning /\ n.consent = proc[o].consent
      /\ n.moves = proc[o].moves /\ n.failed = proc[o].failed
  <2>1. LateSet(proc[o], n)
    BY <1>1, <1>3, LateFields
  <2>2. QED
    BY <2>1 DEF LateSet
<1>5. Stands(n) /\ Read(n) /\ Agreed(n)
  BY <1>3, <1>4 DEF Local, Stands, Read, Agreed, SameLine
<1>6. Executing(n)
  BY <1>3, <1>4 DEF Local, Executing, SameLine
<1>7. Local(n) /\ proc'[o] = n
  BY <1>2, <1>4, <1>5, <1>6 DEF Local, GoesOn
<1>8. QED
  BY <1>2, <1>4, <1>7 DEF MovesOn

\* The replicas that a round starts to move, of those that are on their brokers.
Here(o) == {r \in DOMAIN proc[o].moves : dir[r].at # None}

\* A round leaves fewer moves, or none.
LEMMA StartMovesIs ==
    ASSUME ProcInv, NEW o \in Operators, StartMoves(o)
    PROVE  \E started \in SUBSET Here(o) :
             /\ dir' = [r \in Replicas |-> IF r \in started THEN MoveTo(r, proc[o].moves[r])
                                           ELSE dir[r]]
             /\ \/ Ends(o, 1)
                \/ DOMAIN proc[o].moves \ started = {} /\ Ends(o, 0)
                \/ /\ GoesOn(o, proc'[o]) /\ Local(proc'[o])
                   /\ SameLine(proc[o], proc'[o])
                   /\ proc[o].kind = "execute" => proc'[o].pc = "moves"
                   /\ DOMAIN proc'[o].moves = DOMAIN proc[o].moves \ started
<1> DEFINE me == proc[o]
<1>1. PICK started \in SUBSET Here(o) :
        LET left == [r \in LeftToMove(o, started) |-> proc[o].moves[r]]
            next == [proc[o] EXCEPT !.moves = left]
        IN  /\ dir' = [r \in Replicas |-> IF r \in started THEN MoveTo(r, proc[o].moves[r])
                                          ELSE dir[r]]
            /\ IF started # Here(o) THEN Exit(o, 1)
               ELSE IF DOMAIN left = {} THEN Advance(o, next, AfterReassign(next))
               ELSE IF GivesUp(o) THEN Exit(o, 1)
               ELSE Continue(o, next)
  BY DEF StartMoves, Here
<1>2. PICK left : left = [r \in LeftToMove(o, started) |-> me.moves[r]]
  OBVIOUS
<1>3. PICK next : next = [me EXCEPT !.moves = left]
  OBVIOUS
<1>4. /\ dir' = [r \in Replicas |-> IF r \in started THEN MoveTo(r, proc[o].moves[r]) ELSE dir[r]]
      /\ \/ Exit(o, 1)
         \/ DOMAIN left = {} /\ Advance(o, next, AfterReassign(next))
         \/ Continue(o, next)
  BY <1>1, <1>2, <1>3
<1>5. DOMAIN left = DOMAIN me.moves \ started /\ \A r \in DOMAIN left : left[r] = me.moves[r]
  BY <1>2 DEF LeftToMove
<1>6. Local(me) /\ Shape(me) /\ me.pc = "moves" /\ me.kind \in {"execute", "cancel"}
  BY DEF ProcInv, Local, Stands, StartMoves
<1> HIDE DEF me
<1>7. /\ Shape(next) /\ SameLine(me, next) /\ next.pc = me.pc
      /\ next.active = me.active /\ next.current = me.current /\ next.reassigning = me.reassigning
      /\ next.moves = left /\ next.consent = me.consent
  <2>1. MovesSet(me, next, left)
    BY <1>3, <1>6, MovesFields
  <2>2. QED
    BY <2>1 DEF MovesSet
<1>8. Stands(next) /\ Agreed(next)
  BY <1>6, <1>7 DEF Local, Stands, Agreed, SameLine
<1>9. Read(next)
  BY <1>5, <1>6, <1>7 DEF Local, Read, SameLine
<1>10. Executing(next)
  BY <1>5, <1>6, <1>7 DEF Local, Executing, SameLine
<1>11. Local(next)
  BY <1>7, <1>8, <1>9, <1>10 DEF Local
<1>12. CASE Exit(o, 1)
  BY <1>4, <1>12, ExitIs
<1>13. CASE Continue(o, next)
  <2>1. GoesOn(o, next) /\ proc'[o] = next
    BY <1>13, ContinueIs DEF GoesOn
  <2>2. QED
    BY <1>4, <1>5, <1>6, <1>7, <1>11, <2>1 DEF me
<1>14. CASE DOMAIN left = {} /\ Advance(o, next, AfterReassign(next))
  <2>1. PICK l : l = AfterReassign(next)
    OBVIOUS
  <2>2. l = "end" \/ (l = "clearBrokers" /\ me.kind = "cancel")
    BY <1>7, <1>14, <2>1 DEF AfterReassign, SameLine
  <2>3. PICK n : n = [next EXCEPT !.pc = l]
    OBVIOUS
  <2>4. (l = "end" /\ Ends(o, 0)) \/ (l # "end" /\ GoesOn(o, n))
    BY <1>14, <2>1, <2>3, AdvanceIs
  <2>5. CASE l = "end" /\ Ends(o, 0)
    BY <1>4, <1>5, <1>14, <2>5 DEF me
  <2>6. CASE l # "end" /\ GoesOn(o, n)
    <3>1. SameLine(next, n) /\ n.pc = "clearBrokers" /\ n.moves = left /\ n.consent = next.consent
      <4>1. PcSet(next, n, l)
        BY <1>7, <2>2, <2>3, <2>6, PcFields
      <4>2. QED
        BY <1>7, <2>2, <2>6, <4>1 DEF PcSet
    <3>2. SameLine(me, n) /\ n.kind = "cancel"
      BY <1>7, <2>2, <2>6, <3>1 DEF SameLine
    <3>3. Stands(n) /\ Executing(n) /\ Agreed(n)
      BY <1>6, <1>7, <3>1, <3>2 DEF Stands, Executing, Agreed, Local, SameLine
    <3>4. Local(n) /\ proc'[o] = n
      BY <1>11, <2>3, <2>6, <3>3, PcLocal DEF GoesOn
    <3>5. me.kind = "cancel"
      BY <2>2, <2>6
    <3>6. DOMAIN proc'[o].moves = DOMAIN proc[o].moves \ started
      BY <1>5, <3>1, <3>4 DEF me
    <3>7. QED
      BY <1>4, <2>6, <3>2, <3>4, <3>5, <3>6 DEF me
  <2>7. QED
    BY <2>4, <2>5, <2>6
<1>15. QED
  BY <1>4, <1>12, <1>13, <1>14

\* Whatever an operator's step does, its command is in a state that it may have.
LEMMA CommandKeeps ==
    ASSUME ClusterInv, ProcInv, NEW o \in Operators,
           Start(o) \/ Run(o) \/ Prompt(o) \/ Deadline(o) \/ Interrupt(o)
    PROVE  ProcInv'
<1>1. ASSUME MovesOn(o, proc'[o].pc) PROVE ProcInv'
  BY <1>1, GoesOnKeeps DEF MovesOn
<1>2. CASE Start(o)
  BY <1>2, StartIs, GoesOnKeeps
<1>3. CASE ExecuteList(o)
  <2>1. Ends(o, 1) \/ (GoesOn(o, proc'[o]) /\ Local(proc'[o]))
    BY <1>3, ExecuteListIs DEF GoesOn
  <2>2. QED
    BY <2>1, EndsKeeps, GoesOnKeeps
<1>4. CASE ExecuteDescribe(o)
  <2>1. Ends(o, 1) \/ Ends(o, 0) \/ (GoesOn(o, proc'[o]) /\ Local(proc'[o]))
    BY <1>4, ExecuteDescribeIs DEF GoesOn
  <2>2. QED
    BY <2>1, EndsKeeps, GoesOnKeeps
<1>5. CASE VerifyList(o)
  BY <1>5, VerifyListIs, GoesOnKeeps DEF GoesOn
<1>6. CASE VerifyDescribe(o)
  BY <1>6, VerifyDescribeIs, GoesOnKeeps DEF GoesOn
<1>7. CASE VerifyMoves(o)
  <2>1. (\E code : Ends(o, code)) \/ (GoesOn(o, proc'[o]) /\ Local(proc'[o]))
    BY <1>7, VerifyMovesIs DEF GoesOn
  <2>2. QED
    BY <2>1, EndsKeeps, GoesOnKeeps
<1>8. CASE CancelList(o)
  BY <1>8, CancelListIs, GoesOnKeeps
<1>9. CASE CancelMoves(o)
  BY <1>9, CancelMovesIs, EndsKeeps, GoesOnKeeps
<1>10. CASE ThrottleTopics(o)
  <2>1. proc[o].pc = "throttleTopics" /\ \E done, asked : Written(o, done, asked, "throttleBrokers")
    BY <1>10 DEF ThrottleTopics
  <2>2. QED
    BY <2>1, ThrottleTopicsIs, EndsKeeps, GoesOnKeeps DEF MovesOn
<1>11. CASE ThrottleBrokers(o)
  <2>1. proc[o].pc = "throttleBrokers" /\ \E done, asked : Written(o, done, asked, AfterRates(proc[o]))
    BY <1>11 DEF ThrottleBrokers
  <2>2. QED
    BY <2>1, ThrottleBrokersIs, EndsKeeps, GoesOnKeeps DEF MovesOn
<1>12. CASE ThrottleDirs(o)
  <2>1. proc[o].pc = "throttleDirs" /\ \E done, asked : Written(o, done, asked, "alter")
    BY <1>12 DEF ThrottleDirs
  <2>2. QED
    BY <2>1, ThrottleDirsIs, EndsKeeps, GoesOnKeeps DEF MovesOn
<1>13. CASE AlterExecute(o) \/ AlterCancel(o)
  <2>1. proc[o].pc = "alter" /\ \E done, asked : Written(o, done, asked, AfterReassign(proc[o]))
    BY <1>13 DEF AlterExecute, AlterCancel, At
  <2>2. QED
    BY <2>1, AlterIs, EndsKeeps, GoesOnKeeps DEF MovesOn
<1>14. CASE StartMoves(o)
  BY <1>14, StartMovesIs, EndsKeeps, GoesOnKeeps
<1>15. CASE ClearBrokers(o)
  <2>1. proc[o].pc = "clearBrokers" /\ \E done, asked : Written(o, done, asked, "clearTopics")
    BY <1>15 DEF ClearBrokers
  <2>2. QED
    BY <2>1, ClearBrokersIs, EndsKeeps, GoesOnKeeps DEF MovesOn
<1>16. CASE ClearTopics(o)
  <2>1. \E code : Exit(o, code)
    BY <1>16 DEF ClearTopics
  <2>2. QED
    BY <2>1, ExitIs, EndsKeeps
<1>17. CASE ReadFails(o) \/ Interrupt(o)
  <2>1. \E code : Exit(o, code)
    BY <1>17 DEF ReadFails, Interrupt
  <2>2. QED
    BY <2>1, ExitIs, EndsKeeps
<1>18. CASE Prompt(o)
  BY <1>18, PromptIs, EndsKeeps, GoesOnKeeps DEF MovesOn
<1>19. CASE Deadline(o)
  BY <1>19, DeadlineIs, GoesOnKeeps DEF MovesOn
<1>20. QED
  BY <1>2, <1>3, <1>4, <1>5, <1>6, <1>7, <1>8, <1>9, <1>10, <1>11, <1>12, <1>13, <1>14,
     <1>15, <1>16, <1>17, <1>18, <1>19 DEF Run

-----------------------------------------------------------------------------
(* Every step leaves the cluster whole. *)

LEMMA SameCluster ==
    ASSUME ClusterInv, UNCHANGED <<part, dir, throttle, commands, marks>>
    PROVE  ClusterInv'
  BY DEF ClusterInv

\* A new set of throttles.
LEMMA ThrottleFields ==
    ASSUME throttle \in ThrottleType
    PROVE  /\ DOMAIN throttle = {"leader", "follower", "rate", "dirRate"}
           /\ throttle.leader \subseteq Parts \X Brokers /\ throttle.follower \subseteq Parts \X Brokers
           /\ throttle.rate \subseteq Brokers /\ throttle.dirRate \subseteq Brokers
  BY DEF ThrottleType

\* MoveMap, partition by partition.
IsMoveMap(mm, a, t, c) ==
    /\ DOMAIN mm = DOMAIN a \cup DOMAIN t
    /\ \A p \in DOMAIN mm :
         /\ mm[p].sources = IF p \in DOMAIN a THEN Range(a[p].replicas) \ a[p].adding
                            ELSE Range(c[p])
         /\ mm[p].destinations = IF p \in DOMAIN t THEN Range(t[p]) \ mm[p].sources
                                 ELSE a[p].adding

LEMMA MoveMapIs == ASSUME NEW a, NEW t, NEW c PROVE IsMoveMap(MoveMap(a, t, c), a, t, c)
<1> DEFINE Sources(p) == IF p \in DOMAIN a THEN Range(a[p].replicas) \ a[p].adding ELSE Range(c[p])
           Destinations(p) == IF p \in DOMAIN t THEN Range(t[p]) \ Sources(p) ELSE a[p].adding
<1> DEFINE mm == MoveMap(a, t, c)
<1>1. mm = [p \in DOMAIN a \cup DOMAIN t |-> [sources |-> Sources(p), destinations |-> Destinations(p)]]
  BY DEF MoveMap
<1> HIDE DEF Sources, Destinations, mm
<1>2. DOMAIN mm = DOMAIN a \cup DOMAIN t
  BY <1>1
<1>3. \A p \in DOMAIN a \cup DOMAIN t :
        mm[p].sources = Sources(p) /\ mm[p].destinations = Destinations(p)
  BY <1>1
<1>4. QED
  BY <1>2, <1>3 DEF Sources, Destinations, IsMoveMap, mm

\* The moves of an --execute are of partitions and brokers of the cluster.
LEMMA MovesInCluster ==
    ASSUME ProcInv, NEW o \in Operators, proc[o].kind = "execute",
           proc[o].pc \notin {"list", "describe"}
    PROVE  /\ DOMAIN Moves(o) = DOMAIN proc[o].active \cup Named(proc[o].file)
           /\ DOMAIN Moves(o) \subseteq Parts
           /\ \A p \in DOMAIN Moves(o) :
                Moves(o)[p].sources \subseteq Nodes /\ Moves(o)[p].destinations \subseteq Nodes
<1> DEFINE me == proc[o]
           t == Targets(me.file)
<1>1. Local(me)
  BY DEF ProcInv
<1>2. PICK mm : mm = Moves(o)
  OBVIOUS
<1>3. Executable(me.file) /\ \A p \in Named(me.file) : me.current[p] \in Seq(Nodes)
  BY <1>1 DEF Local, Executing
<1>4. DOMAIN t = Named(me.file)
  BY <1>1, <1>3, TargetsFacts DEF Executable, CheckExecute, Local, Read
<1>5. IsMoveMap(mm, me.active, t, me.current)
  BY <1>2, MoveMapIs DEF Moves
<1>6. DOMAIN me.active \subseteq Parts /\ Named(me.file) \subseteq Parts
  BY <1>1, <1>3 DEF Local, Read, Executable
<1>7. ASSUME NEW p \in DOMAIN mm PROVE mm[p].sources \subseteq Nodes /\ mm[p].destinations \subseteq Nodes
  <2>1. p \in DOMAIN me.active => Range(me.active[p].replicas) \subseteq Nodes /\ me.active[p].adding \subseteq Nodes
    BY <1>1, RangeOfSeq DEF Local, Read
  <2>2. p \in DOMAIN t => Range(t[p]) \subseteq Nodes /\ Range(me.current[p]) \subseteq Nodes
    BY <1>3, <1>4, RangeOfSeq DEF Executable
  <2> HIDE DEF t, me
  <2>3. QED
    BY <1>5, <2>1, <2>2 DEF IsMoveMap
<1>8. QED
  BY <1>2, <1>4, <1>5, <1>6, <1>7 DEF IsMoveMap

LEMMA StartCluster == ASSUME ClusterInv, NEW o \in Operators, Start(o) PROVE ClusterInv'
<1>1. commands' = commands + 1 /\ commands < MaxCommands /\ UNCHANGED <<part, dir, throttle, marks>>
  BY DEF Start
<1>2. commands \in 0..MaxCommands /\ MaxCommands \in Nat
  BY ClusterIsThere DEF ClusterInv
<1>3. commands' \in 0..MaxCommands
  BY SMTT(20), <1>1, <1>2
<1>4. QED
  BY <1>1, <1>3 DEF ClusterInv

\* Where the throttle of --execute goes.
LEMMA ThrottlesInCluster ==
    ASSUME ProcInv, NEW o \in Operators, proc[o].kind = "execute",
           proc[o].pc \notin {"list", "describe"}
    PROVE  /\ LeaderThrottles(Moves(o)) \subseteq Parts \X Brokers
           /\ FollowerThrottles(Moves(o)) \subseteq Parts \X Brokers
           /\ MovingBrokers(Moves(o)) \subseteq Brokers
<1>1. PICK mm : mm = Moves(o)
  OBVIOUS
<1>2. /\ DOMAIN mm \subseteq Parts
      /\ \A p \in DOMAIN mm : mm[p].sources \subseteq Nodes /\ mm[p].destinations \subseteq Nodes
  BY <1>1, MovesInCluster
<1>3. Nodes \subseteq Brokers
  BY DEF Brokers
<1>4. LeaderThrottles(mm) \subseteq Parts \X Brokers
  BY SMTT(20), <1>2, <1>3 DEF LeaderThrottles
<1>5. FollowerThrottles(mm) \subseteq Parts \X Brokers
  BY SMTT(20), <1>2, <1>3 DEF FollowerThrottles
<1>6. MovingBrokers(mm) \subseteq Brokers
  BY <1>2, <1>3 DEF MovingBrokers
<1>7. QED
  BY <1>1, <1>4, <1>5, <1>6

\* What a step of write_throttles does to the throttles.
LEMMA ThrottleTopicsWrites ==
    ASSUME ClusterInv, NEW done, NEW l, NEW f,
           throttle' = [throttle EXCEPT !.leader = Replaced(@, l, done),
                                        !.follower = Replaced(@, f, done)]
    PROVE  /\ throttle'.leader = Replaced(throttle.leader, l, done)
           /\ throttle'.follower = Replaced(throttle.follower, f, done)
           /\ throttle'.rate = throttle.rate /\ throttle'.dirRate = throttle.dirRate
           /\ l \subseteq Parts \X Brokers /\ f \subseteq Parts \X Brokers => throttle' \in ThrottleType
<1>1. throttle \in ThrottleType
  BY DEF ClusterInv
<1>2. /\ throttle'.leader = Replaced(throttle.leader, l, done)
      /\ throttle'.follower = Replaced(throttle.follower, f, done)
      /\ throttle'.rate = throttle.rate /\ throttle'.dirRate = throttle.dirRate
  BY <1>1, ThrottleFields
<1>3. \A old, new : Replaced(old, new, done) \subseteq old \cup new
  BY DEF Replaced
<1>4. ASSUME l \subseteq Parts \X Brokers, f \subseteq Parts \X Brokers
      PROVE  throttle' \in ThrottleType
  <2>1. /\ Replaced(throttle.leader, l, done) \subseteq Parts \X Brokers
        /\ Replaced(throttle.follower, f, done) \subseteq Parts \X Brokers
    BY <1>1, <1>3, <1>4, ThrottleFields
  <2>2. QED
    BY <1>1, <2>1 DEF ThrottleType
<1>5. QED
  BY <1>2, <1>4

LEMMA ThrottleTopicsCluster ==
    ASSUME ClusterInv, ProcInv, NEW o \in Operators, ThrottleTopics(o)
    PROVE  ClusterInv'
<1>1. proc[o].kind = "execute" /\ proc[o].pc \notin {"list", "describe"}
  BY DEF ThrottleTopics, ProcInv, Local, Stands
<1>2. PICK done : throttle' = [throttle EXCEPT
                                 !.leader = Replaced(@, LeaderThrottles(Moves(o)), done),
                                 !.follower = Replaced(@, FollowerThrottles(Moves(o)), done)]
  BY DEF ThrottleTopics
<1>3. throttle' \in ThrottleType
  BY <1>1, <1>2, ThrottlesInCluster, ThrottleTopicsWrites
<1>4. marks' = [p \in Parts |-> IF p \in Named(proc[o].file) /\ marks[p] = "both"
                                THEN "leaders" ELSE marks[p]]
      /\ UNCHANGED <<part, dir, commands>>
  BY DEF ThrottleTopics
<1>5. marks' \in [Parts -> {"none", "stale", "leaders", "both"}]
  BY <1>4 DEF ClusterInv
<1>6. QED
  BY <1>3, <1>4, <1>5 DEF ClusterInv

LEMMA ThrottleBrokersCluster ==
    ASSUME ClusterInv, ProcInv, NEW o \in Operators, ThrottleBrokers(o)
    PROVE  ClusterInv'
<1>1. proc[o].kind = "execute" /\ proc[o].pc \notin {"list", "describe"}
  BY DEF ThrottleBrokers, ProcInv, Local, Stands
<1>2. PICK done \in SUBSET MovingBrokers(Moves(o)) : throttle' = [throttle EXCEPT !.rate = @ \cup done]
  BY DEF ThrottleBrokers
<1>3. done \subseteq Brokers
  BY <1>1, ThrottlesInCluster
<1>4. throttle' \in ThrottleType
  BY <1>2, <1>3 DEF ClusterInv, ThrottleType
<1>5. QED
  BY <1>4 DEF ClusterInv, ThrottleBrokers

LEMMA ThrottleDirsCluster ==
    ASSUME ClusterInv, ProcInv, NEW o \in Operators, ThrottleDirs(o)
    PROVE  ClusterInv'
<1>1. PICK done \in SUBSET {r[2] : r \in DOMAIN proc[o].moves} :
        throttle' = [throttle EXCEPT !.dirRate = @ \cup done]
  BY DEF ThrottleDirs
<1>2. \A r \in DOMAIN proc[o].moves : r[2] \in Brokers
  BY DEF ProcInv, Local, Read
<1>3. done \subseteq Brokers
  BY <1>1, <1>2
<1>4. throttle' \in ThrottleType
  BY <1>1, <1>3 DEF ClusterInv, ThrottleType
<1>5. QED
  BY <1>4 DEF ClusterInv, ThrottleDirs

LEMMA AlterExecuteCluster ==
    ASSUME ClusterInv, ProcInv, NEW o \in Operators, AlterExecute(o)
    PROVE  ClusterInv'
<1>1. PICK accepted \in SUBSET DOMAIN Targets(proc[o].file) :
        /\ part' = [p \in Parts |-> IF p \in accepted THEN Reassigned(p, Targets(proc[o].file)[p])
                                    ELSE part[p]]
        /\ marks' = [p \in Parts |-> IF p \in accepted THEN Mark(proc[o], p) ELSE marks[p]]
  BY DEF AlterExecute
<1>2. Local(proc[o]) /\ proc[o].kind = "execute" /\ proc[o].pc = "alter"
  BY DEF AlterExecute, At, ProcInv
<1>3. Executable(proc[o].file) /\ proc[o].file \in Files \cup {<<>>}
  BY <1>2 DEF Local, Executing, Read
<1>4. DOMAIN Targets(proc[o].file) = Named(proc[o].file)
  BY <1>3, TargetsFacts DEF Executable, CheckExecute
<1>5. ASSUME NEW p \in Parts PROVE Whole(part'[p])
  <2>1. CASE p \in accepted
    <3>1. PICK target : target = Targets(proc[o].file)[p]
      OBVIOUS
    <3>2. target \in Seq(Nodes) /\ NoDuplicates(target)
      BY <1>3, <1>4, <2>1, <3>1 DEF Executable
    <3>3. part'[p] = Reassigned(p, target)
      BY <1>1, <2>1, <3>1
    <3>4. Whole(part[p])
      BY DEF ClusterInv
    <3>5. QED
      BY <3>2, <3>3, <3>4, ReassignedFacts
  <2>2. CASE p \notin accepted
    BY <1>1, <2>2 DEF ClusterInv
  <2>3. QED
    BY <2>1, <2>2
<1>6. \A p \in Parts : Mark(proc[o], p) \in {"none", "both", "stale"}
  BY DEF Mark
<1>7. marks' \in [Parts -> {"none", "stale", "leaders", "both"}]
  BY <1>1, <1>6 DEF ClusterInv
<1>8. part' = [p \in Parts |-> part'[p]] /\ UNCHANGED <<dir, throttle, commands>>
  BY <1>1 DEF AlterExecute
<1>9. QED
  BY <1>5, <1>7, <1>8 DEF ClusterInv

\* The log dirs of the replicas that are left.
LEMMA HostedFacts ==
    ASSUME ClusterInv, dir' = Hosted(part'), part' = [p \in Parts |-> part'[p]]
    PROVE  /\ dir' \in DirType
           /\ \A r \in Replicas : r[1] \in Parts /\ r[2] \in Range(part'[r[1]].replicas) => dir'[r] = dir[r]
<1>1. DOMAIN part' = Parts
  OBVIOUS
<1>2. dir' = [r \in Replicas |-> IF r[1] \in Parts /\ r[2] \in Range(part'[r[1]].replicas)
                                 THEN dir[r] ELSE [at |-> None, to |-> None]]
  BY <1>1 DEF Hosted
<1>3. [at |-> None, to |-> None] \in [at: Dirs \cup {None}, to: Dirs \cup {None}]
  OBVIOUS
<1>4. dir' \in DirType
  BY <1>2, <1>3 DEF DirType, ClusterInv
<1>5. QED
  BY <1>2, <1>4

LEMMA AlterCancelCluster ==
    ASSUME ClusterInv, ProcInv, NEW o \in Operators, AlterCancel(o)
    PROVE  ClusterInv'
<1>1. PICK accepted :
        /\ part' = [p \in Parts |-> IF p \in accepted THEN Reverted(p) ELSE part[p]]
        /\ marks' = [p \in Parts |-> IF p \in accepted THEN "none" ELSE marks[p]]
  BY DEF AlterCancel
<1>2. \A p \in Parts : Whole(part'[p])
  BY <1>1, RevertedFacts DEF ClusterInv
<1>3. marks' \in [Parts -> {"none", "stale", "leaders", "both"}]
  BY <1>1 DEF ClusterInv
<1>4. part' = [p \in Parts |-> part'[p]]
  BY <1>1
<1>5. dir' \in DirType
  BY <1>4, HostedFacts DEF AlterCancel
<1>6. QED
  BY <1>2, <1>3, <1>4, <1>5 DEF ClusterInv, AlterCancel

\* MoveTo, for a log dir.
LEMMA MoveToFacts ==
    ASSUME ClusterInv, NEW r \in Replicas, NEW d \in Dirs
    PROVE  /\ MoveTo(r, d) \in [at: Dirs \cup {None}, to: Dirs \cup {None}]
           /\ MoveTo(r, d).at = dir[r].at
           /\ MoveTo(r, d).to = IF dir[r].at = d THEN None ELSE d
<1>1. dir[r] \in [at: Dirs \cup {None}, to: Dirs \cup {None}]
  BY DEF ClusterInv, DirType
<1>2. QED
  BY <1>1 DEF MoveTo

LEMMA StartMovesCluster ==
    ASSUME ClusterInv, ProcInv, NEW o \in Operators, StartMoves(o)
    PROVE  ClusterInv'
<1>1. PICK started \in SUBSET Here(o) :
        dir' = [r \in Replicas |-> IF r \in started THEN MoveTo(r, proc[o].moves[r]) ELSE dir[r]]
  BY StartMovesIs
<1>2. \A r \in started : proc[o].moves[r] \in Dirs
  BY DEF ProcInv, Local, Read, Here
<1>3. ASSUME NEW r \in Replicas PROVE dir'[r] \in [at: Dirs \cup {None}, to: Dirs \cup {None}]
  <2>1. CASE r \in started
    BY <1>1, <1>2, <2>1, MoveToFacts
  <2>2. CASE r \notin started
    BY <1>1, <2>2 DEF ClusterInv, DirType
  <2>3. QED
    BY <2>1, <2>2
<1>4. dir' = [r \in Replicas |-> dir'[r]]
  BY <1>1
<1>5. dir' \in DirType
  BY <1>3, <1>4 DEF DirType
<1>6. QED
  BY <1>5 DEF ClusterInv, StartMoves

LEMMA ClearCluster ==
    ASSUME ClusterInv, NEW o \in Operators, ClearBrokers(o) \/ ClearTopics(o)
    PROVE  ClusterInv'
<1>1. throttle' \in ThrottleType
  <2>1. CASE ClearBrokers(o)
    <3>1. PICK done : throttle' = [throttle EXCEPT !.rate = @ \ done, !.dirRate = @ \ done]
      BY <2>1 DEF ClearBrokers
    <3>2. QED
      BY <3>1 DEF ClusterInv, ThrottleType
  <2>2. CASE ClearTopics(o)
    <3>1. PICK done : throttle' = [throttle EXCEPT !.leader = Replaced(@, {}, done),
                                                   !.follower = Replaced(@, {}, done)]
      BY <2>2 DEF ClearTopics
    <3>2. {} \subseteq Parts \X Brokers
      OBVIOUS
    <3>3. {} \subseteq Parts \X Brokers /\ {} \subseteq Parts \X Brokers => throttle' \in ThrottleType
      BY <3>1, ThrottleTopicsWrites
    <3>4. QED
      BY <3>2, <3>3
  <2>3. QED
    BY <2>1, <2>2
<1>2. marks' = Released(o) /\ UNCHANGED <<part, dir, commands>>
  BY DEF ClearBrokers, ClearTopics
<1>3. marks' \in [Parts -> {"none", "stale", "leaders", "both"}]
  BY <1>2 DEF ClusterInv, Released
<1>4. QED
  BY <1>1, <1>2, <1>3 DEF ClusterInv

\* The end of a reassignment.
LEMMA CompleteIs ==
    ASSUME ClusterInv, NEW p \in Parts, Complete(p)
    PROVE  /\ part' = [q \in Parts |-> part'[q]]
           /\ \A q \in Parts : q # p => part'[q] = part[q]
           /\ part'[p] = Settled(Without(part[p].replicas, part[p].removing))
           /\ marks'[p] = "none" /\ \A q \in Parts : q # p => marks'[q] = marks[q]
           /\ marks' \in [Parts -> {"none", "stale", "leaders", "both"}]
<1>1. part' = [part EXCEPT ![p] = Settled(Without(@.replicas, @.removing))]
  BY DEF Complete
<1>2. part' = [q \in Parts |-> IF q = p THEN Settled(Without(part[p].replicas, part[p].removing))
                               ELSE part[q]]
  BY <1>1 DEF ClusterInv
<1>3. QED
  BY <1>2 DEF Complete, ClusterInv

LEMMA CompleteCluster == ASSUME ClusterInv, NEW p \in Parts, Complete(p) PROVE ClusterInv'
<1>1. /\ part' = [q \in Parts |-> part'[q]]
      /\ \A q \in Parts : q # p => part'[q] = part[q]
      /\ part'[p] = Settled(Without(part[p].replicas, part[p].removing))
      /\ marks' \in [Parts -> {"none", "stale", "leaders", "both"}]
  BY CompleteIs
<1>2. Whole(part'[p])
  BY <1>1, CompleteFacts DEF ClusterInv
<1>3. \A q \in Parts : Whole(part'[q])
  BY <1>1, <1>2 DEF ClusterInv
<1>4. dir' \in DirType
  BY <1>1, HostedFacts DEF Complete
<1>5. QED
  BY <1>1, <1>3, <1>4 DEF ClusterInv, Complete

\* What the cluster does to a replica.
LEMMA LandIs ==
    ASSUME ClusterInv, NEW r \in Replicas, Land(r)
    PROVE  /\ dir[r].at = None
           /\ dir' \in DirType
           /\ \A x \in Replicas : x # r => dir'[x] = dir[x]
           /\ dir'[r].to = dir[r].to
<1>1. PICK d \in Dirs : dir' = [dir EXCEPT ![r].at = d]
  BY DEF Land
<1>2. dir \in DirType
  BY DEF ClusterInv
<1>3. QED
  BY SMTT(20), <1>1, <1>2 DEF Land, DirType

LEMMA CopiedIs ==
    ASSUME ClusterInv, NEW r \in Replicas, Copied(r)
    PROVE  /\ dir[r].to # None
           /\ dir' \in DirType
           /\ \A x \in Replicas : x # r => dir'[x] = dir[x]
           /\ dir'[r].at = dir[r].to /\ dir'[r].to = None
<1>1. dir' = [dir EXCEPT ![r] = [at |-> dir[r].to, to |-> None]] /\ dir[r].to # None
  BY DEF Copied, ClusterInv, DirType
<1>2. dir \in DirType
  BY DEF ClusterInv
<1>3. [at |-> dir[r].to, to |-> None] \in [at: Dirs \cup {None}, to: Dirs \cup {None}]
  BY <1>2 DEF DirType
<1>4. QED
  BY <1>1, <1>2, <1>3 DEF DirType

\* What the cluster has, and what a command has, at the start.
LEMMA InitTypes == Init => ClusterInv /\ ProcInv
<1> SUFFICES ASSUME Init PROVE ClusterInv /\ ProcInv
  OBVIOUS
<1>1. part = [p \in Parts |-> Settled(Initial[p])]
  BY DEF Init
<1>2. \A p \in Parts : Whole(part[p])
  BY <1>1, ClusterIsThere, SettledWhole
<1>3. dir \in DirType
  <2>1. dir \in [Replicas -> [at: Dirs \cup {None}, to: {None}]]
    BY DEF Init
  <2>2. [at: Dirs \cup {None}, to: {None}] \subseteq [at: Dirs \cup {None}, to: Dirs \cup {None}]
    BY SMTT(20)
  <2>3. QED
    BY <2>1, <2>2 DEF DirType
<1>4. throttle \in ThrottleType
  BY DEF Init, Unthrottled, ThrottleType
<1>5. commands \in 0..MaxCommands
  BY SMTT(20), ClusterIsThere DEF Init
<1>6. marks \in [Parts -> {"none", "stale", "leaders", "both"}]
  BY DEF Init
<1>7. part = [p \in Parts |-> part[p]]
  BY <1>1
<1>8. ClusterInv
  BY <1>2, <1>3, <1>4, <1>5, <1>6, <1>7 DEF ClusterInv
<1>9. ProcInv
  BY IdleLocal DEF Init, ProcInv
<1>10. QED
  BY <1>8, <1>9

LEMMA NextTypes == ClusterInv /\ ProcInv /\ [Next]_vars => ClusterInv' /\ ProcInv'
<1> SUFFICES ASSUME ClusterInv, ProcInv, [Next]_vars PROVE ClusterInv' /\ ProcInv'
  OBVIOUS
<1>1. ASSUME NEW o \in Operators, Start(o) \/ Run(o) \/ Prompt(o) \/ Deadline(o) \/ Interrupt(o)
      PROVE  ClusterInv' /\ ProcInv'
  <2>1. ProcInv'
    BY <1>1, CommandKeeps
  <2>2. CASE Start(o)
    BY <2>1, <2>2, StartCluster
  <2>3. CASE ThrottleTopics(o) \/ ThrottleBrokers(o) \/ ThrottleDirs(o)
    BY <2>1, <2>3, ThrottleTopicsCluster, ThrottleBrokersCluster, ThrottleDirsCluster
  <2>4. CASE AlterExecute(o) \/ AlterCancel(o)
    BY <2>1, <2>4, AlterExecuteCluster, AlterCancelCluster
  <2>5. CASE StartMoves(o)
    BY <2>1, <2>5, StartMovesCluster
  <2>6. CASE ClearBrokers(o) \/ ClearTopics(o)
    BY <2>1, <2>6, ClearCluster
  <2>7. CASE ExecuteList(o) \/ ExecuteDescribe(o) \/ VerifyList(o) \/ VerifyDescribe(o) \/ VerifyMoves(o)
    <3>1. UNCHANGED <<part, dir, throttle, commands, marks>>
      BY <2>7 DEF ExecuteList, ExecuteDescribe, VerifyList, VerifyDescribe, VerifyMoves
    <3>2. QED
      BY <2>1, <3>1, SameCluster
  <2>8. CASE CancelList(o) \/ CancelMoves(o) \/ ReadFails(o) \/ Prompt(o) \/ Deadline(o) \/ Interrupt(o)
    <3>1. UNCHANGED <<part, dir, throttle, commands, marks>>
      BY <2>8 DEF CancelList, CancelMoves, ReadFails, Prompt, Deadline, Interrupt
    <3>2. QED
      BY <2>1, <3>1, SameCluster
  <2>9. QED
    BY <1>1, <2>2, <2>3, <2>4, <2>5, <2>6, <2>7, <2>8 DEF Run
<1>2. ASSUME proc' = proc PROVE ProcInv'
  BY <1>2 DEF ProcInv
<1>3. ASSUME NEW p \in Parts, Complete(p) PROVE ClusterInv' /\ ProcInv'
  BY <1>2, <1>3, CompleteCluster DEF Complete
<1>4. ASSUME NEW r \in Replicas, Land(r) PROVE ClusterInv' /\ ProcInv'
  <2>1. UNCHANGED <<part, throttle, proc, commands, marks>> /\ dir' \in DirType
    BY <1>4, LandIs DEF Land
  <2>2. QED
    BY <1>2, <2>1 DEF ClusterInv
<1>5. ASSUME NEW r \in Replicas, Copied(r) PROVE ClusterInv' /\ ProcInv'
  <2>1. UNCHANGED <<part, throttle, proc, commands, marks>> /\ dir' \in DirType
    BY <1>5, CopiedIs DEF Copied
  <2>2. QED
    BY <1>2, <2>1 DEF ClusterInv
<1>6. ASSUME UNCHANGED vars PROVE ClusterInv' /\ ProcInv'
  BY <1>2, <1>6, SameCluster DEF vars
<1>7. CASE Next
  BY <1>1, <1>3, <1>4, <1>5, <1>6, <1>7 DEF Next, Rest
<1>8. QED
  BY <1>6, <1>7

LEMMA Types == Spec => [](ClusterInv /\ ProcInv)
  BY InitTypes, NextTypes, PTL DEF Spec

\* TypeOK is what the invariant says.
LEMMA TypesImply == ClusterInv /\ ProcInv => TypeOK
<1> SUFFICES ASSUME ClusterInv, ProcInv PROVE TypeOK
  OBVIOUS
<1>1. ASSUME NEW p \in Parts
      PROVE  /\ NoDuplicates(part[p].replicas)
             /\ part[p].adding \cup part[p].removing \subseteq Range(part[p].replicas)
             /\ Range(part[p].replicas) \subseteq Nodes
  <2>1. Whole(part[p])
    BY DEF ClusterInv
  <2>2. Range(part[p].replicas) \in SUBSET Nodes
    BY <2>1, RangeOfSeq DEF Whole
  <2>3. QED
    BY <2>1, <2>2 DEF Whole
<1>2. ASSUME NEW o \in Operators
      PROVE  /\ proc[o].pc \in Labels
             /\ proc[o].file \in Files \cup {<<>>}
             /\ proc[o].reassigning \subseteq Parts
  BY DEF ProcInv, Local, Stands, Read, Labels
<1>3. QED
  BY <1>1, <1>2 DEF TypeOK, ClusterInv, DirType, ThrottleType

\* The cluster stays in order, however many operators reassign its partitions
\* at once.
THEOREM TypesHold == Spec => []TypeOK
  BY Types, TypesImply, PTL

\* Whatever the commands of the other operators do, no command writes to the
\* cluster before it was agreed to or on a dry run, and --verify writes nothing
\* but throttles.
THEOREM Consented == Spec => ConsentedChanges
<1> DEFINE Asked == \A o \in Operators :
                      proc'[o] # proc[o] /\ <<part, dir, throttle>>' # <<part, dir, throttle>> =>
                        \/ proc[o].consent /\ ~proc[o].dry
                        \/ proc[o].kind = "verify" /\ <<part, dir>>' = <<part, dir>>
<1>1. ClusterInv /\ ProcInv /\ [Next]_vars => Asked
  <2> SUFFICES ASSUME ClusterInv, ProcInv, [Next]_vars,
                      NEW q \in Operators, proc'[q] # proc[q],
                      <<part, dir, throttle>>' # <<part, dir, throttle>>
               PROVE  \/ proc[q].consent /\ ~proc[q].dry
                      \/ proc[q].kind = "verify" /\ <<part, dir>>' = <<part, dir>>
    OBVIOUS
  <2>1. ~UNCHANGED vars /\ ~Rest
    BY DEF vars, Rest
  <2>2. ~\E p \in Parts : Complete(p)
    BY DEF Complete
  <2>3. ~\E r \in Replicas : Land(r) \/ Copied(r)
    BY DEF Land, Copied
  <2>4. PICK o \in Operators : Start(o) \/ Run(o) \/ Prompt(o) \/ Deadline(o) \/ Interrupt(o)
    BY <2>1, <2>2, <2>3 DEF Next
  <2>5. ~(Start(o) \/ Prompt(o) \/ Deadline(o) \/ Interrupt(o) \/ ReadFails(o))
    BY DEF Start, Prompt, Deadline, Interrupt, ReadFails
  <2>6. ~(ExecuteList(o) \/ ExecuteDescribe(o) \/ VerifyList(o) \/ VerifyDescribe(o) \/ VerifyMoves(o)
          \/ CancelList(o) \/ CancelMoves(o))
    BY DEF ExecuteList, ExecuteDescribe, VerifyList, VerifyDescribe, VerifyMoves, CancelList,
           CancelMoves
  <2>7. \/ ThrottleTopics(o) \/ ThrottleBrokers(o) \/ ThrottleDirs(o) \/ AlterExecute(o)
        \/ AlterCancel(o) \/ StartMoves(o) \/ ClearBrokers(o) \/ ClearTopics(o)
    BY <2>4, <2>5, <2>6 DEF Run
  <2>8. proc[o].pc \in {"throttleTopics", "throttleBrokers", "throttleDirs", "alter", "moves",
                        "clearBrokers", "clearTopics"}
    BY <2>7 DEF ThrottleTopics, ThrottleBrokers, ThrottleDirs, AlterExecute, AlterCancel, At,
                StartMoves, ClearBrokers, ClearTopics
  <2>9. \E v : proc' = [proc EXCEPT ![o] = v]
    <3>1. \A n : Continue(o, n) => \E v : proc' = [proc EXCEPT ![o] = v]
      BY DEF Continue
    <3>2. \A code : Exit(o, code) => \E v : proc' = [proc EXCEPT ![o] = v]
      BY DEF Exit
    <3>3. \A n, l : Advance(o, n, l) => \E v : proc' = [proc EXCEPT ![o] = v]
      BY <3>1, <3>2 DEF Advance
    <3>4. \A d, a, l : Written(o, d, a, l) => \E v : proc' = [proc EXCEPT ![o] = v]
      BY <3>2, <3>3 DEF Written
    <3>5. CASE StartMoves(o)
      BY <3>1, <3>2, <3>3, <3>5 DEF StartMoves
    <3>6. CASE ClearTopics(o)
      BY <3>2, <3>6 DEF ClearTopics
    <3>7. ASSUME ~StartMoves(o), ~ClearTopics(o) PROVE \E d, a, l : Written(o, d, a, l)
      BY <2>7, <3>7 DEF ThrottleTopics, ThrottleBrokers, ThrottleDirs, AlterExecute, AlterCancel,
                        ClearBrokers
    <3>8. QED
      BY <3>4, <3>5, <3>6, <3>7
  <2>10. q = o
    BY <2>9 DEF ProcInv
  <2>11. Agreed(proc[o]) /\ Stands(proc[o])
    BY DEF ProcInv, Local
  <2>12. CASE proc[o].kind # "verify"
    BY <2>8, <2>10, <2>11, <2>12 DEF Agreed
  <2>13. CASE proc[o].kind = "verify"
    <3>1. proc[o].pc \in {"clearBrokers", "clearTopics"}
      BY <2>8, <2>11, <2>13 DEF Stands
    <3>2. ClearBrokers(o) \/ ClearTopics(o)
      BY <2>7, <3>1 DEF ThrottleTopics, ThrottleBrokers, ThrottleDirs, AlterExecute, AlterCancel,
                        At, StartMoves
    <3>3. UNCHANGED <<part, dir>>
      BY <3>2 DEF ClearBrokers, ClearTopics
    <3>4. QED
      BY <2>10, <2>13, <3>3
  <2>14. QED
    BY <2>12, <2>13
<1>2. QED
  BY <1>1, Types, PTL DEF Spec, ConsentedChanges

-----------------------------------------------------------------------------
(* One operator at a time: the steps that read, and the ends of a command. *)

LEMMA NothingReported == ASSUME report' = None PROVE ReportInv'
  BY DEF ReportInv, VerifiedIsSettled, VerifiedIsUnthrottled, ExecutedIsUnderWay

\* What a command that ends reports.
LEMMA ReportFields ==
    ASSUME NEW o \in Operators, NEW code, Ends(o, code)
    PROVE  /\ report'.kind = proc[o].kind /\ report'.file = proc[o].file /\ report'.code = code
           /\ report'.dry = proc[o].dry
           /\ report'.clears <=> (DOMAIN proc[o].active = {} /\ ~proc[o].preserve)
  BY DEF Ends

\* A command that fails, a cancel and a dry run report nothing.
LEMMA NoClaim ==
    ASSUME NEW o \in Operators, NEW code, Ends(o, code),
           code # 0 \/ proc[o].kind = "cancel" \/ (proc[o].kind = "execute" /\ proc[o].dry)
    PROVE  ReportInv'
<1>1. /\ report'.kind = proc[o].kind /\ report'.code = code /\ report'.dry = proc[o].dry
  BY ReportFields
<1>2. QED
  BY <1>1 DEF ReportInv, VerifiedIsSettled, VerifiedIsUnthrottled, ExecutedIsUnderWay

\* A command that ended knows nothing.
LEMMA EndKnows == ASSUME NEW o \in Operators, NEW code, Ends(o, code) PROVE Knows(o)'
<1>1. proc'[o].kind = "verify" /\ proc'[o].pc = "idle"
  BY SMTT(20) DEF Ends, Idle
<1>2. QED
  BY <1>1 DEF Knows, BeforeAlter, Throttled, AfterAlter, Verifying

LEMMA Codes == 1 # 0 /\ 2 # 0 /\ 130 # 0
  BY SMTT(20)

\* A cancel knows nothing that others could change.
LEMMA CancelKnows == ASSUME NEW o \in Operators, proc'[o].kind = "cancel" PROVE Knows(o)'
  BY DEF Knows, BeforeAlter, Throttled, AfterAlter, Verifying

LEMMA StartKnows == ASSUME ProcInv, NEW o \in Operators, Start(o) PROVE Knows(o)' /\ ReportInv'
<1>1. proc'[o].pc = "list" /\ report' = None
  BY StartIs DEF GoesOn
<1>2. QED
  BY <1>1, NothingReported DEF Knows, BeforeAlter, Throttled, AfterAlter, Verifying

\* A listing is up to date when it is read.
LEMMA ListedKnows ==
    ASSUME ClusterInv, NEW o \in Operators, proc'[o].active = Listing(Active), part' = part
    PROVE  Lists(o)'
<1>1. Active' = Active
  BY DEF Active, Moving
<1>2. Active \in SUBSET Parts
  BY DEF Active
<1>3. QED
  BY <1>1, <1>2, ListingFacts DEF Lists

LEMMA ExecuteListKnows ==
    ASSUME ClusterInv, ProcInv, NEW o \in Operators, ExecuteList(o)
    PROVE  Knows(o)' /\ ReportInv'
<1>1. CASE Ends(o, 1)
  BY <1>1, Codes, EndKnows, NoClaim
<1>2. CASE /\ GoesOn(o, Listed(proc[o], Listing(Active)))
           /\ ~Refuses(o, Listing(Active))
  <2>1. proc[o].kind = "execute" /\ Shape(proc[o]) /\ part' = part
    BY DEF ExecuteList, At, ProcInv, Local
  <2>2. proc'[o] = Listed(proc[o], Listing(Active)) /\ report' = None
    BY <1>2 DEF GoesOn
  <2>3. /\ SameLine(proc[o], proc'[o]) /\ proc'[o].pc = "describe"
        /\ proc'[o].active = Listing(Active)
    <3>1. PICK me, n, a : me = proc[o] /\ n = proc'[o] /\ a = Listing(Active)
      OBVIOUS
    <3>2. Shape(me) /\ n = Listed(me, a)
      BY <2>1, <2>2, <3>1
    <3>a. ActiveSet(me, n, a)
      BY <3>2, ActiveFields
    <3>3. SameLine(me, n) /\ n.pc = "describe" /\ n.active = a
      BY <3>a DEF ActiveSet
    <3>4. QED
      BY <3>1, <3>3
  <2>4. Lists(o)'
    BY <2>1, <2>3, ListedKnows
  <2>5. ~proc'[o].additional => DOMAIN proc'[o].active = {}
    BY <1>2, <2>3 DEF Refuses, SameLine
  <2>6. Knows(o)'
    BY <2>1, <2>3, <2>4, <2>5 DEF Knows, BeforeAlter, Throttled, AfterAlter, Verifying, SameLine
  <2>7. QED
    BY <2>2, <2>6, NothingReported
<1>3. QED
  BY <1>1, <1>2, ExecuteListIs

LEMMA ExecuteDescribeKnows ==
    ASSUME ClusterInv, ProcInv, NEW o \in Operators, Knows(o), ExecuteDescribe(o)
    PROVE  Knows(o)' /\ ReportInv'
<1>1. proc[o].kind = "execute" /\ proc[o].pc = "describe" /\ Shape(proc[o]) /\ part' = part
  BY DEF ExecuteDescribe, At, ProcInv, Local
<1>2. CASE Ends(o, 1)
  BY <1>2, Codes, EndKnows, NoClaim
<1>3. CASE proc[o].dry /\ Ends(o, 0)
  BY <1>1, <1>3, EndKnows, NoClaim
<1>4. CASE GoesOn(o, Described(proc[o],
                             [p \in DOMAIN Targets(proc[o].file) |-> part[p].replicas],
                             LogDirMoves(proc[o].file)))
  <2>1. PICK c : c = [p \in DOMAIN Targets(proc[o].file) |-> part[p].replicas]
    OBVIOUS
  <2>2. proc'[o] = Described(proc[o], c, LogDirMoves(proc[o].file)) /\ report' = None
    BY <1>4, <2>1 DEF GoesOn
  <2>3. /\ SameLine(proc[o], proc'[o]) /\ proc'[o].pc = "prompt"
        /\ proc'[o].active = proc[o].active /\ proc'[o].current = c
    <3>1. CurrentSet(proc[o], proc'[o], c, LogDirMoves(proc[o].file))
      BY <1>1, <2>2, DescribeFields
    <3>2. QED
      BY <3>1 DEF CurrentSet
  <2>4. DOMAIN Targets(proc[o].file) = Named(proc[o].file)
    BY DEF Targets
  <2>5. Lists(o) /\ (~proc[o].additional => DOMAIN proc[o].active = {})
    BY <1>1 DEF Knows, BeforeAlter
  <2>6. Lists(o)'
    BY <1>1, <2>3, <2>5 DEF Lists, Active, Moving
  <2>7. \A p \in Named(proc[o].file) : c[p] = part[p].replicas
    BY <2>1, <2>4
  <2>8. Knows(o)'
    BY <1>1, <2>3, <2>5, <2>6, <2>7 DEF Knows, BeforeAlter, Throttled, AfterAlter, Verifying, SameLine
  <2>9. QED
    BY <2>2, <2>8, NothingReported
<1>5. QED
  BY <1>2, <1>3, <1>4, ExecuteDescribeIs

LEMMA VerifyListKnows ==
    ASSUME ClusterInv, ProcInv, NEW o \in Operators, VerifyList(o)
    PROVE  Knows(o)' /\ ReportInv'
<1>1. proc[o].kind = "verify" /\ Shape(proc[o]) /\ part' = part
  BY DEF VerifyList, At, ProcInv, Local
<1>2. proc'[o] = Listed(proc[o], Listing(Active)) /\ report' = None
  BY VerifyListIs DEF GoesOn
<1>3. SameLine(proc[o], proc'[o]) /\ proc'[o].pc = "describe" /\ proc'[o].active = Listing(Active)
  <2>1. ActiveSet(proc[o], proc'[o], Listing(Active))
    BY <1>1, <1>2, ActiveFields
  <2>2. QED
    BY <2>1 DEF ActiveSet
<1>4. Lists(o)'
  BY <1>1, <1>3, ListedKnows
<1>5. Knows(o)'
  BY <1>1, <1>3, <1>4 DEF Knows, BeforeAlter, Throttled, AfterAlter, Verifying, SameLine
<1>6. QED
  BY <1>2, <1>5, NothingReported

LEMMA VerifyDescribeKnows ==
    ASSUME ProcInv, NEW o \in Operators, Knows(o), VerifyDescribe(o)
    PROVE  Knows(o)' /\ ReportInv'
<1>1. proc[o].kind = "verify" /\ proc[o].pc = "describe" /\ Shape(proc[o]) /\ part' = part
  BY DEF VerifyDescribe, At, ProcInv, Local
<1>2. PICK b : b = Incomplete(proc[o].active, Targets(proc[o].file))
  OBVIOUS
<1>3. proc'[o] = Compared(proc[o], b) /\ report' = None
  BY <1>2, VerifyDescribeIs DEF GoesOn
<1>4. /\ SameLine(proc[o], proc'[o]) /\ proc'[o].pc = "findMoves"
      /\ proc'[o].active = proc[o].active /\ proc'[o].failed = b
  <2>1. FailedSet(proc[o], proc'[o], b)
    BY <1>1, <1>3, FailedFields
  <2>2. QED
    BY <2>1 DEF FailedSet
<1>5. Lists(o)
  BY <1>1 DEF Knows, Verifying
<1>6. Lists(o)'
  BY <1>1, <1>4, <1>5 DEF Lists, Active, Moving
<1>7. ~proc'[o].failed => AtRest(o)'
  <2>1. DOMAIN Targets(proc[o].file) = Named(proc[o].file)
    BY DEF Targets
  <2>2. ASSUME ~b, NEW p \in Named(proc[o].file)
        PROVE  p \in Parts /\ ~Moving(p) /\ part[p].replicas = Targets(proc[o].file)[p]
    <3>1. p \notin DOMAIN proc[o].active /\ p \in Parts /\ part[p].replicas = Targets(proc[o].file)[p]
      BY <1>2, <2>1, <2>2 DEF Incomplete
    <3>2. p \notin Active
      BY <1>5, <3>1 DEF Lists
    <3>3. QED
      BY <3>1, <3>2 DEF Active
  <2>3. QED
    BY <1>1, <1>4, <2>2 DEF AtRest, SameLine, Moving
<1>8. Knows(o)'
  BY <1>1, <1>4, <1>6, <1>7 DEF Knows, BeforeAlter, Throttled, AfterAlter, Verifying, SameLine
<1>9. QED
  BY <1>3, <1>8, NothingReported

LEMMA VerifyMovesKnows ==
    ASSUME ProcInv, NEW o \in Operators, Knows(o), VerifyMoves(o)
    PROVE  Knows(o)' /\ ReportInv'
<1>1. /\ proc[o].kind = "verify" /\ proc[o].pc = "findMoves" /\ Shape(proc[o])
      /\ part' = part /\ dir' = dir
  BY DEF VerifyMoves, At, ProcInv, Local
<1>2. Lists(o) /\ (~proc[o].failed => AtRest(o))
  BY <1>1 DEF Knows, Verifying
<1>3. CASE /\ GoesOn(o, [proc[o] EXCEPT !.pc = "clearBrokers"])
           /\ DOMAIN proc[o].active = {} /\ ~Ongoing(o)
  <2>1. proc'[o] = [proc[o] EXCEPT !.pc = "clearBrokers"] /\ report' = None
    BY <1>3 DEF GoesOn
  <2>2. SameLine(proc[o], proc'[o]) /\ proc'[o].pc = "clearBrokers" /\ proc'[o].failed = proc[o].failed
    <3>1. PcSet(proc[o], proc'[o], "clearBrokers")
      BY <1>1, <2>1, PcFields
    <3>2. QED
      BY <3>1 DEF PcSet
  <2>3. Active' = {}
    BY <1>1, <1>2, <1>3 DEF Lists, Active, Moving
  <2>4. (\A r \in DOMAIN LogDirMoves(proc[o].file) : MoveDone(r))'
    BY <1>1, <1>3, <2>2 DEF Ongoing, MoveDone, SameLine
  <2>5. ~proc'[o].failed => AtRest(o)'
    BY <1>1, <1>2, <2>2 DEF AtRest, Moving, SameLine
  <2>6. Knows(o)'
    BY <1>1, <2>2, <2>3, <2>4, <2>5 DEF Knows, BeforeAlter, Throttled, AfterAlter, Verifying, SameLine
  <2>7. QED
    BY <2>1, <2>6, NothingReported
<1>4. CASE /\ Ends(o, IF Ongoing(o) \/ proc[o].failed THEN 1 ELSE 0)
           /\ ~(DOMAIN proc[o].active = {} /\ ~Ongoing(o) /\ ~proc[o].preserve)
  <2>1. PICK code : code = IF Ongoing(o) \/ proc[o].failed THEN 1 ELSE 0
    OBVIOUS
  <2>2. Ends(o, code)
    BY <1>4, <2>1
  <2>3. CASE code # 0
    BY <2>2, <2>3, EndKnows, NoClaim
  <2>4. CASE code = 0
    <3>1. ~Ongoing(o) /\ ~proc[o].failed
      BY <2>1, <2>4, Codes
    <3>2. /\ report'.kind = "verify" /\ report'.file = proc[o].file
          /\ ~report'.clears
      BY <1>1, <1>4, <2>2, <3>1, ReportFields
    <3>3. VerifiedIsSettled'
      BY <1>1, <1>2, <3>1, <3>2 DEF VerifiedIsSettled, AtRest, Ongoing, MoveDone, Moving
    <3>4. VerifiedIsUnthrottled' /\ ExecutedIsUnderWay'
      BY <3>2 DEF VerifiedIsUnthrottled, ExecutedIsUnderWay
    <3>5. QED
      BY <2>2, <3>3, <3>4, EndKnows DEF ReportInv
  <2>5. QED
    BY <2>3, <2>4
<1>5. QED
  BY <1>3, <1>4, VerifyMovesIs

LEMMA PromptKnows ==
    ASSUME ProcInv, NEW o \in Operators, Knows(o), Prompt(o)
    PROVE  Knows(o)' /\ ReportInv'
<1>1. CASE \E code \in {130, 2} : Ends(o, code)
  BY <1>1, Codes, EndKnows, NoClaim
<1>2. CASE proc[o].kind = "cancel" /\ Ends(o, 0)
  BY <1>2, EndKnows, NoClaim
<1>3. CASE MovesOn(o, AfterPrompt(proc[o]))
  <2>1. /\ SameLine(proc[o], proc'[o]) /\ proc'[o].pc = AfterPrompt(proc[o])
        /\ proc'[o].active = proc[o].active /\ proc'[o].current = proc[o].current
        /\ report' = None
    BY <1>3 DEF MovesOn, GoesOn
  <2>2. proc[o].kind \in {"cancel", "execute"} /\ proc[o].pc = "prompt" /\ part' = part
    BY DEF Prompt, ProcInv, Local, Stands
  <2>3. CASE proc[o].kind = "cancel"
    BY <2>1, <2>3, CancelKnows, NothingReported DEF SameLine
  <2>4. CASE proc[o].kind = "execute"
    <3>1. /\ proc'[o].pc \in {"throttleTopics", "throttleDirs", "alter"}
          /\ proc'[o].pc = "throttleTopics" <=> "interBroker" \in proc[o].rates
      BY <2>1, <2>4 DEF AfterPrompt, AfterRates
    <3>2. BeforeAlter(o)'
      <4>1. BeforeAlter(o)
        BY DEF Knows
      <4>2. Lists(o) => Lists(o)'
        BY <2>1, <2>2 DEF Lists, Active, Moving
      <4>3. QED
        BY <2>1, <2>2, <2>4, <4>1, <4>2 DEF BeforeAlter, SameLine
    <3>3. Throttled(o)'
      BY <2>1, <3>1 DEF Throttled, SameLine
    <3>4. AfterAlter(o)' /\ Verifying(o)'
      BY <2>1, <2>4, <3>1 DEF AfterAlter, Verifying, SameLine
    <3>5. QED
      BY <2>1, <3>2, <3>3, <3>4, NothingReported DEF Knows
  <2>5. QED
    BY <2>2, <2>3, <2>4
<1>4. QED
  BY <1>1, <1>2, <1>3, PromptIs

LEMMA FailKnows ==
    ASSUME NEW o \in Operators, NEW code, Ends(o, code), code # 0
    PROVE  Knows(o)' /\ ReportInv'
  BY EndKnows, NoClaim

LEMMA DeadlineKnows ==
    ASSUME ProcInv, NEW o \in Operators, Knows(o), Deadline(o)
    PROVE  Knows(o)' /\ ReportInv'
<1>1. MovesOn(o, "moves")
  BY DeadlineIs
<1>2. /\ SameLine(proc[o], proc'[o]) /\ proc'[o].pc = "moves" /\ proc'[o].moves = proc[o].moves
      /\ report' = None
  BY <1>1 DEF MovesOn, GoesOn
<1>3. proc[o].pc = "moves" /\ part' = part /\ dir' = dir
  BY DEF Deadline
<1>4. proc[o].kind # "verify"
  BY <1>3 DEF ProcInv, Local, Stands
<1>5. AfterAlter(o)'
  BY <1>2, <1>3 DEF Knows, AfterAlter, OnTheirWay, Bound, SameLine
<1>6. Knows(o)'
  BY <1>2, <1>4, <1>5 DEF Knows, BeforeAlter, Throttled, Verifying, SameLine
<1>7. QED
  BY <1>2, <1>6, NothingReported

-----------------------------------------------------------------------------
(* One operator at a time: the throttles. *)

LEMMA CoverKept ==
    ASSUME ThrottledWhileMoving, UNCHANGED <<part, throttle, marks>>
    PROVE  ThrottledWhileMoving'
  BY DEF ThrottledWhileMoving, Moving, LeaderCovered, FollowerCovered, Origin

\* Which replicas a move throttles.
LEMMA ThrottlesOf ==
    ASSUME NEW mm, NEW p \in DOMAIN mm
    PROVE  /\ {p} \X mm[p].sources \subseteq LeaderThrottles(mm)
           /\ {p} \X (mm[p].destinations \ mm[p].sources) \subseteq FollowerThrottles(mm)
           /\ mm[p].sources \subseteq MovingBrokers(mm) /\ mm[p].destinations \subseteq MovingBrokers(mm)
  BY DEF LeaderThrottles, FollowerThrottles, MovingBrokers

LEMMA ThrottledParts ==
    ASSUME NEW mm
    PROVE  \A x \in LeaderThrottles(mm) \cup FollowerThrottles(mm) : x[1] \in DOMAIN mm
<1>1. ASSUME NEW x \in LeaderThrottles(mm) PROVE x[1] \in DOMAIN mm
  BY SMTT(20), <1>1 DEF LeaderThrottles
<1>2. ASSUME NEW x \in FollowerThrottles(mm) PROVE x[1] \in DOMAIN mm
  BY SMTT(20), <1>2 DEF FollowerThrottles
<1>3. QED
  BY <1>1, <1>2

\* The moves of a partition whose listing is up to date are those that the
\* controller will make.
LEMMA MovesAre ==
    ASSUME ClusterInv, ProcInv, NEW o \in Operators, proc[o].kind = "execute",
           proc[o].pc \notin {"list", "describe", "moves"}, BeforeAlter(o),
           NEW p \in DOMAIN Moves(o), p \in DOMAIN proc[o].active <=> Moving(p)
    PROVE  /\ Moves(o)[p].sources = Range(Origin(p))
           /\ Moves(o)[p].destinations \ Moves(o)[p].sources =
                 IF p \in Named(proc[o].file) THEN Range(Targets(proc[o].file)[p]) \ Range(Origin(p))
                 ELSE part[p].adding
<1> DEFINE a == proc[o].active
           t == Targets(proc[o].file)
           mm == Moves(o)
<1>1. IsMoveMap(mm, a, t, proc[o].current)
  BY MoveMapIs DEF Moves
<1>2. DOMAIN t = Named(proc[o].file)
  BY DEF Targets
<1>3. p \in Parts
  BY MovesInCluster
<1>4. Whole(part[p]) /\ Range(Origin(p)) = Range(part[p].replicas) \ part[p].adding
  BY <1>3, OriginFacts DEF ClusterInv
<1>5. mm[p].sources = Range(Origin(p))
  <2>1. CASE Moving(p)
    <3>1. p \in Active
      BY <1>3, <2>1 DEF Active
    <3>2. a[p].replicas = part[p].replicas /\ a[p].adding = part[p].adding
      BY <3>1 DEF BeforeAlter, Lists
    <3>3. QED
      BY <1>1, <1>4, <2>1, <3>2 DEF IsMoveMap
  <2>2. CASE ~Moving(p)
    <3>1. p \notin DOMAIN a /\ p \in Named(proc[o].file)
      BY <1>1, <1>2, <2>2 DEF IsMoveMap
    <3>2. proc[o].current[p] = part[p].replicas
      BY <3>1 DEF BeforeAlter
    <3>3. part[p].adding = {}
      BY <2>2 DEF Moving
    <3>4. QED
      BY <1>1, <1>4, <3>1, <3>2, <3>3 DEF IsMoveMap
  <2>3. QED
    BY <2>1, <2>2
<1>6. CASE p \in Named(proc[o].file)
  <2>1. mm[p].destinations = Range(t[p]) \ mm[p].sources
    BY <1>1, <1>2, <1>6 DEF IsMoveMap
  <2>2. QED
    BY <1>5, <1>6, <2>1
<1>7. CASE p \notin Named(proc[o].file)
  <2>1. p \in DOMAIN a
    BY <1>1, <1>2, <1>7 DEF IsMoveMap
  <2>2. p \in Active
    BY <1>3, <2>1 DEF Active
  <2>3. mm[p].destinations = part[p].adding
    BY <1>1, <1>2, <1>7, <2>2 DEF IsMoveMap, BeforeAlter, Lists
  <2>4. QED
    BY <1>4, <1>5, <1>7, <2>3
<1>8. QED
  BY <1>5, <1>6, <1>7

\* A partition on the move is among the moves.
LEMMA MovingIsMoved ==
    ASSUME ProcInv, NEW o \in Operators, proc[o].kind = "execute",
           proc[o].pc \notin {"list", "describe", "moves"}, BeforeAlter(o),
           NEW p \in Parts, Moving(p)
    PROVE  p \in DOMAIN Moves(o) /\ p \in DOMAIN proc[o].active
<1>1. p \in Active
  BY DEF Active
<1>2. p \in DOMAIN proc[o].active
  BY <1>1 DEF BeforeAlter, Lists
<1>3. QED
  BY <1>2, MovesInCluster

LEMMA SameMoves ==
    ASSUME NEW o \in Operators, NEW l, MovesOn(o, l)
    PROVE  Moves(o)' = Moves(o)
  BY DEF MovesOn, SameLine, Moves

\* An --execute that goes on, short of its write.
LEMMA StillBefore ==
    ASSUME ProcInv, NEW o \in Operators, NEW l, MovesOn(o, l), proc[o].kind = "execute",
           l \in {"throttleBrokers", "throttleDirs", "alter"},
           proc[o].pc \in {"throttleTopics", "throttleBrokers", "throttleDirs"},
           BeforeAlter(o), part' = part
    PROVE  BeforeAlter(o)' /\ AfterAlter(o)' /\ Verifying(o)' /\ ReportInv'
<1>1. /\ SameLine(proc[o], proc'[o]) /\ proc'[o].pc = l /\ report' = None
      /\ proc'[o].active = proc[o].active /\ proc'[o].current = proc[o].current
  BY DEF MovesOn, GoesOn
<1>2. Lists(o)'
  BY <1>1 DEF Lists, BeforeAlter, Active, Moving
<1>3. BeforeAlter(o)'
  BY <1>1, <1>2 DEF BeforeAlter, SameLine
<1>4. QED
  BY <1>1, <1>3, NothingReported DEF AfterAlter, Verifying, SameLine

LEMMA ThrottleTopicsKnows ==
    ASSUME ClusterInv, ProcInv, NEW o \in Operators, Knows(o), ThrottledWhileMoving, ThrottleTopics(o)
    PROVE  Knows(o)' /\ ReportInv' /\ ThrottledWhileMoving'
<1> DEFINE lt == LeaderThrottles(Moves(o))
           ft == FollowerThrottles(Moves(o))
           topics == Topics(DOMAIN Moves(o))
           named == Named(proc[o].file)
<1>1. /\ proc[o].pc = "throttleTopics" /\ part' = part
      /\ marks' = [p \in Parts |-> IF p \in named /\ marks[p] = "both" THEN "leaders" ELSE marks[p]]
  BY DEF ThrottleTopics
<1>2. proc[o].kind = "execute" /\ BeforeAlter(o)
  BY <1>1 DEF ProcInv, Local, Stands, Knows
<1>3. PICK done : /\ throttle' = [throttle EXCEPT !.leader = Replaced(@, lt, done),
                                                  !.follower = Replaced(@, ft, done)]
                  /\ Written(o, done, topics, "throttleBrokers")
  BY DEF ThrottleTopics
<1>4. /\ throttle'.leader = Replaced(throttle.leader, lt, done)
      /\ throttle'.follower = Replaced(throttle.follower, ft, done)
      /\ throttle'.rate = throttle.rate
  BY <1>3, ThrottleTopicsWrites
<1> HIDE DEF lt, ft, topics
<1>5. ThrottledWhileMoving'
  <2> SUFFICES ASSUME NEW p \in Parts, Moving(p)
               PROVE  /\ marks'[p] \in {"leaders", "both"} => LeaderCovered(p)'
                      /\ marks'[p] = "both" => FollowerCovered(p)'
    BY <1>1 DEF ThrottledWhileMoving, Moving
  <2>1. p \in DOMAIN Moves(o) /\ p \in DOMAIN proc[o].active
    BY <1>1, <1>2, MovingIsMoved
  <2>2. /\ Moves(o)[p].sources = Range(Origin(p))
        /\ p \notin named => Moves(o)[p].destinations \ Moves(o)[p].sources = part[p].adding
    BY <1>1, <1>2, <2>1, MovesAre
  <2>3. /\ {p} \X Range(Origin(p)) \subseteq lt
        /\ p \notin named => {p} \X part[p].adding \subseteq ft
    BY <2>1, <2>2, ThrottlesOf DEF lt, ft
  <2>4. Origin(p)' = Origin(p) /\ part'[p] = part[p]
    BY <1>1 DEF Origin
  <2>5. ASSUME marks'[p] \in {"leaders", "both"} PROVE LeaderCovered(p)'
    <3>1. LeaderCovered(p)
      BY <1>1, <2>5 DEF ThrottledWhileMoving
    <3>2. {p} \X Range(Origin(p)) \subseteq throttle'.leader
      BY <1>4, <2>3, <3>1 DEF LeaderCovered, Replaced
    <3>3. QED
      BY <1>4, <2>4, <3>1, <3>2 DEF LeaderCovered
  <2>6. ASSUME marks'[p] = "both" PROVE FollowerCovered(p)'
    <3>1. FollowerCovered(p) /\ p \notin named
      BY <1>1, <2>6 DEF ThrottledWhileMoving
    <3>2. {p} \X part[p].adding \subseteq throttle'.follower
      BY <1>4, <2>3, <3>1 DEF FollowerCovered, Replaced
    <3>3. QED
      BY <1>4, <2>4, <3>1, <3>2 DEF FollowerCovered
  <2>7. QED
    BY <2>5, <2>6
<1>6. CASE Ends(o, 1)
  BY <1>5, <1>6, Codes, FailKnows
<1>7. CASE done = topics /\ MovesOn(o, "throttleBrokers")
  <2>1. /\ SameLine(proc[o], proc'[o]) /\ proc'[o].pc = "throttleBrokers"
        /\ Moves(o)' = Moves(o)
    BY <1>7, SameMoves DEF MovesOn
  <2>2. BeforeAlter(o)' /\ AfterAlter(o)' /\ Verifying(o)' /\ ReportInv'
    BY <1>1, <1>2, <1>7, StillBefore
  <2>3. \A x \in lt \cup ft : TopicOf[x[1]] \in topics
    BY ThrottledParts DEF lt, ft, topics, Topics
  <2>4. lt \subseteq throttle'.leader /\ ft \subseteq throttle'.follower
    BY <1>4, <1>7, <2>3 DEF Replaced
  <2>5. LeaderThrottles(Moves(o))' = lt /\ FollowerThrottles(Moves(o))' = ft
    BY <2>1 DEF lt, ft
  <2>6. "interBroker" \in proc[o].rates
    BY <1>1, <1>2 DEF Knows, Throttled
  <2>7. Throttled(o)'
    BY <2>1, <2>4, <2>5, <2>6 DEF Throttled, SameLine
  <2>8. QED
    BY <1>5, <2>2, <2>7 DEF Knows
<1>8. QED
  BY <1>1, <1>3, <1>6, <1>7, ThrottleTopicsIs

\* Throttles that only grow cover what they covered.
LEMMA CoverGrows ==
    ASSUME ThrottledWhileMoving, part' = part, marks' = marks,
           throttle'.leader = throttle.leader, throttle'.follower = throttle.follower,
           throttle.rate \subseteq throttle'.rate
    PROVE  ThrottledWhileMoving'
<1> SUFFICES ASSUME NEW p \in Parts, Moving(p)
             PROVE  /\ marks[p] \in {"leaders", "both"} => LeaderCovered(p)'
                    /\ marks[p] = "both" => FollowerCovered(p)'
  BY DEF ThrottledWhileMoving, Moving
<1>1. Origin(p)' = Origin(p)
  BY DEF Origin
<1>2. LeaderCovered(p) => LeaderCovered(p)'
  BY <1>1 DEF LeaderCovered
<1>3. FollowerCovered(p) => FollowerCovered(p)'
  BY DEF FollowerCovered
<1>4. QED
  BY <1>2, <1>3 DEF ThrottledWhileMoving

LEMMA ThrottleBrokersKnows ==
    ASSUME ClusterInv, ProcInv, NEW o \in Operators, Knows(o), ThrottledWhileMoving, ThrottleBrokers(o)
    PROVE  Knows(o)' /\ ReportInv' /\ ThrottledWhileMoving'
<1> DEFINE brokers == MovingBrokers(Moves(o))
<1>1. proc[o].pc = "throttleBrokers" /\ part' = part /\ marks' = marks
  BY DEF ThrottleBrokers
<1>2. proc[o].kind = "execute" /\ BeforeAlter(o) /\ Throttled(o)
  BY <1>1 DEF ProcInv, Local, Stands, Knows
<1>3. PICK done : /\ throttle' = [throttle EXCEPT !.rate = @ \cup done]
                  /\ Written(o, done, brokers, AfterRates(proc[o]))
  BY DEF ThrottleBrokers
<1>4. /\ throttle'.leader = throttle.leader /\ throttle'.follower = throttle.follower
      /\ throttle'.rate = throttle.rate \cup done
  BY <1>3, ThrottleFields DEF ClusterInv
<1>5. ThrottledWhileMoving'
  BY <1>1, <1>4, CoverGrows
<1>6. CASE Ends(o, 1)
  BY <1>5, <1>6, Codes, FailKnows
<1>7. CASE done = brokers /\ MovesOn(o, AfterRates(proc[o]))
  <2>1. /\ SameLine(proc[o], proc'[o]) /\ proc'[o].pc = AfterRates(proc[o])
        /\ Moves(o)' = Moves(o)
    BY <1>7, SameMoves DEF MovesOn
  <2>2. AfterRates(proc[o]) \in {"throttleDirs", "alter"}
    BY DEF AfterRates
  <2>3. BeforeAlter(o)' /\ AfterAlter(o)' /\ Verifying(o)' /\ ReportInv'
    BY <1>1, <1>2, <1>7, <2>2, StillBefore
  <2>4. /\ "interBroker" \in proc[o].rates
        /\ LeaderThrottles(Moves(o)) \subseteq throttle.leader
        /\ FollowerThrottles(Moves(o)) \subseteq throttle.follower
    BY <1>1, <1>2 DEF Throttled
  <2>5. /\ LeaderThrottles(Moves(o))' \subseteq throttle'.leader
        /\ FollowerThrottles(Moves(o))' \subseteq throttle'.follower
        /\ MovingBrokers(Moves(o))' \subseteq throttle'.rate
    BY <1>4, <1>7, <2>1, <2>4
  <2>6. Throttled(o)'
    BY <2>1, <2>2, <2>4, <2>5 DEF Throttled, SameLine
  <2>7. QED
    BY <1>5, <2>3, <2>6 DEF Knows
<1>8. QED
  BY <1>1, <1>3, <1>6, <1>7, ThrottleBrokersIs

LEMMA ThrottleDirsKnows ==
    ASSUME ClusterInv, ProcInv, NEW o \in Operators, Knows(o), ThrottledWhileMoving, ThrottleDirs(o)
    PROVE  Knows(o)' /\ ReportInv' /\ ThrottledWhileMoving'
<1> DEFINE brokers == {r[2] : r \in DOMAIN proc[o].moves}
<1>1. proc[o].pc = "throttleDirs" /\ part' = part /\ marks' = marks
  BY DEF ThrottleDirs
<1>2. proc[o].kind = "execute" /\ BeforeAlter(o) /\ Throttled(o)
  BY <1>1 DEF ProcInv, Local, Stands, Knows
<1>3. PICK done : /\ throttle' = [throttle EXCEPT !.dirRate = @ \cup done]
                  /\ Written(o, done, brokers, "alter")
  BY DEF ThrottleDirs
<1>4. /\ throttle'.leader = throttle.leader /\ throttle'.follower = throttle.follower
      /\ throttle'.rate = throttle.rate
  BY <1>3, ThrottleFields DEF ClusterInv
<1>5. ThrottledWhileMoving'
  BY <1>1, <1>4, CoverGrows
<1>6. CASE Ends(o, 1)
  BY <1>5, <1>6, Codes, FailKnows
<1>7. CASE MovesOn(o, "alter")
  <2>1. /\ SameLine(proc[o], proc'[o]) /\ proc'[o].pc = "alter"
        /\ Moves(o)' = Moves(o)
    BY <1>7, SameMoves DEF MovesOn
  <2>2. BeforeAlter(o)' /\ AfterAlter(o)' /\ Verifying(o)' /\ ReportInv'
    BY <1>1, <1>2, <1>7, StillBefore
  <2>3. "interBroker" \in proc[o].rates =>
           /\ LeaderThrottles(Moves(o))' \subseteq throttle'.leader
           /\ FollowerThrottles(Moves(o))' \subseteq throttle'.follower
           /\ MovingBrokers(Moves(o))' \subseteq throttle'.rate
    BY <1>1, <1>2, <1>4, <2>1 DEF Throttled
  <2>4. Throttled(o)'
    BY <2>1, <2>3 DEF Throttled, SameLine
  <2>5. QED
    BY <1>5, <2>2, <2>4 DEF Knows
<1>8. QED
  BY <1>1, <1>3, <1>6, <1>7, ThrottleDirsIs

-----------------------------------------------------------------------------
(* One operator at a time: the reassignments and the log dir moves. *)

\* A partition that a step leaves alone stays throttled as it was.
LEMMA CoverUntouched ==
    ASSUME ThrottledWhileMoving, NEW p \in Parts, Moving(p)',
           part'[p] = part[p], marks'[p] = marks[p], throttle' = throttle
    PROVE  /\ marks'[p] \in {"leaders", "both"} => LeaderCovered(p)'
           /\ marks'[p] = "both" => FollowerCovered(p)'
<1>1. Moving(p) /\ Origin(p)' = Origin(p)
  BY DEF Moving, Origin
<1>2. (LeaderCovered(p) => LeaderCovered(p)') /\ (FollowerCovered(p) => FollowerCovered(p)')
  BY <1>1 DEF LeaderCovered, FollowerCovered
<1>3. QED
  BY <1>1, <1>2 DEF ThrottledWhileMoving

\* Every partition that an --execute put on the move is on its way to its
\* target, and is throttled as it was announced.
LEMMA Accepted ==
    ASSUME ClusterInv, ProcInv, NEW o \in Operators, Knows(o), At(o, "execute", "alter"),
           NEW p \in Named(proc[o].file),
           part'[p] = Reassigned(p, Targets(proc[o].file)[p]),
           marks'[p] = Mark(proc[o], p), throttle' = throttle
    PROVE  /\ Without(part'[p].replicas, part'[p].removing) = Targets(proc[o].file)[p]
           /\ marks'[p] \in {"leaders", "both"} => LeaderCovered(p)' /\ FollowerCovered(p)'
<1> DEFINE mm == Moves(o)
<1>1. /\ Local(proc[o]) /\ proc[o].kind = "execute" /\ proc[o].pc = "alter"
      /\ BeforeAlter(o) /\ Throttled(o)
  BY DEF At, ProcInv, Knows
<1>2. Executable(proc[o].file)
  BY <1>1 DEF Local, Executing
<1>3. PICK target : target = Targets(proc[o].file)[p]
  OBVIOUS
<1>4. target \in Seq(Nodes) /\ NoDuplicates(target) /\ p \in Parts
  BY <1>2, <1>3 DEF Executable
<1>5. Whole(part[p])
  BY <1>4 DEF ClusterInv
<1>6. PICK x : x = Reassigned(p, target)
  OBVIOUS
<1>7. part'[p] = x
  BY <1>3, <1>6
<1>8. /\ x.adding = Range(target) \ Range(Origin(p))
      /\ Range(Without(x.replicas, x.adding)) = Range(Origin(p))
      /\ Without(x.replicas, x.removing) = target
  BY <1>4, <1>5, <1>6, ReassignedFacts
<1>9. Range(Origin(p))' = Range(Origin(p))
  BY <1>7, <1>8 DEF Origin
<1>10. ASSUME marks'[p] \in {"leaders", "both"}
       PROVE  LeaderCovered(p)' /\ FollowerCovered(p)'
  <2>1. "interBroker" \in proc[o].rates /\ (p \in DOMAIN proc[o].active <=> Moving(p))
    BY <1>10 DEF Mark
  <2>2. p \in DOMAIN mm
    BY <1>1, MovesInCluster
  <2>3. /\ mm[p].sources = Range(Origin(p))
        /\ mm[p].destinations \ mm[p].sources = x.adding
    BY <1>1, <1>3, <1>8, <2>1, <2>2, MovesAre
  <2>4. /\ LeaderThrottles(mm) \subseteq throttle.leader
        /\ FollowerThrottles(mm) \subseteq throttle.follower
        /\ MovingBrokers(mm) \subseteq throttle.rate
    BY <1>1, <2>1 DEF Throttled
  <2> HIDE DEF mm
  <2>5. /\ {p} \X Range(Origin(p)) \subseteq throttle.leader
        /\ {p} \X x.adding \subseteq throttle.follower
        /\ Range(Origin(p)) \subseteq throttle.rate
        /\ x.adding \subseteq throttle.rate
    BY <2>2, <2>3, <2>4, ThrottlesOf
  <2>6. LeaderCovered(p)'
    BY <1>9, <2>5 DEF LeaderCovered
  <2>7. FollowerCovered(p)'
    BY <1>7, <2>5 DEF FollowerCovered
  <2>8. QED
    BY <2>6, <2>7
<1>11. QED
  BY <1>3, <1>7, <1>8, <1>10

LEMMA AlterExecuteKnows ==
    ASSUME ClusterInv, ProcInv, NEW o \in Operators, Knows(o), ThrottledWhileMoving, AlterExecute(o)
    PROVE  Knows(o)' /\ ReportInv' /\ ThrottledWhileMoving'
<1> DEFINE t == Targets(proc[o].file)
           named == Named(proc[o].file)
<1>1. PICK accepted \in SUBSET DOMAIN t :
        /\ part' = [p \in Parts |-> IF p \in accepted THEN Reassigned(p, t[p]) ELSE part[p]]
        /\ marks' = [p \in Parts |-> IF p \in accepted THEN Mark(proc[o], p) ELSE marks[p]]
        /\ Written(o, accepted, DOMAIN t, AfterReassign(proc[o]))
  BY DEF AlterExecute
<1>2. /\ At(o, "execute", "alter") /\ proc[o].kind = "execute" /\ proc[o].pc = "alter"
      /\ Local(proc[o]) /\ throttle' = throttle
  BY DEF AlterExecute, At, ProcInv
<1>3. /\ named \subseteq Parts /\ DOMAIN t = named
      /\ DOMAIN proc[o].moves = DOMAIN LogDirMoves(proc[o].file)
  BY <1>2 DEF Local, Executing, Executable, Targets
<1>4. ASSUME NEW p \in accepted
      PROVE  /\ Without(part'[p].replicas, part'[p].removing) = t[p]
             /\ marks'[p] \in {"leaders", "both"} => LeaderCovered(p)' /\ FollowerCovered(p)'
  <2>1. p \in named /\ part'[p] = Reassigned(p, t[p]) /\ marks'[p] = Mark(proc[o], p)
    BY <1>1, <1>3
  <2>2. QED
    BY <1>2, <2>1, Accepted
<1>5. ThrottledWhileMoving'
  <2> SUFFICES ASSUME NEW p \in Parts, Moving(p)'
               PROVE  /\ marks'[p] \in {"leaders", "both"} => LeaderCovered(p)'
                      /\ marks'[p] = "both" => FollowerCovered(p)'
    BY DEF ThrottledWhileMoving
  <2>1. CASE p \in accepted
    BY <1>4, <2>1
  <2>2. CASE p \notin accepted
    <3>1. part'[p] = part[p] /\ marks'[p] = marks[p]
      BY <1>1, <2>2
    <3>2. QED
      BY <1>2, <3>1, CoverUntouched
  <2>3. QED
    BY <2>1, <2>2
<1>6. CASE Ends(o, 1)
  BY <1>5, <1>6, Codes, FailKnows
<1>7. CASE accepted = DOMAIN t /\ DOMAIN proc[o].moves = {} /\ Ends(o, 0)
  <2>1. report'.kind = "execute" /\ report'.file = proc[o].file
    BY <1>2, <1>7, ReportFields
  <2>2. \A p \in named : Without(part'[p].replicas, part'[p].removing) = t[p]
    BY <1>3, <1>4, <1>7
  <2>3. ExecutedIsUnderWay'
    BY <1>3, <1>7, <2>1, <2>2 DEF ExecutedIsUnderWay
  <2>4. VerifiedIsSettled' /\ VerifiedIsUnthrottled'
    BY <2>1 DEF VerifiedIsSettled, VerifiedIsUnthrottled
  <2>5. QED
    BY <1>5, <1>7, <2>3, <2>4, EndKnows DEF ReportInv
<1>8. CASE /\ accepted = DOMAIN t
           /\ MovesOn(o, AfterReassign(proc[o])) /\ AfterReassign(proc[o]) = "moves"
  <2>1. /\ SameLine(proc[o], proc'[o]) /\ proc'[o].pc = "moves" /\ report' = None
        /\ proc'[o].moves = proc[o].moves
    BY <1>8 DEF MovesOn, GoesOn
  <2>2. OnTheirWay(o)'
    BY <1>3, <1>4, <1>8, <2>1 DEF OnTheirWay, SameLine
  <2>3. AfterAlter(o)'
    BY <1>3, <2>1, <2>2 DEF AfterAlter, SameLine
  <2>4. Knows(o)'
    BY <1>2, <2>1, <2>3 DEF Knows, BeforeAlter, Throttled, Verifying, SameLine
  <2>5. QED
    BY <1>5, <2>1, <2>4, NothingReported
<1>9. QED
  BY <1>1, <1>2, <1>6, <1>7, <1>8, AlterIs

LEMMA AlterCancelKnows ==
    ASSUME ClusterInv, ProcInv, NEW o \in Operators, ThrottledWhileMoving, AlterCancel(o)
    PROVE  Knows(o)' /\ ReportInv' /\ ThrottledWhileMoving'
<1>1. PICK accepted :
        /\ part' = [p \in Parts |-> IF p \in accepted THEN Reverted(p) ELSE part[p]]
        /\ marks' = [p \in Parts |-> IF p \in accepted THEN "none" ELSE marks[p]]
        /\ Written(o, accepted, proc[o].reassigning, AfterReassign(proc[o]))
  BY DEF AlterCancel
<1>2. proc[o].kind = "cancel" /\ proc[o].pc = "alter" /\ throttle' = throttle
  BY DEF AlterCancel, At
<1>3. ThrottledWhileMoving'
  <2> SUFFICES ASSUME NEW p \in Parts, Moving(p)'
               PROVE  /\ marks'[p] \in {"leaders", "both"} => LeaderCovered(p)'
                      /\ marks'[p] = "both" => FollowerCovered(p)'
    BY DEF ThrottledWhileMoving
  <2>1. CASE p \in accepted
    BY <1>1, <2>1
  <2>2. CASE p \notin accepted
    <3>1. part'[p] = part[p] /\ marks'[p] = marks[p]
      BY <1>1, <2>2
    <3>2. QED
      BY <1>2, <3>1, CoverUntouched
  <2>3. QED
    BY <2>1, <2>2
<1>4. CASE Ends(o, 1) \/ Ends(o, 0)
  BY <1>2, <1>3, <1>4, EndKnows, NoClaim
<1>5. CASE MovesOn(o, AfterReassign(proc[o]))
  <2>1. proc'[o].kind = "cancel" /\ report' = None
    BY <1>2, <1>5 DEF MovesOn, GoesOn, SameLine
  <2>2. QED
    BY <1>3, <2>1, CancelKnows, NothingReported
<1>6. QED
  BY <1>1, <1>2, <1>4, <1>5, AlterIs

\* A replica that a round has started to move, or an earlier one, is bound for
\* its log dir.
LEMMA StartedBound ==
    ASSUME ClusterInv, ProcInv, NEW o \in Operators, At(o, "execute", "moves"), AfterAlter(o),
           NEW started \in SUBSET Here(o),
           dir' = [r \in Replicas |-> IF r \in started THEN MoveTo(r, proc[o].moves[r]) ELSE dir[r]],
           NEW r \in DOMAIN LogDirMoves(proc[o].file), r \notin DOMAIN proc[o].moves \ started
    PROVE  IF dir'[r].to = None THEN dir'[r].at = LogDirMoves(proc[o].file)[r]
           ELSE dir'[r].to = LogDirMoves(proc[o].file)[r]
<1>1. Local(proc[o]) /\ proc[o].kind = "execute" /\ proc[o].pc = "moves"
  BY DEF ProcInv, At
<1>2. proc[o].file \in Files \cup {<<>>} /\ Executable(proc[o].file)
  BY <1>1 DEF Local, Read, Executing
<1>3. r \in Replicas
  BY <1>2, MovesFacts
<1>4. PICK d : d = LogDirMoves(proc[o].file)[r]
  OBVIOUS
<1>5. d \in Dirs
  BY <1>2, <1>4, ExecutableMoves DEF Executable
<1>6. CASE r \in started
  <2>1. r \in DOMAIN proc[o].moves
    BY <1>6 DEF Here
  <2>2. proc[o].moves[r] = d
    BY <1>1, <1>4, <2>1 DEF Local, Executing
  <2>3. dir'[r] = MoveTo(r, d)
    BY <1>3, <1>6, <2>2
  <2>4. dir'[r].at = dir[r].at /\ dir'[r].to = IF dir[r].at = d THEN None ELSE d
    <3>1. /\ MoveTo(r, d).at = dir[r].at
          /\ MoveTo(r, d).to = IF dir[r].at = d THEN None ELSE d
      BY <1>3, <1>5, MoveToFacts
    <3>2. QED
      BY <2>3, <3>1
  <2>5. d # None
    BY <1>5, ClusterIsThere
  <2>6. QED
    BY <1>4, <2>4, <2>5
<1>7. CASE r \notin started
  <2>1. dir'[r] = dir[r]
    BY <1>3, <1>7
  <2>2. Bound(o, r)
    BY <1>1, <1>7 DEF AfterAlter
  <2>3. QED
    BY <2>1, <2>2 DEF Bound
<1>8. QED
  BY <1>6, <1>7

LEMMA StartMovesKnows ==
    ASSUME ClusterInv, ProcInv, NEW o \in Operators, Knows(o), StartMoves(o)
    PROVE  Knows(o)' /\ ReportInv'
<1> DEFINE f == proc[o].file
<1>1. proc[o].pc = "moves" /\ part' = part /\ proc[o].kind \in {"cancel", "execute"}
  BY DEF StartMoves, ProcInv, Local, Stands
<1>2. PICK started \in SUBSET Here(o) :
        /\ dir' = [r \in Replicas |-> IF r \in started THEN MoveTo(r, proc[o].moves[r])
                                      ELSE dir[r]]
        /\ \/ Ends(o, 1)
           \/ DOMAIN proc[o].moves \ started = {} /\ Ends(o, 0)
           \/ /\ GoesOn(o, proc'[o]) /\ Local(proc'[o])
              /\ SameLine(proc[o], proc'[o])
              /\ proc[o].kind = "execute" => proc'[o].pc = "moves"
              /\ DOMAIN proc'[o].moves = DOMAIN proc[o].moves \ started
  BY StartMovesIs
<1>3. CASE proc[o].kind = "cancel"
  <2>1. CASE Ends(o, 1) \/ Ends(o, 0)
    BY <1>3, <2>1, EndKnows, NoClaim
  <2>2. CASE GoesOn(o, proc'[o]) /\ SameLine(proc[o], proc'[o])
    BY <1>3, <2>2, CancelKnows, NothingReported DEF GoesOn, SameLine
  <2>3. QED
    BY <1>2, <2>1, <2>2
<1>4. CASE proc[o].kind = "execute"
  <2>1. At(o, "execute", "moves") /\ AfterAlter(o) /\ OnTheirWay(o)
    BY <1>1, <1>4 DEF At, Knows, AfterAlter
  <2>2. \A r \in DOMAIN LogDirMoves(f) : r \notin DOMAIN proc[o].moves \ started =>
           IF dir'[r].to = None THEN dir'[r].at = LogDirMoves(f)[r]
           ELSE dir'[r].to = LogDirMoves(f)[r]
    BY <1>2, <2>1, StartedBound
  <2>3. CASE Ends(o, 1)
    BY <2>3, Codes, FailKnows
  <2>4. CASE DOMAIN proc[o].moves \ started = {} /\ Ends(o, 0)
    <3>1. report'.kind = "execute" /\ report'.file = f
      BY <1>4, <2>4, ReportFields
    <3>2. \A p \in Named(f) : Without(part'[p].replicas, part'[p].removing) = Targets(f)[p]
      BY <1>1, <2>1 DEF OnTheirWay
    <3>3. \A r \in DOMAIN LogDirMoves(f) : LogDirMoves(f)[r] \in {dir'[r].at, dir'[r].to}
      BY <2>2, <2>4
    <3>4. ExecutedIsUnderWay'
      BY <3>1, <3>2, <3>3 DEF ExecutedIsUnderWay
    <3>5. VerifiedIsSettled' /\ VerifiedIsUnthrottled'
      BY <3>1 DEF VerifiedIsSettled, VerifiedIsUnthrottled
    <3>6. QED
      BY <2>4, <3>4, <3>5, EndKnows DEF ReportInv
  <2>5. CASE /\ GoesOn(o, proc'[o]) /\ SameLine(proc[o], proc'[o]) /\ proc'[o].pc = "moves"
             /\ DOMAIN proc'[o].moves = DOMAIN proc[o].moves \ started
    <3>1. OnTheirWay(o)'
      BY <1>1, <2>1, <2>5 DEF OnTheirWay, SameLine
    <3>2. \A r \in DOMAIN LogDirMoves(f) : r \notin DOMAIN proc'[o].moves => Bound(o, r)'
      BY <2>2, <2>5 DEF Bound, SameLine
    <3>3. AfterAlter(o)'
      BY <2>5, <3>1, <3>2 DEF AfterAlter, SameLine
    <3>4. Knows(o)'
      BY <1>4, <2>5, <3>3 DEF Knows, BeforeAlter, Throttled, Verifying, SameLine
    <3>5. QED
      BY <2>5, <3>4, NothingReported DEF GoesOn
  <2>6. QED
    BY <1>2, <1>4, <2>3, <2>4, <2>5
<1>5. QED
  BY <1>1, <1>3, <1>4

-----------------------------------------------------------------------------
(* One operator at a time: the throttles are cleared. *)

\* Nothing is on the move, or nothing is owed to what is.
LEMMA CoverCleared ==
    ASSUME ProcInv, NEW o \in Operators, Knows(o), proc[o].pc \in {"clearBrokers", "clearTopics"},
           part' = part, marks' = Released(o)
    PROVE  ThrottledWhileMoving'
<1>1. proc[o].kind \in {"verify", "cancel"}
  BY DEF ProcInv, Local, Stands
<1>2. CASE proc[o].kind = "cancel"
  <2>1. \A p \in Parts : marks'[p] = "none"
    BY <1>2 DEF Released
  <2>2. QED
    BY <2>1 DEF ThrottledWhileMoving
<1>3. CASE proc[o].kind = "verify"
  <2>1. Active = {}
    BY <1>3 DEF Knows, Verifying
  <2>2. \A p \in Parts : ~Moving(p)'
    BY <2>1 DEF Active, Moving
  <2>3. QED
    BY <2>2 DEF ThrottledWhileMoving
<1>4. QED
  BY <1>1, <1>2, <1>3

LEMMA ClearBrokersKnows ==
    ASSUME ClusterInv, ProcInv, NEW o \in Operators, Knows(o), ClearBrokers(o)
    PROVE  Knows(o)' /\ ReportInv' /\ ThrottledWhileMoving'
<1> DEFINE brokers == Nodes \cup UNION {Range(e.replicas) : e \in Range(proc[o].file)}
<1>1. proc[o].pc = "clearBrokers" /\ part' = part /\ dir' = dir /\ marks' = Released(o)
  BY DEF ClearBrokers
<1>2. ThrottledWhileMoving'
  BY <1>1, CoverCleared
<1>3. PICK done : /\ throttle' = [throttle EXCEPT !.rate = @ \ done, !.dirRate = @ \ done]
                  /\ Written(o, done, brokers, "clearTopics")
  BY DEF ClearBrokers
<1>4. throttle'.rate = throttle.rate \ done /\ throttle'.dirRate = throttle.dirRate \ done
  BY <1>3, ThrottleFields DEF ClusterInv
<1>5. CASE Ends(o, 1)
  BY <1>2, <1>5, Codes, FailKnows
<1>6. CASE done = brokers /\ MovesOn(o, "clearTopics")
  <2>1. /\ SameLine(proc[o], proc'[o]) /\ proc'[o].pc = "clearTopics" /\ report' = None
        /\ proc'[o].failed = proc[o].failed
    BY <1>6 DEF MovesOn, GoesOn
  <2>2. CASE proc[o].kind = "cancel"
    BY <1>2, <2>1, <2>2, CancelKnows, NothingReported DEF SameLine
  <2>3. CASE proc[o].kind = "verify"
    <3>1. /\ ~proc[o].failed => AtRest(o)
          /\ Active = {} /\ \A r \in DOMAIN LogDirMoves(proc[o].file) : MoveDone(r)
      BY <1>1, <2>3 DEF Knows, Verifying
    <3>2. ~proc'[o].failed => AtRest(o)'
      BY <1>1, <2>1, <3>1 DEF AtRest, Moving, SameLine
    <3>3. (Active = {} /\ \A r \in DOMAIN LogDirMoves(proc[o].file) : MoveDone(r))'
      BY <1>1, <2>1, <3>1 DEF Active, Moving, MoveDone, SameLine
    <3>4. (throttle'.rate \cup throttle'.dirRate) \cap Nodes = {}
      BY <1>4, <1>6
    <3>5. Knows(o)'
      BY <2>1, <2>3, <3>2, <3>3, <3>4 DEF Knows, BeforeAlter, Throttled, AfterAlter, Verifying, SameLine
    <3>6. QED
      BY <1>2, <2>1, <3>5, NothingReported
  <2>4. proc[o].kind \in {"verify", "cancel"}
    BY <1>1 DEF ProcInv, Local, Stands
  <2>5. QED
    BY <2>2, <2>3, <2>4
<1>7. QED
  BY <1>1, <1>2, <1>3, <1>5, <1>6, ClearBrokersIs

LEMMA ClearTopicsKnows ==
    ASSUME ClusterInv, ProcInv, NEW o \in Operators, Knows(o), ClearTopics(o)
    PROVE  Knows(o)' /\ ReportInv' /\ ThrottledWhileMoving'
<1> DEFINE topics == Topics(Named(proc[o].file))
<1>1. proc[o].pc = "clearTopics" /\ part' = part /\ dir' = dir /\ marks' = Released(o)
  BY DEF ClearTopics
<1>2. ThrottledWhileMoving'
  BY <1>1, CoverCleared
<1>3. PICK done : /\ throttle' = [throttle EXCEPT !.leader = Replaced(@, {}, done),
                                                  !.follower = Replaced(@, {}, done)]
                  /\ \/ done = topics /\ Exit(o, IF proc[o].failed THEN 1 ELSE 0)
                     \/ Exit(o, 1)
  BY DEF ClearTopics
<1>4. /\ throttle'.leader = Replaced(throttle.leader, {}, done)
      /\ throttle'.follower = Replaced(throttle.follower, {}, done)
      /\ throttle'.rate = throttle.rate /\ throttle'.dirRate = throttle.dirRate
  BY <1>3, ThrottleTopicsWrites
<1>5. CASE Exit(o, 1)
  BY <1>2, <1>5, ExitIs, Codes, FailKnows
<1>6. CASE done = topics /\ Exit(o, IF proc[o].failed THEN 1 ELSE 0)
  <2>1. PICK code : code = IF proc[o].failed THEN 1 ELSE 0
    OBVIOUS
  <2>2. Ends(o, code)
    BY <1>6, <2>1, ExitIs
  <2>3. CASE code # 0 \/ proc[o].kind = "cancel"
    BY <1>2, <2>2, <2>3, EndKnows, NoClaim
  <2>4. CASE code = 0 /\ proc[o].kind = "verify"
    <3>1. ~proc[o].failed
      BY <2>1, <2>4, Codes
    <3>2. /\ AtRest(o) /\ \A r \in DOMAIN LogDirMoves(proc[o].file) : MoveDone(r)
          /\ (throttle.rate \cup throttle.dirRate) \cap Nodes = {}
      BY <1>1, <2>4, <3>1 DEF Knows, Verifying
    <3>3. report'.kind = "verify" /\ report'.file = proc[o].file
      BY <2>2, <2>4, ReportFields
    <3>4. VerifiedIsSettled'
      BY <1>1, <3>2, <3>3 DEF VerifiedIsSettled, AtRest, MoveDone, Moving
    <3>5. \A x \in throttle'.leader \cup throttle'.follower : TopicOf[x[1]] \notin topics
      BY <1>4, <1>6 DEF Replaced
    <3>6. VerifiedIsUnthrottled'
      BY <1>4, <3>2, <3>3, <3>5 DEF VerifiedIsUnthrottled
    <3>7. ExecutedIsUnderWay'
      BY <3>3 DEF ExecutedIsUnderWay
    <3>8. QED
      BY <1>2, <2>2, <3>4, <3>6, <3>7, EndKnows DEF ReportInv
  <2>5. proc[o].kind \in {"verify", "cancel"}
    BY <1>1 DEF ProcInv, Local, Stands
  <2>6. QED
    BY <2>3, <2>4, <2>5
<1>7. QED
  BY <1>3, <1>5, <1>6

-----------------------------------------------------------------------------
(* One operator at a time: what the cluster does meanwhile. *)

\* A reassignment that ends leaves the others as they are.
LEMMA CompleteLists ==
    ASSUME ClusterInv, NEW p \in Parts, Complete(p), NEW o \in Operators, Lists(o)
    PROVE  Lists(o)'
<1>1. \A q \in Parts : q # p => part'[q] = part[q]
  BY CompleteIs
<1>2. part'[p].adding = {} /\ part'[p].removing = {}
  <2>1. Whole(part[p])
    BY DEF ClusterInv
  <2>2. QED
    BY <2>1, CompleteIs, CompleteFacts
<1>3. ~Moving(p)'
  BY <1>2 DEF Moving
<1>4. ASSUME NEW q \in Active' PROVE q \in Active /\ part'[q] = part[q]
  BY <1>1, <1>3 DEF Active, Moving
<1>5. proc' = proc
  BY DEF Complete
<1>6. QED
  BY <1>4, <1>5 DEF Lists

\* The partitions of a file that are on their way stay so, and so do the
\* replicas that are bound for a log dir: the replicas that a reassignment
\* removes are not among its targets.
LEMMA CompleteBound ==
    ASSUME ClusterInv, ProcInv, NEW p \in Parts, Complete(p), NEW o \in Operators, AfterAlter(o)
    PROVE  AfterAlter(o)'
<1> DEFINE f == proc[o].file
<1>1. proc' = proc
  BY DEF Complete
<1> SUFFICES ASSUME proc[o].kind = "execute", proc[o].pc = "moves"
             PROVE  /\ OnTheirWay(o)'
                    /\ \A r \in DOMAIN LogDirMoves(f) : r \notin DOMAIN proc[o].moves => Bound(o, r)'
  BY <1>1 DEF AfterAlter
<1>2. f \in Files \cup {<<>>} /\ Executable(f) /\ Named(f) \subseteq Parts /\ CheckExecute(f)
  BY DEF ProcInv, Local, Read, Executing, Executable
<1>3. OnTheirWay(o)
  BY DEF AfterAlter
<1>4. ASSUME NEW q \in Parts
      PROVE  /\ Without(part'[q].replicas, part'[q].removing) = Without(part[q].replicas, part[q].removing)
             /\ Range(Without(part[q].replicas, part[q].removing)) \subseteq Range(part'[q].replicas)
  <2>1. Whole(part[q])
    BY DEF ClusterInv
  <2>2. CASE q = p
    BY <2>1, <2>2, CompleteIs, CompleteFacts
  <2>3. CASE q # p
    <3>1. part'[q] = part[q]
      BY <2>3, CompleteIs
    <3>2. Range(Without(part[q].replicas, part[q].removing)) = Range(part[q].replicas) \ part[q].removing
      <4>1. part[q].replicas \in Seq(Nodes)
        BY <2>1 DEF Whole
      <4>2. QED
        BY SMTT(20), <4>1, WithoutFacts
    <3>3. QED
      BY <3>1, <3>2
  <2>4. QED
    BY <2>2, <2>3
<1>5. OnTheirWay(o)'
  BY <1>1, <1>2, <1>3, <1>4 DEF OnTheirWay
<1>6. ASSUME NEW r \in DOMAIN LogDirMoves(f), r \notin DOMAIN proc[o].moves PROVE Bound(o, r)'
  <2>1. r \in Replicas
    BY <1>2, MovesFacts
  <2>2. r[1] \in Named(f) /\ r[2] \in Range(Targets(f)[r[1]])
    BY <1>2, ExecutableMoves
  <2>3. r[1] \in Parts /\ Without(part[r[1]].replicas, part[r[1]].removing) = Targets(f)[r[1]]
    BY <1>2, <1>3, <2>2 DEF OnTheirWay
  <2>4. r[2] \in Range(part'[r[1]].replicas)
    BY <1>4, <2>2, <2>3
  <2>5. dir' = Hosted(part') /\ part' = [q \in Parts |-> part'[q]]
    BY CompleteIs DEF Complete
  <2>6. dir'[r] = dir[r]
    BY <2>1, <2>3, <2>4, <2>5, HostedFacts
  <2>7. Bound(o, r)
    BY <1>6 DEF AfterAlter
  <2>8. QED
    BY <1>1, <2>6, <2>7 DEF Bound
<1>7. QED
  BY <1>5, <1>6

LEMMA CompleteKnows ==
    ASSUME ClusterInv, ProcInv, NEW p \in Parts, Complete(p), NEW o \in Operators, Knows(o)
    PROVE  Knows(o)'
<1>1. proc' = proc /\ throttle' = throttle /\ Moving(p)
  BY DEF Complete
<1>2. \A q \in Parts : q # p => part'[q] = part[q]
  BY CompleteIs
<1>3. Lists(o) => Lists(o)'
  BY CompleteLists
<1>4. BeforeAlter(o)'
  <2>1. ASSUME proc[o].kind = "execute", proc[o].pc \notin {"list", "moves", "describe"},
               NEW q \in Named(proc[o].file), q \notin DOMAIN proc[o].active
        PROVE  proc[o].current[q] = part'[q].replicas
    <3>1. Lists(o) /\ proc[o].current[q] = part[q].replicas
      BY <2>1 DEF Knows, BeforeAlter
    <3>2. q # p
      BY <1>1, <2>1, <3>1 DEF Lists, Active
    <3>3. q \in Parts
      BY <2>1 DEF ProcInv, Local, Executing, Executable
    <3>4. QED
      BY <1>2, <3>1, <3>2, <3>3
  <2>2. QED
    BY <1>1, <1>3, <2>1 DEF Knows, BeforeAlter
<1>5. Throttled(o)'
  BY <1>1 DEF Knows, Throttled, Moves
<1>6. AfterAlter(o)'
  BY CompleteBound DEF Knows
<1>7. Verifying(o)'
  <2>1. AtRest(o) => AtRest(o)'
    <3>1. ASSUME NEW q \in Parts, ~Moving(q) PROVE part'[q] = part[q] /\ ~Moving(q)'
      BY <1>1, <1>2, <3>1 DEF Moving
    <3>2. QED
      BY <1>1, <3>1 DEF AtRest
  <2>2. Active # {}
    BY <1>1 DEF Active
  <2>3. QED
    BY <1>1, <1>3, <2>1, <2>2 DEF Knows, Verifying
<1>8. QED
  BY <1>4, <1>5, <1>6, <1>7 DEF Knows

LEMMA CompleteCover ==
    ASSUME ClusterInv, ThrottledWhileMoving, NEW p \in Parts, Complete(p)
    PROVE  ThrottledWhileMoving'
<1> SUFFICES ASSUME NEW q \in Parts, Moving(q)'
             PROVE  /\ marks'[q] \in {"leaders", "both"} => LeaderCovered(q)'
                    /\ marks'[q] = "both" => FollowerCovered(q)'
  BY DEF ThrottledWhileMoving
<1>1. CASE q = p
  BY <1>1, CompleteIs
<1>2. CASE q # p
  <2>1. part'[q] = part[q] /\ marks'[q] = marks[q] /\ throttle' = throttle
    BY <1>2, CompleteIs DEF Complete
  <2>2. QED
    BY <2>1, CoverUntouched
<1>3. QED
  BY <1>1, <1>2

\* A step that only changes log dirs: no move is undone.
LEMMA DirKnows ==
    ASSUME ClusterInv, ProcInv, UNCHANGED <<part, throttle, proc>>,
           \A r \in Replicas : MoveDone(r) => MoveDone(r)',
           \A r \in Replicas : \A d \in Dirs :
              (IF dir[r].to = None THEN dir[r].at = d ELSE dir[r].to = d) =>
              (IF dir'[r].to = None THEN dir'[r].at = d ELSE dir'[r].to = d),
           NEW o \in Operators, Knows(o)
    PROVE  Knows(o)'
<1> DEFINE f == proc[o].file
<1>1. f \in Files \cup {<<>>}
  BY DEF ProcInv, Local, Read
<1>2. DOMAIN LogDirMoves(f) \subseteq Replicas
  BY <1>1, MovesFacts
<1>3. BeforeAlter(o)'
  BY DEF Knows, BeforeAlter, Lists, Active, Moving
<1>4. Throttled(o)'
  BY DEF Knows, Throttled, Moves
<1>5. Verifying(o)'
  BY <1>2 DEF Knows, Verifying, Lists, AtRest, Active, Moving
<1>6. AfterAlter(o)'
  <2>1. ASSUME proc[o].kind = "execute", proc[o].pc = "moves", NEW r \in DOMAIN LogDirMoves(f),
               Bound(o, r)
        PROVE  Bound(o, r)'
    <3>1. CheckExecute(f)
      BY <2>1 DEF ProcInv, Local, Executing, Executable
    <3>2. PICK d : d = LogDirMoves(f)[r]
      OBVIOUS
    <3>3. d \in Dirs /\ r \in Replicas
      BY <1>1, <1>2, <2>1, <3>1, <3>2, ExecutableMoves
    <3>4. QED
      BY <2>1, <3>2, <3>3 DEF Bound
  <2>2. QED
    BY <2>1 DEF Knows, AfterAlter, OnTheirWay
<1>7. QED
  BY <1>3, <1>4, <1>5, <1>6 DEF Knows

LEMMA LandKnows ==
    ASSUME ClusterInv, ProcInv, NEW r \in Replicas, Land(r), NEW o \in Operators, Knows(o)
    PROVE  Knows(o)'
<1>1. dir[r].at = None /\ dir'[r].to = dir[r].to /\ \A x \in Replicas : x # r => dir'[x] = dir[x]
  BY LandIs
<1>2. ASSUME NEW x \in Replicas, MoveDone(x) PROVE MoveDone(x)'
  BY <1>1, <1>2 DEF MoveDone
<1>3. ASSUME NEW x \in Replicas, NEW d \in Dirs,
             IF dir[x].to = None THEN dir[x].at = d ELSE dir[x].to = d
      PROVE  IF dir'[x].to = None THEN dir'[x].at = d ELSE dir'[x].to = d
  <2>1. d # None
    BY ClusterIsThere
  <2>2. CASE x = r
    BY <1>1, <1>3, <2>1, <2>2
  <2>3. CASE x # r
    BY <1>1, <1>3, <2>3
  <2>4. QED
    BY <2>2, <2>3
<1>4. UNCHANGED <<part, throttle, proc>>
  BY DEF Land
<1>5. QED
  BY <1>2, <1>3, <1>4, DirKnows

LEMMA CopiedKnows ==
    ASSUME ClusterInv, ProcInv, NEW r \in Replicas, Copied(r), NEW o \in Operators, Knows(o)
    PROVE  Knows(o)'
<1>1. /\ dir[r].to # None /\ dir'[r].at = dir[r].to /\ dir'[r].to = None
      /\ \A x \in Replicas : x # r => dir'[x] = dir[x]
  BY CopiedIs
<1>2. ASSUME NEW x \in Replicas, MoveDone(x) PROVE MoveDone(x)'
  BY <1>1, <1>2 DEF MoveDone
<1>3. ASSUME NEW x \in Replicas, NEW d \in Dirs,
             IF dir[x].to = None THEN dir[x].at = d ELSE dir[x].to = d
      PROVE  IF dir'[x].to = None THEN dir'[x].at = d ELSE dir'[x].to = d
  <2>1. CASE x = r
    BY <1>1, <1>3, <2>1
  <2>2. CASE x # r
    BY <1>1, <1>3, <2>2
  <2>3. QED
    BY <2>1, <2>2
<1>4. UNCHANGED <<part, throttle, proc>>
  BY DEF Copied
<1>5. QED
  BY <1>2, <1>3, <1>4, DirKnows

-----------------------------------------------------------------------------
(* One operator at a time: the invariant. *)

LEMMA ReadingKnows ==
    ASSUME ClusterInv, ProcInv, NEW o \in Operators, Knows(o),
           \/ ExecuteList(o) \/ ExecuteDescribe(o) \/ VerifyList(o) \/ VerifyDescribe(o)
           \/ VerifyMoves(o) \/ CancelList(o) \/ CancelMoves(o) \/ ReadFails(o)
    PROVE  Knows(o)' /\ ReportInv' /\ UNCHANGED <<part, throttle, marks>>
<1>1. CASE ExecuteList(o)
  BY <1>1, ExecuteListKnows DEF ExecuteList
<1>2. CASE ExecuteDescribe(o)
  BY <1>2, ExecuteDescribeKnows DEF ExecuteDescribe
<1>3. CASE VerifyList(o)
  BY <1>3, VerifyListKnows DEF VerifyList
<1>4. CASE VerifyDescribe(o)
  BY <1>4, VerifyDescribeKnows DEF VerifyDescribe
<1>5. CASE VerifyMoves(o)
  BY <1>5, VerifyMovesKnows DEF VerifyMoves
<1>6. CASE CancelList(o)
  <2>1. proc'[o].kind = "cancel" /\ report' = None
    BY <1>6, CancelListIs DEF GoesOn
  <2>2. QED
    BY <1>6, <2>1, CancelKnows, NothingReported DEF CancelList
<1>7. CASE CancelMoves(o)
  <2>1. CASE Ends(o, 0)
    BY <1>7, <2>1, EndKnows, NoClaim DEF CancelMoves, At
  <2>2. CASE GoesOn(o, proc'[o]) /\ proc'[o].kind = "cancel"
    BY <1>7, <2>2, CancelKnows, NothingReported DEF CancelMoves, GoesOn
  <2>3. QED
    BY <1>7, <2>1, <2>2, CancelMovesIs
<1>8. CASE ReadFails(o)
  <2>1. Ends(o, 1)
    BY <1>8, ExitIs DEF ReadFails
  <2>2. QED
    BY <1>8, <2>1, Codes, FailKnows DEF ReadFails
<1>9. QED
  BY <1>1, <1>2, <1>3, <1>4, <1>5, <1>6, <1>7, <1>8

LEMMA OperatorKnows ==
    ASSUME ClusterInv, ProcInv, NEW o \in Operators, Knows(o), ThrottledWhileMoving,
           Start(o) \/ Run(o) \/ Prompt(o) \/ Deadline(o) \/ Interrupt(o)
    PROVE  Knows(o)' /\ ReportInv' /\ ThrottledWhileMoving'
<1>1. CASE Start(o)
  BY <1>1, StartKnows, CoverKept DEF Start
<1>2. CASE Prompt(o)
  BY <1>2, PromptKnows, CoverKept DEF Prompt
<1>3. CASE Deadline(o)
  BY <1>3, DeadlineKnows, CoverKept DEF Deadline
<1>4. CASE Interrupt(o)
  <2>1. Ends(o, 130)
    BY <1>4, ExitIs DEF Interrupt
  <2>2. QED
    BY <1>4, <2>1, Codes, FailKnows, CoverKept DEF Interrupt
<1>5. CASE Run(o)
  <2>1. CASE \/ ExecuteList(o) \/ ExecuteDescribe(o) \/ VerifyList(o) \/ VerifyDescribe(o)
             \/ VerifyMoves(o) \/ CancelList(o) \/ CancelMoves(o) \/ ReadFails(o)
    BY <2>1, ReadingKnows, CoverKept
  <2>2. CASE ThrottleTopics(o)
    BY <2>2, ThrottleTopicsKnows
  <2>3. CASE ThrottleBrokers(o)
    BY <2>3, ThrottleBrokersKnows
  <2>4. CASE ThrottleDirs(o)
    BY <2>4, ThrottleDirsKnows
  <2>5. CASE AlterExecute(o)
    BY <2>5, AlterExecuteKnows
  <2>6. CASE AlterCancel(o)
    BY <2>6, AlterCancelKnows
  <2>7. CASE StartMoves(o)
    BY <2>7, StartMovesKnows, CoverKept DEF StartMoves
  <2>8. CASE ClearBrokers(o)
    BY <2>8, ClearBrokersKnows
  <2>9. CASE ClearTopics(o)
    BY <2>9, ClearTopicsKnows
  <2>10. QED
    BY <1>5, <2>1, <2>2, <2>3, <2>4, <2>5, <2>6, <2>7, <2>8, <2>9 DEF Run
<1>6. QED
  BY <1>1, <1>2, <1>3, <1>4, <1>5

LEMMA InitKnows == Init => KnowInv
<1> SUFFICES ASSUME Init PROVE KnowInv
  OBVIOUS
<1>1. report = None /\ proc = [o \in Operators |-> Idle] /\ marks = [p \in Parts |-> "none"]
  BY DEF Init
<1>2. ASSUME NEW o \in Operators PROVE Knows(o)
  <2>1. proc[o].kind = "verify" /\ proc[o].pc = "idle"
    BY <1>1 DEF Idle
  <2>2. QED
    BY <2>1 DEF Knows, BeforeAlter, Throttled, AfterAlter, Verifying
<1>3. ReportInv
  BY <1>1 DEF ReportInv, VerifiedIsSettled, VerifiedIsUnthrottled, ExecutedIsUnderWay
<1>4. \A p \in Parts : marks[p] = "none"
  BY <1>1
<1>5. ThrottledWhileMoving
  BY <1>4 DEF ThrottledWhileMoving
<1>6. QED
  BY <1>2, <1>3, <1>5 DEF KnowInv

LEMMA NextKnows ==
    ASSUME OneOperator
    PROVE  ClusterInv /\ ProcInv /\ KnowInv /\ [Next]_vars => KnowInv'
<1> SUFFICES ASSUME ClusterInv, ProcInv, KnowInv, [Next]_vars PROVE KnowInv'
  OBVIOUS
<1>1. (\A o \in Operators : Knows(o)) /\ ThrottledWhileMoving /\ ReportInv
  BY DEF KnowInv
<1>2. ASSUME NEW o \in Operators, Start(o) \/ Run(o) \/ Prompt(o) \/ Deadline(o) \/ Interrupt(o)
      PROVE  KnowInv'
  <2>1. Knows(o)' /\ ReportInv' /\ ThrottledWhileMoving'
    BY <1>1, <1>2, OperatorKnows
  <2>2. \A q \in Operators : q = o
    BY DEF OneOperator
  <2>3. QED
    BY <2>1, <2>2 DEF KnowInv
<1>3. ASSUME NEW p \in Parts, Complete(p) PROVE KnowInv'
  <2>1. report' = None
    BY <1>3 DEF Complete
  <2>2. QED
    BY <1>1, <1>3, <2>1, CompleteKnows, CompleteCover, NothingReported DEF KnowInv
<1>4. ASSUME NEW r \in Replicas, Land(r) PROVE KnowInv'
  <2>1. report' = None /\ UNCHANGED <<part, throttle, marks>>
    BY <1>4 DEF Land
  <2>2. QED
    BY <1>1, <1>4, <2>1, LandKnows, CoverKept, NothingReported DEF KnowInv
<1>5. ASSUME NEW r \in Replicas, Copied(r) PROVE KnowInv'
  <2>1. report' = None /\ UNCHANGED <<part, throttle, marks>>
    BY <1>5 DEF Copied
  <2>2. QED
    BY <1>1, <1>5, <2>1, CopiedKnows, CoverKept, NothingReported DEF KnowInv
<1>6. CASE UNCHANGED vars
  <2>1. UNCHANGED <<part, dir, throttle, proc, report, marks>>
    BY <1>6 DEF vars
  <2>2. ASSUME NEW o \in Operators PROVE Knows(o)'
    <3>1. Knows(o)
      BY <1>1
    <3>2. BeforeAlter(o)' /\ Throttled(o)' /\ AfterAlter(o)'
      BY <2>1, <3>1 DEF Knows, BeforeAlter, Throttled, AfterAlter, Lists, Active, Moving, Moves,
                        OnTheirWay, Bound
    <3>3. Verifying(o)'
      BY <2>1, <3>1 DEF Knows, Verifying, Lists, Active, Moving, AtRest, MoveDone
    <3>4. QED
      BY <3>2, <3>3 DEF Knows
  <2>3. ReportInv'
    BY <1>1, <2>1 DEF ReportInv, VerifiedIsSettled, VerifiedIsUnthrottled, ExecutedIsUnderWay, Moving
  <2>4. QED
    BY <1>1, <2>1, <2>2, <2>3, CoverKept DEF KnowInv
<1>7. QED
  BY <1>2, <1>3, <1>4, <1>5, <1>6 DEF Next, Rest

LEMMA Knowing == ASSUME OneOperator PROVE Spec => []KnowInv
<1>1. Init => KnowInv
  BY InitKnows
<1>2. ClusterInv /\ ProcInv /\ KnowInv /\ [Next]_vars => KnowInv'
  BY NextKnows
<1>3. QED
  BY <1>1, <1>2, Types, PTL DEF Spec

\* Where one operator at a time reassigns partitions, a partition that was put
\* on the move under --throttle stays throttled at its sources until it
\* arrives, and at its destinations until its file is replaced, although the
\* throttled replicas of a topic are one config that a later --execute
\* --additional replaces, in part or before it is refused or interrupted.
THEOREM Covered == ASSUME OneOperator PROVE Spec => []ThrottledWhileMoving
<1>1. KnowInv => ThrottledWhileMoving
  BY DEF KnowInv
<1>2. QED
  BY <1>1, Knowing, PTL

\* Where one operator at a time reassigns partitions, exit code 0 of --verify
\* and of --execute means what their reports say, although they read the
\* cluster at different times, and the cluster completes reassignments and
\* copies replicas in between.
THEOREM Truthful == ASSUME OneOperator PROVE Spec => []ExitsTellTheTruth
<1>1. TypeOK /\ KnowInv => ExitsTellTheTruth
  BY DEF KnowInv, ReportInv, ExitsTellTheTruth
<1>2. QED
  BY <1>1, Knowing, TypesHold, PTL

\* Where one operator at a time reassigns partitions, the assignment that an
\* --execute without --additional prints for the rollback is the one that it
\* replaces, and no partition of it is on the move.
THEOREM Rollback == ASSUME OneOperator PROVE Spec => RollbackIsWhatItReplaces
<1>1. ASSUME ProcInv, KnowInv, NEW o \in Operators, At(o, "execute", "alter"), ~proc[o].additional,
             NEW p \in DOMAIN proc[o].current
      PROVE  proc[o].current[p] = part[p].replicas /\ ~Moving(p)
  <2>1. proc[o].kind = "execute" /\ proc[o].pc = "alter" /\ Local(proc[o]) /\ BeforeAlter(o)
    BY <1>1 DEF At, ProcInv, KnowInv, Knows
  <2>2. DOMAIN proc[o].current = Named(proc[o].file) /\ Named(proc[o].file) \subseteq Parts
    BY <2>1 DEF Local, Executing, Executable
  <2>3. Lists(o) /\ DOMAIN proc[o].active = {}
    BY <1>1, <2>1 DEF BeforeAlter
  <2>4. proc[o].current[p] = part[p].replicas
    BY <1>1, <2>1, <2>2, <2>3 DEF BeforeAlter
  <2>5. p \notin Active
    BY <2>3 DEF Lists
  <2>6. QED
    BY <1>1, <2>2, <2>4, <2>5 DEF Active
<1>2. ProcInv /\ KnowInv =>
        [\A o \in Operators :
            At(o, "execute", "alter") /\ ~proc[o].additional /\ part' # part =>
               \A p \in DOMAIN proc[o].current :
                  proc[o].current[p] = part[p].replicas /\ ~Moving(p)]_vars
  BY <1>1
<1>3. QED
  BY <1>2, Knowing, Types, PTL DEF RollbackIsWhatItReplaces
=============================================================================
