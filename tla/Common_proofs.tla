--------------------------- MODULE Common_proofs ---------------------------
(***************************************************************************)
(* Facts that the proofs of several components share: about numbers and    *)
(* recursive definitions, about step lists, and about the stretches of a   *)
(* growing history.                                                        *)
(*                                                                         *)
(* LeastNumber is the well-foundedness of the natural numbers, stated of   *)
(* sets.  Induction and RecursiveFunction, which follow from it, take sets *)
(* and functions where the library's theorems take operators, so that a    *)
(* leaf of a proof can be an instance of them.                             *)
(***************************************************************************)
EXTENDS Plan, LogFile, Integers, SequenceTheorems, WellFoundedInduction, TLAPS

\* Every set of numbers that is not empty has a least one.
LEMMA LeastNumber ==
  ASSUME NEW M \in SUBSET Nat, M # {}
  PROVE  \E least \in M : \A n \in M : least <= n
<1> DEFINE R == OpToRel(<, Nat)
<1>1. IsWellFoundedOn(R, Nat)
  BY NatLessThanWellFounded
<1>2. \A x, y \in Nat : <<y, x>> \in R <=> y < x
  BY DEF OpToRel
<1> HIDE DEF R
<1>3. \E x \in M : \A y \in M : <<y, x>> \notin R
  BY <1>1, WFMin
<1>4. PICK x \in M : \A y \in M : <<y, x>> \notin R
  BY <1>3
<1>5. ASSUME NEW n \in M PROVE x <= n
  <2>1. x \in Nat /\ n \in Nat
    OBVIOUS
  <2>2. <<n, x>> \notin R
    BY <1>4
  <2>3. ~(n < x)
    BY <1>2, <2>1, <2>2
  <2> QED
    BY <2>1, <2>3
<1> QED
  BY <1>5

\* And a greatest one, if there is a bound.
LEMMA GreatestNumber ==
  ASSUME NEW bound \in Nat, NEW M \in SUBSET (0..bound), M # {}
  PROVE  \E greatest \in M : \A n \in M : n <= greatest
<1> DEFINE W == {k \in Nat : k <= bound /\ bound - k \in M}
<1>1. W \in SUBSET Nat /\ W # {}
  <2>1. PICK n \in M : TRUE
    OBVIOUS
  <2>2. n \in 0..bound
    OBVIOUS
  <2>3. bound - n \in Nat /\ bound - n <= bound /\ bound - (bound - n) = n
    BY <2>2
  <2> QED
    BY <2>3
<1>2. PICK least \in W : \A k \in W : least <= k
  <2> HIDE DEF W
  <2> QED
    BY <1>1, LeastNumber
<1>3. ASSUME NEW n \in M PROVE n <= bound - least
  <2>1. n \in 0..bound
    OBVIOUS
  <2>2. bound - n \in Nat /\ bound - n <= bound /\ bound - (bound - n) = n
    BY <2>1
  <2>3. bound - n \in W
    BY <2>2
  <2>4. least <= bound - n /\ least \in Nat
    BY <1>2, <2>3
  <2> QED
    BY <2>1, <2>4
<1> QED
  BY <1>2, <1>3

\* A set of numbers to which 0 belongs, and every number whose predecessor
\* does, is all of them.
LEMMA Induction ==
  ASSUME NEW M \in SUBSET Nat, 0 \in M, \A n \in M : n + 1 \in M
  PROVE  M = Nat
<1> SUFFICES ASSUME Nat \ M # {} PROVE FALSE
  OBVIOUS
<1>1. PICK least \in Nat \ M : \A n \in Nat \ M : least <= n
  BY LeastNumber
<1>2. least - 1 \in Nat /\ least - 1 \in M
  BY <1>1
<1> QED
  BY <1>1, <1>2

\* What G makes of a function at x depends on its values at lower ranks alone.
LooksDown(D, V, rank, G) ==
  /\ V # {} /\ rank \in [D -> Nat] /\ G \in [[D -> V] -> [D -> V]]
  /\ \A f, g \in [D -> V] : \A x \in D :
       (\A y \in D : rank[y] < rank[x] => f[y] = g[y]) => G[f][x] = G[g][x]

\* A definition by recursion that looks down is satisfied by some function.
LEMMA RecursiveFunction ==
  ASSUME NEW D, NEW V, NEW rank, NEW G, LooksDown(D, V, rank, G)
  PROVE  \E f \in [D -> V] : f = G[f]
<1> USE DEF LooksDown
<1> DEFINE Right(f, n) == \A x \in D : rank[x] < n => f[x] = G[f][x]
<1>r. \A x \in D : rank[x] \in Nat
  OBVIOUS
<1>g. \A f \in [D -> V] : G[f] \in [D -> V]
  OBVIOUS
<1>1. \A n \in Nat : \E f \in [D -> V] : Right(f, n)
  <2> DEFINE M == {n \in Nat : \E f \in [D -> V] : Right(f, n)}
  <2>1. 0 \in M
    <3>1. PICK v \in V : TRUE
      OBVIOUS
    <3>2. [x \in D |-> v] \in [D -> V]
      OBVIOUS
    <3>3. \A f : Right(f, 0)
      BY <1>r
    <3> QED
      BY <3>2, <3>3
  <2>2. ASSUME NEW n \in M PROVE n + 1 \in M
    <3>1. PICK f \in [D -> V] : Right(f, n)
      OBVIOUS
    <3>2. Right(G[f], n + 1)
      <4> SUFFICES ASSUME NEW x \in D, rank[x] < n + 1
                   PROVE  G[f][x] = G[G[f]][x]
        OBVIOUS
      <4>1. \A y \in D : rank[y] < rank[x] => f[y] = G[f][y]
        BY <3>1, <1>r, n \in Nat
      <4> QED
        BY <4>1, <1>g
    <3>3. G[f] \in [D -> V] /\ n + 1 \in Nat
      BY <1>g
    <3> QED
      BY <3>2, <3>3
  <2> HIDE DEF M
  <2>3. M = Nat
    BY <2>1, <2>2, Induction DEF M
  <2> QED
    BY <2>3 DEF M
<1>2. ASSUME NEW n \in Nat, NEW f \in [D -> V], NEW g \in [D -> V], Right(f, n), Right(g, n),
             NEW z \in D, rank[z] < n
      PROVE  f[z] = g[z]
  <2> SUFFICES ASSUME f[z] # g[z] PROVE FALSE
    OBVIOUS
  <2> DEFINE M == {r \in Nat : r < n /\ \E y \in D : rank[y] = r /\ f[y] # g[y]}
  <2>1. rank[z] \in M
    BY <1>2, <1>r
  <2>2. PICK least \in M : \A r \in M : least <= r
    BY <2>1, LeastNumber
  <2>3. PICK y \in D : rank[y] = least /\ f[y] # g[y]
    BY <2>2
  <2>4. ASSUME NEW x \in D, rank[x] < rank[y] PROVE f[x] = g[x]
    BY <2>2, <2>3, <2>4, <1>r
  <2>5. G[f][y] = G[g][y]
    BY <2>4
  <2>6. rank[y] < n
    BY <2>2, <2>3
  <2> QED
    BY <2>3, <2>5, <2>6, <1>2
<1> DEFINE F(n) == CHOOSE f \in [D -> V] : Right(f, n)
           h == [x \in D |-> F(rank[x] + 1)[x]]
<1>3. \A n \in Nat : F(n) \in [D -> V] /\ Right(F(n), n)
  BY <1>1
<1> HIDE DEF F
<1>4. h \in [D -> V]
  BY <1>3, <1>r
<1>5. ASSUME NEW x \in D PROVE h[x] = G[h][x]
  <2>1. F(rank[x] + 1) \in [D -> V] /\ Right(F(rank[x] + 1), rank[x] + 1)
    BY <1>3, <1>r
  <2>2. ASSUME NEW y \in D, rank[y] < rank[x] PROVE h[y] = F(rank[x] + 1)[y]
    <3>1. rank[y] + 1 \in Nat /\ rank[y] < rank[y] + 1 /\ rank[y] + 1 < rank[x] + 1
      BY <1>r, <2>2
    <3>2. F(rank[y] + 1) \in [D -> V] /\ Right(F(rank[y] + 1), rank[y] + 1)
      BY <1>3, <3>1
    <3>3. Right(F(rank[x] + 1), rank[y] + 1)
      BY <2>1, <3>1, <1>r
    <3>4. F(rank[y] + 1)[y] = F(rank[x] + 1)[y]
      BY <1>2, <2>1, <3>1, <3>2, <3>3
    <3> QED
      BY <3>4
  <2>3. F(rank[x] + 1)[x] = G[F(rank[x] + 1)][x]
    BY <2>1, <1>r
  <2>4. G[h][x] = G[F(rank[x] + 1)][x]
    BY <1>4, <2>1, <2>2
  <2> QED
    BY <2>3, <2>4
<1> HIDE DEF h
<1>6. G[h] \in [D -> V]
  BY <1>4, <1>g
<1>7. h = G[h]
  BY <1>4, <1>5, <1>6
<1> QED
  BY <1>4, <1>7

-----------------------------------------------------------------------------
(* Step lists. *)

\* A step of a typed plan has a typed id and typed dependencies.
LEMMA StepFields ==
  ASSUME NEW Ids, NEW s \in Seq(Step(Ids)), NEW j \in 1..Len(s)
  PROVE  s[j].step_id \in Ids /\ s[j].depends_on \in Seq(Ids)
<1>1. s[j] \in Step(Ids)
  OBVIOUS
<1> QED
  BY <1>1 DEF Step

\* seen grows by one id per step.
LEMMA SeenNext ==
  ASSUME NEW s, NEW j \in Nat \ {0}
  PROVE  SeenBefore(s, j + 1) = SeenBefore(s, j) \cup {s[j].step_id}
<1>1. 1..(j + 1 - 1) = 1..(j - 1) \cup {j}
  OBVIOUS
<1> QED
  BY <1>1 DEF SeenBefore

\* An id met before position j is the id of a step of the plan.
LEMMA SeenAll ==
  ASSUME NEW Ids, NEW s \in Seq(Step(Ids)), NEW j \in 1..(Len(s) + 1)
  PROVE  SeenBefore(s, j) \subseteq IdsOf(s)
BY DEF SeenBefore, IdsOf

\* A dependency that some step has, but no step before j, is that of j or of a
\* step after it.
LEMMA SeenLater ==
  ASSUME NEW Ids, NEW s \in Seq(Step(Ids)), NEW j \in 1..Len(s),
         NEW d \in IdsOf(s), d \notin SeenBefore(s, j)
  PROVE  \E b \in 1..Len(s) : j <= b /\ s[b].step_id = d
<1>1. PICK b \in 1..Len(s) : s[b].step_id = d
  BY DEF IdsOf
<1>2. ~(b \in 1..(j - 1))
  BY <1>1 DEF SeenBefore
<1> QED
  BY <1>1, <1>2

\* In a plan with unique ids a step is not among those listed before it.
LEMMA NotSeenBefore ==
  ASSUME NEW Ids, NEW s \in Seq(Step(Ids)), UniqueIds(s), NEW j \in 1..Len(s)
  PROVE  s[j].step_id \notin SeenBefore(s, j)
<1>1. SUFFICES ASSUME NEW l \in 1..(j - 1), s[l].step_id = s[j].step_id PROVE FALSE
  BY DEF SeenBefore
<1>2. l \in DOMAIN s /\ j \in DOMAIN s /\ l # j
  OBVIOUS
<1> QED
  BY <1>1, <1>2 DEF UniqueIds

\* No step is listed before the first.
LEMMA SeenFirst == ASSUME NEW s PROVE SeenBefore(s, 1) = {}
BY DEF SeenBefore

\* All steps are listed before the position after the last.
LEMMA SeenLast ==
  ASSUME NEW Ids, NEW s \in Seq(Step(Ids))
  PROVE  SeenBefore(s, Len(s) + 1) = IdsOf(s)
<1>1. 1..(Len(s) + 1 - 1) = DOMAIN s
  OBVIOUS
<1> QED
  BY <1>1 DEF SeenBefore, IdsOf

-----------------------------------------------------------------------------
(* Log files, and stretches of a history: the log file always holds one, and *)
(* each record() appends to it and to the history.                           *)

\* What a log file of any kind holds.
LEMMA LogFileFields ==
  ASSUME NEW R, NEW f \in LogFiles(R)
  PROVE  /\ Entries(f) \in Seq(R)
         /\ f.kind \in {"absent", "empty", "torn", "json"}
         /\ f.kind # "json" => Entries(f) = <<>>
<1>1. CASE f \in [kind : {"absent", "empty", "torn"}, entries : {<<>>}]
  <2>1. f.entries = <<>> /\ f.kind \in {"absent", "empty", "torn"}
    BY <1>1
  <2> QED
    BY <2>1, EmptySeq DEF Entries
<1>2. CASE f \in [kind : {"json"}, entries : Seq(R)]
  BY <1>2 DEF Entries
<1> QED
  BY <1>1, <1>2 DEF LogFiles

\* The four states of the file are log files.
LEMMA LogFileStates ==
  ASSUME NEW R, NEW s \in Seq(R)
  PROVE  {Absent, Empty, Torn, Json(s)} \subseteq LogFiles(R)
<1>1. {Absent, Empty, Torn} \subseteq LogFiles(R)
  BY DEF Absent, Empty, Torn, LogFiles
<1>2. Json(s) \in LogFiles(R)
  BY DEF Json, LogFiles
<1> QED
  BY <1>1, <1>2

\* A stretch of a history is the same stretch of the longer history.
LEMMA StretchKept ==
  ASSUME NEW S, NEW s \in Seq(S), NEW e \in S,
         NEW a \in Nat, NEW b \in 0..Len(s)
  PROVE  SubSeq(Append(s, e), a + 1, b) = SubSeq(s, a + 1, b)
<1>1. SubSeq(s, a + 1, b) \in Seq(S) /\ SubSeq(Append(s, e), a + 1, b) \in Seq(S)
  OBVIOUS
<1>2. Len(SubSeq(s, a + 1, b)) = Len(SubSeq(Append(s, e), a + 1, b))
  OBVIOUS
<1>3. \A j \in 1..Len(SubSeq(s, a + 1, b)) :
        SubSeq(s, a + 1, b)[j] = SubSeq(Append(s, e), a + 1, b)[j]
  OBVIOUS
<1> QED
  BY <1>1, <1>2, <1>3, SeqEqual

\* Appending to the last stretch of a history gives the last stretch of the
\* history with the same entry appended.
LEMMA LastStretchGrows ==
  ASSUME NEW S, NEW s \in Seq(S), NEW e \in S, NEW a \in 0..Len(s)
  PROVE  Append(SubSeq(s, a + 1, Len(s)), e)
           = SubSeq(Append(s, e), a + 1, Len(Append(s, e)))
<1> DEFINE t == SubSeq(s, a + 1, Len(s))
<1>1. t \in Seq(S) /\ Len(t) = Len(s) - a /\ \A j \in 1..(Len(s) - a) : t[j] = s[a + j]
  OBVIOUS
<1>2. /\ Append(t, e) \in Seq(S)
      /\ SubSeq(Append(s, e), a + 1, Len(Append(s, e))) \in Seq(S)
  BY <1>1
<1>3. Len(Append(t, e)) = Len(SubSeq(Append(s, e), a + 1, Len(Append(s, e))))
  BY <1>1
<1>4. \A j \in 1..Len(Append(t, e)) :
        Append(t, e)[j] = SubSeq(Append(s, e), a + 1, Len(Append(s, e)))[j]
  BY <1>1
<1> HIDE DEF t
<1>5. Append(t, e) = SubSeq(Append(s, e), a + 1, Len(Append(s, e)))
  BY <1>2, <1>3, <1>4, SeqEqual
<1> QED
  BY <1>5 DEF t

\* Without its last entry a sequence is what the entry was appended to.
LEMMA ButLast ==
  ASSUME NEW S, NEW s \in Seq(S), NEW e \in S
  PROVE  SubSeq(Append(s, e), 1, Len(Append(s, e)) - 1) = s
<1>1. SubSeq(Append(s, e), 1, Len(s)) = SubSeq(s, 1, Len(s))
  <2>1. 0 \in Nat /\ Len(s) \in 0..Len(s) /\ 0 + 1 = 1
    OBVIOUS
  <2> QED
    BY <2>1, StretchKept
<1>2. Len(Append(s, e)) - 1 = Len(s)
  OBVIOUS
<1> QED
  BY <1>1, <1>2, SubSeqFull
=============================================================================
