-------------------------- MODULE MediaCache_proof --------------------------
(***************************************************************************)
(* Proofs about MediaCache, for any files, readers, viewers and sizes: the *)
(* media I/O scheduler is never lost, a finished cache file is whole, a    *)
(* pinned one is never taken away, and the cache passes its limit by no    *)
(* more than two of its writers have reserved.                             *)
(*                                                                         *)
(* Partial outputs have fixed names.  That a finished file is whole        *)
(* depends on every partial output having one writer, who is at work       *)
(* (FilesInv): a reader by the scheduler (LineInv), the leader of a        *)
(* preview by its call (CallInv), the audio proxy by its runtime           *)
(* (AudioInv).                                                             *)
(*                                                                         *)
(* The limit rests on RoomInv, which counts what the writers at work may   *)
(* still add, and on facts about sums over finite sets.  Those need        *)
(* induction: it is done here by looking at a smallest counterexample.     *)
(***************************************************************************)
EXTENDS MediaCache, FiniteSetTheorems, WellFoundedInduction, TLAPS

-----------------------------------------------------------------------------
(* Sequences without repetition                                            *)

In(q, x) == \E n \in 1 .. Len(q) : q[n] = x
Distinct(q) == \A m, n \in 1 .. Len(q) : q[m] = q[n] => m = n

\* Removing position i keeps the entries before it and shifts the rest.
LEMMA RemoveAtEntries ==
    ASSUME NEW S, NEW q \in Seq(S), NEW i \in 1 .. Len(q)
    PROVE  /\ RemoveAt(q, i) \in Seq(S)
           /\ Len(RemoveAt(q, i)) = Len(q) - 1
           /\ \A n \in 1 .. (Len(q) - 1) :
                 RemoveAt(q, i)[n] = IF n < i THEN q[n] ELSE q[n + 1]
<1> DEFINE head == SubSeq(q, 1, i - 1)  rest == SubSeq(q, i + 1, Len(q))
<1>1. /\ head \in Seq(S) /\ Len(head) = i - 1
      /\ \A n \in 1 .. (i - 1) : head[n] = q[n]
  OBVIOUS
<1>2. /\ rest \in Seq(S) /\ Len(rest) = Len(q) - i
      /\ \A n \in 1 .. (Len(q) - i) : rest[n] = q[i + n]
  OBVIOUS
<1>3. RemoveAt(q, i) = head \o rest BY DEF RemoveAt
<1>. HIDE DEF head, rest
<1>0. Len(q) \in Nat /\ i \in Nat /\ i <= Len(q) OBVIOUS
<1>4. head \o rest \in Seq(S) /\ Len(head \o rest) = Len(q) - 1
  <2>1. head \in Seq(S) /\ Len(head) = i - 1 /\ rest \in Seq(S) /\ Len(rest) = Len(q) - i BY <1>1, <1>2
  <2>. QED BY <2>1
<1>5. ASSUME NEW n \in 1 .. (Len(q) - 1) PROVE (head \o rest)[n] = IF n < i THEN q[n] ELSE q[n + 1]
  <2>1. (head \o rest)[n] = IF n < i THEN head[n] ELSE rest[n - i + 1] BY <1>1, <1>2
  <2>2. CASE n < i BY <1>1, <2>1, <2>2
  <2>3. CASE n >= i
    <3>1. n - i + 1 \in 1 .. (Len(q) - i) /\ i + (n - i + 1) = n + 1 BY <2>3
    <3>2. rest[n - i + 1] = q[i + (n - i + 1)] BY <1>2, <3>1
    <3>. QED BY <2>1, <2>3, <3>1, <3>2
  <2>4. n < i \/ n >= i BY <1>0
  <2>. QED BY <2>2, <2>3, <2>4
<1>. QED BY <1>3, <1>4, <1>5

LEMMA RemoveAtDistinct ==
    ASSUME NEW S, NEW q \in Seq(S), NEW i \in 1 .. Len(q), Distinct(q)
    PROVE  /\ RemoveAt(q, i) \in Seq(S) /\ Distinct(RemoveAt(q, i))
           /\ \A x : In(RemoveAt(q, i), x) <=> In(q, x) /\ x # q[i]
<1> DEFINE r == RemoveAt(q, i)  at(n) == IF n < i THEN n ELSE n + 1
<1>1. r \in Seq(S) /\ Len(r) = Len(q) - 1 /\ \A n \in 1 .. Len(r) : r[n] = q[at(n)]
  BY RemoveAtEntries
<1>2. \A n \in 1 .. Len(r) : at(n) \in 1 .. Len(q) /\ at(n) # i BY <1>1
<1>. HIDE DEF r
<1>3. Distinct(r)
  <2>1. SUFFICES ASSUME NEW m \in 1 .. Len(r), NEW n \in 1 .. Len(r), r[m] = r[n] PROVE m = n
    BY DEF Distinct
  <2>2. at(m) = at(n) BY <1>1, <1>2, <2>1 DEF Distinct
  <2>. QED BY <2>2
<1>4. ASSUME NEW x, In(r, x) PROVE In(q, x) /\ x # q[i]
  <2>1. PICK n \in 1 .. Len(r) : r[n] = x BY <1>4 DEF In
  <2>. QED BY <1>1, <1>2, <2>1 DEF In, Distinct
<1>5. ASSUME NEW x, In(q, x), x # q[i] PROVE In(r, x)
  <2>1. PICK n \in 1 .. Len(q) : q[n] = x BY <1>5 DEF In
  <2>2. CASE n < i
    <3>1. n \in 1 .. Len(r) /\ at(n) = n BY <1>1, <2>2
    <3>. QED BY <1>1, <2>1, <3>1 DEF In
  <2>3. CASE n > i
    <3>1. n - 1 \in 1 .. Len(r) /\ at(n - 1) = n BY <1>1, <2>3
    <3>. QED BY <1>1, <2>1, <3>1 DEF In
  <2>. QED BY <1>5, <2>1, <2>2, <2>3
<1>. QED BY <1>1, <1>3, <1>4, <1>5 DEF r

LEMMA AppendDistinct ==
    ASSUME NEW S, NEW q \in Seq(S), NEW y \in S, Distinct(q), ~In(q, y)
    PROVE  /\ Append(q, y) \in Seq(S) /\ Distinct(Append(q, y)) /\ Append(q, y) # <<>>
           /\ \A x : In(Append(q, y), x) <=> In(q, x) \/ x = y
<1> DEFINE r == Append(q, y)
<1>1. /\ r \in Seq(S) /\ Len(r) = Len(q) + 1 /\ Len(q) \in Nat
      /\ \A n \in 1 .. Len(r) : r[n] = IF n = Len(r) THEN y ELSE q[n]
  OBVIOUS
<1>. HIDE DEF r
<1>2. r # <<>> BY <1>1
<1>3. Distinct(r)
  <2>1. SUFFICES ASSUME NEW m \in 1 .. Len(r), NEW n \in 1 .. Len(r), r[m] = r[n] PROVE m = n
    BY DEF Distinct
  <2>2. \A k \in 1 .. Len(r) : k # Len(r) => k \in 1 .. Len(q) /\ r[k] = q[k] /\ q[k] # y BY <1>1 DEF In
  <2>. QED BY <1>1, <2>1, <2>2 DEF Distinct
<1>4. ASSUME NEW x PROVE In(r, x) <=> In(q, x) \/ x = y
  <2>1. ASSUME In(r, x) PROVE In(q, x) \/ x = y
    <3>1. PICK n \in 1 .. Len(r) : r[n] = x BY <2>1 DEF In
    <3>2. n = Len(r) \/ n \in 1 .. Len(q) BY <1>1
    <3>. QED BY <1>1, <3>1, <3>2 DEF In
  <2>2. ASSUME In(q, x) PROVE In(r, x)
    <3>1. PICK n \in 1 .. Len(q) : q[n] = x BY <2>2 DEF In
    <3>2. n \in 1 .. Len(r) /\ n # Len(r) BY <1>1
    <3>. QED BY <1>1, <3>1, <3>2 DEF In
  <2>3. In(r, y) BY <1>1 DEF In
  <2>. QED BY <2>1, <2>2, <2>3
<1>. QED BY <1>1, <1>2, <1>3, <1>4 DEF r
-----------------------------------------------------------------------------
(* Sums over finite sets                                                   *)

\* What SumFunctionOnSet recurses with: an element of the rest, whichever.
Pick(s) == CHOOSE x \in s : TRUE
Sums(f, S, g) == g = [s \in SUBSET S |-> IF s = {} THEN 0 ELSE f[Pick(s)] + g[s \ {Pick(s)}]]

\* Among some subsets of a finite set one is minimal.
LEMMA MinimalSet ==
    ASSUME NEW S, IsFiniteSet(S), NEW Bad \in SUBSET SUBSET S, Bad # {}
    PROVE  \E V \in Bad : \A W \in SUBSET V : W # V => W \notin Bad
<1>1. Bad \subseteq FiniteSubsetsOf(S) BY FS_Subset DEF FiniteSubsetsOf
<1>2. IsWellFoundedOn(StrictSubsetOrdering(S), FiniteSubsetsOf(S))
  BY FS_StrictSubsetOrderingWellFounded
<1>3. PICK V \in Bad : \A W \in Bad : <<W, V>> \notin StrictSubsetOrdering(S)
  BY <1>1, <1>2, WFMin
<1>4. ASSUME NEW W \in SUBSET V, W # V, W \in Bad PROVE FALSE
  <2>1. <<W, V>> \in StrictSubsetOrdering(S) BY <1>4 DEF StrictSubsetOrdering
  <2>. QED BY <1>3, <1>4, <2>1
<1>. QED BY <1>4

LEMMA PickFacts == \A s : s # {} => Pick(s) \in s /\ s \ {Pick(s)} \in SUBSET s /\ s \ {Pick(s)} # s
BY DEF Pick

LEMMA SumsAt ==
    ASSUME NEW f, NEW S, NEW g, Sums(f, S, g), NEW V \in SUBSET S
    PROVE  g[V] = IF V = {} THEN 0 ELSE f[Pick(V)] + g[V \ {Pick(V)}]
BY DEF Sums

\* Two recursions agree where both are defined.
LEMMA SumsAgree ==
    ASSUME NEW f, NEW S, IsFiniteSet(S), NEW T, NEW g, NEW h, Sums(f, S, g), Sums(f, T, h),
           NEW V \in SUBSET S, V \in SUBSET T
    PROVE  g[V] = h[V]
<1>. DEFINE Bad == {W \in SUBSET S : W \in SUBSET T /\ g[W] # h[W]}
<1>. SUFFICES ASSUME Bad # {} PROVE FALSE OBVIOUS
<1>20. Bad \in SUBSET SUBSET S OBVIOUS
<1>1. PICK W \in Bad : \A X \in SUBSET W : X # W => X \notin Bad
  <2>. HIDE DEF Bad
  <2>. QED BY <1>20, MinimalSet
<1>2. /\ g[W] = IF W = {} THEN 0 ELSE f[Pick(W)] + g[W \ {Pick(W)}]
      /\ h[W] = IF W = {} THEN 0 ELSE f[Pick(W)] + h[W \ {Pick(W)}]
  <2>0. W \in SUBSET S /\ W \in SUBSET T OBVIOUS
  <2>. HIDE DEF Bad
  <2>1. g[W] = IF W = {} THEN 0 ELSE f[Pick(W)] + g[W \ {Pick(W)}] BY <2>0 DEF Sums
  <2>2. h[W] = IF W = {} THEN 0 ELSE f[Pick(W)] + h[W \ {Pick(W)}] BY <2>0 DEF Sums
  <2>. QED BY <2>1, <2>2
<1>3. W # {} BY <1>2
<1>4. g[W \ {Pick(W)}] = h[W \ {Pick(W)}] BY <1>1, <1>3, PickFacts
<1>. QED BY <1>2, <1>4

LEMMA SumsExist == ASSUME NEW f, NEW S, IsFiniteSet(S) PROVE \E g : Sums(f, S, g)
<1>. DEFINE Bad == {V \in SUBSET S : ~ \E g : Sums(f, V, g)}
<1>. SUFFICES ASSUME Bad # {} PROVE FALSE OBVIOUS
<1>20. Bad \in SUBSET SUBSET S OBVIOUS
<1>1. PICK V \in Bad : \A W \in SUBSET V : W # V => W \notin Bad
  <2>. HIDE DEF Bad
  <2>. QED BY <1>20, MinimalSet
<1>. DEFINE G(W) == CHOOSE g : Sums(f, W, g)
            g == [s \in SUBSET V |-> IF s = {} THEN 0 ELSE f[Pick(s)] + G(s \ {Pick(s)})[s \ {Pick(s)}]]
<1>2. \A W \in SUBSET V : W # V => Sums(f, W, G(W)) BY <1>1
<1>3. \A s \in SUBSET V : IsFiniteSet(s) BY FS_Subset
<1>4. ASSUME NEW s \in SUBSET V, s # {} PROVE g[s \ {Pick(s)}] = G(s \ {Pick(s)})[s \ {Pick(s)}]
  <2>. DEFINE W == s \ {Pick(s)}  X == W \ {Pick(W)}
  <2>1. W \in SUBSET V /\ W # V /\ IsFiniteSet(W) BY <1>3, <1>4, PickFacts
  <2>2. Sums(f, W, G(W)) BY <1>2, <2>1
  <2>4. g[W] = IF W = {} THEN 0 ELSE f[Pick(W)] + G(X)[X] BY <2>1
  <2>. HIDE DEF G
  <2>3. G(W)[W] = IF W = {} THEN 0 ELSE f[Pick(W)] + G(W)[X]
    <3>1. W \in SUBSET W OBVIOUS
    <3>. HIDE DEF W
    <3>. QED BY <2>2, <3>1, SumsAt
  <2>5. W # {} => G(W)[X] = G(X)[X]
    <3>1. SUFFICES ASSUME W # {} PROVE G(W)[X] = G(X)[X] OBVIOUS
    <3>2. X \in SUBSET W /\ X # W BY <3>1, PickFacts
    <3>3. X \in SUBSET V /\ X # V BY <2>1, <3>2
    <3>4. Sums(f, X, G(X)) BY <1>2, <3>3
    <3>. HIDE DEF W, X
    <3>. QED BY <2>1, <2>2, <3>2, <3>4, SumsAgree
  <2>. QED BY <2>3, <2>4, <2>5
<1>5. \A s \in SUBSET V : g[s] = IF s = {} THEN 0 ELSE f[Pick(s)] + G(s \ {Pick(s)})[s \ {Pick(s)}] OBVIOUS
<1>6. g = [s \in SUBSET V |-> g[s]] OBVIOUS
<1>. HIDE DEF g, G
<1>7. g = [s \in SUBSET V |-> IF s = {} THEN 0 ELSE f[Pick(s)] + g[s \ {Pick(s)}]] BY <1>4, <1>5, <1>6
<1>8. Sums(f, V, g) BY <1>7 DEF Sums
<1>. QED BY <1>1, <1>8

LEMMA SumIs ==
    ASSUME NEW f, NEW S, IsFiniteSet(S)
    PROVE  \E g : Sums(f, S, g) /\ SumFunctionOnSet(f, S) = g[S]
<1>. DEFINE iter == CHOOSE g : g = [s \in SUBSET S |-> IF s = {} THEN 0 ELSE f[CHOOSE x \in s : TRUE] + g[s \ {CHOOSE x \in s : TRUE}]]
<1>1. SumFunctionOnSet(f, S) = iter[S] BY DEF SumFunctionOnSet, FoldFunctionOnSet, MapThenFoldSet
<1>2. \E g : Sums(f, S, g) BY SumsExist
<1>3. Sums(f, S, iter) BY <1>2 DEF Sums, Pick
<1>. QED BY <1>1, <1>3

\* The recursion as a fact about sums.
LEMMA SumRec ==
    ASSUME NEW f, NEW S, IsFiniteSet(S)
    PROVE  SumFunctionOnSet(f, S) =
             IF S = {} THEN 0 ELSE f[Pick(S)] + SumFunctionOnSet(f, S \ {Pick(S)})
<1>. DEFINE T == S \ {Pick(S)}
<1>1. PICK g : Sums(f, S, g) /\ SumFunctionOnSet(f, S) = g[S] BY SumIs
<1>2. g[S] = IF S = {} THEN 0 ELSE f[Pick(S)] + g[T] BY <1>1, SumsAt
<1>3. IsFiniteSet(T) /\ T \in SUBSET S BY FS_Subset
<1>. HIDE DEF T
<1>4. PICK h : Sums(f, T, h) /\ SumFunctionOnSet(f, T) = h[T] BY <1>3, SumIs
<1>5. g[T] = h[T] BY <1>1, <1>3, <1>4, SumsAgree
<1>. QED BY <1>1, <1>2, <1>4, <1>5 DEF T

LEMMA SumNat ==
    ASSUME NEW S, IsFiniteSet(S), NEW f \in [S -> Nat], NEW T \in SUBSET S
    PROVE  SumFunctionOnSet(f, T) \in Nat
<1>. DEFINE Bad == {V \in SUBSET S : SumFunctionOnSet(f, V) \notin Nat}
<1>. SUFFICES ASSUME Bad # {} PROVE FALSE OBVIOUS
<1>20. Bad \in SUBSET SUBSET S OBVIOUS
<1>1. PICK V \in Bad : \A W \in SUBSET V : W # V => W \notin Bad
  <2>. HIDE DEF Bad
  <2>. QED BY <1>20, MinimalSet
<1>2. IsFiniteSet(V) BY FS_Subset
<1>3. SumFunctionOnSet(f, V) = IF V = {} THEN 0 ELSE f[Pick(V)] + SumFunctionOnSet(f, V \ {Pick(V)})
  BY <1>2, SumRec
<1>4. V # {} BY <1>1, <1>3
<1>5. SumFunctionOnSet(f, V \ {Pick(V)}) \in Nat BY <1>1, <1>4, PickFacts
<1>6. Pick(V) \in S BY <1>4, PickFacts
<1>7. f[Pick(V)] \in Nat BY <1>6
<1>. QED BY <1>1, <1>3, <1>4, <1>5, <1>7

\* Whichever element is taken first.
LEMMA SumSplit ==
    ASSUME NEW S, IsFiniteSet(S), NEW f \in [S -> Nat], NEW T \in SUBSET S, NEW x \in T
    PROVE  SumFunctionOnSet(f, T) = f[x] + SumFunctionOnSet(f, T \ {x})
<1>. DEFINE Sum(V) == SumFunctionOnSet(f, V)
            Bad == {V \in SUBSET S : \E y \in V : Sum(V) # f[y] + Sum(V \ {y})}
<1>. SUFFICES ASSUME Bad # {} PROVE FALSE OBVIOUS
<1>0. \A V \in SUBSET S : Sum(V) \in Nat BY SumNat
<1>20. Bad \in SUBSET SUBSET S OBVIOUS
<1>1. PICK V \in Bad : \A W \in SUBSET V : W # V => W \notin Bad
  <2>. HIDE DEF Bad
  <2>. QED BY <1>20, MinimalSet
<1>2. PICK y \in V : Sum(V) # f[y] + Sum(V \ {y}) BY <1>1
<1>. DEFINE z == Pick(V)
<1>3. z \in V BY <1>2, PickFacts
<1>4. Sum(V) = f[z] + Sum(V \ {z})
  <2>1. IsFiniteSet(V) BY FS_Subset
  <2>. QED BY <1>3, <2>1, SumRec
<1>. HIDE DEF z
<1>5. y # z BY <1>2, <1>4
<1>6. Sum(V \ {z}) = f[y] + Sum((V \ {z}) \ {y})
  <2>1. V \ {z} \in SUBSET V /\ V \ {z} # V /\ y \in V \ {z} BY <1>3, <1>5
  <2>2. V \ {z} \notin Bad BY <1>1, <2>1
  <2>. QED BY <2>1, <2>2
<1>7. Sum(V \ {y}) = f[z] + Sum((V \ {y}) \ {z})
  <2>1. V \ {y} \in SUBSET V /\ V \ {y} # V /\ z \in V \ {y} BY <1>3, <1>5
  <2>2. V \ {y} \notin Bad BY <1>1, <2>1
  <2>. QED BY <2>1, <2>2
<1>8. (V \ {y}) \ {z} = (V \ {z}) \ {y} OBVIOUS
<1>9. f[y] \in Nat /\ f[z] \in Nat /\ Sum((V \ {z}) \ {y}) \in Nat
  <2>1. (V \ {z}) \ {y} \in SUBSET S OBVIOUS
  <2>. QED BY <1>0, <1>3, <2>1
<1>. DEFINE rest == Sum((V \ {z}) \ {y})
<1>10. Sum(V) = f[z] + (f[y] + rest) BY <1>4, <1>6
<1>11. Sum(V \ {y}) = f[z] + rest BY <1>7, <1>8
<1>12. f[y] \in Nat /\ f[z] \in Nat /\ rest \in Nat BY <1>9
<1>. HIDE DEF rest
<1>13. f[z] + (f[y] + rest) = f[y] + (f[z] + rest) BY <1>12
<1>. HIDE DEF Sum
<1>. QED BY <1>2, <1>10, <1>11, <1>13

\* A sum is no larger for smaller values, less what is lost altogether.
LEMMA SumLoses ==
    ASSUME NEW S, IsFiniteSet(S), NEW f \in [S -> Nat], NEW g \in [S -> Nat], NEW lost \in SUBSET S,
           NEW T \in SUBSET S,
           \A x \in T : g[x] <= f[x], \A x \in lost : g[x] = 0
    PROVE  SumFunctionOnSet(g, T) + SumFunctionOnSet(f, lost \cap T) <= SumFunctionOnSet(f, T)
<1>. DEFINE Sf(V) == SumFunctionOnSet(f, V)
            Sg(V) == SumFunctionOnSet(g, V)
            Bad == {V \in SUBSET T : ~(Sg(V) + Sf(lost \cap V) <= Sf(V))}
<1>. SUFFICES ASSUME Bad # {} PROVE FALSE OBVIOUS
<1>0. /\ \A V \in SUBSET S : Sf(V) \in Nat /\ Sg(V) \in Nat
      /\ Sf({}) = 0 /\ Sg({}) = 0
  BY SumNat, SumRec, FS_EmptySet
<1>1. PICK V \in Bad : \A W \in SUBSET V : W # V => W \notin Bad
  <2>1. IsFiniteSet(T) /\ Bad \in SUBSET SUBSET T BY FS_Subset
  <2>. HIDE DEF Bad
  <2>. QED BY <2>1, MinimalSet
<1>2. V \in SUBSET S /\ ~(Sg(V) + Sf(lost \cap V) <= Sf(V)) OBVIOUS
<1>3. V # {}
  <2>1. lost \cap {} = {} OBVIOUS
  <2>. QED BY <1>0, <1>2, <2>1
<1>4. PICK x \in V : TRUE BY <1>3
<1>. DEFINE W == V \ {x}
<1>5. W \in SUBSET V /\ W # V /\ W \in SUBSET S BY <1>4
<1>6. Sg(W) + Sf(lost \cap W) <= Sf(W)
  <2>1. W \notin Bad BY <1>1, <1>5
  <2>. QED BY <1>5, <2>1
<1>7. Sf(V) = f[x] + Sf(W) /\ Sg(V) = g[x] + Sg(W) BY <1>2, SumSplit
<1>8. x \in lost => Sf(lost \cap V) = f[x] + Sf(lost \cap W)
  <2>1. lost \cap V \in SUBSET S /\ (lost \cap V) \ {x} = lost \cap W BY <1>2
  <2>2. x \in lost => Sf(lost \cap V) = f[x] + Sf((lost \cap V) \ {x}) BY <2>1, SumSplit
  <2>. QED BY <2>1, <2>2
<1>9. x \notin lost => lost \cap V = lost \cap W OBVIOUS
<1>10. /\ f[x] \in Nat /\ g[x] \in Nat /\ g[x] <= f[x] /\ (x \in lost => g[x] = 0)
       /\ Sf(W) \in Nat /\ Sg(W) \in Nat /\ Sf(lost \cap W) \in Nat
  <2>1. x \in T /\ x \in S BY <1>4
  <2>2. lost \cap W \in SUBSET S OBVIOUS
  <2>. QED BY <1>0, <1>5, <2>1, <2>2
<1>. HIDE DEF Sf, Sg, W
<1>11. CASE x \in lost BY <1>2, <1>6, <1>7, <1>8, <1>10, <1>11
<1>12. CASE x \notin lost BY <1>2, <1>6, <1>7, <1>9, <1>10, <1>12
<1>. QED BY <1>11, <1>12
-----------------------------------------------------------------------------
(* The invariant                                                           *)

\* What a reader wants is known from its first look on.
ReqTyped ==
    /\ req = [r \in Readers |-> [at |-> req[r].at, want |-> req[r].want, priority |-> req[r].priority]]
    /\ \A r \in Readers : ~At(r, "idle") => Want(r) \in Chunks \cup Originals
LineTyped == ioActive \in BOOLEAN /\ waiters \in Seq(Readers) /\ holding \subseteq Readers
DiskTyped == disk \in [Paths -> File]
AudioType == [status : {"none", "idle", "queued", "processing", "ready", "error"},
              priority : {"preload", "current"}, cancelled : BOOLEAN,
              at : {"off", "queued", "reserve", "encode"}]
OthersTyped == viewer = [v \in Viewers |-> viewer[v]] /\ audio \in AudioType
Typed == ReqTyped /\ LineTyped /\ DiskTyped /\ OthersTyped

\* The scheduler has one holder, who needs it; the others wait, each once.
HolderInv ==
    /\ ioActive <=> holding # {}
    /\ \A r, s \in holding : r = s
    /\ waiters # <<>> => ioActive
Placed(r) ==
    /\ In(waiters, r) => At(r, "wait") /\ r \notin holding
    /\ At(r, "wait") => r \in holding \/ In(waiters, r)
    /\ r \in holding => ~At(r, "idle")
    /\ At(r, "make") \/ At(r, "copy") => r \in holding
LineInv == HolderInv /\ Distinct(waiters) /\ \A r \in Readers : Placed(r)

\* One request makes the preview while its call runs.
Leads(v) == viewer[v] \in {"slot", "make"}
CallInv ==
    /\ \A v \in Viewers : Leads(v) => call = "running"
    /\ \A u, v \in Viewers : Leads(u) /\ Leads(v) => u = v

\* The proxy is started again only after its goroutine has ended.
AudioInv == Restarts => audio.at = "off"

\* b is writing d.
Writes(b, d) ==
    \/ b \in Readers /\ At(b, "copy") /\ Want(b) = d
    \/ b \in Viewers /\ viewer[b] = "make" /\ d = Preview
    \/ b = "audio" /\ audio.at = "encode" /\ d = Audio

FileInv(d) ==
    /\ Exists(Partial(d)) => Writes(disk[Partial(d)].by, d)
    /\ Exists(Final(d)) => disk[Final(d)].whole /\ disk[Final(d)].by = ""
FilesInv == \A d \in Dests : FileInv(d)

IInv == Typed /\ LineInv /\ CallInv /\ AudioInv /\ FilesInv

\* What the cache holds next to the thumbnail, and what the writers at work
\* (one reader, one preview, one proxy) may still add: whoever reserved last
\* found room for itself, so that the others' outputs are what goes beyond.
Counted == Paths \ {Final(Thumb)}
Used    == SumFunctionOnSet(Bytes, Counted)
Copies(r) == At(r, "make") \/ At(r, "copy")
Makes(v)  == viewer[v] = "make"
Encodes   == audio.at = "encode"
Covers(c, p, a) ==
    /\ \A r \in Readers : Copies(r) => Size[Want(r)] <= c
    /\ \A v \in Viewers : Makes(v) => Size[Preview] <= p
    /\ Encodes => Size[Audio] <= a
RoomInv == \E c, p, a \in Nat, over \in Overshoots :
    Covers(c, p, a) /\ Used + c + p + a <= MaxBytes + over

LEMMA InitInv == Init => IInv
<1>. SUFFICES ASSUME Init PROVE IInv OBVIOUS
<1>1. \A r \in Readers : req[r] = Unasked BY DEF Init
<1>2. Unasked.at = "idle" BY DEF Unasked
<1>3. ReqTyped
  <2>1. Unasked = [at |-> Unasked.at, want |-> Unasked.want, priority |-> Unasked.priority] BY DEF Unasked
  <2>2. req = [r \in Readers |-> Unasked] BY DEF Init
  <2>. HIDE DEF Unasked
  <2>3. req = [r \in Readers |-> [at |-> req[r].at, want |-> req[r].want, priority |-> req[r].priority]]
    BY <2>1, <2>2
  <2>. QED BY <1>1, <1>2, <2>3 DEF ReqTyped, At
<1>4. LineTyped /\ OthersTyped
  <2>0. waiters = <<>> /\ <<>> \in Seq(Readers) BY DEF Init
  <2>1. LineTyped BY <2>0 DEF Init, LineTyped
  <2>2. audio \in AudioType BY DEF Init, AudioType
  <2>3. viewer = [v \in Viewers |-> viewer[v]] BY DEF Init
  <2>. QED BY <2>1, <2>2, <2>3 DEF OthersTyped
<1>5. DiskTyped BY DEF Init, CacheInit, DiskTyped, Nothing, File
<1>6. LineInv
  <2>1. HolderInv BY DEF Init, HolderInv
  <2>2. Distinct(waiters) /\ \A r : ~In(waiters, r) BY DEF Init, Distinct, In
  <2>3. \A r \in Readers : Placed(r) BY <1>1, <1>2, <2>2 DEF Init, Placed, At
  <2>. QED BY <2>1, <2>2, <2>3 DEF LineInv
<1>7. CallInv /\ AudioInv BY DEF Init, CallInv, Leads, AudioInv, Restarts
<1>8. FilesInv BY DEF Init, CacheInit, FilesInv, FileInv, Exists, Final, Partial, Paths
<1>. QED BY <1>3, <1>4, <1>5, <1>6, <1>7, <1>8 DEF IInv, Typed

-----------------------------------------------------------------------------
(* The scheduler and its readers                                           *)

\* Reader r comes to a place.
ReqMoves(r, place) == ReqTyped' /\ req'[r].at = place /\ \A s \in Readers \ {r} : req'[s] = req[s]

LEMMA GoesDoes ==
    ASSUME ReqTyped, NEW r \in Readers, NEW place, ~At(r, "idle"), Goes(r, place)
    PROVE  ReqMoves(r, place) /\ req'[r].want = Want(r)
<1> DEFINE e == [at |-> place, want |-> Want(r), priority |-> req[r].priority]
<1>1. req[r] = [at |-> req[r].at, want |-> req[r].want, priority |-> req[r].priority] BY DEF ReqTyped
<1>2. req' = [req EXCEPT ![r] = [req[r] EXCEPT !.at = place]] BY DEF Goes
<1>5. [req[r] EXCEPT !.at = place] = e BY <1>1 DEF Want
<1>3. e.at = place /\ e.want = Want(r) /\ e = [at |-> e.at, want |-> e.want, priority |-> e.priority]
  OBVIOUS
<1>4. Want(r) \in Chunks \cup Originals BY DEF ReqTyped
<1>. HIDE DEF e
<1>6. req' = [req EXCEPT ![r] = e] BY <1>2, <1>5
<1>. QED BY <1>6, <1>3, <1>4 DEF ReqTyped, ReqMoves, At, Want

LEMMA RestsDoes ==
    ASSUME ReqTyped, NEW r \in Readers, req' = [req EXCEPT ![r] = Unasked]
    PROVE  ReqMoves(r, "idle")
<1>1. Unasked.at = "idle" BY DEF Unasked
<1>2. Unasked = [at |-> Unasked.at, want |-> Unasked.want, priority |-> Unasked.priority] BY DEF Unasked
<1>. HIDE DEF Unasked
<1>. QED BY <1>1, <1>2 DEF ReqTyped, ReqMoves, At, Want

LineOK == LineTyped /\ LineInv

\* Who does not move keeps its place in the line when nothing else changes for it.
LEMMA OthersPlaced ==
    ASSUME NEW s \in Readers, Placed(s), req'[s] = req[s],
           In(waiters', s) <=> In(waiters, s), s \in holding' <=> s \in holding
    PROVE  Placed(s)'
<1>1. At(s, "wait")' <=> At(s, "wait") BY DEF At
<1>2. At(s, "idle")' <=> At(s, "idle") BY DEF At
<1>3. At(s, "make")' <=> At(s, "make") BY DEF At
<1>4. At(s, "copy")' <=> At(s, "copy") BY DEF At
<1>5. In(waiters, s)' <=> In(waiters', s) BY DEF In
<1>. QED BY <1>1, <1>2, <1>3, <1>4, <1>5 DEF Placed

LEMMA LineMoves ==
    ASSUME LineOK, NEW r \in Readers, NEW place, ReqMoves(r, place), place # "wait", UNCHANGED io,
           \/ r \in holding /\ place # "idle"
           \/ r \notin holding /\ place \notin {"make", "copy"} /\ ~At(r, "wait")
    PROVE  LineOK'
<1>1. ioActive' = ioActive /\ holding' = holding /\ waiters' = waiters BY DEF io
<1>2. LineTyped' BY <1>1 DEF LineOK, LineTyped
<1>3. HolderInv' BY <1>1 DEF LineOK, LineInv, HolderInv
<1>4. Distinct(waiters)' BY <1>1 DEF LineOK, LineInv, Distinct
<1>5. ASSUME NEW s \in Readers PROVE Placed(s)'
  <2>1. Placed(s) BY DEF LineOK, LineInv
  <2>2. CASE s # r
    <3>1. req'[s] = req[s] BY <2>2 DEF ReqMoves
    <3>. QED BY <1>1, <2>1, <3>1, OthersPlaced
  <2>3. CASE s = r
    <3>1. req'[r].at = place BY DEF ReqMoves
    <3>2. ~In(waiters, r) BY <2>1, <2>3 DEF Placed
    <3>3. ~In(waiters, r)' BY <1>1, <3>2 DEF In
    <3>. QED BY <1>1, <2>3, <3>1, <3>3 DEF Placed, At
  <2>. QED BY <2>2, <2>3
<1>. QED BY <1>2, <1>3, <1>4, <1>5 DEF LineOK, LineInv

LEMMA LineJoins ==
    ASSUME LineOK, NEW r \in Readers, ReqMoves(r, "wait"), At(r, "idle"), Acquire(r)
    PROVE  LineOK'
<1>1. ~In(waiters, r) /\ r \notin holding BY DEF LineOK, LineInv, Placed, At
<1>2. \A s \in Readers : s # r => req'[s] = req[s] BY DEF ReqMoves
<1>3. req'[r].at = "wait" BY DEF ReqMoves
<1>4. waiters \in Seq(Readers) /\ Distinct(waiters) BY DEF LineOK, LineTyped, LineInv
<1>5. CASE Free
  <2>1. holding = {} /\ waiters = <<>> BY <1>5 DEF Free, LineOK, LineInv, HolderInv
  <2>2. ioActive' = TRUE /\ holding' = {r} /\ waiters' = waiters BY <1>5, <2>1 DEF Acquire
  <2>3. LineTyped' BY <1>4, <2>2 DEF LineTyped
  <2>4. HolderInv' BY <2>1, <2>2 DEF HolderInv
  <2>5. Distinct(waiters)' BY <1>4, <2>2 DEF Distinct
  <2>6. ASSUME NEW s \in Readers PROVE Placed(s)'
    <3>1. CASE s = r
      <4>1. ~In(waiters, r)' BY <1>1, <2>2 DEF In
      <4>. QED BY <1>3, <2>2, <3>1, <4>1 DEF Placed, At
    <3>2. CASE s # r
      <4>1. Placed(s) BY DEF LineOK, LineInv
      <4>2. s \in holding' <=> s \in holding BY <2>1, <2>2, <3>2
      <4>. QED BY <1>2, <2>2, <3>2, <4>1, <4>2, OthersPlaced
    <3>. QED BY <3>1, <3>2
  <2>. QED BY <2>3, <2>4, <2>5, <2>6 DEF LineOK, LineInv
<1>6. CASE ~Free
  <2>1. ioActive BY <1>6 DEF Free
  <2>2. waiters' = Append(waiters, r) /\ ioActive' = ioActive /\ holding' = holding BY <1>6 DEF Acquire
  <2>3. /\ waiters' \in Seq(Readers) /\ Distinct(waiters')
        /\ \A x : In(waiters', x) <=> In(waiters, x) \/ x = r
    BY <1>1, <1>4, <2>2, AppendDistinct
  <2>4. LineTyped' BY <2>2, <2>3 DEF LineOK, LineTyped
  <2>5. HolderInv' BY <2>1, <2>2 DEF LineOK, LineInv, HolderInv
  <2>6. Distinct(waiters)' BY <2>3 DEF Distinct
  <2>7. ASSUME NEW s \in Readers PROVE Placed(s)'
    <3>1. CASE s = r
      <4>1. In(waiters, r)' BY <2>3 DEF In
      <4>2. r \notin holding' BY <1>1, <2>2
      <4>. QED BY <1>3, <3>1, <4>1, <4>2 DEF Placed, At
    <3>2. CASE s # r
      <4>1. Placed(s) BY DEF LineOK, LineInv
      <4>2. In(waiters', s) <=> In(waiters, s) BY <2>3, <3>2
      <4>. QED BY <1>2, <2>2, <3>2, <4>1, <4>2, OthersPlaced
    <3>. QED BY <3>1, <3>2
  <2>. QED BY <2>4, <2>5, <2>6, <2>7 DEF LineOK, LineInv
<1>. QED BY <1>5, <1>6

LEMMA LineGivesUp ==
    ASSUME LineOK, NEW r \in Readers, ReqMoves(r, "idle"), At(r, "wait"), r \notin holding,
           waiters' = LeftQueue(r), UNCHANGED <<ioActive, holding>>
    PROVE  LineOK'
<1> DEFINE i == CHOOSE n \in 1 .. Len(waiters) : waiters[n] = r
<1>1. In(waiters, r) BY DEF LineOK, LineInv, Placed
<1>2. i \in 1 .. Len(waiters) /\ waiters[i] = r BY <1>1 DEF In
<1>3. waiters' = RemoveAt(waiters, i) BY DEF LeftQueue
<1>. HIDE DEF i
<1>4. waiters \in Seq(Readers) /\ Distinct(waiters) BY DEF LineOK, LineTyped, LineInv
<1>5. /\ waiters' \in Seq(Readers) /\ Distinct(waiters')
      /\ \A x : In(waiters', x) <=> In(waiters, x) /\ x # r
  BY <1>2, <1>3, <1>4, RemoveAtDistinct
<1>6. \A s \in Readers : s # r => req'[s] = req[s] BY DEF ReqMoves
<1>7. ioActive
  <2>1. waiters # <<>> BY <1>2, <1>4
  <2>. QED BY <2>1 DEF LineOK, LineInv, HolderInv
<1>8. ioActive' = ioActive /\ holding' = holding OBVIOUS
<1>9. LineTyped' BY <1>5, <1>8 DEF LineOK, LineTyped
<1>10. HolderInv' BY <1>7, <1>8 DEF LineOK, LineInv, HolderInv
<1>11. Distinct(waiters)' BY <1>5 DEF Distinct
<1>12. ASSUME NEW s \in Readers PROVE Placed(s)'
  <2>1. CASE s = r
    <3>1. ~In(waiters, r)' BY <1>5 DEF In
    <3>2. req'[r].at = "idle" BY DEF ReqMoves
    <3>. QED BY <1>8, <2>1, <3>1, <3>2 DEF Placed, At
  <2>2. CASE s # r
    <3>1. Placed(s) BY DEF LineOK, LineInv
    <3>2. In(waiters', s) <=> In(waiters, s) BY <1>5, <2>2
    <3>. QED BY <1>6, <1>8, <2>2, <3>1, <3>2, OthersPlaced
  <2>. QED BY <2>1, <2>2
<1>. QED BY <1>9, <1>10, <1>11, <1>12 DEF LineOK, LineInv

\* A reader leaves, and who waits longest at the highest priority is next.
LEMMA LineLeaves ==
    ASSUME LineOK, NEW r \in Readers, NEW place, ReqMoves(r, place), place \notin {"wait", "make", "copy"},
           r \in holding, Release(r)
    PROVE  LineOK'
<1>1. holding = {r} /\ ~In(waiters, r) BY DEF LineOK, LineInv, HolderInv, Placed
<1>2. waiters \in Seq(Readers) /\ Distinct(waiters) BY DEF LineOK, LineTyped, LineInv
<1>3. \A s \in Readers : s # r => req'[s] = req[s] BY DEF ReqMoves
<1>4. req'[r].at = place BY DEF ReqMoves
<1>5. ASSUME r \notin holding', ~In(waiters', r) PROVE Placed(r)'
  <2>1. ~In(waiters, r)' BY <1>5 DEF In
  <2>. QED BY <1>4, <1>5, <2>1 DEF Placed, At
<1>6. CASE waiters = <<>>
  <2>1. ioActive' = FALSE /\ holding' = {} /\ waiters' = waiters BY <1>1, <1>6 DEF Release
  <2>2. LineTyped' BY <1>2, <2>1 DEF LineTyped
  <2>3. HolderInv' BY <1>6, <2>1 DEF HolderInv
  <2>4. Distinct(waiters)' BY <1>2, <2>1 DEF Distinct
  <2>5. ASSUME NEW s \in Readers PROVE Placed(s)'
    <3>1. CASE s = r BY <1>1, <1>5, <2>1, <3>1
    <3>2. CASE s # r
      <4>1. Placed(s) BY DEF LineOK, LineInv
      <4>2. s \in holding' <=> s \in holding BY <1>1, <2>1, <3>2
      <4>. QED BY <1>3, <2>1, <3>2, <4>1, <4>2, OthersPlaced
    <3>. QED BY <3>1, <3>2
  <2>. QED BY <2>2, <2>3, <2>4, <2>5 DEF LineOK, LineInv
<1>7. CASE waiters # <<>>
  <2>1. PICK i \in 1 .. Len(waiters) :
          waiters' = RemoveAt(waiters, i) /\ holding' = (holding \ {r}) \cup {waiters[i]} /\ UNCHANGED ioActive
    BY <1>7 DEF Release
  <2>. DEFINE next == waiters[i]
  <2>2. next \in Readers /\ In(waiters, next) BY <1>2 DEF In
  <2>5. /\ waiters' \in Seq(Readers) /\ Distinct(waiters')
        /\ \A x : In(waiters', x) <=> In(waiters, x) /\ x # next
    BY <1>2, <2>1, RemoveAtDistinct
  <2>3. holding' = {next} BY <1>1, <2>1
  <2>. HIDE DEF next
  <2>4. At(next, "wait") /\ next # r BY <1>1, <2>2 DEF LineOK, LineInv, Placed
  <2>6. ioActive' = ioActive /\ ioActive BY <1>7, <2>1 DEF LineOK, LineInv, HolderInv
  <2>7. LineTyped' BY <2>2, <2>3, <2>5, <2>6 DEF LineOK, LineTyped
  <2>8. HolderInv' BY <2>3, <2>6 DEF HolderInv
  <2>9. Distinct(waiters)' BY <2>5 DEF Distinct
  <2>10. ASSUME NEW s \in Readers PROVE Placed(s)'
    <3>1. CASE s = r BY <1>1, <1>5, <2>3, <2>4, <2>5, <3>1
    <3>2. CASE s = next
      <4>1. ~In(waiters, s)' /\ s \in holding' BY <2>3, <2>5, <3>2 DEF In
      <4>2. req'[s] = req[s] /\ At(s, "wait") BY <1>3, <2>4, <3>2
      <4>. QED BY <4>1, <4>2 DEF Placed, At
    <3>3. CASE s # r /\ s # next
      <4>1. Placed(s) BY DEF LineOK, LineInv
      <4>2. s \in holding' <=> s \in holding BY <1>1, <2>3, <3>3
      <4>3. In(waiters', s) <=> In(waiters, s) BY <2>5, <3>3
      <4>. QED BY <1>3, <3>3, <4>1, <4>2, <4>3, OthersPlaced
    <3>. QED BY <3>1, <3>2, <3>3
  <2>. QED BY <2>7, <2>8, <2>9, <2>10 DEF LineOK, LineInv
<1>. QED BY <1>6, <1>7

LEMMA LeaveDoes ==
    ASSUME ReqTyped, LineOK, NEW r \in Readers, NEW place \in {"idle", "gap"}, NEW drop, ~At(r, "idle"),
           Leave(r, place, drop), r \in holding \/ ~At(r, "wait")
    PROVE  ReqMoves(r, place) /\ LineOK'
<1>1. ReqMoves(r, place)
  <2>1. CASE place = "idle" BY <2>1, RestsDoes DEF Leave
  <2>2. CASE place = "gap" BY <2>2, GoesDoes DEF Leave, Goes
  <2>. QED BY <2>1, <2>2
<1>2. CASE r \in holding BY <1>1, <1>2, LineLeaves DEF Leave
<1>3. CASE r \notin holding BY <1>1, <1>3, LineMoves DEF Leave
<1>. QED BY <1>1, <1>2, <1>3

-----------------------------------------------------------------------------
(* Files and who writes them                                               *)

LEMMA PathFacts ==
    ASSUME NEW d \in Dests
    PROVE  /\ Final(d) \in Paths /\ Partial(d) \in Paths
           /\ \A e : Final(e) # Partial(d) /\ Final(d) # Partial(e)
           /\ \A e : e # d => Final(e) # Final(d) /\ Partial(e) # Partial(d)
BY DEF Final, Partial, Paths

LEMMA WantIsFile ==
    ASSUME ReqTyped, NEW r \in Readers, ~At(r, "idle")
    PROVE  Want(r) \in Dests /\ Want(r) # Preview /\ Want(r) # Audio
BY MediaAssumption DEF ReqTyped

\* Two do not write the same file, and nobody writes two.
LEMMA OneWriter ==
    ASSUME IInv, NEW b, NEW d, Writes(b, d)
    PROVE  /\ \A c : Writes(c, d) => c = b
           /\ \A e : Writes(b, e) => e = d
<1>1. \A r \in Readers : At(r, "copy") => r \in holding /\ ~At(r, "idle")
  BY DEF IInv, LineInv, Placed, At
<1>2. \A r \in Readers : At(r, "copy") => Want(r) # Preview /\ Want(r) # Audio
  BY <1>1, WantIsFile DEF IInv, Typed
<1>3. \A r, s \in Readers : At(r, "copy") /\ At(s, "copy") => r = s
  BY <1>1 DEF IInv, LineInv, HolderInv
<1>4. \A u, v \in Viewers : viewer[u] = "make" /\ viewer[v] = "make" => u = v
  BY DEF IInv, CallInv, Leads
<1>5. Preview # Audio /\ Readers \cap Viewers = {} /\ "audio" \notin Readers \cup Viewers
  BY MediaAssumption
<1>6. CASE b \in Readers /\ At(b, "copy") /\ Want(b) = d BY <1>2, <1>3, <1>5, <1>6 DEF Writes
<1>7. CASE b \in Viewers /\ viewer[b] = "make" /\ d = Preview BY <1>2, <1>4, <1>5, <1>7 DEF Writes
<1>8. CASE b = "audio" /\ audio.at = "encode" /\ d = Audio BY <1>2, <1>5, <1>8 DEF Writes
<1>. QED BY <1>6, <1>7, <1>8 DEF Writes

\* Who writes d goes on writing it.
WritersStay(d) == \A b : Writes(b, d) => Writes(b, d)'

LEMMA ReaderWriters ==
    ASSUME NEW r \in Readers, NEW place, ReqMoves(r, place), UNCHANGED Others, NEW d,
           ~(At(r, "copy") /\ Want(r) = d)
    PROVE  WritersStay(d)
<1>. SUFFICES ASSUME NEW b, Writes(b, d) PROVE Writes(b, d)' BY DEF WritersStay
<1>1. viewer' = viewer /\ audio' = audio BY DEF Others
<1>2. CASE b \in Readers /\ At(b, "copy") /\ Want(b) = d
  <2>1. b # r BY <1>2
  <2>2. req'[b] = req[b] BY <1>2, <2>1 DEF ReqMoves
  <2>. QED BY <1>2, <2>2 DEF Writes, At, Want
<1>3. CASE b \in Viewers /\ viewer[b] = "make" /\ d = Preview BY <1>1, <1>3 DEF Writes
<1>4. CASE b = "audio" /\ audio.at = "encode" /\ d = Audio BY <1>1, <1>4 DEF Writes
<1>. QED BY <1>2, <1>3, <1>4 DEF Writes

LEMMA ViewerWriters ==
    ASSUME NEW v \in Viewers, UNCHANGED <<req, audio>>, NEW d,
           \A w \in Viewers \ {v} : viewer[w] = "make" => viewer'[w] = "make",
           d # Preview \/ viewer[v] # "make"
    PROVE  WritersStay(d)
BY DEF WritersStay, Writes, At, Want

LEMMA AudioWriters ==
    ASSUME UNCHANGED <<req, viewer>>, NEW d,
           d = Audio /\ audio.at = "encode" => audio'.at = "encode"
    PROVE  WritersStay(d)
BY DEF WritersStay, Writes, At, Want

\* The three things a step does to the files: some go, an output is started, an
\* output is finished.
Go(gone) ==
    /\ DiskTyped'
    /\ \A p \in Paths : disk'[p] = IF p \in gone THEN Nothing ELSE disk[p]
Starts(d, w, gone) ==
    /\ DiskTyped'
    /\ disk'[Partial(d)] = Started(w)
    /\ \A p \in Paths \ {Partial(d)} : disk'[p] = IF p \in gone THEN Nothing ELSE disk[p]
Finishes(d) ==
    /\ DiskTyped'
    /\ disk'[Partial(d)] = Nothing
    /\ \/ disk'[Final(d)] = disk[Final(d)]
       \/ disk'[Final(d)].whole /\ disk'[Final(d)].by = ""
    /\ \A e \in Dests \ {d} : disk'[Final(e)] = disk[Final(e)] /\ disk'[Partial(e)] = disk[Partial(e)]

LEMMA NothingIsFile == Nothing \in File /\ Nothing.whole = FALSE /\ Nothing.by = ""
BY DEF Nothing, File

LEMMA DeletedDoes == ASSUME DiskTyped, NEW gone, Deleted(gone) PROVE Go(gone)
BY NothingIsFile DEF Deleted, Go, DiskTyped

LEMMA SameDoes == ASSUME DiskTyped, UNCHANGED disk PROVE Go({})
BY DEF Go, DiskTyped

LEMMA CreatedDoes ==
    ASSUME DiskTyped, NEW d \in Dests, NEW w \in Writers, Created(Partial(d), w)
    PROVE  Starts(d, w, {})
<1>1. Started(w) \in File BY DEF Started, File
<1>. QED BY <1>1, PathFacts DEF Created, Starts, DiskTyped

LEMMA ReservedDoes ==
    ASSUME DiskTyped, NEW d \in Dests, NEW w \in Writers, NEW gone, NEW short,
           Reserved(gone, Partial(d), w, short)
    PROVE  Starts(d, w, gone \cup Evicted(Size[d], short))
<1>1. Started(w) \in File BY DEF Started, File
<1>2. Partial(d)[1] = d BY DEF Partial
<1>. DEFINE all == gone \cup Evicted(Size[d], short)
<1>3. disk' = [q \in Paths |-> IF q = Partial(d) THEN Started(w) ELSE IF q \in all THEN Nothing ELSE disk[q]]
  BY <1>2 DEF Reserved
<1>. HIDE DEF all
<1>4. Starts(d, w, all) BY <1>1, <1>3, PathFacts, NothingIsFile DEF Starts, DiskTyped
<1>. QED BY <1>4 DEF all

LEMMA CompletedDoes ==
    ASSUME IInv, NEW d \in Dests, NEW w \in Writers, Writes(w, d), Completed(w, d)
    PROVE  Finishes(d)
<1>. DEFINE done == [p \in Paths |-> IF disk[p].by = w THEN [disk[p] EXCEPT !.by = "", !.whole = TRUE]
                                    ELSE disk[p]]
<1>1. DiskTyped /\ FilesInv BY DEF IInv, Typed
<1>2. w # "" BY CacheAssumption
<1>3. \A e \in Dests : disk[Final(e)].by # w
  BY <1>1, <1>2, NothingIsFile DEF FilesInv, FileInv, Exists
<1>4. ASSUME NEW e \in Dests, disk[Partial(e)].by = w PROVE e = d
  <2>1. Exists(Partial(e)) BY <1>2, <1>4, NothingIsFile DEF Exists
  <2>2. Writes(w, e) BY <1>1, <1>4, <2>1 DEF FilesInv, FileInv
  <2>. QED BY <2>2, OneWriter
<1>5. Exists(Partial(d)) => disk[Partial(d)].by = w
  BY <1>1, OneWriter DEF FilesInv, FileInv
<1>6. \A e \in Dests : /\ done[Final(e)] = disk[Final(e)]
                       /\ e # d => done[Partial(e)] = disk[Partial(e)]
  BY <1>3, <1>4, PathFacts
<1>7. done \in [Paths -> File]
  <2>1. ASSUME NEW p \in Paths PROVE done[p] \in File
    <3>1. disk[p] \in File BY <1>1 DEF DiskTyped
    <3>2. [disk[p] EXCEPT !.by = "", !.whole = TRUE] \in File BY <3>1 DEF File
    <3>. QED BY <3>1, <3>2
  <2>. QED BY <2>1
<1>8. CASE Exists(Partial(d))
  <2>. DEFINE f == [done[Partial(d)] EXCEPT !.fresh = FALSE]
  <2>1. done[Partial(d)] = [disk[Partial(d)] EXCEPT !.by = "", !.whole = TRUE]
    BY <1>5, <1>8, PathFacts
  <2>2. disk[Partial(d)] \in File BY <1>1, PathFacts DEF DiskTyped
  <2>3. f \in File /\ f.whole /\ f.by = "" BY <2>1, <2>2 DEF File
  <2>4. disk' = [done EXCEPT ![Final(d)] = f, ![Partial(d)] = Nothing]
    BY <1>8 DEF Completed, Renamed
  <2>. HIDE DEF f, done
  <2>5. DiskTyped' BY <1>7, <2>3, <2>4, NothingIsFile DEF DiskTyped
  <2>6. disk'[Final(d)] = f /\ disk'[Partial(d)] = Nothing
    BY <1>7, <2>4, PathFacts
  <2>7. \A e \in Dests \ {d} : disk'[Final(e)] = done[Final(e)] /\ disk'[Partial(e)] = done[Partial(e)]
    BY <1>7, <2>4, PathFacts
  <2>. QED BY <1>6, <2>3, <2>5, <2>6, <2>7 DEF Finishes
<1>9. CASE ~Exists(Partial(d))
  <2>1. disk' = done BY <1>9 DEF Completed
  <2>2. done[Partial(d)] = disk[Partial(d)] /\ disk[Partial(d)] = Nothing
    BY <1>2, <1>9, PathFacts, NothingIsFile DEF Exists
  <2>. HIDE DEF done
  <2>. QED BY <1>6, <1>7, <2>1, <2>2 DEF Finishes, DiskTyped
<1>. QED BY <1>8, <1>9

\* What each of the three keeps of the invariant.
LEMMA GoFiles ==
    ASSUME FilesInv, NEW gone, Go(gone),
           \A d \in Dests : Partial(d) \notin gone => WritersStay(d)
    PROVE  FilesInv'
<1>. SUFFICES ASSUME NEW d \in Dests PROVE FileInv(d)' BY DEF FilesInv
<1>1. FileInv(d) BY DEF FilesInv
<1>2. Exists(Partial(d))' => disk'[Partial(d)] = disk[Partial(d)] /\ WritersStay(d)
  BY PathFacts DEF Go, Exists
<1>3. Exists(Final(d))' => disk'[Final(d)] = disk[Final(d)] BY PathFacts DEF Go, Exists
<1>. QED BY <1>1, <1>2, <1>3 DEF FileInv, Exists, WritersStay

LEMMA StartsFiles ==
    ASSUME FilesInv, NEW d \in Dests, NEW w, NEW gone, Starts(d, w, gone), Writes(w, d)',
           \A e \in Dests \ {d} : Partial(e) \notin gone => WritersStay(e)
    PROVE  FilesInv'
<1>. SUFFICES ASSUME NEW e \in Dests PROVE FileInv(e)' BY DEF FilesInv
<1>1. FileInv(e) BY DEF FilesInv
<1>2. Exists(Final(e))' => disk'[Final(e)] = disk[Final(e)] BY PathFacts DEF Starts, Exists
<1>3. CASE e = d
  <2>1. disk'[Partial(d)].by = w BY DEF Starts, Started
  <2>. QED BY <1>1, <1>2, <1>3, <2>1 DEF FileInv, Exists
<1>4. CASE e # d
  <2>1. Exists(Partial(e))' => disk'[Partial(e)] = disk[Partial(e)] /\ WritersStay(e)
    BY <1>4, PathFacts DEF Starts, Exists
  <2>. QED BY <1>1, <1>2, <2>1 DEF FileInv, Exists, WritersStay
<1>. QED BY <1>3, <1>4

LEMMA FinishesFiles ==
    ASSUME FilesInv, NEW d \in Dests, Finishes(d), \A e \in Dests \ {d} : WritersStay(e)
    PROVE  FilesInv'
<1>. SUFFICES ASSUME NEW e \in Dests PROVE FileInv(e)' BY DEF FilesInv
<1>1. FileInv(e) BY DEF FilesInv
<1>2. CASE e = d
  <2>1. ~Exists(Partial(d))' BY DEF Finishes, Exists
  <2>2. Exists(Final(d))' => disk'[Final(d)].whole /\ disk'[Final(d)].by = ""
    BY <1>1, <1>2 DEF Finishes, FileInv, Exists
  <2>. QED BY <1>2, <2>1, <2>2 DEF FileInv
<1>3. CASE e # d
  <2>1. disk'[Final(e)] = disk[Final(e)] /\ disk'[Partial(e)] = disk[Partial(e)] /\ WritersStay(e)
    BY <1>3 DEF Finishes
  <2>. QED BY <1>1, <2>1 DEF FileInv, Exists, WritersStay
<1>. QED BY <1>2, <1>3

\* A finished file that is pinned is kept by a step.
PinsKept == \A d \in Dests : Exists(Final(d)) /\ PathPinned(Final(d)) => disk'[Final(d)] # Nothing
Spares(gone) == \A d \in Dests : Final(d) \in gone => ~Exists(Final(d)) \/ ~PathPinned(Final(d))

LEMMA EvictedSpares == \A reserve, short : Spares(Evicted(reserve, short))
BY DEF Spares, Evicted, Candidates, Candidate
LEMMA PartialSpared == \A d \in Dests : Spares({Partial(d)}) BY PathFacts DEF Spares
LEMMA BothSpare == ASSUME NEW g, NEW h, Spares(g), Spares(h) PROVE Spares(g \cup h) BY DEF Spares

LEMMA GoSpares == ASSUME NEW gone, Go(gone), Spares(gone) PROVE PinsKept
BY PathFacts DEF Go, Spares, PinsKept, Exists
LEMMA StartsSpares ==
    ASSUME NEW d \in Dests, NEW w, NEW gone, Starts(d, w, gone), Spares(gone) PROVE PinsKept
BY PathFacts DEF Starts, Spares, PinsKept, Exists
LEMMA FinishesSpares == ASSUME NEW d \in Dests, Finishes(d) PROVE PinsKept
BY NothingIsFile DEF Finishes, PinsKept, Exists

-----------------------------------------------------------------------------
(* Room                                                                    *)

LEMMA SizeFacts ==
    /\ IsFiniteSet(Paths) /\ Size \in [Dests -> Nat \ {0}] /\ MaxBytes \in Nat
    /\ Preview \in Dests /\ Audio \in Dests /\ Thumb \in Dests /\ Preview # Thumb /\ Audio # Thumb
    /\ \A d \in Chunks \cup Originals : d \in Dests /\ d # Thumb
    /\ \A over \in Overshoots : over \in Nat
<1>1. IsFiniteSet(Dests) /\ Size \in [Dests -> Nat \ {0}] /\ MaxBytes \in Nat BY CacheAssumption
<1>2. IsFiniteSet({"final", "tmp"})
  <2>1. IsFiniteSet({"final"}) BY FS_Singleton
  <2>2. {"final", "tmp"} = {"final"} \cup {"tmp"} OBVIOUS
  <2>. QED BY <2>1, <2>2, FS_AddElement
<1>3. IsFiniteSet(Paths) BY <1>1, <1>2, FS_Product DEF Paths
<1>4. /\ Preview \in Dests /\ Audio \in Dests /\ Thumb \in Dests /\ Preview # Thumb /\ Audio # Thumb
      /\ \A d \in Chunks \cup Originals : d \in Dests /\ d # Thumb
  BY MediaAssumption
<1>5. \A over \in Overshoots : over \in Nat
  <2>1. \A d \in Dests : Size[d] \in Nat BY <1>1
  <2>2. ASSUME NEW d \in Dests, NEW e \in Dests PROVE Size[d] + Size[e] \in Nat BY <2>1
  <2>. QED BY <1>4, <2>2 DEF Overshoots
<1>. QED BY <1>1, <1>3, <1>4, <1>5

\* No path but the thumbnail's counts for more than it did.
LighterAt(p) == (disk'[p].whole => disk[p].whole)
Lighter == \A p \in Counted : LighterAt(p)

LEMMA BytesFacts ==
    ASSUME DiskTyped
    PROVE  /\ Bytes \in [Paths -> Nat]
           /\ \A p \in Paths : Bytes[p] = IF disk[p].whole THEN Size[p[1]] ELSE 0
           /\ Used \in Nat /\ Total \in Nat /\ Counted \in SUBSET Paths
<1>1. \A p \in Paths : p[1] \in Dests BY DEF Paths
<1>2. \A p \in Paths : Size[p[1]] \in Nat BY <1>1, SizeFacts
<1>3. \A p \in Paths : Bytes[p] = IF disk[p].whole THEN Size[p[1]] ELSE 0 BY DEF Bytes
<1>4. Bytes \in [Paths -> Nat] BY <1>2 DEF Bytes
<1>5. Counted \in SUBSET Paths BY DEF Counted
<1>. QED BY <1>3, <1>4, <1>5, SizeFacts, SumNat DEF Used, Total

LEMMA NewBytesFacts ==
    ASSUME DiskTyped'
    PROVE  /\ Bytes' \in [Paths -> Nat]
           /\ \A p \in Paths : Bytes'[p] = IF disk'[p].whole THEN Size[p[1]] ELSE 0
           /\ Used' \in Nat /\ Total' \in Nat
<1>1. \A p \in Paths : p[1] \in Dests BY DEF Paths
<1>2. \A p \in Paths : Size[p[1]] \in Nat BY <1>1, SizeFacts
<1>3. \A p \in Paths : Bytes'[p] = IF disk'[p].whole THEN Size[p[1]] ELSE 0 BY DEF Bytes
<1>4. Bytes' \in [Paths -> Nat] BY <1>2 DEF Bytes
<1>5. Counted \in SUBSET Paths BY DEF Counted
<1>6. SumFunctionOnSet(Bytes', Counted) \in Nat /\ SumFunctionOnSet(Bytes', Paths) \in Nat
  BY <1>4, <1>5, SizeFacts, SumNat
<1>. QED BY <1>3, <1>4, <1>6 DEF Used, Total, Counted

LEMMA LighterBytes ==
    ASSUME DiskTyped, DiskTyped', NEW p \in Paths, LighterAt(p)
    PROVE  Bytes'[p] <= Bytes[p]
<1>1. Bytes'[p] = IF disk'[p].whole THEN Size[p[1]] ELSE 0 BY NewBytesFacts
<1>2. Bytes[p] = IF disk[p].whole THEN Size[p[1]] ELSE 0 BY BytesFacts
<1>3. Bytes[p] \in Nat /\ Bytes'[p] \in Nat BY BytesFacts, NewBytesFacts
<1>. QED BY <1>1, <1>2, <1>3 DEF LighterAt

LEMMA LighterUsed == ASSUME DiskTyped, DiskTyped', Lighter PROVE Used' <= Used
<1>1. \A p \in Counted : Bytes'[p] <= Bytes[p] BY LighterBytes, BytesFacts DEF Lighter
<1>2. Bytes \in [Paths -> Nat] /\ Bytes' \in [Paths -> Nat] /\ Counted \in SUBSET Paths
  BY BytesFacts, NewBytesFacts
<1>3. {} \in SUBSET Paths /\ {} \cap Counted = {} OBVIOUS
<1>4. SumFunctionOnSet(Bytes', Counted) + SumFunctionOnSet(Bytes, {} \cap Counted)
        <= SumFunctionOnSet(Bytes, Counted)
  BY <1>1, <1>2, <1>3, SizeFacts, SumLoses
<1>5. SumFunctionOnSet(Bytes, {}) = 0 BY FS_EmptySet, SumRec
<1>6. Used' = SumFunctionOnSet(Bytes', Counted) /\ Used = SumFunctionOnSet(Bytes, Counted)
  BY DEF Used, Counted
<1>. QED BY <1>3, <1>4, <1>5, <1>6, NewBytesFacts

LEMMA GoLighter == ASSUME NEW gone, Go(gone) PROVE \A p \in Paths : LighterAt(p)
BY NothingIsFile DEF Go, LighterAt
LEMMA StartsLighter ==
    ASSUME NEW d \in Dests, NEW w, NEW gone, Starts(d, w, gone) PROVE \A p \in Paths : LighterAt(p)
<1>. TAKE p \in Paths
<1>1. CASE p = Partial(d) BY <1>1 DEF Starts, Started, LighterAt
<1>2. CASE p # Partial(d) BY <1>2, NothingIsFile DEF Starts, LighterAt
<1>. QED BY <1>1, <1>2
LEMMA AllLighter == ASSUME \A p \in Paths : LighterAt(p) PROVE Lighter
BY DEF Lighter, Counted

\* A finished output counts for its size.
LEMMA FinishesUsed ==
    ASSUME DiskTyped, NEW d \in Dests, d # Thumb, Finishes(d)
    PROVE  DiskTyped' /\ Used' <= Used + Size[d]
<1>. DEFINE F == Final(d)  Rest == Counted \ {F}
<1>1. DiskTyped' BY DEF Finishes
<1>2. F \in Counted /\ F[1] = d BY PathFacts, SizeFacts DEF Counted, Final, Paths
<1>3. ASSUME NEW p \in Rest PROVE Bytes'[p] <= Bytes[p]
  <2>1. PICK e \in Dests : p = Final(e) \/ p = Partial(e) BY DEF Counted, Paths, Final, Partial
  <2>2. LighterAt(p)
    <3>1. CASE e = d
      <4>1. p = Partial(d) BY <2>1, <3>1
      <4>. QED BY <4>1, NothingIsFile DEF Finishes, LighterAt
    <3>2. CASE e # d BY <2>1, <3>2 DEF Finishes, LighterAt
    <3>. QED BY <3>1, <3>2
  <2>. QED BY <1>1, <2>2, LighterBytes, BytesFacts
<1>4. /\ Bytes \in [Paths -> Nat] /\ Bytes' \in [Paths -> Nat] /\ Counted \in SUBSET Paths
      /\ Rest \in SUBSET Paths
  BY <1>1, BytesFacts, NewBytesFacts
<1>. HIDE DEF F, Rest
<1>5. {} \in SUBSET Paths /\ {} \cap Rest = {} OBVIOUS
<1>6. SumFunctionOnSet(Bytes', Rest) + SumFunctionOnSet(Bytes, {} \cap Rest) <= SumFunctionOnSet(Bytes, Rest)
  BY <1>3, <1>4, <1>5, SizeFacts, SumLoses
<1>7. SumFunctionOnSet(Bytes, {}) = 0 BY FS_EmptySet, SumRec
<1>8. Used' = Bytes'[F] + SumFunctionOnSet(Bytes', Rest)
  <2>1. SumFunctionOnSet(Bytes', Counted) = Bytes'[F] + SumFunctionOnSet(Bytes', Counted \ {F})
    BY <1>2, <1>4, SizeFacts, SumSplit
  <2>. QED BY <2>1 DEF Used, Counted, Rest
<1>9. Used = Bytes[F] + SumFunctionOnSet(Bytes, Rest)
  <2>1. SumFunctionOnSet(Bytes, Counted) = Bytes[F] + SumFunctionOnSet(Bytes, Counted \ {F})
    BY <1>2, <1>4, SizeFacts, SumSplit
  <2>. QED BY <2>1 DEF Used, Rest
<1>10. /\ Bytes[F] \in Nat /\ Bytes'[F] \in Nat /\ Bytes'[F] <= Size[d] /\ Size[d] \in Nat
       /\ SumFunctionOnSet(Bytes', Rest) \in Nat /\ SumFunctionOnSet(Bytes, Rest) \in Nat
  <2>1. F \in Paths BY <1>2, <1>4
  <2>2. Bytes'[F] = IF disk'[F].whole THEN Size[d] ELSE 0 BY <1>1, <1>2, <2>1, NewBytesFacts
  <2>3. Size[d] \in Nat BY SizeFacts
  <2>. QED BY <1>4, <2>1, <2>2, <2>3, SizeFacts, SumNat
<1>. QED BY <1>1, <1>5, <1>6, <1>7, <1>8, <1>9, <1>10

\* Who may reserve finds room for its output next to all that is left.
LEMMA RoomFound ==
    ASSUME DiskTyped, DiskTyped', NEW size \in Nat, NEW short, EnoughWhenEvicted(size, short),
           \A p \in Paths : LighterAt(p),
           \A p \in Evicted(size, short) : ~disk'[p].whole
    PROVE  Used' + size <= MaxBytes
<1>. DEFINE out == Evicted(size, short)
<1>1. out \in SUBSET Paths /\ out \cap Paths = out BY DEF Evicted, Candidates
<1>2. Total - SumFunctionOnSet(Bytes, out) + size <= MaxBytes BY DEF EnoughWhenEvicted, FreedBy
<1>. HIDE DEF out
<1>3. /\ Bytes \in [Paths -> Nat] /\ Bytes' \in [Paths -> Nat] /\ Paths \in SUBSET Paths
      /\ Used' \in Nat /\ Total' \in Nat /\ Total \in Nat
  BY BytesFacts, NewBytesFacts
<1>4. \A p \in Paths : Bytes'[p] <= Bytes[p] BY LighterBytes
<1>5. \A p \in out : Bytes'[p] = 0 BY <1>1, NewBytesFacts DEF out
<1>6. SumFunctionOnSet(Bytes', Paths) + SumFunctionOnSet(Bytes, out \cap Paths) <= SumFunctionOnSet(Bytes, Paths)
  BY <1>1, <1>3, <1>4, <1>5, SizeFacts, SumLoses
<1>7. Total' = SumFunctionOnSet(Bytes', Paths) /\ Total = SumFunctionOnSet(Bytes, Paths) BY DEF Total, Paths
<1>8. Used' <= Total'
  <2>1. Final(Thumb) \in Paths BY SizeFacts, PathFacts
  <2>2. SumFunctionOnSet(Bytes', Paths)
          = Bytes'[Final(Thumb)] + SumFunctionOnSet(Bytes', Paths \ {Final(Thumb)})
    BY <1>3, <2>1, SizeFacts, SumSplit
  <2>3. Total' = Bytes'[Final(Thumb)] + Used' BY <1>7, <2>2 DEF Used, Counted
  <2>4. Bytes'[Final(Thumb)] \in Nat BY <1>3, <2>1
  <2>. QED BY <1>3, <2>3, <2>4
<1>9. SumFunctionOnSet(Bytes, out) \in Nat BY <1>1, <1>3, SizeFacts, SumNat
<1>. DEFINE u == Used'  t == Total  n == Total'  f == SumFunctionOnSet(Bytes, out)
<1>10. /\ u \in Nat /\ t \in Nat /\ n \in Nat /\ f \in Nat /\ MaxBytes \in Nat
       /\ t - f + size <= MaxBytes /\ n + f <= t /\ u <= n
  BY <1>1, <1>2, <1>3, <1>6, <1>7, <1>8, <1>9, SizeFacts
<1>. HIDE DEF u, t, n, f
<1>11. u + size <= MaxBytes BY <1>10
<1>. QED BY <1>11 DEF u

LEMMA StartsFindRoom ==
    ASSUME DiskTyped, NEW d \in Dests, NEW e \in Dests, NEW w, NEW gone, Starts(e, w, gone), NEW short,
           EnoughWhenEvicted(Size[d], short),
           \A p \in Evicted(Size[d], short) : p \in Paths /\ p \in gone
    PROVE  Used' + Size[d] <= MaxBytes
<1>1. ASSUME NEW p \in Evicted(Size[d], short) PROVE ~disk'[p].whole
  <2>1. CASE p = Partial(e) BY <2>1 DEF Starts, Started
  <2>2. CASE p # Partial(e) BY <2>2, NothingIsFile DEF Starts
  <2>. QED BY <2>1, <2>2
<1>2. DiskTyped' /\ Size[d] \in Nat BY SizeFacts DEF Starts
<1>3. \A p \in Paths : LighterAt(p) BY StartsLighter
<1>. QED BY <1>1, <1>2, <1>3, RoomFound

\* Nobody begins to write.
KeepsWork ==
    /\ \A r \in Readers : Copies(r)' => Copies(r) /\ Want(r)' = Want(r)
    /\ \A v \in Viewers : Makes(v)' => Makes(v)
    /\ Encodes' => Encodes
RoomKept == RoomInv => RoomInv'

LEMMA Less ==
    ASSUME NEW u \in Nat, NEW c \in Nat, NEW p \in Nat, NEW a \in Nat, NEW limit \in Nat,
           u + c + p + a <= limit, NEW v \in Nat, v <= u
    PROVE  v + c + p + a <= limit
OBVIOUS
LEMMA Spent ==
    ASSUME NEW u \in Nat, NEW c \in Nat, NEW p \in Nat, NEW a \in Nat, NEW limit \in Nat,
           u + c + p + a <= limit, NEW v \in Nat, NEW size \in Nat, v <= u + size
    PROVE  /\ size <= c => v + 0 + p + a <= limit
           /\ size <= p => v + c + 0 + a <= limit
           /\ size <= a => v + c + p + 0 <= limit
OBVIOUS
LEMMA Beyond ==
    ASSUME NEW u \in Nat, NEW size \in Nat, NEW limit \in Nat, u + size <= limit,
           NEW x \in Nat, NEW y \in Nat, NEW z \in Nat, x + y <= z
    PROVE  /\ u + size + x + y <= limit + z
           /\ u + x + size + y <= limit + z
           /\ u + x + y + size <= limit + z
OBVIOUS

LEMMA RoomThen ==
    ASSUME NEW c \in Nat, NEW p \in Nat, NEW a \in Nat, NEW over \in Overshoots, Covers(c, p, a)',
           Used' + c + p + a <= MaxBytes + over
    PROVE  RoomInv'
<1>1. over \in Overshoots' BY DEF Overshoots
<1>. QED BY <1>1 DEF RoomInv

LEMMA RoomStays ==
    ASSUME DiskTyped, DiskTyped', Lighter, KeepsWork
    PROVE  RoomKept
<1>. SUFFICES ASSUME RoomInv PROVE RoomInv' BY DEF RoomKept
<1>1. PICK c \in Nat, p \in Nat, a \in Nat, over \in Overshoots :
        Covers(c, p, a) /\ Used + c + p + a <= MaxBytes + over
  BY DEF RoomInv
<1>2. Covers(c, p, a)' BY <1>1 DEF Covers, KeepsWork
<1>3. Used' <= Used /\ Used \in Nat /\ Used' \in Nat BY LighterUsed, BytesFacts, NewBytesFacts
<1>4. over \in Nat /\ MaxBytes \in Nat BY SizeFacts
<1>. DEFINE u == Used  v == Used'  limit == MaxBytes + over
<1>5. limit \in Nat /\ u \in Nat /\ v \in Nat /\ v <= u /\ u + c + p + a <= limit BY <1>1, <1>3, <1>4
<1>. HIDE DEF u, v, limit
<1>6. v + c + p + a <= limit BY <1>5, Less
<1>. QED BY <1>2, <1>6, RoomThen DEF v, limit

\* A writer that finishes uses what it has reserved.
LEMMA RoomFinishes ==
    ASSUME DiskTyped, NEW d \in Dests, d # Thumb, Finishes(d), KeepsWork,
           \/ \E r \in Readers : Copies(r) /\ Want(r) = d /\ \A s \in Readers : ~Copies(s)'
           \/ d = Preview /\ (\E w \in Viewers : Makes(w)) /\ \A w \in Viewers : ~Makes(w)'
           \/ d = Audio /\ Encodes /\ ~Encodes'
    PROVE  RoomKept
<1>. SUFFICES ASSUME RoomInv PROVE RoomInv' BY DEF RoomKept
<1>1. PICK c \in Nat, p \in Nat, a \in Nat, over \in Overshoots :
        Covers(c, p, a) /\ Used + c + p + a <= MaxBytes + over
  BY DEF RoomInv
<1>2. Used' <= Used + Size[d] /\ Used \in Nat /\ Used' \in Nat /\ Size[d] \in Nat
  BY FinishesUsed, BytesFacts, NewBytesFacts, SizeFacts
<1>. DEFINE u == Used  v == Used'  limit == MaxBytes + over  size == Size[d]
<1>3. /\ limit \in Nat /\ u \in Nat /\ v \in Nat /\ size \in Nat /\ v <= u + size
      /\ u + c + p + a <= limit
  BY <1>1, <1>2, SizeFacts
<1>. HIDE DEF u, v, limit, size
<1>4. /\ size <= c => v + 0 + p + a <= limit
      /\ size <= p => v + c + 0 + a <= limit
      /\ size <= a => v + c + p + 0 <= limit
  BY <1>3, Spent
<1>5. CASE \E r \in Readers : Copies(r) /\ Want(r) = d /\ \A s \in Readers : ~Copies(s)'
  <2>1. size <= c /\ Covers(0, p, a)' BY <1>1, <1>5 DEF Covers, KeepsWork, size
  <2>. QED BY <1>4, <2>1, RoomThen DEF v, limit
<1>6. CASE d = Preview /\ (\E w \in Viewers : Makes(w)) /\ \A w \in Viewers : ~Makes(w)'
  <2>1. size <= p /\ Covers(c, 0, a)' BY <1>1, <1>6 DEF Covers, KeepsWork, size
  <2>. QED BY <1>4, <2>1, RoomThen DEF v, limit
<1>7. CASE d = Audio /\ Encodes /\ ~Encodes'
  <2>1. size <= a /\ Covers(c, p, 0)' BY <1>1, <1>7 DEF Covers, KeepsWork, size
  <2>. QED BY <1>4, <2>1, RoomThen DEF v, limit
<1>. QED BY <1>5, <1>6, <1>7

\* A writer that has just found room leaves the outputs of the other two beyond.
LEMMA RoomReserved ==
    ASSUME IInv', NEW size \in Nat, Used' + size <= MaxBytes,
           \/ \E r \in Readers : Copies(r)' /\ size = Size[Want(r)']
           \/ size = Size[Preview]
           \/ size = Size[Audio]
    PROVE  RoomInv'
<1>1. DiskTyped' /\ Used' \in Nat BY NewBytesFacts DEF IInv, Typed
<1>2. MaxBytes \in Nat /\ Size[Preview] \in Nat /\ Size[Audio] \in Nat BY SizeFacts
<1>3. ASSUME NEW r \in Readers, Copies(r)'
      PROVE  /\ Want(r)' \in Chunks \cup Originals /\ Size[Want(r)'] \in Nat
             /\ \A s \in Readers : Copies(s)' => s = r
  <2>1. \A s \in Readers : Copies(s)' => s \in holding' BY DEF IInv, LineInv, Placed, Copies
  <2>2. \A s \in Readers : Copies(s)' => s = r BY <1>3, <2>1 DEF IInv, LineInv, HolderInv
  <2>3. Want(r)' \in Chunks \cup Originals BY <1>3 DEF IInv, Typed, ReqTyped, Copies, At
  <2>4. Want(r)' \in Dests BY <2>3, SizeFacts
  <2>. QED BY <2>2, <2>3, <2>4, SizeFacts
<1>. DEFINE u == Used'  P == Size[Preview]  A == Size[Audio]
<1>0. u \in Nat /\ P \in Nat /\ A \in Nat /\ u + size <= MaxBytes BY <1>1, <1>2
<1>. HIDE DEF u, P, A
<1>4. u \in Nat /\ P \in Nat /\ A \in Nat /\ P <= P /\ A <= A /\ u + size <= MaxBytes BY <1>0
<1>5. P + A \in Overshoots /\ P + A \in Nat BY <1>4 DEF Overshoots, P, A
<1>6. CASE \E r \in Readers : Copies(r)' /\ size = Size[Want(r)']
  <2>1. PICK r \in Readers : Copies(r)' /\ size = Size[Want(r)'] BY <1>6
  <2>2. \A s \in Readers : Copies(s)' => Size[Want(s)'] <= size BY <1>3, <2>1
  <2>3. Covers(size, P, A)' BY <1>4, <2>2 DEF Covers, P, A
  <2>4. u + size + P + A <= MaxBytes + (P + A) BY <1>2, <1>4, <1>5, Beyond
  <2>. QED BY <1>4, <1>5, <2>3, <2>4, RoomThen DEF u
<1>7. PICK c \in Nat : /\ \A s \in Readers : Copies(s)' => Size[Want(s)'] <= c
                       /\ c = 0 \/ (c + P \in Overshoots /\ c + A \in Overshoots)
  <2>1. CASE \E r \in Readers : Copies(r)'
    <3>1. PICK r \in Readers : Copies(r)' BY <2>1
    <3>2. \A s \in Readers : Copies(s)' => Size[Want(s)'] <= Size[Want(r)'] BY <1>3, <3>1
    <3>3. Size[Want(r)'] + P \in Overshoots /\ Size[Want(r)'] + A \in Overshoots
      BY <1>3, <3>1 DEF Overshoots, P, A
    <3>. QED BY <1>3, <3>1, <3>2, <3>3
  <2>2. CASE ~ \E r \in Readers : Copies(r)' BY <2>2
  <2>. QED BY <2>1, <2>2
<1>8. Covers(c, P, A)' BY <1>4, <1>7 DEF Covers, P, A
<1>9. (\E over \in Overshoots : over \in Nat /\ c + P <= over) /\ \E over \in Overshoots : over \in Nat /\ c + A <= over
  <2>1. CASE c = 0
    <3>1. c + P <= P + A /\ c + A <= P + A BY <1>4, <2>1
    <3>. QED BY <1>5, <3>1
  <2>2. CASE c + P \in Overshoots /\ c + A \in Overshoots
    <3>1. c + P \in Nat /\ c + A \in Nat /\ c + P <= c + P /\ c + A <= c + A BY <1>4
    <3>. QED BY <2>2, <3>1
  <2>. QED BY <1>7, <2>1, <2>2
<1>10. CASE size = Size[Preview]
  <2>1. PICK over \in Overshoots : over \in Nat /\ c + A <= over BY <1>9
  <2>2. u + c + size + A <= MaxBytes + over BY <1>2, <1>4, <2>1, Beyond
  <2>3. u + c + P + A <= MaxBytes + over BY <1>10, <2>2 DEF P
  <2>. QED BY <1>4, <1>8, <2>3, RoomThen DEF u
<1>11. CASE size = Size[Audio]
  <2>1. PICK over \in Overshoots : over \in Nat /\ c + P <= over BY <1>9
  <2>2. u + c + P + size <= MaxBytes + over BY <1>2, <1>4, <2>1, Beyond
  <2>3. u + c + P + A <= MaxBytes + over BY <1>11, <2>2 DEF A
  <2>. QED BY <1>4, <1>8, <2>3, RoomThen DEF u
<1>. QED BY <1>6, <1>10, <1>11

\* Who goes on working, when a reader, a viewer or the proxy moves.
LEMMA GoKeepsRoom == ASSUME IInv, NEW gone, Go(gone), KeepsWork PROVE RoomKept
<1>1. DiskTyped /\ DiskTyped' BY DEF IInv, Typed, Go
<1>. QED BY <1>1, GoLighter, AllLighter, RoomStays

LEMMA ReaderKeeps ==
    ASSUME NEW r \in Readers, NEW place, ReqMoves(r, place), UNCHANGED Others,
           \/ place \notin {"make", "copy"}
           \/ Copies(r) /\ req'[r].want = Want(r)
    PROVE  KeepsWork
<1>1. viewer' = viewer /\ audio' = audio BY DEF Others
<1>2. ASSUME NEW s \in Readers, Copies(s)' PROVE Copies(s) /\ Want(s)' = Want(s)
  <2>1. CASE s = r BY <1>2, <2>1 DEF ReqMoves, Copies, At, Want
  <2>2. CASE s # r
    <3>1. req'[s] = req[s] BY <2>2 DEF ReqMoves
    <3>. QED BY <1>2, <3>1 DEF Copies, At, Want
  <2>. QED BY <2>1, <2>2
<1>. QED BY <1>1, <1>2 DEF KeepsWork, Makes, Encodes

LEMMA ViewerKeeps ==
    ASSUME UNCHANGED <<req, audio>>, \A v \in Viewers : Makes(v)' => Makes(v) PROVE KeepsWork
BY DEF KeepsWork, Copies, At, Want, Encodes
LEMMA AudioKeeps == ASSUME UNCHANGED <<req, viewer>>, Encodes' => Encodes PROVE KeepsWork
BY DEF KeepsWork, Copies, At, Want, Makes
LEMMA BystandersKeep == ASSUME UNCHANGED <<req, Others>> PROVE KeepsWork
BY DEF KeepsWork, Copies, At, Want, Makes, Encodes, Others

LEMMA RoomInit == Init => RoomInv
<1>. SUFFICES ASSUME Init PROVE RoomInv OBVIOUS
<1>1. IInv BY InitInv
<1>2. DiskTyped BY <1>1 DEF IInv, Typed
<1>3. \A p \in Paths : ~disk[p].whole BY NothingIsFile DEF Init, CacheInit
<1>4. Bytes \in [Paths -> Nat] /\ Counted \in SUBSET Paths /\ \A p \in Paths : Bytes[p] = 0
  BY <1>2, <1>3, BytesFacts
<1>5. Used = 0
  <2>1. /\ \A p \in Counted : Bytes[p] <= Bytes[p] /\ Bytes[p] = 0
        /\ Counted \cap Counted = Counted
    BY <1>4
  <2>2. SumFunctionOnSet(Bytes, Counted) + SumFunctionOnSet(Bytes, Counted \cap Counted)
          <= SumFunctionOnSet(Bytes, Counted)
    BY <1>4, <2>1, SizeFacts, SumLoses
  <2>3. Used \in Nat BY <1>2, BytesFacts
  <2>. QED BY <2>1, <2>2, <2>3 DEF Used
<1>6. Covers(0, 0, 0)
  <2>1. \A r \in Readers : req[r] = Unasked BY DEF Init
  <2>5. Unasked.at = "idle" BY DEF Unasked
  <2>2. \A r \in Readers : ~Copies(r) BY <2>1, <2>5 DEF Copies, At
  <2>3. \A v \in Viewers : ~Makes(v) BY DEF Init, Makes
  <2>4. ~Encodes BY DEF Init, Encodes
  <2>. QED BY <2>2, <2>3, <2>4 DEF Covers
<1>7. Size[Preview] + Size[Audio] \in Overshoots BY DEF Overshoots
<1>8. \A over \in Overshoots : 0 \in Nat /\ Used + 0 + 0 + 0 <= MaxBytes + over BY <1>5, SizeFacts
<1>. QED BY <1>6, <1>7, <1>8 DEF RoomInv

-----------------------------------------------------------------------------
(* The readers' steps                                                      *)

StepOK == IInv' /\ PinsKept /\ RoomKept

LEMMA ReaderDoes ==
    ASSUME IInv, NEW r \in Readers, NEW place, ReqMoves(r, place), LineOK', UNCHANGED Others,
           DiskTyped', FilesInv'
    PROVE  IInv'
<1>1. viewer' = viewer /\ call' = call /\ audio' = audio BY DEF Others
<1>2. OthersTyped' BY <1>1 DEF IInv, Typed, OthersTyped
<1>3. CallInv' BY <1>1 DEF IInv, CallInv, Leads
<1>4. AudioInv' BY <1>1 DEF IInv, AudioInv, Restarts
<1>. QED BY <1>2, <1>3, <1>4 DEF IInv, Typed, LineOK, ReqMoves

\* A reader that does not touch an output it writes moves, while files go.
LEMMA ReaderGoes ==
    ASSUME IInv, NEW r \in Readers, NEW place, ReqMoves(r, place), LineOK', UNCHANGED Others,
           place \notin {"make", "copy"},
           NEW gone, Go(gone), Spares(gone), At(r, "copy") => Partial(Want(r)) \in gone
    PROVE  StepOK
<1>1. \A d : Partial(d) \notin gone => WritersStay(d) BY ReaderWriters
<1>2. FilesInv' BY <1>1, GoFiles DEF IInv
<1>3. DiskTyped' BY DEF Go
<1>4. RoomKept BY ReaderKeeps, GoKeepsRoom
<1>. QED BY <1>2, <1>3, <1>4, ReaderDoes, GoSpares DEF StepOK

LEMMA ReaderFacts ==
    ASSUME IInv, NEW r \in Readers
    PROVE  /\ ReqTyped /\ LineOK /\ DiskTyped /\ FilesInv /\ r \in Writers
           /\ At(r, "make") \/ At(r, "copy") => r \in holding
           /\ Spares({})
<1>1. r \in Writers BY MediaAssumption
<1>. QED BY <1>1 DEF IInv, Typed, LineOK, LineInv, Placed, Spares

LEMMA LookOK ==
    ASSUME IInv, NEW r \in Readers, NEW d \in Chunks \cup Originals, NEW priority, Look(r, d, priority)
    PROVE  StepOK
<1>. DEFINE hit == Exists(Final(d))
            e == [at |-> IF hit THEN "found" ELSE "wait", want |-> d, priority |-> priority]
<1>1. req' = [req EXCEPT ![r] = e] /\ At(r, "idle") BY DEF Look
<1>2. e = [at |-> e.at, want |-> e.want, priority |-> e.priority] /\ e.want = d OBVIOUS
<1>3. e.at = IF hit THEN "found" ELSE "wait" OBVIOUS
<1>. HIDE DEF e, hit
<1>4. ReqMoves(r, IF hit THEN "found" ELSE "wait")
  BY <1>1, <1>2, <1>3, ReaderFacts DEF ReqMoves, ReqTyped, At, Want
<1>5. LineOK'
  <2>1. CASE hit
    <3>1. UNCHANGED io /\ r \notin holding BY <1>1, <2>1, ReaderFacts DEF Look, hit, LineOK, LineInv, Placed
    <3>. QED BY <1>1, <1>4, <2>1, <3>1, ReaderFacts, LineMoves DEF At
  <2>2. CASE ~hit
    <3>1. Acquire(r) BY <2>2 DEF Look, hit
    <3>. QED BY <1>1, <1>4, <2>2, <3>1, ReaderFacts, LineJoins
  <2>. QED BY <2>1, <2>2
<1>6. UNCHANGED Others /\ UNCHANGED disk BY DEF Look
<1>7. ~At(r, "copy") BY <1>1 DEF At
<1>. QED BY <1>4, <1>5, <1>6, <1>7, ReaderFacts, SameDoes, ReaderGoes

LEMMA GivesUpOK == ASSUME IInv, NEW r \in Readers, GivesUp(r) PROVE StepOK
<1>1. ReqMoves(r, "idle") BY ReaderFacts, RestsDoes DEF GivesUp
<1>2. LineOK' BY <1>1, ReaderFacts, LineGivesUp DEF GivesUp
<1>3. Go({}) BY ReaderFacts, SameDoes DEF GivesUp
<1>4. UNCHANGED Others /\ ~At(r, "copy") BY DEF GivesUp, At
<1>. QED BY <1>1, <1>2, <1>3, <1>4, ReaderFacts, ReaderGoes

\* A reader that goes on to a place without a change of files or scheduler.
LEMMA WalksOK ==
    ASSUME IInv, NEW r \in Readers, NEW place \in {"found", "gap", "open"}, Goes(r, place),
           ~At(r, "idle"), UNCHANGED io, UNCHANGED Others,
           r \in holding \/ ~At(r, "wait"),
           NEW gone, Go(gone), Spares(gone), At(r, "copy") => Partial(Want(r)) \in gone
    PROVE  StepOK
<1>1. ReqMoves(r, place) BY ReaderFacts, GoesDoes
<1>2. LineOK' BY <1>1, ReaderFacts, LineMoves
<1>. QED BY <1>1, <1>2, ReaderGoes

\* A reader that leaves, while files go.
LEMMA LeavesOK ==
    ASSUME IInv, NEW r \in Readers, NEW place \in {"idle", "gap"}, NEW drop, Leave(r, place, drop),
           ~At(r, "idle"), r \in holding \/ ~At(r, "wait"), UNCHANGED Others,
           NEW gone, Go(gone), Spares(gone), At(r, "copy") => Partial(Want(r)) \in gone
    PROVE  StepOK
BY ReaderFacts, LeaveDoes, ReaderGoes

LEMMA RecheckOK == ASSUME IInv, NEW r \in Readers, Recheck(r) PROVE StepOK
<1>1. Go({}) BY ReaderFacts, SameDoes DEF Recheck
<1>2. Goes(r, "found") /\ ~At(r, "idle") /\ ~At(r, "copy") /\ r \in holding /\ UNCHANGED io /\ UNCHANGED Others
  BY DEF Recheck, At
<1>. QED BY <1>1, <1>2, ReaderFacts, WalksOK

LEMMA ReserveOK == ASSUME IInv, NEW r \in Readers, NEW short, Reserve(r, short) PROVE StepOK
<1>. DEFINE own == IF IsChunk(r) THEN {Final(Want(r))} ELSE {}
            gone == own \cup Evicted(Size[Want(r)], short)
<1>1. ~At(r, "idle") /\ ~At(r, "copy") /\ r \in holding /\ UNCHANGED Others BY DEF Reserve, At
<1>2. Deleted(gone) BY DEF Reserve
<1>3. Spares(own)
  <2>1. \A d \in Dests : Final(d) = Final(Want(r)) => ~Exists(Final(d)) BY DEF Reserve, Missing
  <2>. QED BY <2>1 DEF Spares
<1>4. Spares(gone) BY <1>3, EvictedSpares, BothSpare
<1>5. Go(gone) BY <1>2, ReaderFacts, DeletedDoes
<1>6. CASE EnoughWhenEvicted(Size[Want(r)], short)
  <2>1. Goes(r, "make") /\ UNCHANGED io BY <1>6 DEF Reserve
  <2>2. ReqMoves(r, "make") /\ req'[r].want = Want(r) BY <1>1, <2>1, ReaderFacts, GoesDoes
  <2>3. LineOK' BY <1>1, <2>1, <2>2, ReaderFacts, LineMoves
  <2>4. FilesInv'
    <3>1. \A d : WritersStay(d) BY <1>1, <2>2, ReaderWriters
    <3>. QED BY <1>5, <3>1, ReaderFacts, GoFiles
  <2>5. IInv' BY <1>1, <1>5, <2>2, <2>3, <2>4, ReaderDoes DEF Go
  <2>6. Size[Want(r)] \in Nat BY <1>1, ReaderFacts, WantIsFile, SizeFacts
  <2>7. \A p \in Evicted(Size[Want(r)], short) : ~disk'[p].whole
    <3>1. \A p \in Evicted(Size[Want(r)], short) : p \in Paths /\ p \in gone BY DEF Evicted, Candidates
    <3>. HIDE DEF gone
    <3>. QED BY <1>5, <3>1, NothingIsFile DEF Go
  <2>8. Used' + Size[Want(r)] <= MaxBytes
    <3>1. DiskTyped' BY <1>5 DEF Go
    <3>2. \A p \in Paths : LighterAt(p) BY <1>5, GoLighter
    <3>. QED BY <1>6, <2>6, <2>7, <3>1, <3>2, ReaderFacts, RoomFound
  <2>9. Copies(r)' /\ Want(r)' = Want(r) BY <2>2 DEF ReqMoves, Copies, At, Want
  <2>10. RoomInv' BY <2>5, <2>6, <2>8, <2>9, RoomReserved
  <2>11. PinsKept BY <1>4, <1>5, GoSpares
  <2>. QED BY <2>5, <2>10, <2>11 DEF StepOK, RoomKept
<1>7. CASE ~EnoughWhenEvicted(Size[Want(r)], short)
  <2>1. Leave(r, "idle", ChunkPin(r)) BY <1>7 DEF Reserve
  <2>. QED BY <1>1, <1>4, <1>5, <2>1, LeavesOK
<1>. QED BY <1>6, <1>7

LEMMA MakeOK == ASSUME IInv, NEW r \in Readers, Make(r) PROVE StepOK
<1>1. At(r, "make") /\ ~At(r, "idle") /\ ~At(r, "copy") /\ r \in holding BY ReaderFacts DEF Make, At
<1>2. Created(Partial(Want(r)), r) /\ Goes(r, "copy") /\ UNCHANGED io /\ UNCHANGED Others BY DEF Make
<1>3. Want(r) \in Dests BY <1>1, ReaderFacts, WantIsFile
<1>4. ReqMoves(r, "copy") /\ req'[r].want = Want(r) BY <1>1, <1>2, ReaderFacts, GoesDoes
<1>5. LineOK' BY <1>1, <1>2, <1>4, ReaderFacts, LineMoves
<1>6. Starts(Want(r), r, {}) BY <1>2, <1>3, ReaderFacts, CreatedDoes
<1>7. Writes(r, Want(r))' BY <1>4 DEF Writes, ReqMoves, At, Want
<1>8. \A e : WritersStay(e) BY <1>1, <1>2, <1>4, ReaderWriters
<1>9. FilesInv' BY <1>3, <1>6, <1>8, <1>4, ReaderFacts, StartsFiles DEF Writes, ReqMoves, At, Want
<1>10. DiskTyped' BY <1>6 DEF Starts
<1>11. PinsKept BY <1>3, <1>6, ReaderFacts, StartsSpares
<1>12. RoomKept
  <2>1. KeepsWork BY <1>1, <1>2, <1>4, ReaderKeeps DEF Copies
  <2>. QED BY <1>3, <1>6, <1>10, <2>1, ReaderFacts, StartsLighter, AllLighter, RoomStays
<1>. QED BY <1>2, <1>4, <1>5, <1>9, <1>10, <1>11, <1>12, ReaderDoes DEF StepOK

LEMMA MakeFailsOK == ASSUME IInv, NEW r \in Readers, MakeFails(r) PROVE StepOK
<1>1. Go({}) BY ReaderFacts, SameDoes DEF MakeFails
<1>2. Leave(r, "idle", ChunkPin(r)) /\ ~At(r, "idle") /\ ~At(r, "copy") /\ r \in holding /\ UNCHANGED Others
  BY ReaderFacts DEF MakeFails, At
<1>. QED BY <1>1, <1>2, ReaderFacts, LeavesOK

LEMMA CopyFailsOK == ASSUME IInv, NEW r \in Readers, CopyFails(r) PROVE StepOK
<1>1. Leave(r, "idle", ChunkPin(r)) /\ ~At(r, "idle") /\ r \in holding /\ UNCHANGED Others
  BY ReaderFacts DEF CopyFails, At
<1>2. Want(r) \in Dests BY <1>1, ReaderFacts, WantIsFile
<1>3. Go({Partial(Want(r))}) BY ReaderFacts, DeletedDoes DEF CopyFails
<1>4. Spares({Partial(Want(r))}) BY <1>2, PartialSpared
<1>. QED BY <1>1, <1>3, <1>4, LeavesOK

LEMMA CopiedOK == ASSUME IInv, NEW r \in Readers, Copied(r) PROVE StepOK
<1>1. At(r, "copy") /\ ~At(r, "idle") /\ r \in holding /\ UNCHANGED Others
  BY ReaderFacts DEF Copied, At
<1>2. Want(r) \in Dests BY <1>1, ReaderFacts, WantIsFile
<1>3. Writes(r, Want(r)) BY <1>1 DEF Writes
<1>4. Finishes(Want(r)) BY <1>2, <1>3, ReaderFacts, CompletedDoes DEF Copied
<1>5. PICK place \in {"found", "idle"} : ReqMoves(r, place) /\ LineOK'
  <2>1. CASE Exists(Partial(Want(r)))
    <3>1. Goes(r, "found") /\ UNCHANGED io BY <2>1 DEF Copied
    <3>2. ReqMoves(r, "found") BY <1>1, <3>1, ReaderFacts, GoesDoes
    <3>. QED BY <1>1, <3>1, <3>2, ReaderFacts, LineMoves
  <2>2. CASE ~Exists(Partial(Want(r)))
    <3>1. Leave(r, "idle", ChunkPin(r)) BY <2>2 DEF Copied
    <3>. QED BY <1>1, <3>1, ReaderFacts, LeaveDoes
  <2>. QED BY <2>1, <2>2
<1>6. \A e \in Dests \ {Want(r)} : WritersStay(e) BY <1>1, <1>5, ReaderWriters
<1>7. FilesInv' BY <1>2, <1>4, <1>6, ReaderFacts, FinishesFiles
<1>8. DiskTyped' BY <1>4 DEF Finishes
<1>9. PinsKept BY <1>2, <1>4, FinishesSpares
<1>10. IInv' BY <1>1, <1>5, <1>7, <1>8, ReaderDoes
<1>11. RoomKept
  <2>1. KeepsWork BY <1>1, <1>5, ReaderKeeps
  <2>2. Copies(r) BY <1>1 DEF Copies
  <2>3. ASSUME NEW s \in Readers PROVE ~Copies(s)'
    <3>1. CASE s = r BY <1>5, <3>1 DEF ReqMoves, Copies, At
    <3>2. CASE s # r
      <4>1. ~Copies(s)
        <5>1. s \in holding => s = r BY <1>1 DEF IInv, LineInv, HolderInv
        <5>. QED BY <3>2, <5>1, ReaderFacts DEF Copies
      <4>. QED BY <2>1, <4>1 DEF KeepsWork
    <3>. QED BY <3>1, <3>2
  <2>4. Want(r) # Thumb
    <3>1. Want(r) \in Chunks \cup Originals BY <1>1, ReaderFacts DEF ReqTyped
    <3>. QED BY <3>1, SizeFacts
  <2>. QED BY <1>2, <1>4, <2>1, <2>2, <2>3, <2>4, ReaderFacts, RoomFinishes
<1>. QED BY <1>9, <1>10, <1>11 DEF StepOK

LEMMA FoundOK == ASSUME IInv, NEW r \in Readers, Found(r) PROVE StepOK
<1>1. Go({}) BY ReaderFacts, SameDoes DEF Found
<1>2. ~At(r, "idle") /\ ~At(r, "copy") /\ ~At(r, "wait") /\ UNCHANGED Others BY DEF Found, At
<1>3. CASE IsChunk(r)
  <2>1. Leave(r, "gap", ChunkPin(r)) BY <1>3 DEF Found
  <2>. QED BY <1>1, <1>2, <2>1, ReaderFacts, LeavesOK
<1>4. CASE ~IsChunk(r)
  <2>1. Goes(r, "gap") /\ UNCHANGED io BY <1>4 DEF Found
  <2>. QED BY <1>1, <1>2, <2>1, ReaderFacts, WalksOK
<1>. QED BY <1>3, <1>4

LEMMA OpenOK == ASSUME IInv, NEW r \in Readers, Open(r) PROVE StepOK
<1>1. Go({}) BY ReaderFacts, SameDoes DEF Open
<1>2. ~At(r, "idle") /\ ~At(r, "copy") /\ ~At(r, "wait") /\ UNCHANGED Others BY DEF Open, At
<1>3. CASE Exists(Final(Want(r)))
  <2>1. Goes(r, "open") /\ UNCHANGED io BY <1>3 DEF Open
  <2>. QED BY <1>1, <1>2, <2>1, ReaderFacts, WalksOK
<1>4. CASE ~Exists(Final(Want(r)))
  <2>1. Leave(r, "idle", {}) BY <1>4 DEF Open
  <2>. QED BY <1>1, <1>2, <2>1, ReaderFacts, LeavesOK
<1>. QED BY <1>3, <1>4

LEMMA CloseOK == ASSUME IInv, NEW r \in Readers, Close(r) PROVE StepOK
<1>1. Go({}) BY ReaderFacts, SameDoes DEF Close
<1>2. /\ ~At(r, "idle") /\ ~At(r, "copy") /\ ~At(r, "wait") /\ UNCHANGED Others
      /\ Leave(r, "idle", {Final(Want(r))})
  BY DEF Close, At
<1>. QED BY <1>1, <1>2, ReaderFacts, LeavesOK

-----------------------------------------------------------------------------
(* The preview, the audio proxy and the reclaiming                         *)

\* Readers and scheduler stay as they are.
LEMMA LineRests ==
    ASSUME IInv, UNCHANGED io, UNCHANGED req
    PROVE  ReqTyped' /\ LineTyped' /\ LineInv'
<1>1. ioActive' = ioActive /\ holding' = holding /\ waiters' = waiters BY DEF io
<1>2. ReqTyped' BY DEF IInv, Typed, ReqTyped, At, Want
<1>3. LineTyped' BY <1>1 DEF IInv, Typed, LineTyped
<1>4. HolderInv' BY <1>1 DEF IInv, LineInv, HolderInv
<1>5. Distinct(waiters)' BY <1>1 DEF IInv, LineInv, Distinct
<1>6. ASSUME NEW s \in Readers PROVE Placed(s)'
  <2>1. Placed(s) BY DEF IInv, LineInv
  <2>. QED BY <1>1, <2>1, OthersPlaced
<1>. QED BY <1>2, <1>3, <1>4, <1>5, <1>6 DEF LineInv

\* The leader's place and its call.
LEMMA CallMoves ==
    ASSUME IInv, NEW v \in Viewers,
           \A w \in Viewers \ {v} : Leads(w)' => Leads(w),
           Leads(v)' => call' = "running" /\ \A w \in Viewers \ {v} : ~Leads(w),
           call' = call \/ \A w \in Viewers \ {v} : ~Leads(w)
    PROVE  CallInv'
<1>1. CallInv BY DEF IInv
<1>2. ASSUME NEW w \in Viewers, Leads(w)' PROVE call' = "running"
  <2>1. CASE w = v BY <1>2, <2>1
  <2>2. CASE w # v BY <1>1, <1>2, <2>2 DEF CallInv
  <2>. QED BY <2>1, <2>2
<1>3. ASSUME NEW u \in Viewers, NEW w \in Viewers, Leads(u)', Leads(w)' PROVE u = w
  <2>1. CASE u = v \/ w = v BY <1>3, <2>1
  <2>2. CASE u # v /\ w # v BY <1>1, <1>3, <2>2 DEF CallInv
  <2>. QED BY <2>1, <2>2
<1>. QED BY <1>2, <1>3 DEF CallInv

LEMMA ViewerDoes ==
    ASSUME IInv, UNCHANGED <<io, req, audio>>, viewer' = [w \in Viewers |-> viewer'[w]],
           CallInv', FilesInv', DiskTyped'
    PROVE  IInv'
<1>1. OthersTyped' BY DEF IInv, Typed, OthersTyped
<1>2. AudioInv' BY DEF IInv, AudioInv, Restarts
<1>. QED BY <1>1, <1>2, LineRests DEF IInv, Typed

\* A viewer that goes to a place where it does not write, while files go.
LEMMA ViewerGoesOK ==
    ASSUME IInv, NEW v \in Viewers, UNCHANGED <<io, req, audio>>,
           viewer' = [w \in Viewers |-> viewer'[w]], CallInv',
           \A w \in Viewers \ {v} : viewer[w] = "make" => viewer'[w] = "make",
           \A w \in Viewers : viewer'[w] = "make" => viewer[w] = "make",
           NEW gone, Go(gone), Spares(gone), viewer[v] = "make" => Partial(Preview) \in gone
    PROVE  StepOK
<1>1. \A d : Partial(d) \notin gone => WritersStay(d) BY ViewerWriters
<1>2. FilesInv' BY <1>1, GoFiles DEF IInv
<1>3. RoomKept
  <2>1. KeepsWork BY ViewerKeeps DEF Makes
  <2>. QED BY <2>1, GoKeepsRoom
<1>. QED BY <1>2, <1>3, ViewerDoes, GoSpares DEF StepOK, Go

LEMMA ToldDoes ==
    ASSUME IInv, NEW v \in Viewers, NEW result, Leads(v), Told(v, result)
    PROVE  /\ CallInv' /\ viewer' = [w \in Viewers |-> viewer'[w]]
           /\ \A w \in Viewers \ {v} : viewer[w] = "make" => viewer'[w] = "make"
           /\ \A w \in Viewers : viewer'[w] = "make" => viewer[w] = "make"
           /\ \A w \in Viewers : viewer'[w] # "make"
<1>1. viewer' = [w \in Viewers |-> IF w = v \/ viewer[w] = "join" THEN "idle" ELSE viewer[w]]
  BY DEF Told
<1>2. \A w \in Viewers : Leads(w)' => Leads(w) /\ w # v BY <1>1 DEF Leads
<1>3. \A w \in Viewers \ {v} : ~Leads(w) BY DEF IInv, CallInv
<1>4. CallInv' BY <1>2, <1>3, CallMoves
<1>5. \A w \in Viewers : viewer'[w] # "make" BY <1>2, <1>3 DEF Leads
<1>. QED BY <1>1, <1>4, <1>5

LEMMA ViewerGoesDoes ==
    ASSUME IInv, NEW v \in Viewers, NEW place, ViewerGoes(v, place)
    PROVE  /\ viewer' = [w \in Viewers |-> viewer'[w]] /\ viewer'[v] = place
           /\ \A w \in Viewers \ {v} : viewer'[w] = viewer[w]
BY DEF ViewerGoes, IInv, Typed, OthersTyped

LEMMA PreviewAskedOK == ASSUME IInv, NEW v \in Viewers, PreviewAsked(v) PROVE StepOK
<1>1. UNCHANGED <<io, req, audio>> /\ viewer[v] = "idle" BY DEF PreviewAsked
<1>2. Go({}) BY SameDoes DEF PreviewAsked, cache, IInv, Typed
<1>3. Spares({}) BY DEF Spares
<1>4. CASE call = "none"
  <2>1. ViewerGoes(v, "slot") /\ call' = "running" BY <1>4 DEF PreviewAsked
  <2>2. \A w \in Viewers : ~Leads(w) BY <1>4 DEF IInv, CallInv
  <2>3. \A w \in Viewers \ {v} : Leads(w)' => Leads(w) BY <2>1, ViewerGoesDoes DEF Leads
  <2>4. CallInv' BY <2>1, <2>2, <2>3, CallMoves
  <2>. QED BY <1>1, <1>2, <1>3, <2>1, <2>4, ViewerGoesDoes, ViewerGoesOK
<1>5. CASE call # "none"
  <2>1. ViewerGoes(v, "join") /\ call' = call BY <1>5 DEF PreviewAsked
  <2>2. \A w \in Viewers \ {v} : Leads(w)' => Leads(w) BY <2>1, ViewerGoesDoes DEF Leads
  <2>3. ~Leads(v)' BY <2>1, ViewerGoesDoes DEF Leads
  <2>4. CallInv' BY <2>1, <2>2, <2>3, CallMoves
  <2>. QED BY <1>1, <1>2, <1>3, <2>1, <2>4, ViewerGoesDoes, ViewerGoesOK
<1>. QED BY <1>4, <1>5

LEMMA JoinerGoneOK == ASSUME IInv, NEW v \in Viewers, JoinerGone(v) PROVE StepOK
<1>1. UNCHANGED <<io, req, audio>> /\ viewer[v] = "join" /\ ViewerGoes(v, "idle") /\ call' = call
  BY DEF JoinerGone
<1>2. Go({}) BY SameDoes DEF JoinerGone, cache, IInv, Typed
<1>3. Spares({}) BY DEF Spares
<1>4. \A w \in Viewers \ {v} : Leads(w)' => Leads(w) BY <1>1, ViewerGoesDoes DEF Leads
<1>5. ~Leads(v)' BY <1>1, ViewerGoesDoes DEF Leads
<1>6. CallInv' BY <1>1, <1>4, <1>5, CallMoves
<1>. QED BY <1>1, <1>2, <1>3, <1>6, ViewerGoesDoes, ViewerGoesOK

LEMMA PreviewForgottenOK == ASSUME IInv, PreviewForgotten PROVE StepOK
<1>1. UNCHANGED <<io, req, audio>> /\ viewer' = viewer BY DEF PreviewForgotten
<1>2. Go({}) BY SameDoes DEF PreviewForgotten, cache, IInv, Typed
<1>3. Spares({}) BY DEF Spares
<1>4. \A v \in Viewers : ~Leads(v) BY DEF PreviewForgotten, Results, IInv, CallInv
<1>5. CallInv' BY <1>1, <1>4 DEF CallInv, Leads
<1>6. \A d : WritersStay(d) BY <1>1 DEF WritersStay, Writes, At, Want
<1>7. FilesInv' BY <1>2, <1>6, GoFiles DEF IInv
<1>8. viewer' = [w \in Viewers |-> viewer'[w]] BY <1>1 DEF IInv, Typed, OthersTyped
<1>9. RoomKept
  <2>1. KeepsWork BY <1>1, ViewerKeeps DEF Makes
  <2>. QED BY <1>2, <2>1, GoKeepsRoom
<1>. QED BY <1>1, <1>2, <1>3, <1>5, <1>7, <1>8, <1>9, ViewerDoes, GoSpares DEF StepOK, Go

LEMMA PreviewReserveOK ==
    ASSUME IInv, NEW v \in Viewers, NEW short, PreviewReserve(v, short)
    PROVE  StepOK
<1>1. UNCHANGED <<io, req, audio>> /\ viewer[v] = "slot" /\ Leads(v) BY DEF PreviewReserve, Leads
<1>2. DiskTyped /\ FilesInv BY DEF IInv, Typed
<1>3. Preview \in Dests /\ v \in Writers BY MediaAssumption
<1>4. Spares({}) /\ Spares(Evicted(Size[Preview], short)) BY EvictedSpares DEF Spares
<1>5. CASE Exists(Final(Preview))
  <2>1. Told(v, "ok") /\ UNCHANGED disk BY <1>5 DEF PreviewReserve, cache
  <2>. QED BY <1>1, <1>2, <1>4, <2>1, SameDoes, ToldDoes, ViewerGoesOK
<1>6. CASE ~Exists(Final(Preview)) /\ ~EnoughWhenEvicted(Size[Preview], short)
  <2>1. Told(v, "failed") /\ Deleted(Evicted(Size[Preview], short))
    BY <1>6 DEF PreviewReserve, EnsureCapacity
  <2>. QED BY <1>1, <1>2, <1>4, <2>1, DeletedDoes, ToldDoes, ViewerGoesOK
<1>7. CASE ~Exists(Final(Preview)) /\ EnoughWhenEvicted(Size[Preview], short)
  <2>. DEFINE gone == {} \cup Evicted(Size[Preview], short)
  <2>1. Reserved({}, Partial(Preview), v, short) /\ ViewerGoes(v, "make") /\ call' = call
    BY <1>7 DEF PreviewReserve
  <2>2. Starts(Preview, v, gone) BY <1>2, <1>3, <2>1, ReservedDoes
  <2>3. Spares(gone) BY <1>4
  <2>13. \A p \in Evicted(Size[Preview], short) : p \in Paths /\ p \in gone BY DEF Evicted, Candidates
  <2>. HIDE DEF gone
  <2>4. viewer'[v] = "make" /\ \A w \in Viewers \ {v} : viewer'[w] = viewer[w]
    BY <2>1, ViewerGoesDoes
  <2>5. \A w \in Viewers \ {v} : ~Leads(w) BY <1>1 DEF IInv, CallInv
  <2>6. call = "running" BY <1>1 DEF IInv, CallInv
  <2>7. \A w \in Viewers \ {v} : Leads(w)' => Leads(w) BY <2>4 DEF Leads
  <2>8. CallInv' BY <2>1, <2>5, <2>6, <2>7, CallMoves
  <2>9. \A e : WritersStay(e) BY <1>1, <2>4, ViewerWriters
  <2>10. Writes(v, Preview)' BY <2>4 DEF Writes
  <2>11. FilesInv' BY <1>2, <1>3, <2>2, <2>4, <2>9, StartsFiles DEF Writes
  <2>12. IInv' BY <1>1, <2>1, <2>2, <2>8, <2>11, ViewerGoesDoes, ViewerDoes DEF Starts
  <2>14. Used' + Size[Preview] <= MaxBytes BY <1>2, <1>3, <1>7, <2>2, <2>13, StartsFindRoom
  <2>15. RoomInv' BY <2>12, <2>14, SizeFacts, RoomReserved
  <2>. QED BY <1>3, <2>2, <2>3, <2>12, <2>15, StartsSpares DEF StepOK, RoomKept
<1>. QED BY <1>5, <1>6, <1>7

LEMMA PreviewFailsOK == ASSUME IInv, NEW v \in Viewers, PreviewFails(v) PROVE StepOK
<1>1. UNCHANGED <<io, req, audio>> /\ Leads(v) /\ Deleted({Partial(Preview)}) BY DEF PreviewFails, Leads
<1>2. PICK result : Told(v, result) BY DEF PreviewFails
<1>3. Go({Partial(Preview)}) BY <1>1, DeletedDoes DEF IInv, Typed
<1>4. Spares({Partial(Preview)}) BY MediaAssumption, PartialSpared
<1>. QED BY <1>1, <1>2, <1>3, <1>4, ToldDoes, ViewerGoesOK

LEMMA PreviewMadeOK == ASSUME IInv, NEW v \in Viewers, PreviewMade(v) PROVE StepOK
<1>1. UNCHANGED <<io, req, audio>> /\ viewer[v] = "make" /\ Leads(v) /\ Completed(v, Preview)
  BY DEF PreviewMade, Leads
<1>2. PICK result : Told(v, result) BY DEF PreviewMade
<1>3. Preview \in Dests /\ v \in Writers BY MediaAssumption
<1>4. Writes(v, Preview) BY <1>1 DEF Writes
<1>5. Finishes(Preview) BY <1>1, <1>3, <1>4, CompletedDoes
<1>6. \A e \in Dests \ {Preview} : WritersStay(e) BY <1>1, <1>2, ToldDoes, ViewerWriters
<1>7. FilesInv' BY <1>3, <1>5, <1>6, FinishesFiles DEF IInv
<1>8. IInv' BY <1>1, <1>2, <1>5, <1>7, ToldDoes, ViewerDoes DEF Finishes
<1>9. RoomKept
  <2>1. /\ \A w \in Viewers : Makes(w)' => Makes(w)
        /\ \A w \in Viewers : ~Makes(w)'
        /\ Makes(v)
    BY <1>1, <1>2, ToldDoes DEF Makes
  <2>2. KeepsWork BY <1>1, <2>1, ViewerKeeps
  <2>3. DiskTyped BY DEF IInv, Typed
  <2>. QED BY <1>3, <1>5, <2>1, <2>2, <2>3, SizeFacts, RoomFinishes
<1>. QED BY <1>3, <1>5, <1>8, <1>9, FinishesSpares DEF StepOK

LEMMA AudioDoes ==
    ASSUME IInv, UNCHANGED <<io, req, viewer, call>>, audio' \in AudioType, AudioInv', FilesInv', DiskTyped'
    PROVE  IInv'
<1>1. OthersTyped' BY DEF IInv, Typed, OthersTyped
<1>2. CallInv' BY DEF IInv, CallInv, Leads
<1>. QED BY <1>1, <1>2, LineRests DEF IInv, Typed

LEMMA AudioGoesOK ==
    ASSUME IInv, UNCHANGED <<io, req, viewer, call>>, audio' \in AudioType, AudioInv',
           NEW gone, Go(gone), Spares(gone),
           audio'.at = "encode" => audio.at = "encode",
           audio.at = "encode" => audio'.at = "encode" \/ Partial(Audio) \in gone
    PROVE  StepOK
<1>1. \A d : Partial(d) \notin gone => WritersStay(d) BY AudioWriters
<1>2. FilesInv' BY <1>1, GoFiles DEF IInv
<1>3. RoomKept
  <2>1. KeepsWork BY AudioKeeps DEF Encodes
  <2>. QED BY <2>1, GoKeepsRoom
<1>. QED BY <1>2, <1>3, AudioDoes, GoSpares DEF StepOK, Go

LEMMA AudioEndsDoes ==
    ASSUME NEW status \in {"idle", "ready", "error"}, AudioEnds(status)
    PROVE  audio' \in AudioType /\ AudioInv' /\ audio'.at = "off"
BY DEF AudioEnds, AudioType, AudioInv, Restarts

LEMMA AudioFacts ==
    ASSUME IInv
    PROVE  /\ audio \in AudioType /\ AudioInv /\ DiskTyped /\ FilesInv
           /\ Audio \in Dests /\ "audio" \in Writers /\ Spares({}) /\ Spares({Partial(Audio)})
<1>1. Audio \in Dests /\ "audio" \in Writers BY MediaAssumption
<1>2. Spares({}) BY DEF Spares
<1>. QED BY <1>1, <1>2, PartialSpared DEF IInv, Typed, OthersTyped

LEMMA StartAudioOK ==
    ASSUME IInv, NEW priority \in {"preload", "current"}, StartAudio(priority)
    PROVE  StepOK
<1>1. UNCHANGED <<io, req, viewer, call>> /\ UNCHANGED disk BY DEF StartAudio, cache
<1>2. /\ audio' \in AudioType /\ AudioInv'
      /\ audio.at = "encode" <=> audio'.at = "encode"
  <2>1. CASE Restarts
    <3>1. audio' = [status |-> "queued", priority |-> priority, cancelled |-> FALSE, at |-> "queued"]
      BY <2>1 DEF StartAudio
    <3>2. audio.at = "off" BY <2>1, AudioFacts DEF AudioInv
    <3>. QED BY <3>1, <3>2 DEF AudioType, AudioInv, Restarts
  <2>2. CASE ~Restarts
    <3>1. audio' = audio \/ audio' = [audio EXCEPT !.priority = "current"] BY <2>2 DEF StartAudio
    <3>. QED BY <2>2, <3>1, AudioFacts DEF AudioType, AudioInv, Restarts
  <2>. QED BY <2>1, <2>2
<1>. QED BY <1>1, <1>2, AudioFacts, SameDoes, AudioGoesOK

LEMMA CurrentElsewhereOK == ASSUME IInv, CurrentElsewhere PROVE StepOK
<1>1. UNCHANGED <<io, req, viewer, call>> /\ UNCHANGED disk /\ audio' = [audio EXCEPT !.cancelled = TRUE]
  BY DEF CurrentElsewhere, cache
<1>2. audio' \in AudioType /\ AudioInv' /\ audio'.at = audio.at
  BY <1>1, AudioFacts DEF AudioType, AudioInv, Restarts
<1>. QED BY <1>1, <1>2, AudioFacts, SameDoes, AudioGoesOK

LEMMA AudioSlotOK == ASSUME IInv, AudioSlot PROVE StepOK
<1>1. UNCHANGED <<io, req, viewer, call>> /\ UNCHANGED disk /\ audio.at = "queued" BY DEF AudioSlot, cache
<1>2. audio' \in AudioType /\ AudioInv' /\ audio'.at # "encode"
  <2>1. CASE AudioEnds("idle") BY <2>1, AudioEndsDoes
  <2>2. CASE audio' = [audio EXCEPT !.status = "processing", !.at = "reserve"]
    BY <2>2, AudioFacts DEF AudioType, AudioInv, Restarts
  <2>. QED BY <2>1, <2>2 DEF AudioSlot
<1>. QED BY <1>1, <1>2, AudioFacts, SameDoes, AudioGoesOK

LEMMA AudioReserveOK == ASSUME IInv, NEW short, AudioReserve(short) PROVE StepOK
<1>1. UNCHANGED <<io, req, viewer, call>> /\ audio.at = "reserve" BY DEF AudioReserve
<1>2. Spares(Evicted(Size[Audio], short)) BY EvictedSpares
<1>3. CASE ~EnoughWhenEvicted(Size[Audio], short)
  <2>1. AudioEnds("error") /\ Deleted(Evicted(Size[Audio], short)) BY <1>3 DEF AudioReserve
  <2>2. Go(Evicted(Size[Audio], short)) BY <2>1, AudioFacts, DeletedDoes
  <2>. QED BY <1>1, <1>2, <2>1, <2>2, AudioEndsDoes, AudioGoesOK
<1>4. CASE EnoughWhenEvicted(Size[Audio], short)
  <2>. DEFINE gone == {Partial(Audio)} \cup Evicted(Size[Audio], short)
  <2>1. /\ audio' = [audio EXCEPT !.at = "encode"]
        /\ Reserved({Partial(Audio)}, Partial(Audio), "audio", short)
    BY <1>4 DEF AudioReserve
  <2>2. Starts(Audio, "audio", gone) BY <2>1, AudioFacts, ReservedDoes
  <2>3. Spares(gone) BY <1>2, AudioFacts, BothSpare
  <2>8. \A p \in Evicted(Size[Audio], short) : p \in Paths /\ p \in gone BY DEF Evicted, Candidates
  <2>. HIDE DEF gone
  <2>4. audio' \in AudioType /\ AudioInv' /\ audio'.at = "encode"
    BY <1>1, <2>1, AudioFacts DEF AudioType, AudioInv, Restarts
  <2>5. \A e : WritersStay(e) BY <1>1, AudioWriters
  <2>6. FilesInv' BY <2>2, <2>4, <2>5, AudioFacts, StartsFiles DEF Writes
  <2>7. IInv' BY <1>1, <2>2, <2>4, <2>6, AudioDoes DEF Starts
  <2>9. Used' + Size[Audio] <= MaxBytes BY <1>4, <2>2, <2>8, AudioFacts, StartsFindRoom
  <2>10. RoomInv' BY <2>7, <2>9, SizeFacts, RoomReserved
  <2>. QED BY <2>2, <2>3, <2>7, <2>10, AudioFacts, StartsSpares DEF StepOK, RoomKept
<1>. QED BY <1>3, <1>4

LEMMA AudioFailsOK == ASSUME IInv, AudioFails PROVE StepOK
<1>1. UNCHANGED <<io, req, viewer, call>> BY DEF AudioFails
<1>2. audio' \in AudioType /\ AudioInv' /\ audio'.at # "encode" BY AudioEndsDoes DEF AudioFails
<1>3. CASE audio.at = "encode"
  <2>1. Go({Partial(Audio)}) BY <1>3, AudioFacts, DeletedDoes DEF AudioFails
  <2>. QED BY <1>1, <1>2, <2>1, AudioFacts, AudioGoesOK
<1>4. CASE audio.at # "encode"
  <2>1. Go({}) BY <1>4, AudioFacts, SameDoes DEF AudioFails, cache
  <2>. QED BY <1>1, <1>2, <1>4, <2>1, AudioFacts, AudioGoesOK
<1>. QED BY <1>3, <1>4

LEMMA AudioFinishOK == ASSUME IInv, AudioFinish PROVE StepOK
<1>1. UNCHANGED <<io, req, viewer, call>> /\ audio.at = "encode" BY DEF AudioFinish
<1>2. audio' \in AudioType /\ AudioInv' /\ audio'.at # "encode" BY AudioEndsDoes DEF AudioFinish
<1>3. CASE audio.cancelled
  <2>1. Go({Partial(Audio)}) BY <1>3, AudioFacts, DeletedDoes DEF AudioFinish
  <2>. QED BY <1>1, <1>2, <2>1, AudioFacts, AudioGoesOK
<1>4. CASE ~audio.cancelled
  <2>1. Writes("audio", Audio) BY <1>1 DEF Writes
  <2>2. Finishes(Audio) BY <1>4, <2>1, AudioFacts, CompletedDoes DEF AudioFinish
  <2>3. \A e \in Dests \ {Audio} : WritersStay(e) BY <1>1, AudioWriters
  <2>4. FilesInv' BY <2>2, <2>3, AudioFacts, FinishesFiles
  <2>5. IInv' BY <1>1, <1>2, <2>2, <2>4, AudioDoes DEF Finishes
  <2>6. KeepsWork BY <1>1, <1>2, AudioKeeps DEF Encodes
  <2>7. RoomKept BY <1>1, <1>2, <2>2, <2>6, AudioFacts, SizeFacts, RoomFinishes DEF Encodes
  <2>. QED BY <2>2, <2>5, <2>7, AudioFacts, FinishesSpares DEF StepOK
<1>. QED BY <1>3, <1>4

\* Files change under everybody's feet.
LEMMA BystandersOK ==
    ASSUME IInv, UNCHANGED <<io, req, Others>>, DiskTyped', FilesInv'
    PROVE  IInv'
<1>1. OthersTyped' BY DEF IInv, Typed, OthersTyped, Others
<1>2. CallInv' BY DEF IInv, CallInv, Leads, Others
<1>3. AudioInv' BY DEF IInv, AudioInv, Restarts, Others
<1>. QED BY <1>1, <1>2, <1>3, LineRests DEF IInv, Typed

LEMMA BystandersWrite == ASSUME UNCHANGED <<io, req, Others>> PROVE \A d : WritersStay(d)
BY DEF WritersStay, Writes, At, Want, Others

LEMMA ThumbWrittenOK == ASSUME IInv, ThumbWritten PROVE StepOK
<1>. DEFINE f == [by |-> "", whole |-> TRUE, fresh |-> FALSE]
<1>1. UNCHANGED <<io, req, Others>> /\ disk' = [disk EXCEPT ![Final(Thumb)] = f] BY DEF ThumbWritten
<1>2. f \in File /\ f.by = "" /\ f.whole BY DEF File
<1>3. DiskTyped /\ FilesInv /\ Thumb \in Dests BY MediaAssumption DEF IInv, Typed
<1>4. disk'[Final(Thumb)] = f /\ \A p \in Paths \ {Final(Thumb)} : disk'[p] = disk[p]
  BY <1>1, <1>3, PathFacts DEF DiskTyped
<1>5. DiskTyped' BY <1>1, <1>2, <1>3 DEF DiskTyped
<1>. HIDE DEF f
<1>6. FilesInv'
  <2>. SUFFICES ASSUME NEW d \in Dests PROVE FileInv(d)' BY DEF FilesInv
  <2>1. FileInv(d) /\ WritersStay(d) BY <1>1, <1>3, BystandersWrite DEF FilesInv
  <2>2. disk'[Partial(d)] = disk[Partial(d)] BY <1>3, <1>4, PathFacts
  <2>3. disk'[Final(d)] = disk[Final(d)] \/ disk'[Final(d)] = f BY <1>3, <1>4, PathFacts
  <2>. QED BY <1>2, <2>1, <2>2, <2>3 DEF FileInv, Exists, WritersStay
<1>7. PinsKept BY <1>2, <1>4, NothingIsFile, PathFacts DEF PinsKept, Exists
<1>8. RoomKept
  <2>1. Lighter BY <1>4 DEF Lighter, Counted, LighterAt
  <2>2. KeepsWork BY <1>1, BystandersKeep
  <2>. QED BY <1>3, <1>5, <2>1, <2>2, RoomStays
<1>. QED BY <1>1, <1>5, <1>6, <1>7, <1>8, BystandersOK DEF StepOK

LEMMA ReclaimOK == ASSUME IInv, Reclaim PROVE StepOK
<1>1. UNCHANGED <<io, req, Others>> /\ \A d : WritersStay(d) BY BystandersWrite DEF Reclaim
<1>2. DiskTyped /\ FilesInv /\ KeepsWork BY <1>1, BystandersKeep DEF IInv, Typed
<1>3. ASSUME NEW gone, Deleted(gone), Spares(gone) PROVE StepOK
  <2>1. Go(gone) BY <1>2, <1>3, DeletedDoes
  <2>2. FilesInv' BY <1>1, <1>2, <2>1, GoFiles
  <2>3. RoomKept BY <1>2, <2>1, GoKeepsRoom
  <2>. QED BY <1>1, <1>3, <2>1, <2>2, <2>3, BystandersOK, GoSpares DEF StepOK, Go
<1>4. CASE CleanupAbandoned
  <2>. DEFINE gone == {p \in Paths : p[2] = "tmp" /\ Exists(p) /\ ~disk[p].fresh /\ ~PathPinned(p)}
  <2>1. Deleted(gone) BY <1>4 DEF CleanupAbandoned
  <2>2. Spares(gone) BY DEF Spares
  <2>. QED BY <1>3, <2>1, <2>2
<1>5. CASE \E short \in Shortages : EnsureCapacity(0, short)
  BY <1>3, <1>5, EvictedSpares DEF EnsureCapacity
<1>6. CASE Clear
  <2>1. Spares(Candidates) BY DEF Spares, Candidates, Candidate
  <2>. QED BY <1>3, <1>6, <2>1 DEF Clear
<1>7. ASSUME NEW p \in Paths, GoesStale(p) PROVE StepOK
  <2>1. disk' = [disk EXCEPT ![p].fresh = FALSE] /\ p[2] = "tmp" BY <1>7 DEF GoesStale
  <2>. DEFINE f == [disk[p] EXCEPT !.fresh = FALSE]
  <2>2. disk[p] \in File BY <1>2 DEF DiskTyped
  <2>3. f \in File /\ f.by = disk[p].by /\ f.whole = disk[p].whole BY <2>2 DEF File
  <2>4. disk' = [disk EXCEPT ![p] = f] BY <2>1
  <2>. HIDE DEF f
  <2>5. DiskTyped' /\ disk'[p] = f /\ \A q \in Paths \ {p} : disk'[q] = disk[q]
    BY <1>2, <2>3, <2>4 DEF DiskTyped
  <2>6. \A d : Final(d) # p BY <2>1 DEF Final
  <2>7. \A d \in Dests : disk'[Final(d)] = disk[Final(d)] BY <2>5, <2>6, PathFacts
  <2>8. FilesInv'
    <3>. SUFFICES ASSUME NEW d \in Dests PROVE FileInv(d)' BY DEF FilesInv
    <3>1. FileInv(d) /\ WritersStay(d) BY <1>1, <1>2 DEF FilesInv
    <3>2. Exists(Partial(d))' => Exists(Partial(d)) /\ disk'[Partial(d)].by = disk[Partial(d)].by
      <4>1. CASE Partial(d) = p BY <1>7, <2>3, <2>5, <4>1 DEF GoesStale
      <4>2. CASE Partial(d) # p BY <2>5, <4>2, PathFacts DEF Exists
      <4>. QED BY <4>1, <4>2
    <3>. QED BY <2>7, <3>1, <3>2 DEF FileInv, Exists, WritersStay
  <2>9. PinsKept BY <2>7 DEF PinsKept, Exists
  <2>10. Lighter
    <3>. SUFFICES ASSUME NEW q \in Counted PROVE LighterAt(q) BY DEF Lighter
    <3>. QED BY <2>3, <2>5 DEF LighterAt, Counted
  <2>11. RoomKept BY <1>2, <2>5, <2>10, RoomStays
  <2>. QED BY <1>1, <2>5, <2>8, <2>9, <2>11, BystandersOK DEF StepOK
<1>. QED BY <1>4, <1>5, <1>6, <1>7 DEF Reclaim

-----------------------------------------------------------------------------
(* The specification                                                       *)

LEMMA NextOK == ASSUME IInv, Next PROVE StepOK
<1>1. ASSUME NEW r \in Readers, ReaderStep(r) PROVE StepOK
  BY <1>1, LookOK, GivesUpOK, RecheckOK, ReserveOK, MakeOK, MakeFailsOK, CopiedOK, CopyFailsOK,
     FoundOK, OpenOK, CloseOK DEF ReaderStep
<1>2. ASSUME NEW v \in Viewers, ViewerStep(v) PROVE StepOK
  BY <1>2, PreviewAskedOK, JoinerGoneOK, PreviewReserveOK, PreviewMadeOK, PreviewFailsOK DEF ViewerStep
<1>3. CASE AudioStep
  BY <1>3, StartAudioOK, CurrentElsewhereOK, AudioSlotOK, AudioReserveOK, AudioFailsOK, AudioFinishOK
  DEF AudioStep
<1>. QED BY <1>1, <1>2, <1>3, PreviewForgottenOK, ThumbWrittenOK, ReclaimOK DEF Next

LEMMA StutterOK == ASSUME IInv, UNCHANGED vars PROVE StepOK
<1>1. UNCHANGED <<io, req, Others>> /\ UNCHANGED disk BY DEF vars, io, cache, Others
<1>2. Go({}) BY <1>1, SameDoes DEF IInv, Typed
<1>3. FilesInv' BY <1>1, <1>2, BystandersWrite, GoFiles DEF IInv
<1>4. PinsKept BY <1>1 DEF PinsKept, Exists
<1>5. RoomKept BY <1>1, <1>2, BystandersKeep, GoKeepsRoom
<1>. QED BY <1>1, <1>2, <1>3, <1>4, <1>5, BystandersOK DEF StepOK, Go

LEMMA StepDoes == ASSUME IInv, [Next]_vars PROVE StepOK
BY NextOK, StutterOK

\* The invariant holds throughout.
THEOREM Invariance == Spec => []IInv
<1>1. Init => IInv BY InitInv
<1>2. IInv /\ [Next]_vars => IInv' BY StepDoes DEF StepOK
<1>. QED BY <1>1, <1>2, PTL DEF Spec

\* Copies from the source go one at a time, and the scheduler that sees to it is
\* never lost: not by a waiter that gives up, not by one that is granted it the
\* moment it leaves (media_io_scheduler.go).
THEOREM SourceReadsTakeTurns == Spec => []OneSourceRead
<1>1. IInv => OneSourceRead
  <2>. SUFFICES ASSUME IInv PROVE OneSourceRead OBVIOUS
  <2>1. HolderInv /\ holding \subseteq Readers /\ \A r \in Readers : Placed(r)
    BY DEF IInv, LineInv, Typed, LineTyped
  <2>2. Cardinality(holding) <= 1
    <3>1. CASE holding = {} BY <3>1, FS_EmptySet
    <3>2. CASE holding # {}
      <4>1. PICK r \in holding : TRUE BY <3>2
      <4>2. holding = {r} BY <2>1, <4>1 DEF HolderInv
      <4>3. Cardinality({r}) = 1 BY FS_Singleton
      <4>. QED BY <4>2, <4>3
    <3>. QED BY <3>1, <3>2
  <2>. QED BY <2>1, <2>2 DEF OneSourceRead, HolderInv, Placed
<1>. QED BY <1>1, Invariance, PTL

\* A finished cache file is complete, whoever wrote its partial output and
\* whatever was reclaimed while it was written.
THEOREM FinishedFilesAreWhole == Spec => []FinalIsWhole
<1>1. IInv => FinalIsWhole BY DEF IInv, FilesInv, FileInv, FinalIsWhole
<1>. QED BY <1>1, Invariance, PTL

\* The cache passes its limit by no more than what writers of two of the three
\* classes have reserved (cache_policy/manager.go, EnsureCapacity), for any files,
\* sizes and limit, and whatever is reclaimed, given up or written anew meanwhile.
THEOREM CacheStaysNearLimit == Spec => []OvershootIsBounded
<1>1. Init => RoomInv BY RoomInit
<1>2. IInv /\ RoomInv /\ [Next]_vars => RoomInv' BY StepDoes DEF StepOK, RoomKept
<1>3. IInv /\ RoomInv => OvershootIsBounded
  <2>. SUFFICES ASSUME IInv, RoomInv PROVE OvershootIsBounded OBVIOUS
  <2>. DEFINE kept == IF Exists(Final(Thumb)) THEN Size[Thumb] ELSE 0
  <2>1. DiskTyped /\ FileInv(Thumb) BY SizeFacts DEF IInv, Typed, FilesInv
  <2>2. Final(Thumb) \in Paths /\ Final(Thumb)[1] = Thumb BY SizeFacts, PathFacts DEF Final
  <2>3. Bytes[Final(Thumb)] = kept BY <2>1, <2>2, BytesFacts, NothingIsFile DEF FileInv, Exists
  <2>4. Total = kept + Used
    <3>1. Bytes \in [Paths -> Nat] /\ Paths \in SUBSET Paths BY <2>1, BytesFacts
    <3>2. SumFunctionOnSet(Bytes, Paths)
            = Bytes[Final(Thumb)] + SumFunctionOnSet(Bytes, Paths \ {Final(Thumb)})
      BY <2>2, <3>1, SizeFacts, SumSplit
    <3>. QED BY <2>3, <3>2 DEF Total, Used, Counted
  <2>5. PICK c \in Nat, p \in Nat, a \in Nat, over \in Overshoots : Used + c + p + a <= MaxBytes + over
    BY DEF RoomInv
  <2>6. Used \in Nat /\ kept \in Nat /\ MaxBytes \in Nat /\ over \in Nat BY <2>1, BytesFacts, SizeFacts
  <2>. DEFINE u == Used  k == kept  limit == MaxBytes + over
  <2>7. u \in Nat /\ k \in Nat /\ limit \in Nat /\ u + c + p + a <= limit BY <2>5, <2>6
  <2>8. Total = k + u BY <2>4
  <2>. HIDE DEF u, k, limit
  <2>9. (k + u) - k <= limit BY <2>7
  <2>10. Total - kept <= MaxBytes + over BY <2>8, <2>9 DEF k, limit
  <2>. HIDE DEF kept
  <2>. QED BY <2>10 DEF OvershootIsBounded, kept
<1>. QED BY <1>1, <1>2, <1>3, Invariance, PTL DEF Spec

\* No sweep, capacity check, clear or other writer takes a pinned finished file
\* away (cache_policy/manager.go, Pin).
THEOREM PinsHold == Spec => PinnedFileStays
<1>1. IInv /\ [Next]_vars =>
        [\A d \in Dests : Exists(Final(d)) /\ PathPinned(Final(d)) => disk'[Final(d)] # Nothing]_vars
  BY StepDoes DEF StepOK, PinsKept
<1>. QED BY <1>1, Invariance, PTL DEF Spec, PinnedFileStays
=============================================================================
