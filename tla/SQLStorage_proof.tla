--------------------------- MODULE SQLStorage_proof ---------------------------
(***************************************************************************)
(* Theorems about SQLStorage, for any directories, files and virtual       *)
(* containers and any bounds, when one thread works at a time and the      *)
(* uppermost directory is not an autoscan directory.                       *)
(***************************************************************************)
EXTENDS SQLStorage, FiniteSetTheorems, WellFoundedInduction, TLAPS

-----------------------------------------------------------------------------
(* What is reached along the pairs of a finite relation.                   *)

(* Induction over the natural numbers, for a set.                          *)
LEMMA NatSetInduction ==
  ASSUME NEW T, 0 \in T, \A n \in Nat : n \in T => n + 1 \in T
  PROVE  \A n \in Nat : n \in T
<1> SUFFICES ASSUME NEW k \in Nat, k \notin T PROVE FALSE
  OBVIOUS
<1> DEFINE R == OpToRel(<, Nat)
           U == Nat \ T
<1>1. IsWellFoundedOn(R, Nat)
  BY NatLessThanWellFounded
<1>2. U \subseteq Nat /\ U # {}
  OBVIOUS
<1>3. \E x \in U : \A y \in U : <<y, x>> \notin R
  <2> HIDE DEF R, U
  <2> QED BY <1>1, <1>2, WFMin
<1>4. PICK x \in U : \A y \in U : ~(y < x)
  <2>1. \A y, x \in Nat : <<y, x>> \in R <=> y < x
    BY DEF OpToRel
  <2> QED BY <1>3, <2>1
<1>5. x # 0 /\ x - 1 \in Nat /\ x - 1 < x
  BY <1>4
<1>6. x - 1 \in T
  BY <1>4, <1>5
<1> QED
  BY <1>4, <1>5, <1>6

(* f computes the levels up to m.                                         *)
Levels(R, S, m, f) == f = [n \in 0..m |-> IF n = 0 THEN S ELSE Grown(R, f[n - 1])]

(* The recursive function is there.                                        *)
LEMMA LevelsExist ==
  ASSUME NEW R, NEW S, NEW m \in Nat
  PROVE  \E f : Levels(R, S, m, f)
<1> DEFINE T == {k \in Nat : \E f : Levels(R, S, k, f)}
<1>1. 0 \in T
  <2>1. Levels(R, S, 0, [n \in 0..0 |-> S])
    BY DEF Levels
  <2> QED BY <2>1
<1>2. ASSUME NEW n \in Nat, n \in T PROVE n + 1 \in T
  <2>1. PICK f : Levels(R, S, n, f)
    BY <1>2
  <2> DEFINE g == [j \in 0..(n + 1) |-> IF j = n + 1 THEN Grown(R, f[n]) ELSE f[j]]
  <2>2. ASSUME NEW j \in 0..(n + 1)
        PROVE  g[j] = IF j = 0 THEN S ELSE Grown(R, g[j - 1])
    <3>1. CASE j = n + 1
      BY <3>1
    <3>2. CASE j # n + 1
      <4>1. j \in 0..n /\ g[j] = f[j] /\ (j # 0 => g[j - 1] = f[j - 1])
        BY <3>2
      <4>2. f[j] = IF j = 0 THEN S ELSE Grown(R, f[j - 1])
        BY <2>1, <4>1 DEF Levels
      <4> QED BY <4>1, <4>2
    <3> QED BY <3>1, <3>2
  <2>3. Levels(R, S, n + 1, g)
    BY <2>2 DEF Levels
  <2> QED BY <2>3
<1> HIDE DEF T
<1>3. m \in T
  BY <1>1, <1>2, NatSetInduction
<1> QED BY <1>3 DEF T

(* Reach is its last level.                                                *)
LEMMA ReachLevels ==
  ASSUME NEW R, NEW S, IsFiniteSet(R)
  PROVE  /\ Cardinality(R) \in Nat
         /\ \E f : /\ Levels(R, S, Cardinality(R), f)
                /\ Reach(R, S) = f[Cardinality(R)]
<1>1. Cardinality(R) \in Nat
  BY FS_CardinalityType
<1> DEFINE m == Cardinality(R)
           f == CHOOSE f : Levels(R, S, m, f)
<1>2. Levels(R, S, m, f)
  BY <1>1, LevelsExist
<1>3. Reach(R, S) = f[m]
  BY DEF Reach, Levels
<1> QED BY <1>1, <1>2, <1>3

(* What is reached from S is closed, contains S, and is in every set that  *)
(* is closed and contains S.                                               *)
Closed(R, T) == \A q \in R : q[1] \in T => q[2] \in T

LEMMA ReachHolds ==
  ASSUME NEW R, NEW S, IsFiniteSet(R)
  PROVE  S \subseteq Reach(R, S)
<1>1. PICK f : Levels(R, S, Cardinality(R), f) /\ Reach(R, S) = f[Cardinality(R)]
  BY ReachLevels
<1> DEFINE m == Cardinality(R)
           T == {n \in Nat : n <= m => S \subseteq f[n]}
<1>2. m \in Nat
  BY ReachLevels
<1>3. \A n \in 0..m : f[n] = IF n = 0 THEN S ELSE Grown(R, f[n - 1])
  BY <1>1 DEF Levels
<1>4. 0 \in T
  BY <1>2, <1>3
<1>5. ASSUME NEW n \in Nat, n \in T PROVE n + 1 \in T
  <2>1. CASE n + 1 <= m
    <3>1. n + 1 \in 0..m /\ n \in 0..m /\ n + 1 # 0 /\ (n + 1) - 1 = n /\ n <= m
      BY <2>1, <1>2
    <3>2. f[n + 1] = Grown(R, f[n])
      BY <1>3, <3>1
    <3>3. S \subseteq f[n]
      BY <1>5, <3>1
    <3> QED BY <3>2, <3>3 DEF Grown
  <2> QED BY <2>1
<1> HIDE DEF T
<1>6. m \in T
  BY <1>2, <1>4, <1>5, NatSetInduction
<1> QED BY <1>1, <1>2, <1>6 DEF T

LEMMA ReachLeast ==
  ASSUME NEW R, NEW S, NEW C, IsFiniteSet(R), S \subseteq C, Closed(R, C)
  PROVE  Reach(R, S) \subseteq C
<1>1. PICK f : Levels(R, S, Cardinality(R), f) /\ Reach(R, S) = f[Cardinality(R)]
  BY ReachLevels
<1> DEFINE m == Cardinality(R)
           T == {n \in Nat : n <= m => f[n] \subseteq C}
<1>2. m \in Nat
  BY ReachLevels
<1>3. \A n \in 0..m : f[n] = IF n = 0 THEN S ELSE Grown(R, f[n - 1])
  BY <1>1 DEF Levels
<1>4. 0 \in T
  BY <1>2, <1>3
<1>5. ASSUME NEW n \in Nat, n \in T PROVE n + 1 \in T
  <2>1. CASE n + 1 <= m
    <3>1. n + 1 \in 0..m /\ n \in 0..m /\ n + 1 # 0 /\ (n + 1) - 1 = n /\ n <= m
      BY <2>1, <1>2
    <3>2. f[n + 1] = Grown(R, f[n])
      BY <1>3, <3>1
    <3>3. f[n] \subseteq C
      BY <1>5, <3>1
    <3> QED BY <3>2, <3>3 DEF Grown, Closed
  <2> QED BY <2>1
<1> HIDE DEF T
<1>6. m \in T
  BY <1>2, <1>4, <1>5, NatSetInduction
<1> QED BY <1>1, <1>2, <1>6 DEF T

(* A level that is not closed has more pairs than the one before.          *)
LEMMA ReachClosed ==
  ASSUME NEW R, NEW S, IsFiniteSet(R)
  PROVE  Closed(R, Reach(R, S))
<1>1. PICK f : Levels(R, S, Cardinality(R), f) /\ Reach(R, S) = f[Cardinality(R)]
  BY ReachLevels
<1> DEFINE m == Cardinality(R)
           From(n) == {q \in R : q[1] \in f[n]}
           T == {n \in Nat : n <= m => Closed(R, f[n]) \/ Cardinality(From(n)) >= n + 1}
<1>2. m \in Nat
  BY ReachLevels
<1>3. \A n \in 0..m : f[n] = IF n = 0 THEN S ELSE Grown(R, f[n - 1])
  BY <1>1 DEF Levels
<1>4. ASSUME NEW n \in Nat
      PROVE  IsFiniteSet(From(n)) /\ Cardinality(From(n)) \in Nat /\ Cardinality(From(n)) <= m
  <2>1. From(n) \in SUBSET R
    OBVIOUS
  <2> HIDE DEF From
  <2>2. IsFiniteSet(From(n)) /\ Cardinality(From(n)) <= m
    BY <2>1, FS_Subset
  <2> QED BY <2>2, FS_CardinalityType
<1>5. 0 \in T
  <2>1. CASE ~Closed(R, f[0])
    <3>1. From(0) # {}
      BY <2>1 DEF Closed
    <3> HIDE DEF From
    <3>2. Cardinality(From(0)) # 0 /\ Cardinality(From(0)) \in Nat
      BY <3>1, <1>4, FS_EmptySet
    <3> QED BY <3>2
  <2> QED BY <2>1
<1>6. ASSUME NEW n \in Nat, n \in T PROVE n + 1 \in T
  <2> SUFFICES ASSUME n + 1 <= m, ~Closed(R, f[n + 1])
               PROVE  Cardinality(From(n + 1)) >= (n + 1) + 1
    OBVIOUS
  <2>1. n + 1 \in 0..m /\ n \in 0..m /\ n + 1 # 0 /\ (n + 1) - 1 = n /\ n <= m
    BY <1>2
  <2>2. f[n + 1] = Grown(R, f[n])
    BY <1>3, <2>1
  <2>3. ~Closed(R, f[n])
    <3>1. Closed(R, f[n]) => Grown(R, f[n]) = f[n]
      BY DEF Closed, Grown
    <3> QED BY <2>2, <3>1
  <2>4. Cardinality(From(n)) >= n + 1
    BY <1>6, <2>1, <2>3
  <2>5. From(n) \subseteq From(n + 1)
    BY <2>2 DEF Grown
  <2>6. PICK q \in R : q[1] \in f[n + 1] /\ q[2] \notin f[n + 1]
    BY DEF Closed
  <2>7. q[1] \notin f[n]
    BY <2>2, <2>6 DEF Grown
  <2>8. q \in From(n + 1) /\ q \notin From(n)
    BY <2>6, <2>7
  <2>9. IsFiniteSet(From(n + 1)) /\ Cardinality(From(n + 1)) \in Nat
    BY <1>4
  <2>10. Cardinality(From(n)) \in Nat
    BY <1>4
  <2> HIDE DEF From
  <2>11. Cardinality(From(n)) <= Cardinality(From(n + 1))
    BY <2>5, <2>9, FS_Subset
  <2>12. Cardinality(From(n)) # Cardinality(From(n + 1))
    BY <2>5, <2>8, <2>9, FS_Subset
  <2> QED BY <2>4, <2>9, <2>10, <2>11, <2>12
<1>7. m \in T
  <2> HIDE DEF T
  <2> QED BY <1>2, <1>5, <1>6, NatSetInduction
<1>8. ~(Cardinality(From(m)) >= m + 1)
  <2>1. Cardinality(From(m)) \in Nat /\ Cardinality(From(m)) <= m
    BY <1>2, <1>4
  <2> HIDE DEF From
  <2> QED BY <1>2, <2>1
<1> QED BY <1>1, <1>2, <1>7, <1>8

-----------------------------------------------------------------------------
(* The greatest and the least of bounded numbers.                          *)
LEMMA GreatestLeast ==
  ASSUME NEW S, NEW n \in Nat, S \subseteq 0..n, S # {}
  PROVE  /\ Max(S) \in S /\ \A y \in S : Max(S) >= y
         /\ Min(S) \in S /\ \A y \in S : Min(S) <= y
<1> DEFINE Above(k) == \A y \in S : y <= k
           Under(k) == \A y \in S : k <= y
           T == {k \in Nat : Above(k) => \E x \in S : Above(x)}
           U == {k \in Nat : Under(k) \/ \E x \in S : Under(x)}
<1>1. 0 \in T
  <2> SUFFICES ASSUME Above(0) PROVE \E x \in S : Above(x)
    OBVIOUS
  <2>1. PICK x \in S : TRUE
    OBVIOUS
  <2>2. x = 0
    BY <2>1
  <2> QED BY <2>1, <2>2
<1>2. ASSUME NEW k \in Nat, k \in T PROVE k + 1 \in T
  <2> SUFFICES ASSUME Above(k + 1) PROVE \E x \in S : Above(x)
    OBVIOUS
  <2>1. CASE k + 1 \in S
    BY <2>1
  <2>2. CASE k + 1 \notin S
    <3>1. Above(k)
      BY <2>2
    <3> QED BY <1>2, <3>1
  <2> QED BY <2>1, <2>2
<1>3. 0 \in U
  OBVIOUS
<1>4. ASSUME NEW k \in Nat, k \in U PROVE k + 1 \in U
  <2>1. CASE Under(k) /\ k \in S
    BY <2>1
  <2>2. CASE Under(k) /\ k \notin S
    <3>1. Under(k + 1)
      BY <2>2
    <3> QED BY <3>1
  <2>3. CASE \E x \in S : Under(x)
    BY <2>3
  <2> QED BY <1>4, <2>1, <2>2, <2>3
<1>5. n \in T
  <2> HIDE DEF T
  <2> QED BY <1>1, <1>2, NatSetInduction
<1>6. n + 1 \in U
  <2> HIDE DEF U
  <2> QED BY <1>3, <1>4, NatSetInduction
<1>7. Above(n) /\ ~Under(n + 1)
  <2>1. Above(n)
    OBVIOUS
  <2>2. PICK x \in S : TRUE
    OBVIOUS
  <2>3. x \in 0..n /\ ~(n + 1 <= x)
    BY <2>2
  <2> QED BY <2>1, <2>2, <2>3
<1>8. \E x \in S : Above(x)
  BY <1>5, <1>7
<1>9. \E x \in S : Under(x)
  BY <1>6, <1>7
<1>10. \E x \in S : \A y \in S : x >= y
  BY <1>8
<1> QED BY <1>9, <1>10 DEF Max, Min

(* A table with one more row.                                              *)
LEMMA InsertedRow ==
  ASSUME NEW table, NEW id, NEW new, id \notin DOMAIN table
  PROVE  /\ DOMAIN Inserted(table, id, new) = DOMAIN table \union {id}
         /\ Inserted(table, id, new)[id] = new
         /\ \A i \in DOMAIN table : Inserted(table, id, new)[i] = table[i]
BY DEF Inserted

(* What a function on a finite set takes for values is finite.             *)
LEMMA FiniteImage ==
  ASSUME NEW f, IsFiniteSet(DOMAIN f)
  PROVE  IsFiniteSet({f[i] : i \in DOMAIN f})
<1> DEFINE T == {f[i] : i \in DOMAIN f}
           g == [i \in DOMAIN f |-> f[i]]
<1>1. g \in Surjection(DOMAIN f, T)
  BY DEF Surjection
<1> HIDE DEF g, T
<1>2. IsFiniteSet(T)
  BY <1>1, FS_Surjection
<1> QED BY <1>2 DEF T

(* The rows below those of S, in a table r.                                *)
LEMMA BelowFacts ==
  ASSUME NEW r, NEW S, IsFiniteSet(DOMAIN r)
  PROVE  /\ S \subseteq BelowIn(r, S)
         /\ \A i \in DOMAIN r : r[i].parent \in BelowIn(r, S) => i \in BelowIn(r, S)
         /\ \A C : (S \subseteq C /\ \A i \in DOMAIN r : r[i].parent \in C => i \in C)
                   => BelowIn(r, S) \subseteq C
<1> DEFINE f == [i \in DOMAIN r |-> <<r[i].parent, i>>]
           R == {<<r[i].parent, i>> : i \in DOMAIN r}
<1>1. IsFiniteSet(R)
  <2>1. DOMAIN f = DOMAIN r /\ R = {f[i] : i \in DOMAIN f}
    OBVIOUS
  <2> HIDE DEF f, R
  <2> QED BY <2>1, FiniteImage
<1>2. S \subseteq Reach(R, S)
  <2> HIDE DEF R
  <2> QED BY <1>1, ReachHolds
<1>3. Closed(R, Reach(R, S))
  <2> HIDE DEF R
  <2> QED BY <1>1, ReachClosed
<1>4. \A i \in DOMAIN r : r[i].parent \in Reach(R, S) => i \in Reach(R, S)
  <2> SUFFICES ASSUME NEW i \in DOMAIN r, r[i].parent \in Reach(R, S) PROVE i \in Reach(R, S)
    OBVIOUS
  <2>1. <<r[i].parent, i>> \in R
    OBVIOUS
  <2> HIDE DEF R
  <2> QED BY <1>3, <2>1 DEF Closed
<1>5. ASSUME NEW C, S \subseteq C, \A i \in DOMAIN r : r[i].parent \in C => i \in C
      PROVE  Reach(R, S) \subseteq C
  <2>1. Closed(R, C)
    BY <1>5 DEF Closed
  <2> HIDE DEF R
  <2> QED BY <1>1, <1>5, <2>1, ReachLeast
<1> QED BY <1>2, <1>4, <1>5 DEF BelowIn

(* A row and those above it, in a table r.                                 *)
LEMMA AboveFacts ==
  ASSUME NEW r, NEW i, IsFiniteSet(DOMAIN r)
  PROVE  /\ i \in AboveIn(r, i)
         /\ \A j \in DOMAIN r : j \in AboveIn(r, i) => r[j].parent \in AboveIn(r, i)
         /\ \A C : (i \in C /\ \A j \in DOMAIN r : j \in C => r[j].parent \in C)
                   => AboveIn(r, i) \subseteq C
<1> DEFINE f == [j \in DOMAIN r |-> <<j, r[j].parent>>]
           R == {<<j, r[j].parent>> : j \in DOMAIN r}
<1>1. IsFiniteSet(R)
  <2>1. DOMAIN f = DOMAIN r /\ R = {f[j] : j \in DOMAIN f}
    OBVIOUS
  <2> HIDE DEF f, R
  <2> QED BY <2>1, FiniteImage
<1>2. {i} \subseteq Reach(R, {i})
  <2> HIDE DEF R
  <2> QED BY <1>1, ReachHolds
<1>3. Closed(R, Reach(R, {i}))
  <2> HIDE DEF R
  <2> QED BY <1>1, ReachClosed
<1>4. \A j \in DOMAIN r : j \in Reach(R, {i}) => r[j].parent \in Reach(R, {i})
  <2> SUFFICES ASSUME NEW j \in DOMAIN r, j \in Reach(R, {i}) PROVE r[j].parent \in Reach(R, {i})
    OBVIOUS
  <2>1. <<j, r[j].parent>> \in R
    OBVIOUS
  <2> HIDE DEF R
  <2> QED BY <1>3, <2>1 DEF Closed
<1>5. ASSUME NEW C, i \in C, \A j \in DOMAIN r : j \in C => r[j].parent \in C
      PROVE  Reach(R, {i}) \subseteq C
  <2>1. Closed(R, C) /\ {i} \subseteq C
    BY <1>5 DEF Closed
  <2> HIDE DEF R
  <2> QED BY <1>1, <2>1, ReachLeast
<1> QED BY <1>2, <1>4, <1>5 DEF AboveIn

-----------------------------------------------------------------------------
(* The rows, the removal and the call.                                     *)

(* What the theorems assume: one thread works at a time, and clients do    *)
(* not make the uppermost directory an autoscan directory.                 *)
Alone == ~Concurrent /\ Top \notin ScanDirs

LEMMA OneThread == ASSUME Alone PROVE Threads = {"task"}
BY DEF Alone, Threads

LEMMA InitStructure == ASSUME Alone, Init PROVE StructureInv
<1> USE DEF Init, CDS_ID_ROOT, CDS_ID_FS_ROOT, Roots
<1>1. /\ DOMAIN row = {0, 1} /\ row[0] = RootRow(None, "virt") /\ row[1] = RootRow(0, "dir")
      /\ row[0].kind = "virt" /\ row[1].kind = "dir" /\ lastID = 1
  BY DEF RootRow, NewRow
<1>2. RowsInv
  BY <1>1 DEF RowsInv
<1>3. RefInv
  BY <1>1 DEF RefInv
<1>4. TreeInv
  BY <1>1 DEF TreeInv
<1>5. RmInv
  BY DEF RmInv, RmType, NoRemoval, Nobody, Collecting, Purging
<1>6. CallInv
  BY DEF CallInv
<1>7. ScanRows
  BY DEF ScanRows
<1> QED BY <1>2, <1>3, <1>4, <1>5, <1>6, <1>7 DEF StructureInv

(* Of the rows only the flag "persistent" changes, and not of the roots.   *)
OnlyFlags ==
  /\ DOMAIN row' = DOMAIN row
  /\ \A i \in DOMAIN row :
       /\ row'[i].keep \in BOOLEAN
       /\ row'[i] = [row[i] EXCEPT !.keep = row'[i].keep]
       /\ i \in Roots => row'[i] = row[i]

LEMMA RowsAreRows ==
  ASSUME RowsInv
  PROVE  \A i \in DOMAIN row : row[i] \in Rows
<1>1. Top \in Locations
  BY DEF Locations
<1>2. RootRow(None, "virt") \in Rows /\ RootRow(CDS_ID_ROOT, "dir") \in Rows
  BY <1>1 DEF RootRow, NewRow, Rows, CDS_ID_ROOT
<1>3. row[CDS_ID_ROOT] \in Rows /\ row[CDS_ID_FS_ROOT] \in Rows
  BY <1>2 DEF RowsInv
<1>4. \A i \in Roots : row[i] \in Rows
  BY <1>3 DEF Roots
<1> QED BY <1>4 DEF RowsInv, IsRow

LEMMA FlagsKeepFields ==
  ASSUME RowsInv, OnlyFlags
  PROVE  \A i \in DOMAIN row :
           /\ row'[i].parent = row[i].parent /\ row'[i].kind = row[i].kind
           /\ row'[i].path = row[i].path /\ row'[i].ref = row[i].ref
           /\ i \notin Roots => IsRow(row'[i])
<1> SUFFICES ASSUME NEW i \in DOMAIN row
             PROVE  /\ row'[i].parent = row[i].parent /\ row'[i].kind = row[i].kind
                    /\ row'[i].path = row[i].path /\ row'[i].ref = row[i].ref
                    /\ i \notin Roots => IsRow(row'[i])
  OBVIOUS
<1>1. CASE i \in Roots
  BY <1>1 DEF OnlyFlags
<1>2. CASE i \notin Roots
  <2>1. IsRow(row[i])
    BY <1>2 DEF RowsInv
  <2>2. row'[i].keep \in BOOLEAN /\ row'[i] = [row[i] EXCEPT !.keep = row'[i].keep]
    BY DEF OnlyFlags
  <2> QED BY <2>1, <2>2 DEF IsRow, Rows
<1> QED BY <1>1, <1>2

(* Such a step, with or without a new removal, keeps the structure.        *)
LEMMA FlagsKeepRows ==
  ASSUME StructureInv, OnlyFlags, lastID' \in Nat, DOMAIN row \subseteq 0..lastID',
         cut' = cut, rm' = rm \/ (~Collecting /\ rm.del = {} /\ rm' = NoRemoval)
  PROVE  RowsInv' /\ RefInv' /\ TreeInv' /\ RmInv'
<1> USE DEF StructureInv
<1>1. \A i \in DOMAIN row :
           /\ row'[i].parent = row[i].parent /\ row'[i].kind = row[i].kind
           /\ row'[i].path = row[i].path /\ row'[i].ref = row[i].ref
           /\ i \notin Roots => IsRow(row'[i])
  BY FlagsKeepFields
<1>2. DOMAIN row' = DOMAIN row /\ \A i \in DOMAIN row : i \in Roots => row'[i] = row[i]
  BY DEF OnlyFlags
<1>3. RowsInv'
  BY <1>1, <1>2 DEF RowsInv, Roots, CDS_ID_ROOT, CDS_ID_FS_ROOT
<1>4. rm'.del = rm.del /\ rm'.items = rm.items /\ rm'.conts = rm.conts
  BY DEF RmInv, RmType, NoRemoval
<1>5. RefInv'
  BY <1>1, <1>2, <1>4 DEF RefInv
<1>6. TreeInv'
  BY <1>1, <1>2, <1>4 DEF TreeInv
<1>7. RmInv'
  <2>1. CASE rm' = NoRemoval
    BY <2>1 DEF RmInv, RmType, NoRemoval, Nobody, Collecting, Purging
  <2>2. CASE rm' = rm
    <3>1. \A i \in DOMAIN row : Container(i)' <=> Container(i)
      BY <1>1, <1>2 DEF Container
    <3>2. \A i \in DOMAIN row : Children({i})' = Children({i})
      BY <1>1, <1>2 DEF Children
    <3> QED BY <2>2, <3>1, <3>2, <1>2 DEF RmInv, RmType, Collecting, Purging
  <2> QED BY <2>1, <2>2
<1> QED BY <1>3, <1>5, <1>6, <1>7

LEMMA IntParents ==
  ASSUME RowsInv
  PROVE  /\ IsFiniteSet(DOMAIN row) /\ DOMAIN row \subseteq Nat
         /\ \A i \in DOMAIN row : row[i].parent \in Int
         /\ \A i \in DOMAIN row \ Roots : row[i].parent \in Nat
<1>1. IsFiniteSet(DOMAIN row)
  <2>1. IsFiniteSet(0..lastID)
    BY FS_Interval DEF RowsInv
  <2> QED BY <2>1, FS_Subset DEF RowsInv
<1>2. \A i \in DOMAIN row \ Roots : row[i].parent \in Nat
  BY DEF RowsInv, IsRow
<1>3. \A i \in Roots : row[i].parent \in Int
  BY DEF RowsInv, RootRow, NewRow, Roots, CDS_ID_ROOT, CDS_ID_FS_ROOT, None
<1> QED BY <1>1, <1>2, <1>3 DEF RowsInv

LEMMA PathIDsAreIDs == ASSUME RowsInv, NEW i \in Int PROVE PathIDs(i) \in SUBSET Int
<1>1. AboveIn(row, i) \subseteq Int
  BY IntParents, AboveFacts
<1> QED BY <1>1 DEF PathIDs

LEMMA IdleIsNoCall ==
  ASSUME StructureInv, NEW t \in Threads, Idle(t)
  PROVE  call[t] = NoCall
BY DEF StructureInv, CallInv, Idle, Calls, NoCall

LEMMA IdleRemovesNothing ==
  ASSUME StructureInv, Idle("task")
  PROVE  ~Collecting /\ ~Purging /\ rm.del = {} /\ rm.items = {} /\ rm.conts = {} /\ rm.parents = {}
BY DEF StructureInv, RmInv, RmType, Idle, Collecting, Purging

LEMMA FlagOnly ==
  ASSUME RowsInv, NEW i, i \notin Roots, row' = Flag(row, i, TRUE) \/ row' = Flag(row, i, FALSE)
  PROVE  OnlyFlags
<1>1. CASE i \in DOMAIN row
  <2>1. row' = [row EXCEPT ![i].keep = TRUE] \/ row' = [row EXCEPT ![i].keep = FALSE]
    BY <1>1 DEF Flag
  <2>2. \A j \in DOMAIN row : row[j].keep \in BOOLEAN /\ row[j] = [row[j] EXCEPT !.keep = row[j].keep]
    BY DEF RowsInv, IsRow, Rows, RootRow, NewRow, Roots, CDS_ID_ROOT, CDS_ID_FS_ROOT
  <2>3. row[i] \in Rows
    BY <1>1 DEF RowsInv, IsRow
  <2>4. row'[i].keep \in BOOLEAN /\ row'[i] = [row[i] EXCEPT !.keep = row'[i].keep]
    BY <2>1, <2>3, <1>1 DEF Rows
  <2> QED BY <1>1, <2>1, <2>2, <2>4 DEF OnlyFlags
<1>2. CASE i \notin DOMAIN row
  <2>1. row' = row
    BY <1>2 DEF Flag
  <2>2. \A j \in DOMAIN row : row[j].keep \in BOOLEAN /\ row[j] = [row[j] EXCEPT !.keep = row[j].keep]
    BY DEF RowsInv, IsRow, Rows, RootRow, NewRow, Roots, CDS_ID_ROOT, CDS_ID_FS_ROOT
  <2> QED BY <2>1, <2>2 DEF OnlyFlags
<1> QED BY <1>1, <1>2

LEMMA FlagNone == ASSUME RowsInv, row' = row PROVE OnlyFlags
<1>1. None \notin Roots /\ row' = Flag(row, None, TRUE)
  BY DEF RowsInv, Flag, None, Roots, CDS_ID_ROOT, CDS_ID_FS_ROOT
<1> QED BY <1>1, FlagOnly

(* A step with the calls at rest that changes flags and autoscan rows.     *)
LEMMA FlagsKeepStructure ==
  ASSUME StructureInv, OnlyFlags, lastID' = lastID, cut' = cut, rm' = rm, ScanRows',
         \A t \in Threads : call'[t] = NoCall,
         call' \in [Threads -> {NoCall} \union Calls]
  PROVE  StructureInv'
<1>1. lastID' \in Nat /\ DOMAIN row \subseteq 0..lastID'
  BY DEF StructureInv, RowsInv
<1>2. RowsInv' /\ RefInv' /\ TreeInv' /\ RmInv'
  BY <1>1, FlagsKeepRows
<1>3. CallInv'
  BY DEF CallInv
<1> QED BY <1>2, <1>3 DEF StructureInv

LEMMA FreeSlot ==
  ASSUME FreeScans # {}
  PROVE  Min(FreeScans) \in FreeScans
<1>1. FreeScans \subseteq 0..MaxScans /\ MaxScans \in Nat
  BY SQLStorageAssumption DEF FreeScans, SQLStorageAssumption
<1> QED BY <1>1, GreatestLeast

LEMMA AddScanStructure ==
  ASSUME Alone, StructureInv, addAutoscanDirectory
  PROVE  StructureInv'
<1>0. PICK p \in ScanDirs, recursive \in BOOLEAN :
        \E i \in (IF p = Top THEN {CDS_ID_FS_ROOT} ELSE FindContainer(p)) :
        /\ \A t \in Threads : Idle(t)
        /\ FreeScans # {}
        /\ scan' = Inserted(scan, Min(FreeScans),
                 [obj |-> i, path |-> p, recursive |-> recursive, persistent |-> FALSE,
                  pathIDs |-> PathIDs(i)])
        /\ row' = Flag(row, i, TRUE)
        /\ UNCHANGED <<lastID, call, rm, cut>>
  BY DEF addAutoscanDirectory
<1>1. PICK i \in (IF p = Top THEN {CDS_ID_FS_ROOT} ELSE FindContainer(p)) :
        /\ \A t \in Threads : Idle(t)
        /\ FreeScans # {}
        /\ scan' = Inserted(scan, Min(FreeScans),
                 [obj |-> i, path |-> p, recursive |-> recursive, persistent |-> FALSE,
                  pathIDs |-> PathIDs(i)])
        /\ row' = Flag(row, i, TRUE)
        /\ UNCHANGED <<lastID, call, rm, cut>>
  BY <1>0
<1>2. p # Top /\ p \in Dirs
  BY SQLStorageAssumption DEF Alone, SQLStorageAssumption
<1>3. i \in DOMAIN row /\ row[i].path = p
  BY <1>1, <1>2 DEF FindContainer
<1>4. i \in Nat \ Roots /\ i <= lastID
  BY <1>2, <1>3 DEF StructureInv, RowsInv, Roots, RootRow, NewRow
<1>5. OnlyFlags
  BY <1>1, <1>4, FlagOnly DEF StructureInv
<1>6. PathIDs(i) \in SUBSET Int
  BY <1>4, PathIDsAreIDs DEF StructureInv
<1>7. Min(FreeScans) \notin DOMAIN scan /\ Min(FreeScans) \in 1..MaxScans
  BY <1>1, FreeSlot DEF FreeScans
<1>8. ScanRows'
  <2> DEFINE new == [obj |-> i, path |-> p, recursive |-> recursive, persistent |-> FALSE,
                     pathIDs |-> PathIDs(i)]
  <2>1. /\ new \in ScanRow
        /\ new.obj = i
    BY <1>4, <1>6 DEF ScanRow
  <2>2. scan' = Inserted(scan, Min(FreeScans), new)
    BY <1>1
  <2> HIDE DEF new
  <2>3. /\ DOMAIN scan' = DOMAIN scan \union {Min(FreeScans)} /\ scan'[Min(FreeScans)] = new
        /\ \A s \in DOMAIN scan : scan'[s] = scan[s]
    BY <2>2, <1>7 DEF Inserted
  <2> QED BY <1>1, <1>4, <1>7, <2>1, <2>3 DEF StructureInv, ScanRows
<1>9. \A t \in Threads : call'[t] = NoCall
  BY <1>1, IdleIsNoCall
<1>10. call' \in [Threads -> {NoCall} \union Calls]
  BY <1>1 DEF StructureInv, CallInv
<1> QED BY <1>1, <1>5, <1>8, <1>9, <1>10, FlagsKeepStructure

(* A row of an autoscan directory whose object has changed.                *)
LEMMA UpdatedScan ==
  ASSUME StructureInv, NEW s \in DOMAIN scan, NEW obj \in (Nat \ Roots) \union {None},
         obj <= lastID, NEW recursive \in BOOLEAN,
         updateAutoscanDirectory(s, obj, recursive), lastID' = lastID
  PROVE  ScanRows'
<1>1. PathIDs(obj) \in SUBSET Int
  BY PathIDsAreIDs DEF StructureInv, None
<1>2. scan' = [scan EXCEPT ![s].obj = obj, ![s].recursive = recursive,
                         ![s].pathIDs = IF obj = None THEN {} ELSE PathIDs(obj)]
  BY DEF updateAutoscanDirectory
<1>3. (IF obj = None THEN {} ELSE PathIDs(obj)) \in SUBSET Int
  BY <1>1
<1> QED BY <1>2, <1>3 DEF StructureInv, ScanRows, ScanRow

LEMMA EditScanStructure ==
  ASSUME StructureInv, EditAutoscan
  PROVE  StructureInv'
<1>1. PICK s \in DOMAIN scan, recursive \in BOOLEAN :
        /\ \A t \in Threads : Idle(t)
        /\ updateAutoscanDirectory(s, scan[s].obj, recursive)
        /\ UNCHANGED <<lastID, call, rm, cut>>
  BY DEF EditAutoscan
<1>2. scan[s].obj \in (Nat \ Roots) \union {None} /\ scan[s].obj <= lastID
  BY DEF StructureInv, ScanRows, ScanRow
<1>3. ScanRows'
  BY <1>1, <1>2, UpdatedScan
<1>4. row' = row
  BY <1>1 DEF updateAutoscanDirectory, Moved
<1>5. OnlyFlags
  BY <1>4, FlagNone DEF StructureInv
<1>6. \A t \in Threads : call'[t] = NoCall
  BY <1>1, IdleIsNoCall
<1>7. call' \in [Threads -> {NoCall} \union Calls]
  BY <1>1 DEF StructureInv, CallInv
<1> QED BY <1>1, <1>3, <1>5, <1>6, <1>7, FlagsKeepStructure

LEMMA RemoveScanStructure ==
  ASSUME StructureInv, removeAutoscanDirectory
  PROVE  StructureInv'
<1>1. PICK s \in DOMAIN scan :
        /\ \A t \in Threads : Idle(t)
        /\ scan' = [o \in DOMAIN scan \ {s} |-> scan[o]]
        /\ row' = Flag(row, scan[s].obj, FALSE)
        /\ UNCHANGED <<lastID, call, rm, cut>>
  BY DEF removeAutoscanDirectory
<1>2. scan[s].obj \in (Nat \ Roots) \union {None}
  BY DEF StructureInv, ScanRows, ScanRow
<1>3. ScanRows'
  BY <1>1 DEF StructureInv, ScanRows
<1>4. OnlyFlags
  <2>1. RowsInv /\ scan[s].obj \notin Roots
    BY <1>2 DEF StructureInv, None, Roots, CDS_ID_ROOT, CDS_ID_FS_ROOT
  <2> QED BY <1>1, <2>1, FlagOnly
<1>5. \A t \in Threads : call'[t] = NoCall
  BY <1>1, IdleIsNoCall
<1>6. call' \in [Threads -> {NoCall} \union Calls]
  BY <1>1 DEF StructureInv, CallInv
<1> QED BY <1>1, <1>3, <1>4, <1>5, <1>6, FlagsKeepStructure

(* The flag goes from one row to another.                                  *)
LEMMA MovedOnly ==
  ASSUME StructureInv, NEW s \in DOMAIN scan, NEW obj \in (Nat \ Roots) \union {None},
         row' = Moved(s, obj)
  PROVE  OnlyFlags
<1> DEFINE one == Flag(row, scan[s].obj, FALSE)
<1>1. scan[s].obj \notin Roots /\ obj \notin Roots /\ None \notin DOMAIN row
  BY DEF StructureInv, ScanRows, ScanRow, RowsInv, None, Roots, CDS_ID_ROOT, CDS_ID_FS_ROOT
<1>2. CASE scan[s].obj = obj
  <2>1. row' = row
    BY <1>2 DEF Moved
  <2> QED BY <2>1, FlagNone DEF StructureInv
<1>3. CASE scan[s].obj # obj
  <2>1. row' = Flag(one, obj, TRUE)
    BY <1>3 DEF Moved
  <2>2. \A i \in DOMAIN row \ Roots : row[i] \in Rows
    BY DEF StructureInv, RowsInv, IsRow
  <2>3. /\ DOMAIN one = DOMAIN row
        /\ \A i \in DOMAIN row : i # scan[s].obj => one[i] = row[i]
        /\ scan[s].obj \in DOMAIN row =>
             one[scan[s].obj] = [row[scan[s].obj] EXCEPT !.keep = FALSE]
    BY DEF Flag
  <2>4. /\ DOMAIN one = DOMAIN row
        /\ \A i \in DOMAIN row : /\ i \in Roots => one[i] = row[i]
                                 /\ i \notin Roots => /\ one[i].keep \in BOOLEAN
                                                      /\ one[i] = [row[i] EXCEPT !.keep = one[i].keep]
    <3> HIDE DEF one
    <3>1. ASSUME NEW i \in DOMAIN row, i \notin Roots
          PROVE  one[i].keep \in BOOLEAN /\ one[i] = [row[i] EXCEPT !.keep = one[i].keep]
      <4>1. row[i] \in Rows
        BY <2>2, <3>1
      <4>2. one[i] = row[i] \/ one[i] = [row[i] EXCEPT !.keep = FALSE]
        BY <2>3
      <4> QED BY <4>1, <4>2 DEF Rows
    <3> QED BY <1>1, <2>3, <3>1
  <2> HIDE DEF one
  <2>5. /\ DOMAIN row' = DOMAIN row
        /\ \A i \in DOMAIN row : i # obj => row'[i] = one[i]
        /\ obj \in DOMAIN row => row'[obj] = [one[obj] EXCEPT !.keep = TRUE]
    BY <2>1, <2>4 DEF Flag
  <2>6. \A i \in DOMAIN row : i \in Roots =>
           row[i].keep \in BOOLEAN /\ row[i] = [row[i] EXCEPT !.keep = row[i].keep]
    BY DEF StructureInv, RowsInv, RootRow, NewRow, Roots, CDS_ID_ROOT, CDS_ID_FS_ROOT
  <2>7. obj \in DOMAIN row => row'[obj].keep = TRUE /\ row'[obj] = [row[obj] EXCEPT !.keep = TRUE]
    BY <1>1, <2>2, <2>4, <2>5 DEF Rows
  <2>8. ASSUME NEW i \in DOMAIN row
        PROVE  /\ row'[i].keep \in BOOLEAN
               /\ row'[i] = [row[i] EXCEPT !.keep = row'[i].keep]
               /\ i \in Roots => row'[i] = row[i]
    <3>1. CASE i = obj
      BY <1>1, <2>7, <3>1
    <3>2. CASE i # obj /\ i \in Roots
      BY <2>4, <2>5, <2>6, <3>2
    <3>3. CASE i # obj /\ i \notin Roots
      BY <2>4, <2>5, <3>3
    <3> QED BY <3>1, <3>2, <3>3
  <2> QED BY <2>4, <2>5, <2>8 DEF OnlyFlags
<1> QED BY <1>2, <1>3

LEMMA ScanForgetsStructure ==
  ASSUME Alone, StructureInv, ScanForgets
  PROVE  StructureInv'
<1>1. PICK s \in DOMAIN scan :
        /\ MayBegin("task")
        /\ updateAutoscanDirectory(s, None, scan[s].recursive)
        /\ UNCHANGED <<lastID, call, rm, cut>>
  BY DEF ScanForgets
<1>2. None \in (Nat \ Roots) \union {None} /\ None <= lastID /\ scan[s].recursive \in BOOLEAN
  BY DEF StructureInv, RowsInv, ScanRows, ScanRow, None
<1>3. ScanRows'
  BY <1>1, <1>2, UpdatedScan
<1>4. OnlyFlags
  BY <1>1, MovedOnly DEF updateAutoscanDirectory
<1>5. \A t \in Threads : call'[t] = NoCall
  BY <1>1, OneThread, IdleIsNoCall DEF MayBegin
<1>6. call' \in [Threads -> {NoCall} \union Calls]
  BY <1>1 DEF StructureInv, CallInv
<1> QED BY <1>1, <1>3, <1>4, <1>5, <1>6, FlagsKeepStructure

LEMMA ScanFindsStructure ==
  ASSUME Alone, StructureInv, ScanFinds
  PROVE  StructureInv'
<1> DEFINE c == call["task"]
<1>1. /\ c.op = "scan" /\ c.at # None /\ c.down = <<>>
      /\ \/ c.arg \in DOMAIN scan /\ updateAutoscanDirectory(c.arg, c.at, scan[c.arg].recursive)
         \/ UNCHANGED <<row, scan>>
      /\ call' = [call EXCEPT !["task"] = NoCall]
      /\ UNCHANGED <<lastID, rm, cut>>
  BY DEF ScanFinds, Ensured, Return
<1>2. c # NoCall
  BY <1>1 DEF NoCall
<1>3. c.at \in DOMAIN row \ Roots
  <2>1. c.at \in DOMAIN row /\ c.goal \in Dirs /\ (c.goal # Top => c.at \notin Roots)
    BY <1>1, <1>2, OneThread DEF StructureInv, CallInv, CallOK, Places
  <2> QED BY <2>1, SQLStorageAssumption DEF SQLStorageAssumption
<1>4. c.at \in Nat \ Roots /\ c.at <= lastID
  BY <1>3 DEF StructureInv, RowsInv
<1>5. ScanRows' /\ OnlyFlags
  <2>1. CASE c.arg \in DOMAIN scan /\ updateAutoscanDirectory(c.arg, c.at, scan[c.arg].recursive)
    <3>1. scan[c.arg].recursive \in BOOLEAN
      BY <2>1 DEF StructureInv, ScanRows, ScanRow
    <3>2. ScanRows'
      BY <1>1, <1>4, <2>1, <3>1, UpdatedScan
    <3>3. OnlyFlags
      BY <1>4, <2>1, MovedOnly DEF updateAutoscanDirectory
    <3> QED BY <3>2, <3>3
  <2>2. CASE UNCHANGED <<row, scan>>
    <3>1. ScanRows'
      BY <1>1, <2>2 DEF StructureInv, ScanRows
    <3>2. OnlyFlags
      BY <2>2, FlagNone DEF StructureInv
    <3> QED BY <3>1, <3>2
  <2> QED BY <1>1, <2>1, <2>2
<1>6. /\ \A t \in Threads : call'[t] = NoCall
      /\ call' \in [Threads -> {NoCall} \union Calls]
  BY <1>1, OneThread DEF StructureInv, CallInv
<1> QED BY <1>1, <1>5, <1>6, FlagsKeepStructure

LEMMA ObjectsAtPlaces ==
  ASSUME Alone, RowsInv, NEW p \in ScanDirs
  PROVE  ObjectAt(p) = None \/ (ObjectAt(p) \in FindContainer(p) /\ ObjectAt(p) \in DOMAIN row \ Roots
                                /\ FindContainer(p) = ByPath(p) /\ row[ObjectAt(p)].kind = "dir")
<1>1. p # Top /\ p \in Dirs /\ p \notin Virts
  BY SQLStorageAssumption DEF Alone, SQLStorageAssumption
<1>2. ByPath(p) = FindContainer(p)
  BY <1>1 DEF ByPath
<1>3. CASE FindContainer(p) = {}
  BY <1>1, <1>2, <1>3 DEF ObjectAt
<1>4. CASE FindContainer(p) # {}
  <2>1. FindContainer(p) \subseteq 0..lastID /\ lastID \in Nat
    BY DEF FindContainer, RowsInv
  <2>2. Min(FindContainer(p)) \in FindContainer(p)
    BY <1>4, <2>1, GreatestLeast
  <2>3. ObjectAt(p) \in FindContainer(p)
    BY <1>1, <1>2, <1>4, <2>2 DEF ObjectAt
  <2>4. /\ ObjectAt(p) \in DOMAIN row /\ row[ObjectAt(p)].path = p
        /\ row[ObjectAt(p)].kind \in {"dir", "virt"}
    BY <2>3 DEF FindContainer, Container
  <2>5. ObjectAt(p) \notin Roots
    BY <1>1, <2>4 DEF RowsInv, Roots, RootRow, NewRow
  <2>6. row[ObjectAt(p)].kind = "dir"
    BY <1>1, <2>4, <2>5 DEF RowsInv, IsRow
  <2> QED BY <1>2, <2>3, <2>4, <2>5, <2>6
<1> QED BY <1>3, <1>4

(* The rows of autoscan directories after a restart: those that clients    *)
(* made as they were, the listed ones without a container or at their own. *)
LEMMA RestartedScans ==
  ASSUME Alone, StructureInv, NEW config \in SUBSET ConfigDirs, NEW slot,
         NEW rec \in [Fresh(config) -> BOOLEAN], Restarted(config, slot, rec),
         slot \in [Fresh(config) -> (1..MaxScans) \ Stay(config)]
  PROVE  /\ DOMAIN scan' \subseteq 1..MaxScans
         /\ \A s \in DOMAIN scan' :
              /\ Usable(scan'[s].obj)
              /\ scan'[s] \in ScanRow
              /\ \/ s \in DOMAIN scan /\ ~scan[s].persistent /\ scan'[s] = scan[s] /\ s \notin Old(config)
                 \/ scan'[s].persistent /\ scan'[s].obj = None
                 \/ /\ scan'[s].persistent
                    /\ \E p \in Fresh(config) : slot[p] = s /\ scan'[s].obj = ObjectAt(p)
         /\ OnlyFlags
<1> DEFINE fresh == Fresh(config)
           old   == Old(config)
           stay  == Stay(config)
           all   == ScanTable(config, slot, rec)
           bad   == {s \in DOMAIN all : ~Usable(all[s].obj)}
<1>0. /\ DOMAIN all = stay \union {slot[p] : p \in fresh}
      /\ \A s \in stay \union {slot[p] : p \in fresh} : all[s] =
            IF s \in old THEN Listed(s, CHOOSE p \in config : s \in Match(p))
            ELSE IF s \in stay THEN scan[s]
            ELSE LET p == CHOOSE q \in fresh : slot[q] = s IN
                 [obj |-> ObjectAt(p), path |-> p, recursive |-> rec[p], persistent |-> TRUE,
                  pathIDs |-> {}]
  BY DEF ScanTable
<1>1. /\ rec \in [fresh -> BOOLEAN]
      /\ scan' = [s \in DOMAIN all \ bad |-> all[s]]
      /\ row' = [i \in DOMAIN row |->
           [row[i] EXCEPT !.keep = IF \E s \in bad : all[s].obj = i THEN FALSE
                                   ELSE IF \E p \in fresh : ObjectAt(p) = i THEN TRUE
                                   ELSE IF \E s \in old : scan[s].obj = i THEN FALSE ELSE @]]
  BY DEF Restarted
<1> HIDE DEF all
<1>2. \A p \in config : p \in ScanDirs
  BY SQLStorageAssumption DEF SQLStorageAssumption
<1>3. ASSUME NEW s \in DOMAIN all
      PROVE  \/ /\ s \in old /\ s \in DOMAIN scan
                /\ \E p \in config : all[s] = Listed(s, p)
             \/ s \notin old /\ s \in DOMAIN scan /\ ~scan[s].persistent /\ all[s] = scan[s]
             \/ \E p \in fresh : slot[p] = s /\
                  all[s] = [obj |-> ObjectAt(p), path |-> p, recursive |-> rec[p],
                            persistent |-> TRUE, pathIDs |-> {}]
  <2>1. CASE s \in old
    <3>1. all[s] = Listed(s, CHOOSE p \in config : s \in Match(p))
      BY <1>0, <2>1
    <3>2. (CHOOSE p \in config : s \in Match(p)) \in config
      BY <2>1 DEF Old
    <3>3. s \in DOMAIN scan
      BY <2>1 DEF Old, Match
    <3> QED BY <2>1, <3>1, <3>2, <3>3
  <2>2. CASE s \notin old /\ s \in stay
    BY <1>0, <2>2 DEF Stay
  <2>3. CASE s \notin old /\ s \notin stay
    <3> DEFINE p == CHOOSE q \in fresh : slot[q] = s
    <3>1. \E q \in fresh : slot[q] = s
      BY <1>0, <2>3
    <3>2. p \in fresh /\ slot[p] = s
      BY <3>1
    <3>3. all[s] = [obj |-> ObjectAt(p), path |-> p, recursive |-> rec[p],
                    persistent |-> TRUE, pathIDs |-> {}]
      BY <1>0, <2>3
    <3> HIDE DEF p
    <3> QED BY <3>2, <3>3
  <2> QED BY <2>1, <2>2, <2>3
<1>4. ASSUME NEW s \in DOMAIN all
      PROVE  /\ all[s].obj \notin Roots
             /\ Usable(all[s].obj) => all[s] \in ScanRow
             /\ \/ s \in DOMAIN scan /\ ~scan[s].persistent /\ all[s] = scan[s] /\ s \notin old
                \/ all[s].persistent /\ all[s].obj = None
                \/ all[s].persistent /\ \E p \in fresh : slot[p] = s /\ all[s].obj = ObjectAt(p)
  <2>0. None \notin Roots
    BY DEF None, Roots, CDS_ID_ROOT, CDS_ID_FS_ROOT
  <2>1. CASE s \in DOMAIN scan /\ \E p \in config : all[s] = Listed(s, p)
    <3>1. PICK p \in config : all[s] = Listed(s, p)
      BY <2>1
    <3>2. scan[s] \in ScanRow
      BY <2>1 DEF StructureInv, ScanRows, ScanRow
    <3>3. all[s] = [obj |-> None, path |-> p, recursive |-> scan[s].recursive,
                    persistent |-> TRUE, pathIDs |-> {}]
      BY <3>1, <3>2 DEF Listed, ScanRow
    <3> QED BY <1>2, <2>0, <3>2, <3>3 DEF ScanRow
  <2>2. CASE s \notin old /\ s \in DOMAIN scan /\ ~scan[s].persistent /\ all[s] = scan[s]
    <3>1. scan[s] \in ScanRow
      BY <2>2 DEF StructureInv, ScanRows
    <3> QED BY <2>0, <2>2, <3>1 DEF ScanRow
  <2>3. CASE \E p \in fresh : slot[p] = s /\
                  all[s] = [obj |-> ObjectAt(p), path |-> p, recursive |-> rec[p],
                            persistent |-> TRUE, pathIDs |-> {}]
    <3>1. PICK p \in fresh : slot[p] = s /\
                  all[s] = [obj |-> ObjectAt(p), path |-> p, recursive |-> rec[p],
                            persistent |-> TRUE, pathIDs |-> {}]
      BY <1>0, <2>3
    <3>2. p \in ScanDirs /\ rec[p] \in BOOLEAN
      BY <1>1, <1>2, <3>1 DEF Fresh
    <3>3. ObjectAt(p) \notin Roots
      BY <2>0, <3>2, ObjectsAtPlaces DEF StructureInv
    <3>4. Usable(ObjectAt(p)) => ObjectAt(p) \in (Nat \ Roots) \union {None}
      BY DEF Usable, StructureInv, RowsInv
    <3>5. Usable(all[s].obj) => all[s] \in ScanRow
      BY <3>1, <3>2, <3>4 DEF ScanRow
    <3> QED BY <3>1, <3>3, <3>5
  <2> QED BY <1>3, <2>1, <2>2, <2>3
<1>5. ASSUME NEW s \in DOMAIN scan'
      PROVE  s \in DOMAIN all /\ scan'[s] = all[s] /\ Usable(all[s].obj)
  <2> QED BY <1>1, <1>5
<1>6. OnlyFlags
  <2>1. ASSUME NEW i \in DOMAIN row
        PROVE  /\ row'[i].keep \in BOOLEAN
               /\ row'[i] = [row[i] EXCEPT !.keep = row'[i].keep]
    <3>1. row[i] \in Rows
      BY RowsAreRows DEF StructureInv
    <3>2. \/ row'[i] = [row[i] EXCEPT !.keep = TRUE]
          \/ row'[i] = [row[i] EXCEPT !.keep = FALSE]
          \/ row'[i] = row[i]
      BY <1>1, <3>1 DEF Rows
    <3> QED BY <3>1, <3>2 DEF Rows
  <2>2. ASSUME NEW i \in DOMAIN row, i \in Roots
        PROVE  row'[i] = row[i]
    <3>1. \A s \in bad : all[s].obj # i
      BY <1>4, <2>2
    <3>2. \A p \in fresh : ObjectAt(p) # i
      BY <1>2, <2>2, ObjectsAtPlaces DEF StructureInv, Fresh, None, Roots, CDS_ID_ROOT, CDS_ID_FS_ROOT
    <3>3. \A s \in old : scan[s].obj # i
      BY <2>2 DEF StructureInv, ScanRows, ScanRow, Old, Match, None, Roots, CDS_ID_ROOT, CDS_ID_FS_ROOT
    <3>4. row[i] \in Rows
      BY RowsAreRows DEF StructureInv
    <3>5. row'[i] = [row[i] EXCEPT !.keep = @]
      BY <1>1, <3>1, <3>2, <3>3
    <3> QED BY <3>4, <3>5 DEF Rows
  <2>3. DOMAIN row' = DOMAIN row
    BY <1>1
  <2> QED BY <2>1, <2>2, <2>3 DEF OnlyFlags
<1>7. DOMAIN scan' \subseteq 1..MaxScans
  BY <1>0, <1>1 DEF StructureInv, ScanRows, ScanRow, Stay
<1> QED BY <1>4, <1>5, <1>6, <1>7

LEMMA RestartStructure ==
  ASSUME Alone, StructureInv, Restart
  PROVE  StructureInv'
<1>1. /\ \A t \in Threads : Idle(t)
      /\ lastID' = Max(DOMAIN row) /\ rm' = NoRemoval /\ UNCHANGED <<call, cut>>
  BY DEF Restart
<1>2. PICK config, slot, rec :
        /\ config \in SUBSET ConfigDirs
        /\ slot \in [Fresh(config) -> (1..MaxScans) \ Stay(config)]
        /\ rec \in [Fresh(config) -> BOOLEAN] /\ Restarted(config, slot, rec)
  BY DEF Restart
<1>3. lastID' \in DOMAIN row /\ \A i \in DOMAIN row : i <= lastID'
  <2>1. DOMAIN row \subseteq 0..lastID /\ DOMAIN row # {} /\ lastID \in Nat
    BY DEF StructureInv, RowsInv, Roots
  <2>2. Max(DOMAIN row) \in DOMAIN row /\ \A i \in DOMAIN row : Max(DOMAIN row) >= i
    BY <2>1, GreatestLeast
  <2> QED BY <1>1, <2>1, <2>2
<1>4. lastID' \in Nat /\ DOMAIN row \subseteq 0..lastID'
  BY <1>3 DEF StructureInv, RowsInv
<1>5. ~Collecting /\ rm.del = {}
  BY <1>1, OneThread, IdleRemovesNothing
<1>6. OnlyFlags
  BY <1>2, RestartedScans
<1>7. RowsInv' /\ RefInv' /\ TreeInv' /\ RmInv'
  BY <1>1, <1>4, <1>5, <1>6, FlagsKeepRows
<1>8. CallInv'
  <2>1. \A t \in Threads : call'[t] = NoCall
    BY <1>1, IdleIsNoCall
  <2> QED BY <1>1, <2>1 DEF StructureInv, CallInv
<1>9. ScanRows'
  <2> SUFFICES ASSUME NEW s \in DOMAIN scan'
               PROVE  scan'[s] \in ScanRow /\ scan'[s].obj <= lastID'
    BY <1>2, RestartedScans DEF ScanRows
  <2>1. Usable(scan'[s].obj) /\ scan'[s] \in ScanRow
    BY <1>2, RestartedScans
  <2>2. scan'[s].obj <= lastID'
    BY <1>3, <1>4, <2>1 DEF Usable, None
  <2> QED BY <2>1, <2>2
<1> QED BY <1>7, <1>8, <1>9 DEF StructureInv

LEMMA BeginStructure ==
  ASSUME Alone, StructureInv, NEW op \in {"file", "ref", "cont", "update", "scan"},
         NEW goal \in Locations, NEW arg \in Files \union Int, NEW link \in Int,
         Begin("task", op, goal, arg, link),
         goal \in IF op \in {"ref", "cont"} THEN Virts
                  ELSE IF op = "scan" THEN Dirs ELSE Dirs \union {Top},
         op = "file" => arg \in Files,
         op \in {"ref", "update"} => arg \in DOMAIN row /\ row[arg].kind = "file",
         op = "scan" => arg \in DOMAIN scan /\ scan[arg].persistent
  PROVE  StructureInv'
<1> DEFINE new == [op |-> op, goal |-> goal, arg |-> arg, link |-> link, look |-> goal,
                   down |-> <<>>, at |-> None, changed |-> None, last |-> lastID]
<1>1. /\ call' = [call EXCEPT !["task"] = new]
      /\ rm' = NoRemoval /\ MayBegin("task")
      /\ UNCHANGED <<row, lastID, scan, cut>>
  BY DEF Begin
<1>2. Idle("task")
  BY <1>1 DEF MayBegin
<1>3. rm.del = {} /\ ~Collecting
  BY <1>2, IdleRemovesNothing
<1>4. OnlyFlags
  BY <1>1, FlagNone DEF StructureInv
<1>5. RowsInv' /\ RefInv' /\ TreeInv' /\ RmInv'
  <2>1. lastID' \in Nat /\ DOMAIN row \subseteq 0..lastID'
    BY <1>1 DEF StructureInv, RowsInv
  <2> QED BY <1>1, <1>3, <1>4, <2>1, FlagsKeepRows
<1>6. ScanRows'
  BY <1>1 DEF StructureInv, ScanRows
<1>7. CallInv'
  <2>1. new \in Calls
    <3>1. lastID \in Int /\ None \in Int
      BY DEF StructureInv, RowsInv, None
    <3>2. <<>> \in Seq(Locations)
      OBVIOUS
    <3> QED BY <3>1, <3>2 DEF Calls
  <2>2. /\ new.op = op /\ new.goal = goal /\ new.arg = arg /\ new.look = goal /\ new.down = <<>>
        /\ new.at = None
    OBVIOUS
  <2> HIDE DEF new
  <2>3. call' \in [Threads -> {NoCall} \union Calls] /\ call'["task"] = new
    BY <1>1, <2>1, OneThread DEF StructureInv, CallInv
  <2>4. new.goal \in Places(new) \/ (new.op \in {"file", "update"} /\ new.goal = Top)
    BY <2>2 DEF Places
  <2>5. new.look \in Places(new) \union {Top} /\ new.down \in Seq(Places(new))
    BY <2>2, <2>4
  <2> QED BY <1>1, <2>2, <2>3, <2>4, <2>5, OneThread DEF CallInv, CallOK
<1> QED BY <1>5, <1>6, <1>7 DEF StructureInv

LEMMA BeginningsStructure ==
  ASSUME Alone, StructureInv,
         \/ BeginAddFile("task") \/ BeginAddRef("task") \/ BeginAddChain("task")
         \/ BeginUpdate("task") \/ BeginScan
  PROVE  StructureInv'
<1>0. None \in Int
  BY DEF None
<1>1. CASE BeginAddFile("task")
  <2>1. PICK f \in Files : Begin("task", "file", Up[f], f, None)
    BY <1>1 DEF BeginAddFile
  <2>2. Up[f] \in Dirs \union {Top} /\ Up[f] \in Locations
    BY SQLStorageAssumption DEF SQLStorageAssumption, Locations
  <2> QED BY <1>0, <2>1, <2>2, BeginStructure
<1>2. CASE BeginAddRef("task")
  <2>1. PICK v \in Virts, i \in DOMAIN row, l \in DOMAIN row \union {None} :
          row[i].kind = "file" /\ Begin("task", "ref", v, i, l)
    BY <1>2 DEF BeginAddRef
  <2>2. v \in Locations /\ i \in Int /\ l \in Int
    BY <1>0, IntParents DEF Locations, StructureInv
  <2> QED BY <2>1, <2>2, BeginStructure
<1>3. CASE BeginAddChain("task")
  <2>1. PICK v \in Virts : Begin("task", "cont", v, None, None)
    BY <1>3 DEF BeginAddChain
  <2>2. v \in Locations
    BY DEF Locations
  <2> QED BY <1>0, <2>1, <2>2, BeginStructure
<1>4. CASE BeginUpdate("task")
  <2>1. PICK i \in DOMAIN row : row[i].kind = "file" /\ Begin("task", "update", Up[row[i].path], i, None)
    BY <1>4 DEF BeginUpdate
  <2>2. i \notin Roots
    BY <2>1 DEF StructureInv, RowsInv, RootRow, NewRow, Roots
  <2>3. row[i].path \in Files /\ i \in Int
    BY <2>1, <2>2, IntParents DEF StructureInv, RowsInv, IsRow
  <2>4. Up[row[i].path] \in Dirs \union {Top} /\ Up[row[i].path] \in Locations
    BY <2>3, SQLStorageAssumption DEF SQLStorageAssumption, Locations
  <2> QED BY <1>0, <2>1, <2>3, <2>4, BeginStructure
<1>5. CASE BeginScan
  <2>1. PICK s \in DOMAIN scan : Lost(s) /\ Begin("task", "scan", scan[s].path, s, None)
    BY <1>5 DEF BeginScan
  <2>2. scan[s].path \in Dirs /\ scan[s].path \in Locations
    BY SQLStorageAssumption DEF StructureInv, ScanRows, ScanRow, SQLStorageAssumption, Alone, Locations
  <2>3. s \in Int /\ scan[s].persistent
    BY <2>1, SQLStorageAssumption DEF StructureInv, ScanRows, ScanRow, Lost, SQLStorageAssumption
  <2> QED BY <1>0, <2>1, <2>2, <2>3, BeginStructure
<1> QED BY <1>1, <1>2, <1>3, <1>4, <1>5

(* A step that changes nothing but the call.                               *)
LEMMA CallStructure ==
  ASSUME StructureInv, UNCHANGED <<row, lastID, scan, rm, cut>>, CallInv'
  PROVE  StructureInv'
<1>1. OnlyFlags
  BY FlagNone DEF StructureInv
<1>2. lastID' \in Nat /\ DOMAIN row \subseteq 0..lastID'
  BY DEF StructureInv, RowsInv
<1>3. RowsInv' /\ RefInv' /\ TreeInv' /\ RmInv'
  BY <1>1, <1>2, FlagsKeepRows
<1>4. ScanRows'
  BY DEF StructureInv, ScanRows
<1> QED BY <1>3, <1>4 DEF StructureInv

LEMMA NextCall ==
  ASSUME Alone, CallInv, NEW c \in Calls, call' = [call EXCEPT !["task"] = c], CallOK(c)'
  PROVE  CallInv'
<1>1. call' \in [Threads -> {NoCall} \union Calls] /\ call'["task"] = c
  BY OneThread DEF CallInv
<1> QED BY <1>1, OneThread DEF CallInv

LEMMA ReturnedCall ==
  ASSUME Alone, CallInv, call' = [call EXCEPT !["task"] = NoCall]
  PROVE  CallInv'
BY OneThread DEF CallInv

(* A call that goes on.                                                    *)
LEMMA TheCall ==
  ASSUME Alone, StructureInv, call["task"].op # "none"
  PROVE  call["task"] \in Calls /\ CallOK(call["task"])
<1>1. call["task"] # NoCall
  BY DEF NoCall
<1> QED BY <1>1, OneThread DEF StructureInv, CallInv

LEMMA PlacesAre ==
  ASSUME NEW c
  PROVE  /\ Places(c) \subseteq Locations /\ Top \notin Places(c)
         /\ \A p \in Places(c) : Up[p] \in Places(c) \union {Top}
         /\ \A p \in Places(c) : p \in Virts <=> c.op \in {"ref", "cont"}
BY SQLStorageAssumption DEF Places, Locations, SQLStorageAssumption

LEMMA LookUpStructure ==
  ASSUME Alone, StructureInv, LookUp("task")
  PROVE  StructureInv'
<1>0. PICK c : c = call["task"]
  OBVIOUS
<1>1. c.op # "none" /\ c.at = None /\ UNCHANGED <<row, lastID, scan, rm, cut>>
  BY <1>0 DEF LookUp
<1>2. c \in Calls /\ CallOK(c)
  BY <1>0, <1>1, TheCall
<1>3. \/ c.look = Top /\ call' = [call EXCEPT !["task"].at = RootOf(c.goal)]
      \/ c.look # Top /\ \E i \in FindContainer(c.look) : call' = [call EXCEPT !["task"].at = i]
      \/ c.look # Top /\ call' = [call EXCEPT !["task"].look = Up[c.look],
                                              !["task"].down = <<c.look>> \o @]
  BY <1>0 DEF LookUp
<1>4. call \in [Threads -> {NoCall} \union Calls] /\ Threads = {"task"}
  BY OneThread DEF StructureInv, CallInv
<1>5. ASSUME NEW i \in DOMAIN row, row[i].kind = Kind(c), c.goal # Top => i \notin Roots \/ c.down # <<>>,
             call' = [call EXCEPT !["task"].at = i]
      PROVE  CallInv'
  <2>0. PICK d : d = [c EXCEPT !.at = i]
    OBVIOUS
  <2>1. call' = [call EXCEPT !["task"] = d]
    BY <1>0, <1>4, <1>5, <2>0
  <2>2. i # None /\ i \in Int
    BY DEF StructureInv, RowsInv, None
  <2>3. d \in Calls /\ d.at = i /\ d.down = c.down /\ d.goal = c.goal /\ d.op = c.op
        /\ d.look = c.look /\ d.arg = c.arg
    BY <1>2, <2>0, <2>2 DEF Calls
  <2>4. CallOK(d)'
    BY <1>1, <1>2, <1>5, <2>2, <2>3 DEF CallOK, Places, Kind
  <2> QED BY <2>1, <2>3, <2>4, NextCall DEF StructureInv
<1>6. ASSUME c.look = Top /\ call' = [call EXCEPT !["task"].at = RootOf(c.goal)]
      PROVE  CallInv'
  <2>1. c.goal # Top => c.down # <<>>
    BY <1>1, <1>2, <1>6 DEF CallOK
  <2>2. RootOf(c.goal) \in DOMAIN row /\ row[RootOf(c.goal)].kind = IF c.goal \in Virts THEN "virt" ELSE "dir"
    BY DEF RootOf, StructureInv, RowsInv, RootRow, NewRow, Roots
  <2>3. c.goal \in Virts <=> c.op \in {"ref", "cont"}
    BY <1>2, SQLStorageAssumption DEF CallOK, Places, SQLStorageAssumption
  <2> QED BY <1>5, <1>6, <2>1, <2>2, <2>3 DEF Kind
<1>7. ASSUME c.look # Top /\ \E i \in FindContainer(c.look) : call' = [call EXCEPT !["task"].at = i]
      PROVE  CallInv'
  <2>1. PICK i \in FindContainer(c.look) : call' = [call EXCEPT !["task"].at = i]
    BY <1>7
  <2>2. i \in DOMAIN row /\ row[i].path = c.look /\ row[i].kind \in {"dir", "virt"}
    BY <2>1 DEF FindContainer, Container
  <2>3. i \notin Roots
    BY <1>7, <2>2 DEF StructureInv, RowsInv, RootRow, NewRow, Roots
  <2>4. IsRow(row[i])
    BY <2>2, <2>3 DEF StructureInv, RowsInv
  <2>5. c.look \in Places(c)
    BY <1>2, <1>7 DEF CallOK
  <2>6. row[i].kind = Kind(c)
    BY <2>2, <2>4, <2>5, SQLStorageAssumption DEF IsRow, Places, Kind, SQLStorageAssumption
  <2> QED BY <1>5, <2>1, <2>2, <2>3, <2>6
<1>8. ASSUME c.look # Top /\ call' = [call EXCEPT !["task"].look = Up[c.look],
                                                  !["task"].down = <<c.look>> \o @]
      PROVE  CallInv'
  <2>1. PICK e : e = <<c.look>> \o c.down
    OBVIOUS
  <2>2. PICK d : d = [c EXCEPT !.look = Up[c.look], !.down = e]
    OBVIOUS
  <2>3. call' = [call EXCEPT !["task"] = d]
    BY <1>0, <1>4, <1>8, <2>1, <2>2
  <2>4. c.look \in Places(c) /\ c.down \in Seq(Places(c))
    BY <1>2, <1>8 DEF CallOK
  <2>5. e \in Seq(Places(c)) /\ e # <<>>
    BY <2>1, <2>4
  <2>6. Up[c.look] \in Places(c) \union {Top} /\ Places(c) \subseteq Locations
    BY <2>4, PlacesAre
  <2>7. Top \in Locations
    BY DEF Locations
  <2>8. e \in Seq(Locations)
    BY <2>5, <2>6
  <2>9. d \in Calls /\ d.at = c.at /\ d.down = e /\ d.goal = c.goal /\ d.op = c.op
        /\ d.look = Up[c.look] /\ d.arg = c.arg
    BY <1>2, <2>6, <2>7, <2>8, <2>2 DEF Calls
  <2>10. Places(d) = Places(c)
    BY <2>9 DEF Places
  <2>11. CallOK(d)'
    BY <1>1, <1>2, <2>5, <2>6, <2>9, <2>10 DEF CallOK
  <2> QED BY <2>3, <2>9, <2>11, NextCall DEF StructureInv
<1>9. CallInv'
  BY <1>3, <1>6, <1>7, <1>8
<1> QED BY <1>1, <1>9, CallStructure

(* A new row below a container of the right kind; a reference to a file.   *)
LEMMA RowAdded ==
  ASSUME StructureInv, NEW new, IsRow(new), row' = Inserted(row, lastID + 1, new),
         lastID' = lastID + 1, UNCHANGED <<scan, rm, cut>>, rm = NoRemoval,
         new.parent \in DOMAIN row,
         row[new.parent].kind = IF OnDisk(new.kind) THEN "dir" ELSE "virt",
         new.kind = "ref" => /\ new.ref \in DOMAIN row /\ row[new.ref].kind = "file"
                             /\ row[new.ref].path = new.path
  PROVE  /\ RowsInv' /\ RefInv' /\ TreeInv' /\ RmInv' /\ ScanRows'
         /\ DOMAIN row' = DOMAIN row \union {lastID + 1} /\ lastID + 1 \notin DOMAIN row \union Roots
         /\ row'[lastID + 1] = new /\ \A i \in DOMAIN row : row'[i] = row[i]
<1>1. lastID \in Nat /\ DOMAIN row \subseteq 0..lastID /\ Roots \subseteq DOMAIN row
  BY DEF StructureInv, RowsInv
<1>2. lastID + 1 \notin DOMAIN row \union Roots /\ lastID + 1 \in Nat
  BY <1>1
<1>3. /\ DOMAIN row' = DOMAIN row \union {lastID + 1}
      /\ row'[lastID + 1] = new /\ \A i \in DOMAIN row : row'[i] = row[i]
  BY <1>2 DEF Inserted
<1>4. RowsInv'
  BY <1>1, <1>2, <1>3 DEF StructureInv, RowsInv, Roots
<1>5. rm.del = {} /\ rm.items = {} /\ rm.conts = {} /\ ~Collecting /\ ~Purging
  BY DEF NoRemoval, Collecting, Purging
<1>6. RefInv'
  <2> SUFFICES ASSUME NEW i \in DOMAIN row', row'[i].kind = "ref"
               PROVE  /\ row'[i].ref \in DOMAIN row' /\ row'[row'[i].ref].kind = "file"
                      /\ row'[row'[i].ref].path = row'[i].path
    BY <1>5 DEF RefInv
  <2>1. CASE i = lastID + 1
    BY <1>3, <2>1
  <2>2. CASE i \in DOMAIN row
    BY <1>3, <1>5, <2>2 DEF StructureInv, RefInv
  <2> QED BY <1>3, <2>1, <2>2
<1>7. TreeInv'
  <2>1. ASSUME NEW i \in DOMAIN row', i \notin Roots
        PROVE  /\ row'[i].parent \in DOMAIN row' =>
                    row'[row'[i].parent].kind = IF OnDisk(row'[i].kind) THEN "dir" ELSE "virt"
               /\ row'[i].kind # "file" => row'[i].parent < i
               /\ row'[i].parent \in DOMAIN row' \/ (~OnDisk(row'[i].kind) /\ row'[i].parent \in cut)
    <3>1. CASE i = lastID + 1
      <4>1. new.parent < lastID + 1
        BY <1>1
      <4> QED BY <1>3, <3>1, <4>1
    <3>2. CASE i \in DOMAIN row
      <4>1. /\ row[i].parent \in DOMAIN row =>
                    row[row[i].parent].kind = IF OnDisk(row[i].kind) THEN "dir" ELSE "virt"
            /\ row[i].kind # "file" => row[i].parent < i
            /\ row[i].parent \in DOMAIN row \/ (~OnDisk(row[i].kind) /\ row[i].parent \in cut)
        BY <1>5, <2>1, <3>2 DEF StructureInv, TreeInv
      <4>2. row[i].parent # lastID + 1
        <5>1. row[i].kind = "file" => OnDisk(row[i].kind)
          BY DEF OnDisk
        <5> QED BY <1>1, <1>2, <3>2, <4>1, <5>1
      <4> QED BY <1>3, <3>2, <4>1, <4>2
    <3> QED BY <1>3, <2>1, <3>1, <3>2
  <2> QED BY <1>5, <2>1 DEF TreeInv
<1>8. RmInv'
  <2>1. rm' = rm /\ ~Collecting' /\ ~Purging'
    BY <1>5 DEF Collecting, Purging
  <2> QED BY <1>5, <2>1 DEF StructureInv, RmInv, RmType
<1>9. ScanRows'
  BY <1>1 DEF StructureInv, ScanRows, ScanRow, None
<1> QED BY <1>2, <1>3, <1>4, <1>6, <1>7, <1>8, <1>9

LEMMA CreateStructure ==
  ASSUME Alone, StructureInv, createContainer("task")
  PROVE  StructureInv'
<1>0. PICK c : c = call["task"]
  OBVIOUS
<1>1. PICK p, new :
        /\ p = Head(c.down)
        /\ new = NewRow(c.at, IF p \in Virts THEN "virt" ELSE "dir", p,
                        IF Links(c) THEN c.link ELSE None)
  OBVIOUS
<1>2. /\ c.op # "none" /\ c.at # None /\ c.down # <<>>
      /\ Links(c) => c.link \in DOMAIN row
      /\ row' = Inserted(row, lastID + 1, new) /\ lastID' = lastID + 1
      /\ UNCHANGED <<scan, rm, cut>>
  BY <1>0, <1>1 DEF createContainer
<1>3. c \in Calls /\ CallOK(c)
  BY <1>0, <1>2, TheCall
<1>4. p \in Places(c) /\ Tail(c.down) \in Seq(Places(c))
  BY <1>1, <1>2, <1>3 DEF CallOK
<1>5. p \in Virts <=> c.op \in {"ref", "cont"}
  BY <1>4, PlacesAre
<1>6. c.at \in DOMAIN row /\ row[c.at].kind = Kind(c) /\ rm = NoRemoval
  BY <1>2, <1>3 DEF CallOK
<1>7. c.at \in Nat /\ (Links(c) => c.link \in Nat) /\ lastID + 1 \in Nat
  BY <1>2, <1>6 DEF StructureInv, RowsInv
<1>8. Links(c) => p \in Virts
  BY <1>5 DEF Links
<1>9. IsRow(new) /\ new.parent = c.at /\ new.kind = Kind(c)
  <2>1. new = [parent |-> c.at, kind |-> IF p \in Virts THEN "virt" ELSE "dir", path |-> p,
               ref |-> IF Links(c) THEN c.link ELSE None, keep |-> FALSE]
    BY <1>1 DEF NewRow
  <2>2. new \in Rows
    BY <1>4, <1>7, <2>1, PlacesAre DEF Rows
  <2>3. p \notin Virts => p \in Dirs
    BY <1>4, <1>5 DEF Places
  <2> QED BY <1>5, <1>7, <1>8, <2>1, <2>2, <2>3 DEF IsRow, Kind
<1>10. /\ RowsInv' /\ RefInv' /\ TreeInv' /\ RmInv' /\ ScanRows'
       /\ DOMAIN row' = DOMAIN row \union {lastID + 1} /\ lastID + 1 \notin DOMAIN row \union Roots
       /\ row'[lastID + 1] = new /\ \A i \in DOMAIN row : row'[i] = row[i]
  <2>1. row[new.parent].kind = IF OnDisk(new.kind) THEN "dir" ELSE "virt"
    BY <1>6, <1>9 DEF Kind, OnDisk
  <2>2. new.kind # "ref" /\ new.parent \in DOMAIN row
    BY <1>6, <1>9 DEF Kind
  <2> QED BY <1>2, <1>6, <1>9, <2>1, <2>2, RowAdded
<1>11. CallInv'
  <2>1. PICK d : d = [c EXCEPT !.down = Tail(c.down), !.at = lastID + 1,
                               !.changed = IF c.changed = None THEN c.at ELSE c.changed]
    OBVIOUS
  <2>2. call' = [call EXCEPT !["task"] = d]
    <3>1. call' = [call EXCEPT !["task"].down = Tail(@), !["task"].at = lastID + 1,
                               !["task"].changed = IF @ = None THEN c.at ELSE @]
      BY <1>0 DEF createContainer
    <3>2. "task" \in DOMAIN call
      BY OneThread DEF StructureInv, CallInv
    <3> QED BY <1>0, <1>3, <2>1, <3>1, <3>2 DEF Calls
  <2>3. Tail(c.down) \in Seq(Locations)
    BY <1>4, PlacesAre
  <2>4. (IF c.changed = None THEN c.at ELSE c.changed) \in Int
    BY <1>3, <1>7 DEF Calls
  <2>5. PICK rest : rest = Tail(c.down)
    OBVIOUS
  <2>6. PICK e : e = [c EXCEPT !.down = rest, !.at = lastID + 1]
    OBVIOUS
  <2>7. /\ e \in Calls /\ e.op = c.op /\ e.goal = c.goal /\ e.look = c.look /\ e.arg = c.arg
        /\ e.down = rest /\ e.at = lastID + 1
    <3>1. rest \in Seq(Locations) /\ lastID + 1 \in Int
      BY <1>7, <2>3, <2>5
    <3> QED BY <1>3, <2>6, <3>1 DEF Calls
  <2>8. d = [e EXCEPT !.changed = IF c.changed = None THEN c.at ELSE c.changed]
    BY <1>3, <2>1, <2>6, <2>5 DEF Calls
  <2>9. /\ d \in Calls /\ d.op = c.op /\ d.goal = c.goal /\ d.look = c.look /\ d.arg = c.arg
        /\ d.down = Tail(c.down) /\ d.at = lastID + 1
    BY <2>7, <2>8, <2>4, <2>5 DEF Calls
  <2>10. lastID + 1 # None
    BY <1>7 DEF None
  <2>11. Places(d) = Places(c) /\ Kind(d) = Kind(c)
    BY <2>9 DEF Places, Kind
  <2>12. CallOK(d)'
    BY <1>2, <1>3, <1>4, <1>9, <1>10, <2>9, <2>10, <2>11 DEF CallOK
  <2> QED BY <2>2, <2>9, <2>12, NextCall DEF StructureInv
<1> QED BY <1>10, <1>11 DEF StructureInv

(* The container that a finished call stands at.                           *)
LEMMA AtContainer ==
  ASSUME Alone, StructureInv, NEW op \in {"file", "ref", "cont", "update", "scan"},
         Ensured("task", op)
  PROVE  LET c == call["task"] IN
         /\ c \in Calls /\ CallOK(c) /\ c.op = op /\ rm = NoRemoval
         /\ c.at \in DOMAIN row /\ row[c.at].kind = Kind(c) /\ c.at \in Nat
<1>1. call["task"].op # "none" /\ call["task"].op = op /\ call["task"].at # None
  BY DEF Ensured
<1>2. call["task"] \in Calls /\ CallOK(call["task"])
  BY <1>1, TheCall
<1> QED BY <1>1, <1>2 DEF CallOK, StructureInv, RowsInv

LEMMA AddFileStructure ==
  ASSUME Alone, StructureInv, AddFile("task")
  PROVE  StructureInv'
<1>0. PICK c, new : c = call["task"] /\ new = NewRow(c.at, "file", c.arg, None)
  OBVIOUS
<1>1. /\ Ensured("task", "file") /\ row' = Inserted(row, lastID + 1, new) /\ lastID' = lastID + 1
      /\ call' = [call EXCEPT !["task"] = NoCall] /\ UNCHANGED <<scan, rm, cut>>
  BY <1>0 DEF AddFile, Insert, Return
<1>2. /\ c \in Calls /\ CallOK(c) /\ c.op = "file" /\ rm = NoRemoval
      /\ c.at \in DOMAIN row /\ row[c.at].kind = Kind(c) /\ c.at \in Nat
  BY <1>0, <1>1, AtContainer
<1>3. c.arg \in Files
  BY <1>2 DEF CallOK
<1>4. IsRow(new) /\ new.parent = c.at /\ new.kind = "file"
  BY <1>0, <1>2, <1>3 DEF NewRow, IsRow, Rows, Locations
<1>5. row[new.parent].kind = IF OnDisk(new.kind) THEN "dir" ELSE "virt"
  BY <1>2, <1>4 DEF Kind, OnDisk
<1>6. RowsInv' /\ RefInv' /\ TreeInv' /\ RmInv' /\ ScanRows'
  BY <1>1, <1>2, <1>4, <1>5, RowAdded
<1>7. CallInv'
  BY <1>1, ReturnedCall DEF StructureInv
<1> QED BY <1>6, <1>7 DEF StructureInv

LEMMA AddRefStructure ==
  ASSUME Alone, StructureInv, AddRef("task")
  PROVE  StructureInv'
<1>0. PICK c, new : c = call["task"] /\ new = NewRow(c.at, "ref", row[c.arg].path, c.arg)
  OBVIOUS
<1>1. /\ Ensured("task", "ref")
      /\ call' = [call EXCEPT !["task"] = NoCall] /\ UNCHANGED <<scan, rm, cut>>
      /\ \/ row' = Inserted(row, lastID + 1, new) /\ lastID' = lastID + 1
         \/ UNCHANGED <<row, lastID>>
  BY <1>0 DEF AddRef, Insert, Return
<1>2. /\ c \in Calls /\ CallOK(c) /\ c.op = "ref" /\ rm = NoRemoval
      /\ c.at \in DOMAIN row /\ row[c.at].kind = Kind(c) /\ c.at \in Nat
  BY <1>0, <1>1, AtContainer
<1>3. c.arg \in DOMAIN row /\ row[c.arg].kind = "file"
  BY <1>2 DEF CallOK
<1>4. c.arg \in Nat \ Roots /\ row[c.arg].path \in Files
  BY <1>3 DEF StructureInv, RowsInv, IsRow, RootRow, NewRow, Roots
<1>5. /\ IsRow(new) /\ new.parent = c.at /\ new.kind = "ref" /\ new.ref = c.arg
      /\ new.path = row[c.arg].path
  BY <1>0, <1>2, <1>4 DEF NewRow, IsRow, Rows, Locations
<1>6. row[new.parent].kind = IF OnDisk(new.kind) THEN "dir" ELSE "virt"
  BY <1>2, <1>5 DEF Kind, OnDisk
<1>7. CallInv'
  BY <1>1, ReturnedCall DEF StructureInv
<1>8. CASE row' = Inserted(row, lastID + 1, new) /\ lastID' = lastID + 1
  <2>1. RowsInv' /\ RefInv' /\ TreeInv' /\ RmInv' /\ ScanRows'
    BY <1>1, <1>2, <1>3, <1>5, <1>6, <1>8, RowAdded
  <2> QED BY <1>7, <2>1 DEF StructureInv
<1>9. CASE UNCHANGED <<row, lastID>>
  BY <1>1, <1>7, <1>9, CallStructure
<1> QED BY <1>1, <1>8, <1>9

LEMMA AddChainStructure ==
  ASSUME Alone, StructureInv, AddChain("task")
  PROVE  StructureInv'
<1>1. call' = [call EXCEPT !["task"] = NoCall] /\ UNCHANGED <<row, lastID, scan, rm, cut>>
  BY DEF AddChain, Return
<1>2. CallInv'
  BY <1>1, ReturnedCall DEF StructureInv
<1> QED BY <1>1, <1>2, CallStructure

(* An update may put the file in another directory.                        *)
LEMMA UpdateStructure ==
  ASSUME Alone, StructureInv, UpdateObject("task")
  PROVE  StructureInv'
<1>0. PICK c : c = call["task"]
  OBVIOUS
<1>1. /\ Ensured("task", "update")
      /\ call' = [call EXCEPT !["task"] = NoCall] /\ UNCHANGED <<lastID, scan, rm, cut>>
      /\ row' = IF c.arg \in DOMAIN row THEN [row EXCEPT ![c.arg].parent = c.at] ELSE row
  BY <1>0 DEF UpdateObject, Return
<1>2. /\ c \in Calls /\ CallOK(c) /\ c.op = "update" /\ rm = NoRemoval
      /\ c.at \in DOMAIN row /\ row[c.at].kind = Kind(c) /\ c.at \in Nat
  BY <1>0, <1>1, AtContainer
<1>3. c.arg \in DOMAIN row /\ row[c.arg].kind = "file"
  BY <1>2 DEF CallOK
<1>4. c.arg \notin Roots
  BY <1>3 DEF StructureInv, RowsInv, RootRow, NewRow, Roots
<1>5. /\ DOMAIN row' = DOMAIN row /\ \A i \in DOMAIN row : i # c.arg => row'[i] = row[i]
      /\ row'[c.arg] = [row[c.arg] EXCEPT !.parent = c.at]
  BY <1>1, <1>3
<1>6. IsRow(row[c.arg])
  BY <1>3, <1>4 DEF StructureInv, RowsInv
<1>7. /\ IsRow(row'[c.arg]) /\ row'[c.arg].kind = "file" /\ row'[c.arg].parent = c.at
      /\ row'[c.arg].path = row[c.arg].path
  BY <1>2, <1>3, <1>5, <1>6 DEF IsRow, Rows
<1>8. RowsInv'
  BY <1>1, <1>4, <1>5, <1>7 DEF StructureInv, RowsInv, Roots
<1>9. /\ rm.del = {} /\ rm.items = {} /\ rm.conts = {} /\ rm' = rm
      /\ ~Collecting' /\ ~Purging'
  BY <1>1, <1>2 DEF NoRemoval, Collecting, Purging
<1>10. \A i \in DOMAIN row : row'[i].kind = row[i].kind /\ row'[i].path = row[i].path
  BY <1>3, <1>5, <1>7
<1>11. RefInv'
  <2>1. \A i \in DOMAIN row : row[i].kind = "ref" => row'[i] = row[i]
    BY <1>3, <1>5
  <2> QED BY <1>5, <1>9, <1>10, <2>1 DEF StructureInv, RefInv
<1>12. TreeInv'
  <2> SUFFICES ASSUME NEW i \in DOMAIN row', i \notin Roots
               PROVE  /\ row'[i].parent \in DOMAIN row' =>
                           row'[row'[i].parent].kind = IF OnDisk(row'[i].kind) THEN "dir" ELSE "virt"
                      /\ row'[i].kind # "file" => row'[i].parent < i
                      /\ row'[i].parent \in DOMAIN row' \/ (~OnDisk(row'[i].kind) /\ row'[i].parent \in cut)
    BY <1>1, <1>9 DEF TreeInv
  <2>1. CASE i = c.arg
    <3>1. row[c.at].kind = "dir" /\ OnDisk("file")
      BY <1>2 DEF Kind, OnDisk
    <3> QED BY <1>2, <1>5, <1>7, <1>10, <2>1, <3>1
  <2>2. CASE i # c.arg
    BY <1>5, <1>9, <1>10, <2>2 DEF StructureInv, TreeInv
  <2> QED BY <2>1, <2>2
<1>13. RmInv'
  BY <1>9 DEF StructureInv, RmInv, RmType
<1>14. ScanRows'
  BY <1>1 DEF StructureInv, ScanRows
<1>15. CallInv'
  BY <1>1, ReturnedCall DEF StructureInv
<1> QED BY <1>8, <1>11, <1>12, <1>13, <1>14, <1>15 DEF StructureInv

(* While objects are removed, no call is in progress.                      *)
LEMMA NoCallWhileRemoving ==
  ASSUME Alone, StructureInv, rm.phase # "idle" \/ MayBegin("task")
  PROVE  \A t \in Threads : call[t] = NoCall
<1>1. rm.phase # "idle" => rm # NoRemoval
  BY DEF NoRemoval
<1>2. MayBegin("task") => \A t \in Threads : Idle(t)
  BY OneThread DEF MayBegin
<1> QED BY <1>1, <1>2, IdleIsNoCall DEF StructureInv, CallInv, CallOK

(* Such a step leaves the calls and, unless it deletes, the rows.          *)
LEMMA RemovalStep ==
  ASSUME StructureInv, \A t \in Threads : call[t] = NoCall, UNCHANGED <<lastID, call>>,
         UNCHANGED <<row, scan>>, RefInv', TreeInv', RmInv'
  PROVE  StructureInv'
<1>1. RowsInv' /\ ScanRows'
  BY DEF StructureInv, RowsInv, ScanRows
<1>2. CallInv'
  BY DEF StructureInv, CallInv
<1> QED BY <1>1, <1>2 DEF StructureInv

LEMMA ParentsAre == ASSUME RowsInv, NEW S PROVE Parents(S) \in SUBSET Int
BY IntParents DEF Parents

LEMMA BelowIsIDs ==
  ASSUME RowsInv, NEW S \in SUBSET Int
  PROVE  Below(S) \in SUBSET Int
<1>1. S \subseteq Int /\ \A i \in DOMAIN row : i \in Int
  BY IntParents
<1>2. IsFiniteSet(DOMAIN row)
  BY IntParents
<1>3. BelowIn(row, S) \subseteq Int
  BY <1>1, <1>2, BelowFacts
<1> QED BY <1>3 DEF Below

LEMMA RefsAre ==
  ASSUME RowsInv, NEW i \in DOMAIN row
  PROVE  /\ row[i].kind = "ref" => row[i].ref \in Nat \ Roots
         /\ ~Container(i) /\ row[i].ref # None => row[i].kind = "ref"
         /\ OnDisk(row[i].kind) => row[i].ref = None
         /\ i \in Roots => Container(i) /\ row[i].ref = None /\ row[i].keep
<1>1. CASE i \in Roots
  BY <1>1 DEF RowsInv, RootRow, NewRow, Roots, Container
<1>2. CASE i \notin Roots
  BY <1>2 DEF RowsInv, IsRow, Rows, Container, OnDisk
<1> QED BY <1>1, <1>2

(* What is named by the objects asked for, in a table r, and what is due.  *)
Named(r, S, all) ==
  BelowIn(r, S) \union {r[i].ref : i \in {i \in BelowIn(r, S) : all /\ i \in DOMAIN r /\ r[i].kind = "ref"}}

LEMMA DueMembers ==
  ASSUME NEW r, NEW S, NEW all \in BOOLEAN, NEW x
  PROVE  x \in DueIn(r, S, all) <=>
           \/ x \in Named(r, S, all)
           \/ /\ x \in DOMAIN r /\ r[x].ref \in Named(r, S, all)
              /\ r[x].ref \in DOMAIN r /\ r[r[x].ref].kind = "file"
<1> DEFINE below == BelowIn(r, S)
           refs  == {i \in below : i \in DOMAIN r /\ r[i].kind = "ref"}
           main  == IF all THEN {r[i].ref : i \in refs} ELSE {}
           files == {i \in below \union main : i \in DOMAIN r /\ r[i].kind = "file"}
<1>1. DueIn(r, S, all) = below \union main \union {i \in DOMAIN r : r[i].ref \in files}
  BY DEF DueIn
<1>2. Named(r, S, all) = below \union main
  <2> HIDE DEF below
  <2>1. CASE all = TRUE
    BY <2>1 DEF Named, below
  <2>2. CASE all = FALSE
    BY <2>2 DEF Named, below
  <2> QED BY <2>1, <2>2
<1>3. \A i : i \in files <=> i \in below \union main /\ i \in DOMAIN r /\ r[i].kind = "file"
  <2> HIDE DEF below, main
  <2> QED OBVIOUS
<1> HIDE DEF below, main, files
<1> QED BY <1>1, <1>2, <1>3

LEMMA DueIsIDs ==
  ASSUME RowsInv, NEW S \in SUBSET Int, NEW all \in BOOLEAN
  PROVE  Due(S, all) \in SUBSET Int
<1>1. BelowIn(row, S) \in SUBSET Int
  BY BelowIsIDs DEF Below
<1>2. \A i \in DOMAIN row : row[i].kind = "ref" => row[i].ref \in Int
  BY RefsAre
<1>3. Named(row, S, all) \subseteq Int
  BY <1>1, <1>2 DEF Named
<1>4. DOMAIN row \subseteq Int
  BY IntParents
<1>5. \A x \in Due(S, all) : x \in Int
  BY <1>3, <1>4, DueMembers DEF Due
<1> QED BY <1>5

(* Less is due of less rows.                                               *)
LEMMA DueSmaller ==
  ASSUME NEW r, NEW q, NEW S, NEW T, NEW all \in BOOLEAN, IsFiniteSet(DOMAIN r),
         IsFiniteSet(DOMAIN q), DOMAIN q \subseteq DOMAIN r, \A i \in DOMAIN q : q[i] = r[i],
         S \subseteq BelowIn(r, T)
  PROVE  DueIn(q, S, all) \subseteq DueIn(r, T, all)
<1>1. BelowIn(q, S) \subseteq BelowIn(r, T)
  <2>1. \A i \in DOMAIN q : q[i].parent \in BelowIn(r, T) => i \in BelowIn(r, T)
    BY BelowFacts
  <2> QED BY <2>1, BelowFacts
<1>2. Named(q, S, all) \subseteq Named(r, T, all)
  BY <1>1 DEF Named
<1>3. ASSUME NEW x \in DueIn(q, S, all) PROVE x \in DueIn(r, T, all)
  <2>1. CASE x \in Named(q, S, all)
    BY <1>2, <2>1, DueMembers
  <2>2. CASE /\ x \in DOMAIN q /\ q[x].ref \in Named(q, S, all)
             /\ q[x].ref \in DOMAIN q /\ q[q[x].ref].kind = "file"
    <3>1. /\ x \in DOMAIN r /\ r[x].ref \in Named(r, T, all)
          /\ r[x].ref \in DOMAIN r /\ r[r[x].ref].kind = "file"
      BY <1>2, <2>2
    <3> QED BY <3>1, DueMembers
  <2> QED BY <1>3, <2>1, <2>2, DueMembers
<1> QED BY <1>3

(* A removal begins.                                                       *)
LEMMA BeginRemovalStructure ==
  ASSUME Alone, StructureInv, NEW asked \in SUBSET Int, NEW all \in BOOLEAN,
         NEW items \in SUBSET (Nat \ Roots), NEW conts \in SUBSET (Nat \ Roots),
         \A i \in items \intersect DOMAIN row : ~Container(i),
         \A i \in conts : i \in DOMAIN row /\ Container(i),
         BeginRemoval(asked, all, items, conts)
  PROVE  StructureInv'
<1>0. PICK due : due = Due(asked, all)
  OBVIOUS
<1>1. PICK parents, ui, rest, mixed :
        /\ parents = (IF conts = {} THEN items ELSE {})
        /\ ui = (IF conts = {} THEN {} ELSE Parents(items \union conts))
        /\ rest = {i \in DOMAIN row : ~Container(i)} \ due
        /\ mixed = (IF conts = {} THEN {} ELSE items)
  OBVIOUS
<1>2. /\ rm' = [NoRemoval EXCEPT
            !.phase = "parents", !.all = all, !.items = items, !.conts = conts, !.del = conts,
            !.parents = parents, !.ui = ui, !.due = due, !.rest = rest, !.mixed = mixed]
      /\ MayBegin("task") /\ UNCHANGED <<row, lastID, scan, call, cut>>
  BY <1>0, <1>1 DEF BeginRemoval
<1>3. rm' = [phase |-> "parents", all |-> all, items |-> items, conts |-> conts,
             parents |-> parents, del |-> conts, upnp |-> {}, ui |-> ui, ret |-> Nobody,
             due |-> due, rest |-> rest, mixed |-> mixed]
  BY <1>2 DEF NoRemoval
<1>4. parents \in SUBSET (Nat \ Roots) /\ parents \subseteq items
  BY <1>1
<1>5. /\ ui \in SUBSET Int /\ due \in SUBSET Int /\ rest \in SUBSET Int /\ mixed \in SUBSET Int
      /\ Nobody \in [upnp : SUBSET Int, ui : SUBSET Int]
  BY <1>0, <1>1, ParentsAre, DueIsIDs, IntParents DEF StructureInv, Nobody
<1>6. RmInv'
  <2>1. /\ RmType'
        /\ rm'.phase = "parents" /\ rm'.parents \subseteq rm'.items
        /\ rm'.items = items /\ rm'.conts = conts /\ rm'.del = conts
    BY <1>3, <1>4, <1>5 DEF RmType
  <2> QED BY <1>2, <2>1 DEF RmInv, RmType, Collecting, Purging, Container
<1>7. rm.del = {} /\ rm.items = {} /\ rm.conts = {}
  BY <1>2, IdleRemovesNothing DEF MayBegin
<1>8. rm'.del = conts /\ rm'.items = items /\ rm'.conts = conts
  BY <1>3
<1>9. RefInv'
  <2>1. \A i \in DOMAIN row : row[i].kind = "ref" =>
           /\ row[i].ref \in DOMAIN row /\ row[row[i].ref].kind = "file"
           /\ row[row[i].ref].path = row[i].path
    BY <1>7 DEF StructureInv, RefInv
  <2>2. \A i \in conts : row[i].kind # "file"
    BY DEF Container
  <2> QED BY <1>2, <1>8, <2>1, <2>2 DEF RefInv
<1>10. TreeInv'
  BY <1>2, <1>7, <1>8 DEF StructureInv, TreeInv
<1>11. \A t \in Threads : call[t] = NoCall
  BY <1>2, NoCallWhileRemoving
<1> QED BY <1>2, <1>6, <1>9, <1>10, <1>11, RemovalStep

LEMMA RemoveStructure ==
  ASSUME Alone, StructureInv, removeObject \/ removeObjects
  PROVE  StructureInv'
<1>0. DOMAIN row \subseteq Nat
  BY DEF StructureInv, RowsInv
<1>1. CASE removeObject
  <2>1. PICK i \in DOMAIN row \ Roots, all \in BOOLEAN :
          IF Container(i) THEN BeginRemoval({i}, all, {}, {i})
          ELSE BeginRemoval({i}, all, {IF all /\ row[i].ref # None THEN row[i].ref ELSE i}, {})
    BY <1>1 DEF removeObject
  <2>2. i \in Nat \ Roots
    BY <1>0
  <2>3. CASE Container(i)
    BY <2>1, <2>2, <2>3, BeginRemovalStructure
  <2>4. CASE ~Container(i)
    <3>1. PICK m : m = IF all /\ row[i].ref # None THEN row[i].ref ELSE i
      OBVIOUS
    <3>2. m \in Nat \ Roots /\ (m \in DOMAIN row => ~Container(m))
      <4>1. CASE all /\ row[i].ref # None
        <5>1. row[i].kind = "ref" /\ m = row[i].ref
          BY <2>4, <3>1, <4>1, RefsAre DEF StructureInv
        <5>2. m \in DOMAIN row => row[m].kind = "file"
          BY <5>1 DEF StructureInv, RefInv
        <5> QED BY <5>1, <5>2, RefsAre DEF StructureInv, Container
      <4>2. CASE ~(all /\ row[i].ref # None)
        BY <2>2, <2>4, <3>1, <4>2
      <4> QED BY <4>1, <4>2
    <3>3. BeginRemoval({i}, all, {m}, {})
      BY <2>1, <2>4, <3>1
    <3> QED BY <2>2, <3>2, <3>3, BeginRemovalStructure
  <2> QED BY <2>3, <2>4
<1>2. CASE removeObjects
  <2>1. PICK c \in DOMAIN row : \E S \in SUBSET (Children({c}) \ Roots) :
          BeginRemoval(S, FALSE, {i \in S : ~Container(i)}, {i \in S : Container(i)})
    BY <1>2 DEF removeObjects
  <2>2. PICK S \in SUBSET (Children({c}) \ Roots) :
          BeginRemoval(S, FALSE, {i \in S : ~Container(i)}, {i \in S : Container(i)})
    BY <2>1
  <2>3. S \subseteq DOMAIN row \ Roots
    BY DEF Children
  <2>4. PICK items, conts : items = {i \in S : ~Container(i)} /\ conts = {i \in S : Container(i)}
    OBVIOUS
  <2>5. items \in SUBSET (Nat \ Roots) /\ conts \in SUBSET (Nat \ Roots) /\ S \in SUBSET Int
    BY <1>0, <2>3, <2>4
  <2>6. BeginRemoval(S, FALSE, items, conts)
    BY <2>2, <2>4
  <2> QED BY <2>3, <2>4, <2>5, <2>6, BeginRemovalStructure
<1> QED BY <1>1, <1>2

(* The lists while objects are collected.                                  *)
LEMMA RmFields ==
  ASSUME RmInv
  PROVE  /\ rm.items \subseteq Nat \ Roots /\ rm.conts \subseteq Nat \ Roots
         /\ rm.parents \subseteq Nat \ Roots /\ rm.del \subseteq Nat \ Roots
         /\ None \notin rm.items \union rm.conts \union rm.parents \union rm.del
BY DEF RmInv, RmType, None

LEMMA SelectParentsStructure ==
  ASSUME Alone, StructureInv, SelectParents
  PROVE  StructureInv'
<1>1. PICK up : up = Parents(rm.parents)
  OBVIOUS
<1>2. /\ rm.phase = "parents" /\ UNCHANGED <<row, lastID, scan, call, cut>>
      /\ rm' = [rm EXCEPT !.phase = "items", !.parents = {}, !.del = @ \union rm.parents,
                          !.upnp = @ \union up]
  BY <1>1 DEF SelectParents
<1>3. up \in SUBSET Int
  BY <1>1, ParentsAre DEF StructureInv
<1>4. /\ rm'.del = rm.del \union rm.parents /\ rm'.items = rm.items /\ rm'.conts = rm.conts
      /\ rm'.parents = {} /\ rm'.phase = "items"
  BY <1>2 DEF StructureInv, RmInv, RmType
<1>5. rm.parents \subseteq rm.items /\ \A i \in rm.items \intersect DOMAIN row : ~Container(i)
  BY DEF StructureInv, RmInv, RmType
<1>6. RmInv'
  <2>1. RmType'
    BY <1>2, <1>3 DEF StructureInv, RmInv, RmType
  <2> QED BY <1>2, <1>4, <2>1 DEF StructureInv, RmInv, RmType, Collecting, Purging, Container
<1>7. RefInv'
  BY <1>2, <1>4, <1>5 DEF StructureInv, RefInv
<1>8. TreeInv'
  <2>1. \A i \in DOMAIN row \ Roots : row[i].parent \in DOMAIN row => Container(row[i].parent)
    BY DEF StructureInv, TreeInv, Container
  <2> QED BY <1>2, <1>4, <1>5, <2>1 DEF StructureInv, TreeInv
<1>9. \A t \in Threads : call[t] = NoCall
  BY <1>2, NoCallWhileRemoving
<1> QED BY <1>2, <1>6, <1>7, <1>8, <1>9, RemovalStep

LEMMA SelectReferencesStructure ==
  ASSUME Alone, StructureInv, SelectReferences
  PROVE  StructureInv'
<1>1. PICK refs, up : refs = RefsTo(rm.items) /\ up = Parents(refs)
  OBVIOUS
<1>2. /\ rm.phase = "items" /\ UNCHANGED <<row, lastID, scan, call>>
      /\ rm' = [rm EXCEPT !.phase = "conts", !.items = {}, !.del = @ \union refs,
                          !.upnp = @ \union up]
      /\ cut' = cut \union {i \in refs : Container(i)}
  BY <1>1 DEF SelectReferences
<1>3. up \in SUBSET Int
  BY <1>1, ParentsAre DEF StructureInv
<1>4. /\ rm'.del = rm.del \union refs /\ rm'.items = {} /\ rm'.conts = rm.conts
      /\ rm'.parents = rm.parents /\ rm'.phase = "conts" /\ rm.parents = {}
  BY <1>2 DEF StructureInv, RmInv, RmType
<1>5. refs \subseteq DOMAIN row /\ \A i \in refs : row[i].ref \in rm.items /\ row[i].ref # None
  BY <1>1, RmFields DEF RefsTo, StructureInv
<1>6. /\ \A i \in refs : ~OnDisk(row[i].kind) /\ i \notin Roots
      /\ refs \subseteq Nat \ Roots
  BY <1>5, RefsAre DEF StructureInv, RowsInv
<1>7. RmInv'
  <2>1. RmType'
    BY <1>2, <1>3, <1>6 DEF StructureInv, RmInv, RmType
  <2> QED BY <1>2, <1>4, <2>1 DEF StructureInv, RmInv, RmType, Collecting, Purging, Container
<1>8. RefInv'
  <2> SUFFICES ASSUME NEW i \in DOMAIN row, row[i].kind = "ref"
               PROVE  LET f == row[i].ref IN
                      /\ f \in DOMAIN row => row[f].kind = "file" /\ row[f].path = row[i].path
                      /\ f \in DOMAIN row \ (rm.del \union refs) \/ i \in rm.del \union refs
    BY <1>2, <1>4 DEF RefInv
  <2>1. row[i].ref \in rm.items => i \in refs
    BY <1>1 DEF RefsTo
  <2>2. row[i].ref \in refs => row[row[i].ref].kind # "file"
    BY <1>6 DEF OnDisk
  <2> QED BY <2>1, <2>2 DEF StructureInv, RefInv
<1>9. TreeInv'
  <2> SUFFICES ASSUME NEW i \in DOMAIN row \ Roots
               PROVE  LET p == row[i].parent IN
                      /\ p \in DOMAIN row => row[p].kind = IF OnDisk(row[i].kind) THEN "dir" ELSE "virt"
                      /\ row[i].kind # "file" => p < i
                      /\ \/ p \in DOMAIN row \ (rm.del \union refs)
                         \/ i \in rm.del \union refs
                         \/ p \in rm.conts
                         \/ ~OnDisk(row[i].kind) /\ p \in cut'
    BY <1>2, <1>4 DEF TreeInv
  <2>1. row[i].kind = "ref" /\ row[i].ref \in rm.items => i \in refs
    BY <1>1 DEF RefsTo
  <2>2. ASSUME row[i].parent \in refs
        PROVE  ~OnDisk(row[i].kind) /\ row[i].parent \in cut'
    <3>1. row[row[i].parent].kind = IF OnDisk(row[i].kind) THEN "dir" ELSE "virt"
      BY <1>5, <2>2 DEF StructureInv, TreeInv
    <3> QED BY <1>2, <1>6, <2>2, <3>1 DEF OnDisk, Container
  <2> QED BY <1>2, <2>1, <2>2 DEF StructureInv, TreeInv
<1>10. \A t \in Threads : call[t] = NoCall
  BY <1>2, NoCallWhileRemoving
<1> QED BY <1>2, <1>7, <1>8, <1>9, <1>10, RemovalStep

(* What SelectChildren selects.                                            *)
Found == Children(rm.conts)
FoundConts == {i \in Found : Container(i)}
FoundRefs  == {i \in Found \ FoundConts : rm.all /\ row[i].ref # None}
FoundMain  == {row[i].ref : i \in FoundRefs}
FoundPlain == Found \ (FoundConts \union FoundRefs)

LEMMA SelectsChildren ==
  ASSUME StructureInv, SelectChildren
  PROVE  /\ rm.phase = "conts" /\ UNCHANGED <<row, lastID, scan, call, cut, owed, told>>
         /\ rm' = [rm EXCEPT !.phase = "flush", !.conts = FoundConts,
                             !.del = @ \union FoundConts \union FoundPlain,
                             !.parents = @ \union FoundMain,
                             !.items = @ \union FoundMain \union FoundPlain]
         /\ rm.parents = {} /\ rm.items = {}
         /\ Found \subseteq DOMAIN row \ Roots /\ Found \subseteq Nat \ Roots
         /\ \A i \in FoundRefs : row[i].kind = "ref" /\ row[i].ref \in Nat \ Roots
         /\ \A i \in FoundMain \intersect DOMAIN row : row[i].kind = "file"
         /\ FoundMain \subseteq Nat \ Roots
<1>1. /\ rm.phase = "conts" /\ UNCHANGED <<row, lastID, scan, call, cut, owed, told>>
      /\ rm' = [rm EXCEPT !.phase = "flush", !.conts = FoundConts,
                             !.del = @ \union FoundConts \union FoundPlain,
                             !.parents = @ \union FoundMain,
                             !.items = @ \union FoundMain \union FoundPlain]
  BY DEF SelectChildren, Found, FoundConts, FoundRefs, FoundMain, FoundPlain
<1>2. rm.parents = {} /\ rm.items = {}
  BY <1>1 DEF StructureInv, RmInv, RmType
<1>3. Found \subseteq DOMAIN row \ Roots
  <2>1. row[CDS_ID_ROOT].parent = None /\ row[CDS_ID_FS_ROOT].parent = CDS_ID_ROOT
    BY DEF StructureInv, RowsInv, RootRow, NewRow
  <2>2. None \notin rm.conts /\ CDS_ID_ROOT \notin rm.conts
    BY RmFields DEF StructureInv, Roots
  <2> QED BY <2>1, <2>2 DEF Found, Children, Roots
<1>4. \A i \in FoundRefs : row[i].kind = "ref" /\ row[i].ref \in Nat \ Roots
  BY <1>3, RefsAre DEF FoundRefs, FoundConts, StructureInv
<1>5. \A i \in FoundMain \intersect DOMAIN row : row[i].kind = "file"
  BY <1>3, <1>4 DEF FoundMain, FoundRefs, StructureInv, RefInv
<1> QED BY <1>1, <1>2, <1>3, <1>4, <1>5 DEF FoundMain, StructureInv, RowsInv

LEMMA SelectChildrenStructure ==
  ASSUME Alone, StructureInv, SelectChildren
  PROVE  StructureInv'
<1>1. PICK conts, main, plain : conts = FoundConts /\ main = FoundMain /\ plain = FoundPlain
  OBVIOUS
<1>2. /\ rm.phase = "conts" /\ UNCHANGED <<row, lastID, scan, call, cut>>
      /\ rm' = [rm EXCEPT !.phase = "flush", !.conts = conts, !.del = @ \union conts \union plain,
                          !.parents = @ \union main, !.items = @ \union main \union plain]
      /\ rm.parents = {} /\ rm.items = {}
  BY <1>1, SelectsChildren
<1>3. /\ conts \subseteq DOMAIN row /\ plain \subseteq DOMAIN row
      /\ conts \subseteq Nat \ Roots /\ plain \subseteq Nat \ Roots /\ main \subseteq Nat \ Roots
      /\ \A i \in conts : Container(i)
      /\ \A i \in plain : ~Container(i)
      /\ \A i \in main \intersect DOMAIN row : row[i].kind = "file"
  BY <1>1, SelectsChildren DEF FoundConts, FoundPlain
<1>4. /\ rm'.del = rm.del \union conts \union plain /\ rm'.items = main \union plain
      /\ rm'.conts = conts /\ rm'.parents = main /\ rm'.phase = "flush"
  BY <1>2 DEF StructureInv, RmInv, RmType
<1>5. RmInv'
  <2>1. RmType'
    BY <1>2, <1>3 DEF StructureInv, RmInv, RmType
  <2> QED BY <1>2, <1>3, <1>4, <2>1 DEF RmInv, RmType, Collecting, Purging, Container
<1>6. RefInv'
  <2>1. \A f \in conts : row[f].kind # "file"
    BY <1>3 DEF Container
  <2> QED BY <1>2, <1>4, <2>1 DEF StructureInv, RefInv
<1>7. TreeInv'
  <2> SUFFICES ASSUME NEW i \in DOMAIN row \ Roots
               PROVE  LET p == row[i].parent IN
                      /\ p \in DOMAIN row => row[p].kind = IF OnDisk(row[i].kind) THEN "dir" ELSE "virt"
                      /\ row[i].kind # "file" => p < i
                      /\ \/ p \in DOMAIN row \ rm'.del
                         \/ i \in rm'.del
                         \/ p \in rm'.conts
                         \/ ~OnDisk(row[i].kind) /\ p \in cut
                         \/ row[i].kind = "ref" /\ row[i].ref \in rm'.items
    BY <1>2 DEF TreeInv
  <2>1. row[i].parent \in rm.conts => i \in rm'.del \/ (row[i].kind = "ref" /\ row[i].ref \in rm'.items)
    <3>1. row[i].parent \in rm.conts => i \in Found
      BY DEF Found, Children
    <3>2. i \in FoundRefs => row[i].kind = "ref" /\ row[i].ref \in FoundMain
      BY SelectsChildren DEF FoundMain
    <3> QED BY <1>1, <1>4, <3>1, <3>2 DEF FoundPlain
  <2>2. row[i].parent \in DOMAIN row => row[row[i].parent].kind \in {"dir", "virt"}
    BY DEF StructureInv, TreeInv
  <2>3. row[i].parent \notin plain
    BY <1>3, <2>2 DEF Container
  <2> QED BY <1>2, <1>4, <2>1, <2>3 DEF StructureInv, TreeInv
<1>8. \A t \in Threads : call[t] = NoCall
  BY <1>2, NoCallWhileRemoving
<1> QED BY <1>2, <1>5, <1>6, <1>7, <1>8, RemovalStep

(* The rows on the list go, and the list is emptied.                       *)
LEMMA DeleteKeeps ==
  ASSUME StructureInv, \A t \in Threads : call[t] = NoCall, DeleteRows(rm.del),
         rm'.del = {}, rm'.items = rm.items, rm'.conts = rm.conts
  PROVE  /\ RowsInv' /\ RefInv' /\ TreeInv' /\ CallInv' /\ ScanRows'
         /\ DOMAIN row' = DOMAIN row \ rm.del /\ \A i \in DOMAIN row' : row'[i] = row[i]
<1>1. /\ DOMAIN row' = DOMAIN row \ rm.del /\ \A i \in DOMAIN row' : row'[i] = row[i]
      /\ UNCHANGED <<lastID, call, cut>>
  BY DEF DeleteRows
<1>2. RowsInv'
  <2>1. rm.del \intersect Roots = {}
    BY RmFields DEF StructureInv
  <2> QED BY <1>1, <2>1 DEF StructureInv, RowsInv, Roots
<1>3. RefInv'
  BY <1>1 DEF StructureInv, RefInv
<1>4. TreeInv'
  BY <1>1 DEF StructureInv, TreeInv
<1>5. CallInv'
  BY <1>1 DEF StructureInv, CallInv
<1>6. ScanRows'
  <2>1. DOMAIN scan' \subseteq DOMAIN scan /\ \A s \in DOMAIN scan' : scan'[s] = scan[s]
    BY DEF DeleteRows
  <2> QED BY <1>1, <2>1 DEF StructureInv, ScanRows
<1> QED BY <1>1, <1>2, <1>3, <1>4, <1>5, <1>6

LEMMA NextRoundStructure ==
  ASSUME Alone, StructureInv, NextRound
  PROVE  StructureInv'
<1>1. \A t \in Threads : call[t] = NoCall
  BY NoCallWhileRemoving DEF NextRound
<1>2. CASE rm' = [rm EXCEPT !.phase = "parents"] /\ UNCHANGED <<row, lastID, scan, call, cut>>
  <2>1. /\ rm'.del = rm.del /\ rm'.items = rm.items /\ rm'.conts = rm.conts
        /\ rm'.parents = rm.parents /\ rm'.phase = "parents"
    BY <1>2 DEF StructureInv, RmInv, RmType
  <2>2. RefInv' /\ TreeInv'
    BY <1>2, <2>1 DEF StructureInv, RefInv, TreeInv
  <2>3. RmInv'
    <3>1. RmType'
      BY <1>2 DEF StructureInv, RmInv, RmType
    <3> QED BY <1>2, <2>1, <3>1 DEF StructureInv, RmInv, RmType, Collecting, Purging, Container
  <2> QED BY <1>1, <1>2, <2>2, <2>3, RemovalStep
<1>3. CASE rm' = [rm EXCEPT !.phase = "parents", !.del = {}] /\ DeleteRows(rm.del)
  <2>1. /\ rm'.del = {} /\ rm'.items = rm.items /\ rm'.conts = rm.conts
        /\ rm'.parents = rm.parents /\ rm'.phase = "parents"
    BY <1>3 DEF StructureInv, RmInv, RmType
  <2>2. /\ RowsInv' /\ RefInv' /\ TreeInv' /\ CallInv' /\ ScanRows'
        /\ DOMAIN row' = DOMAIN row \ rm.del /\ \A i \in DOMAIN row' : row'[i] = row[i]
    BY <1>1, <1>3, <2>1, DeleteKeeps
  <2>3. RmInv'
    <3>1. RmType'
      BY <1>3 DEF StructureInv, RmInv, RmType
    <3> QED BY <2>1, <2>2, <3>1 DEF StructureInv, RmInv, RmType, Collecting, Purging, Container
  <2> QED BY <2>2, <2>3 DEF StructureInv
<1> QED BY <1>2, <1>3 DEF NextRound

LEMMA DeleteRestStructure ==
  ASSUME Alone, StructureInv, DeleteRest
  PROVE  StructureInv'
<1>1. /\ rm' = [rm EXCEPT !.phase = "upnp", !.del = {}] /\ DeleteRows(rm.del)
      /\ rm.phase = "flush" /\ rm.items = {} /\ rm.conts = {} /\ rm.parents = {}
  BY DEF DeleteRest, More
<1>2. /\ rm'.del = {} /\ rm'.items = {} /\ rm'.conts = {} /\ rm'.parents = {}
      /\ rm'.phase = "upnp"
  BY <1>1 DEF StructureInv, RmInv, RmType
<1>3. \A t \in Threads : call[t] = NoCall
  BY <1>1, NoCallWhileRemoving
<1>4. RowsInv' /\ RefInv' /\ TreeInv' /\ CallInv' /\ ScanRows'
  BY <1>1, <1>2, <1>3, DeleteKeeps
<1>5. RmInv'
  <2>1. RmType'
    BY <1>1 DEF StructureInv, RmInv, RmType
  <2> QED BY <1>2, <2>1 DEF RmInv, Collecting, Purging
<1> QED BY <1>4, <1>5 DEF StructureInv

(* What _purgeEmptyContainers() deletes: containers without children, and  *)
(* never a root.                                                           *)
LEMMA EmptyAre ==
  ASSUME RowsInv, NEW S
  PROVE  /\ Empty(S) \subseteq DOMAIN row \ Roots /\ Empty(S) \subseteq Nat \ Roots
         /\ \A i \in Empty(S) : Container(i) /\ Children({i}) = {} /\ ~row[i].keep
<1>1. Empty(S) \subseteq DOMAIN row
      /\ \A i \in Empty(S) : Container(i) /\ Children({i}) = {} /\ ~row[i].keep
  BY DEF Empty, Changed, Kept
<1>2. \A i \in Empty(S) : i \notin Roots
  BY <1>1, RefsAre
<1> QED BY <1>1, <1>2 DEF RowsInv

LEMMA ChangedAre == ASSUME RowsInv, NEW S PROVE Changed(S) \in SUBSET Int /\ Kept(S) \in SUBSET Int
BY DEF RowsInv, Changed, Kept

LEMMA PurgeSelectStructure ==
  ASSUME Alone, StructureInv, PurgeUpnp \/ PurgeUI
  PROVE  StructureInv'
<1>1. PICK more : more = IF rm.phase = "upnp" THEN Empty(rm.upnp) ELSE Empty(rm.ui)
  OBVIOUS
<1>2. /\ rm.phase \in {"upnp", "ui"} /\ UNCHANGED <<row, lastID, scan, call, cut>>
      /\ rm'.del = rm.del \union more /\ rm'.items = {} /\ rm'.conts = {} /\ rm'.parents = {}
      /\ rm'.phase \in {"ui", "purge"}
      /\ RmType'
  <2>1. /\ Empty(rm.upnp) \in SUBSET (Nat \ Roots) /\ Empty(rm.ui) \in SUBSET (Nat \ Roots)
        /\ Parents(Empty(rm.upnp)) \in SUBSET Int /\ Parents(Empty(rm.ui)) \in SUBSET Int
    BY EmptyAre, ParentsAre DEF StructureInv
  <2>2. /\ Kept(rm.upnp) \in SUBSET Int /\ Kept(rm.ui) \in SUBSET Int
        /\ Changed(rm.upnp) \in SUBSET Int /\ Changed(rm.ui) \in SUBSET Int
    BY ChangedAre DEF StructureInv
  <2>3. CASE PurgeUpnp
    <3>1. PICK ku, cu, pu : /\ ku = Kept(rm.upnp) /\ cu = Changed(rm.upnp) \ (Kept(rm.upnp) \union Empty(rm.upnp))
                            /\ pu = Parents(Empty(rm.upnp))
      OBVIOUS
    <3>2. /\ rm' = [rm EXCEPT !.phase = "ui", !.ret.upnp = @ \union ku,
                      !.del = more, !.ui = @ \union pu, !.upnp = cu]
          /\ rm.phase = "upnp" /\ UNCHANGED <<row, lastID, scan, call, cut>>
      BY <1>1, <2>3, <3>1 DEF PurgeUpnp
    <3>3. rm.del = {} /\ rm.items = {} /\ rm.conts = {} /\ rm.parents = {}
      BY <3>2 DEF StructureInv, RmInv, Collecting
    <3>4. ku \in SUBSET Int /\ cu \in SUBSET Int /\ pu \in SUBSET Int /\ more \in SUBSET (Nat \ Roots)
      BY <1>1, <2>1, <2>2, <3>1
    <3>5. RmType'
      BY <3>2, <3>4 DEF StructureInv, RmInv, RmType
    <3> QED BY <3>2, <3>3, <3>5 DEF StructureInv, RmInv, RmType
  <2>4. CASE PurgeUI
    <3>1. PICK ku, cu : /\ ku = Kept(rm.ui)
                        /\ cu = (Changed(rm.ui) \ (Kept(rm.ui) \union Empty(rm.ui)))
                                \union Parents(Empty(rm.ui))
      OBVIOUS
    <3>2. /\ rm' = [rm EXCEPT !.phase = "purge",
                      !.ret.upnp = @ \union ku, !.ret.ui = @ \union ku,
                      !.del = @ \union more, !.ui = cu]
          /\ rm.phase = "ui" /\ UNCHANGED <<row, lastID, scan, call, cut>>
      BY <1>1, <2>4, <3>1 DEF PurgeUI
    <3>3. rm.items = {} /\ rm.conts = {} /\ rm.parents = {}
      BY <3>2 DEF StructureInv, RmInv, Collecting
    <3>4. ku \in SUBSET Int /\ cu \in SUBSET Int /\ more \in SUBSET (Nat \ Roots)
      BY <1>1, <2>1, <2>2, <3>1
    <3>5. RmType'
      BY <3>2, <3>4 DEF StructureInv, RmInv, RmType
    <3> QED BY <3>2, <3>3, <3>5 DEF StructureInv, RmInv, RmType
  <2> QED BY <2>3, <2>4
<1>3. \A i \in more : i \in DOMAIN row \ Roots /\ Container(i) /\ Children({i}) = {}
  BY <1>1, EmptyAre DEF StructureInv
<1>4. RmInv'
  <2>1. \A i \in rm.del : i \in DOMAIN row /\ Container(i) /\ Children({i}) = {}
    BY <1>2 DEF StructureInv, RmInv, Purging
  <2> QED BY <1>2, <1>3, <2>1 DEF RmInv, Collecting, Purging, Container, Children
<1>5. rm.items = {} /\ rm.conts = {}
  BY <1>2 DEF StructureInv, RmInv, Collecting
<1>6. RefInv'
  <2>1. \A i \in more : row[i].kind # "file"
    BY <1>3 DEF Container
  <2> QED BY <1>2, <1>5, <2>1 DEF StructureInv, RefInv
<1>7. TreeInv'
  <2>1. \A i \in DOMAIN row : row[i].parent \notin more
    BY <1>3 DEF Children
  <2> QED BY <1>2, <1>5, <2>1 DEF StructureInv, TreeInv
<1>8. \A t \in Threads : call[t] = NoCall
  BY <1>2, NoCallWhileRemoving
<1> QED BY <1>2, <1>4, <1>6, <1>7, <1>8, RemovalStep

LEMMA PurgeDeleteStructure ==
  ASSUME Alone, StructureInv, PurgeDelete
  PROVE  StructureInv'
<1>1. /\ rm.phase = "purge" /\ DeleteRows(rm.del)
      /\ \/ rm' = [rm EXCEPT !.phase = "upnp", !.del = {}]
         \/ rm' = [rm EXCEPT !.phase = "purge", !.del = {}]
  BY DEF PurgeDelete
<1>2. rm.items = {} /\ rm.conts = {} /\ rm.parents = {}
  BY <1>1 DEF StructureInv, RmInv, Collecting
<1>3. /\ rm'.del = {} /\ rm'.items = {} /\ rm'.conts = {} /\ rm'.parents = {}
      /\ rm'.phase \in {"upnp", "purge"}
  BY <1>1, <1>2 DEF StructureInv, RmInv, RmType
<1>4. \A t \in Threads : call[t] = NoCall
  BY <1>1, NoCallWhileRemoving
<1>5. RowsInv' /\ RefInv' /\ TreeInv' /\ CallInv' /\ ScanRows'
  BY <1>1, <1>2, <1>3, <1>4, DeleteKeeps
<1>6. RmInv'
  <2>1. RmType'
    <3>1. RmType
      BY DEF StructureInv, RmInv
    <3>2. CASE rm' = [rm EXCEPT !.phase = "upnp", !.del = {}]
      BY <3>1, <3>2 DEF RmType
    <3>3. CASE rm' = [rm EXCEPT !.phase = "purge", !.del = {}]
      BY <3>1, <3>3 DEF RmType
    <3> QED BY <1>1, <3>2, <3>3
  <2> QED BY <1>3, <2>1 DEF RmInv, Collecting, Purging
<1> QED BY <1>5, <1>6 DEF StructureInv

LEMMA ReturnsStructure ==
  ASSUME Alone, StructureInv, RemovalReturns
  PROVE  StructureInv'
<1>1. /\ rm.phase = "purge" /\ rm.del = {} /\ UNCHANGED <<row, lastID, scan, call, cut>>
      /\ rm' = [phase |-> "returned", all |-> FALSE, items |-> {}, conts |-> {}, parents |-> {},
                del |-> {}, upnp |-> {}, ui |-> {}, ret |-> Nobody, due |-> rm.due,
                rest |-> rm.rest, mixed |-> rm.mixed]
  BY DEF RemovalReturns, NoRemoval
<1>2. rm.items = {} /\ rm.conts = {}
  BY <1>1 DEF StructureInv, RmInv, Collecting
<1>3. RmInv'
  <2>1. RmType'
    BY <1>1 DEF StructureInv, RmInv, RmType, Nobody
  <2> QED BY <1>1, <2>1 DEF RmInv, Collecting, Purging
<1>4. rm'.del = {} /\ rm'.items = {} /\ rm'.conts = {}
  BY <1>1
<1>5. RefInv' /\ TreeInv'
  BY <1>1, <1>2, <1>4 DEF StructureInv, RefInv, TreeInv
<1>6. \A t \in Threads : call[t] = NoCall
  BY <1>1, NoCallWhileRemoving
<1> QED BY <1>1, <1>3, <1>5, <1>6, RemovalStep

LEMMA StutterStructure == ASSUME StructureInv, UNCHANGED vars PROVE StructureInv'
<1>1. UNCHANGED <<row, lastID, scan, rm, cut, call>>
  BY DEF vars
<1>2. CallInv'
  BY <1>1 DEF StructureInv, CallInv, CallOK
<1> QED BY <1>1, <1>2, CallStructure

LEMMA NextStructure == ASSUME Alone, StructureInv, [Next]_vars PROVE StructureInv'
<1>1. CASE \E t \in Threads : Adding(t)
  <2>1. Adding("task")
    BY <1>1, OneThread
  <2> QED BY <2>1, BeginningsStructure, LookUpStructure, CreateStructure, AddFileStructure,
             AddRefStructure, AddChainStructure, UpdateStructure DEF Adding
<1>2. CASE Removing
  BY <1>2, RemoveStructure, SelectParentsStructure, SelectReferencesStructure,
     SelectChildrenStructure, NextRoundStructure, DeleteRestStructure, PurgeSelectStructure,
     PurgeDeleteStructure, ReturnsStructure DEF Removing
<1>3. CASE Scanning
  BY <1>3, AddScanStructure, EditScanStructure, RemoveScanStructure, ScanForgetsStructure,
     BeginningsStructure, ScanFindsStructure DEF Scanning
<1>4. CASE Restart
  BY <1>4, RestartStructure
<1>5. CASE UNCHANGED vars
  BY <1>5, StutterStructure
<1> QED BY <1>1, <1>2, <1>3, <1>4, <1>5 DEF Next

(* The rows make a tree, up to what a removal has selected.                *)
THEOREM Structure == Alone => (Spec => []StructureInv)
<1> SUFFICES ASSUME Alone PROVE Spec => []StructureInv
  OBVIOUS
<1>1. Init => StructureInv
  BY InitStructure
<1>2. StructureInv /\ [Next]_vars => StructureInv'
  BY NextStructure
<1> QED BY <1>1, <1>2, PTL DEF Spec

-----------------------------------------------------------------------------
(* The autoscan directories.                                               *)

(* What is above a directory is there already, and files are not.          *)
LEMMA AboveShrinks ==
  ASSUME StructureInv, IsFiniteSet(DOMAIN row'), NEW x \in DOMAIN row, row[x].kind = "dir",
         \A j \in DOMAIN row' : j <= lastID => j \in DOMAIN row,
         \A j \in DOMAIN row' \intersect DOMAIN row :
           row[j].kind # "file" => row'[j].parent = row[j].parent
  PROVE  AboveIn(row', x) \subseteq AboveIn(row, x)
<1> DEFINE D == {i \in Int : i <= lastID /\ (i \in DOMAIN row => row[i].kind # "file")}
           C == AboveIn(row, x) \intersect D
<1>1. /\ IsFiniteSet(DOMAIN row) /\ lastID \in Nat /\ DOMAIN row \subseteq 0..lastID
      /\ \A i \in DOMAIN row : row[i].parent \in Int
  BY IntParents DEF StructureInv, RowsInv
<1>2. x \in C
  <2>1. x \in AboveIn(row, x)
    BY <1>1, AboveFacts
  <2> QED BY <1>1, <2>1
<1>3. ASSUME NEW j \in DOMAIN row', j \in C PROVE row'[j].parent \in C
  <2>1. j \in DOMAIN row /\ row[j].kind # "file" /\ row'[j].parent = row[j].parent
    BY <1>3
  <2>2. row[j].parent \in AboveIn(row, x)
    BY <1>1, <1>3, <2>1, AboveFacts
  <2>3. row[j].parent \in D
    <3>1. CASE j \in Roots
      <4>1. row[j].parent \in {None, CDS_ID_ROOT} /\ row[CDS_ID_ROOT].kind = "virt"
        BY <3>1 DEF StructureInv, RowsInv, RootRow, NewRow, Roots
      <4> QED BY <1>1, <4>1 DEF None, CDS_ID_ROOT
    <3>2. CASE j \notin Roots
      <4>1. row[j].parent < j
        BY <2>1, <3>2 DEF StructureInv, TreeInv
      <4>2. row[j].parent \in DOMAIN row => row[row[j].parent].kind \in {"dir", "virt"}
        BY <2>1, <3>2 DEF StructureInv, TreeInv
      <4> QED BY <1>1, <2>1, <4>1, <4>2
    <3> QED BY <3>1, <3>2
  <2> QED BY <2>1, <2>2, <2>3
<1>4. AboveIn(row', x) \subseteq C
  <2> HIDE DEF C
  <2> QED BY <1>2, <1>3, AboveFacts
<1> QED BY <1>4

(* A step that adds no autoscan directory and takes away no container of   *)
(* one that stays.                                                         *)
LEMMA ScansStay ==
  ASSUME StructureInv, StructureInv', ScanInv,
         DOMAIN scan' \subseteq DOMAIN scan, \A s \in DOMAIN scan' : scan'[s] = scan[s],
         \A j \in DOMAIN row' : j <= lastID => j \in DOMAIN row,
         \A j \in DOMAIN row' \intersect DOMAIN row :
           /\ row[j].kind # "file" => row'[j].parent = row[j].parent
           /\ row'[j].kind = row[j].kind,
         \A s \in DOMAIN scan' : scan[s].obj \in DOMAIN row' =>
           row'[scan[s].obj].keep = row[scan[s].obj].keep,
         \A s \in DOMAIN scan' :
           ~scan[s].persistent /\ scan[s].obj \in DOMAIN row => scan[s].obj \in DOMAIN row',
         \A t \in Threads : call'[t].op = "scan" =>
           \/ call[t].op = "scan" /\ call'[t].arg = call[t].arg
           \/ scan[call'[t].arg].obj \notin DOMAIN row
  PROVE  ScanInv'
<1>1. /\ \A s \in DOMAIN scan : Watched(s) /\ Anchored(s)
      /\ \A s, o \in DOMAIN scan : Apart(s, o) /\ Disjoint(s, o)
      /\ Searched
  BY DEF ScanInv
<1>2. IsFiniteSet(DOMAIN row')
  <2>1. lastID' \in Nat /\ DOMAIN row' \subseteq 0..lastID'
    BY DEF StructureInv, RowsInv
  <2>2. IsFiniteSet(0..lastID')
    BY <2>1, FS_Interval
  <2> QED BY <2>1, <2>2, FS_Subset
<1>3. ASSUME NEW s \in DOMAIN scan'
      PROVE  scan[s].obj \in DOMAIN row' => scan[s].obj \in DOMAIN row
  BY DEF StructureInv, ScanRows
<1>4. ASSUME NEW s \in DOMAIN scan', ~scan[s].persistent
      PROVE  scan[s].obj \in DOMAIN row /\ AboveIn(row', scan[s].obj) \subseteq AboveIn(row, scan[s].obj)
  <2>1. scan[s].obj \in DOMAIN row /\ row[scan[s].obj].kind = "dir"
    BY <1>1, <1>4 DEF Anchored, Watched
  <2> QED BY <1>2, <2>1, AboveShrinks
<1>5. ASSUME NEW s \in DOMAIN scan' PROVE Watched(s)'
  BY <1>1, <1>3 DEF Watched
<1>6. ASSUME NEW s \in DOMAIN scan' PROVE Anchored(s)'
  BY <1>1, <1>4 DEF Anchored, PathIDs
<1>7. ASSUME NEW s \in DOMAIN scan', NEW o \in DOMAIN scan' PROVE Apart(s, o)' /\ Disjoint(s, o)'
  <2>1. Apart(s, o)'
    BY <1>1 DEF Apart
  <2>2. Disjoint(s, o)'
    BY <1>1, <1>4 DEF Disjoint, PathIDs
  <2> QED BY <2>1, <2>2
<1>8. Searched'
  <2> SUFFICES ASSUME NEW t \in Threads, call'[t].op = "scan"
               PROVE  scan'[call'[t].arg].obj \notin DOMAIN row'
    BY DEF Searched
  <2>1. call'[t].arg \in DOMAIN scan'
    <3>1. call'[t] # NoCall
      BY DEF NoCall
    <3> QED BY <3>1 DEF StructureInv, CallInv, CallOK
  <2>2. scan[call'[t].arg].obj \notin DOMAIN row
    BY <1>1 DEF Searched
  <2> QED BY <1>3, <2>1, <2>2
<1>9. /\ \A s \in DOMAIN scan' : Watched(s)' /\ Anchored(s)'
      /\ \A s, o \in DOMAIN scan' : Apart(s, o)' /\ Disjoint(s, o)'
  BY <1>5, <1>6, <1>7
<1> QED BY <1>8, <1>9 DEF ScanInv

LEMMA QuietScans ==
  ASSUME StructureInv, StructureInv', ScanInv, UNCHANGED <<row, scan>>,
         \A t \in Threads : call'[t].op = "scan" =>
           \/ call[t].op = "scan" /\ call'[t].arg = call[t].arg
           \/ scan[call'[t].arg].obj \notin DOMAIN row
  PROVE  ScanInv'
<1>1. \A j \in DOMAIN row' : j <= lastID => j \in DOMAIN row
  OBVIOUS
<1> QED BY <1>1, ScansStay

(* Removing without deleting.                                              *)
LEMMA CollectScans ==
  ASSUME Alone, StructureInv, StructureInv', ScanInv,
         \/ removeObject \/ removeObjects \/ SelectParents \/ SelectReferences \/ SelectChildren
         \/ PurgeUpnp \/ PurgeUI \/ RemovalReturns \/ UNCHANGED vars
  PROVE  ScanInv'
<1>1. UNCHANGED <<row, scan, call>>
  BY DEF removeObject, removeObjects, BeginRemoval, SelectParents, SelectReferences,
         SelectChildren, PurgeUpnp, PurgeUI, RemovalReturns, vars
<1> QED BY <1>1, QuietScans

LEMMA CallScans ==
  ASSUME Alone, StructureInv, StructureInv', ScanInv,
         \/ BeginAddFile("task") \/ BeginAddRef("task") \/ BeginAddChain("task")
         \/ BeginUpdate("task") \/ BeginScan \/ LookUp("task") \/ AddChain("task")
  PROVE  ScanInv'
<1>0. call \in [Threads -> {NoCall} \union Calls] /\ Threads = {"task"}
  BY OneThread DEF StructureInv, CallInv
<1>1. ASSUME NEW op \in {"file", "ref", "cont", "update"}, NEW goal, NEW arg, NEW link,
             Begin("task", op, goal, arg, link)
      PROVE  ScanInv'
  <2>1. UNCHANGED <<row, scan>> /\ call'["task"].op = op
    BY <1>0, <1>1 DEF Begin
  <2> QED BY <1>0, <2>1, QuietScans
<1>2. CASE BeginAddFile("task") \/ BeginAddRef("task") \/ BeginAddChain("task") \/ BeginUpdate("task")
  BY <1>1, <1>2 DEF BeginAddFile, BeginAddRef, BeginAddChain, BeginUpdate
<1>3. CASE BeginScan
  <2>1. PICK s \in DOMAIN scan : Lost(s) /\ Begin("task", "scan", scan[s].path, s, None)
    BY <1>3 DEF BeginScan
  <2>2. UNCHANGED <<row, scan>> /\ call'["task"].arg = s
    BY <1>0, <2>1 DEF Begin
  <2>3. scan[s].obj \notin DOMAIN row
    BY <2>1 DEF ScanInv, Watched, Lost
  <2> QED BY <1>0, <2>2, <2>3, QuietScans
<1>4. CASE LookUp("task")
  <2>1. UNCHANGED <<row, scan>>
    BY <1>4 DEF LookUp
  <2>2. call["task"] \in Calls
    BY <1>4, TheCall DEF LookUp
  <2>3. call'["task"].op = call["task"].op /\ call'["task"].arg = call["task"].arg
    BY <1>0, <1>4, <2>2 DEF LookUp, Calls
  <2> QED BY <1>0, <2>1, <2>3, QuietScans
<1>5. CASE AddChain("task")
  <2>1. UNCHANGED <<row, scan>> /\ call'["task"].op # "scan"
    BY <1>0, <1>5 DEF AddChain, Return, NoCall
  <2> QED BY <1>0, <2>1, QuietScans
<1> QED BY <1>2, <1>3, <1>4, <1>5

(* A new row has a new ID.                                                 *)
LEMMA InsertScans ==
  ASSUME Alone, StructureInv, StructureInv', ScanInv,
         createContainer("task") \/ AddFile("task") \/ AddRef("task")
  PROVE  ScanInv'
<1>0. call \in [Threads -> {NoCall} \union Calls] /\ Threads = {"task"}
  BY OneThread DEF StructureInv, CallInv
<1>1. scan' = scan
  BY DEF createContainer, AddFile, AddRef
<1>2. call'["task"].op = "scan" => call["task"].op = "scan" /\ call'["task"].arg = call["task"].arg
  <2>1. CASE createContainer("task")
    <3>1. call["task"] \in Calls
      BY <2>1, TheCall DEF createContainer
    <3> QED BY <1>0, <2>1, <3>1 DEF createContainer, Calls
  <2>2. CASE AddFile("task") \/ AddRef("task")
    BY <1>0, <2>2 DEF AddFile, AddRef, Return, NoCall
  <2> QED BY <2>1, <2>2
<1>3. row' = row \/ \E new : row' = Inserted(row, lastID + 1, new)
  BY DEF createContainer, AddFile, AddRef, Insert
<1>4. lastID \in Nat /\ DOMAIN row \subseteq 0..lastID /\ lastID + 1 \notin DOMAIN row
  BY DEF StructureInv, RowsInv
<1>5. /\ DOMAIN row \subseteq DOMAIN row' /\ DOMAIN row' \subseteq DOMAIN row \union {lastID + 1}
      /\ \A j \in DOMAIN row : row'[j] = row[j]
  BY <1>3, <1>4 DEF Inserted
<1>6. \A j \in DOMAIN row' : j <= lastID => j \in DOMAIN row
  BY <1>4, <1>5
<1>7. \A s \in DOMAIN scan : scan[s].obj \in DOMAIN row' => scan[s].obj \in DOMAIN row
  BY <1>6 DEF StructureInv, ScanRows
<1> QED BY <1>0, <1>1, <1>2, <1>5, <1>6, <1>7, ScansStay

(* The file is not above anything.                                         *)
LEMMA UpdateScans ==
  ASSUME Alone, StructureInv, StructureInv', ScanInv, UpdateObject("task")
  PROVE  ScanInv'
<1>0. call \in [Threads -> {NoCall} \union Calls] /\ Threads = {"task"}
  BY OneThread DEF StructureInv, CallInv
<1>1. PICK c : c = call["task"]
  OBVIOUS
<1>2. /\ Ensured("task", "update") /\ scan' = scan /\ call'["task"].op # "scan"
      /\ row' = IF c.arg \in DOMAIN row THEN [row EXCEPT ![c.arg].parent = c.at] ELSE row
  BY <1>0, <1>1 DEF UpdateObject, Return, NoCall
<1>3. c.arg \in DOMAIN row /\ row[c.arg].kind = "file"
  BY <1>1, <1>2, AtContainer DEF CallOK
<1>4. row[c.arg] \in Rows
  BY <1>3, RowsAreRows DEF StructureInv
<1>5. /\ DOMAIN row' = DOMAIN row /\ \A j \in DOMAIN row : j # c.arg => row'[j] = row[j]
      /\ row'[c.arg].kind = row[c.arg].kind /\ row'[c.arg].keep = row[c.arg].keep
  BY <1>2, <1>3, <1>4 DEF Rows
<1> QED BY <1>0, <1>2, <1>3, <1>5, ScansStay

(* Rows of directories that clients made go with their containers.         *)
LEMMA DeleteScans ==
  ASSUME Alone, StructureInv, StructureInv', ScanInv, NextRound \/ DeleteRest \/ PurgeDelete
  PROVE  ScanInv'
<1>1. DeleteRows(rm.del) \/ UNCHANGED <<row, scan, call>>
  BY DEF NextRound, DeleteRest, PurgeDelete
<1>2. CASE DeleteRows(rm.del)
  <2>1. /\ DOMAIN row' \subseteq DOMAIN row /\ \A j \in DOMAIN row' : row'[j] = row[j]
        /\ DOMAIN row' = DOMAIN row \ rm.del
        /\ DOMAIN scan' = {s \in DOMAIN scan : ~(scan[s].obj \in rm.del \intersect DOMAIN row
                                                 /\ ~scan[s].persistent)}
        /\ \A s \in DOMAIN scan' : scan'[s] = scan[s]
        /\ call' = call
    BY <1>2 DEF DeleteRows
  <2> QED BY <2>1, ScansStay
<1>3. CASE UNCHANGED <<row, scan, call>>
  BY <1>3, QuietScans
<1> QED BY <1>1, <1>2, <1>3

(* When only flags change, what is above a directory is the same.          *)
LEMMA FlagsKeepAbove ==
  ASSUME StructureInv, OnlyFlags, NEW x \in DOMAIN row, row[x].kind = "dir"
  PROVE  AboveIn(row', x) \subseteq AboveIn(row, x)
<1>1. DOMAIN row' = DOMAIN row /\ IsFiniteSet(DOMAIN row)
  BY IntParents DEF OnlyFlags, StructureInv
<1>2. \A j \in DOMAIN row : row'[j].parent = row[j].parent
  BY FlagsKeepFields DEF StructureInv
<1> QED BY <1>1, <1>2, AboveShrinks

LEMMA FlagSets ==
  ASSUME RowsInv, NEW i, row' = Flag(row, i, TRUE) \/ row' = Flag(row, i, FALSE)
  PROVE  /\ DOMAIN row' = DOMAIN row
         /\ \A j \in DOMAIN row : j # i => row'[j] = row[j]
         /\ i \in DOMAIN row /\ row' = Flag(row, i, TRUE) => row'[i].keep
         /\ i \in DOMAIN row => row'[i].kind = row[i].kind
<1>1. \A j \in DOMAIN row : row[j] \in Rows
  BY RowsAreRows
<1>2. CASE i \in DOMAIN row
  <2>1. row' = [row EXCEPT ![i].keep = TRUE] \/ row' = [row EXCEPT ![i].keep = FALSE]
    BY <1>2 DEF Flag
  <2>2. DOMAIN row' = DOMAIN row /\ \A j \in DOMAIN row : j # i => row'[j] = row[j]
    BY <2>1
  <2>3. row'[i].kind = row[i].kind
    BY <1>1, <1>2, <2>1 DEF Rows
  <2>4. row' = Flag(row, i, TRUE) => row'[i].keep = TRUE
    BY <1>1, <1>2 DEF Flag, Rows
  <2> QED BY <2>2, <2>3, <2>4
<1>3. CASE i \notin DOMAIN row
  BY <1>3 DEF Flag
<1> QED BY <1>2, <1>3

(* The directories of a table that has the rows of the one before.         *)
LEMMA AddScan ==
  ASSUME Alone, StructureInv, StructureInv', ScanInv, addAutoscanDirectory
  PROVE  ScanInv'
<1>0. PICK p \in ScanDirs, recursive \in BOOLEAN :
        \E i \in (IF p = Top THEN {CDS_ID_FS_ROOT} ELSE FindContainer(p)) :
        /\ \A t \in Threads : Idle(t)
        /\ FreeScans # {}
        /\ ~Overlaps(None, i, recursive)
        /\ scan' = Inserted(scan, Min(FreeScans),
                 [obj |-> i, path |-> p, recursive |-> recursive, persistent |-> FALSE,
                  pathIDs |-> PathIDs(i)])
        /\ row' = Flag(row, i, TRUE)
        /\ UNCHANGED <<lastID, call, rm, cut>>
  BY DEF addAutoscanDirectory
<1>1. PICK i \in (IF p = Top THEN {CDS_ID_FS_ROOT} ELSE FindContainer(p)) :
        /\ \A t \in Threads : Idle(t)
        /\ FreeScans # {}
        /\ ~Overlaps(None, i, recursive)
        /\ scan' = Inserted(scan, Min(FreeScans),
                 [obj |-> i, path |-> p, recursive |-> recursive, persistent |-> FALSE,
                  pathIDs |-> PathIDs(i)])
        /\ row' = Flag(row, i, TRUE)
        /\ UNCHANGED <<lastID, call, rm, cut>>
  BY <1>0
<1>2. p # Top /\ p \in Dirs
  BY SQLStorageAssumption DEF Alone, SQLStorageAssumption
<1>3. i \in DOMAIN row \ Roots /\ row[i].kind = "dir"
  <2>1. i \in DOMAIN row /\ row[i].path = p /\ Container(i)
    BY <1>1, <1>2 DEF FindContainer
  <2>2. i \notin Roots
    BY <1>2, <2>1 DEF StructureInv, RowsInv, Roots, RootRow, NewRow
  <2>3. row[i].kind = "virt" => row[i].path \in Virts
    BY <2>1, <2>2 DEF StructureInv, RowsInv, IsRow
  <2> QED BY <1>2, <2>1, <2>2, <2>3, SQLStorageAssumption DEF Container, SQLStorageAssumption
<1>4. OnlyFlags
  <2>1. RowsInv /\ i \notin Roots
    BY <1>3 DEF StructureInv
  <2> QED BY <1>1, <2>1, FlagOnly
<1>5. PICK n, new : /\ n = Min(FreeScans)
                    /\ new = [obj |-> i, path |-> p, recursive |-> recursive,
                              persistent |-> FALSE, pathIDs |-> PathIDs(i)]
  OBVIOUS
<1>6. /\ DOMAIN scan' = DOMAIN scan \union {n} /\ scan'[n] = new
      /\ \A s \in DOMAIN scan : scan'[s] = scan[s] /\ s # n
  <2>1. n \notin DOMAIN scan
    BY <1>1, <1>5, FreeSlot DEF FreeScans
  <2>2. scan' = Inserted(scan, n, new)
    BY <1>1, <1>5
  <2> QED BY <2>1, <2>2 DEF Inserted
<1>7. /\ new.obj = i /\ new.persistent = FALSE /\ new.recursive = recursive
      /\ new.pathIDs = PathIDs(i)
  BY <1>5
<1>8. ASSUME NEW o \in DOMAIN scan
      PROVE  /\ scan[o].obj # i
             /\ recursive => i \notin scan[o].pathIDs
             /\ scan[o].recursive => scan[o].obj \notin PathIDs(i)
  <2>1. o # None
    BY DEF StructureInv, ScanRows, None
  <2> QED BY <1>1, <2>1 DEF Overlaps
<1>9. /\ \A s \in DOMAIN scan : Watched(s) /\ Anchored(s)
      /\ \A s, o \in DOMAIN scan : Apart(s, o) /\ Disjoint(s, o)
      /\ Searched
  BY DEF ScanInv
<1>10. /\ DOMAIN row' = DOMAIN row /\ row'[i].keep /\ row'[i].kind = "dir"
       /\ \A j \in DOMAIN row : j # i => row'[j] = row[j]
  BY <1>1, <1>3, FlagSets DEF StructureInv
<1>11. \A x \in DOMAIN row : row[x].kind = "dir" => AboveIn(row', x) \subseteq AboveIn(row, x)
  BY <1>4, FlagsKeepAbove
<1>12. \A s \in DOMAIN scan : ~scan[s].persistent => scan[s].obj \in DOMAIN row /\ row[scan[s].obj].kind = "dir"
  BY <1>9 DEF Anchored, Watched
<1>13. ASSUME NEW s \in DOMAIN scan' PROVE Watched(s)' /\ Anchored(s)'
  <2>1. CASE s = n
    <3>1. Watched(s)'
      BY <1>6, <1>7, <1>10, <2>1 DEF Watched
    <3>2. Anchored(s)'
      BY <1>3, <1>6, <1>7, <1>10, <1>11, <2>1 DEF Anchored, PathIDs
    <3> QED BY <3>1, <3>2
  <2>2. CASE s # n
    <3>1. s \in DOMAIN scan /\ scan'[s] = scan[s] /\ scan[s].obj # i
      BY <1>6, <1>8, <2>2
    <3>2. Watched(s)'
      BY <1>9, <1>10, <3>1 DEF Watched
    <3>3. Anchored(s)'
      BY <1>9, <1>10, <1>11, <1>12, <3>1 DEF Anchored, PathIDs
    <3> QED BY <3>2, <3>3
  <2> QED BY <2>1, <2>2
<1>14. ASSUME NEW s \in DOMAIN scan', NEW o \in DOMAIN scan' PROVE Apart(s, o)'
  BY <1>6, <1>7, <1>8, <1>9 DEF Apart
<1>15. ASSUME NEW s \in DOMAIN scan', NEW o \in DOMAIN scan' PROVE Disjoint(s, o)'
  <2> SUFFICES ASSUME s # o, ~scan'[s].persistent, ~scan'[o].persistent, scan'[s].recursive
               PROVE  scan'[s].obj \notin AboveIn(row', scan'[o].obj) \ {CDS_ID_ROOT, None}
    BY DEF Disjoint, PathIDs
  <2>1. CASE s = n
    <3>1. o \in DOMAIN scan /\ scan'[o] = scan[o] /\ ~scan[o].persistent /\ recursive /\ scan'[s].obj = i
      BY <1>6, <1>7, <2>1
    <3>2. i \notin AboveIn(row, scan[o].obj) \ {CDS_ID_ROOT, None}
      BY <1>8, <1>9, <3>1 DEF Anchored, PathIDs
    <3> QED BY <1>11, <1>12, <3>1, <3>2
  <2>2. CASE o = n
    <3>1. s \in DOMAIN scan /\ scan'[s] = scan[s] /\ scan[s].recursive /\ scan'[o].obj = i
      BY <1>6, <1>7, <2>2
    <3>2. scan[s].obj \notin AboveIn(row, i) \ {CDS_ID_ROOT, None}
      BY <1>8, <3>1 DEF PathIDs
    <3> QED BY <1>3, <1>11, <3>1, <3>2
  <2>3. CASE s # n /\ o # n
    <3>1. s \in DOMAIN scan /\ scan'[s] = scan[s] /\ o \in DOMAIN scan /\ scan'[o] = scan[o]
      BY <1>6, <2>3
    <3>2. scan[s].obj \notin AboveIn(row, scan[o].obj) \ {CDS_ID_ROOT, None}
      BY <1>9, <3>1 DEF Disjoint, PathIDs
    <3> QED BY <1>11, <1>12, <3>1, <3>2
  <2> QED BY <2>1, <2>2, <2>3
<1>16. Searched'
  <2>1. \A t \in Threads : call'[t] = NoCall
    BY <1>1, IdleIsNoCall
  <2> QED BY <2>1 DEF Searched, NoCall
<1> QED BY <1>13, <1>14, <1>15, <1>16 DEF ScanInv

(* The row of s changes: it has no container, or one of its own.           *)
LEMMA ChangedScan ==
  ASSUME Alone, StructureInv, StructureInv', ScanInv, OnlyFlags,
         NEW s \in DOMAIN scan, NEW obj \in (Nat \ Roots) \union {None}, NEW recursive \in BOOLEAN,
         obj # None => ~Overlaps(s, obj, recursive),
         scan' = [scan EXCEPT ![s].obj = obj, ![s].recursive = recursive,
                              ![s].pathIDs = IF obj = None THEN {} ELSE PathIDs(obj)],
         obj \in DOMAIN row => row[obj].kind = "dir" /\ row'[obj].keep,
         \A j \in DOMAIN row : j \notin {obj, scan[s].obj} => row'[j] = row[j],
         ~scan[s].persistent => obj \in DOMAIN row,
         \A t \in Threads : call'[t] = NoCall
  PROVE  ScanInv'
<1>1. PICK r : r = scan[s]
  OBVIOUS
<1>2. r \in ScanRow
  BY <1>1 DEF StructureInv, ScanRows
<1>3. /\ DOMAIN scan' = DOMAIN scan /\ \A o \in DOMAIN scan : o # s => scan'[o] = scan[o]
      /\ scan'[s].obj = obj /\ scan'[s].recursive = recursive
      /\ scan'[s].persistent = r.persistent
      /\ obj # None => scan'[s].pathIDs = PathIDs(obj)
  <2>1. PICK ids : ids = IF obj = None THEN {} ELSE PathIDs(obj)
    OBVIOUS
  <2>2. scan' = [scan EXCEPT ![s].obj = obj, ![s].recursive = recursive, ![s].pathIDs = ids]
    BY <2>1
  <2>3. DOMAIN scan' = DOMAIN scan /\ \A o \in DOMAIN scan : o # s => scan'[o] = scan[o]
    BY <2>2
  <2>4. /\ scan'[s].obj = obj /\ scan'[s].recursive = recursive
        /\ scan'[s].persistent = r.persistent /\ scan'[s].pathIDs = ids
    <3>1. scan'[s] = [r EXCEPT !.obj = obj, !.recursive = recursive, !.pathIDs = ids]
      BY <1>1, <2>2
    <3> QED BY <1>2, <3>1 DEF ScanRow
  <2> QED BY <2>1, <2>3, <2>4
<1>4. /\ \A o \in DOMAIN scan : Watched(o) /\ Anchored(o)
      /\ \A o, u \in DOMAIN scan : Apart(o, u) /\ Disjoint(o, u)
  BY DEF ScanInv
<1>5. DOMAIN row' = DOMAIN row /\ \A j \in DOMAIN row : row'[j].kind = row[j].kind
  BY FlagsKeepFields DEF OnlyFlags, StructureInv
<1>6. \A x \in DOMAIN row : row[x].kind = "dir" => AboveIn(row', x) \subseteq AboveIn(row, x)
  BY FlagsKeepAbove
<1>7. \A o \in DOMAIN scan : ~scan[o].persistent => scan[o].obj \in DOMAIN row /\ row[scan[o].obj].kind = "dir"
  BY <1>4 DEF Anchored, Watched
<1>8. ASSUME NEW o \in DOMAIN scan, o # s, obj # None
      PROVE  /\ scan[o].obj # obj
             /\ recursive => obj \notin scan[o].pathIDs
             /\ scan[o].recursive => scan[o].obj \notin PathIDs(obj)
  BY <1>8 DEF Overlaps
<1>9. None \notin DOMAIN row
  BY DEF StructureInv, RowsInv, None
<1>10. ASSUME NEW o \in DOMAIN scan' PROVE Watched(o)' /\ Anchored(o)'
  <2>1. CASE o = s
    <3>1. Watched(o)'
      <4>1. scan'[o].obj = obj
        BY <1>3, <2>1
      <4>2. obj \in DOMAIN row' => row'[obj].kind = "dir" /\ row'[obj].keep
        BY <1>5
      <4> QED BY <4>1, <4>2 DEF Watched
    <3>2. Anchored(o)'
      BY <1>1, <1>3, <1>5, <1>6, <1>9, <2>1 DEF Anchored, PathIDs
    <3> QED BY <3>1, <3>2
  <2>2. CASE o # s
    <3>1. o \in DOMAIN scan /\ scan'[o] = scan[o]
      BY <1>3, <2>2
    <3>2. Watched(o)'
      <4> SUFFICES ASSUME scan[o].obj \in DOMAIN row
                   PROVE  row'[scan[o].obj].kind = "dir" /\ row'[scan[o].obj].keep
        BY <1>5, <3>1 DEF Watched
      <4>1. scan[o].obj # scan[s].obj
        BY <1>4, <1>9, <2>2, <3>1 DEF Apart
      <4>2. scan[o].obj # obj
        BY <1>8, <1>9, <2>2, <3>1
      <4>3. row'[scan[o].obj] = row[scan[o].obj]
        BY <4>1, <4>2
      <4> QED BY <1>4, <3>1, <4>3 DEF Watched
    <3>3. Anchored(o)'
      BY <1>4, <1>5, <1>6, <1>7, <3>1 DEF Anchored, PathIDs
    <3> QED BY <3>2, <3>3
  <2> QED BY <2>1, <2>2
<1>11. ASSUME NEW o \in DOMAIN scan', NEW u \in DOMAIN scan' PROVE Apart(o, u)'
  <2> SUFFICES ASSUME o # u PROVE scan'[o].obj = None \/ scan'[o].obj # scan'[u].obj
    BY DEF Apart
  <2>1. CASE o = s
    <3>1. u \in DOMAIN scan /\ scan'[u] = scan[u] /\ scan'[o].obj = obj
      BY <1>3, <2>1
    <3> QED BY <1>8, <2>1, <3>1
  <2>2. CASE u = s
    <3>1. o \in DOMAIN scan /\ scan'[o] = scan[o] /\ scan'[u].obj = obj
      BY <1>3, <2>2
    <3> QED BY <1>8, <2>2, <3>1
  <2>3. CASE o # s /\ u # s
    <3>1. /\ o \in DOMAIN scan /\ scan'[o] = scan[o]
          /\ u \in DOMAIN scan /\ scan'[u] = scan[u]
      BY <1>3, <2>3
    <3>2. scan[o].obj = None \/ scan[o].obj # scan[u].obj
      BY <1>4, <3>1 DEF Apart
    <3> QED BY <3>1, <3>2
  <2> QED BY <2>1, <2>2, <2>3
<1>12. ASSUME NEW o \in DOMAIN scan', NEW u \in DOMAIN scan' PROVE Disjoint(o, u)'
  <2> SUFFICES ASSUME o # u, ~scan'[o].persistent, ~scan'[u].persistent, scan'[o].recursive
               PROVE  scan'[o].obj \notin AboveIn(row', scan'[u].obj) \ {CDS_ID_ROOT, None}
    BY DEF Disjoint, PathIDs
  <2>1. CASE o = s
    <3>1. u \in DOMAIN scan /\ scan'[u] = scan[u] /\ ~scan[u].persistent /\ recursive
          /\ scan'[o].obj = obj /\ obj # None
      BY <1>1, <1>3, <1>9, <2>1
    <3>2. obj \notin AboveIn(row, scan[u].obj) \ {CDS_ID_ROOT, None}
      BY <1>4, <1>8, <2>1, <3>1 DEF Anchored, PathIDs
    <3>3. AboveIn(row', scan[u].obj) \subseteq AboveIn(row, scan[u].obj)
      BY <1>6, <1>7, <3>1
    <3> QED BY <3>1, <3>2, <3>3
  <2>2. CASE u = s
    <3>1. o \in DOMAIN scan /\ scan'[o] = scan[o] /\ scan[o].recursive /\ scan'[u].obj = obj
          /\ obj # None /\ obj \in DOMAIN row /\ ~scan[o].persistent
      BY <1>1, <1>3, <1>9, <2>2
    <3>2. scan[o].obj \notin AboveIn(row, obj) \ {CDS_ID_ROOT, None}
      BY <1>8, <2>2, <3>1 DEF PathIDs
    <3> QED BY <1>6, <3>1, <3>2
  <2>3. CASE o # s /\ u # s
    <3>1. o \in DOMAIN scan /\ scan'[o] = scan[o] /\ u \in DOMAIN scan /\ scan'[u] = scan[u]
      BY <1>3, <2>3
    <3>2. scan[o].obj \notin AboveIn(row, scan[u].obj) \ {CDS_ID_ROOT, None}
      BY <1>4, <3>1 DEF Disjoint, PathIDs
    <3> QED BY <1>6, <1>7, <3>1, <3>2
  <2> QED BY <2>1, <2>2, <2>3
<1>13. Searched'
  BY DEF Searched, NoCall
<1> QED BY <1>10, <1>11, <1>12, <1>13 DEF ScanInv

LEMMA EditScan ==
  ASSUME Alone, StructureInv, StructureInv', ScanInv, EditAutoscan
  PROVE  ScanInv'
<1>1. PICK s \in DOMAIN scan, recursive \in BOOLEAN :
        /\ \A t \in Threads : Idle(t)
        /\ updateAutoscanDirectory(s, scan[s].obj, recursive)
        /\ UNCHANGED <<lastID, call, rm, cut>>
  BY DEF EditAutoscan
<1>2. PICK obj : obj = scan[s].obj
  OBVIOUS
<1>3. obj \in (Nat \ Roots) \union {None}
  BY <1>2 DEF StructureInv, ScanRows, ScanRow
<1>4. row' = row
  BY <1>1 DEF updateAutoscanDirectory, Moved
<1>5. Watched(s) /\ Anchored(s)
  BY DEF ScanInv
<1>6. /\ obj # None => ~Overlaps(s, obj, recursive)
      /\ scan' = [scan EXCEPT ![s].obj = obj, ![s].recursive = recursive,
                              ![s].pathIDs = IF obj = None THEN {} ELSE PathIDs(obj)]
  BY <1>1, <1>2 DEF updateAutoscanDirectory
<1>7. \A t \in Threads : call'[t] = NoCall
  BY <1>1, IdleIsNoCall
<1>8. OnlyFlags
  BY <1>4, FlagNone DEF StructureInv
<1>9. ~scan[s].persistent => obj \in DOMAIN row
  BY <1>2, <1>5 DEF Anchored
<1>10. obj \in DOMAIN row => row[obj].kind = "dir" /\ row'[obj].keep
  BY <1>2, <1>4, <1>5 DEF Watched
<1> QED BY <1>3, <1>4, <1>6, <1>7, <1>8, <1>9, <1>10, ChangedScan

LEMMA RemoveScan ==
  ASSUME Alone, StructureInv, StructureInv', ScanInv, removeAutoscanDirectory
  PROVE  ScanInv'
<1>1. PICK s \in DOMAIN scan :
        /\ \A t \in Threads : Idle(t)
        /\ scan' = [o \in DOMAIN scan \ {s} |-> scan[o]]
        /\ row' = Flag(row, scan[s].obj, FALSE)
        /\ UNCHANGED <<lastID, call, rm, cut>>
  BY DEF removeAutoscanDirectory
<1>2. PICK i : i = scan[s].obj
  OBVIOUS
<1>3. /\ DOMAIN row' = DOMAIN row
      /\ \A j \in DOMAIN row : j # i => row'[j] = row[j]
  BY <1>1, <1>2 DEF Flag
<1>4. OnlyFlags
  <2>1. RowsInv /\ i \notin Roots
    BY <1>2 DEF StructureInv, ScanRows, ScanRow, None, Roots, CDS_ID_ROOT, CDS_ID_FS_ROOT
  <2> QED BY <1>1, <1>2, <2>1, FlagOnly
<1>5. \A j \in DOMAIN row : row'[j].parent = row[j].parent /\ row'[j].kind = row[j].kind
  BY <1>4, FlagsKeepFields DEF StructureInv
<1>6. None \notin DOMAIN row
  BY DEF StructureInv, RowsInv, None
<1>7. /\ DOMAIN scan' = DOMAIN scan \ {s} /\ \A o \in DOMAIN scan' : scan'[o] = scan[o]
  BY <1>1
<1>8. \A o \in DOMAIN scan' : scan[o].obj \in DOMAIN row' => row'[scan[o].obj].keep = row[scan[o].obj].keep
  BY <1>2, <1>3, <1>6, <1>7 DEF ScanInv, Apart
<1>9. \A t \in Threads : call'[t].op # "scan"
  BY <1>1, IdleIsNoCall DEF NoCall
<1> QED BY <1>3, <1>5, <1>7, <1>8, <1>9, ScansStay

LEMMA ForgetScan ==
  ASSUME Alone, StructureInv, StructureInv', ScanInv, ScanForgets
  PROVE  ScanInv'
<1>1. PICK s \in DOMAIN scan :
        /\ MayBegin("task") /\ Lost(s)
        /\ updateAutoscanDirectory(s, None, scan[s].recursive)
        /\ UNCHANGED <<lastID, call, rm, cut>>
  BY DEF ScanForgets
<1>2. scan[s].persistent /\ scan[s].obj \notin DOMAIN row
  BY <1>1 DEF Lost, ScanInv, Watched
<1>3. None \notin DOMAIN row
  BY DEF StructureInv, RowsInv, None
<1>4. row' = row
  BY <1>1, <1>2, <1>3 DEF updateAutoscanDirectory, Moved, Flag
<1>5. OnlyFlags
  BY <1>4, FlagNone DEF StructureInv
<1>6. PICK recursive : recursive = scan[s].recursive
  OBVIOUS
<1>7. recursive \in BOOLEAN
  BY <1>6 DEF StructureInv, ScanRows, ScanRow
<1>8. scan' = [scan EXCEPT ![s].obj = None, ![s].recursive = recursive,
                           ![s].pathIDs = IF None = None THEN {} ELSE PathIDs(None)]
  BY <1>1, <1>6 DEF updateAutoscanDirectory
<1>9. \A t \in Threads : call'[t] = NoCall
  BY <1>1, OneThread, IdleIsNoCall DEF MayBegin
<1>10. None \in (Nat \ Roots) \union {None}
  OBVIOUS
<1> QED BY <1>2, <1>3, <1>4, <1>5, <1>7, <1>8, <1>9, <1>10, ChangedScan

LEMMA FindScan ==
  ASSUME Alone, StructureInv, StructureInv', ScanInv, ScanFinds
  PROVE  ScanInv'
<1>0. PICK c : c = call["task"]
  OBVIOUS
<1>1. /\ Ensured("task", "scan") /\ call' = [call EXCEPT !["task"] = NoCall]
      /\ \/ c.arg \in DOMAIN scan /\ updateAutoscanDirectory(c.arg, c.at, scan[c.arg].recursive)
         \/ UNCHANGED <<row, scan>>
      /\ UNCHANGED <<lastID, rm, cut>>
  BY <1>0 DEF ScanFinds, Return
<1>2. \A t \in Threads : call'[t] = NoCall
  BY <1>1, OneThread DEF StructureInv, CallInv
<1>3. /\ c.op = "scan" /\ CallOK(c) /\ c.at \in DOMAIN row /\ row[c.at].kind = "dir"
      /\ c.at \in Nat
  BY <1>0, <1>1, AtContainer DEF Kind
<1>4. c.arg \in DOMAIN scan /\ scan[c.arg].persistent /\ scan[c.arg].obj \notin DOMAIN row
  BY <1>0, <1>3, OneThread DEF CallOK, ScanInv, Searched
<1>5. c.at \notin Roots
  <2>1. c.goal # Top /\ c.at # None /\ c.down = <<>>
    BY <1>0, <1>1, <1>3, SQLStorageAssumption DEF Ensured, CallOK, Places, SQLStorageAssumption
  <2> QED BY <1>3, <2>1 DEF CallOK
<1>6. CASE UNCHANGED <<row, scan>>
  BY <1>2, <1>6, QuietScans DEF NoCall
<1>7. CASE updateAutoscanDirectory(c.arg, c.at, scan[c.arg].recursive)
  <2>1. PICK s, obj, recursive : s = c.arg /\ obj = c.at /\ recursive = scan[s].recursive
    OBVIOUS
  <2>2. s \in DOMAIN scan /\ obj \in (Nat \ Roots) \union {None} /\ recursive \in BOOLEAN /\ obj # None
    BY <1>3, <1>4, <1>5, <2>1 DEF StructureInv, ScanRows, ScanRow, None
  <2>3. /\ ~Overlaps(s, obj, recursive)
        /\ scan' = [scan EXCEPT ![s].obj = obj, ![s].recursive = recursive,
                              ![s].pathIDs = IF obj = None THEN {} ELSE PathIDs(obj)]
        /\ row' = Moved(s, obj)
    BY <1>7, <2>1, <2>2 DEF updateAutoscanDirectory
  <2>4. row' = Flag(row, obj, TRUE)
    BY <1>3, <1>4, <2>1, <2>3 DEF Moved, Flag
  <2>5. OnlyFlags
    BY <2>2, <2>3, MovedOnly
  <2>6. /\ obj \in DOMAIN row => row[obj].kind = "dir" /\ row'[obj].keep
        /\ \A j \in DOMAIN row : j # obj => row'[j] = row[j]
    BY <1>3, <2>1, <2>4, FlagSets DEF StructureInv
  <2>7. \A j \in DOMAIN row : j \notin {obj, scan[s].obj} => row'[j] = row[j]
    BY <2>6
  <2>8. scan[s].persistent
    BY <1>4, <2>1
  <2> QED BY <1>2, <2>2, <2>3, <2>5, <2>6, <2>7, <2>8, ChangedScan
<1> QED BY <1>1, <1>6, <1>7

(* The flags of usable containers after a restart.                         *)
LEMMA RestartedFlags ==
  ASSUME RowsInv, NEW config, NEW slot, NEW rec, Restarted(config, slot, rec),
         NEW i \in DOMAIN row, Usable(i)
  PROVE  /\ (\E p \in Fresh(config) : ObjectAt(p) = i) => row'[i].keep
         /\ (\A s \in Old(config) : scan[s].obj # i) /\ row[i].keep => row'[i].keep
<1>1. PICK all, bad : /\ all = ScanTable(config, slot, rec)
                      /\ bad = {s \in DOMAIN all : ~Usable(all[s].obj)}
  OBVIOUS
<1>2. row' = [j \in DOMAIN row |->
       [row[j] EXCEPT !.keep = IF \E s \in bad : all[s].obj = j THEN FALSE
                               ELSE IF \E p \in Fresh(config) : ObjectAt(p) = j THEN TRUE
                               ELSE IF \E s \in Old(config) : scan[s].obj = j THEN FALSE ELSE @]]
  BY <1>1 DEF Restarted
<1>3. ~\E s \in bad : all[s].obj = i
  BY <1>1
<1>4. row[i] \in Rows
  BY RowsAreRows
<1>5. ASSUME \E p \in Fresh(config) : ObjectAt(p) = i
      PROVE  row'[i].keep
  <2>1. row'[i] = [row[i] EXCEPT !.keep = TRUE]
    BY <1>2, <1>3, <1>5
  <2> QED BY <1>4, <2>1 DEF Rows
<1>6. ASSUME \A s \in Old(config) : scan[s].obj # i, row[i].keep
      PROVE  row'[i].keep
  <2>1. row[i].keep = TRUE
    BY <1>4, <1>6 DEF Rows
  <2>2. row'[i] = [row[i] EXCEPT !.keep = TRUE] \/ row'[i] = row[i]
    <3>1. CASE \E p \in Fresh(config) : ObjectAt(p) = i
      BY <1>2, <1>3, <3>1
    <3>2. CASE ~\E p \in Fresh(config) : ObjectAt(p) = i
      <4>1. row'[i] = [row[i] EXCEPT !.keep = @]
        BY <1>2, <1>3, <1>6, <3>2
      <4> QED BY <1>4, <4>1 DEF Rows
    <3> QED BY <3>1, <3>2
  <2> QED BY <1>4, <2>1, <2>2 DEF Rows
<1> QED BY <1>5, <1>6

LEMMA RestartScans ==
  ASSUME Alone, StructureInv, StructureInv', ScanInv, Restart
  PROVE  ScanInv'
<1>1. \A t \in Threads : Idle(t) /\ call'[t] = call[t]
  BY DEF Restart
<1>2. PICK config, slot, rec :
        /\ config \in SUBSET ConfigDirs
        /\ slot \in [Fresh(config) -> (1..MaxScans) \ Stay(config)]
        /\ rec \in [Fresh(config) -> BOOLEAN] /\ Restarted(config, slot, rec)
  BY DEF Restart
<1>3. /\ \A s \in DOMAIN scan' :
           /\ Usable(scan'[s].obj)
           /\ \/ /\ s \in DOMAIN scan /\ ~scan[s].persistent /\ scan'[s] = scan[s]
                 /\ s \notin Old(config)
              \/ scan'[s].persistent /\ scan'[s].obj = None
              \/ /\ scan'[s].persistent
                 /\ \E p \in Fresh(config) : slot[p] = s /\ scan'[s].obj = ObjectAt(p)
      /\ OnlyFlags
  BY <1>2, RestartedScans
<1>4. \A p, q \in Fresh(config) : ObjectAt(p) = ObjectAt(q) => p = q \/ ObjectAt(p) = None
  BY <1>2 DEF Restarted
<1>5. \A p \in config : p \in ScanDirs
  BY <1>2, SQLStorageAssumption DEF SQLStorageAssumption
<1>6. ASSUME NEW p \in Fresh(config), NEW s \in DOMAIN scan, ObjectAt(p) # None
      PROVE  scan[s].obj # ObjectAt(p)
  <2>1. ObjectAt(p) \in ByPath(p)
    BY <1>5, <1>6, ObjectsAtPlaces DEF Fresh, StructureInv
  <2>2. Match(p) = {}
    BY DEF Fresh
  <2> QED BY <2>1, <2>2 DEF Match
<1>7. None \notin DOMAIN row
  BY DEF StructureInv, RowsInv, None
<1>8. /\ \A s \in DOMAIN scan : Watched(s) /\ Anchored(s)
      /\ \A s, o \in DOMAIN scan : Apart(s, o) /\ Disjoint(s, o)
  BY DEF ScanInv
<1>9. DOMAIN row' = DOMAIN row /\ \A j \in DOMAIN row : row'[j].kind = row[j].kind
  BY <1>3, FlagsKeepFields DEF OnlyFlags, StructureInv
<1>10. \A x \in DOMAIN row : row[x].kind = "dir" => AboveIn(row', x) \subseteq AboveIn(row, x)
  BY <1>3, FlagsKeepAbove
<1>11. \A s \in DOMAIN scan : ~scan[s].persistent => scan[s].obj \in DOMAIN row /\ row[scan[s].obj].kind = "dir"
  BY <1>8 DEF Anchored, Watched
<1>12. ASSUME NEW s \in DOMAIN scan' PROVE Watched(s)'
  <2> SUFFICES ASSUME scan'[s].obj \in DOMAIN row
               PROVE  row'[scan'[s].obj].kind = "dir" /\ row'[scan'[s].obj].keep
    BY <1>9 DEF Watched
  <2>1. PICK i : i = scan'[s].obj
    OBVIOUS
  <2>2. i \in DOMAIN row /\ Usable(i) /\ i # None
    BY <1>3, <1>7, <2>1
  <2>3. row'[i].kind = "dir"
    BY <1>9, <2>2 DEF Usable
  <2>4. row'[i].keep
    <3>1. CASE s \in DOMAIN scan /\ ~scan[s].persistent /\ scan'[s] = scan[s] /\ s \notin Old(config)
      <4>1. row[i].keep
        BY <1>8, <2>1, <2>2, <3>1 DEF Watched
      <4>2. \A o \in Old(config) : scan[o].obj # i
        <5>1. \A o \in Old(config) : o \in DOMAIN scan
          BY DEF Old, Match
        <5> QED BY <1>8, <2>1, <2>2, <3>1, <5>1 DEF Apart
      <4> QED BY <1>2, <2>2, <4>1, <4>2, RestartedFlags DEF StructureInv
    <3>2. CASE \E p \in Fresh(config) : slot[p] = s /\ scan'[s].obj = ObjectAt(p)
      <4>1. \E p \in Fresh(config) : ObjectAt(p) = i
        BY <2>1, <3>2
      <4> QED BY <1>2, <2>2, <4>1, RestartedFlags DEF StructureInv
    <3> QED BY <1>3, <2>1, <2>2, <3>1, <3>2
  <2> QED BY <2>1, <2>3, <2>4
<1>13. ASSUME NEW s \in DOMAIN scan' PROVE Anchored(s)'
  <2> SUFFICES ASSUME ~scan'[s].persistent
               PROVE  /\ scan'[s].obj \in DOMAIN row'
                      /\ AboveIn(row', scan'[s].obj) \ {CDS_ID_ROOT, None} \subseteq scan'[s].pathIDs
    BY DEF Anchored, PathIDs
  <2>1. s \in DOMAIN scan /\ ~scan[s].persistent /\ scan'[s] = scan[s]
    BY <1>3
  <2> QED BY <1>8, <1>9, <1>10, <1>11, <2>1 DEF Anchored, PathIDs
<1>14. ASSUME NEW s \in DOMAIN scan', NEW o \in DOMAIN scan' PROVE Apart(s, o)'
  <2> SUFFICES ASSUME s # o, scan'[s].obj # None, scan'[s].obj = scan'[o].obj PROVE FALSE
    BY DEF Apart
  <2>1. CASE ~scan'[s].persistent /\ ~scan'[o].persistent
    <3>1. s \in DOMAIN scan /\ scan'[s] = scan[s] /\ o \in DOMAIN scan /\ scan'[o] = scan[o]
      BY <1>3, <2>1
    <3> QED BY <1>8, <3>1 DEF Apart
  <2>2. CASE ~scan'[s].persistent /\ scan'[o].persistent
    <3>1. s \in DOMAIN scan /\ scan'[s] = scan[s]
      BY <1>3, <2>2
    <3>2. \E p \in Fresh(config) : scan'[o].obj = ObjectAt(p)
      BY <1>3, <2>2
    <3> QED BY <1>6, <3>1, <3>2
  <2>3. CASE scan'[s].persistent /\ ~scan'[o].persistent
    <3>1. o \in DOMAIN scan /\ scan'[o] = scan[o]
      BY <1>3, <2>3
    <3>2. \E p \in Fresh(config) : scan'[s].obj = ObjectAt(p)
      BY <1>3, <2>3
    <3> QED BY <1>6, <3>1, <3>2
  <2>4. CASE scan'[s].persistent /\ scan'[o].persistent
    <3>1. PICK p \in Fresh(config) : slot[p] = s /\ scan'[s].obj = ObjectAt(p)
      BY <1>3, <2>4
    <3>2. PICK q \in Fresh(config) : slot[q] = o /\ scan'[o].obj = ObjectAt(q)
      BY <1>3, <2>4
    <3> QED BY <1>4, <3>1, <3>2
  <2> QED BY <2>1, <2>2, <2>3, <2>4
<1>15. ASSUME NEW s \in DOMAIN scan', NEW o \in DOMAIN scan' PROVE Disjoint(s, o)'
  <2> SUFFICES ASSUME s # o, ~scan'[s].persistent, ~scan'[o].persistent, scan'[s].recursive
               PROVE  scan'[s].obj \notin AboveIn(row', scan'[o].obj) \ {CDS_ID_ROOT, None}
    BY DEF Disjoint, PathIDs
  <2>1. s \in DOMAIN scan /\ scan'[s] = scan[s] /\ o \in DOMAIN scan /\ scan'[o] = scan[o]
    BY <1>3
  <2>2. scan[s].obj \notin AboveIn(row, scan[o].obj) \ {CDS_ID_ROOT, None}
    BY <1>8, <2>1 DEF Disjoint, PathIDs
  <2> QED BY <1>10, <1>11, <2>1, <2>2
<1>16. Searched'
  <2>1. \A t \in Threads : call'[t] = NoCall
    BY <1>1, IdleIsNoCall
  <2> QED BY <2>1 DEF Searched, NoCall
<1> QED BY <1>12, <1>13, <1>14, <1>15, <1>16 DEF ScanInv

LEMMA InitScans == ASSUME Alone, Init PROVE ScanInv
BY DEF Init, ScanInv, Searched, NoCall

LEMMA NextScans ==
  ASSUME Alone, StructureInv, StructureInv', ScanInv, [Next]_vars
  PROVE  ScanInv'
<1>1. CASE \E t \in Threads : Adding(t)
  <2>1. Adding("task")
    BY <1>1, OneThread
  <2> QED BY <2>1, CallScans, InsertScans, UpdateScans DEF Adding
<1>2. CASE Removing
  BY <1>2, CollectScans, DeleteScans DEF Removing
<1>3. CASE Scanning
  BY <1>3, AddScan, EditScan, RemoveScan, ForgetScan, CallScans, FindScan DEF Scanning
<1>4. CASE Restart
  BY <1>4, RestartScans
<1>5. CASE UNCHANGED vars
  BY <1>5, CollectScans
<1> QED BY <1>1, <1>2, <1>3, <1>4, <1>5 DEF Next

THEOREM Scans == Alone => (Spec => [](StructureInv /\ ScanInv))
<1> SUFFICES ASSUME Alone PROVE Spec => [](StructureInv /\ ScanInv)
  OBVIOUS
<1>1. Init => StructureInv /\ ScanInv
  BY InitStructure, InitScans
<1>2. StructureInv /\ ScanInv /\ [Next]_vars => (StructureInv /\ ScanInv)'
  BY NextStructure, NextScans
<1> QED BY <1>1, <1>2, PTL DEF Spec

(* Two directories that clients made autoscan directories never overlap:   *)
(* what _checkOverlappingAutoscans() compares, the stored path IDs, stays  *)
(* an upper bound of what is above the container, whatever is added,       *)
(* removed, purged or restarted in between.                                *)
THEOREM DirectoriesDoNotOverlap == Alone => (Spec => []NoOverlap)
<1>1. StructureInv /\ ScanInv => NoOverlap
  BY DEF ScanInv, Disjoint, NoOverlap
<1> QED BY <1>1, Scans, PTL

(* When no call is in progress, parents, references and the containers of  *)
(* autoscan directories are there.                                         *)
THEOREM LinksHold == Alone => (Spec => []NothingDangles)
<1>1. ASSUME Alone, StructureInv, ScanInv PROVE NothingDangles
  <2>1. ASSUME AllIdle
        PROVE  rm.del = {} /\ rm.items = {} /\ rm.conts = {}
    BY <1>1, <2>1, OneThread, IdleRemovesNothing DEF AllIdle
  <2>2. NoOrphans
    <3> SUFFICES ASSUME AllIdle, NEW i \in DOMAIN row \ {CDS_ID_ROOT}
                 PROVE  row[i].parent \in (DOMAIN row) \union cut
      BY DEF NoOrphans
    <3>1. CASE i = CDS_ID_FS_ROOT
      BY <1>1, <3>1 DEF StructureInv, RowsInv, RootRow, NewRow, Roots
    <3>2. CASE i # CDS_ID_FS_ROOT
      <4>1. i \in DOMAIN row \ Roots
        BY <3>2 DEF Roots
      <4> QED BY <1>1, <2>1, <4>1 DEF StructureInv, TreeInv
    <3> QED BY <3>1, <3>2
  <2>3. ReferencesHold
    BY <1>1, <2>1 DEF ReferencesHold, StructureInv, RefInv
  <2>4. ScansKeepTheirContainer
    BY <1>1 DEF ScanInv, Watched, Anchored, ScansKeepTheirContainer
  <2>5. RootsStay
    BY <1>1 DEF RootsStay, StructureInv, RowsInv
  <2> QED BY <2>2, <2>3, <2>4, <2>5 DEF NothingDangles
<1>2. Alone => (StructureInv /\ ScanInv => NothingDangles)
  BY <1>1
<1> SUFFICES ASSUME Alone PROVE Spec => []NothingDangles
  OBVIOUS
<1>3. StructureInv /\ ScanInv => NothingDangles
  BY <1>2
<1>4. Spec => [](StructureInv /\ ScanInv)
  BY Scans
<1> QED BY <1>3, <1>4, PTL

-----------------------------------------------------------------------------
(* A removal takes nothing that is not due.                                *)

LEMMA InitDue == ASSUME Init PROVE DueInv
BY DEF Init, DueInv, NoRemoval, Taken, RefsTo, Collecting

LEMMA NothingIsDue == ASSUME rm' = NoRemoval PROVE DueInv'
BY DEF DueInv, NoRemoval, Taken, RefsTo, Collecting

(* A row that is not a container and refers to a selected object is a      *)
(* reference to a file.                                                    *)
LEMMA RefersToFile ==
  ASSUME StructureInv, NEW i \in DOMAIN row, ~Container(i), NEW S, None \notin S, row[i].ref \in S
  PROVE  /\ row[i].kind = "ref"
         /\ row[i].ref \in DOMAIN row => row[row[i].ref].kind = "file"
         /\ row[i].ref \in DOMAIN row \/ i \in rm.del \/ row[i].ref \in rm.items
<1>1. row[i].kind = "ref"
  BY RefsAre DEF StructureInv
<1> QED BY <1>1 DEF StructureInv, RefInv

LEMMA BeginRemovalDue ==
  ASSUME Alone, StructureInv, StructureInv',
         NEW asked \in SUBSET Int, NEW all \in BOOLEAN, NEW items, NEW conts,
         items \subseteq Named(row, asked, all), conts \subseteq asked,
         \A i \in conts : i \in DOMAIN row /\ Container(i), None \notin items,
         BeginRemoval(asked, all, items, conts)
  PROVE  DueInv'
<1>1. /\ rm'.rest = {i \in DOMAIN row : ~Container(i)} \ Due(asked, all)
      /\ rm'.due = Due(asked, all) /\ rm'.items = items /\ rm'.conts = conts /\ rm'.del = conts
      /\ rm'.parents = (IF conts = {} THEN items ELSE {}) /\ rm'.all = all
      /\ UNCHANGED <<row>> /\ MayBegin("task")
  BY DEF BeginRemoval, NoRemoval
<1>2. Due(conts, all) \subseteq Due(asked, all)
  <2>1. conts \subseteq BelowIn(row, asked) /\ IsFiniteSet(DOMAIN row)
    BY BelowFacts, IntParents DEF StructureInv
  <2> QED BY <2>1, DueSmaller DEF Due
<1>3. rm.del = {} /\ rm.items = {}
  BY <1>1, IdleRemovesNothing DEF MayBegin
<1>4. ASSUME NEW i \in DOMAIN row, ~Container(i), i \in conts \union items \union RefsTo(items)
      PROVE  i \in Due(asked, all)
  <2>1. CASE i \in conts
    BY <1>4, <2>1
  <2>2. CASE i \in items
    BY <2>2, DueMembers DEF Due
  <2>3. CASE i \in RefsTo(items)
    <3>1. row[i].ref \in items
      BY <2>3 DEF RefsTo
    <3>2. row[i].ref \in DOMAIN row /\ row[row[i].ref].kind = "file"
      BY <1>3, <1>4, <3>1, RefersToFile
    <3> QED BY <3>1, <3>2, DueMembers DEF Due
  <2> QED BY <1>4, <2>1, <2>2, <2>3
<1>5. \A i \in Taken' \intersect DOMAIN row : ~Container(i) => i \in Due(asked, all)
  BY <1>1, <1>4 DEF Taken, RefsTo
<1>6. /\ rm'.rest \subseteq DOMAIN row' /\ \A i \in rm'.rest : ~Container(i)' /\ i \notin rm'.due
  BY <1>1 DEF Container
<1>7. \A i \in Taken' \intersect DOMAIN row' : ~Container(i)' => i \in rm'.due
  BY <1>1, <1>5 DEF Container
<1>8. DueIn(row', rm'.conts, rm'.all) \subseteq rm'.due
  BY <1>1, <1>2 DEF Due
<1> QED BY <1>6, <1>7, <1>8 DEF DueInv, Due

LEMMA RemoveDue ==
  ASSUME Alone, StructureInv, StructureInv', removeObject \/ removeObjects
  PROVE  DueInv'
<1>0. DOMAIN row \subseteq Nat /\ IsFiniteSet(DOMAIN row) /\ None \notin Nat
  BY IntParents DEF StructureInv, RowsInv, None
<1>1. CASE removeObject
  <2>1. PICK i \in DOMAIN row \ Roots, all \in BOOLEAN :
          IF Container(i) THEN BeginRemoval({i}, all, {}, {i})
          ELSE BeginRemoval({i}, all, {IF all /\ row[i].ref # None THEN row[i].ref ELSE i}, {})
    BY <1>1 DEF removeObject
  <2>2. {i} \in SUBSET Int
    BY <1>0
  <2>3. CASE Container(i)
    <3>1. PICK asked, items : asked = {i} /\ items = {}
      OBVIOUS
    <3>2. BeginRemoval(asked, all, items, asked)
      BY <2>1, <2>3, <3>1
    <3>3. items \subseteq Named(row, asked, all) /\ None \notin items
      BY <3>1
    <3>4. asked \in SUBSET Int /\ asked \subseteq asked
          /\ \A j \in asked : j \in DOMAIN row /\ Container(j)
      BY <2>2, <2>3, <3>1
    <3> QED BY <3>2, <3>3, <3>4, BeginRemovalDue
  <2>4. CASE ~Container(i)
    <3>1. PICK m : m = IF all /\ row[i].ref # None THEN row[i].ref ELSE i
      OBVIOUS
    <3>2. i \in BelowIn(row, {i})
      BY <1>0, BelowFacts
    <3>3. m \in Named(row, {i}, all) /\ m # None
      <4>1. CASE all /\ row[i].ref # None
        <5>1. row[i].kind = "ref" /\ m = row[i].ref
          BY <2>4, <3>1, <4>1, RefsAre DEF StructureInv
        <5> QED BY <3>2, <4>1, <5>1 DEF Named
      <4>2. CASE ~(all /\ row[i].ref # None)
        BY <1>0, <3>1, <3>2, <4>2 DEF Named
      <4> QED BY <4>1, <4>2
    <3>4. BeginRemoval({i}, all, {m}, {})
      BY <2>1, <2>4, <3>1
    <3> QED BY <2>2, <3>3, <3>4, BeginRemovalDue
  <2> QED BY <2>3, <2>4
<1>2. CASE removeObjects
  <2>1. PICK c \in DOMAIN row : \E S \in SUBSET (Children({c}) \ Roots) :
          BeginRemoval(S, FALSE, {i \in S : ~Container(i)}, {i \in S : Container(i)})
    BY <1>2 DEF removeObjects
  <2>2. PICK S \in SUBSET (Children({c}) \ Roots) :
          BeginRemoval(S, FALSE, {i \in S : ~Container(i)}, {i \in S : Container(i)})
    BY <2>1
  <2>3. S \subseteq DOMAIN row \ Roots
    BY DEF Children
  <2>4. PICK items, conts : items = {i \in S : ~Container(i)} /\ conts = {i \in S : Container(i)}
    OBVIOUS
  <2>5. S \in SUBSET Int /\ None \notin items
    BY <1>0, <2>3, <2>4
  <2>6. items \subseteq Named(row, S, FALSE)
    <3>1. S \subseteq BelowIn(row, S)
      BY <1>0, BelowFacts
    <3> QED BY <2>4, <3>1 DEF Named
  <2>7. BeginRemoval(S, FALSE, items, conts)
    BY <2>2, <2>4
  <2>8. conts \subseteq S /\ \A i \in conts : i \in DOMAIN row /\ Container(i)
    BY <2>3, <2>4
  <2>9. S \in SUBSET Int /\ None \notin items /\ FALSE \in BOOLEAN
    BY <2>5
  <2> QED BY <2>6, <2>7, <2>8, <2>9, BeginRemovalDue
<1> QED BY <1>1, <1>2

(* The lists move on without the rows changing.                            *)
LEMMA ListsMove ==
  ASSUME DueInv, row' = row, rm'.rest = rm.rest, rm'.due = rm.due, rm'.conts = rm.conts,
         rm'.all = rm.all,
         \A i \in Taken' \intersect DOMAIN row : ~Container(i) => i \in Taken,
         Collecting' => Collecting
  PROVE  DueInv'
<1>1. /\ rm'.rest \subseteq DOMAIN row' /\ \A i \in rm'.rest : ~Container(i)' /\ i \notin rm'.due
  BY DEF DueInv, Container
<1>2. \A i \in Taken' \intersect DOMAIN row' : ~Container(i)' => i \in rm'.due
  BY DEF DueInv, Container
<1>3. Collecting' => DueIn(row', rm'.conts, rm'.all) \subseteq rm'.due
  BY DEF DueInv, Due
<1> QED BY <1>1, <1>2, <1>3 DEF DueInv, Due

LEMMA SelectDue ==
  ASSUME Alone, StructureInv, DueInv, SelectParents \/ SelectReferences
  PROVE  DueInv'
<1>1. CASE SelectParents
  <2>1. PICK up : up = Parents(rm.parents)
    OBVIOUS
  <2>2. /\ rm.phase = "parents" /\ row' = row
        /\ rm' = [rm EXCEPT !.phase = "items", !.parents = {}, !.del = @ \union rm.parents,
                            !.upnp = @ \union up]
    BY <1>1, <2>1 DEF SelectParents
  <2>3. /\ rm'.del = rm.del \union rm.parents /\ rm'.items = rm.items /\ rm'.conts = rm.conts
        /\ rm'.parents = {} /\ rm'.rest = rm.rest /\ rm'.due = rm.due /\ rm'.all = rm.all
    BY <2>2 DEF StructureInv, RmInv, RmType
  <2>4. Taken' = Taken
    BY <2>2, <2>3 DEF Taken, RefsTo
  <2> QED BY <2>2, <2>3, <2>4, ListsMove DEF Collecting
<1>2. CASE SelectReferences
  <2>1. PICK up, refs : refs = RefsTo(rm.items) /\ up = Parents(RefsTo(rm.items))
    OBVIOUS
  <2>2. /\ rm.phase = "items" /\ row' = row
        /\ rm' = [rm EXCEPT !.phase = "conts", !.items = {}, !.del = @ \union refs,
                            !.upnp = @ \union up]
    BY <1>2, <2>1 DEF SelectReferences
  <2>3. /\ rm'.del = rm.del \union refs /\ rm'.items = {} /\ rm'.conts = rm.conts
        /\ rm'.parents = rm.parents /\ rm'.rest = rm.rest /\ rm'.due = rm.due /\ rm'.all = rm.all
    BY <2>2 DEF StructureInv, RmInv, RmType
  <2>4. Taken' = Taken
    BY <2>1, <2>2, <2>3 DEF Taken, RefsTo
  <2> QED BY <2>2, <2>3, <2>4, ListsMove DEF Collecting
<1> QED BY <1>1, <1>2

LEMMA SelectChildrenDue ==
  ASSUME Alone, StructureInv, DueInv, SelectChildren
  PROVE  DueInv'
<1>1. PICK conts, main, plain : conts = FoundConts /\ main = FoundMain /\ plain = FoundPlain
  OBVIOUS
<1>2. /\ rm.phase = "conts" /\ row' = row
      /\ rm' = [rm EXCEPT !.phase = "flush", !.conts = conts, !.del = @ \union conts \union plain,
                          !.parents = @ \union main, !.items = @ \union main \union plain]
      /\ rm.parents = {} /\ rm.items = {}
  BY <1>1, SelectsChildren
<1>3. /\ rm'.del = rm.del \union conts \union plain /\ rm'.items = main \union plain
      /\ rm'.conts = conts /\ rm'.parents = main
      /\ rm'.rest = rm.rest /\ rm'.due = rm.due /\ rm'.all = rm.all /\ rm.all \in BOOLEAN
  BY <1>2 DEF StructureInv, RmInv, RmType
<1>4. IsFiniteSet(DOMAIN row) /\ DOMAIN row \subseteq Nat
  BY IntParents DEF StructureInv
<1>5. DueIn(row, rm.conts, rm.all) \subseteq rm.due
  BY <1>2 DEF DueInv, Due, Collecting
<1>6. Found \subseteq BelowIn(row, rm.conts) /\ Found \subseteq DOMAIN row
  <2>1. /\ rm.conts \subseteq BelowIn(row, rm.conts)
        /\ \A i \in DOMAIN row : row[i].parent \in BelowIn(row, rm.conts) => i \in BelowIn(row, rm.conts)
    BY <1>4, BelowFacts
  <2> QED BY <2>1 DEF Found, Children
<1>7. main \union plain \subseteq Named(row, rm.conts, rm.all)
  <2>1. plain \subseteq Named(row, rm.conts, rm.all)
    BY <1>1, <1>6 DEF FoundPlain, Named
  <2>2. ASSUME NEW m \in main PROVE m \in Named(row, rm.conts, rm.all)
    <3>1. PICK i \in FoundRefs : m = row[i].ref
      BY <1>1, <2>2 DEF FoundMain
    <3>2. row[i].kind = "ref" /\ rm.all /\ i \in Found
      BY SelectsChildren DEF FoundRefs
    <3> QED BY <1>6, <3>1, <3>2 DEF Named
  <2> QED BY <2>1, <2>2
<1>8. ASSUME NEW i \in DOMAIN row, ~Container(i), i \in RefsTo(main \union plain)
      PROVE  i \in rm.due
  <2>1. None \notin main \union plain
    BY <1>1, <1>6, SelectsChildren DEF FoundMain, FoundPlain, None
  <2>2. row[i].ref \in main \union plain
    BY <1>8 DEF RefsTo
  <2>3. /\ row[i].ref \in DOMAIN row => row[row[i].ref].kind = "file"
        /\ row[i].ref \in DOMAIN row \/ i \in rm.del
    BY <1>2, <1>8, <2>1, <2>2, RefersToFile
  <2>4. CASE i \in rm.del
    BY <1>8, <2>4 DEF DueInv, Taken
  <2>5. CASE row[i].ref \in DOMAIN row
    BY <1>3, <1>5, <1>7, <2>2, <2>3, <2>5, DueMembers
  <2> QED BY <2>3, <2>4, <2>5
<1>9. \A i \in main \union plain : i \in rm.due
  BY <1>3, <1>5, <1>7, DueMembers
<1>10. /\ rm'.rest \subseteq DOMAIN row' /\ \A i \in rm'.rest : ~Container(i)' /\ i \notin rm'.due
  BY <1>2, <1>3 DEF DueInv, Container
<1>11. \A i \in Taken' \intersect DOMAIN row' : ~Container(i)' => i \in rm'.due
  <2> SUFFICES ASSUME NEW i \in DOMAIN row, ~Container(i), i \in Taken'
               PROVE  i \in rm.due
    BY <1>2, <1>3 DEF Container
  <2>1. i \in rm.del \/ i \in conts \/ i \in main \union plain \/ i \in RefsTo(main \union plain)
    BY <1>2, <1>3 DEF Taken, RefsTo
  <2>2. i \notin conts
    BY <1>1 DEF FoundConts
  <2>3. i \in rm.del => i \in rm.due
    BY DEF DueInv, Taken
  <2> QED BY <1>8, <1>9, <2>1, <2>2, <2>3
<1>12. DueIn(row', rm'.conts, rm'.all) \subseteq rm'.due
  <2>1. conts \subseteq BelowIn(row, rm.conts)
    BY <1>1, <1>6 DEF FoundConts
  <2>2. DueIn(row, conts, rm.all) \subseteq DueIn(row, rm.conts, rm.all)
    BY <1>3, <1>4, <2>1, DueSmaller
  <2> QED BY <1>2, <1>3, <1>5, <2>2
<1> QED BY <1>10, <1>11, <1>12 DEF DueInv, Due

(* The rows on the list go.                                                *)
LEMMA DeleteDue ==
  ASSUME Alone, StructureInv, DueInv, DeleteRows(rm.del),
         rm'.del = {}, rm'.items \subseteq rm.items, rm'.parents \subseteq rm.parents,
         rm'.rest = rm.rest, rm'.due = rm.due, rm'.conts = rm.conts, rm'.all = rm.all,
         Collecting' => Collecting
  PROVE  DueInv'
<1>1. DOMAIN row' = DOMAIN row \ rm.del /\ \A i \in DOMAIN row' : row'[i] = row[i]
  BY DEF DeleteRows
<1>2. \A i \in rm.rest : i \notin rm.del
  BY DEF DueInv, Taken
<1>3. /\ rm'.rest \subseteq DOMAIN row' /\ \A i \in rm'.rest : ~Container(i)' /\ i \notin rm'.due
  BY <1>1, <1>2 DEF DueInv, Container
<1>4. \A i \in Taken' \intersect DOMAIN row' : ~Container(i)' => i \in rm'.due
  <2> SUFFICES ASSUME NEW i \in DOMAIN row', i \in Taken', ~Container(i)'
               PROVE  i \in rm.due
    OBVIOUS
  <2>1. i \in DOMAIN row /\ ~Container(i) /\ i \in Taken
    BY <1>1 DEF Container, Taken, RefsTo
  <2> QED BY <2>1 DEF DueInv
<1>5. Collecting' => DueIn(row', rm'.conts, rm'.all) \subseteq rm'.due
  <2> SUFFICES ASSUME Collecting PROVE DueIn(row', rm.conts, rm.all) \subseteq rm.due
    OBVIOUS
  <2>1. IsFiniteSet(DOMAIN row) /\ IsFiniteSet(DOMAIN row')
    BY <1>1, IntParents, FS_Subset DEF StructureInv
  <2>2. rm.conts \subseteq BelowIn(row, rm.conts) /\ rm.all \in BOOLEAN
    BY <2>1, BelowFacts DEF StructureInv, RmInv, RmType
  <2>3. DueIn(row', rm.conts, rm.all) \subseteq DueIn(row, rm.conts, rm.all)
    BY <1>1, <2>1, <2>2, DueSmaller
  <2> QED BY <2>3 DEF DueInv, Due
<1> QED BY <1>3, <1>4, <1>5 DEF DueInv, Due

LEMMA NextRoundDue ==
  ASSUME Alone, StructureInv, DueInv, NextRound \/ DeleteRest \/ PurgeDelete
  PROVE  DueInv'
<1>1. CASE NextRound
  <2>1. rm.phase = "flush" /\ Collecting
    BY <1>1 DEF NextRound, Collecting
  <2>2. CASE rm' = [rm EXCEPT !.phase = "parents"] /\ row' = row
    <3>1. /\ rm'.del = rm.del /\ rm'.items = rm.items /\ rm'.conts = rm.conts /\ rm'.parents = rm.parents
          /\ rm'.rest = rm.rest /\ rm'.due = rm.due /\ rm'.all = rm.all
      BY <2>2 DEF StructureInv, RmInv, RmType
    <3>2. Taken' = Taken
      BY <2>2, <3>1 DEF Taken, RefsTo
    <3> QED BY <2>1, <2>2, <3>1, <3>2, ListsMove
  <2>3. CASE rm' = [rm EXCEPT !.phase = "parents", !.del = {}] /\ DeleteRows(rm.del)
    <3>1. /\ rm'.del = {} /\ rm'.items = rm.items /\ rm'.conts = rm.conts /\ rm'.parents = rm.parents
          /\ rm'.rest = rm.rest /\ rm'.due = rm.due /\ rm'.all = rm.all
      BY <2>3 DEF StructureInv, RmInv, RmType
    <3> QED BY <2>1, <2>3, <3>1, DeleteDue
  <2> QED BY <1>1, <2>2, <2>3 DEF NextRound
<1>2. CASE DeleteRest \/ PurgeDelete
  <2>1. PICK phase \in {"upnp", "purge"} : rm' = [rm EXCEPT !.phase = phase, !.del = {}]
    BY <1>2 DEF DeleteRest, PurgeDelete
  <2>2. DeleteRows(rm.del)
    BY <1>2 DEF DeleteRest, PurgeDelete
  <2>3. /\ rm'.del = {} /\ rm'.items = rm.items /\ rm'.conts = rm.conts /\ rm'.parents = rm.parents
        /\ rm'.rest = rm.rest /\ rm'.due = rm.due /\ rm'.all = rm.all /\ rm'.phase = phase
    BY <2>1 DEF StructureInv, RmInv, RmType
  <2>4. ~Collecting'
    BY <2>3 DEF Collecting
  <2> QED BY <2>2, <2>3, <2>4, DeleteDue
<1> QED BY <1>1, <1>2

(* Purging takes empty containers only.                                    *)
LEMMA PurgeDue ==
  ASSUME Alone, StructureInv, DueInv, PurgeUpnp \/ PurgeUI \/ RemovalReturns
  PROVE  DueInv'
<1>1. PICK del : del = rm'.del
  OBVIOUS
<1>2. /\ row' = row /\ rm'.rest = rm.rest /\ rm'.due = rm.due
      /\ rm'.items = {} /\ rm'.parents = {} /\ ~Collecting'
      /\ \A i \in del \intersect DOMAIN row : Container(i)
  <2>1. CASE PurgeUpnp
    <3>1. rm.phase = "upnp"
      BY <2>1 DEF PurgeUpnp
    <3>2. rm.items = {} /\ rm.parents = {}
      BY <3>1 DEF StructureInv, RmInv, Collecting
    <3>3. PICK ku, cu, pu, more :
            rm' = [rm EXCEPT !.phase = "ui", !.ret.upnp = @ \union ku,
                      !.del = more, !.ui = @ \union pu, !.upnp = cu] /\ more = Empty(rm.upnp)
      BY <2>1 DEF PurgeUpnp
    <3>4. /\ rm'.rest = rm.rest /\ rm'.due = rm.due /\ rm'.del = more
          /\ rm'.items = {} /\ rm'.parents = {} /\ rm'.phase = "ui"
      BY <3>2, <3>3 DEF StructureInv, RmInv, RmType
    <3>5. \A i \in more : Container(i)
      BY <3>3, EmptyAre DEF StructureInv
    <3> QED BY <1>1, <2>1, <3>4, <3>5 DEF PurgeUpnp, Collecting
  <2>2. CASE PurgeUI
    <3>1. rm.phase = "ui"
      BY <2>2 DEF PurgeUI
    <3>2. /\ rm.items = {} /\ rm.parents = {}
          /\ \A i \in rm.del : Container(i)
      BY <3>1 DEF StructureInv, RmInv, Collecting, Purging
    <3>3. PICK ku, cu, more :
            rm' = [rm EXCEPT !.phase = "purge", !.ret.upnp = @ \union ku, !.ret.ui = @ \union ku,
                      !.del = @ \union more, !.ui = cu] /\ more = Empty(rm.ui)
      BY <2>2 DEF PurgeUI
    <3>4. /\ rm'.rest = rm.rest /\ rm'.due = rm.due /\ rm'.del = rm.del \union more
          /\ rm'.items = {} /\ rm'.parents = {} /\ rm'.phase = "purge"
      BY <3>2, <3>3 DEF StructureInv, RmInv, RmType
    <3>5. \A i \in more : Container(i)
      BY <3>3, EmptyAre DEF StructureInv
    <3> QED BY <1>1, <2>2, <3>2, <3>4, <3>5 DEF PurgeUI, Collecting
  <2>3. CASE RemovalReturns
    BY <1>1, <2>3 DEF RemovalReturns, NoRemoval, Collecting
  <2> QED BY <2>1, <2>2, <2>3
<1>3. Taken' = del
  BY <1>1, <1>2 DEF Taken, RefsTo, StructureInv, RowsInv
<1> QED BY <1>2, <1>3 DEF DueInv, Container

(* Outside a removal nothing is on a list.                                 *)
LEMMA IdleDue ==
  ASSUME StructureInv, DueInv, Idle("task"), OnlyFlags, rm' = rm
  PROVE  DueInv'
<1>1. ~Collecting /\ rm.del = {} /\ rm.items = {} /\ rm.parents = {}
  BY IdleRemovesNothing
<1>2. ~Collecting' /\ Taken' = {}
  BY <1>1 DEF Collecting, Taken, RefsTo
<1>3. DOMAIN row' = DOMAIN row /\ \A i \in DOMAIN row : row'[i].kind = row[i].kind
  BY FlagsKeepFields DEF StructureInv, OnlyFlags
<1> QED BY <1>2, <1>3 DEF DueInv, Container

(* The other calls run when no removal does.                               *)
LEMMA CallsRemoveNothing ==
  ASSUME Alone, StructureInv, Adding("task") \/ BeginScan \/ ScanFinds \/ Restart
  PROVE  rm' = NoRemoval
<1>1. ASSUME NEW op, NEW goal, NEW arg, NEW link, Begin("task", op, goal, arg, link)
      PROVE  rm' = NoRemoval
  BY <1>1 DEF Begin
<1>2. CASE \/ BeginAddFile("task") \/ BeginAddRef("task") \/ BeginAddChain("task")
           \/ BeginUpdate("task") \/ BeginScan
  BY <1>1, <1>2 DEF BeginAddFile, BeginAddRef, BeginAddChain, BeginUpdate, BeginScan
<1>3. CASE \/ LookUp("task") \/ createContainer("task") \/ AddFile("task") \/ AddRef("task")
           \/ AddChain("task") \/ UpdateObject("task") \/ ScanFinds
  <2>1. call["task"].op # "none" /\ rm' = rm
    BY <1>3 DEF LookUp, createContainer, AddFile, AddRef, AddChain, UpdateObject, ScanFinds,
                Ensured, Return
  <2> QED BY <2>1, TheCall DEF CallOK
<1>4. CASE Restart
  BY <1>4 DEF Restart
<1> QED BY <1>2, <1>3, <1>4 DEF Adding

LEMMA CallsDue ==
  ASSUME Alone, StructureInv, Adding("task") \/ BeginScan \/ ScanFinds \/ Restart
  PROVE  DueInv'
BY CallsRemoveNothing, NothingIsDue

(* A client's step, or a scan that finds the directory gone.               *)
LEMMA ClientStep ==
  ASSUME Alone, StructureInv,
         addAutoscanDirectory \/ EditAutoscan \/ removeAutoscanDirectory \/ ScanForgets
  PROVE  Idle("task") /\ OnlyFlags /\ UNCHANGED <<rm, call, lastID, cut, owed, told>>
<1>1. Idle("task") /\ UNCHANGED <<rm, call, lastID, cut, owed, told>>
  BY OneThread DEF addAutoscanDirectory, EditAutoscan, removeAutoscanDirectory, ScanForgets, MayBegin
<1>2. CASE addAutoscanDirectory
  <2>1. PICK p \in ScanDirs : \E i \in (IF p = Top THEN {CDS_ID_FS_ROOT} ELSE FindContainer(p)) :
          row' = Flag(row, i, TRUE)
    BY <1>2 DEF addAutoscanDirectory
  <2>2. PICK i \in (IF p = Top THEN {CDS_ID_FS_ROOT} ELSE FindContainer(p)) :
          row' = Flag(row, i, TRUE)
    BY <2>1
  <2>3. p # Top
    BY DEF Alone
  <2>4. i \in DOMAIN row /\ row[i].path = p
    BY <2>3 DEF FindContainer
  <2>5. RowsInv /\ i \notin Roots
    BY <2>3, <2>4 DEF StructureInv, RowsInv, Roots, RootRow, NewRow
  <2>6. OnlyFlags
    BY <2>2, <2>5, FlagOnly
  <2> QED BY <1>1, <2>6
<1>3. CASE EditAutoscan
  <2>1. row' = row
    BY <1>3 DEF EditAutoscan, updateAutoscanDirectory, Moved
  <2> QED BY <1>1, <2>1, FlagNone DEF StructureInv
<1>4. CASE removeAutoscanDirectory
  <2>1. PICK s \in DOMAIN scan : row' = Flag(row, scan[s].obj, FALSE)
    BY <1>4 DEF removeAutoscanDirectory
  <2>2. RowsInv /\ scan[s].obj \notin Roots
    BY DEF StructureInv, ScanRows, ScanRow, None, Roots, CDS_ID_ROOT, CDS_ID_FS_ROOT
  <2>3. OnlyFlags
    BY <2>1, <2>2, FlagOnly
  <2> QED BY <1>1, <2>3
<1>5. CASE ScanForgets
  <2>1. PICK s \in DOMAIN scan : row' = Moved(s, None)
    BY <1>5 DEF ScanForgets, updateAutoscanDirectory
  <2>2. None \in (Nat \ Roots) \union {None}
    OBVIOUS
  <2>3. OnlyFlags
    BY <2>1, <2>2, MovedOnly
  <2> QED BY <1>1, <2>3
<1> QED BY <1>2, <1>3, <1>4, <1>5

LEMMA StutterDue == ASSUME DueInv, UNCHANGED vars PROVE DueInv'
<1>1. row' = row /\ rm' = rm
  BY DEF vars
<1>2. Taken' = Taken /\ (Collecting' <=> Collecting)
  BY <1>1 DEF Taken, RefsTo, Collecting
<1> QED BY <1>1, <1>2, ListsMove

LEMMA NextDue ==
  ASSUME Alone, StructureInv, StructureInv', DueInv, [Next]_vars
  PROVE  DueInv'
<1>1. CASE \E t \in Threads : Adding(t)
  <2>1. Adding("task")
    BY <1>1, OneThread
  <2> QED BY <2>1, CallsDue
<1>2. CASE Removing
  BY <1>2, RemoveDue, SelectDue, SelectChildrenDue, NextRoundDue, PurgeDue DEF Removing
<1>3. CASE Scanning
  <2>1. CASE addAutoscanDirectory \/ EditAutoscan \/ removeAutoscanDirectory \/ ScanForgets
    <3>1. Idle("task") /\ OnlyFlags /\ rm' = rm
      BY <2>1, ClientStep
    <3> QED BY <3>1, IdleDue
  <2>2. CASE BeginScan \/ ScanFinds
    BY <2>2, CallsDue
  <2> QED BY <1>3, <2>1, <2>2 DEF Scanning
<1>4. CASE Restart
  BY <1>4, CallsDue
<1>5. CASE UNCHANGED vars
  BY <1>5, StutterDue
<1> QED BY <1>1, <1>2, <1>3, <1>4, <1>5 DEF Next

(* A removal deletes no file or reference that nobody asked for, however   *)
(* deep the containers and references below what it removes go.            *)
THEOREM NothingElseGoes == Alone => (Spec => []RemovesNothingElse)
<1> SUFFICES ASSUME Alone PROVE Spec => []RemovesNothingElse
  OBVIOUS
<1>1. Init => StructureInv /\ DueInv
  BY InitStructure, InitDue
<1>2. StructureInv /\ DueInv /\ [Next]_vars => (StructureInv /\ DueInv)'
  BY NextStructure, NextDue
<1>3. DueInv => RemovesNothingElse
  BY DEF DueInv, RemovesNothingElse
<1> QED BY <1>1, <1>2, <1>3, PTL DEF Spec

-----------------------------------------------------------------------------
(* A removal takes all that is due, when no container is created as a      *)
(* reference.                                                              *)

(* The parts of the invariant about references that are asked for with     *)
(* "all", and about containers on the list.                                *)
AllLeft ==
  rm.all =>
    /\ rm.items \intersect DOMAIN row \subseteq rm.del \union rm.parents
    /\ \A i \in rm.parents \intersect DOMAIN row : row[i].kind = "file"
    /\ \A i \in rm.del \intersect DOMAIN row :
         row[i].kind = "ref" /\ row[i].ref \in DOMAIN row => row[i].ref \in rm.del \union rm.parents
ContsLeft ==
  \A i \in rm.del \intersect DOMAIN row : Container(i) => i \in rm.conts \/ Children({i}) \subseteq Taken
DueLeft ==
  (rm.due \ rm.mixed) \intersect DOMAIN row \subseteq
    IF Collecting THEN Taken \union Due(rm.conts, rm.all) ELSE {}
NoLinks == \A i \in DOMAIN row : row[i].kind = "virt" => row[i].ref = None

LEMMA LeftParts == LeftInv <=> cut = {} /\ NoLinks /\ DueLeft /\ ContsLeft /\ AllLeft
BY DEF LeftInv, NoLinks, DueLeft, ContsLeft, AllLeft

LEMMA InitLeft == ASSUME Alone, Init PROVE LeftInv
<1>1. NoLinks
  BY DEF Init, NoLinks, RootRow, NewRow
<1>2. cut = {} /\ DueLeft /\ ContsLeft /\ AllLeft
  BY DEF Init, NoRemoval, DueLeft, ContsLeft, AllLeft, Collecting
<1> QED BY <1>1, <1>2, LeftParts

(* With nothing to remove, only the rows matter.                           *)
LEMMA NothingIsLeft ==
  ASSUME rm' = NoRemoval, cut' = {}, NoLinks'
  PROVE  LeftInv'
<1>1. DueLeft' /\ ContsLeft' /\ AllLeft'
  BY DEF NoRemoval, DueLeft, ContsLeft, AllLeft, Collecting
<1> QED BY <1>1 DEF LeftInv, NoLinks, DueLeft, ContsLeft, AllLeft

(* No row that is not a reference refers to an object.                     *)
LEMMA OnlyRefsRefer ==
  ASSUME StructureInv, NoLinks, NEW i \in DOMAIN row, row[i].ref # None
  PROVE  row[i].kind = "ref" /\ ~Container(i)
<1>1. i \notin Roots
  BY RefsAre DEF StructureInv
<1>2. IsRow(row[i])
  BY <1>1 DEF StructureInv, RowsInv
<1> QED BY <1>2 DEF IsRow, Rows, NoLinks, Container

(* What is below nothing, and below a file or reference when no removal is *)
(* in progress.                                                            *)
LEMMA BelowSingles ==
  ASSUME StructureInv, cut = {}, rm.del = {}, rm.conts = {}, rm.items = {}, NEW S,
         \A i \in S : i \in DOMAIN row /\ ~Container(i)
  PROVE  BelowIn(row, S) = S
<1>1. ASSUME NEW i \in DOMAIN row, row[i].parent \in S PROVE FALSE
  <2>1. i \notin Roots
    <3>1. CASE i = CDS_ID_ROOT
      BY <1>1, <3>1 DEF StructureInv, RowsInv, RootRow, NewRow, None
    <3>2. CASE i = CDS_ID_FS_ROOT
      BY <1>1, <3>2 DEF StructureInv, RowsInv, RootRow, NewRow, Container
    <3> QED BY <3>1, <3>2 DEF Roots
  <2>2. row[row[i].parent].kind \in {"dir", "virt"}
    BY <1>1, <2>1 DEF StructureInv, TreeInv
  <2> QED BY <1>1, <2>2 DEF Container
<1>2. IsFiniteSet(DOMAIN row)
  BY IntParents DEF StructureInv
<1>3. BelowIn(row, S) \subseteq S
  BY <1>1, <1>2, BelowFacts
<1> QED BY <1>2, <1>3, BelowFacts

LEMMA BelowNothing == ASSUME RowsInv PROVE BelowIn(row, {}) = {}
<1>1. IsFiniteSet(DOMAIN row)
  BY IntParents
<1>2. BelowIn(row, {}) \subseteq {}
  BY <1>1, BelowFacts
<1> QED BY <1>2

(* Below two sets is below one of them.                                    *)
LEMMA BelowBoth ==
  ASSUME NEW r, NEW S, NEW T, IsFiniteSet(DOMAIN r)
  PROVE  BelowIn(r, S \union T) \subseteq BelowIn(r, S) \union BelowIn(r, T)
<1>1. PICK C : C = BelowIn(r, S) \union BelowIn(r, T)
  OBVIOUS
<1>2. S \subseteq BelowIn(r, S) /\ T \subseteq BelowIn(r, T)
  BY BelowFacts
<1>3. S \union T \subseteq C
  BY <1>1, <1>2
<1>4. ASSUME NEW i \in DOMAIN r, r[i].parent \in C PROVE i \in C
  <2>1. /\ r[i].parent \in BelowIn(r, S) => i \in BelowIn(r, S)
        /\ r[i].parent \in BelowIn(r, T) => i \in BelowIn(r, T)
    BY BelowFacts
  <2> QED BY <1>1, <1>4, <2>1
<1>5. PICK U : U = S \union T
  OBVIOUS
<1>6. BelowIn(r, U) \subseteq C
  BY <1>3, <1>4, <1>5, BelowFacts
<1> QED BY <1>1, <1>5, <1>6

(* A removal begins: what is due is selected, or is due below containers.  *)
LEMMA BeginRemovalLeft ==
  ASSUME LeftInv, NEW asked, NEW all \in BOOLEAN, NEW items, NEW conts,
         \A i \in conts : Container(i),
         all => items = {} \/ conts = {},
         all => \A i \in items \intersect DOMAIN row : row[i].kind = "file",
         \A x \in Due(asked, all) \intersect DOMAIN row :
           x \in items \/ x \in RefsTo(items) \/ x \in Due(conts, all),
         BeginRemoval(asked, all, items, conts)
  PROVE  LeftInv'
<1>1. PICK due : due = Due(asked, all)
  OBVIOUS
<1>2. /\ rm'.phase = "parents" /\ rm'.due = due /\ rm'.items = items /\ rm'.conts = conts
      /\ rm'.del = conts /\ rm'.all = all
      /\ rm'.parents = (IF conts = {} THEN items ELSE {})
      /\ rm'.mixed = (IF conts = {} THEN {} ELSE items)
      /\ row' = row /\ cut' = cut
  BY <1>1 DEF BeginRemoval, NoRemoval
<1>3. Taken' = conts \union rm'.parents \union RefsTo(items)
  BY <1>2 DEF Taken, RefsTo
<1>4. Due(conts, all)' = Due(conts, all)
  BY <1>2 DEF Due
<1>5. DueLeft'
  <2> SUFFICES ASSUME NEW x \in DOMAIN row, x \in due, x \notin rm'.mixed
               PROVE  x \in Taken' \union Due(conts, all)
    BY <1>2, <1>4 DEF DueLeft, Due, Collecting
  <2>1. x \in items \/ x \in RefsTo(items) \/ x \in Due(conts, all)
    BY <1>1
  <2>2. CASE conts = {}
    BY <1>2, <1>3, <2>1, <2>2
  <2>3. CASE conts # {}
    BY <1>2, <1>3, <2>1, <2>3
  <2> QED BY <2>2, <2>3
<1>6. ContsLeft'
  BY <1>2 DEF ContsLeft
<1>7. AllLeft'
  <2> SUFFICES ASSUME all = TRUE
               PROVE  /\ items \intersect DOMAIN row \subseteq conts \union rm'.parents
                      /\ \A i \in rm'.parents \intersect DOMAIN row : row[i].kind = "file"
                      /\ \A i \in conts \intersect DOMAIN row : row[i].kind # "ref"
    BY <1>2 DEF AllLeft
  <2>1. rm'.parents \subseteq items /\ items \subseteq rm'.parents
    BY <1>2
  <2> QED BY <2>1 DEF Container
<1>8. cut' = {} /\ NoLinks'
  BY <1>2 DEF LeftInv, NoLinks
<1> QED BY <1>5, <1>6, <1>7, <1>8 DEF LeftInv, NoLinks, DueLeft, ContsLeft, AllLeft

(* What is due with a file or reference.                                   *)
LEMMA DueOfOne ==
  ASSUME StructureInv, cut = {}, rm.del = {}, rm.conts = {}, rm.items = {},
         NEW i \in DOMAIN row, ~Container(i), NEW all \in BOOLEAN, NEW m,
         m = IF all /\ row[i].ref # None THEN row[i].ref ELSE i
  PROVE  \A x \in Due({i}, all) \intersect DOMAIN row : x \in {m} \/ x \in RefsTo({m})
<1>1. BelowIn(row, {i}) = {i}
  BY BelowSingles
<1>2. all /\ row[i].ref # None => row[i].kind = "ref"
  BY RefsAre DEF StructureInv
<1>3. row[i].kind = "ref" => row[i].ref # None
  BY RefsAre DEF StructureInv, None
<1>4. \A x \in Named(row, {i}, all) : x = i \/ (all /\ x = row[i].ref /\ row[i].kind = "ref")
  BY <1>1 DEF Named
<1>5. i = m \/ i \in RefsTo({m})
  BY DEF RefsTo
<1> SUFFICES ASSUME NEW x \in DOMAIN row, x \in Due({i}, all)
             PROVE  x \in {m} \/ x \in RefsTo({m})
  OBVIOUS
<1>6. CASE x \in Named(row, {i}, all)
  BY <1>3, <1>4, <1>5, <1>6
<1>7. CASE /\ row[x].ref \in Named(row, {i}, all)
           /\ row[x].ref \in DOMAIN row /\ row[row[x].ref].kind = "file"
  <2>1. CASE row[x].ref = i
    <3>1. m = i
      BY <1>2, <1>7, <2>1
    <3> QED BY <2>1, <3>1 DEF RefsTo
  <2>2. CASE all /\ row[x].ref = row[i].ref /\ row[i].kind = "ref"
    BY <1>3, <2>2 DEF RefsTo
  <2> QED BY <1>4, <1>7, <2>1, <2>2
<1>8. x \in Named(row, {i}, all)
      \/ (row[x].ref \in Named(row, {i}, all) /\ row[x].ref \in DOMAIN row /\ row[row[x].ref].kind = "file")
  BY DueMembers DEF Due
<1> QED BY <1>6, <1>7, <1>8

(* What is due with some children of a directory.                          *)
LEMMA DueOfList ==
  ASSUME StructureInv, cut = {}, rm.del = {}, rm.conts = {}, rm.items = {},
         NEW S \in SUBSET DOMAIN row, NEW items, NEW conts,
         items = {i \in S : ~Container(i)}, conts = {i \in S : Container(i)}
  PROVE  \A x \in Due(S, FALSE) \intersect DOMAIN row :
           x \in items \/ x \in RefsTo(items) \/ x \in Due(conts, FALSE)
<1>1. BelowIn(row, items) = items
  BY BelowSingles
<1>2. IsFiniteSet(DOMAIN row)
  BY IntParents DEF StructureInv
<1>3. BelowIn(row, items \union conts) \subseteq BelowIn(row, items) \union BelowIn(row, conts)
  BY <1>2, BelowBoth
<1>4. items \union conts = S
  OBVIOUS
<1>5. BelowIn(row, S) \subseteq items \union BelowIn(row, conts)
  BY <1>1, <1>3, <1>4
<1>6. Named(row, S, FALSE) = BelowIn(row, S) /\ Named(row, conts, FALSE) = BelowIn(row, conts)
  BY DEF Named
<1> SUFFICES ASSUME NEW x \in DOMAIN row, x \in Due(S, FALSE)
             PROVE  x \in items \/ x \in RefsTo(items) \/ x \in Due(conts, FALSE)
  OBVIOUS
<1>7. x \in Named(row, S, FALSE)
      \/ (row[x].ref \in Named(row, S, FALSE) /\ row[x].ref \in DOMAIN row /\ row[row[x].ref].kind = "file")
  BY DueMembers DEF Due
<1>8. \/ x \in items \/ row[x].ref \in items
      \/ x \in Named(row, conts, FALSE)
      \/ (row[x].ref \in Named(row, conts, FALSE) /\ row[x].ref \in DOMAIN row /\ row[row[x].ref].kind = "file")
  BY <1>5, <1>6, <1>7
<1>9. row[x].ref \in items => x \in RefsTo(items)
  BY DEF RefsTo
<1> QED BY <1>8, <1>9, DueMembers DEF Due

LEMMA RemoveLeft ==
  ASSUME Alone, StructureInv, LeftInv, removeObject \/ removeObjects
  PROVE  LeftInv'
<1>0. DOMAIN row \subseteq Nat /\ cut = {}
  BY DEF StructureInv, RowsInv, LeftInv
<1>1. CASE removeObject
  <2>1. PICK i \in DOMAIN row \ Roots, all \in BOOLEAN :
          IF Container(i) THEN BeginRemoval({i}, all, {}, {i})
          ELSE BeginRemoval({i}, all, {IF all /\ row[i].ref # None THEN row[i].ref ELSE i}, {})
    BY <1>1 DEF removeObject
  <2>2. MayBegin("task")
    BY <2>1 DEF BeginRemoval
  <2>3. rm.del = {} /\ rm.items = {} /\ rm.conts = {}
    BY <2>2, IdleRemovesNothing DEF MayBegin
  <2>4. CASE Container(i)
    <3>1. BeginRemoval({i}, all, {}, {i})
      BY <2>1, <2>4
    <3>2. \A x \in Due({i}, all) \intersect DOMAIN row :
            x \in {} \/ x \in RefsTo({}) \/ x \in Due({i}, all)
      OBVIOUS
    <3>3. \A j \in {i} : Container(j)
      BY <2>4
    <3>4. all => \A j \in {} \intersect DOMAIN row : row[j].kind = "file"
      OBVIOUS
    <3> QED BY <3>1, <3>2, <3>3, <3>4, BeginRemovalLeft
  <2>5. CASE ~Container(i)
    <3>1. PICK m : m = IF all /\ row[i].ref # None THEN row[i].ref ELSE i
      OBVIOUS
    <3>2. BeginRemoval({i}, all, {m}, {})
      BY <2>1, <2>5, <3>1
    <3>3. \A x \in Due({i}, all) \intersect DOMAIN row : x \in {m} \/ x \in RefsTo({m})
      BY <1>0, <2>3, <2>5, <3>1, DueOfOne
    <3>4. ASSUME all = TRUE, m \in DOMAIN row PROVE row[m].kind = "file"
      <4>1. CASE row[i].ref # None
        <5>1. row[i].kind = "ref" /\ m = row[i].ref
          BY <2>5, <3>1, <3>4, <4>1, RefsAre DEF StructureInv
        <5> QED BY <3>4, <5>1 DEF StructureInv, RefInv
      <4>2. CASE row[i].ref = None
        <5>1. row[i].kind # "ref"
          BY <4>2, RefsAre DEF StructureInv, None
        <5>2. IsRow(row[i])
          BY DEF StructureInv, RowsInv
        <5> QED BY <2>5, <3>1, <4>2, <5>1, <5>2 DEF IsRow, Rows, Container
      <4> QED BY <4>1, <4>2
    <3>5. all => \A j \in {m} \intersect DOMAIN row : row[j].kind = "file"
      BY <3>4
    <3>6. PICK items, conts : items = {m} /\ conts = {}
      OBVIOUS
    <3>7. /\ \A x \in Due({i}, all) \intersect DOMAIN row :
               x \in items \/ x \in RefsTo(items) \/ x \in Due(conts, all)
          /\ all => \A j \in items \intersect DOMAIN row : row[j].kind = "file"
          /\ all => items = {} \/ conts = {}
          /\ \A j \in conts : Container(j)
      BY <3>3, <3>5, <3>6
    <3>8. BeginRemoval({i}, all, items, conts)
      BY <3>2, <3>6
    <3> QED BY <3>7, <3>8, BeginRemovalLeft
  <2> QED BY <2>4, <2>5
<1>2. CASE removeObjects
  <2>1. PICK c \in DOMAIN row : \E S \in SUBSET (Children({c}) \ Roots) :
          BeginRemoval(S, FALSE, {i \in S : ~Container(i)}, {i \in S : Container(i)})
    BY <1>2 DEF removeObjects
  <2>2. PICK S \in SUBSET (Children({c}) \ Roots) :
          BeginRemoval(S, FALSE, {i \in S : ~Container(i)}, {i \in S : Container(i)})
    BY <2>1
  <2>3. S \in SUBSET DOMAIN row
    BY DEF Children
  <2>4. PICK items, conts : items = {i \in S : ~Container(i)} /\ conts = {i \in S : Container(i)}
    OBVIOUS
  <2>5. BeginRemoval(S, FALSE, items, conts)
    BY <2>2, <2>4
  <2>6. rm.del = {} /\ rm.items = {} /\ rm.conts = {}
    BY <2>5, IdleRemovesNothing DEF MayBegin, BeginRemoval
  <2>7. \A x \in Due(S, FALSE) \intersect DOMAIN row :
          x \in items \/ x \in RefsTo(items) \/ x \in Due(conts, FALSE)
    BY <1>0, <2>3, <2>4, <2>6, DueOfList
  <2>8. \A i \in conts : Container(i)
    BY <2>4
  <2> QED BY <2>5, <2>7, <2>8, BeginRemovalLeft
<1> QED BY <1>1, <1>2

(* Selecting parents and references moves rows from one list to another.   *)
LEMMA SelectLeft ==
  ASSUME Alone, StructureInv, LeftInv, SelectParents \/ SelectReferences
  PROVE  LeftInv'
<1>0. /\ cut = {} /\ NoLinks /\ DueLeft /\ ContsLeft /\ AllLeft
      /\ \A i \in rm.items \intersect DOMAIN row : ~Container(i)
      /\ rm.parents \subseteq rm.items
  BY LeftParts DEF StructureInv, RmInv
<1>1. ASSUME row' = row, rm'.due = rm.due, rm'.mixed = rm.mixed, rm'.conts = rm.conts,
             rm'.all = rm.all, Taken' = Taken, Collecting, Collecting'
      PROVE  DueLeft'
  <2>1. (Due(rm.conts, rm.all))' = Due(rm.conts, rm.all)
    BY <1>1 DEF Due
  <2> QED BY <1>0, <1>1, <2>1 DEF DueLeft
<1>2. CASE SelectParents
  <2>1. PICK up : up = Parents(rm.parents)
    OBVIOUS
  <2>2. /\ rm.phase = "parents" /\ row' = row /\ cut' = cut
        /\ rm' = [rm EXCEPT !.phase = "items", !.parents = {}, !.del = @ \union rm.parents,
                            !.upnp = @ \union up]
    BY <1>2, <2>1 DEF SelectParents
  <2>3. /\ rm'.del = rm.del \union rm.parents /\ rm'.items = rm.items /\ rm'.conts = rm.conts
        /\ rm'.parents = {} /\ rm'.mixed = rm.mixed /\ rm'.due = rm.due /\ rm'.all = rm.all
        /\ rm'.phase = "items"
    BY <2>2 DEF StructureInv, RmInv, RmType
  <2>4. Taken' = Taken
    BY <2>2, <2>3 DEF Taken, RefsTo
  <2>5. DueLeft'
    BY <1>1, <2>2, <2>3, <2>4 DEF Collecting
  <2>6. ContsLeft'
    <3> SUFFICES ASSUME NEW i \in DOMAIN row, i \in rm.del \union rm.parents, Container(i)
                 PROVE  i \in rm.conts \/ Children({i}) \subseteq Taken
      BY <2>2, <2>3, <2>4 DEF ContsLeft, Children, Container
    <3> QED BY <1>0 DEF ContsLeft
  <2>7. AllLeft'
    <3> SUFFICES ASSUME rm.all = TRUE
                 PROVE  /\ rm.items \intersect DOMAIN row \subseteq rm.del \union rm.parents
                        /\ \A i \in (rm.del \union rm.parents) \intersect DOMAIN row :
                             row[i].kind = "ref" /\ row[i].ref \in DOMAIN row
                               => row[i].ref \in rm.del \union rm.parents
      BY <2>2, <2>3 DEF AllLeft
    <3> QED BY <1>0 DEF AllLeft
  <2>8. cut' = {} /\ NoLinks'
    BY <1>0, <2>2 DEF NoLinks
  <2> QED BY <2>5, <2>6, <2>7, <2>8 DEF LeftInv, NoLinks, DueLeft, ContsLeft, AllLeft
<1>3. CASE SelectReferences
  <2>1. PICK up, refs : refs = RefsTo(rm.items) /\ up = Parents(RefsTo(rm.items))
    OBVIOUS
  <2>2. /\ rm.phase = "items" /\ row' = row /\ cut' = cut \union {i \in refs : Container(i)}
        /\ rm' = [rm EXCEPT !.phase = "conts", !.items = {}, !.del = @ \union refs,
                            !.upnp = @ \union up]
    BY <1>3, <2>1 DEF SelectReferences
  <2>3. /\ rm'.del = rm.del \union refs /\ rm'.items = {} /\ rm'.conts = rm.conts
        /\ rm'.parents = {} /\ rm.parents = {} /\ rm'.mixed = rm.mixed /\ rm'.due = rm.due
        /\ rm'.all = rm.all /\ rm'.phase = "conts"
    BY <2>2 DEF StructureInv, RmInv, RmType
  <2>4. Taken' = Taken
    BY <2>1, <2>2, <2>3 DEF Taken, RefsTo
  <2>5. DueLeft'
    BY <1>1, <2>2, <2>3, <2>4 DEF Collecting
  <2>6. \A i \in refs : i \in DOMAIN row /\ row[i].ref \in rm.items /\ ~Container(i)
    BY <1>0, <2>1, OnlyRefsRefer, RmFields DEF RefsTo, StructureInv
  <2>7. ContsLeft'
    <3> SUFFICES ASSUME NEW i \in DOMAIN row, i \in rm.del \union refs, Container(i)
                 PROVE  i \in rm.conts \/ Children({i}) \subseteq Taken
      BY <2>2, <2>3, <2>4 DEF ContsLeft, Children, Container
    <3> QED BY <1>0, <2>6 DEF ContsLeft
  <2>8. AllLeft'
    <3> SUFFICES ASSUME rm.all = TRUE, NEW i \in DOMAIN row, i \in rm.del \union refs,
                        row[i].kind = "ref", row[i].ref \in DOMAIN row
                 PROVE  row[i].ref \in rm.del \union refs
      BY <2>2, <2>3 DEF AllLeft
    <3> QED BY <1>0, <2>3, <2>6 DEF AllLeft
  <2>9. cut' = {} /\ NoLinks'
    BY <1>0, <2>2, <2>6 DEF NoLinks
  <2> QED BY <2>5, <2>7, <2>8, <2>9 DEF LeftInv, NoLinks, DueLeft, ContsLeft, AllLeft
<1> QED BY <1>2, <1>3

(* What is below the containers on the list is below those that are        *)
(* selected next, or is selected now.                                      *)
LEMMA BelowNext ==
  ASSUME StructureInv, SelectChildren
  PROVE  BelowIn(row, rm.conts) \subseteq
           rm.conts \union BelowIn(row, FoundConts) \union FoundPlain \union FoundRefs
<1>1. PICK T : T = rm.conts \union BelowIn(row, FoundConts) \union FoundPlain \union FoundRefs
  OBVIOUS
<1>2. IsFiniteSet(DOMAIN row)
  BY IntParents DEF StructureInv
<1>3. /\ FoundConts \subseteq BelowIn(row, FoundConts)
      /\ \A i \in DOMAIN row : row[i].parent \in BelowIn(row, FoundConts) => i \in BelowIn(row, FoundConts)
  BY <1>2, BelowFacts
<1>4. ASSUME NEW i \in DOMAIN row, row[i].parent \in T PROVE i \in T
  <2>1. CASE row[i].parent \in rm.conts
    <3>1. i \in Found
      BY <2>1 DEF Found, Children
    <3> QED BY <1>1, <1>3, <3>1 DEF FoundPlain
  <2>2. CASE row[i].parent \in BelowIn(row, FoundConts)
    BY <1>1, <1>3, <2>2
  <2>3. CASE row[i].parent \in FoundPlain \union FoundRefs
    <3>1. row[i].parent \in DOMAIN row \ Roots /\ ~Container(row[i].parent)
      BY <2>3, SelectsChildren DEF FoundPlain, FoundRefs, FoundConts
    <3>2. i \notin Roots
      <4>1. row[CDS_ID_ROOT].parent = None /\ row[CDS_ID_FS_ROOT].parent = CDS_ID_ROOT
        BY DEF StructureInv, RowsInv, RootRow, NewRow
      <4>2. None \notin DOMAIN row
        BY DEF StructureInv, RowsInv, None
      <4> QED BY <3>1, <4>1, <4>2 DEF Roots
    <3>3. row[row[i].parent].kind \in {"dir", "virt"}
      BY <3>1, <3>2 DEF StructureInv, TreeInv
    <3> QED BY <3>1, <3>3 DEF Container
  <2> QED BY <1>1, <1>4, <2>1, <2>2, <2>3
<1>5. rm.conts \subseteq T
  BY <1>1
<1>6. BelowIn(row, rm.conts) \subseteq T
  BY <1>2, <1>4, <1>5, BelowFacts
<1> QED BY <1>1, <1>6

LEMMA SelectChildrenLeft ==
  ASSUME Alone, StructureInv, LeftInv, SelectChildren
  PROVE  LeftInv'
<1>0. /\ cut = {} /\ NoLinks /\ DueLeft /\ ContsLeft /\ AllLeft
      /\ \A i \in rm.conts \intersect DOMAIN row : Container(i) /\ i \in rm.del
  BY LeftParts DEF StructureInv, RmInv
<1>1. PICK conts, main, plain, refs :
        conts = FoundConts /\ main = FoundMain /\ plain = FoundPlain /\ refs = FoundRefs
  OBVIOUS
<1>2. /\ rm.phase = "conts" /\ row' = row /\ cut' = cut
      /\ rm' = [rm EXCEPT !.phase = "flush", !.conts = conts, !.del = @ \union conts \union plain,
                          !.parents = @ \union main, !.items = @ \union main \union plain]
      /\ rm.parents = {} /\ rm.items = {}
  BY <1>1, SelectsChildren
<1>3. /\ rm'.del = rm.del \union conts \union plain /\ rm'.items = main \union plain
      /\ rm'.conts = conts /\ rm'.parents = main /\ rm'.phase = "flush"
      /\ rm'.mixed = rm.mixed /\ rm'.due = rm.due /\ rm'.all = rm.all /\ rm.all \in BOOLEAN
  BY <1>2 DEF StructureInv, RmInv, RmType
<1>4. Taken' = rm.del \union conts \union plain \union main \union RefsTo(main \union plain)
  BY <1>2, <1>3 DEF Taken, RefsTo
<1>5. Taken = rm.del
  <2>1. RefsTo({}) = {}
    BY DEF RefsTo
  <2> QED BY <1>2, <2>1 DEF Taken
<1>6. /\ conts \subseteq DOMAIN row /\ plain \subseteq DOMAIN row /\ refs \subseteq DOMAIN row
      /\ \A i \in conts : Container(i)
      /\ \A i \in plain \union refs : ~Container(i)
      /\ \A i \in main \intersect DOMAIN row : row[i].kind = "file"
      /\ \A i \in refs : row[i].kind = "ref" /\ row[i].ref \in main /\ i \in RefsTo(main \union plain)
  BY <1>1, SelectsChildren DEF FoundConts, FoundPlain, FoundRefs, FoundMain, RefsTo
<1>7. rm.all => \A i \in plain : row[i].kind # "ref"
  <2> SUFFICES ASSUME rm.all, NEW i \in plain, row[i].kind = "ref" PROVE FALSE
    OBVIOUS
  <2>1. row[i].ref # None
    BY <1>6, RefsAre DEF StructureInv, None
  <2> QED BY <1>1, <2>1 DEF FoundPlain, FoundRefs, FoundConts
<1>8. BelowIn(row, rm.conts) \subseteq rm.conts \union BelowIn(row, conts) \union plain \union refs
  BY <1>1, BelowNext
<1>9. rm.all => \A i \in BelowIn(row, rm.conts) \intersect DOMAIN row :
        row[i].kind = "ref" => i \in BelowIn(row, conts) \/ i \in refs
  BY <1>0, <1>7, <1>8 DEF Container
<1>10. ASSUME NEW x \in DOMAIN row, x \in Due(rm.conts, rm.all)
       PROVE  x \in Taken' \union Due(conts, rm.all)
  <2>1. ASSUME NEW y \in DOMAIN row, y \in Named(row, rm.conts, rm.all)
        PROVE  y \in Named(row, conts, rm.all) \/ y \in rm.del \/ y \in plain \/ y \in refs \/ y \in main
    <3>1. CASE y \in BelowIn(row, rm.conts)
      BY <1>0, <1>8, <2>1, <3>1 DEF Named
    <3>2. CASE \E i \in BelowIn(row, rm.conts) :
                 rm.all /\ i \in DOMAIN row /\ row[i].kind = "ref" /\ y = row[i].ref
      <4>1. PICK i \in BelowIn(row, rm.conts) :
                 rm.all /\ i \in DOMAIN row /\ row[i].kind = "ref" /\ y = row[i].ref
        BY <3>2
      <4>2. i \in BelowIn(row, conts) \/ i \in refs
        BY <1>9, <4>1
      <4> QED BY <1>6, <4>1, <4>2 DEF Named
    <3> QED BY <2>1, <3>1, <3>2 DEF Named
  <2>2. CASE x \in Named(row, rm.conts, rm.all)
    BY <1>3, <1>4, <1>6, <2>1, <2>2, DueMembers DEF Due
  <2>3. CASE /\ row[x].ref \in Named(row, rm.conts, rm.all)
             /\ row[x].ref \in DOMAIN row /\ row[row[x].ref].kind = "file"
    <3>1. row[x].ref \in BelowIn(row, rm.conts) => row[x].ref \notin rm.conts /\ row[x].ref \notin refs
      BY <1>0, <1>6, <2>3 DEF Container
    <3>2. row[x].ref \in Named(row, conts, rm.all) \/ row[x].ref \in plain \/ row[x].ref \in main
      <4>1. CASE row[x].ref \in BelowIn(row, rm.conts)
        BY <1>8, <3>1, <4>1 DEF Named
      <4>2. CASE \E i \in BelowIn(row, rm.conts) :
                   rm.all /\ i \in DOMAIN row /\ row[i].kind = "ref" /\ row[x].ref = row[i].ref
        <5>1. PICK i \in BelowIn(row, rm.conts) :
                   rm.all /\ i \in DOMAIN row /\ row[i].kind = "ref" /\ row[x].ref = row[i].ref
          BY <4>2
        <5>2. i \in BelowIn(row, conts) \/ i \in refs
          BY <1>9, <5>1
        <5> QED BY <1>6, <5>1, <5>2 DEF Named
      <4> QED BY <2>3, <4>1, <4>2 DEF Named
    <3>3. row[x].ref \in main \union plain => x \in Taken'
      BY <1>4 DEF RefsTo
    <3>4. row[x].ref \in Named(row, conts, rm.all) => x \in Due(conts, rm.all)
      BY <1>3, <2>3, DueMembers DEF Due
    <3> QED BY <3>2, <3>3, <3>4
  <2> QED BY <1>3, <1>10, <2>2, <2>3, DueMembers DEF Due
<1>11. DueLeft'
  <2>1. (rm.due \ rm.mixed) \intersect DOMAIN row \subseteq Taken \union Due(rm.conts, rm.all)
    BY <1>0, <1>2 DEF DueLeft, Collecting
  <2>2. (rm.due \ rm.mixed) \intersect DOMAIN row \subseteq Taken' \union Due(conts, rm.all)
    BY <1>4, <1>5, <1>10, <2>1
  <2>3. Due(conts, rm.all)' = DueIn(row, conts, rm.all) /\ Collecting'
    BY <1>2, <1>3 DEF Due, Collecting
  <2>4. Due(rm.conts, rm.all)' = Due(conts, rm.all)
    BY <1>2, <1>3 DEF Due
  <2> QED BY <1>2, <1>3, <2>2, <2>3, <2>4 DEF DueLeft
<1>12. ContsLeft'
  <2> SUFFICES ASSUME NEW i \in DOMAIN row, i \in rm'.del, Container(i), i \notin conts
               PROVE  Children({i}) \subseteq Taken'
    BY <1>2, <1>3 DEF ContsLeft, Children, Container
  <2>1. i \in rm.del
    BY <1>3, <1>6
  <2>2. CASE i \in rm.conts
    <3>1. Children({i}) \subseteq Found
      BY <2>2 DEF Found, Children
    <3>2. Found \subseteq conts \union plain \union refs
      BY <1>1 DEF FoundPlain
    <3> QED BY <1>4, <1>6, <3>1, <3>2
  <2>3. CASE i \notin rm.conts
    BY <1>0, <1>4, <1>5, <2>1, <2>3 DEF ContsLeft
  <2> QED BY <2>2, <2>3
<1>13. AllLeft'
  <2> SUFFICES ASSUME rm.all = TRUE
               PROVE  /\ (main \union plain) \intersect DOMAIN row \subseteq rm'.del \union main
                      /\ \A i \in rm'.del \intersect DOMAIN row :
                           row[i].kind = "ref" /\ row[i].ref \in DOMAIN row
                             => row[i].ref \in rm'.del \union main
    BY <1>2, <1>3, <1>6 DEF AllLeft
  <2>1. \A i \in conts : row[i].kind # "ref"
    BY <1>6 DEF Container
  <2> QED BY <1>0, <1>2, <1>3, <1>7, <2>1 DEF AllLeft
<1>14. cut' = {} /\ NoLinks'
  BY <1>0, <1>2 DEF NoLinks
<1> QED BY <1>11, <1>12, <1>13, <1>14 DEF LeftInv, NoLinks, DueLeft, ContsLeft, AllLeft

(* A delete leaves what is below the containers on the list below them, or *)
(* takes it now.                                                           *)
LEMMA BelowAfterDelete ==
  ASSUME StructureInv, LeftInv, DeleteRows(rm.del)
  PROVE  BelowIn(row, rm.conts) \subseteq BelowIn(row', rm.conts) \union Taken
<1>0. /\ cut = {} /\ NoLinks /\ ContsLeft /\ rm.parents \subseteq rm.items
      /\ \A i \in rm.items \intersect DOMAIN row : ~Container(i)
      /\ rm.conts \subseteq Nat \ Roots
  BY LeftParts, RmFields DEF StructureInv, RmInv
<1>1. DOMAIN row' = DOMAIN row \ rm.del /\ \A i \in DOMAIN row' : row'[i] = row[i]
  BY DEF DeleteRows
<1>2. IsFiniteSet(DOMAIN row) /\ IsFiniteSet(DOMAIN row')
  BY <1>1, IntParents, FS_Subset DEF StructureInv
<1>3. PICK B : B = BelowIn(row', rm.conts)
  OBVIOUS
<1>4. rm.conts \subseteq B /\ \A i \in DOMAIN row' : row'[i].parent \in B => i \in B
  BY <1>2, <1>3, BelowFacts
<1>5. /\ row[CDS_ID_ROOT].parent = None /\ row[CDS_ID_FS_ROOT].parent = CDS_ID_ROOT
      /\ Roots \subseteq DOMAIN row /\ DOMAIN row \subseteq Nat /\ None \notin Nat
  BY DEF StructureInv, RowsInv, RootRow, NewRow, None
<1>6. B \subseteq Nat \ Roots
  <2>1. PICK C : C = Nat \ Roots
    OBVIOUS
  <2>2. \A i \in DOMAIN row' : row'[i].parent \in C => i \in C
    BY <1>1, <1>5, <2>1 DEF Roots
  <2>3. rm.conts \subseteq C
    BY <1>0, <2>1
  <2>4. BelowIn(row', rm.conts) \subseteq C
    BY <1>2, <2>2, <2>3, BelowFacts
  <2> QED BY <1>3, <2>1, <2>4
<1>7. PICK T : T = B \union Taken
  OBVIOUS
<1>8. ASSUME NEW i \in DOMAIN row, row[i].parent \in T PROVE i \in T
  <2>1. Taken \subseteq Nat \ Roots
    <3>1. RefsTo(rm.items) \subseteq Nat \ Roots
      BY <1>5, RefsAre, RmFields DEF RefsTo, StructureInv
    <3> QED BY <3>1, RmFields DEF Taken, StructureInv
  <2>2. i \notin Roots
    BY <1>5, <1>6, <1>7, <1>8, <2>1 DEF Roots
  <2>3. CASE i \in rm.del
    BY <1>7, <2>3 DEF Taken
  <2>4. CASE i \notin rm.del /\ row[i].parent \in B
    BY <1>1, <1>4, <1>7, <2>4
  <2>5. CASE i \notin rm.del /\ row[i].parent \in Taken /\ row[i].parent \in DOMAIN row
    <3>1. Container(row[i].parent)
      BY <2>2, <2>5 DEF StructureInv, TreeInv, Container
    <3>2. row[i].parent \notin RefsTo(rm.items)
      BY <1>0, <3>1, OnlyRefsRefer, RmFields DEF RefsTo, StructureInv
    <3>3. row[i].parent \in rm.del
      BY <1>0, <2>5, <3>1, <3>2 DEF Taken
    <3>4. row[i].parent \in rm.conts \/ Children({row[i].parent}) \subseteq Taken
      BY <1>0, <2>5, <3>1, <3>3 DEF ContsLeft
    <3>5. i \in Children({row[i].parent})
      BY DEF Children
    <3>6. row[i].parent \in rm.conts => i \in B
      BY <1>1, <1>4, <2>5
    <3> QED BY <1>7, <3>4, <3>5, <3>6
  <2>6. CASE i \notin rm.del /\ row[i].parent \in Taken /\ row[i].parent \notin DOMAIN row
    <3>1. row[i].parent \in rm.conts \/ (row[i].kind = "ref" /\ row[i].ref \in rm.items)
      BY <1>0, <2>2, <2>6 DEF StructureInv, TreeInv
    <3>2. row[i].parent \in rm.conts => i \in B
      BY <1>1, <1>4, <2>6
    <3>3. row[i].ref \in rm.items => i \in Taken
      BY DEF Taken, RefsTo
    <3> QED BY <1>7, <3>1, <3>2, <3>3
  <2> QED BY <1>7, <1>8, <2>3, <2>4, <2>5, <2>6
<1>9. rm.conts \subseteq T
  BY <1>4, <1>7
<1>10. BelowIn(row, rm.conts) \subseteq T
  BY <1>2, <1>8, <1>9, BelowFacts
<1> QED BY <1>3, <1>7, <1>10

(* What is due below the containers on the list stays so, or is taken.     *)
LEMMA DueAfterDelete ==
  ASSUME StructureInv, LeftInv, DeleteRows(rm.del), NEW x \in DOMAIN row', x \in Due(rm.conts, rm.all)
  PROVE  x \in rm.parents \/ x \in RefsTo(rm.items) \/ x \in DueIn(row', rm.conts, rm.all)
<1>0. NoLinks /\ AllLeft /\ rm.parents \subseteq rm.items /\ rm.all \in BOOLEAN
  BY LeftParts DEF StructureInv, RmInv, RmType
<1>1. DOMAIN row' = DOMAIN row \ rm.del /\ \A i \in DOMAIN row' : row'[i] = row[i]
  BY DEF DeleteRows
<1>2. BelowIn(row, rm.conts) \subseteq BelowIn(row', rm.conts) \union Taken
  BY BelowAfterDelete
<1>3. ASSUME NEW y \in DOMAIN row', y \in Named(row, rm.conts, rm.all)
      PROVE  y \in Named(row', rm.conts, rm.all) \/ y \in rm.parents \/ y \in RefsTo(rm.items)
  <2>1. CASE y \in BelowIn(row, rm.conts)
    BY <1>1, <1>2, <1>3, <2>1 DEF Named, Taken
  <2>2. CASE \E i \in BelowIn(row, rm.conts) :
               rm.all /\ i \in DOMAIN row /\ row[i].kind = "ref" /\ y = row[i].ref
    <3>1. PICK i \in BelowIn(row, rm.conts) :
               rm.all /\ i \in DOMAIN row /\ row[i].kind = "ref" /\ y = row[i].ref
      BY <2>2
    <3>2. CASE i \in rm.del
      BY <1>0, <1>1, <1>3, <3>1, <3>2 DEF AllLeft
    <3>3. CASE i \in rm.parents
      BY <1>0, <3>1, <3>3 DEF AllLeft
    <3>4. CASE i \in RefsTo(rm.items)
      <4>1. y \in rm.items \intersect DOMAIN row /\ y \notin rm.del
        BY <1>1, <3>1, <3>4 DEF RefsTo
      <4> QED BY <1>0, <3>1, <4>1 DEF AllLeft
    <3>5. CASE i \in BelowIn(row', rm.conts) /\ i \notin rm.del
      <4>1. i \in DOMAIN row' /\ row'[i] = row[i]
        BY <1>1, <3>1, <3>5
      <4> QED BY <3>1, <3>5, <4>1 DEF Named
    <3> QED BY <1>2, <3>1, <3>2, <3>3, <3>4, <3>5 DEF Taken
  <2> QED BY <1>3, <2>1, <2>2 DEF Named
<1>4. CASE x \in Named(row, rm.conts, rm.all)
  BY <1>0, <1>3, <1>4, DueMembers
<1>5. CASE /\ row[x].ref \in Named(row, rm.conts, rm.all)
           /\ row[x].ref \in DOMAIN row /\ row[row[x].ref].kind = "file"
  <2>1. x \in DOMAIN row /\ x \notin rm.del /\ row'[x] = row[x]
    BY <1>1
  <2>2. CASE row[x].ref \in rm.del
    <3>1. row[x].ref # None
      BY <2>2, RmFields DEF StructureInv
    <3>2. row[x].kind = "ref"
      BY <1>0, <2>1, <3>1, OnlyRefsRefer
    <3>3. row[x].ref \in rm.items
      BY <2>1, <2>2, <3>2 DEF StructureInv, RefInv
    <3> QED BY <2>1, <3>3 DEF RefsTo
  <2>3. CASE row[x].ref \notin rm.del
    <3>1. row[x].ref \in DOMAIN row' /\ row'[row[x].ref].kind = "file"
      BY <1>1, <1>5, <2>3
    <3>2. row[x].ref \notin RefsTo(rm.items)
      <4> SUFFICES ASSUME row[x].ref \in RefsTo(rm.items) PROVE FALSE
        OBVIOUS
      <4>1. row[row[x].ref].ref # None
        BY RmFields DEF RefsTo, StructureInv
      <4> QED BY <1>0, <1>5, <4>1, OnlyRefsRefer
    <3>3. row[x].ref \in rm.parents => x \in RefsTo(rm.items)
      BY <1>0, <2>1 DEF RefsTo
    <3>4. row[x].ref \in Named(row', rm.conts, rm.all) => x \in DueIn(row', rm.conts, rm.all)
      BY <1>0, <2>1, <3>1, DueMembers
    <3> QED BY <1>3, <1>5, <3>1, <3>2, <3>3, <3>4
  <2> QED BY <2>2, <2>3
<1> QED BY <1>0, <1>1, <1>4, <1>5, DueMembers DEF Due

LEMMA NextRoundLeft ==
  ASSUME Alone, StructureInv, LeftInv, NextRound
  PROVE  LeftInv'
<1>0. /\ cut = {} /\ NoLinks /\ DueLeft /\ ContsLeft /\ AllLeft
      /\ rm.phase = "flush" /\ cut' = cut
  BY LeftParts DEF NextRound, DeleteRows
<1>1. CASE rm' = [rm EXCEPT !.phase = "parents"] /\ row' = row
  <2>1. /\ rm'.del = rm.del /\ rm'.items = rm.items /\ rm'.conts = rm.conts /\ rm'.parents = rm.parents
        /\ rm'.mixed = rm.mixed /\ rm'.due = rm.due /\ rm'.all = rm.all /\ rm'.phase = "parents"
    BY <1>1 DEF StructureInv, RmInv, RmType
  <2>2. Taken' = Taken /\ Due(rm.conts, rm.all)' = Due(rm.conts, rm.all)
    BY <1>1, <2>1 DEF Taken, RefsTo, Due
  <2>3. DueLeft' /\ ContsLeft' /\ AllLeft' /\ NoLinks'
    BY <1>0, <1>1, <2>1, <2>2 DEF DueLeft, ContsLeft, AllLeft, NoLinks, Collecting, Container, Children
  <2> QED BY <1>0, <2>3 DEF LeftInv, NoLinks, DueLeft, ContsLeft, AllLeft
<1>2. CASE rm' = [rm EXCEPT !.phase = "parents", !.del = {}] /\ DeleteRows(rm.del)
  <2>1. /\ rm'.del = {} /\ rm'.items = rm.items /\ rm'.conts = rm.conts /\ rm'.parents = rm.parents
        /\ rm'.mixed = rm.mixed /\ rm'.due = rm.due /\ rm'.all = rm.all /\ rm'.phase = "parents"
    BY <1>2 DEF StructureInv, RmInv, RmType
  <2>2. DOMAIN row' = DOMAIN row \ rm.del /\ \A i \in DOMAIN row' : row'[i] = row[i]
    BY <1>2 DEF DeleteRows
  <2>3. \A x \in DOMAIN row' : x \in rm.parents \/ x \in RefsTo(rm.items) => x \in Taken'
    BY <2>1, <2>2 DEF Taken, RefsTo
  <2>4. Due(rm.conts, rm.all)' = DueIn(row', rm.conts, rm.all)
    BY <2>1 DEF Due
  <2>5. DueLeft'
    <3> SUFFICES ASSUME NEW x \in DOMAIN row', x \in rm.due, x \notin rm.mixed
                 PROVE  x \in Taken' \union DueIn(row', rm.conts, rm.all)
      BY <2>1, <2>4 DEF DueLeft, Collecting
    <3>1. x \in Taken \union Due(rm.conts, rm.all)
      BY <1>0, <2>2 DEF DueLeft, Collecting
    <3>2. CASE x \in Taken
      BY <2>2, <2>3, <3>2 DEF Taken
    <3>3. CASE x \in Due(rm.conts, rm.all)
      BY <1>2, <2>3, <3>3, DueAfterDelete
    <3> QED BY <3>1, <3>2, <3>3
  <2>6. ContsLeft'
    BY <2>1 DEF ContsLeft
  <2>7. AllLeft'
    BY <1>0, <2>1, <2>2 DEF AllLeft
  <2>8. NoLinks'
    BY <1>0, <2>2 DEF NoLinks
  <2> QED BY <1>0, <2>5, <2>6, <2>7, <2>8 DEF LeftInv, NoLinks, DueLeft, ContsLeft, AllLeft
<1> QED BY <1>1, <1>2 DEF NextRound

(* When the lists are empty nothing that is due is left.                   *)
LEMMA DeleteRestLeft ==
  ASSUME Alone, StructureInv, LeftInv, DeleteRest
  PROVE  LeftInv'
<1>0. /\ cut = {} /\ NoLinks /\ DueLeft
      /\ rm.phase = "flush" /\ cut' = cut /\ DeleteRows(rm.del)
      /\ rm.items = {} /\ rm.parents = {} /\ rm.conts = {}
      /\ rm' = [rm EXCEPT !.phase = "upnp", !.del = {}]
  BY LeftParts DEF DeleteRest, DeleteRows, More
<1>1. /\ rm'.del = {} /\ rm'.items = {} /\ rm'.conts = {} /\ rm'.parents = {}
      /\ rm'.mixed = rm.mixed /\ rm'.due = rm.due /\ rm'.phase = "upnp"
  BY <1>0 DEF StructureInv, RmInv, RmType
<1>2. DOMAIN row' = DOMAIN row \ rm.del /\ \A i \in DOMAIN row' : row'[i] = row[i]
  BY <1>0 DEF DeleteRows
<1>3. Due({}, rm.all) = {}
  <2>1. BelowIn(row, {}) = {}
    BY BelowNothing DEF StructureInv
  <2>2. Named(row, {}, rm.all) = {}
    BY <2>1 DEF Named
  <2>3. rm.all \in BOOLEAN
    BY DEF StructureInv, RmInv, RmType
  <2>4. \A x : x \notin DueIn(row, {}, rm.all)
    BY <2>2, <2>3, DueMembers
  <2> QED BY <2>4 DEF Due
<1>4. Taken = rm.del
  BY <1>0 DEF Taken, RefsTo
<1>5. (rm.due \ rm.mixed) \intersect DOMAIN row \subseteq rm.del
  BY <1>0, <1>3, <1>4 DEF DueLeft, Collecting
<1>6. DueLeft'
  BY <1>1, <1>2, <1>5 DEF DueLeft, Collecting
<1>7. ContsLeft' /\ AllLeft' /\ NoLinks'
  BY <1>0, <1>1, <1>2 DEF ContsLeft, AllLeft, NoLinks
<1> QED BY <1>0, <1>6, <1>7 DEF LeftInv, NoLinks, DueLeft, ContsLeft, AllLeft

(* Afterwards only containers without children go.                         *)
LEMMA PurgeLeft ==
  ASSUME Alone, StructureInv, LeftInv, PurgeUpnp \/ PurgeUI \/ PurgeDelete \/ RemovalReturns
  PROVE  LeftInv'
<1>0. cut = {} /\ NoLinks /\ DueLeft
  BY LeftParts
<1>1. rm.phase \in {"upnp", "ui", "purge"} /\ cut' = cut
  BY DEF PurgeUpnp, PurgeUI, PurgeDelete, RemovalReturns, DeleteRows
<1>2. /\ rm.items = {} /\ rm.parents = {} /\ rm.conts = {}
      /\ \A i \in rm.del : Container(i) /\ Children({i}) = {}
      /\ (rm.due \ rm.mixed) \intersect DOMAIN row = {}
  BY <1>0, <1>1 DEF StructureInv, RmInv, Collecting, Purging, DueLeft
<1>3. ASSUME rm'.items = {}, rm'.parents = {}, rm'.due = rm.due, rm'.mixed = rm.mixed, ~Collecting',
             \/ rm'.del = {}
             \/ row' = row /\ \A i \in rm'.del : Container(i) /\ Children({i}) = {},
             DOMAIN row' \subseteq DOMAIN row, \A i \in DOMAIN row' : row'[i] = row[i]
      PROVE  LeftInv'
  <2>1. DueLeft'
    BY <1>2, <1>3 DEF DueLeft
  <2>2. ContsLeft'
    BY <1>3 DEF ContsLeft, Children
  <2>3. AllLeft'
    BY <1>3 DEF AllLeft, Container
  <2>4. NoLinks'
    BY <1>0, <1>3 DEF NoLinks
  <2> QED BY <1>0, <1>1, <2>1, <2>2, <2>3, <2>4 DEF LeftInv, NoLinks, DueLeft, ContsLeft, AllLeft
<1>4. CASE PurgeUpnp
  <2>1. PICK ku, cu, pu, more :
          rm' = [rm EXCEPT !.phase = "ui", !.ret.upnp = @ \union ku,
                    !.del = more, !.ui = @ \union pu, !.upnp = cu] /\ more = Empty(rm.upnp)
    BY <1>4 DEF PurgeUpnp
  <2>2. /\ rm'.mixed = rm.mixed /\ rm'.due = rm.due /\ rm'.del = more
        /\ rm'.items = {} /\ rm'.parents = {} /\ rm'.phase = "ui"
    BY <1>2, <2>1 DEF StructureInv, RmInv, RmType
  <2>3. row' = row /\ ~Collecting' /\ \A i \in more : Container(i) /\ Children({i}) = {}
    BY <1>4, <2>1, <2>2, EmptyAre DEF StructureInv, PurgeUpnp, Collecting
  <2> QED BY <1>3, <2>2, <2>3
<1>5. CASE PurgeUI
  <2>1. PICK ku, cu, more :
          rm' = [rm EXCEPT !.phase = "purge", !.ret.upnp = @ \union ku, !.ret.ui = @ \union ku,
                    !.del = @ \union more, !.ui = cu] /\ more = Empty(rm.ui)
    BY <1>5 DEF PurgeUI
  <2>2. /\ rm'.mixed = rm.mixed /\ rm'.due = rm.due /\ rm'.del = rm.del \union more
        /\ rm'.items = {} /\ rm'.parents = {} /\ rm'.phase = "purge"
    BY <1>2, <2>1 DEF StructureInv, RmInv, RmType
  <2>3. row' = row /\ ~Collecting' /\ \A i \in more : Container(i) /\ Children({i}) = {}
    BY <1>5, <2>1, <2>2, EmptyAre DEF StructureInv, PurgeUI, Collecting
  <2> QED BY <1>2, <1>3, <2>2, <2>3
<1>6. CASE PurgeDelete
  <2>1. PICK phase \in {"upnp", "purge"} : rm' = [rm EXCEPT !.phase = phase, !.del = {}]
    BY <1>6 DEF PurgeDelete
  <2>2. /\ rm'.mixed = rm.mixed /\ rm'.due = rm.due /\ rm'.del = {}
        /\ rm'.items = {} /\ rm'.parents = {} /\ rm'.phase = phase
    BY <1>2, <2>1 DEF StructureInv, RmInv, RmType
  <2>3. DOMAIN row' \subseteq DOMAIN row /\ \A i \in DOMAIN row' : row'[i] = row[i]
    BY <1>6 DEF PurgeDelete, DeleteRows
  <2> QED BY <1>3, <2>2, <2>3 DEF Collecting
<1>7. CASE RemovalReturns
  <2>1. /\ rm'.mixed = rm.mixed /\ rm'.due = rm.due /\ rm'.del = {} /\ row' = row
        /\ rm'.items = {} /\ rm'.parents = {} /\ rm'.phase = "returned"
    BY <1>7 DEF RemovalReturns, NoRemoval
  <2> QED BY <1>3, <2>1 DEF Collecting
<1> QED BY <1>4, <1>5, <1>6, <1>7

(* The other calls make no linked container.                               *)
LEMMA CallsLeft ==
  ASSUME Alone, Linked = {}, StructureInv, LeftInv,
         Adding("task") \/ BeginScan \/ ScanFinds \/ Restart
  PROVE  LeftInv'
<1>0. NoLinks /\ cut = {} /\ rm' = NoRemoval
  BY CallsRemoveNothing, LeftParts
<1>1. ASSUME NEW new, row' = Inserted(row, lastID + 1, new), new.kind = "virt" => new.ref = None
      PROVE  NoLinks'
  <2>1. \A i \in DOMAIN row' : i = lastID + 1 \/ i \in DOMAIN row
    BY <1>1 DEF Inserted
  <2>2. \A i \in DOMAIN row' : row'[i] = IF i = lastID + 1 THEN new ELSE row[i]
    BY <1>1 DEF Inserted
  <2> QED BY <1>0, <1>1, <2>1, <2>2 DEF NoLinks
<1>2. OnlyFlags => NoLinks'
  <2>1. OnlyFlags => DOMAIN row' = DOMAIN row
    BY DEF OnlyFlags
  <2> QED BY <1>0, <2>1, FlagsKeepFields DEF NoLinks, StructureInv
<1>3. row' = row => NoLinks'
  BY <1>0 DEF NoLinks
<1>4. cut' = cut /\ NoLinks'
  <2>1. ASSUME NEW op, NEW goal, NEW arg, NEW link, Begin("task", op, goal, arg, link)
        PROVE  cut' = cut /\ row' = row
    BY <2>1 DEF Begin
  <2>2. CASE \/ BeginAddFile("task") \/ BeginAddRef("task") \/ BeginAddChain("task")
             \/ BeginUpdate("task") \/ BeginScan
    <3>1. cut' = cut /\ row' = row
      BY <2>1, <2>2 DEF BeginAddFile, BeginAddRef, BeginAddChain, BeginUpdate, BeginScan
    <3> QED BY <1>3, <3>1
  <2>3. CASE LookUp("task") \/ AddChain("task")
    BY <1>3, <2>3 DEF LookUp, AddChain, Return
  <2>4. CASE createContainer("task")
    <3>1. PICK c, p : c = call["task"] /\ p = Head(c.down)
      OBVIOUS
    <3>2. ~Links(c)
      BY DEF Links
    <3>3. PICK new : new = NewRow(c.at, IF p \in Virts THEN "virt" ELSE "dir", p, None)
      OBVIOUS
    <3>4. row' = Inserted(row, lastID + 1, new) /\ cut' = cut
      BY <2>4, <3>1, <3>2, <3>3 DEF createContainer
    <3>5. new.ref = None
      BY <3>3 DEF NewRow
    <3> QED BY <1>1, <3>4, <3>5
  <2>5. CASE AddFile("task")
    <3>1. PICK new : new = NewRow(call["task"].at, "file", call["task"].arg, None)
      OBVIOUS
    <3>2. row' = Inserted(row, lastID + 1, new) /\ cut' = cut /\ new.kind # "virt"
      BY <2>5, <3>1 DEF AddFile, Insert, Return, NewRow
    <3> QED BY <1>1, <3>2
  <2>6. CASE AddRef("task")
    <3>1. PICK c : c = call["task"]
      OBVIOUS
    <3>2. PICK new : new = NewRow(c.at, "ref", row[c.arg].path, c.arg)
      OBVIOUS
    <3>3. /\ row' = row \/ row' = Inserted(row, lastID + 1, new)
          /\ cut' = cut /\ new.kind # "virt"
      BY <2>6, <3>1, <3>2 DEF AddRef, Insert, Return, NewRow
    <3> QED BY <1>1, <1>3, <3>3
  <2>7. CASE UpdateObject("task")
    <3>1. PICK c : c = call["task"]
      OBVIOUS
    <3>2. /\ row' = IF c.arg \in DOMAIN row THEN [row EXCEPT ![c.arg].parent = c.at] ELSE row
          /\ cut' = cut
      BY <2>7, <3>1 DEF UpdateObject, Return
    <3>3. \A i \in DOMAIN row : row[i] \in Rows
      BY RowsAreRows DEF StructureInv
    <3>4. DOMAIN row' = DOMAIN row
      BY <3>2
    <3>5. \A i \in DOMAIN row : row'[i].kind = row[i].kind /\ row'[i].ref = row[i].ref
      BY <3>2, <3>3 DEF Rows
    <3> QED BY <1>0, <3>2, <3>4, <3>5 DEF NoLinks
  <2>8. CASE ScanFinds
    <3>1. PICK c : c = call["task"]
      OBVIOUS
    <3>2. /\ Ensured("task", "scan") /\ cut' = cut
          /\ \/ c.arg \in DOMAIN scan /\ row' = Moved(c.arg, c.at)
             \/ row' = row
      BY <2>8, <3>1 DEF ScanFinds, updateAutoscanDirectory, Return
    <3>3. c.at \in (Nat \ Roots) \union {None}
      <4>1. CallOK(c) /\ c.op = "scan" /\ c.at # None /\ c.down = <<>>
        BY <3>1, <3>2, TheCall DEF Ensured
      <4>2. c.at \in DOMAIN row /\ c.goal \in Dirs
        BY <4>1 DEF CallOK, Places
      <4>3. c.goal # Top
        BY <4>2, SQLStorageAssumption DEF SQLStorageAssumption
      <4>4. c.at \notin Roots
        BY <4>1, <4>3 DEF CallOK
      <4> QED BY <4>2, <4>4 DEF StructureInv, RowsInv
    <3>4. OnlyFlags
      BY <3>2, <3>3, MovedOnly, FlagNone DEF StructureInv
    <3> QED BY <1>2, <3>2, <3>4
  <2>9. CASE Restart
    <3>1. \A t \in Threads : Idle(t)
      BY <2>9 DEF Restart
    <3>2. OnlyFlags
      BY <2>9, RestartedScans DEF Restart
    <3> QED BY <1>2, <2>9, <3>2 DEF Restart
  <2> QED BY <2>2, <2>3, <2>4, <2>5, <2>6, <2>7, <2>8, <2>9 DEF Adding
<1> QED BY <1>0, <1>4, NothingIsLeft

(* A step that changes flags only, or nothing.                             *)
LEMMA ClientLeft ==
  ASSUME Alone, StructureInv, LeftInv, Idle("task"), OnlyFlags, rm' = rm, cut' = cut
  PROVE  LeftInv'
<1>1. ~Collecting /\ rm.del = {} /\ rm.items = {} /\ rm.parents = {}
  BY IdleRemovesNothing
<1>2. DOMAIN row' = DOMAIN row
      /\ \A i \in DOMAIN row : row'[i].kind = row[i].kind /\ row'[i].ref = row[i].ref
  BY FlagsKeepFields DEF StructureInv, OnlyFlags
<1>3. DueLeft' /\ ContsLeft' /\ AllLeft' /\ NoLinks'
  BY <1>1, <1>2, LeftParts DEF DueLeft, ContsLeft, AllLeft, NoLinks, Collecting
<1> QED BY <1>3, LeftParts DEF LeftInv, NoLinks, DueLeft, ContsLeft, AllLeft

LEMMA NextLeft ==
  ASSUME Alone, Linked = {}, StructureInv, LeftInv, [Next]_vars
  PROVE  LeftInv'
<1>1. CASE \E t \in Threads : Adding(t)
  <2>1. Adding("task")
    BY <1>1, OneThread
  <2> QED BY <2>1, CallsLeft
<1>2. CASE Removing
  BY <1>2, RemoveLeft, SelectLeft, SelectChildrenLeft, NextRoundLeft, DeleteRestLeft, PurgeLeft
     DEF Removing
<1>3. CASE Scanning
  <2>1. CASE addAutoscanDirectory \/ EditAutoscan \/ removeAutoscanDirectory \/ ScanForgets
    <3>1. Idle("task") /\ OnlyFlags /\ rm' = rm /\ cut' = cut
      BY <2>1, ClientStep
    <3> QED BY <3>1, ClientLeft
  <2>2. CASE BeginScan \/ ScanFinds
    BY <2>2, CallsLeft
  <2> QED BY <1>3, <2>1, <2>2 DEF Scanning
<1>4. CASE Restart
  BY <1>4, CallsLeft
<1>5. CASE UNCHANGED vars
  <2>1. row' = row /\ rm' = rm /\ cut' = cut
    BY <1>5 DEF vars
  <2> QED BY <2>1 DEF LeftInv, Taken, RefsTo, Children, Container, Due, Collecting
<1> QED BY <1>1, <1>2, <1>3, <1>4, <1>5 DEF Next

(* removeObject() and removeObjects() remove what storage.h says they do,  *)
(* all of it and nothing else, when no container is created as a           *)
(* reference: the levels of _recursiveRemove() and the deletions in        *)
(* between forget no object, and no reference to one.                      *)
THEOREM RemovalsAreExact == (Alone /\ Linked = {}) => (Spec => []RemovesExactly)
<1> SUFFICES ASSUME Alone, Linked = {} PROVE Spec => []RemovesExactly
  OBVIOUS
<1>1. Init => StructureInv /\ DueInv /\ LeftInv
  BY InitStructure, InitDue, InitLeft
<1>2. StructureInv /\ DueInv /\ LeftInv /\ [Next]_vars => (StructureInv /\ DueInv /\ LeftInv)'
  BY NextStructure, NextDue, NextLeft
<1>3. DueInv => RemovesNothingElse
  BY DEF DueInv, RemovesNothingElse
<1>4. LeftInv => RemovesWhatIsDue
  BY DEF LeftInv, RemovesWhatIsDue, Collecting
<1>5. StructureInv /\ DueInv /\ LeftInv => RemovesExactly
  BY <1>3, <1>4 DEF RemovesExactly
<1> QED BY <1>1, <1>2, <1>5, PTL DEF Spec

-----------------------------------------------------------------------------
(* What a call changed is reported when it is over.                        *)

(* The parts of the invariant about a removal in progress: the lists hold  *)
(* containers, and what is owed is on them.                                *)
ListsHoldContainers == \A i \in (rm.upnp \union rm.ui) \intersect DOMAIN row : Container(i)
UpnpListed == (owed.upnp \union Parents(rm.del)) \intersect DOMAIN row \subseteq Reported
UIListed   == owed.ui \intersect DOMAIN row \subseteq ShownUI
AboveListed ==
  \A d \in (rm.del \ cut) \intersect DOMAIN row :
    Container(d) /\ row[d].parent \in DOMAIN row => row[d].parent \in ShownUI

LEMMA ReportParts ==
  ASSUME ReportInv
  PROVE  /\ owed \in [upnp : SUBSET Int, ui : SUBSET Int] /\ ListsHoldContainers
         /\ Collecting \/ Purging => UpnpListed /\ UIListed /\ AboveListed
BY DEF ReportInv, ListsHoldContainers, UpnpListed, UIListed, AboveListed

(* A removal that is not over.                                             *)
LEMMA RemovalGoesOn ==
  ASSUME Alone, \A t \in Threads : call'[t] = NoCall, Collecting' \/ Purging',
         owed' \in [upnp : SUBSET Int, ui : SUBSET Int],
         ListsHoldContainers', UpnpListed', UIListed', AboveListed'
  PROVE  ReportInv'
<1>1. ~AllIdle'
  BY OneThread DEF AllIdle, Idle, Collecting, Purging
<1>2. ReportsChanges'
  BY <1>1 DEF ReportsChanges
<1> QED BY <1>2 DEF ReportInv, ListsHoldContainers, UpnpListed, UIListed, AboveListed

(* Containers hold the rows.                                               *)
LEMMA ParentsContain ==
  ASSUME StructureInv, NEW S, S \intersect Roots = {}
  PROVE  \A p \in Parents(S) \intersect DOMAIN row : Container(p)
<1> SUFFICES ASSUME NEW i \in S \intersect DOMAIN row, row[i].parent \in DOMAIN row
             PROVE  Container(row[i].parent)
  BY DEF Parents
<1>1. i \in DOMAIN row \ Roots
  OBVIOUS
<1> QED BY <1>1 DEF StructureInv, TreeInv, Container

LEMMA InitReport == ASSUME Alone, Init PROVE ReportInv
<1>1. ReportsChanges
  BY DEF Init, ReportsChanges, Nobody
<1>2. owed \in [upnp : SUBSET Int, ui : SUBSET Int]
  BY DEF Init, Nobody
<1> QED BY <1>1, <1>2 DEF Init, ReportInv, NoRemoval, Collecting, Purging

(* A removal begins.                                                       *)
LEMMA BeginRemovalReport ==
  ASSUME Alone, StructureInv, StructureInv', NEW asked, NEW all, NEW items, NEW conts,
         BeginRemoval(asked, all, items, conts)
  PROVE  ReportInv'
<1>1. PICK ui : ui = IF conts = {} THEN {} ELSE Parents(items \union conts)
  OBVIOUS
<1>2. /\ rm'.phase = "parents" /\ rm'.del = conts /\ rm'.upnp = {} /\ rm'.ui = ui
      /\ rm'.ret = Nobody /\ rm'.items = items /\ rm'.conts = conts
      /\ owed' = Nobody /\ UNCHANGED <<row, call, cut>> /\ MayBegin("task")
  BY <1>1 DEF BeginRemoval, NoRemoval
<1>3. (items \union conts) \intersect Roots = {}
  BY <1>2, RmFields DEF StructureInv, RmInv, RmType
<1>4. \A p \in Parents(items \union conts) \intersect DOMAIN row : Container(p)
  BY <1>3, ParentsContain
<1>5. Parents(conts) \subseteq ui
  BY <1>1 DEF Parents
<1>6. ListsHoldContainers'
  BY <1>1, <1>2, <1>4 DEF ListsHoldContainers, Container
<1>7. UpnpListed'
  BY <1>2, <1>5 DEF UpnpListed, Reported, Parents, Nobody
<1>8. UIListed'
  BY <1>2 DEF UIListed, Nobody
<1>9. AboveListed'
  <2> SUFFICES ASSUME NEW d \in conts, d \in DOMAIN row PROVE row[d].parent \in ui
    BY <1>2 DEF AboveListed, ShownUI
  <2> QED BY <1>5 DEF Parents
<1>10. \A t \in Threads : call'[t] = NoCall
  BY <1>2, NoCallWhileRemoving
<1>11. owed' \in [upnp : SUBSET Int, ui : SUBSET Int] /\ Collecting'
  BY <1>2 DEF Nobody, Collecting
<1> QED BY <1>6, <1>7, <1>8, <1>9, <1>10, <1>11, RemovalGoesOn

LEMMA RemoveReport ==
  ASSUME Alone, StructureInv, StructureInv', removeObject \/ removeObjects
  PROVE  ReportInv'
<1>1. CASE removeObject
  <2>1. PICK i \in DOMAIN row \ Roots, all \in BOOLEAN :
          IF Container(i) THEN BeginRemoval({i}, all, {}, {i})
          ELSE BeginRemoval({i}, all, {IF all /\ row[i].ref # None THEN row[i].ref ELSE i}, {})
    BY <1>1 DEF removeObject
  <2>2. CASE Container(i)
    BY <2>1, <2>2, BeginRemovalReport
  <2>3. CASE ~Container(i)
    <3>1. PICK items : items = {IF all /\ row[i].ref # None THEN row[i].ref ELSE i}
      OBVIOUS
    <3>2. BeginRemoval({i}, all, items, {})
      BY <2>1, <2>3, <3>1
    <3> QED BY <3>2, BeginRemovalReport
  <2> QED BY <2>2, <2>3
<1>2. CASE removeObjects
  <2>1. PICK c \in DOMAIN row : \E S \in SUBSET (Children({c}) \ Roots) :
          BeginRemoval(S, FALSE, {i \in S : ~Container(i)}, {i \in S : Container(i)})
    BY <1>2 DEF removeObjects
  <2>2. PICK S \in SUBSET (Children({c}) \ Roots) :
          BeginRemoval(S, FALSE, {i \in S : ~Container(i)}, {i \in S : Container(i)})
    BY <2>1
  <2>3. PICK items, conts : items = {i \in S : ~Container(i)} /\ conts = {i \in S : Container(i)}
    OBVIOUS
  <2>4. BeginRemoval(S, FALSE, items, conts)
    BY <2>2, <2>3
  <2> QED BY <2>4, BeginRemovalReport
<1> QED BY <1>1, <1>2

(* A round of selecting: the rows that come on the list have their         *)
(* containers on it, or on the list of what changed.                       *)
LEMMA SelectReport ==
  ASSUME Alone, StructureInv, ReportInv, Collecting, Collecting', NEW more, NEW up,
         UNCHANGED <<row, call, owed>>, cut \subseteq cut',
         rm'.del = rm.del \union more, rm'.upnp = rm.upnp \union up, rm'.ui = rm.ui, rm'.ret = rm.ret,
         \A p \in up \intersect DOMAIN row : Container(p),
         Parents(more) \intersect DOMAIN row \subseteq up \union rm.del,
         \A d \in (more \ cut') \intersect DOMAIN row : Container(d) => row[d].parent \in rm.del
           \/ row[d].parent \notin DOMAIN row
  PROVE  ReportInv'
<1>0. /\ owed \in [upnp : SUBSET Int, ui : SUBSET Int]
      /\ ListsHoldContainers /\ UpnpListed /\ UIListed /\ AboveListed
  BY ReportParts
<1>1. ListsHoldContainers'
  BY <1>0 DEF ListsHoldContainers, Container
<1>2. Reported \subseteq Reported' /\ up \subseteq Reported' /\ ShownUI \subseteq ShownUI'
      /\ rm.del \subseteq Reported' /\ rm.del \subseteq ShownUI'
  BY DEF Reported, ShownUI
<1>3. UpnpListed'
  <2>1. Parents(rm'.del) \subseteq Parents(rm.del) \union Parents(more)
    BY DEF Parents
  <2>2. (owed.upnp \union Parents(rm.del)) \intersect DOMAIN row \subseteq Reported
    BY <1>0 DEF UpnpListed
  <2>3. (owed.upnp \union Parents(rm'.del)) \intersect DOMAIN row \subseteq Reported'
    BY <1>2, <2>1, <2>2
  <2>4. Parents(rm.del)' = Parents(rm'.del)
    BY DEF Parents
  <2> QED BY <2>3, <2>4 DEF UpnpListed
<1>4. UIListed'
  BY <1>0, <1>2 DEF UIListed
<1>5. AboveListed'
  <2> SUFFICES ASSUME NEW d \in DOMAIN row, d \in rm'.del, d \notin cut', Container(d),
                      row[d].parent \in DOMAIN row
               PROVE  row[d].parent \in ShownUI'
    BY DEF AboveListed, Container
  <2>1. CASE d \in rm.del
    BY <1>0, <1>2, <2>1 DEF AboveListed
  <2>2. CASE d \in more
    BY <1>2, <2>2
  <2> QED BY <2>1, <2>2
<1>6. rm.phase # "idle"
  BY DEF Collecting
<1>7. \A t \in Threads : call'[t] = NoCall
  BY <1>6, NoCallWhileRemoving
<1> QED BY <1>0, <1>1, <1>3, <1>4, <1>5, <1>7, RemovalGoesOn

LEMMA SelectsReport ==
  ASSUME Alone, StructureInv, ReportInv, SelectParents \/ SelectReferences \/ SelectChildren
  PROVE  ReportInv'
<1>0. \A i \in rm.conts \intersect DOMAIN row : i \in rm.del
  BY DEF StructureInv, RmInv
<1>1. CASE SelectParents
  <2>1. PICK up, more : more = rm.parents /\ up = Parents(more)
    OBVIOUS
  <2>2. /\ rm.phase = "parents" /\ UNCHANGED <<row, call, cut, owed>>
        /\ rm' = [rm EXCEPT !.phase = "items", !.parents = {}, !.del = @ \union more,
                            !.upnp = @ \union up]
    BY <1>1, <2>1 DEF SelectParents
  <2>3. /\ rm'.del = rm.del \union more /\ rm'.upnp = rm.upnp \union up
        /\ rm'.ui = rm.ui /\ rm'.ret = rm.ret /\ rm'.phase = "items"
    BY <2>2 DEF StructureInv, RmInv, RmType
  <2>4. more \intersect Roots = {} /\ \A i \in more \intersect DOMAIN row : ~Container(i)
    BY <2>1, RmFields DEF StructureInv, RmInv
  <2>5. \A p \in up \intersect DOMAIN row : Container(p)
    BY <2>1, <2>4, ParentsContain
  <2>6. Parents(more) \intersect DOMAIN row \subseteq up \union rm.del
    BY <2>1
  <2> QED BY <2>2, <2>3, <2>4, <2>5, <2>6, SelectReport DEF Collecting
<1>2. CASE SelectReferences
  <2>1. PICK up, more : more = RefsTo(rm.items) /\ up = Parents(more)
    OBVIOUS
  <2>2. /\ rm.phase = "items" /\ UNCHANGED <<row, call, owed>>
        /\ cut' = cut \union {i \in more : Container(i)}
        /\ rm' = [rm EXCEPT !.phase = "conts", !.items = {}, !.del = @ \union more,
                            !.upnp = @ \union up]
    BY <1>2, <2>1 DEF SelectReferences
  <2>3. /\ rm'.del = rm.del \union more /\ rm'.upnp = rm.upnp \union up
        /\ rm'.ui = rm.ui /\ rm'.ret = rm.ret /\ rm'.phase = "conts"
    BY <2>2 DEF StructureInv, RmInv, RmType
  <2>4. more \intersect Roots = {}
    BY <2>1, RefsAre, RmFields DEF RefsTo, StructureInv
  <2>5. \A p \in up \intersect DOMAIN row : Container(p)
    BY <2>1, <2>4, ParentsContain
  <2>6. Parents(more) \intersect DOMAIN row \subseteq up \union rm.del
    BY <2>1
  <2>7. \A d \in (more \ cut') \intersect DOMAIN row : ~Container(d)
    BY <2>2
  <2> QED BY <2>2, <2>3, <2>5, <2>6, <2>7, SelectReport DEF Collecting
<1>3. CASE SelectChildren
  <2>1. PICK conts, main, plain : conts = FoundConts /\ main = FoundMain /\ plain = FoundPlain
    OBVIOUS
  <2>2. /\ rm.phase = "conts" /\ UNCHANGED <<row, call, cut, owed>>
        /\ rm' = [rm EXCEPT !.phase = "flush", !.conts = conts, !.del = @ \union conts \union plain,
                            !.parents = @ \union main, !.items = @ \union main \union plain]
    BY <1>3, <2>1, SelectsChildren
  <2>3. PICK more, up : more = conts \union plain /\ up = {}
    OBVIOUS
  <2>4. /\ rm'.del = rm.del \union more /\ rm'.upnp = rm.upnp \union up
        /\ rm'.ui = rm.ui /\ rm'.ret = rm.ret /\ rm'.phase = "flush"
    BY <2>2, <2>3 DEF StructureInv, RmInv, RmType
  <2>5. \A d \in more : row[d].parent \in rm.conts
    BY <2>1, <2>3 DEF FoundConts, FoundPlain, Found, Children
  <2>6. Parents(more) \intersect DOMAIN row \subseteq up \union rm.del
    BY <1>0, <2>5 DEF Parents
  <2>7. \A d \in (more \ cut') \intersect DOMAIN row :
          Container(d) => row[d].parent \in rm.del \/ row[d].parent \notin DOMAIN row
    BY <1>0, <2>5
  <2>8. \A p \in up \intersect DOMAIN row : Container(p)
    BY <2>3
  <2> QED BY <2>2, <2>4, <2>6, <2>7, <2>8, SelectReport DEF Collecting
<1> QED BY <1>1, <1>2, <1>3

(* The rows on the list go, and what their containers are owed grows.      *)
LEMMA DeleteReport ==
  ASSUME Alone, StructureInv, ReportInv, Collecting \/ Purging, Collecting' \/ Purging',
         DeleteRows(rm.del), rm'.del = {}, rm'.upnp = rm.upnp, rm'.ui = rm.ui, rm'.ret = rm.ret
  PROVE  ReportInv'
<1>0. /\ owed \in [upnp : SUBSET Int, ui : SUBSET Int]
      /\ ListsHoldContainers /\ UpnpListed /\ UIListed /\ AboveListed
  BY ReportParts
<1>1. PICK above : above = Parents({i \in rm.del \ cut : i \in DOMAIN row /\ Container(i)})
  OBVIOUS
<1>2. /\ DOMAIN row' = DOMAIN row \ rm.del /\ \A i \in DOMAIN row' : row'[i] = row[i]
      /\ owed' = [upnp |-> owed.upnp \union Parents(rm.del), ui |-> owed.ui \union above]
      /\ UNCHANGED <<call, cut>>
  BY <1>1 DEF DeleteRows
<1>3. \A x \in DOMAIN row' : /\ x \in Reported => x \in Reported'
                             /\ x \in ShownUI => x \in ShownUI'
  BY <1>2 DEF Reported, ShownUI
<1>4. ListsHoldContainers'
  BY <1>0, <1>2 DEF ListsHoldContainers, Container
<1>5. UpnpListed'
  <2>1. Parents(rm.del)' = {}
    BY DEF Parents
  <2>2. (owed.upnp \union Parents(rm.del)) \intersect DOMAIN row' \subseteq Reported'
    BY <1>0, <1>2, <1>3 DEF UpnpListed
  <2> QED BY <1>2, <2>1, <2>2 DEF UpnpListed
<1>6. UIListed'
  <2>1. above \intersect DOMAIN row \subseteq ShownUI
    BY <1>0, <1>1 DEF AboveListed, Parents
  <2>2. (owed.ui \union above) \intersect DOMAIN row' \subseteq ShownUI'
    BY <1>0, <1>2, <1>3, <2>1 DEF UIListed
  <2> QED BY <1>2, <2>2 DEF UIListed
<1>7. AboveListed'
  BY DEF AboveListed
<1>8. owed' \in [upnp : SUBSET Int, ui : SUBSET Int]
  <2>1. Parents(rm.del) \in SUBSET Int /\ above \in SUBSET Int
    BY <1>1, ParentsAre DEF StructureInv
  <2> QED BY <1>0, <1>2, <2>1
<1>9. rm.phase # "idle"
  BY DEF Collecting, Purging
<1>10. \A t \in Threads : call'[t] = NoCall
  BY <1>2, <1>9, NoCallWhileRemoving
<1> QED BY <1>4, <1>5, <1>6, <1>7, <1>8, <1>10, RemovalGoesOn

LEMMA DeletesReport ==
  ASSUME Alone, StructureInv, ReportInv, NextRound \/ DeleteRest \/ PurgeDelete
  PROVE  ReportInv'
<1>1. Collecting \/ Purging
  BY DEF NextRound, DeleteRest, PurgeDelete, Collecting, Purging
<1>2. CASE NextRound /\ rm' = [rm EXCEPT !.phase = "parents"] /\ UNCHANGED <<row, call, cut, owed>>
  <2>1. /\ rm'.del = rm.del /\ rm'.upnp = rm.upnp /\ rm'.ui = rm.ui /\ rm'.ret = rm.ret
        /\ rm'.phase = "parents" /\ Collecting
    BY <1>2 DEF StructureInv, RmInv, RmType, NextRound, Collecting
  <2>2. PICK none : none = {}
    OBVIOUS
  <2>3. Parents(none) = {} /\ Collecting'
    BY <2>1, <2>2 DEF Parents, Collecting
  <2> QED BY <1>2, <2>1, <2>2, <2>3, SelectReport
<1>3. CASE \/ NextRound /\ rm' = [rm EXCEPT !.phase = "parents", !.del = {}] /\ DeleteRows(rm.del)
           \/ DeleteRest \/ PurgeDelete
  <2>1. DeleteRows(rm.del)
    BY <1>3 DEF DeleteRest, PurgeDelete
  <2>2. PICK phase \in {"parents", "upnp", "purge"} : rm' = [rm EXCEPT !.phase = phase, !.del = {}]
    BY <1>3 DEF DeleteRest, PurgeDelete
  <2>3. /\ rm'.del = {} /\ rm'.upnp = rm.upnp /\ rm'.ui = rm.ui /\ rm'.ret = rm.ret
        /\ rm'.phase = phase
    BY <2>2 DEF StructureInv, RmInv, RmType
  <2>4. Collecting' \/ Purging'
    BY <2>3 DEF Collecting, Purging
  <2> QED BY <1>1, <2>1, <2>3, <2>4, DeleteReport
<1> QED BY <1>2, <1>3 DEF NextRound

(* What changed is sorted out: kept, empty, or looked at again.            *)
LEMMA SortedOut ==
  ASSUME ListsHoldContainers, NEW S, S = rm.upnp \/ S = rm.ui
  PROVE  S \intersect DOMAIN row \subseteq Kept(S) \union Empty(S) \union (Changed(S) \ (Kept(S) \union Empty(S)))
<1>1. S \intersect DOMAIN row \subseteq Changed(S)
  BY DEF ListsHoldContainers, Changed
<1> QED BY <1>1

LEMMA PurgeUpnpReport ==
  ASSUME Alone, StructureInv, ReportInv, PurgeUpnp
  PROVE  ReportInv'
<1>1. PICK kept, empty, above, more :
        /\ kept = Kept(rm.upnp) /\ empty = Empty(rm.upnp) /\ above = Parents(empty)
        /\ more = Changed(rm.upnp) \ (Kept(rm.upnp) \union Empty(rm.upnp))
  OBVIOUS
<1>2. /\ rm.phase = "upnp" /\ UNCHANGED <<row, call, cut, owed>>
      /\ rm' = [rm EXCEPT !.phase = "ui", !.ret.upnp = @ \union kept, !.del = empty,
                          !.ui = @ \union above, !.upnp = more]
  BY <1>1 DEF PurgeUpnp
<1>3. /\ rm'.del = empty /\ rm'.upnp = more /\ rm'.ui = rm.ui \union above /\ rm'.phase = "ui"
      /\ rm'.ret.upnp = rm.ret.upnp \union kept /\ rm'.ret.ui = rm.ret.ui
  BY <1>2 DEF StructureInv, RmInv, RmType
<1>4. rm.del = {} /\ Purging /\ Purging'
  BY <1>2, <1>3 DEF StructureInv, RmInv, Collecting, Purging
<1>5. /\ owed \in [upnp : SUBSET Int, ui : SUBSET Int]
      /\ ListsHoldContainers /\ UpnpListed /\ UIListed /\ AboveListed
  BY <1>4, ReportParts
<1>6. rm.upnp \intersect DOMAIN row \subseteq kept \union empty \union more
  BY <1>1, <1>5, SortedOut
<1>7. \A p \in above \intersect DOMAIN row : Container(p)
  <2>1. empty \intersect Roots = {}
    BY <1>1, EmptyAre DEF StructureInv
  <2> QED BY <1>1, <2>1, ParentsContain
<1>8. ListsHoldContainers'
  <2>1. \A i \in more : Container(i)
    BY <1>1 DEF Changed
  <2> QED BY <1>2, <1>3, <1>5, <1>7, <2>1 DEF ListsHoldContainers, Container
<1>9. Reported \intersect DOMAIN row \subseteq Reported' /\ ShownUI \subseteq ShownUI'
  BY <1>3, <1>4, <1>6 DEF Reported, ShownUI
<1>10. UpnpListed'
  <2>1. Parents(rm.del)' = above
    BY <1>1, <1>2, <1>3 DEF Parents
  <2>2. above \subseteq Reported'
    BY <1>3 DEF Reported
  <2> QED BY <1>2, <1>5, <1>9, <2>1, <2>2 DEF UpnpListed
<1>11. UIListed'
  BY <1>2, <1>5, <1>9 DEF UIListed
<1>12. AboveListed'
  <2> SUFFICES ASSUME NEW d \in DOMAIN row, d \in empty PROVE row[d].parent \in ShownUI'
    BY <1>2, <1>3 DEF AboveListed
  <2>1. row[d].parent \in above
    BY <1>1 DEF Parents
  <2> QED BY <1>3, <2>1 DEF ShownUI
<1>13. \A t \in Threads : call'[t] = NoCall
  BY <1>2, NoCallWhileRemoving
<1> QED BY <1>2, <1>4, <1>5, <1>8, <1>10, <1>11, <1>12, <1>13, RemovalGoesOn

LEMMA PurgeUIReport ==
  ASSUME Alone, StructureInv, ReportInv, PurgeUI
  PROVE  ReportInv'
<1>1. PICK kept, empty, above, more :
        /\ kept = Kept(rm.ui) /\ empty = Empty(rm.ui) /\ above = Parents(empty)
        /\ more = Changed(rm.ui) \ (Kept(rm.ui) \union Empty(rm.ui))
  OBVIOUS
<1>2. PICK ui : ui = more \union above
  OBVIOUS
<1>3. /\ rm.phase = "ui" /\ UNCHANGED <<row, call, cut, owed>>
      /\ rm' = [rm EXCEPT !.phase = "purge", !.ret.upnp = @ \union kept, !.ret.ui = @ \union kept,
                          !.del = @ \union empty, !.ui = ui]
  BY <1>1, <1>2 DEF PurgeUI
<1>4. /\ rm'.del = rm.del \union empty /\ rm'.upnp = rm.upnp /\ rm'.ui = ui /\ rm'.phase = "purge"
      /\ rm'.ret.upnp = rm.ret.upnp \union kept /\ rm'.ret.ui = rm.ret.ui \union kept
  BY <1>3 DEF StructureInv, RmInv, RmType
<1>5. Purging /\ Purging'
  BY <1>3, <1>4 DEF Purging
<1>6. /\ owed \in [upnp : SUBSET Int, ui : SUBSET Int]
      /\ ListsHoldContainers /\ UpnpListed /\ UIListed /\ AboveListed
  BY <1>5, ReportParts
<1>7. rm.ui \intersect DOMAIN row \subseteq kept \union empty \union more
  BY <1>1, <1>6, SortedOut
<1>8. \A p \in above \intersect DOMAIN row : Container(p)
  <2>1. empty \intersect Roots = {}
    BY <1>1, EmptyAre DEF StructureInv
  <2> QED BY <1>1, <2>1, ParentsContain
<1>9. ListsHoldContainers'
  <2>1. \A i \in more : Container(i)
    BY <1>1 DEF Changed
  <2> QED BY <1>2, <1>3, <1>4, <1>6, <1>8, <2>1 DEF ListsHoldContainers, Container
<1>10. /\ Reported \intersect DOMAIN row \subseteq Reported'
       /\ ShownUI \intersect DOMAIN row \subseteq ShownUI'
  BY <1>2, <1>4, <1>7 DEF Reported, ShownUI
<1>11. UpnpListed'
  <2>1. Parents(rm.del)' \subseteq Parents(rm.del) \union above
    BY <1>1, <1>3, <1>4 DEF Parents
  <2>2. above \subseteq Reported'
    BY <1>2, <1>4 DEF Reported
  <2> QED BY <1>3, <1>6, <1>10, <2>1, <2>2 DEF UpnpListed
<1>12. UIListed'
  BY <1>3, <1>6, <1>10 DEF UIListed
<1>13. AboveListed'
  <2> SUFFICES ASSUME NEW d \in DOMAIN row, d \in rm.del \union empty, d \notin cut, Container(d),
                      row[d].parent \in DOMAIN row
               PROVE  row[d].parent \in ShownUI'
    BY <1>3, <1>4 DEF AboveListed, Container
  <2>1. CASE d \in rm.del
    BY <1>6, <1>10, <2>1 DEF AboveListed
  <2>2. CASE d \in empty
    <3>1. row[d].parent \in above
      BY <1>1, <2>2 DEF Parents
    <3> QED BY <1>2, <1>4, <3>1 DEF ShownUI
  <2> QED BY <2>1, <2>2
<1>14. \A t \in Threads : call'[t] = NoCall
  BY <1>3, NoCallWhileRemoving
<1> QED BY <1>3, <1>5, <1>6, <1>9, <1>11, <1>12, <1>13, <1>14, RemovalGoesOn

(* The removal returns what is on its lists.                               *)
LEMMA ReturnsReport ==
  ASSUME Alone, StructureInv, ReportInv, RemovalReturns
  PROVE  ReportInv'
<1>1. /\ rm.phase = "purge" /\ rm.del = {} /\ UNCHANGED <<row, call, owed>>
      /\ told' = [upnp |-> rm.ret.upnp \union rm.ui \union rm.upnp, ui |-> rm.ret.ui \union rm.ui]
  BY DEF RemovalReturns
<1>2. rm'.phase = "returned" /\ rm'.upnp = {} /\ rm'.ui = {}
  BY DEF RemovalReturns, NoRemoval
<1>3. /\ owed \in [upnp : SUBSET Int, ui : SUBSET Int] /\ UpnpListed /\ UIListed
  BY <1>1, ReportParts DEF Purging
<1>4. ReportsChanges'
  BY <1>1, <1>3 DEF ReportsChanges, UpnpListed, UIListed, Reported, ShownUI
<1>5. \A t \in Threads : call'[t] = NoCall
  BY <1>1, NoCallWhileRemoving
<1> QED BY <1>1, <1>2, <1>3, <1>4, <1>5 DEF ReportInv, Collecting, Purging

(* The account of a call that adds: what is owed is the container in which *)
(* the first new one was made.                                             *)
Account(c) ==
  /\ owed.upnp \union owed.ui \subseteq {c.changed} \ {None}
  /\ c.last \in 0..lastID
  /\ c.changed # None => c.at > c.last

LEMMA TheAccount ==
  ASSUME Alone, StructureInv, ReportInv, call["task"].op # "none"
  PROVE  Account(call["task"]) /\ rm = NoRemoval /\ call["task"] \in Calls
<1>1. call["task"] # NoCall /\ "task" \in Threads
  BY OneThread DEF NoCall
<1> QED BY <1>1, TheCall DEF ReportInv, Account, CallOK

(* The call goes on: nothing has to be reported yet.                       *)
LEMMA CallGoesOn ==
  ASSUME Alone, NEW c, call' = [call EXCEPT !["task"] = c], c.op # "none", CallInv,
         rm' = NoRemoval, owed' \in [upnp : SUBSET Int, ui : SUBSET Int], Account(c)'
  PROVE  ReportInv'
<1>1. call'["task"] = c
  BY OneThread DEF CallInv
<1>2. ~AllIdle'
  BY <1>1, OneThread DEF AllIdle, Idle
<1> QED BY <1>1, <1>2, OneThread DEF ReportInv, ReportsChanges, Account, NoRemoval, Collecting, Purging

(* Nothing goes on, and what is owed was told.                             *)
LEMMA NothingGoesOn ==
  ASSUME rm' = NoRemoval, \A t \in Threads : call'[t] = NoCall,
         owed' \in [upnp : SUBSET Int, ui : SUBSET Int],
         owed'.upnp \subseteq told'.upnp, owed'.ui \subseteq told'.ui
  PROVE  ReportInv'
BY DEF ReportInv, ReportsChanges, NoRemoval, Collecting, Purging

LEMMA BeginReport ==
  ASSUME Alone, StructureInv, NEW op, op # "none", NEW goal, NEW arg, NEW link,
         Begin("task", op, goal, arg, link)
  PROVE  ReportInv'
<1>1. PICK c : c = [op |-> op, goal |-> goal, arg |-> arg, link |-> link, look |-> goal,
                    down |-> <<>>, at |-> None, changed |-> None, last |-> lastID]
  OBVIOUS
<1>2. /\ call' = [call EXCEPT !["task"] = c] /\ rm' = NoRemoval /\ owed' = Nobody
      /\ lastID' = lastID
  BY <1>1 DEF Begin
<1>3. Account(c)'
  BY <1>1, <1>2 DEF Account, Nobody, StructureInv, RowsInv
<1> QED BY <1>1, <1>2, <1>3, CallGoesOn DEF Nobody, StructureInv

LEMMA LookUpReport ==
  ASSUME Alone, StructureInv, ReportInv, LookUp("task")
  PROVE  ReportInv'
<1>1. PICK c : c = call["task"]
  OBVIOUS
<1>2. PICK d : /\ call' = [call EXCEPT !["task"] = d]
               /\ \/ \E i : d = [c EXCEPT !.at = i]
                  \/ \E place, down : d = [c EXCEPT !.look = place, !.down = down]
  <2>1. CASE call' = [call EXCEPT !["task"].at = RootOf(c.goal)]
    BY <1>1, <2>1
  <2>2. CASE \E i \in FindContainer(c.look) : call' = [call EXCEPT !["task"].at = i]
    BY <1>1, <2>2
  <2>3. CASE call' = [call EXCEPT !["task"].look = Up[c.look], !["task"].down = <<c.look>> \o @]
    <3>1. PICK place, down : place = Up[c.look] /\ down = <<c.look>> \o c.down
      OBVIOUS
    <3>2. call' = [call EXCEPT !["task"] = [c EXCEPT !.look = place, !.down = down]]
      BY <1>1, <2>3, <3>1, OneThread DEF StructureInv, CallInv
    <3> QED BY <3>2
  <2>4. \/ call' = [call EXCEPT !["task"].at = RootOf(c.goal)]
        \/ \E i \in FindContainer(c.look) : call' = [call EXCEPT !["task"].at = i]
        \/ call' = [call EXCEPT !["task"].look = Up[c.look], !["task"].down = <<c.look>> \o @]
    BY <1>1 DEF LookUp
  <2> QED BY <2>1, <2>2, <2>3, <2>4
<1>3. c.op # "none" /\ c.at = None /\ UNCHANGED <<lastID, rm, owed>>
  BY <1>1 DEF LookUp
<1>4. Account(c) /\ rm = NoRemoval /\ c \in Calls
  BY <1>1, <1>3, TheAccount
<1>5. c.changed = None
  BY <1>3, <1>4 DEF Account, StructureInv, RowsInv, None
<1>6. d.changed = None /\ d.last = c.last /\ d.op = c.op
  BY <1>2, <1>4, <1>5 DEF Calls
<1>7. Account(d)'
  BY <1>3, <1>4, <1>5, <1>6 DEF Account
<1> QED BY <1>2, <1>3, <1>4, <1>6, <1>7, CallGoesOn, ReportParts DEF StructureInv

(* Only the first container is made in one that was there before.          *)
LEMMA CreateReport ==
  ASSUME Alone, StructureInv, ReportInv, createContainer("task")
  PROVE  ReportInv'
<1>1. PICK c : c = call["task"]
  OBVIOUS
<1>2. PICK tail, old, changed :
        /\ tail = Tail(c.down) /\ old = {c.at} \intersect (0..c.last)
        /\ changed = IF c.changed = None THEN c.at ELSE c.changed
  OBVIOUS
<1>3. PICK d : d = [c EXCEPT !.down = tail, !.at = lastID + 1, !.changed = changed]
  OBVIOUS
<1>4. /\ c.op # "none" /\ c.at # None /\ lastID' = lastID + 1 /\ rm' = rm
      /\ owed' = [upnp |-> owed.upnp \union old, ui |-> owed.ui \union old]
  BY <1>1, <1>2 DEF createContainer
<1>5. Account(c) /\ rm = NoRemoval /\ c \in Calls /\ lastID \in Nat
  BY <1>1, <1>4, TheAccount DEF StructureInv, RowsInv
<1>6. call' = [call EXCEPT !["task"] = d]
  <2>1. call' = [call EXCEPT !["task"].down = Tail(@), !["task"].at = lastID + 1,
                             !["task"].changed = IF @ = None THEN c.at ELSE @]
    BY <1>1 DEF createContainer
  <2> QED BY <1>1, <1>2, <1>3, <1>5, <2>1, OneThread DEF StructureInv, CallInv, Calls
<1>7. d.op = c.op /\ d.at = lastID + 1 /\ d.changed = changed /\ d.last = c.last
  BY <1>3, <1>5 DEF Calls
<1>8. owed'.upnp \union owed'.ui \subseteq {changed} \ {None}
  <2>1. CASE c.changed = None
    BY <1>2, <1>4, <1>5, <2>1 DEF Account
  <2>2. CASE c.changed # None
    <3>1. old = {}
      BY <1>2, <1>5, <2>2 DEF Account, Calls
    <3> QED BY <1>2, <1>4, <1>5, <2>2, <3>1 DEF Account
  <2> QED BY <2>1, <2>2
<1>9. Account(d)'
  BY <1>4, <1>5, <1>7, <1>8 DEF Account
<1>10. owed' \in [upnp : SUBSET Int, ui : SUBSET Int]
  BY <1>2, <1>4, ReportParts
<1> QED BY <1>4, <1>5, <1>6, <1>7, <1>9, <1>10, CallGoesOn DEF StructureInv

(* The call returns: the container the object is in is reported as well.   *)
LEMMA ReturnReport ==
  ASSUME Alone, StructureInv, ReportInv, call["task"].op # "none", Return("task"),
         owed' = owed \/ owed' = [owed EXCEPT !.upnp = @ \union {call["task"].at}]
  PROVE  ReportInv'
<1>1. PICK c : c = call["task"]
  OBVIOUS
<1>2. /\ call' = [call EXCEPT !["task"] = NoCall] /\ rm' = rm
      /\ told' = [upnp |-> {c.changed, c.at}, ui |-> {c.changed}]
  BY <1>1 DEF Return
<1>3. Account(c) /\ rm = NoRemoval /\ c \in Calls
  BY <1>1, TheAccount
<1>4. owed \in [upnp : SUBSET Int, ui : SUBSET Int] /\ c.at \in Int
  BY <1>3, ReportParts DEF Calls
<1>5. owed' \in [upnp : SUBSET Int, ui : SUBSET Int]
      /\ owed'.upnp \subseteq owed.upnp \union {c.at} /\ owed'.ui = owed.ui
  BY <1>1, <1>4
<1>6. owed'.upnp \subseteq told'.upnp /\ owed'.ui \subseteq told'.ui
  BY <1>2, <1>3, <1>5 DEF Account
<1>7. \A t \in Threads : call'[t] = NoCall
  BY <1>2, OneThread DEF StructureInv, CallInv
<1> QED BY <1>2, <1>3, <1>5, <1>6, <1>7, NothingGoesOn

LEMMA CallsReport ==
  ASSUME Alone, StructureInv, ReportInv, Adding("task") \/ BeginScan \/ ScanFinds
  PROVE  ReportInv'
<1>1. CASE \/ BeginAddFile("task") \/ BeginAddRef("task") \/ BeginAddChain("task")
           \/ BeginUpdate("task") \/ BeginScan
  <2>1. PICK op, goal, arg, link : op # "none" /\ Begin("task", op, goal, arg, link)
    <3>1. CASE BeginAddFile("task")
      BY <3>1 DEF BeginAddFile
    <3>2. CASE BeginAddRef("task")
      BY <3>2 DEF BeginAddRef
    <3>3. CASE BeginAddChain("task")
      BY <3>3 DEF BeginAddChain
    <3>4. CASE BeginUpdate("task")
      BY <3>4 DEF BeginUpdate
    <3>5. CASE BeginScan
      BY <3>5 DEF BeginScan
    <3> QED BY <1>1, <3>1, <3>2, <3>3, <3>4, <3>5
  <2> QED BY <2>1, BeginReport
<1>2. CASE \/ AddFile("task") \/ AddRef("task") \/ AddChain("task") \/ UpdateObject("task")
           \/ ScanFinds
  <2>1. /\ call["task"].op # "none" /\ Return("task")
        /\ owed' = owed \/ owed' = [owed EXCEPT !.upnp = @ \union {call["task"].at}]
    BY <1>2 DEF AddFile, AddRef, AddChain, UpdateObject, ScanFinds, Ensured, Insert
  <2> QED BY <2>1, ReturnReport
<1> QED BY <1>1, <1>2, LookUpReport, CreateReport DEF Adding

(* A step of a client, and one that changes nothing.                       *)
LEMMA ClientReport ==
  ASSUME Alone, StructureInv, ReportInv, OnlyFlags, UNCHANGED <<rm, call, lastID, cut, owed, told>>
  PROVE  ReportInv'
<1>1. DOMAIN row' = DOMAIN row
      /\ \A i \in DOMAIN row : row'[i].kind = row[i].kind /\ row'[i].parent = row[i].parent
  BY FlagsKeepFields DEF StructureInv, OnlyFlags
<1>2. Parents(rm.del)' = Parents(rm.del)
  BY <1>1 DEF Parents
<1>3. ReportsChanges'
  BY <1>1 DEF ReportInv, ReportsChanges, AllIdle, Idle
<1>4. owed' \in [upnp : SUBSET Int, ui : SUBSET Int] /\ ListsHoldContainers'
  BY <1>1, ReportParts DEF ListsHoldContainers, Container
<1>5. (Collecting \/ Purging)' => UpnpListed' /\ UIListed' /\ AboveListed'
  <2>1. ASSUME (Collecting \/ Purging)' PROVE Collecting \/ Purging
    BY <2>1 DEF Collecting, Purging
  <2>2. Reported' = Reported /\ ShownUI' = ShownUI
    BY DEF Reported, ShownUI
  <2> QED BY <1>1, <1>2, <2>1, <2>2, ReportParts DEF UpnpListed, UIListed, AboveListed, Container
<1>6. \A t \in Threads : call'[t] # NoCall => Account(call[t])'
  BY DEF ReportInv, Account
<1> QED BY <1>3, <1>4, <1>5, <1>6
        DEF ReportInv, ListsHoldContainers, UpnpListed, UIListed, AboveListed, Account

LEMMA NextReport ==
  ASSUME Alone, StructureInv, StructureInv', ReportInv, [Next]_vars
  PROVE  ReportInv'
<1>1. CASE \E t \in Threads : Adding(t)
  <2>1. Adding("task")
    BY <1>1, OneThread
  <2> QED BY <2>1, CallsReport
<1>2. CASE Removing
  BY <1>2, RemoveReport, SelectsReport, DeletesReport, PurgeUpnpReport, PurgeUIReport, ReturnsReport
     DEF Removing
<1>3. CASE Scanning
  <2>1. CASE addAutoscanDirectory \/ EditAutoscan \/ removeAutoscanDirectory \/ ScanForgets
    BY <2>1, ClientStep, ClientReport
  <2>2. CASE BeginScan \/ ScanFinds
    BY <2>2, CallsReport
  <2> QED BY <1>3, <2>1, <2>2 DEF Scanning
<1>4. CASE Restart
  <2>1. /\ rm' = NoRemoval /\ owed' = Nobody /\ told' = Nobody /\ call' = call
        /\ \A t \in Threads : Idle(t)
    BY <1>4 DEF Restart
  <2>2. \A t \in Threads : call'[t] = NoCall
    BY <2>1, IdleIsNoCall
  <2> QED BY <2>1, <2>2, NothingGoesOn DEF Nobody
<1>5. CASE UNCHANGED vars
  <2>1. OnlyFlags
    BY <1>5, FlagNone DEF vars, StructureInv
  <2>2. UNCHANGED <<rm, call, lastID, cut, owed, told>>
    BY <1>5 DEF vars
  <2> QED BY <2>1, <2>2, ClientReport
<1> QED BY <1>1, <1>2, <1>3, <1>4, <1>5 DEF Next

(* When a call is over, every container that is still there and whose      *)
(* children the call changed was reported to the UPnP side, and every one  *)
(* that got or lost a container, to the web UI: through all the lists of   *)
(* _recursiveRemove(), _removeObjects() and _purgeEmptyContainers(), and   *)
(* for the chains of containers an add makes.                              *)
THEOREM ChangesAreReported == Alone => (Spec => []ReportsChanges)
<1> SUFFICES ASSUME Alone PROVE Spec => []ReportsChanges
  OBVIOUS
<1>1. Init => StructureInv /\ ReportInv
  BY InitStructure, InitReport
<1>2. StructureInv /\ ReportInv /\ [Next]_vars => (StructureInv /\ ReportInv)'
  BY NextStructure, NextReport
<1>3. ReportInv => ReportsChanges
  BY DEF ReportInv
<1> QED BY <1>1, <1>2, <1>3, PTL DEF Spec
=============================================================================
