-------------------------- MODULE HostReadingsProofs --------------------------
(***************************************************************************)
(* What is read of a host, for every host: that a reading holds what its   *)
(* commands printed, or a part that is known not to be all; that the       *)
(* partitions are read back from any form of df; that the alarms follow    *)
(* from what the host was, for every threshold and wherever the output is  *)
(* cut off; and that of units, containers, pods and log lines none is lost *)
(* or mixed up.                                                            *)
(***************************************************************************)
EXTENDS HostReadings, FiniteSetTheorems, SequenceTheorems, WellFoundedInduction, TLAPS

(* The places of a list.                                                   *)

(* The first of some numbers.                                              *)
LEMMA FirstPlace ==
    ASSUME NEW S, S \subseteq Nat, S # {}
    PROVE  \E n \in S : \A m \in S : n <= m
<1> DEFINE less == {ss \in Nat \X Nat : ss[1] < ss[2]}
<1>1. IsWellFoundedOn(less, Nat)
  BY NatLessThanWellFounded DEF OpToRel
<1>2. PICK n \in S : \A m \in S : <<m, n>> \notin less
  <2>. HIDE DEF less
  <2>. QED
    BY <1>1, WFMin
<1>3. \A m \in S : ~(m < n)
  BY <1>2
<1>. QED
  BY <1>3

(* How many places there are before one.                                   *)
Below(places, i) == {j \in places : j < i}

LEMMA BelowFinite ==
    ASSUME NEW places, IsFiniteSet(places), NEW i
    PROVE  /\ IsFiniteSet(Below(places, i))
           /\ Cardinality(Below(places, i)) \in Nat
           /\ Cardinality(Below(places, i)) <= Cardinality(places)
<1>1. Below(places, i) \in SUBSET places
  BY DEF Below
<1>. QED
  BY <1>1, FS_Subset, FS_CardinalityType

LEMMA BelowGrows ==
    ASSUME NEW places, \A p \in places : p \in Nat, IsFiniteSet(places),
           NEW i \in places, NEW j \in places, i < j
    PROVE  Cardinality(Below(places, i)) < Cardinality(Below(places, j))
<1>1. /\ Below(places, i) \in SUBSET Below(places, j)
      /\ i \in Below(places, j)
      /\ i \notin Below(places, i)
  BY DEF Below
<1>2. Below(places, i) # Below(places, j)
  BY <1>1
<1>3. /\ IsFiniteSet(Below(places, j))
      /\ Cardinality(Below(places, i)) \in Nat
      /\ Cardinality(Below(places, j)) \in Nat
  BY BelowFinite
<1>4. Cardinality(Below(places, i)) <= Cardinality(Below(places, j))
  BY <1>1, <1>3, FS_Subset
<1>5. Cardinality(Below(places, i)) # Cardinality(Below(places, j))
  BY <1>1, <1>2, <1>3, FS_Subset
<1>. QED
  BY <1>3, <1>4, <1>5

LEMMA PlacesFinite ==
    ASSUME NEW m \in Nat, NEW places, \A p \in places : p \in 1 .. m
    PROVE  IsFiniteSet(places)
<1>1. IsFiniteSet(1 .. m) /\ places \in SUBSET (1 .. m)
  BY FS_Interval
<1>. QED
  BY <1>1, FS_Subset

(* The n-th place is the only one with n - 1 before it.                    *)
LEMMA NthOnly ==
    ASSUME NEW places, \A p \in places : p \in Nat, IsFiniteSet(places), NEW i \in places,
           NEW n, Cardinality(Below(places, i)) = n - 1
    PROVE  Nth(places, n) = i
<1>1. \A j \in places : Cardinality(Below(places, j)) = n - 1 => j = i
  <2>. SUFFICES ASSUME NEW j \in places, Cardinality(Below(places, j)) = n - 1
                PROVE  j = i
    OBVIOUS
  <2>1. ~(j < i) /\ ~(i < j)
    <3>1. Cardinality(Below(places, i)) \in Nat /\ Cardinality(Below(places, j)) \in Nat
      BY BelowFinite
    <3>2. ASSUME j < i PROVE FALSE
      BY <3>1, <3>2, BelowGrows
    <3>3. ASSUME i < j PROVE FALSE
      BY <3>1, <3>3, BelowGrows
    <3>. QED
      BY <3>2, <3>3
  <2>. QED
    BY <2>1
<1>2. Nth(places, n) = CHOOSE j \in places : Cardinality(Below(places, j)) = n - 1
  BY DEF Nth, Below
<1>. QED
  BY <1>1, <1>2, Zenon

(* There is one for every n up to their number.                            *)
LEMMA NthThere ==
    ASSUME NEW m \in Nat, NEW places, \A p \in places : p \in 1 .. m,
           NEW n \in 1 .. Cardinality(places)
    PROVE  /\ Nth(places, n) \in places
           /\ Cardinality(Below(places, Nth(places, n))) = n - 1
<1>1. IsFiniteSet(places)
  BY PlacesFinite
<1>2. Cardinality(places) \in Nat
  BY <1>1, FS_CardinalityType
<1> DEFINE late == {i \in Nat : Cardinality(Below(places, i)) >= n}
<1>3. m + 1 \in late
  <2>1. Below(places, m + 1) = places
    BY DEF Below
  <2>. QED
    BY <1>2, <2>1
<1>4. PICK next \in late : \A i \in late : next <= i
  <2>. HIDE DEF late
  <2>1. late \subseteq Nat
    BY DEF late
  <2>. QED
    BY <1>3, <2>1, FirstPlace
<1>5. Below(places, 0) = {}
  BY <1>1 DEF Below
<1>6. next # 0
  <2>1. Cardinality(Below(places, 0)) = 0
    BY <1>5, FS_EmptySet
  <2>. QED
    BY <1>2, <1>4, <2>1
<1> DEFINE i == next - 1
<1>7. i \in Nat /\ i \notin late
  BY <1>4, <1>6
<1>8. Cardinality(Below(places, i)) < n
  <2>1. Cardinality(Below(places, i)) \in Nat
    BY <1>1, BelowFinite
  <2>. QED
    BY <1>2, <1>7, <2>1
<1>9. Below(places, next) = IF i \in places THEN Below(places, i) \cup {i} ELSE Below(places, i)
  BY <1>1, <1>4, <1>6 DEF Below
<1>10. i \notin Below(places, i)
  BY DEF Below
<1>11. i \in places /\ Cardinality(Below(places, i)) = n - 1
  <2>. HIDE DEF i
  <2>1. Cardinality(Below(places, next)) >= n
    BY <1>4
  <2>2. Cardinality(Below(places, i)) \in Nat /\ IsFiniteSet(Below(places, i))
    BY <1>1, BelowFinite
  <2>3. Cardinality(Below(places, i) \cup {i}) = Cardinality(Below(places, i)) + 1
    BY <1>10, <2>2, FS_AddElement
  <2>4. CASE i \in places
    BY <1>2, <1>8, <1>9, <2>1, <2>2, <2>3, <2>4
  <2>5. CASE i \notin places
    BY <1>2, <1>8, <1>9, <2>1, <2>2, <2>5
  <2>. QED
    BY <2>4, <2>5
<1>. QED
  <2>. HIDE DEF i
  <2>. QED
    BY <1>1, <1>11, NthOnly

(* Places are counted from the front.                                      *)
LEMMA NthOfFront ==
    ASSUME NEW m \in Nat, NEW places, \A p \in places : p \in 1 .. m,
           NEW n \in Nat, NEW front, front = {p \in places : p <= n}
    PROVE  /\ Cardinality(front) \in Nat /\ Cardinality(places) \in Nat
           /\ Cardinality(front) <= Cardinality(places)
           /\ \A k \in 1 .. Cardinality(front) : Nth(front, k) = Nth(places, k)
<1>1. IsFiniteSet(places)
  BY PlacesFinite
<1>2. /\ Cardinality(front) \in Nat /\ Cardinality(places) \in Nat
      /\ Cardinality(front) <= Cardinality(places)
  <2>1. front \in SUBSET places
    OBVIOUS
  <2>. QED
    BY <1>1, <2>1, FS_Subset, FS_CardinalityType
<1>3. ASSUME NEW k \in 1 .. Cardinality(front)
      PROVE  Nth(front, k) = Nth(places, k)
  <2>1. \A p \in front : p \in 1 .. m
    OBVIOUS
  <2>2. PICK i \in front : i = Nth(front, k) /\ Cardinality(Below(front, i)) = k - 1
    BY <2>1, NthThere
  <2>3. Below(front, i) = Below(places, i)
    <3>1. i \in 1 .. m /\ i <= n
      OBVIOUS
    <3>2. \A p \in places : p < i => p <= n
      BY <3>1
    <3>. QED
      BY <3>2 DEF Below
  <2>4. Nth(places, k) = i
    <3>1. \A p \in places : p \in Nat
      OBVIOUS
    <3>2. i \in places /\ Cardinality(Below(places, i)) = k - 1
      BY <2>2, <2>3
    <3>. QED
      BY <1>1, <3>1, <3>2, NthOnly
  <2>. QED
    BY <2>2, <2>4
<1>. QED
  BY <1>2, <1>3

LEMMA NthGrows ==
    ASSUME NEW m \in Nat, NEW places, \A p \in places : p \in 1 .. m,
           NEW k \in 1 .. Cardinality(places), NEW j \in 1 .. Cardinality(places), j < k
    PROVE  Nth(places, j) < Nth(places, k)
<1>1. IsFiniteSet(places)
  BY PlacesFinite
<1>2. PICK a \in places : a = Nth(places, j) /\ Cardinality(Below(places, a)) = j - 1
  BY NthThere
<1>3. PICK b \in places : b = Nth(places, k) /\ Cardinality(Below(places, b)) = k - 1
  BY NthThere
<1>4. Cardinality(places) \in Nat
  BY <1>1, FS_CardinalityType
<1>5. a # b
  BY <1>2, <1>3, <1>4
<1>6. ~(b < a)
  <2>1. ASSUME b < a
        PROVE  FALSE
    <3>1. Cardinality(Below(places, b)) < Cardinality(Below(places, a))
      <4>1. \A p \in places : p \in Nat
        OBVIOUS
      <4>. QED
        BY <1>1, <2>1, <4>1, BelowGrows
    <3>. QED
      BY <1>2, <1>3, <1>4, <3>1
  <2>. QED
    BY <2>1
<1>7. a \in Nat /\ b \in Nat
  OBVIOUS
<1>. QED
  BY <1>2, <1>3, <1>5, <1>6, <1>7

LEMMA NthOf ==
    ASSUME NEW m \in Nat, NEW places, \A p \in places : p \in 1 .. m, NEW i \in places
    PROVE  \E k \in 1 .. Cardinality(places) : Nth(places, k) = i
<1>1. IsFiniteSet(places)
  BY PlacesFinite
<1>2. Below(places, i) \in SUBSET places /\ Below(places, i) # places
  BY DEF Below
<1>3. /\ Cardinality(Below(places, i)) \in Nat /\ Cardinality(places) \in Nat
      /\ Cardinality(Below(places, i)) < Cardinality(places)
  BY <1>1, <1>2, FS_Subset, FS_CardinalityType
<1>4. PICK k : k = Cardinality(Below(places, i)) + 1
  OBVIOUS
<1>5. k \in 1 .. Cardinality(places) /\ Cardinality(Below(places, i)) = k - 1
  BY <1>3, <1>4
<1>6. Nth(places, k) = i
  <2>1. \A p \in places : p \in Nat
    OBVIOUS
  <2>. QED
    BY <1>1, <1>5, <2>1, NthOnly
<1>. QED
  BY <1>5, <1>6

LEMMA LeastPlace ==
    ASSUME NEW m \in Nat, NEW places, \A p \in places : p \in 1 .. m, places # {}
    PROVE  Min(places) \in places /\ \A p \in places : Min(places) <= p
<1>1. places \subseteq Nat
  OBVIOUS
<1>2. \E n \in places : \A p \in places : n <= p
  BY <1>1, FirstPlace
<1>. QED
  BY <1>2 DEF Min

-------------------------------------------------------------------------------
(* Lists, as lists of what is in them, and what is taken from them.        *)

(* Lists as lists of what is in them.                                      *)
LEMMA Numbered ==
    ASSUME NEW m \in Nat, NEW s, DOMAIN s = 1 .. m, s = [i \in 1 .. m |-> s[i]]
    PROVE  s \in Seq(ToSet(s)) /\ Len(s) = m
  BY DEF ToSet

LEMMA Headed ==
    ASSUME NEW h, NEW s, s \in Seq(ToSet(s)), NEW t, t = <<h>> \o s
    PROVE  /\ t \in Seq(ToSet(t))
           /\ Len(t) = Len(s) + 1
           /\ t[1] = h
           /\ \A i \in 1 .. Len(s) : t[i + 1] = s[i]
<1> DEFINE T == ToSet(s) \union {h}
<1>1. s \in Seq(T) /\ <<h>> \in Seq(T)
  <2>. HIDE DEF T
  <2>1. h \in T /\ \A i \in 1 .. Len(s) : s[i] \in T
    BY DEF T, ToSet
  <2>. QED
    BY <2>1
<1>. HIDE DEF T
<1>2. Len(<<h>>) = 1 /\ <<h>>[1] = h
  OBVIOUS
<1>3. /\ t \in Seq(T) /\ Len(t) = Len(s) + 1 /\ t[1] = h
      /\ \A i \in 1 .. Len(s) : t[i + 1] = s[i]
  BY <1>1, <1>2
<1>4. t \in Seq(ToSet(t))
  <2>1. t \in Seq(T)
    BY <1>3
  <2>2. /\ Len(t) \in Nat /\ DOMAIN t = 1 .. Len(t)
        /\ t = [i \in 1 .. Len(t) |-> t[i]]
    BY <2>1
  <2>. QED
    BY <2>2, Numbered
<1>. QED
  BY <1>3, <1>4

(* One more output, behind those before it.                                *)
LEMMA Grows ==
    ASSUME NEW s, s \in Seq(ToSet(s)), NEW e
    PROVE  /\ Append(s, e) \in Seq(ToSet(Append(s, e)))
           /\ Len(s) \in Nat /\ Len(Append(s, e)) = Len(s) + 1
           /\ Append(s, e)[Len(s) + 1] = e
           /\ SubSeq(Append(s, e), 1, Len(s)) = s
           /\ \A i \in 1 .. Len(s) : /\ Append(s, e)[i] = s[i]
                                     /\ SubSeq(Append(s, e), 1, i - 1) = SubSeq(s, 1, i - 1)
<1> DEFINE T == ToSet(s) \union {e}
<1> DEFINE t == Append(s, e)
<1>1. s \in Seq(T) /\ e \in T
  <2>. HIDE DEF T
  <2>1. \A i \in 1 .. Len(s) : s[i] \in T
    BY DEF T
  <2>. QED
    BY <2>1 DEF T
<1>. HIDE DEF T
<1>2. /\ t \in Seq(T) /\ Len(s) \in Nat /\ Len(t) = Len(s) + 1
      /\ t[Len(s) + 1] = e
      /\ \A i \in 1 .. Len(s) : t[i] = s[i]
  BY <1>1
<1>3. t \in Seq(ToSet(t))
  BY <1>2 DEF ToSet
<1>4. SubSeq(t, 1, Len(s)) = s
  BY <1>1, <1>2
<1>5. \A i \in 1 .. Len(s) : SubSeq(t, 1, i - 1) = SubSeq(s, 1, i - 1)
  BY <1>1, <1>2
<1>. QED
  BY <1>2, <1>3, <1>4, <1>5

LEMMA OneThere ==
    ASSUME NEW T, NEW s \in Seq(T), Len(s) = 1
    PROVE  s = <<s[1]>>
  OBVIOUS

(* The lines at some places are lines from there.                          *)
LEMMA AtLines ==
    ASSUME NEW m \in Nat, NEW places, \A p \in places : p \in 1 .. m, NEW s
    PROVE  /\ Cardinality(places) \in Nat
           /\ At(s, places) \in Seq(ToSet(At(s, places)))
           /\ Len(At(s, places)) = Cardinality(places)
           /\ DOMAIN At(s, places) = 1 .. Cardinality(places)
           /\ \A k \in 1 .. Cardinality(places) :
                 Nth(places, k) \in places /\ At(s, places)[k] = s[Nth(places, k)]
<1>1. Cardinality(places) \in Nat
  <2>1. IsFiniteSet(1 .. m) /\ places \in SUBSET (1 .. m)
    BY FS_Interval
  <2>. QED
    BY <2>1, FS_Subset, FS_CardinalityType
<1>2. \A k \in 1 .. Cardinality(places) : Nth(places, k) \in places
  BY NthThere
<1>3. /\ DOMAIN At(s, places) = 1 .. Cardinality(places)
      /\ \A k \in 1 .. Cardinality(places) : At(s, places)[k] = s[Nth(places, k)]
  BY DEF At
<1>4. At(s, places) \in Seq(ToSet(At(s, places)))
  BY <1>1 DEF At, ToSet
<1>. QED
  BY <1>1, <1>2, <1>3, <1>4

(* A list is the lines at all of its places.                               *)
LEMMA AllAt ==
    ASSUME NEW m \in Nat, NEW s, s = [i \in 1 .. m |-> s[i]]
    PROVE  At(s, 1 .. m) = s
<1>1. Cardinality(1 .. m) = m
  BY FS_Interval
<1>2. ASSUME NEW n \in 1 .. m
      PROVE  Nth(1 .. m, n) = n
  <2>1. Below(1 .. m, n) = 1 .. n - 1
    BY DEF Below
  <2>2. Cardinality(1 .. n - 1) = n - 1
    BY FS_Interval
  <2>3. IsFiniteSet(1 .. m)
    BY FS_Interval
  <2>4. PICK places : places = 1 .. m
    OBVIOUS
  <2>5. n \in places /\ \A p \in places : p \in Nat
    BY <2>4
  <2>6. Nth(places, n) = n
    BY <2>1, <2>2, <2>3, <2>4, <2>5, NthOnly
  <2>. QED
    BY <2>4, <2>6
<1>3. At(s, 1 .. m) = [n \in 1 .. m |-> s[Nth(1 .. m, n)]]
  BY <1>1 DEF At
<1>. QED
  BY <1>2, <1>3

(* There is a line iff there is a place, and the first is at the first one.*)
LEMMA FirstAt ==
    ASSUME NEW m \in Nat, NEW places, \A p \in places : p \in 1 .. m, NEW s
    PROVE  /\ At(s, places) = <<>> <=> places = {}
           /\ places # {} =>
                 \E i \in places : At(s, places)[1] = s[i] /\ \A p \in places : i <= p
<1>1. IsFiniteSet(places)
  BY PlacesFinite
<1>2. Cardinality(places) \in Nat /\ (Cardinality(places) = 0 <=> places = {})
  BY <1>1, FS_CardinalityType, FS_EmptySet
<1>3. At(s, places) = <<>> <=> places = {}
  <2>1. At(s, places) \in Seq(ToSet(At(s, places))) /\ Len(At(s, places)) = Cardinality(places)
    BY AtLines
  <2>2. At(s, places) = <<>> <=> Len(At(s, places)) = 0
    BY <2>1, EmptySeq
  <2>. QED
    BY <1>2, <2>1, <2>2
<1>4. ASSUME places # {}
      PROVE  \E i \in places : At(s, places)[1] = s[i] /\ \A p \in places : i <= p
  <2>1. 1 \in 1 .. Cardinality(places)
    BY <1>2, <1>4
  <2>2. PICK i \in places : i = Nth(places, 1) /\ Cardinality(Below(places, i)) = 1 - 1
    BY <2>1, NthThere
  <2>3. Below(places, i) = {}
    <3>1. IsFiniteSet(Below(places, i)) /\ Cardinality(Below(places, i)) = 0
      BY <1>1, <2>2, BelowFinite
    <3>. QED
      BY <3>1, FS_EmptySet
  <2>4. \A p \in places : i <= p
    BY <2>3 DEF Below
  <2>5. At(s, places)[1] = s[i]
    BY <2>1, <2>2, AtLines
  <2>. QED
    BY <2>4, <2>5
<1>. QED
  BY <1>3, <1>4

LEMMA NoLines ==
    ASSUME NEW s, DOMAIN s = {}
    PROVE  At(s, {}) = <<>>
<1>1. \A p \in {} : p \in 1 .. 0
  OBVIOUS
<1>. QED
  BY <1>1, FirstAt

(* Two lists that agree at the same places hold the same there, and at     *)
(* places in front of others the start of it.                              *)
LEMMA SameAt ==
    ASSUME NEW m \in Nat, NEW places, \A p \in places : p \in 1 .. m,
           NEW s, NEW t, \A p \in places : s[p] = t[p]
    PROVE  At(s, places) = At(t, places)
<1>1. \A k \in 1 .. Cardinality(places) : s[Nth(places, k)] = t[Nth(places, k)]
  BY AtLines
<1>. QED
  BY <1>1 DEF At

LEMMA StartOf ==
    ASSUME NEW A, NEW B, NEW s \in Seq(A), NEW t \in Seq(B), Len(s) <= Len(t),
           \A k \in 1 .. Len(s) : s[k] = t[k]
    PROVE  IsPrefix(s, t)
<1>1. SubSeq(s, 1, Len(s)) = s
  OBVIOUS
<1>2. SubSeq(t, 1, Len(s)) = s
  <2>1. Len(s) \in Nat /\ Len(t) \in Nat /\ s = [k \in 1 .. Len(s) |-> s[k]]
    OBVIOUS
  <2>2. SubSeq(t, 1, Len(s)) = [k \in 1 .. Len(s) |-> t[k]]
    BY <2>1
  <2>. QED
    BY <2>1, <2>2
<1>. QED
  BY <1>1, <1>2 DEF IsPrefix

LEMMA FrontAt ==
    ASSUME NEW m \in Nat, NEW places, \A p \in places : p \in 1 .. m,
           NEW n \in Nat, NEW front, front = {p \in places : p <= n},
           NEW s, NEW t, \A p \in front : s[p] = t[p]
    PROVE  IsPrefix(At(s, front), At(t, places))
<1>1. \A p \in front : p \in 1 .. m
  OBVIOUS
<1>2. /\ Cardinality(front) \in Nat /\ Cardinality(places) \in Nat
      /\ Cardinality(front) <= Cardinality(places)
      /\ \A k \in 1 .. Cardinality(front) : Nth(front, k) = Nth(places, k)
  BY NthOfFront
<1>3. /\ Len(At(s, front)) = Cardinality(front)
      /\ \A k \in 1 .. Cardinality(front) :
            Nth(front, k) \in front /\ At(s, front)[k] = s[Nth(front, k)]
  BY <1>1, AtLines, ZenonT(60)
<1>4. /\ Len(At(t, places)) = Cardinality(places)
      /\ \A k \in 1 .. Cardinality(places) : At(t, places)[k] = t[Nth(places, k)]
  BY AtLines
<1>5. \A k \in 1 .. Cardinality(front) : At(s, front)[k] = At(t, places)[k]
  BY <1>2, <1>3, <1>4
<1>6. /\ At(s, front) \in Seq(ToSet(At(s, front)))
      /\ At(t, places) \in Seq(ToSet(At(t, places)))
  BY <1>1, AtLines
<1>. QED
  BY <1>2, <1>3, <1>4, <1>5, <1>6, StartOf

LEMMA Counted ==
    ASSUME NEW n \in Nat, NEW l, l = n \/ l = n + 1
    PROVE  /\ l \in Nat
           /\ \A i \in 1 .. n : i \in 1 .. l /\ i <= n
           /\ \A i \in 1 .. l : i \in 1 .. n \/ (i = n + 1 /\ l = n + 1)
  OBVIOUS

(* Lines of output.                                                        *)
LEMMA OneLine ==
    ASSUME NEW line
    PROVE  FlattenSeq(<<line>>) = line
<1> DEFINE step(g) == [i \in 1 .. Len(<<line>>) |->
                          IF i = 1 THEN <<line>>[i] ELSE g[i - 1] \o <<line>>[i]]
<1> DEFINE flatten[i \in 1 .. Len(<<line>>)] ==
                          IF i = 1 THEN <<line>>[i] ELSE flatten[i - 1] \o <<line>>[i]
<1>1. \A g : step(g) = [i \in 1 .. 1 |-> line]
  OBVIOUS
<1>2. flatten = CHOOSE g : g = step(g)
  OBVIOUS
<1>3. flatten = [i \in 1 .. 1 |-> line]
  <2>. HIDE DEF flatten, step
  <2>1. step([i \in 1 .. 1 |-> line]) = [i \in 1 .. 1 |-> line]
    BY <1>1
  <2>2. flatten = step(flatten)
    BY <1>2, <2>1
  <2>. QED
    BY <1>1, <2>2
<1>4. FlattenSeq(<<line>>) = flatten[1]
  <2>. HIDE DEF step
  <2>. QED
    BY DEF FlattenSeq
<1>. HIDE DEF flatten
<1>. QED
  BY <1>3, <1>4

LEMMA NoLine == FlattenSeq(<<>>) = <<>>
  BY DEF FlattenSeq

(* What a gauge shows of all that was printed, and of a part of it.        *)
LEMMA Numbers ==
    ASSUME NEW n
    PROVE  IsNumber(Num(n)) /\ Num(n).num = n
  BY DEF IsNumber, Num, Field

LEMMA Words ==
    ASSUME NEW w
    PROVE  ~IsNumber(Word(w)) /\ Word(w).word = w
  BY DEF IsNumber, Word, Field

LEMMA MinOfOne ==
    ASSUME NEW n \in Int
    PROVE  Min({n}) = n
  BY DEF Min

(* What is left of lines that were cut off: the first n of them as they    *)
(* are, and perhaps a part of one more.                                    *)
Left(output, lines, n, shape) ==
    /\ DOMAIN output = 1 .. Len(output)
    /\ Len(output) = n \/ Len(output) = n + 1
    /\ \A i \in 1 .. n : output[i] = lines[i]
    /\ Len(output) = n + 1 => n < Len(lines) /\ output[n + 1] \in PartOf(shape, lines[n + 1])

LEMMA CutLines ==
    ASSUME NEW T, NEW lines \in Seq(T), NEW n \in 0 .. Len(lines) - 1, NEW shape,
           NEW output \in CutTo(lines, n, shape)
    PROVE  Left(output, lines, n, shape)
<1> DEFINE whole_ones == SubSeq(lines, 1, n)
<1>1. /\ whole_ones \in Seq(T) /\ Len(whole_ones) = n /\ DOMAIN whole_ones = 1 .. n
      /\ \A i \in 1 .. n : whole_ones[i] = lines[i]
  OBVIOUS
<1>2. output = whole_ones \/ \E part \in PartOf(shape, lines[n + 1]) :
                                output = Append(whole_ones, part)
  BY DEF CutTo
<1>. HIDE DEF whole_ones
<1>3. CASE output = whole_ones
  BY <1>1, <1>3 DEF Left
<1>4. ASSUME NEW part \in PartOf(shape, lines[n + 1]), output = Append(whole_ones, part)
      PROVE  Left(output, lines, n, shape)
  <2>1. /\ DOMAIN Append(whole_ones, part) = 1 .. n + 1
        /\ Len(Append(whole_ones, part)) = n + 1
        /\ \A i \in 1 .. n : Append(whole_ones, part)[i] = whole_ones[i]
        /\ Append(whole_ones, part)[n + 1] = part
    BY <1>1
  <2>2. n < Len(lines)
    OBVIOUS
  <2>. QED
    BY <1>1, <1>4, <2>1, <2>2 DEF Left
<1>. QED
  BY <1>2, <1>3, <1>4

LEMMA CutIsSeq ==
    ASSUME NEW T, NEW lines \in Seq(T), NEW n \in 0 .. Len(lines) - 1, NEW shape,
           NEW output \in CutTo(lines, n, shape)
    PROVE  output \in Seq(ToSet(output))
<1> DEFINE whole_ones == SubSeq(lines, 1, n)
<1>1. whole_ones \in Seq(ToSet(whole_ones))
  <2>1. whole_ones \in Seq(T)
    OBVIOUS
  <2>. HIDE DEF whole_ones
  <2>. QED
    BY <2>1 DEF ToSet
<1>2. output = whole_ones \/ \E part \in PartOf(shape, lines[n + 1]) :
                                output = Append(whole_ones, part)
  BY DEF CutTo
<1>. HIDE DEF whole_ones
<1>3. \A part : Append(whole_ones, part) \in Seq(ToSet(Append(whole_ones, part)))
  BY <1>1, Grows
<1>. QED
  BY <1>1, <1>2, <1>3, Zenon

LEMMA AllLeft ==
    ASSUME NEW T, NEW lines \in Seq(T), NEW shape
    PROVE  Left(lines, lines, Len(lines), shape)
  BY DEF Left

LEMMA NothingLeft ==
    ASSUME NEW T, NEW lines \in Seq(T), NEW shape
    PROVE  Left(<<>>, lines, 0, shape)
  BY DEF Left

-------------------------------------------------------------------------------
(* The reading.                                                            *)

(* What has come back of the command that printed these lines: all if it is*)
(* known to be whole.                                                      *)
CameBack(i, output, lines) ==
    \/ i \in whole /\ output = lines
    \/ /\ i \notin whole /\ i \in DOMAIN Script.cut
       /\ \E n \in 0 .. Len(lines) - 1 : output \in CutTo(lines, n, Script.cut[i])
    \/ i \notin whole /\ i \in Script.tolerated /\ output = Unread(i)

(* A reading remembers of each of its commands what the subject was when it*)
(* ran, and has of it what it printed of that; it has less only of those of*)
(* which it is known not to have all.                                      *)
ReadingInv ==
    /\ reader \in DOMAIN Readings
    /\ fact \in Facts[Script.on]
    /\ outputs \in Seq(ToSet(outputs)) /\ seen \in Seq(ToSet(seen))
    /\ Len(outputs) = Len(seen)
    /\ whole \subseteq 1 .. Len(outputs)
    /\ \A i \in 1 .. Len(outputs) :
          /\ seen[i] \in Facts[Script.on]
          /\ CameBack(i, outputs[i], Printed(seen[i], SubSeq(outputs, 1, i - 1))[i])

LEMMA OneMore ==
    ASSUME ReadingInv, NEW output, Prints(output), whole' \in {whole, whole \union {Current}},
           NEW now, now = Current, NEW lines, lines = Printed(fact, outputs)[now],
           CameBack(now, output, lines)'
    PROVE  ReadingInv'
<1>1. reader' = reader /\ Script' = Script /\ fact' = fact
  BY DEF Prints, Script
<1>2. outputs' = Append(outputs, output) /\ seen' = Append(seen, fact)
  BY DEF Prints
<1>3. /\ outputs' \in Seq(ToSet(outputs')) /\ seen' \in Seq(ToSet(seen'))
      /\ Len(outputs) \in Nat /\ Len(outputs') = Current /\ Len(seen') = Current
      /\ outputs'[Current] = output /\ seen'[Current] = fact
      /\ SubSeq(outputs', 1, Current - 1) = outputs
      /\ \A i \in 1 .. Len(outputs) :
            /\ outputs'[i] = outputs[i] /\ seen'[i] = seen[i]
            /\ SubSeq(outputs', 1, i - 1) = SubSeq(outputs, 1, i - 1)
  <2>1. outputs \in Seq(ToSet(outputs)) /\ seen \in Seq(ToSet(seen)) /\ Len(outputs) = Len(seen)
    BY DEF ReadingInv
  <2>2. /\ Append(outputs, output) \in Seq(ToSet(Append(outputs, output)))
        /\ Len(outputs) \in Nat /\ Len(Append(outputs, output)) = Len(outputs) + 1
        /\ Append(outputs, output)[Len(outputs) + 1] = output
        /\ SubSeq(Append(outputs, output), 1, Len(outputs)) = outputs
        /\ \A i \in 1 .. Len(outputs) :
              /\ Append(outputs, output)[i] = outputs[i]
              /\ SubSeq(Append(outputs, output), 1, i - 1) = SubSeq(outputs, 1, i - 1)
    BY <2>1, Grows
  <2>3. /\ Append(seen, fact) \in Seq(ToSet(Append(seen, fact)))
        /\ Len(Append(seen, fact)) = Len(seen) + 1
        /\ Append(seen, fact)[Len(seen) + 1] = fact
        /\ \A i \in 1 .. Len(seen) : Append(seen, fact)[i] = seen[i]
    BY <2>1, Grows
  <2>4. (Len(outputs) + 1) - 1 = Len(outputs)
    BY <2>2
  <2>. QED
    BY <1>2, <2>1, <2>2, <2>3, <2>4, Zenon DEF Current
<1>4. Current = Len(outputs) + 1
  BY DEF Current
<1>5. whole' \subseteq 1 .. Len(outputs')
  <2>1. \A j \in whole : j \in 1 .. Len(outputs)
    BY DEF ReadingInv
  <2>2. \A j \in whole' : j \in 1 .. Len(outputs')
    BY <1>3, <1>4, <2>1
  <2>. QED
    BY <2>2
<1>6. ASSUME NEW j \in 1 .. Len(outputs)
      PROVE  /\ seen'[j] \in Facts[Script.on]
             /\ CameBack(j, outputs[j], Printed(seen[j], SubSeq(outputs, 1, j - 1))[j])'
  <2>1. /\ seen[j] \in Facts[Script.on]
        /\ CameBack(j, outputs[j], Printed(seen[j], SubSeq(outputs, 1, j - 1))[j])
    BY DEF ReadingInv
  <2>2. j # Current
    BY <1>3, <1>4
  <2>3. j \in whole' <=> j \in whole
    BY <2>2
  <2>4. Printed(seen[j], SubSeq(outputs, 1, j - 1))' = Printed(seen[j], SubSeq(outputs, 1, j - 1))
    BY <1>1, <1>3 DEF Printed
  <2>5. outputs'[j] = outputs[j] /\ seen'[j] = seen[j]
    BY <1>3
  <2>. QED
    BY <1>1, <2>1, <2>3, <2>4, <2>5 DEF CameBack, Script, Unread
<1>7. ASSUME NEW j, j = now
      PROVE  /\ seen'[j] \in Facts[Script.on]
             /\ CameBack(j, outputs[j], Printed(seen[j], SubSeq(outputs, 1, j - 1))[j])'
  <2>1. outputs'[j] = output /\ seen'[j] = fact /\ SubSeq(outputs', 1, j - 1) = outputs
    BY <1>3, <1>7, Zenon
  <2>2. Printed(seen[j], SubSeq(outputs, 1, j - 1))' = Printed(fact, outputs)
    BY <1>1, <2>1 DEF Printed
  <2>. QED
    BY <1>1, <1>7, <2>1, <2>2 DEF CameBack, Script, Unread, ReadingInv
<1>8. \A j \in 1 .. Len(outputs') : j \in 1 .. Len(outputs) \/ j = now
  BY <1>3, <1>4
<1>. QED
  BY <1>1, <1>3, <1>5, <1>6, <1>7, <1>8 DEF ReadingInv

LEMMA NoMore ==
    ASSUME ReadingInv, UNCHANGED <<reader, outputs, seen, whole>>, fact' \in Facts[Script.on]
    PROVE  ReadingInv'
<1>1. reader' = reader /\ Script' = Script
  BY DEF Script
<1>2. ASSUME NEW j \in 1 .. Len(outputs)
      PROVE  /\ seen'[j] \in Facts[Script.on]
             /\ CameBack(j, outputs[j], Printed(seen[j], SubSeq(outputs, 1, j - 1))[j])'
  <2>1. /\ seen[j] \in Facts[Script.on]
        /\ CameBack(j, outputs[j], Printed(seen[j], SubSeq(outputs, 1, j - 1))[j])
    BY DEF ReadingInv
  <2>2. Printed(seen[j], SubSeq(outputs, 1, j - 1))' = Printed(seen[j], SubSeq(outputs, 1, j - 1))
    BY <1>1 DEF Printed
  <2>. QED
    BY <1>1, <2>1, <2>2 DEF CameBack, Script, Unread
<1>. QED
  BY <1>1, <1>2 DEF ReadingInv

LEMMA ReadingStep ==
    ASSUME ReadingInv, [Next]_vars
    PROVE  ReadingInv'
<1>1. PICK i : i = Current
  OBVIOUS
<1>2. PICK lines : lines = Printed(fact, outputs)[i]
  OBVIOUS
<1>3. CASE Whole
  <2>1. Prints(lines) /\ whole' = whole \union {Current}
    BY <1>1, <1>2, <1>3 DEF Whole
  <2>2. CameBack(i, lines, lines)'
    <3>1. i \in whole'
      BY <1>1, <2>1
    <3>2. lines' = lines
      OBVIOUS
    <3>. QED
      BY <3>1 DEF CameBack
  <2>. QED
    BY <1>1, <1>2, <2>1, <2>2, OneMore
<1>4. CASE CutOff
  <2>1. PICK n \in 0 .. Len(lines) - 1 :
                \E output \in CutTo(lines, n, Script.cut[i]) : Prints(output)
    BY <1>1, <1>2, <1>4 DEF CutOff
  <2>2. PICK output \in CutTo(lines, n, Script.cut[i]) : Prints(output)
    BY <2>1
  <2>3. reader' = reader /\ Script' = Script /\ i \in DOMAIN Script.cut /\ whole' = whole
    BY <1>1, <1>4, <2>2 DEF CutOff, Mishap, Prints, Script
  <2>4. i \notin whole
    BY <1>1 DEF ReadingInv, Current
  <2>5. CameBack(i, output, lines)'
    BY <2>1, <2>2, <2>3, <2>4 DEF CameBack
  <2>. QED
    BY <1>1, <1>2, <2>2, <2>3, <2>5, OneMore
<1>5. CASE Fails
  <2>1. PICK out : out = Unread(i)
    OBVIOUS
  <2>2. Prints(out) /\ i \in Script.tolerated /\ whole' = whole
    BY <1>1, <1>5, <2>1 DEF Fails, Mishap
  <2>3. reader' = reader /\ Script' = Script
    BY <2>2 DEF Prints, Script
  <2>4. i \notin whole
    BY <1>1 DEF ReadingInv, Current
  <2>5. CameBack(i, out, lines)'
    BY <2>1, <2>2, <2>3, <2>4 DEF CameBack, Unread
  <2>. QED
    BY <1>1, <1>2, <2>2, <2>5, OneMore
<1>6. CASE HostChanges
  <2>1. /\ fact' \in Facts[Script.on]
        /\ UNCHANGED <<reader, outputs, seen, whole>>
    BY <1>6 DEF HostChanges
  <2>. QED
    BY <2>1, NoMore
<1>7. CASE UNCHANGED vars
  BY <1>7, NoMore DEF vars, ReadingInv
<1>. QED
  BY <1>3, <1>4, <1>5, <1>6, <1>7 DEF Next, Finished

(* For all 19 readings and any facts: what a command is known to have      *)
(* printed is what it prints of the subject as it was when the command ran,*)
(* and it is whole, or cut off where the connector may cut it, or nothing  *)
(* of a command that may fail; and the outputs and what was seen stay in   *)
(* step with each other.                                                   *)
THEOREM ReadingKnown == Spec => []ReadingInv
<1>1. Init => ReadingInv
  BY DEF Init, ReadingInv, Script
<1>2. ReadingInv /\ [Next]_vars => ReadingInv'
  BY ReadingStep
<1>. QED
  BY <1>1, <1>2, PTL DEF Spec

LEMMA WholeBack ==
    ASSUME ReadingInv, Script.commands \in Nat, Current > Script.commands,
           NEW i \in 1 .. Script.commands
    PROVE  /\ seen[i] \in Facts[Script.on]
           /\ Complete(i) => outputs[i] = Printed(seen[i], SubSeq(outputs, 1, i - 1))[i]
<1>1. Len(outputs) \in Nat
  BY DEF ReadingInv
<1>2. i \in 1 .. Len(outputs)
  BY <1>1 DEF Current
<1>3. /\ seen[i] \in Facts[Script.on]
      /\ CameBack(i, outputs[i], Printed(seen[i], SubSeq(outputs, 1, i - 1))[i])
  BY <1>2 DEF ReadingInv
<1>. QED
  BY <1>3 DEF CameBack, Complete

(* What has come back of a command that is run on the host itself.         *)
LEMMA LocalBack ==
    ASSUME ReadingInv, Script.cut = <<>>, Script.commands \in Nat, Current > Script.commands,
           NEW i \in 1 .. Script.commands
    PROVE  /\ seen[i] \in Facts[Script.on]
           /\ Complete(i) \/ i \in Script.tolerated
           /\ Complete(i) => outputs[i] = Printed(seen[i], SubSeq(outputs, 1, i - 1))[i]
           /\ ~Complete(i) => outputs[i] = Unread(i)
<1>1. Len(outputs) \in Nat
  BY DEF ReadingInv
<1>2. i \in 1 .. Len(outputs)
  BY <1>1 DEF Current
<1>3. /\ seen[i] \in Facts[Script.on]
      /\ CameBack(i, outputs[i], Printed(seen[i], SubSeq(outputs, 1, i - 1))[i])
  BY <1>2 DEF ReadingInv
<1>4. i \notin DOMAIN Script.cut
  OBVIOUS
<1>. QED
  BY <1>3, <1>4 DEF CameBack, Complete

-------------------------------------------------------------------------------
(* What is kept of lines.                                                  *)

(* Of lines of fields.                                                     *)
Kept(output, lines, n) == Left(output, lines, n, "fields")

(* What has come back of a command that prints lines.                      *)
LEMMA Back ==
    ASSUME ReadingInv, Script.commands \in Nat, Current > Script.commands,
           reader \notin {"docker_collector", "kubernetes_collector"},
           NEW i \in 1 .. Script.commands, NEW lines, lines \in Seq(ToSet(lines)),
           lines = Printed(seen[i], SubSeq(outputs, 1, i - 1))[i],
           NEW shape, i \in DOMAIN Script.cut => Script.cut[i] = shape
    PROVE  /\ seen[i] \in Facts[Script.on]
           /\ \E n \in 0 .. Len(lines) :
                 Left(outputs[i], lines, n, shape) /\ (Complete(i) => n = Len(lines))
<1>1. Len(outputs) \in Nat
  BY DEF ReadingInv
<1>2. i \in 1 .. Len(outputs)
  BY <1>1 DEF Current
<1>3. seen[i] \in Facts[Script.on] /\ CameBack(i, outputs[i], lines)
  BY <1>2 DEF ReadingInv
<1>4. CASE i \in whole /\ outputs[i] = lines
  <2>1. Left(lines, lines, Len(lines), shape) /\ Len(lines) \in 0 .. Len(lines)
    BY AllLeft
  <2>. QED
    BY <1>3, <1>4, <2>1 DEF Complete
<1>5. CASE /\ i \notin whole /\ i \in DOMAIN Script.cut
           /\ \E n \in 0 .. Len(lines) - 1 : outputs[i] \in CutTo(lines, n, Script.cut[i])
  <2>1. PICK n \in 0 .. Len(lines) - 1 : outputs[i] \in CutTo(lines, n, shape)
    BY <1>5
  <2>2. Left(outputs[i], lines, n, shape)
    BY <2>1, CutLines
  <2>3. n \in 0 .. Len(lines)
    OBVIOUS
  <2>. QED
    BY <1>3, <1>5, <2>2, <2>3 DEF Complete
<1>6. CASE i \notin whole /\ outputs[i] = Unread(i)
  <2>1. outputs[i] = <<>>
    BY <1>6 DEF Unread
  <2>2. 0 \in 0 .. Len(lines) /\ Left(<<>>, lines, 0, shape)
    BY NothingLeft
  <2>. QED
    BY <1>3, <1>6, <2>1, <2>2 DEF Complete
<1>. QED
  BY <1>3, <1>4, <1>5, <1>6 DEF CameBack

LEMMA TableBack ==
    ASSUME ReadingInv, Script.commands = 1, Script.cut[1] = "fields", Current > Script.commands,
           reader \in {"discovery_memory", "telemetry_processes"},
           NEW lines, lines \in Seq(ToSet(lines)),
           lines = Printed(seen[1], SubSeq(outputs, 1, 1 - 1))[1]
    PROVE  \E n \in 0 .. Len(lines) :
              Kept(outputs[1], lines, n) /\ (Complete(1) => n = Len(lines))
<1>1. /\ 1 \in DOMAIN Script.cut => Script.cut[1] = "fields"
      /\ Script.commands \in Nat /\ 1 \in 1 .. Script.commands
  OBVIOUS
<1>2. reader \notin {"docker_collector", "kubernetes_collector"}
  OBVIOUS
<1>. QED
  BY <1>1, <1>2, Back, Zenon DEF Kept

(* What is kept of the lines after the header.                             *)
LEMMA Headless ==
    ASSUME NEW lines, NEW body, Len(body) \in Nat, Len(lines) = Len(body) + 1,
           \A i \in 1 .. Len(body) : lines[i + 1] = body[i],
           NEW n \in 0 .. Len(lines), NEW output, Kept(output, lines, n)
    PROVE  Kept(SubSeq(output, 2, Len(output)), body, IF n = 0 THEN 0 ELSE n - 1)
<1> DEFINE rows == SubSeq(output, 2, Len(output))
<1>0. Len(lines) \in Nat /\ n \in Nat
  OBVIOUS
<1>1. Len(output) = n \/ Len(output) = n + 1
  BY Zenon DEF Kept, Left
<1>2. Len(output) \in Nat
  BY <1>0, <1>1
<1>3. /\ rows \in Seq(ToSet(output))
      /\ Len(rows) = IF 2 <= Len(output) THEN Len(output) - 1 ELSE 0
      /\ \A i \in 1 .. Len(output) - 1 : rows[i] = output[i + 1]
  <2>1. \A i \in 2 .. Len(output) : output[i] \in ToSet(output)
    <3>1. DOMAIN output = 1 .. Len(output)
      BY Zenon DEF Kept, Left
    <3>2. \A i \in 2 .. Len(output) : i \in DOMAIN output
      BY <1>2, <3>1
    <3>. QED
      BY <3>2, Zenon DEF ToSet
  <2>2. /\ SubSeq(output, 2, Len(output)) \in Seq(ToSet(output))
        /\ Len(SubSeq(output, 2, Len(output)))
              = IF 2 <= Len(output) THEN Len(output) - 2 + 1 ELSE 0
        /\ \A i \in 1 .. Len(output) - 2 + 1 :
              SubSeq(output, 2, Len(output))[i] = output[2 + i - 1]
    BY <1>2, <2>1, SubSeqProperties
  <2>. QED
    BY <1>2, <2>2
<1>4. DOMAIN rows = 1 .. Len(rows)
  BY <1>3, LenProperties
<1>. HIDE DEF rows
<1>5. CASE n = 0
  <2>1. Len(output) = 0 \/ Len(output) = 1
    BY <1>5 DEF Kept, Left
  <2>. QED
    BY <1>3, <1>4, <1>5, <2>1 DEF Kept, Left, rows
<1>6. CASE n # 0
  <2>0. Len(rows) = IF 2 <= Len(output) THEN Len(output) - 1 ELSE 0
    BY <1>3
  <2>1. Len(rows) = n - 1 \/ Len(rows) = n
    BY <1>0, <1>1, <1>6, <2>0
  <2>2. \A i \in 1 .. n - 1 : rows[i] = body[i]
    <3>1. \A i \in 1 .. n - 1 : /\ i + 1 \in 1 .. n
                                /\ i \in 1 .. Len(output) - 1
                                /\ i \in 1 .. Len(body)
      BY <1>0, <1>1, <1>2, <1>6
    <3>. QED
      BY <1>3, <3>1 DEF Kept, Left
  <2>3. ASSUME Len(rows) = n
        PROVE  n - 1 < Len(body) /\ rows[n] \in PartOf("fields", body[n])
    <3>1. Len(output) = n + 1
      BY <1>0, <1>1, <1>6, <2>0, <2>3
    <3>2. rows[n] = output[n + 1]
      BY <1>3, <1>6, <3>1
    <3>3. n < Len(lines) /\ n \in 1 .. Len(body)
      BY <1>6, <3>1 DEF Kept, Left
    <3>4. lines[n + 1] = body[n]
      BY <3>3
    <3>. QED
      BY <3>1, <3>2, <3>3, <3>4 DEF Kept, Left
  <2>4. (n - 1) + 1 = n
    OBVIOUS
  <2>. QED
    BY <1>4, <1>6, <2>1, <2>2, <2>3, <2>4 DEF Kept, Left, rows
<1>. QED
  BY <1>5, <1>6

(* A part of a line: its first fields, the last of which may be torn.      *)
IsPart(part, line) ==
    /\ part \in Seq(ToSet(part)) /\ DOMAIN part = 1 .. Len(part)
    /\ Len(part) \in 1 .. Len(line)
    /\ \A i \in 1 .. Len(part) - 1 : part[i] = line[i]
    /\ \/ Len(part) < Len(line) /\ part[Len(part)] = line[Len(part)]
       \/ part[Len(part)] \in Torn(line[Len(part)])

LEMMA PartIs ==
    ASSUME NEW T, NEW line \in Seq(T), NEW part \in PartOf("fields", line)
    PROVE  IsPart(part, line)
<1>1. part \in Parts(line)
  BY DEF PartOf
<1>2. ASSUME NEW k \in 1 .. Len(line) - 1, part = SubSeq(line, 1, k)
      PROVE  IsPart(part, line)
  <2>1. /\ Len(SubSeq(line, 1, k)) = k /\ DOMAIN SubSeq(line, 1, k) = 1 .. k
        /\ \A i \in 1 .. k : SubSeq(line, 1, k)[i] = line[i]
    OBVIOUS
  <2>2. SubSeq(line, 1, k) \in Seq(T)
    OBVIOUS
  <2>3. part \in Seq(T)
    BY <1>2, <2>2, Zenon
  <2>4. part \in Seq(ToSet(part))
    BY <2>3 DEF ToSet
  <2>. QED
    BY <1>2, <2>1, <2>4 DEF IsPart
<1>3. ASSUME NEW k \in DOMAIN line, NEW field \in Torn(line[k]),
             part = Append(SubSeq(line, 1, k - 1), field)
      PROVE  IsPart(part, line)
  <2> DEFINE before == SubSeq(line, 1, k - 1)
  <2>1. /\ before \in Seq(T) /\ Len(before) = k - 1
        /\ \A i \in 1 .. k - 1 : before[i] = line[i]
    OBVIOUS
  <2>2. k \in 1 .. Len(line)
    OBVIOUS
  <2>. HIDE DEF before
  <2>3. /\ Len(Append(before, field)) = k /\ DOMAIN Append(before, field) = 1 .. k
        /\ \A i \in 1 .. k - 1 : Append(before, field)[i] = before[i]
        /\ Append(before, field)[k] = field
    BY <2>1, <2>2
  <2>4. Append(before, field) \in Seq(ToSet(Append(before, field)))
    <3>1. before \in Seq(ToSet(before))
      BY <2>1 DEF ToSet
    <3>. QED
      BY <3>1, Grows
  <2>. QED
    BY <1>3, <2>1, <2>2, <2>3, <2>4 DEF IsPart, before
<1>. QED
  BY <1>1, <1>2, <1>3 DEF Parts

(* What is torn of a word or a number.                                     *)
LEMMA TornWord ==
    ASSUME NEW w, NEW field \in Torn(Word(w))
    PROVE  field = Broken \/ field = Word("user")
  BY Zenon DEF Torn, Word, Field

LEMMA TornNumber ==
    ASSUME NEW n, NEW field \in Torn(Num(n))
    PROVE  \E m \in Leading(n) : field = Num(m)
<1>1. Num(n).kind = "number" /\ Num(n).num = n
  BY DEF Num, Field
<1>2. Num(n) # Word("users") /\ Num(n) # Word("/")
  BY <1>1 DEF Word, Field
<1>3. Torn(Num(n)) = {Num(m) : m \in Leading(Num(n).num)}
  BY <1>1, <1>2, Zenon DEF Torn
<1>. QED
  BY <1>1, <1>3, Zenon

(* What is read of the lines that are kept is read back of all the lines.  *)
LEMMA ReadsFront ==
    ASSUME NEW m \in Nat, NEW places, \A p \in places : p \in 1 .. m,
           NEW n \in 0 .. m, NEW front, front = {p \in places : p <= n},
           NEW s, NEW t, \A p \in front : s[p] = t[p], Complete(1) => n = m
    PROVE  ReadsBack(At(s, front), At(t, places))
<1>1. IsPrefix(At(s, front), At(t, places))
  BY FrontAt
<1>2. ASSUME n = m
      PROVE  At(s, front) = At(t, places)
  <2>1. front = places
    BY <1>2
  <2>. QED
    BY <2>1, SameAt
<1>. QED
  BY <1>1, <1>2 DEF ReadsBack

-------------------------------------------------------------------------------
(* The gauges: what one shows of all that was printed, and of a part of it.*)

(* Hundredths of a percent of the processor, and megabytes of the thousand *)
(* there are.                                                              *)
AnyLoad == [cpu : Nat, memory : Nat, comma : BOOLEAN]

Gauges == {"telemetry_cpu", "telemetry_memory"}

(* What the only command of a gauge prints.                                *)
Screen(r, f) == IF r = "telemetry_cpu" THEN top(f) ELSE free(f)

(* What may be left of it when the connector does not wait for its end.    *)
IsPiece(part, lines) ==
    part \in Seq(ToSet(part)) /\ \E n \in 0 .. Len(lines) - 1 : Kept(part, lines, n)

LEMMA GaugeScript ==
    ASSUME NEW r \in Gauges
    PROVE  r \in DOMAIN Readings /\ Readings[r] = Remote("load", <<"fields">>)
  BY DEF Gauges, Readings

LEMMA GaugePrints ==
    ASSUME reader \in Gauges, NEW f, NEW before
    PROVE  Printed(f, before) = <<Screen(reader, f)>>
  BY DEF Gauges, Printed, Screen

(* The line about the CPU.                                                 *)
IsCPULine(line, f) ==
    /\ line \in Seq(ToSet(line)) /\ Len(line) = 5 /\ DOMAIN line = 1 .. 5
    /\ line[1] = Word("%Cpu(s):") /\ line[2] = Num(f.cpu) /\ line[3] = Word("us")
    /\ line[4] = IF f.comma THEN Word("comma") ELSE Num(10000 - f.cpu)
    /\ line[5] = Word("id")

LEMMA TopPrints ==
    ASSUME NEW f
    PROVE  \E line : top(f) = <<line>> /\ IsCPULine(line, f)
<1> DEFINE four == IF f.comma THEN Word("comma") ELSE Num(10000 - f.cpu)
<1> DEFINE line == <<Word("%Cpu(s):"), Num(f.cpu), Word("us"), four, Word("id")>>
<1>1. top(f) = <<line>>
  BY DEF top
<1>2. line \in Seq(ToSet(line))
  BY DEF ToSet
<1>3. IsCPULine(line, f)
  BY <1>2 DEF IsCPULine
<1>. QED
  BY <1>1, <1>3

LEMMA IdleFound ==
    ASSUME NEW f, NEW line, IsCPULine(line, f)
    PROVE  {i \in 2 .. 5 : line[i] = Word("id") /\ IsNumber(line[i - 1])}
              = IF f.comma THEN {} ELSE {5}
<1>1. ~IsNumber(line[1]) /\ IsNumber(line[2]) /\ ~IsNumber(line[3])
  BY Numbers, Words DEF IsCPULine
<1>2. IsNumber(line[4]) <=> ~f.comma
  BY Numbers, Words DEF IsCPULine
<1>3. line[3] # Word("id")
  BY Words DEF IsCPULine
<1>4. ASSUME NEW i \in 2 .. 5
      PROVE  line[i] = Word("id") /\ IsNumber(line[i - 1]) <=> i = 5 /\ ~f.comma
  <2>1. CASE i = 2
    BY <1>1, <2>1
  <2>2. CASE i = 3
    BY <1>3, <2>2
  <2>3. CASE i = 4
    BY <1>1, <2>3
  <2>4. CASE i = 5
    <3>1. line[i] = Word("id") /\ line[i - 1] = line[4]
      BY <2>4 DEF IsCPULine
    <3>. QED
      BY <1>2, <2>4, <3>1
  <2>. QED
    BY <2>1, <2>2, <2>3, <2>4
<1>. QED
  BY <1>4

(* What a sample says of the usage.                                        *)
Tells(sample, usage) ==
    "usage_percent" \in DOMAIN sample /\ sample.usage_percent = usage

(* All that top printed tells the usage, unless there is a comma in it;    *)
(* then the CPU is taken to be idle.                                       *)
LEMMA CPUShown ==
    ASSUME NEW f \in AnyLoad
    PROVE  Tells(CPUTelemetryParser(top(f)), IF f.comma THEN 0 ELSE f.cpu)
<1>1. PICK line : top(f) = <<line>> /\ IsCPULine(line, f)
  BY TopPrints
<1> DEFINE shown == FlattenSeq(top(f))
<1>2. shown = line
  BY <1>1, OneLine
<1> DEFINE ids == {i \in 2 .. Len(shown) : shown[i] = Word("id") /\ IsNumber(shown[i - 1])}
<1>3. ids = IF f.comma THEN {} ELSE {5}
  <2>. HIDE DEF shown
  <2>1. Len(shown) = 5
    BY <1>1, <1>2, Zenon DEF IsCPULine
  <2>2. {i \in 2 .. 5 : shown[i] = Word("id") /\ IsNumber(shown[i - 1])}
           = IF f.comma THEN {} ELSE {5}
    BY <1>1, <1>2, IdleFound, Zenon
  <2>. QED
    BY <2>1, <2>2, Zenon
<1>4. CASE f.comma
  <2>1. ~IsNumber(line[1])
    BY <1>1, Words DEF IsCPULine
  <2>2. ~AllNumbers(line, 1 .. 3)
    BY <2>1 DEF AllNumbers
  <2>. QED
    BY <1>2, <1>3, <1>4, <2>2 DEF CPUTelemetryParser, Tells
<1>5. CASE ~f.comma
  <2>2. Min({5}) = 5
    BY MinOfOne
  <2>3. line[4].num = 10000 - f.cpu
    BY <1>1, <1>5, Numbers DEF IsCPULine
  <2>6. ids # {} /\ Min(ids) = 5
    BY <1>3, <1>5, <2>2, Zenon
  <2>7. Tells(CPUTelemetryParser(top(f)), 10000 - shown[Min(ids) - 1].num)
    BY <2>6 DEF CPUTelemetryParser, Tells
  <2>4. Tells(CPUTelemetryParser(top(f)), 10000 - line[Min({5}) - 1].num)
    BY <1>2, <2>2, <2>6, <2>7
  <2>5. f.cpu \in Int
    BY DEF AnyLoad
  <2>. QED
    BY <1>5, <2>2, <2>3, <2>4, <2>5
<1>. QED
  BY <1>4, <1>5 DEF AnyLoad

(* A part of it holds no idle time and, beginning with a word, no load     *)
(* averages either: the CPU is taken to be idle.                           *)
LEMMA NotLast ==
    ASSUME NEW m \in Nat, NEW n \in 1 .. m, NEW i \in 1 .. n - 1
    PROVE  ~(i = m)
  OBVIOUS

LEMMA CPUPart ==
    ASSUME NEW f, NEW line, IsCPULine(line, f), NEW shown, IsPart(shown, line),
           NEW i \in 2 .. Len(shown), shown[i] = Word("id"), IsNumber(shown[i - 1])
    PROVE  FALSE
<1>0. Len(shown) \in 1 .. Len(line) /\ Len(line) = 5
  <2>1. Len(shown) \in 1 .. Len(line)
    BY DEF IsPart
  <2>2. Len(line) = 5
    BY DEF IsCPULine
  <2>. QED
    BY <2>1, <2>2
<1>1. Len(line) = 5 /\ Len(shown) \in 1 .. 5 /\ i \in 2 .. 5
  BY <1>0
<1>2. shown[i - 1] = line[i - 1]
  <2>1. i - 1 \in 1 .. Len(shown) - 1
    BY <1>1
  <2>. QED
    BY <2>1, Zenon DEF IsPart
<1>3. CASE shown[i] = line[i] /\ ~(i = 5)
  <2>1. i \in {j \in 2 .. 5 : line[j] = Word("id") /\ IsNumber(line[j - 1])}
    BY <1>1, <1>2, <1>3
  <2>2. i \in IF f.comma THEN {} ELSE {5}
    BY <2>1, IdleFound
  <2>. QED
    BY <1>3, <2>2
<1>4. CASE shown[i] \in Torn(line[i])
  <2>1. Broken # Word("id") /\ Word("user") # Word("id")
    BY Zenon DEF Broken, Word, Field
  <2>2. \A n : Num(n) # Word("id")
    BY Zenon DEF Num, Word, Field
  <2>3. (\E w : line[i] = Word(w)) \/ \E n : line[i] = Num(n)
    <3>1. i = 2 \/ i = 3 \/ i = 4 \/ i = 5
      BY <1>1
    <3>2. /\ line[2] = Num(f.cpu) /\ line[3] = Word("us") /\ line[5] = Word("id")
          /\ line[4] = Word("comma") \/ line[4] = Num(10000 - f.cpu)
      BY DEF IsCPULine
    <3>. QED
      BY <3>1, <3>2
  <2>. QED
    BY <1>4, <2>1, <2>2, <2>3, TornWord, TornNumber
<1>5. (shown[i] = line[i] /\ ~(i = 5)) \/ shown[i] \in Torn(line[i])
  <2>1. CASE i \in 1 .. Len(shown) - 1
    <3>1. shown[i] = line[i]
      BY <2>1, Zenon DEF IsPart
    <3>3. ~(i = 5)
      BY <1>1, <2>1, NotLast, Zenon
    <3>. QED
      BY <3>1, <3>3
  <2>2. CASE i = Len(shown)
    <3>1. \/ Len(shown) < Len(line) /\ shown[i] = line[i]
          \/ shown[i] \in Torn(line[i])
      BY <2>2, Zenon DEF IsPart
    <3>2. Len(shown) < Len(line) => ~(i = 5)
      BY <1>1, <2>2
    <3>. QED
      BY <3>1, <3>2, Zenon
  <2>. QED
    BY <1>1, <2>1, <2>2
<1>. QED
  BY <1>3, <1>4, <1>5

LEMMA CPUCutOff ==
    ASSUME NEW f, NEW part, IsPiece(part, top(f))
    PROVE  Tells(CPUTelemetryParser(part), 0)
<1>1. PICK line : top(f) = <<line>> /\ IsCPULine(line, f)
  BY TopPrints
<1>2. Len(top(f)) = 1 /\ top(f)[1] = line
  <2>1. Len(<<line>>) = 1 /\ <<line>>[1] = line
    OBVIOUS
  <2>. QED
    BY <1>1, <2>1
<1>3. part \in Seq(ToSet(part)) /\ Kept(part, top(f), 0)
  BY <1>2 DEF IsPiece
<1> DEFINE shown == FlattenSeq(part)
<1>4. \/ shown = <<>>
      \/ IsPart(shown, line)
  <2>0. DOMAIN part = 1 .. Len(part) /\ (Len(part) = 0 \/ Len(part) = 1)
    BY <1>3 DEF Kept, Left
  <2>1. CASE Len(part) = 0
    <3>1. part = <<>>
      BY <2>0, <2>1
    <3>. QED
      BY <3>1, NoLine
  <2>2. CASE Len(part) = 1
    <3>1. part[1] \in PartOf("fields", line)
      BY <1>2, <1>3, <2>2 DEF Kept, Left
    <3>2. IsPart(part[1], line)
      <4>1. line \in Seq(ToSet(line))
        BY <1>1 DEF IsCPULine
      <4>. QED
        BY <3>1, <4>1, PartIs
    <3>3. part = <<part[1]>>
      BY <1>3, <2>2
    <3>4. shown = part[1]
      BY <3>3, OneLine
    <3>. QED
      BY <3>2, <3>4
  <2>. QED
    BY <2>0, <2>1, <2>2
<1> DEFINE ids == {i \in 2 .. Len(shown) : shown[i] = Word("id") /\ IsNumber(shown[i - 1])}
<1>. HIDE DEF shown
<1>5. ids = {}
  <2>1. ASSUME NEW i \in ids
        PROVE  FALSE
    <3>1. i \in 2 .. Len(shown) /\ shown[i] = Word("id") /\ IsNumber(shown[i - 1])
      OBVIOUS
    <3>2. CASE shown = <<>>
      BY <3>1, <3>2
    <3>3. CASE IsPart(shown, line)
      BY <1>1, <3>1, <3>3, CPUPart
    <3>. QED
      BY <1>4, <3>2, <3>3
  <2>. QED
    BY <2>1
<1>6. ~(Len(shown) >= 3 /\ AllNumbers(shown, 1 .. 3))
  <2>1. ~IsNumber(line[1])
    BY <1>1, Words DEF IsCPULine
  <2>2. CASE shown = <<>>
    BY <2>2
  <2>3. ASSUME IsPart(shown, line), Len(shown) >= 3
        PROVE  ~AllNumbers(shown, 1 .. 3)
    <3>1. shown[1] = line[1] /\ 1 \in 1 .. 3
      BY <2>3 DEF IsPart
    <3>. QED
      BY <2>1, <3>1, Zenon DEF AllNumbers
  <2>. QED
    BY <1>4, <2>2, <2>3
<1>. QED
  BY <1>5, <1>6 DEF CPUTelemetryParser, Tells, shown

(* The lines about the memory, one of them the one that is looked for.     *)
AreMemoryLines(lines, f) ==
    /\ lines \in Seq({lines[1], lines[2], lines[3]}) /\ Len(lines) = 3
    /\ Len(lines[1]) = 3 /\ lines[1][1] = Word("total")
    /\ Len(lines[2]) = 7 /\ lines[2][1] = Word("Mem:")
    /\ lines[2][2] = Num(1000) /\ lines[2][3] = Num(f.memory)
    /\ Len(lines[3]) = 4 /\ lines[3][1] = Word("Swap:")
    /\ \A i \in 1 .. 3 : lines[i] \in Seq(ToSet(lines[i]))

LEMMA FreePrints ==
    ASSUME NEW f
    PROVE  AreMemoryLines(free(f), f)
<1> DEFINE head == <<Word("total"), Word("used"), Word("free")>>
<1> DEFINE mem == <<Word("Mem:"), Num(1000), Num(f.memory), Num(1000 - f.memory), Num(0), Num(0),
                    Num(1000 - f.memory)>>
<1> DEFINE swap == <<Word("Swap:"), Num(0), Num(0), Num(0)>>
<1>1. free(f) = <<head, mem, swap>>
  BY DEF free
<1>2. /\ Len(head) = 3 /\ head[1] = Word("total")
      /\ Len(mem) = 7 /\ mem[1] = Word("Mem:") /\ mem[2] = Num(1000) /\ mem[3] = Num(f.memory)
      /\ Len(swap) = 4 /\ swap[1] = Word("Swap:")
  OBVIOUS
<1>5. head \in Seq(ToSet(head)) /\ mem \in Seq(ToSet(mem)) /\ swap \in Seq(ToSet(swap))
  BY DEF ToSet
<1>. HIDE DEF head, mem, swap
<1>3. /\ <<head, mem, swap>> \in Seq({head, mem, swap}) /\ Len(<<head, mem, swap>>) = 3
      /\ <<head, mem, swap>>[1] = head
      /\ <<head, mem, swap>>[2] = mem
      /\ <<head, mem, swap>>[3] = swap
  OBVIOUS
<1>4. /\ free(f) \in Seq({head, mem, swap}) /\ Len(free(f)) = 3
      /\ free(f)[1] = head /\ free(f)[2] = mem /\ free(f)[3] = swap
  BY <1>1, <1>3, Zenon
<1>6. ASSUME NEW i \in 1 .. 3
      PROVE  free(f)[i] \in Seq(ToSet(free(f)[i]))
  <2>1. i = 1 \/ i = 2 \/ i = 3
    OBVIOUS
  <2>. QED
    BY <1>4, <1>5, <2>1, Zenon
<1>. QED
  BY <1>2, <1>4, <1>6, ZenonT(30) DEF AreMemoryLines

LEMMA Tenths ==
    ASSUME NEW m \in Nat
    PROVE  (20000 * m + 1000) \div (2 * 1000) = 10 * m
  OBVIOUS

(* The whole lines about the memory among those that are shown.            *)
MemoryLines(shown) == {i \in DOMAIN shown : shown[i][1] = Word("Mem:") /\ Len(shown[i]) >= 7}

LEMMA NoMemoryLine ==
    ASSUME NEW shown, MemoryLines(shown) = {}
    PROVE  Tells(MemoryTelemetryParser(shown), 0)
  BY DEF MemoryTelemetryParser, MemoryLines, Tells

LEMMA MemoryLine ==
    ASSUME NEW f \in AnyLoad, NEW shown,
           MemoryLines(shown) = {2}, shown[2][2] = free(f)[2][2], shown[2][3] = free(f)[2][3]
    PROVE  Tells(MemoryTelemetryParser(shown), 10 * f.memory)
<1> DEFINE mems == {i \in DOMAIN shown : shown[i][1] = Word("Mem:") /\ Len(shown[i]) >= 7}
<1>1. AreMemoryLines(free(f), f)
  BY FreePrints
<1>2. mems = {2}
  BY DEF MemoryLines
<1>3. Min(mems) = 2
  BY <1>2, MinOfOne
<1>4. shown[2][2].num = 1000 /\ shown[2][3].num = f.memory
  BY <1>1, Numbers DEF AreMemoryLines
<1>. HIDE DEF mems
<1>5. Tells(MemoryTelemetryParser(shown), (20000 * f.memory + 1000) \div (2 * 1000))
  BY <1>2, <1>3, <1>4 DEF MemoryTelemetryParser, mems, Tells
<1>6. f.memory \in Nat
  BY DEF AnyLoad
<1>. QED
  BY <1>5, <1>6, Tenths

LEMMA MemoryLineOf ==
    ASSUME NEW f
    PROVE  MemoryLines(free(f)) = {2}
<1>1. AreMemoryLines(free(f), f)
  BY FreePrints
<1>2. DOMAIN free(f) = 1 .. 3
  BY <1>1 DEF AreMemoryLines
<1>3. Word("total") # Word("Mem:") /\ Word("Swap:") # Word("Mem:")
  BY Words
<1>4. ASSUME NEW i \in 1 .. 3
      PROVE  i \in MemoryLines(free(f)) <=> i = 2
  <2>1. CASE i = 1
    BY <1>1, <1>3, <2>1 DEF AreMemoryLines, MemoryLines
  <2>2. CASE i = 2
    <3>1. free(f)[i][1] = Word("Mem:") /\ Len(free(f)[i]) = 7
      BY <1>1, <2>2 DEF AreMemoryLines
    <3>2. i \in DOMAIN free(f) /\ 7 >= 7
      BY <1>2, <2>2
    <3>. QED
      BY <2>2, <3>1, <3>2, Zenon DEF MemoryLines
  <2>3. CASE i = 3
    BY <1>1, <1>3, <2>3 DEF AreMemoryLines, MemoryLines
  <2>. QED
    BY <2>1, <2>2, <2>3
<1>5. MemoryLines(free(f)) \subseteq 1 .. 3
  BY <1>2 DEF MemoryLines
<1>. QED
  BY <1>4, <1>5

(* All that free printed tells the usage; a part of it, if it does not hold*)
(* the whole line about the memory, tells none.                            *)
LEMMA MemoryShown ==
    ASSUME NEW f \in AnyLoad
    PROVE  Tells(MemoryTelemetryParser(free(f)), 10 * f.memory)
  BY MemoryLineOf, MemoryLine

(* What is left of a line of seven fields that still has seven.            *)
PartOfRow(part, row) ==
    /\ part[2] = row[2] /\ part[3] = row[3] /\ part[4] = row[4]
    /\ part[5] = row[5] /\ part[6] = row[6]
    /\ part[7] = row[7] \/ part[7] \in Torn(row[7])

LEMMA MemoryPart ==
    ASSUME NEW f, NEW n \in 0 .. 2, NEW part, Kept(part, free(f), n), NEW i \in MemoryLines(part)
    PROVE  i = 2 /\ PartOfRow(part[2], free(f)[2])
<1>1. AreMemoryLines(free(f), f)
  BY FreePrints
<1>3. \A j \in DOMAIN part : j \in 1 .. n \/ (j = n + 1 /\ Len(part) = n + 1)
  <2>1. DOMAIN part = 1 .. Len(part) /\ (Len(part) = n \/ Len(part) = n + 1)
    BY Zenon DEF Kept, Left
  <2>2. n \in Nat
    OBVIOUS
  <2>. QED
    BY <2>1, <2>2, Counted
<1>4. \A j \in 1 .. n : part[j] = free(f)[j]
  BY DEF Kept, Left
<1>5. ASSUME Len(part) = n + 1
      PROVE  IsPart(part[n + 1], free(f)[n + 1])
  <2>1. part[n + 1] \in PartOf("fields", free(f)[n + 1])
    BY <1>5 DEF Kept, Left
  <2>2. PICK T : free(f)[n + 1] \in Seq(T)
    <3>1. n + 1 \in 1 .. 3
      OBVIOUS
    <3>. QED
      BY <1>1, <3>1, Zenon DEF AreMemoryLines
  <2>. QED
    BY <2>1, <2>2, PartIs
<1>6. i = 2 /\ PartOfRow(part[2], free(f)[2])
  <2>1. i \in DOMAIN part /\ part[i][1] = Word("Mem:") /\ Len(part[i]) >= 7
    BY DEF MemoryLines
  <2>0. i \in 1 .. 3
    BY <1>3, <2>1
  <2>2. CASE i \in 1 .. n
    <3>1. part[i] = free(f)[i]
      BY <1>4, <2>2
    <3>2. ~(Len(free(f)[1]) >= 7) /\ ~(Len(free(f)[3]) >= 7)
      BY <1>1 DEF AreMemoryLines
    <3>3. i = 2
      BY <2>0, <2>1, <3>1, <3>2
    <3>. QED
      BY <2>2, <3>1, <3>3, Zenon DEF PartOfRow
  <2>3. CASE i = n + 1 /\ Len(part) = n + 1
    <3>1. IsPart(part[i], free(f)[i])
      BY <1>5, <2>3
    <3>2. Len(free(f)[1]) = 3 /\ Len(free(f)[2]) = 7 /\ Len(free(f)[3]) = 4
      BY <1>1, Zenon DEF AreMemoryLines
    <3>3. Len(part[i]) \in 1 .. Len(free(f)[i])
      BY <3>1, Zenon DEF IsPart
    <3>4. i = 2
      <4>1. CASE i = 1
        <5>1. Len(part[i]) \in 1 .. 3
          BY <3>2, <3>3, <4>1, Zenon
        <5>2. \A l \in 1 .. 3 : ~(l >= 7)
          OBVIOUS
        <5>. QED
          BY <2>1, <5>1, <5>2, Zenon
      <4>2. CASE i = 3
        <5>1. Len(part[i]) \in 1 .. 4
          BY <3>2, <3>3, <4>2, Zenon
        <5>2. \A l \in 1 .. 4 : ~(l >= 7)
          OBVIOUS
        <5>. QED
          BY <2>1, <5>1, <5>2, Zenon
      <4>. QED
        BY <2>0, <4>1, <4>2
    <3>5. Len(part[2]) = 7
      <4>1. Len(part[2]) \in 1 .. 7 /\ Len(part[2]) >= 7
        BY <2>1, <3>2, <3>3, <3>4, Zenon
      <4>2. \A l \in 1 .. 7 : l >= 7 => l = 7
        OBVIOUS
      <4>. QED
        BY <4>1, <4>2, Zenon
    <3>6. /\ 2 \in 1 .. 7 - 1 /\ 3 \in 1 .. 7 - 1 /\ 4 \in 1 .. 7 - 1
          /\ 5 \in 1 .. 7 - 1 /\ 6 \in 1 .. 7 - 1
      OBVIOUS
    <3>7. IsPart(part[2], free(f)[2])
      BY <3>1, <3>4
    <3>. QED
      BY <3>4, <3>5, <3>6, <3>7, Zenon DEF IsPart, PartOfRow
  <2>. QED
    BY <1>3, <2>1, <2>2, <2>3
<1>. QED
  BY <1>6

LEMMA MemoryCutOff ==
    ASSUME NEW f \in AnyLoad, NEW part, IsPiece(part, free(f))
    PROVE  \/ Tells(MemoryTelemetryParser(part), 0)
           \/ Tells(MemoryTelemetryParser(part), 10 * f.memory)
<1>1. AreMemoryLines(free(f), f)
  BY FreePrints
<1>2. PICK n \in 0 .. 2 : Kept(part, free(f), n)
  BY <1>1 DEF IsPiece, AreMemoryLines
<1>6. ASSUME NEW i \in MemoryLines(part)
      PROVE  i = 2 /\ part[2][2] = free(f)[2][2] /\ part[2][3] = free(f)[2][3]
  BY <1>2, MemoryPart, Zenon DEF PartOfRow
<1>7. MemoryLines(part) = {} \/ MemoryLines(part) = {2}
  BY <1>6
<1>. QED
  BY <1>6, <1>7, NoMemoryLine, MemoryLine

(* What a gauge of which something came back makes of it.                  *)
LEMMA Alarms ==
    ASSUME Facts["load"] \subseteq AnyLoad, ReadingInv
    PROVE  LoadAlarmsMatchHost
<1>1. ASSUME Done(Gauges)
      PROVE  \E f \in AnyLoad :
                /\ seen[1] = f
                /\ \/ outputs[1] = Screen(reader, f)
                   \/ 1 \notin whole /\ IsPiece(outputs[1], Screen(reader, f))
  <2>1. reader \in Gauges /\ Script = Remote("load", <<"fields">>)
    BY <1>1, GaugeScript DEF Done, Script
  <2>2. /\ Script.on = "load" /\ Script.commands = 1 /\ Script.cut[1] = "fields"
        /\ reader \notin {"docker_collector", "kubernetes_collector"}
        /\ Current > Script.commands
    BY <1>1, <2>1 DEF Done, Remote, Reading, Gauges
  <2>3. PICK f \in Facts["load"] : f = seen[1]
    BY <2>2, WholeBack
  <2>4. PICK lines : lines = Screen(reader, f)
    OBVIOUS
  <2>5. /\ lines = Printed(seen[1], SubSeq(outputs, 1, 1 - 1))[1]
        /\ lines \in Seq(ToSet(lines)) /\ Len(lines) \in Nat
    <3>1. Printed(f, SubSeq(outputs, 1, 1 - 1))[1] = lines
      BY <2>1, <2>4, GaugePrints
    <3>2. CASE lines = top(f)
      <4>1. PICK line : lines = <<line>>
        BY <3>2, TopPrints
      <4>. QED
        BY <2>3, <3>1, <4>1 DEF ToSet
    <3>3. CASE lines = free(f)
      <4>1. PICK a, b, c : lines = <<a, b, c>>
        BY <3>3 DEF free
      <4>. QED
        BY <2>3, <3>1, <4>1 DEF ToSet
    <3>. QED
      BY <2>1, <2>4, <3>2, <3>3 DEF Gauges, Screen
  <2>6. CameBack(1, outputs[1], lines)
    BY <2>2, <2>5 DEF ReadingInv, Current
  <2>7. ASSUME NEW n \in 0 .. Len(lines) - 1, outputs[1] \in CutTo(lines, n, Script.cut[1])
        PROVE  IsPiece(outputs[1], lines)
    <3>1. Kept(outputs[1], lines, n)
      BY <2>2, <2>5, <2>7, CutLines DEF Kept
    <3>2. outputs[1] \in Seq(ToSet(outputs[1]))
      BY <2>5, <2>7, CutIsSeq
    <3>. QED
      BY <3>1, <3>2 DEF IsPiece
  <2>8. Script.tolerated = {}
    BY <2>1 DEF Remote, Reading
  <2>9. outputs[1] = lines \/ (1 \notin whole /\ IsPiece(outputs[1], lines))
    BY <2>6, <2>7, <2>8 DEF CameBack
  <2>. QED
    BY <2>3, <2>4, <2>9
<1>2. ASSUME Done({"telemetry_cpu"})
      PROVE  /\ Alarm # "NONE" => seen[1].cpu > 100 * CpuThreshold
             /\ Complete(1) /\ ~seen[1].comma =>
                   Alarm = Graded(seen[1].cpu, 100 * CpuThreshold, 9000)
  <2>1. reader = "telemetry_cpu" /\ Done(Gauges)
    BY <1>2 DEF Done, Gauges
  <2>2. PICK f \in AnyLoad :
          /\ seen[1] = f
          /\ \/ outputs[1] = top(f)
             \/ 1 \notin whole /\ IsPiece(outputs[1], top(f))
    BY <1>1, <2>1, Zenon DEF Screen
  <2>3. PICK usage \in {0, f.cpu} :
          /\ Tells(CPUTelemetryParser(outputs[1]), usage)
          /\ Complete(1) /\ ~f.comma => usage = f.cpu
    BY <2>2, CPUShown, CPUCutOff DEF Complete
  <2>4. Alarm = Graded(usage, 100 * CpuThreshold, 9000)
    BY <2>1, <2>3 DEF Alarm, CPURule, Tells
  <2>5. f.cpu \in Nat
    BY DEF AnyLoad
  <2>6. Alarm # "NONE" => f.cpu > 100 * CpuThreshold
    BY <2>3, <2>4, <2>5, ThresholdsAssumption DEF Graded
  <2>. QED
    BY <2>2, <2>3, <2>4, <2>6
<1>3. ASSUME Done({"telemetry_memory"})
      PROVE  /\ Alarm # "NONE" => seen[1].memory > 10 * MemoryThreshold
             /\ Complete(1) => Alarm = Graded(seen[1].memory, 10 * MemoryThreshold, 950)
  <2>1. reader = "telemetry_memory" /\ Done(Gauges)
    BY <1>3 DEF Done, Gauges
  <2>2. PICK f \in AnyLoad :
          /\ seen[1] = f
          /\ \/ outputs[1] = free(f)
             \/ 1 \notin whole /\ IsPiece(outputs[1], free(f))
    BY <1>1, <2>1, Zenon DEF Screen
  <2>3. PICK usage \in {0, 10 * f.memory} :
          /\ Tells(MemoryTelemetryParser(outputs[1]), usage)
          /\ Complete(1) => usage = 10 * f.memory
    BY <2>2, MemoryShown, MemoryCutOff DEF Complete
  <2>4. Alarm = Graded(usage, 100 * MemoryThreshold, 9500)
    BY <2>1, <2>3 DEF Alarm, MemoryRule, Tells
  <2>5. f.memory \in Nat /\ MemoryThreshold \in Nat
    BY ThresholdsAssumption DEF AnyLoad
  <2>6. /\ Graded(10 * f.memory, 100 * MemoryThreshold, 9500)
              = Graded(f.memory, 10 * MemoryThreshold, 950)
        /\ Graded(0, 100 * MemoryThreshold, 9500) = "NONE"
        /\ Graded(f.memory, 10 * MemoryThreshold, 950) # "NONE" => f.memory > 10 * MemoryThreshold
    BY <2>5 DEF Graded
  <2>. QED
    BY <2>2, <2>3, <2>4, <2>6
<1>. QED
  BY <1>2, <1>3 DEF LoadAlarmsMatchHost

(* An overloaded CPU or memory is noticed by the rules, unless top wrote   *)
(* its numbers with a comma or the output was cut off, and no overload is  *)
(* ever made up of a part of the output: for every load, every threshold,  *)
(* every place the connector may cut the output at, and any number of such *)
(* mishaps and of changes of the host.                                     *)
THEOREM LoadAlarmsRight ==
    ASSUME Facts["load"] \subseteq AnyLoad
    PROVE  Spec => []LoadAlarmsMatchHost
<1>1. ReadingInv => LoadAlarmsMatchHost
  BY Alarms
<1>. QED
  BY <1>1, ReadingKnown, PTL

-------------------------------------------------------------------------------
(* The disks in a sample.                                                  *)

(* Partitions: sizes in MB, usage in percent.                              *)
Text == [kind : STRING, word : STRING, num : Int]

AnyDisk == [device : Text, fstype : Text, total : Nat, used : Nat, percent : 0 .. 100,
            mount : Text]

(* Those that arrived, of which the last may have lost the end of its      *)
(* mount point.                                                            *)
LeftDisk == [device : Text, fstype : Text, total : Nat, used : Nat, percent : 0 .. 100,
             mount : Text \union UNION {Torn(text) : text \in Text}]

LEMMA AllDisks ==
    ASSUME NEW disks \in Seq(AnyDisk)
    PROVE  disks \in Seq(LeftDisk)
<1>1. AnyDisk \subseteq LeftDisk
  BY DEF AnyDisk, LeftDisk
<1>. QED
  BY <1>1

Real(disks) == {i \in DOMAIN disks : ~IsPseudo(disks[i])}

LEMMA DisksScript ==
    /\ reader \in {"discovery_disks", "telemetry_disks"} =>
          Script.on = "disks" /\ Script.commands = 1 /\ Script.cut[1] = "fields"
    /\ reader = "disk_collector" =>
          /\ Script.on = "disks" /\ Script.commands = 2
          /\ Script.cut = <<>> /\ Script.tolerated = {}
  BY DEF Script, Readings, Reading, Local, Remote

(* Partitions of which the last has lost the end of its mount point.       *)
TornAt(disks, n, mount) ==
    Append(SubSeq(disks, 1, n), [disks[n + 1] EXCEPT !.mount = mount])

LEMMA TornDisks ==
    ASSUME NEW disks \in Seq(AnyDisk), NEW n \in 0 .. Len(disks), n < Len(disks),
           NEW mount \in Torn(disks[n + 1].mount)
    PROVE  /\ TornAt(disks, n, mount) \in Seq(LeftDisk)
           /\ Len(TornAt(disks, n, mount)) = n + 1
           /\ \A i \in 1 .. n : TornAt(disks, n, mount)[i] = disks[i]
           /\ TornAt(disks, n, mount)[n + 1] = [disks[n + 1] EXCEPT !.mount = mount]
           /\ ~Complete(1) => TornAt(disks, n, mount) \in Arrived(disks, MountCut)
<1>1. n + 1 \in 1 .. Len(disks) /\ n + 1 \in DOMAIN disks /\ (n + 1) - 1 = n /\ n \in Nat
  OBVIOUS
<1>2. disks[n + 1] \in AnyDisk
  BY <1>1
<1>3. PICK last : last = [disks[n + 1] EXCEPT !.mount = mount]
  OBVIOUS
<1>4. last \in LeftDisk
  <2>1. mount \in UNION {Torn(text) : text \in Text}
    <3>1. disks[n + 1].mount \in Text
      BY <1>2 DEF AnyDisk
    <3>. QED
      BY <3>1, Zenon
  <2>. QED
    BY <1>2, <1>3, <2>1 DEF AnyDisk, LeftDisk
<1>5. PICK before : before = SubSeq(disks, 1, n)
  OBVIOUS
<1>6. /\ before \in Seq(LeftDisk) /\ Len(before) = n
      /\ \A i \in 1 .. n : before[i] = disks[i]
  <2>1. disks \in Seq(LeftDisk)
    BY AllDisks
  <2>. QED
    BY <1>1, <1>5, <2>1
<1>7. /\ Append(before, last) \in Seq(LeftDisk) /\ Len(Append(before, last)) = n + 1
      /\ \A i \in 1 .. n : Append(before, last)[i] = before[i]
      /\ Append(before, last)[n + 1] = last
  BY <1>1, <1>4, <1>6
<1>8. TornAt(disks, n, mount) = Append(before, last)
  BY <1>3, <1>5, Zenon DEF TornAt
<1>9. ASSUME ~Complete(1)
      PROVE  TornAt(disks, n, mount) \in Arrived(disks, MountCut)
  <2>1. last \in MountCut(disks[n + 1])
    BY <1>3, Zenon DEF MountCut
  <2>2. TornAt(disks, n, mount) \in {Append(SubSeq(disks, 1, (n + 1) - 1), rest) :
                                        rest \in MountCut(disks[n + 1])}
    BY <1>1, <1>5, <1>8, <2>1
  <2>. QED
    BY <1>1, <1>9, <2>2, Zenon DEF Arrived
<1>. QED
  BY <1>3, <1>6, <1>7, <1>8, <1>9

(* Lines of which the first n are whole, and one more has fewer than l     *)
(* fields.                                                                 *)
Shortened(output, lines, n, l) ==
    /\ DOMAIN output = 1 .. Len(output)
    /\ Len(output) = n \/ Len(output) = n + 1
    /\ \A i \in 1 .. n : output[i] = lines[i]
    /\ Len(output) = n + 1 => n < Len(lines) /\ ~(Len(output[n + 1]) >= l)

LEMMA DfHumanPrints ==
    ASSUME NEW disks \in Seq(AnyDisk)
    PROVE  /\ df_human(disks) \in Seq(ToSet(df_human(disks)))
           /\ Len(df_human(disks)) = Len(disks) + 1
           /\ \A i \in 1 .. Len(disks) :
                 df_human(disks)[i + 1] =
                    <<disks[i].device, disks[i].fstype, Human(disks[i].total),
                      Human(disks[i].used), Human(disks[i].total - disks[i].used),
                      Percent(disks[i].percent), disks[i].mount>>
<1>1. PICK rows : rows = Each(disks, LAMBDA d :
                             <<d.device, d.fstype, Human(d.total), Human(d.used),
                               Human(d.total - d.used), Percent(d.percent), d.mount>>)
  OBVIOUS
<1>2. /\ DOMAIN rows = 1 .. Len(disks) /\ rows = [i \in 1 .. Len(disks) |-> rows[i]]
      /\ \A i \in 1 .. Len(disks) :
            rows[i] = <<disks[i].device, disks[i].fstype, Human(disks[i].total),
                        Human(disks[i].used), Human(disks[i].total - disks[i].used),
                        Percent(disks[i].percent), disks[i].mount>>
  BY <1>1 DEF Each
<1>3. PICK h : df_human(disks) = <<h>> \o rows
  BY <1>1 DEF df_human
<1>4. rows \in Seq(ToSet(rows)) /\ Len(rows) = Len(disks)
  <2>1. Len(disks) \in Nat
    OBVIOUS
  <2>. QED
    BY <1>2, <2>1, Numbered
<1>5. /\ df_human(disks) \in Seq(ToSet(df_human(disks)))
      /\ Len(df_human(disks)) = Len(rows) + 1
      /\ \A i \in 1 .. Len(rows) : df_human(disks)[i + 1] = rows[i]
  <2>0. PICK t : t = <<h>> \o rows
    OBVIOUS
  <2>1. /\ t \in Seq(ToSet(t))
        /\ Len(t) = Len(rows) + 1
        /\ \A i \in 1 .. Len(rows) : t[i + 1] = rows[i]
    <3>0. rows \in Seq(ToSet(rows))
      BY <1>4
    <3>1. t \in Seq(ToSet(t))
      BY <2>0, <3>0, Headed
    <3>2. Len(t) = Len(rows) + 1
      BY <2>0, <3>0, Headed
    <3>3. \A i \in 1 .. Len(rows) : t[i + 1] = rows[i]
      BY <2>0, <3>0, Headed
    <3>. QED
      BY <3>1, <3>2, <3>3
  <2>2. df_human(disks) = t
    BY <1>3, <2>0, Zenon
  <2>. QED
    BY <2>1, <2>2, Zenon
<1>. QED
  BY <1>2, <1>4, <1>5, Zenon

LEMMA SecondRemoved ==
    ASSUME NEW a, NEW b, NEW c, NEW d, NEW e, NEW f, NEW g
    PROVE  RemoveAt(<<a, b, c, d, e, f, g>>, 2) = <<a, c, d, e, f, g>>
<1> DEFINE t == <<a, b, c, d, e, f, g>>
<1> DEFINE T == {a, b, c, d, e, f, g}
<1>1. t \in Seq(T) /\ Len(t) = 7
  OBVIOUS
<1>2. t[1] = a /\ t[3] = c /\ t[4] = d /\ t[5] = e /\ t[6] = f /\ t[7] = g
  OBVIOUS
<1>. HIDE DEF t, T
<1>3. SubSeq(t, 1, 1) \in Seq(T) /\ Len(SubSeq(t, 1, 1)) = 1 /\ SubSeq(t, 1, 1)[1] = a
  BY <1>1, <1>2
<1>4. /\ SubSeq(t, 3, 7) \in Seq(T) /\ Len(SubSeq(t, 3, 7)) = 5
      /\ \A i \in 1 .. 5 : SubSeq(t, 3, 7)[i] = t[i + 2]
  <2>1. \A i \in 3 .. 7 : t[i] \in T
    <3>1. \A i \in 3 .. 7 : i \in 1 .. Len(t)
      BY <1>1
    <3>. QED
      BY <1>1, <3>1, ElementOfSeq
  <2>2. /\ SubSeq(t, 3, 7) \in Seq(T)
        /\ Len(SubSeq(t, 3, 7)) = IF 3 <= 7 THEN 7 - 3 + 1 ELSE 0
        /\ \A i \in 1 .. 7 - 3 + 1 : SubSeq(t, 3, 7)[i] = t[3 + i - 1]
    BY <2>1, SubSeqProperties
  <2>. QED
    BY <2>2
<1>5. RemoveAt(t, 2) = SubSeq(t, 1, 1) \o SubSeq(t, 3, 7)
  BY <1>1 DEF RemoveAt
<1>6. /\ RemoveAt(t, 2) \in Seq(T) /\ Len(RemoveAt(t, 2)) = 6
      /\ RemoveAt(t, 2)[1] = a
      /\ \A i \in 1 .. 5 : RemoveAt(t, 2)[i + 1] = t[i + 2]
  <2> DEFINE one == SubSeq(t, 1, 1)
  <2> DEFINE five == SubSeq(t, 3, 7)
  <2>1. /\ one \in Seq(T) /\ Len(one) = 1 /\ one[1] = a
        /\ five \in Seq(T) /\ Len(five) = 5 /\ \A i \in 1 .. 5 : five[i] = t[i + 2]
    BY <1>3, <1>4
  <2>. HIDE DEF one, five
  <2>3. /\ one \o five \in Seq(T) /\ Len(one \o five) = Len(one) + Len(five)
        /\ \A i \in 1 .. Len(one) + Len(five) :
              (one \o five)[i] = IF i <= Len(one) THEN one[i] ELSE five[i - Len(one)]
    BY <2>1, ConcatProperties
  <2>4. ASSUME NEW i \in 1 .. 5
        PROVE  (one \o five)[i + 1] = five[i]
    <3>1. i + 1 \in 1 .. Len(one) + Len(five) /\ ~(i + 1 <= Len(one)) /\ i + 1 - Len(one) = i
      BY <2>1
    <3>. QED
      BY <2>3, <3>1
  <2>5. (one \o five)[1] = a
    BY <2>1, <2>3
  <2>2. /\ one \o five \in Seq(T) /\ Len(one \o five) = 6
        /\ (one \o five)[1] = a
        /\ \A i \in 1 .. 5 : (one \o five)[i + 1] = t[i + 2]
    BY <2>1, <2>3, <2>4, <2>5, SMTT(30)
  <2>. QED
    BY <1>5, <2>2, Zenon DEF one, five
<1>7. /\ RemoveAt(t, 2)[2] = c /\ RemoveAt(t, 2)[3] = d /\ RemoveAt(t, 2)[4] = e
      /\ RemoveAt(t, 2)[5] = f /\ RemoveAt(t, 2)[6] = g
  BY <1>2, <1>6
<1>8. RemoveAt(t, 2) = <<a, c, d, e, f, g>>
  BY <1>6, <1>7
<1>. QED
  BY <1>8 DEF t

LEMMA DfPrints ==
    ASSUME NEW disks \in Seq(AnyDisk)
    PROVE  /\ WithoutType(df_human(disks)) \in Seq(ToSet(WithoutType(df_human(disks))))
           /\ Len(WithoutType(df_human(disks))) = Len(disks) + 1
           /\ \A i \in 1 .. Len(disks) :
                 WithoutType(df_human(disks))[i + 1] =
                    <<disks[i].device, Human(disks[i].total), Human(disks[i].used),
                      Human(disks[i].total - disks[i].used), Percent(disks[i].percent),
                      disks[i].mount>>
<1> DEFINE lines == df_human(disks)
<1>1. /\ lines \in Seq(ToSet(lines)) /\ Len(lines) = Len(disks) + 1
      /\ \A i \in 1 .. Len(disks) :
            lines[i + 1] =
               <<disks[i].device, disks[i].fstype, Human(disks[i].total), Human(disks[i].used),
                 Human(disks[i].total - disks[i].used), Percent(disks[i].percent), disks[i].mount>>
  BY DfHumanPrints
<1>. HIDE DEF lines
<1>2. Len(lines) \in Nat /\ DOMAIN lines = 1 .. Len(lines)
  BY <1>1
<1>3. /\ DOMAIN WithoutType(lines) = 1 .. Len(lines)
      /\ WithoutType(lines) = [i \in 1 .. Len(lines) |-> WithoutType(lines)[i]]
      /\ \A i \in 1 .. Len(lines) : WithoutType(lines)[i] = RemoveAt(lines[i], 2)
  BY <1>2 DEF WithoutType, Each
<1>4. WithoutType(lines) \in Seq(ToSet(WithoutType(lines))) /\ Len(WithoutType(lines)) = Len(lines)
  BY <1>2, <1>3, Numbered
<1>5. ASSUME NEW i \in 1 .. Len(disks)
      PROVE  WithoutType(lines)[i + 1] =
                <<disks[i].device, Human(disks[i].total), Human(disks[i].used),
                  Human(disks[i].total - disks[i].used), Percent(disks[i].percent),
                  disks[i].mount>>
  <2>1. i + 1 \in 1 .. Len(lines)
    BY <1>1
  <2>. QED
    <3>1. WithoutType(lines)[i + 1] = RemoveAt(lines[i + 1], 2)
      BY <1>3, <2>1
    <3>2. lines[i + 1] =
             <<disks[i].device, disks[i].fstype, Human(disks[i].total), Human(disks[i].used),
               Human(disks[i].total - disks[i].used), Percent(disks[i].percent), disks[i].mount>>
      BY <1>1
    <3>. QED
      BY <3>1, <3>2, SecondRemoved
<1>. QED
  BY <1>1, <1>4, <1>5 DEF lines

(* A partition in df -h, and whether a line of it passes for one.          *)
ShortRow(d) ==
    <<d.device, Human(d.total), Human(d.used), Human(d.total - d.used), Percent(d.percent),
      d.mount>>

IsShortRow(parts) ==
    /\ Len(parts) >= 6
    /\ parts[1].word \notin {"udev", "tmpfs"} /\ parts[6].kind # "snap path"
    /\ parts[5].kind \in {"percent", "number"}

LEMMA ShortRowWhole ==
    ASSUME NEW d, reader = "telemetry_disks"
    PROVE  /\ Len(ShortRow(d)) = 6
           /\ IsShortRow(ShortRow(d)) <=> ~IsPseudo(d)
           /\ ShortRow(d)[1] = d.device /\ ShortRow(d)[2] = Human(d.total)
           /\ ShortRow(d)[5].num = d.percent /\ ShortRow(d)[6] = d.mount
<1>1. /\ Len(ShortRow(d)) = 6
      /\ ShortRow(d)[1] = d.device /\ ShortRow(d)[2] = Human(d.total)
      /\ ShortRow(d)[5] = Percent(d.percent) /\ ShortRow(d)[6] = d.mount
  BY DEF ShortRow
<1>2. Percent(d.percent).kind = "percent" /\ Percent(d.percent).num = d.percent
  BY DEF Percent, Field
<1>3. IsPseudo(d) <=> d.device.word \in {"udev", "tmpfs"} \/ d.mount.kind = "snap path"
  BY DEF IsPseudo
<1>4. IsShortRow(ShortRow(d)) <=> ~IsPseudo(d)
  <2>1. IsShortRow(ShortRow(d)) <=>
           d.device.word \notin {"udev", "tmpfs"} /\ d.mount.kind # "snap path"
    BY <1>1, <1>2 DEF IsShortRow
  <2>. QED
    BY <1>3, <2>1
<1>. QED
  BY <1>1, <1>2, <1>4

(* A part of a line that is as long as a line is that of a partition with  *)
(* less of a mount point.                                                  *)
LEMMA ShortRowPart ==
    ASSUME NEW d \in AnyDisk, NEW part \in PartOf("fields", ShortRow(d)), Len(part) >= 6
    PROVE  \E mount \in Torn(d.mount) : part = ShortRow([d EXCEPT !.mount = mount])
<1>1. PICK row : row = ShortRow(d)
  OBVIOUS
<1>2. row \in Seq(ToSet(row)) /\ Len(row) = 6 /\ row[6] = d.mount
  BY <1>1 DEF ShortRow, ToSet
<1>3. IsPart(part, row)
  BY <1>1, <1>2, PartIs
<1>4. Len(part) = 6
  <2>1. Len(part) \in 1 .. 6
    BY <1>2, <1>3, Zenon DEF IsPart
  <2>2. \A k \in 1 .. 6 : k >= 6 => k = 6
    OBVIOUS
  <2>. QED
    BY <2>1, <2>2, Zenon
<1>5. part[6] \in Torn(d.mount)
  <2>1. ~(6 < 6)
    OBVIOUS
  <2>. QED
    BY <1>2, <1>3, <1>4, <2>1, Zenon DEF IsPart
<1>6. \A i \in 1 .. 5 : part[i] = row[i]
  <2>1. 6 - 1 = 5
    OBVIOUS
  <2>. QED
    BY <1>3, <1>4, <2>1, Zenon DEF IsPart
<1>7. part = <<row[1], row[2], row[3], row[4], row[5], part[6]>>
  <2>1. part \in Seq(ToSet(part))
    BY <1>3, Zenon DEF IsPart
  <2>2. part = <<part[1], part[2], part[3], part[4], part[5], part[6]>>
    BY <1>4, <2>1
  <2>. QED
    BY <1>6, <2>2
<1>8. <<row[1], row[2], row[3], row[4], row[5], part[6]>> = ShortRow([d EXCEPT !.mount = part[6]])
  BY <1>1 DEF ShortRow, AnyDisk
<1>. QED
  BY <1>5, <1>7, <1>8

(* Of the partitions, those that are found in what is kept of the lines.   *)
LEMMA ShortRows ==
    ASSUME reader = "telemetry_disks",
           NEW disks, Len(disks) \in Nat, DOMAIN disks = 1 .. Len(disks),
           NEW body, body = Each(disks, ShortRow),
           NEW n \in 0 .. Len(disks), NEW rows, Shortened(rows, body, n, 6)
    PROVE  /\ \A i : i \in DOMAIN rows /\ IsShortRow(rows[i]) <=> i \in Real(disks) /\ i <= n
           /\ \A i \in 1 .. n : rows[i] = ShortRow(disks[i])
<1>1. Len(body) = Len(disks) /\ \A i \in 1 .. Len(disks) : body[i] = ShortRow(disks[i])
  BY DEF Each
<1>2. \A i \in 1 .. n : i \in 1 .. Len(disks)
  OBVIOUS
<1>3. \A i \in 1 .. n : rows[i] = ShortRow(disks[i])
  BY <1>1, <1>2 DEF Shortened
<1>4. DOMAIN rows = 1 .. Len(rows)
  BY Zenon DEF Shortened
<1>5. Len(rows) = n \/ Len(rows) = n + 1
  BY Zenon DEF Shortened
<1>0. /\ \A i \in 1 .. n : i \in 1 .. Len(rows) /\ i <= n
      /\ \A i \in 1 .. Len(rows) : i \in 1 .. n \/ (i = n + 1 /\ Len(rows) = n + 1)
  <2>1. n \in Nat
    OBVIOUS
  <2>. QED
    BY <1>5, <2>1, Counted
<1>6. ASSUME Len(rows) = n + 1
      PROVE  ~IsShortRow(rows[n + 1])
  <2>1. ~(Len(rows[n + 1]) >= 6)
    BY <1>6, Zenon DEF Shortened
  <2>. QED
    BY <2>1, Zenon DEF IsShortRow
<1>7. ASSUME NEW i \in 1 .. n
      PROVE  IsShortRow(rows[i]) <=> i \in Real(disks)
  <2>1. i \in DOMAIN disks
    BY <1>2
  <2>. QED
    BY <1>3, <2>1, ShortRowWhole DEF Real
<1>8. ASSUME NEW i \in DOMAIN rows, IsShortRow(rows[i])
      PROVE  i \in 1 .. n
  <2>1. i \in 1 .. n \/ (i = n + 1 /\ Len(rows) = n + 1)
    BY <1>0, <1>4, <1>8, Zenon
  <2>. QED
    BY <1>6, <1>8, <2>1
<1>9. \A i \in 1 .. n : i \in DOMAIN rows /\ i <= n
  BY <1>0, <1>4, Zenon
<1>10. \A p \in Real(disks) : p <= n => p \in 1 .. n
  BY DEF Real
<1>. QED
  BY <1>3, <1>7, <1>8, <1>9, <1>10

(* What is kept of the lines of some partitions is what is kept of those of*)
(* the partitions that may have arrived, but for a line that is too short. *)
LEMMA ShortArrived ==
    ASSUME NEW disks \in Seq(AnyDisk), NEW body, body = Each(disks, ShortRow),
           NEW n \in 0 .. Len(disks), NEW rows, Kept(rows, body, n),
           Complete(1) => n = Len(disks)
    PROVE  \E partitions \in Arrived(disks, MountCut) :
              /\ partitions \in Seq(LeftDisk)
              /\ \E k \in 0 .. Len(partitions) :
                    /\ Shortened(rows, Each(partitions, ShortRow), k, 6)
                    /\ Complete(1) => k = Len(partitions)
<1>1. /\ Len(disks) \in Nat /\ n \in Nat
      /\ Len(body) = Len(disks) /\ \A i \in 1 .. Len(disks) : body[i] = ShortRow(disks[i])
  BY DEF Each
<1>2. /\ DOMAIN rows = 1 .. Len(rows)
      /\ Len(rows) = n \/ Len(rows) = n + 1
      /\ \A i \in 1 .. n : rows[i] = body[i]
      /\ Len(rows) = n + 1 =>
            n < Len(body) /\ rows[n + 1] \in PartOf("fields", body[n + 1])
  BY Zenon DEF Kept, Left
<1>3. CASE Len(rows) = n + 1 /\ Len(rows[n + 1]) >= 6
  <2>1. n < Len(disks) /\ n + 1 \in 1 .. Len(disks)
    BY <1>1, <1>2, <1>3
  <2>2. disks[n + 1] \in AnyDisk
    BY <2>1, ElementOfSeq
  <2>3. rows[n + 1] \in PartOf("fields", ShortRow(disks[n + 1]))
    BY <1>1, <1>2, <1>3, <2>1, Zenon
  <2>4. PICK mount \in Torn(disks[n + 1].mount) :
           rows[n + 1] = ShortRow([disks[n + 1] EXCEPT !.mount = mount])
    BY <1>3, <2>2, <2>3, ShortRowPart
  <2>5. PICK partitions : partitions = TornAt(disks, n, mount)
    OBVIOUS
  <2>6. ~Complete(1)
    BY <1>1, <2>1
  <2>7. /\ partitions \in Seq(LeftDisk) /\ partitions \in Arrived(disks, MountCut)
        /\ Len(partitions) = n + 1
        /\ \A i \in 1 .. n : partitions[i] = disks[i]
        /\ partitions[n + 1] = [disks[n + 1] EXCEPT !.mount = mount]
    BY <2>1, <2>5, <2>6, TornDisks
  <2>8. Shortened(rows, Each(partitions, ShortRow), n + 1, 6)
    <3>1. /\ Len(Each(partitions, ShortRow)) = n + 1
          /\ \A i \in 1 .. n + 1 : Each(partitions, ShortRow)[i] = ShortRow(partitions[i])
      BY <1>1, <2>7 DEF Each
    <3>2. ASSUME NEW i \in 1 .. n + 1
          PROVE  rows[i] = Each(partitions, ShortRow)[i]
      <4>1. CASE i \in 1 .. n
        <5>1. i \in 1 .. Len(disks)
          BY <2>1, <4>1
        <5>2. rows[i] = ShortRow(disks[i])
          BY <1>1, <1>2, <4>1, <5>1, Zenon
        <5>. QED
          BY <2>7, <3>1, <4>1, <5>2, Zenon
      <4>2. CASE i = n + 1
        BY <2>4, <2>7, <3>1, <4>2, Zenon
      <4>. QED
        BY <1>1, <4>1, <4>2
    <3>3. Len(rows) # (n + 1) + 1
      BY <1>1, <1>3
    <3>. QED
      BY <1>2, <1>3, <3>2, <3>3, Zenon DEF Shortened
  <2>9. n + 1 \in 0 .. Len(partitions)
    BY <1>1, <2>7
  <2>. QED
    BY <2>6, <2>7, <2>8, <2>9
<1>4. CASE ~(Len(rows) = n + 1 /\ Len(rows[n + 1]) >= 6)
  <2>1. disks \in Arrived(disks, MountCut)
    BY Zenon DEF Arrived
  <2>2. Shortened(rows, Each(disks, ShortRow), n, 6)
    BY <1>2, <1>4, Zenon DEF Shortened
  <2>3. disks \in Seq(LeftDisk)
    BY AllDisks
  <2>. QED
    BY <2>1, <2>2, <2>3
<1>. QED
  BY <1>3, <1>4

ShortPartition(parts) ==
    [device |-> parts[1], size |-> parts[2], used |-> parts[3], available |-> parts[4],
     usage_percent |-> parts[5].num, mount_point |-> parts[6]]

LEMMA ShortParser ==
    ASSUME NEW df
    PROVE  LET rows == SubSeq(df, 2, Len(df))
           IN DiskTelemetryParser(df)
                 = Each(At(rows, {i \in DOMAIN rows : IsShortRow(rows[i])}), ShortPartition)
  BY DEF DiskTelemetryParser, Where, IsShortRow, ShortPartition

(* What has come back to the telemetry collector of disks: its first lines.*)
LEMMA ShortDisksBack ==
    ASSUME ReadingInv, reader = "telemetry_disks", Current > Script.commands,
           Facts["disks"] \subseteq Seq(AnyDisk)
    PROVE  /\ seen[1] \in Seq(AnyDisk)
           /\ \E partitions \in Arrived(seen[1], MountCut) :
                 /\ partitions \in Seq(LeftDisk)
                 /\ \E n \in 0 .. Len(partitions) :
                       /\ Shortened(SubSeq(outputs[1], 2, Len(outputs[1])),
                                    Each(partitions, ShortRow), n, 6)
                       /\ Complete(1) => n = Len(partitions)
<1>1. Script.on = "disks" /\ Script.commands = 1 /\ Script.cut[1] = "fields"
  BY DisksScript
<1>2. PICK lines : lines = WithoutType(df_human(seen[1]))
  OBVIOUS
<1>3. lines = Printed(seen[1], SubSeq(outputs, 1, 1 - 1))[1]
  BY <1>2 DEF Printed
<1>4. seen[1] \in Seq(AnyDisk)
  BY <1>1 DEF ReadingInv, Current
<1>5. PICK disks : disks = seen[1]
  OBVIOUS
<1>6. PICK body : body = Each(disks, ShortRow)
  OBVIOUS
<1>7. /\ Len(disks) \in Nat /\ DOMAIN disks = 1 .. Len(disks)
      /\ Len(body) = Len(disks)
      /\ \A i \in 1 .. Len(disks) : body[i] = ShortRow(disks[i])
  <2>1. Len(disks) \in Nat /\ DOMAIN disks = 1 .. Len(disks)
    BY <1>4, <1>5
  <2>. QED
    BY <1>6, <2>1 DEF Each
<1>8. /\ lines \in Seq(ToSet(lines)) /\ Len(lines) = Len(disks) + 1
      /\ \A i \in 1 .. Len(disks) : lines[i + 1] = body[i]
  <2>0. disks \in Seq(AnyDisk)
    BY <1>4, <1>5
  <2>1. lines \in Seq(ToSet(lines))
    BY <1>2, <1>5, <2>0, DfPrints
  <2>2. Len(lines) = Len(disks) + 1
    BY <1>2, <1>5, <2>0, DfPrints
  <2>3. \A i \in 1 .. Len(disks) : lines[i + 1] = ShortRow(disks[i])
    BY <1>2, <1>5, <2>0, DfPrints DEF ShortRow
  <2>. QED
    BY <1>7, <2>1, <2>2, <2>3
<1>9. PICK m \in 0 .. Len(lines) : Kept(outputs[1], lines, m) /\ (Complete(1) => m = Len(lines))
  <2>1. /\ 1 \in DOMAIN Script.cut => Script.cut[1] = "fields"
        /\ Script.commands \in Nat /\ 1 \in 1 .. Script.commands
    BY <1>1
  <2>2. /\ reader \notin {"docker_collector", "kubernetes_collector"}
        /\ lines \in Seq(ToSet(lines))
    BY <1>8
  <2>3. \E m \in 0 .. Len(lines) :
           Left(outputs[1], lines, m, "fields") /\ (Complete(1) => m = Len(lines))
    BY <1>3, <2>1, <2>2, Back, Zenon
  <2>. QED
    BY <2>3, Zenon DEF Kept
<1>10. PICK n : n = IF m = 0 THEN 0 ELSE m - 1
  OBVIOUS
<1>11. Kept(SubSeq(outputs[1], 2, Len(outputs[1])), body, n)
  <2>1. Len(body) \in Nat /\ Len(lines) = Len(body) + 1
        /\ \A i \in 1 .. Len(body) : lines[i + 1] = body[i]
    BY <1>7, <1>8
  <2>. QED
    BY <1>9, <1>10, <2>1, Headless
<1>12. n \in 0 .. Len(disks) /\ (m = Len(lines) => n = Len(disks))
  BY <1>7, <1>8, <1>10
<1>13. disks \in Seq(AnyDisk) /\ (Complete(1) => n = Len(disks))
  BY <1>4, <1>5, <1>9, <1>12
<1>14. \E partitions \in Arrived(disks, MountCut) :
          /\ partitions \in Seq(LeftDisk)
          /\ \E k \in 0 .. Len(partitions) :
                /\ Shortened(SubSeq(outputs[1], 2, Len(outputs[1])), Each(partitions, ShortRow), k, 6)
                /\ Complete(1) => k = Len(partitions)
  BY <1>6, <1>11, <1>12, <1>13, ShortArrived
<1>. QED
  BY <1>4, <1>5, <1>14, Zenon

LEMMA ShortDisksRead ==
    ASSUME ReadingInv, reader = "telemetry_disks", Current > Script.commands,
           Facts["disks"] \subseteq Seq(AnyDisk)
    PROVE  \E partitions \in Arrived(seen[1], MountCut) : \E n \in 0 .. Len(partitions) :
           \E rows, front :
              /\ partitions \in Seq(LeftDisk)
              /\ Len(partitions) \in Nat
              /\ front = {p \in Real(partitions) : p <= n}
              /\ DiskTelemetryParser(outputs[1]) = Each(At(rows, front), ShortPartition)
              /\ \A i \in 1 .. n : rows[i] = ShortRow(partitions[i])
              /\ Complete(1) => n = Len(partitions)
<1>0. PICK partitions \in Arrived(seen[1], MountCut) :
            /\ partitions \in Seq(LeftDisk)
            /\ \E n \in 0 .. Len(partitions) :
                  /\ Shortened(SubSeq(outputs[1], 2, Len(outputs[1])), Each(partitions, ShortRow), n, 6)
                  /\ Complete(1) => n = Len(partitions)
  BY ShortDisksBack
<1>1. Len(partitions) \in Nat /\ DOMAIN partitions = 1 .. Len(partitions)
  BY <1>0
<1>2. PICK n \in 0 .. Len(partitions) :
            /\ Shortened(SubSeq(outputs[1], 2, Len(outputs[1])), Each(partitions, ShortRow), n, 6)
            /\ Complete(1) => n = Len(partitions)
  BY <1>0
<1>3. PICK rows : rows = SubSeq(outputs[1], 2, Len(outputs[1]))
  OBVIOUS
<1>4. /\ {i \in DOMAIN rows : IsShortRow(rows[i])} = {p \in Real(partitions) : p <= n}
      /\ \A i \in 1 .. n : rows[i] = ShortRow(partitions[i])
  <2>1. PICK disks : disks = partitions
    OBVIOUS
  <2>2. PICK body : body = Each(disks, ShortRow)
    OBVIOUS
  <2>3. /\ Len(disks) \in Nat /\ DOMAIN disks = 1 .. Len(disks)
        /\ n \in 0 .. Len(disks) /\ Shortened(rows, body, n, 6)
    BY <1>1, <1>2, <1>3, <2>1, <2>2
  <2>4. \A i : i \in DOMAIN rows /\ IsShortRow(rows[i]) <=> i \in Real(disks) /\ i <= n
    BY <2>2, <2>3, ShortRows
  <2>5. \A i \in 1 .. n : rows[i] = ShortRow(disks[i])
    <3>1. \A i \in 1 .. n : rows[i] = body[i]
      BY <2>3, Zenon DEF Shortened
    <3>2. \A i \in DOMAIN disks : body[i] = ShortRow(disks[i])
      BY <2>2 DEF Each
    <3>3. \A i \in 1 .. n : i \in DOMAIN disks
      BY <2>3
    <3>. QED
      BY <3>1, <3>2, <3>3, Zenon
  <2>. QED
    BY <2>1, <2>4, <2>5
<1>5. DiskTelemetryParser(outputs[1])
         = Each(At(rows, {i \in DOMAIN rows : IsShortRow(rows[i])}), ShortPartition)
  BY <1>3, ShortParser, Zenon
<1>. QED
  BY <1>0, <1>1, <1>2, <1>4, <1>5

LEMMA ShortShown ==
    ASSUME NEW m \in Nat, NEW places, \A p \in places : p \in 1 .. m, NEW rows
    PROVE  Each(Each(At(rows, places), ShortPartition), LAMBDA d :
                <<d.device, d.size, d.usage_percent, d.mount_point>>)
              = At([i \in places |-> <<rows[i][1], rows[i][2], rows[i][5].num, rows[i][6]>>],
                   places)
<1>1. /\ DOMAIN At(rows, places) = 1 .. Cardinality(places)
      /\ \A k \in 1 .. Cardinality(places) :
            Nth(places, k) \in places /\ At(rows, places)[k] = rows[Nth(places, k)]
  BY AtLines
<1>2. PICK read : read = Each(At(rows, places), ShortPartition)
  OBVIOUS
<1>3. /\ DOMAIN read = 1 .. Cardinality(places)
      /\ \A k \in 1 .. Cardinality(places) : read[k] = ShortPartition(rows[Nth(places, k)])
  BY <1>1, <1>2 DEF Each
<1>4. Each(read, LAMBDA d : <<d.device, d.size, d.usage_percent, d.mount_point>>)
         = [k \in 1 .. Cardinality(places) |->
               <<rows[Nth(places, k)][1], rows[Nth(places, k)][2],
                 rows[Nth(places, k)][5].num, rows[Nth(places, k)][6]>>]
  BY <1>3 DEF Each, ShortPartition
<1>5. At([i \in places |-> <<rows[i][1], rows[i][2], rows[i][5].num, rows[i][6]>>], places)
         = [k \in 1 .. Cardinality(places) |->
               <<rows[Nth(places, k)][1], rows[Nth(places, k)][2],
                 rows[Nth(places, k)][5].num, rows[Nth(places, k)][6]>>]
  BY <1>1 DEF At
<1>. QED
  BY <1>2, <1>4, <1>5

LEMMA HeldShort ==
    ASSUME NEW disks, Len(disks) \in Nat, DOMAIN disks = 1 .. Len(disks)
    PROVE  Each(Where(disks, LAMBDA d : ~IsPseudo(d)), LAMBDA d :
                <<d.device, Human(d.total), d.percent, d.mount>>)
              = At([i \in Real(disks) |-> <<disks[i].device, Human(disks[i].total),
                                            disks[i].percent, disks[i].mount>>],
                   Real(disks))
<1>0. \A p \in Real(disks) : p \in 1 .. Len(disks)
  BY DEF Real
<1>1. /\ DOMAIN At(disks, Real(disks)) = 1 .. Cardinality(Real(disks))
      /\ \A k \in 1 .. Cardinality(Real(disks)) :
            /\ Nth(Real(disks), k) \in Real(disks)
            /\ At(disks, Real(disks))[k] = disks[Nth(Real(disks), k)]
  BY <1>0, AtLines
<1>2. Where(disks, LAMBDA d : ~IsPseudo(d)) = At(disks, Real(disks))
  BY DEF Where, Real
<1>. QED
  BY <1>1, <1>2 DEF Each, At

LEMMA ShortDisksRight ==
    ASSUME ReadingInv, reader = "telemetry_disks", Current > Script.commands,
           Facts["disks"] \subseteq Seq(AnyDisk)
    PROVE  \E partitions \in Arrived(seen[1], MountCut) : DisksRead(partitions)
<1>0. PICK partitions \in Arrived(seen[1], MountCut) : \E n \in 0 .. Len(partitions) :
              \E rows, front :
              /\ partitions \in Seq(LeftDisk)
              /\ Len(partitions) \in Nat
              /\ front = {p \in Real(partitions) : p <= n}
              /\ DiskTelemetryParser(outputs[1]) = Each(At(rows, front), ShortPartition)
              /\ \A i \in 1 .. n : rows[i] = ShortRow(partitions[i])
              /\ Complete(1) => n = Len(partitions)
  BY ShortDisksRead
<1>1. PICK n \in 0 .. Len(partitions) : \E rows, front :
              /\ partitions \in Seq(LeftDisk)
              /\ Len(partitions) \in Nat
              /\ front = {p \in Real(partitions) : p <= n}
              /\ DiskTelemetryParser(outputs[1]) = Each(At(rows, front), ShortPartition)
              /\ \A i \in 1 .. n : rows[i] = ShortRow(partitions[i])
              /\ Complete(1) => n = Len(partitions)
  BY <1>0
<1>2. PICK rows, front :
              /\ partitions \in Seq(LeftDisk)
              /\ Len(partitions) \in Nat
              /\ front = {p \in Real(partitions) : p <= n}
              /\ DiskTelemetryParser(outputs[1]) = Each(At(rows, front), ShortPartition)
              /\ \A i \in 1 .. n : rows[i] = ShortRow(partitions[i])
              /\ Complete(1) => n = Len(partitions)
  BY <1>1
<1>3. PICK m \in Nat : m = Len(partitions)
  BY <1>2
<1>4. DOMAIN partitions = 1 .. m
  BY <1>2, <1>3
<1>5. PICK places : places = Real(partitions)
  OBVIOUS
<1>6. (\A p \in places : p \in 1 .. m) /\ \A p \in front : p \in 1 .. m /\ p \in 1 .. n
  BY <1>2, <1>4, <1>5 DEF Real
<1>7. PICK s : s = [i \in front |-> <<rows[i][1], rows[i][2], rows[i][5].num, rows[i][6]>>]
  OBVIOUS
<1>8. PICK t : t = [i \in places |-> <<partitions[i].device, Human(partitions[i].total),
                                       partitions[i].percent, partitions[i].mount>>]
  OBVIOUS
<1>9. Each(DiskTelemetryParser(outputs[1]), LAMBDA d :
           <<d.device, d.size, d.usage_percent, d.mount_point>>) = At(s, front)
  BY <1>2, <1>6, <1>7, ShortShown
<1>10. Each(Where(partitions, LAMBDA d : ~IsPseudo(d)), LAMBDA d :
            <<d.device, Human(d.total), d.percent, d.mount>>) = At(t, places)
  BY <1>3, <1>4, <1>5, <1>8, HeldShort
<1>11. ASSUME NEW p \in front
       PROVE  s[p] = t[p]
  <2>1. p \in 1 .. n /\ p \in places
    BY <1>2, <1>5, <1>6
  <2>2. rows[p] = ShortRow(partitions[p])
    BY <1>2, <2>1
  <2>. QED
    BY <1>7, <1>8, <2>1, <2>2, ShortRowWhole
<1>12. ReadsBack(At(s, front), At(t, places))
  BY <1>2, <1>3, <1>5, <1>6, <1>11, ReadsFront
<1>13. DisksRead(partitions)
  BY <1>9, <1>10, <1>12 DEF DisksRead
<1>. QED
  BY <1>13

-------------------------------------------------------------------------------
(* The other alarms.                                                       *)

(* The first of the usages that is over the threshold.                     *)
LEMMA FirstOverAt ==
    ASSUME NEW m \in Nat, NEW places, \A p \in places : p \in 1 .. m,
           NEW s, \A p \in places : s[p] \in Int, NEW u, u = At(s, places)
    PROVE  /\ \A k : FirstOver(u, k) => \E p \in places : s[p] > DiskThreshold /\ u[k] = s[p]
           /\ \A p \in places :
                 s[p] > DiskThreshold /\ (\A q \in places : s[q] > DiskThreshold => p <= q) =>
                    /\ \E k \in DOMAIN u : FirstOver(u, k)
                    /\ \A k : FirstOver(u, k) => u[k] = s[p]
<1>1. /\ Cardinality(places) \in Nat
      /\ Len(u) = Cardinality(places)
      /\ DOMAIN u = 1 .. Cardinality(places)
      /\ \A k \in 1 .. Cardinality(places) :
            Nth(places, k) \in places /\ u[k] = s[Nth(places, k)]
  BY AtLines
<1>0. DiskThreshold \in Int
  BY ThresholdsAssumption
<1>2. \A k : FirstOver(u, k) => \E p \in places : s[p] > DiskThreshold /\ u[k] = s[p]
  BY <1>1 DEF FirstOver
<1>3. ASSUME NEW p \in places, s[p] > DiskThreshold,
             \A q \in places : s[q] > DiskThreshold => p <= q
      PROVE  /\ \E k \in DOMAIN u : FirstOver(u, k)
             /\ \A k : FirstOver(u, k) => u[k] = s[p]
  <2>1. PICK k \in 1 .. Cardinality(places) : Nth(places, k) = p
    BY NthOf
  <2>2. u[k] = s[p] /\ u[k] > DiskThreshold
    BY <1>1, <1>3, <2>1
  <2>3. ASSUME NEW j \in 1 .. k - 1
        PROVE  u[j] <= DiskThreshold
    <3>1. j \in 1 .. Cardinality(places) /\ j < k
      BY <1>1
    <3>2. PICK q \in places : q = Nth(places, j) /\ u[j] = s[q]
      BY <1>1, <3>1
    <3>3. q < p
      BY <2>1, <3>1, <3>2, NthGrows
    <3>4. ~(s[q] > DiskThreshold)
      <4>1. q \in Nat /\ p \in Nat
        OBVIOUS
      <4>. QED
        BY <1>3, <3>3, <4>1
    <3>5. s[q] \in Int
      OBVIOUS
    <3>. QED
      BY <1>0, <3>2, <3>4, <3>5
  <2>4. FirstOver(u, k)
    BY <1>1, <2>2, <2>3 DEF FirstOver
  <2>5. ASSUME NEW l, FirstOver(u, l)
        PROVE  l = k
    <3>1. l \in 1 .. Cardinality(places) /\ u[l] > DiskThreshold
      BY <1>1, <2>5 DEF FirstOver
    <3>2. u[l] \in Int /\ u[k] \in Int
      BY <1>1, <3>1
    <3>3. ~(l < k)
      <4>1. l < k => l \in 1 .. k - 1
        BY <1>1, <3>1
      <4>. QED
        BY <1>0, <2>3, <3>1, <3>2, <4>1
    <3>4. ~(k < l)
      <4>1. k < l => k \in 1 .. l - 1
        BY <1>1, <3>1
      <4>2. k < l => u[k] <= DiskThreshold
        BY <2>5, <4>1 DEF FirstOver
      <4>. QED
        BY <1>0, <2>2, <3>2, <4>2
    <3>. QED
      BY <1>1, <3>1, <3>3, <3>4
  <2>. QED
    BY <1>1, <2>2, <2>4, <2>5
<1>. QED
  BY <1>2, <1>3

LEMMA ShortUsages ==
    ASSUME NEW m \in Nat, NEW places, \A p \in places : p \in 1 .. m, NEW rows,
           NEW s, \A p \in places : rows[p][5].num = s[p]
    PROVE  Each(Each(At(rows, places), ShortPartition), LAMBDA d : d.usage_percent)
              = At(s, places)
<1>1. /\ DOMAIN At(rows, places) = 1 .. Cardinality(places)
      /\ \A k \in 1 .. Cardinality(places) :
            Nth(places, k) \in places /\ At(rows, places)[k] = rows[Nth(places, k)]
  BY AtLines
<1>2. PICK read : read = Each(At(rows, places), ShortPartition)
  OBVIOUS
<1>3. /\ DOMAIN read = 1 .. Cardinality(places)
      /\ \A k \in 1 .. Cardinality(places) :
            read[k].usage_percent = s[Nth(places, k)]
  BY <1>1, <1>2 DEF Each, ShortPartition
<1>4. Each(read, LAMBDA d : d.usage_percent)
         = [k \in 1 .. Cardinality(places) |-> s[Nth(places, k)]]
  BY <1>3 DEF Each
<1>. QED
  BY <1>2, <1>4 DEF At

(* The finding about some usages: that of the first one over the threshold.*)
LEMMA FirstFound ==
    ASSUME NEW m \in Nat, NEW places, \A p \in places : p \in 1 .. m,
           NEW s, \A p \in places : s[p] \in Int, NEW u, u = At(s, places)
    PROVE  /\ DiskRule([partitions |-> u]) # "NONE" => \E p \in places : s[p] > DiskThreshold
           /\ \A p \in places :
                 s[p] > DiskThreshold /\ (\A q \in places : s[q] > DiskThreshold => p <= q) =>
                    DiskRule([partitions |-> u]) = Graded(s[p], DiskThreshold, 95)
<1>1. /\ \A k : FirstOver(u, k) => \E p \in places : s[p] > DiskThreshold
      /\ \A p \in places :
            s[p] > DiskThreshold /\ (\A q \in places : s[q] > DiskThreshold => p <= q) =>
               /\ \E k \in DOMAIN u : FirstOver(u, k)
               /\ \A k : FirstOver(u, k) => u[k] = s[p]
  BY FirstOverAt
<1>2. /\ DiskRule([partitions |-> u]) =
            IF \E i \in DOMAIN u : FirstOver(u, i)
            THEN Graded(u[CHOOSE i \in DOMAIN u : FirstOver(u, i)], DiskThreshold, 95)
            ELSE "NONE"
  BY DEF DiskRule
<1>. HIDE DEF DiskRule
<1>. QED
  BY <1>1, <1>2

LEMMA FirstGraded ==
    ASSUME NEW m \in Nat, NEW places, \A p \in places : p \in 1 .. m,
           NEW s, \A p \in places : s[p] \in Int, NEW u, u = At(s, places),
           NEW p \in places, s[p] > DiskThreshold,
           \A q \in places : s[q] > DiskThreshold => p <= q
    PROVE  DiskRule([partitions |-> u]) = Graded(s[p], DiskThreshold, 95)
<1>1. \A x \in places :
            s[x] > DiskThreshold /\ (\A q \in places : s[q] > DiskThreshold => x <= q) =>
               DiskRule([partitions |-> u]) = Graded(s[x], DiskThreshold, 95)
  BY FirstFound
<1>. QED
  BY <1>1, Zenon

(* A partition that may have arrived is one of the host, or it has lost the*)
(* end of its mount point.                                                 *)
LEMMA ArrivedDisk ==
    ASSUME NEW disks \in Seq(AnyDisk), NEW partitions \in Arrived(disks, MountCut),
           NEW p \in DOMAIN partitions
    PROVE  /\ p \in DOMAIN disks
           /\ \/ partitions[p] = disks[p]
              \/ ~Complete(1) /\ \E mount : partitions[p] = [disks[p] EXCEPT !.mount = mount]
<1>1. \/ partitions = disks
      \/ ~Complete(1) /\ \E i \in DOMAIN disks : \E rest \in MountCut(disks[i]) :
                           partitions = Append(SubSeq(disks, 1, i - 1), rest)
  BY Zenon DEF Arrived
<1>2. ASSUME ~Complete(1), NEW i \in DOMAIN disks, NEW rest \in MountCut(disks[i]),
             partitions = Append(SubSeq(disks, 1, i - 1), rest)
      PROVE  /\ p \in DOMAIN disks
             /\ \/ partitions[p] = disks[p]
                \/ \E mount : partitions[p] = [disks[p] EXCEPT !.mount = mount]
  <2>1. PICK before : before = SubSeq(disks, 1, i - 1)
    OBVIOUS
  <2>2. /\ before \in Seq(AnyDisk) /\ Len(before) = i - 1
        /\ \A j \in 1 .. i - 1 : before[j] = disks[j]
    BY <2>1
  <2>3. i \in 1 .. Len(disks) /\ Len(disks) \in Nat /\ DOMAIN disks = 1 .. Len(disks)
    OBVIOUS
  <2>4. p \in 1 .. i
    BY <1>2, <2>1, <2>2, <2>3
  <2>5. CASE p = i
    <3>1. partitions[p] = rest
      BY <1>2, <2>1, <2>2, <2>3, <2>5
    <3>2. \E mount : rest = [disks[i] EXCEPT !.mount = mount]
      BY Zenon DEF MountCut
    <3>. QED
      BY <2>5, <3>1, <3>2
  <2>6. CASE p # i
    <3>1. p \in 1 .. i - 1 /\ p \in 1 .. Len(disks)
      BY <2>3, <2>4, <2>6
    <3>2. partitions[p] = before[p]
      BY <1>2, <2>1, <2>2, <3>1
    <3>. QED
      BY <2>2, <2>3, <3>1, <3>2
  <2>. QED
    BY <2>5, <2>6
<1>. QED
  BY <1>1, <1>2, Zenon

(* A partition that is not left out, with less of its mount point, is left *)
(* out of the host's only if it is that of a snap.                         *)
LEMMA TornReal ==
    ASSUME reader = "telemetry_disks", NEW d \in AnyDisk, NEW mount, NEW torn,
           torn = [d EXCEPT !.mount = mount], ~IsPseudo(torn)
    PROVE  torn.percent = d.percent /\ (~IsPseudo(d) \/ d.mount.kind = "snap path")
<1>1. torn.percent = d.percent /\ torn.device = d.device
  BY DEF AnyDisk
<1>2. \A e : IsPseudo(e) <=> e.device.word \in {"udev", "tmpfs"} \/ e.mount.kind = "snap path"
  BY DEF IsPseudo
<1>. QED
  BY <1>1, <1>2, Zenon

(* Where the output was cut off, a snap over the threshold may have lost   *)
(* the path that tells it is one.                                          *)
FullSnap ==
    ~Complete(1) /\ \E d \in ToSet(seen[1]) : d.mount.kind = "snap path" /\ d.percent > DiskThreshold

LEMMA DiskAlarm ==
    ASSUME ReadingInv, reader = "telemetry_disks", Current > Script.commands,
           Facts["disks"] \subseteq Seq(AnyDisk)
    PROVE  LET full == Where(seen[1], LAMBDA d : ~IsPseudo(d) /\ d.percent > DiskThreshold)
           IN /\ Alarm # "NONE" => full # <<>> \/ FullSnap
              /\ Complete(1) => Alarm = IF full = <<>> THEN "NONE"
                                        ELSE Graded(full[1].percent, DiskThreshold, 95)
<1>0. PICK partitions \in Arrived(seen[1], MountCut) : \E n \in 0 .. Len(partitions) :
              \E rows, front :
              /\ partitions \in Seq(LeftDisk)
              /\ Len(partitions) \in Nat
              /\ front = {p \in Real(partitions) : p <= n}
              /\ DiskTelemetryParser(outputs[1]) = Each(At(rows, front), ShortPartition)
              /\ \A i \in 1 .. n : rows[i] = ShortRow(partitions[i])
              /\ Complete(1) => n = Len(partitions)
  BY ShortDisksRead
<1>1. PICK n \in 0 .. Len(partitions) : \E rows, front :
              /\ partitions \in Seq(LeftDisk)
              /\ Len(partitions) \in Nat
              /\ front = {p \in Real(partitions) : p <= n}
              /\ DiskTelemetryParser(outputs[1]) = Each(At(rows, front), ShortPartition)
              /\ \A i \in 1 .. n : rows[i] = ShortRow(partitions[i])
              /\ Complete(1) => n = Len(partitions)
  BY <1>0
<1>2. PICK rows, front :
              /\ partitions \in Seq(LeftDisk)
              /\ Len(partitions) \in Nat
              /\ front = {p \in Real(partitions) : p <= n}
              /\ DiskTelemetryParser(outputs[1]) = Each(At(rows, front), ShortPartition)
              /\ \A i \in 1 .. n : rows[i] = ShortRow(partitions[i])
              /\ Complete(1) => n = Len(partitions)
  BY <1>1
<1>3. PICK m \in Nat : m = Len(partitions)
  BY <1>2
<1>4. /\ DOMAIN partitions = 1 .. m
      /\ \A i \in 1 .. m : partitions[i].percent \in Int
  <2>1. DOMAIN partitions = 1 .. m /\ \A i \in 1 .. m : partitions[i] \in LeftDisk
    BY <1>2, <1>3
  <2>2. \A d \in LeftDisk : d.percent \in Int
    <3>1. ASSUME NEW d \in LeftDisk
          PROVE  d.percent \in 0 .. 100
      BY <3>1 DEF LeftDisk
    <3>2. \A i \in 0 .. 100 : i \in Int
      OBVIOUS
    <3>. QED
      BY <3>1, <3>2
  <2>. QED
    BY <2>1, <2>2
<1>5. PICK s : s = [i \in 1 .. m |-> partitions[i].percent]
  OBVIOUS
<1>6. \A p \in front : p \in 1 .. m /\ p \in 1 .. n /\ p \in Real(partitions)
  BY <1>2, <1>4 DEF Real
<1>7. \A p \in front : rows[p][5].num = s[p]
  <2>1. \A p \in front : rows[p] = ShortRow(partitions[p])
    BY <1>2, <1>6
  <2>. QED
    BY <1>5, <1>6, <2>1, ShortRowWhole
<1>8. PICK u : u = At(s, front)
  OBVIOUS
<1>9. Alarm = DiskRule([partitions |-> u])
  <2>1. Each(DiskTelemetryParser(outputs[1]), LAMBDA d : d.usage_percent) = u
    BY <1>2, <1>6, <1>7, <1>8, ShortUsages
  <2>2. Alarm = DiskRule([partitions |-> Each(DiskTelemetryParser(outputs[1]),
                                              LAMBDA d : d.usage_percent)])
    BY DEF Alarm
  <2>. QED
    BY <2>1, <2>2
<1>10. PICK over : over = {i \in DOMAIN seen[1] : ~IsPseudo(seen[1][i])
                                                  /\ seen[1][i].percent > DiskThreshold}
  OBVIOUS
<1>11. PICK l \in Nat : l = Len(seen[1]) /\ DOMAIN seen[1] = 1 .. l
  <2>1. PICK disks \in Seq(AnyDisk) : disks = seen[1]
    BY ShortDisksBack
  <2>. QED
    BY <2>1
<1>12. PICK full : full = At(seen[1], over)
  OBVIOUS
<1>13. Where(seen[1], LAMBDA d : ~IsPseudo(d) /\ d.percent > DiskThreshold) = full
  BY <1>10, <1>12 DEF Where
<1>14. /\ full = <<>> <=> over = {}
       /\ over # {} => \E i \in over : full[1] = seen[1][i] /\ \A p \in over : i <= p
  <2>1. \A p \in over : p \in 1 .. l
    BY <1>10, <1>11
  <2>. QED
    BY <1>11, <1>12, <2>1, FirstAt
<1>15. \A p \in front : s[p] \in Int
  BY <1>4, <1>5, <1>6
<1>16. /\ Alarm # "NONE" => \E p \in front : s[p] > DiskThreshold
       /\ \A p \in front :
             s[p] > DiskThreshold /\ (\A q \in front : s[q] > DiskThreshold => p <= q) =>
                Alarm = Graded(s[p], DiskThreshold, 95)
  <2>1. \A p \in front : p \in 1 .. m
    BY <1>6
  <2>2. DiskRule([partitions |-> u]) # "NONE" => \E p \in front : s[p] > DiskThreshold
    BY <1>8, <1>15, <2>1, FirstFound
  <2>3. ASSUME NEW p \in front, s[p] > DiskThreshold,
               \A q \in front : s[q] > DiskThreshold => p <= q
        PROVE  DiskRule([partitions |-> u]) = Graded(s[p], DiskThreshold, 95)
    BY <1>3, <1>8, <1>15, <2>1, <2>3, FirstGraded, ZenonT(60)
  <2>. QED
    BY <1>9, <2>2, <2>3, Zenon
<1>17. ASSUME Alarm # "NONE"
       PROVE  full # <<>> \/ FullSnap
  <2>1. PICK p \in front : s[p] > DiskThreshold
    BY <1>16, <1>17
  <2>2. /\ p \in DOMAIN partitions /\ ~IsPseudo(partitions[p])
        /\ partitions[p].percent > DiskThreshold
    BY <1>4, <1>5, <1>6, <2>1 DEF Real
  <2>3. PICK disks \in Seq(AnyDisk) : disks = seen[1]
    BY ShortDisksBack
  <2>4. /\ p \in DOMAIN disks
        /\ \/ partitions[p] = disks[p]
           \/ ~Complete(1) /\ \E mount : partitions[p] = [disks[p] EXCEPT !.mount = mount]
    BY <1>0, <2>2, <2>3, ArrivedDisk, ZenonT(60)
  <2>5. disks[p] \in AnyDisk
    BY <2>4
  <2>6. CASE partitions[p] = disks[p]
    BY <1>10, <1>14, <2>2, <2>3, <2>4, <2>6
  <2>7. CASE ~Complete(1) /\ \E mount : partitions[p] = [disks[p] EXCEPT !.mount = mount]
    <3>0. PICK d, mount, torn :
             /\ d = disks[p] /\ torn = partitions[p]
             /\ d \in AnyDisk /\ torn = [d EXCEPT !.mount = mount]
      BY <2>5, <2>7
    <3>4. d \in AnyDisk /\ torn = [d EXCEPT !.mount = mount] /\ ~IsPseudo(torn)
      BY <2>2, <3>0, Zenon
    <3>5. torn.percent = d.percent /\ (~IsPseudo(d) \/ d.mount.kind = "snap path")
      BY <3>4, TornReal, Zenon
    <3>1. /\ disks[p].percent = partitions[p].percent
          /\ ~IsPseudo(disks[p]) \/ disks[p].mount.kind = "snap path"
      BY <3>0, <3>5, Zenon
    <3>2. CASE ~IsPseudo(disks[p])
      BY <1>10, <1>14, <2>2, <2>3, <2>4, <3>1, <3>2
    <3>3. CASE disks[p].mount.kind = "snap path"
      BY <2>2, <2>3, <2>4, <2>7, <3>1, <3>3 DEF FullSnap, ToSet
    <3>. QED
      BY <3>1, <3>2, <3>3
  <2>. QED
    BY <2>4, <2>6, <2>7
<1>18. ASSUME Complete(1)
       PROVE  Alarm = IF full = <<>> THEN "NONE" ELSE Graded(full[1].percent, DiskThreshold, 95)
  <2>0. partitions = seen[1]
    BY <1>0, <1>18, Zenon DEF Arrived
  <2>1. front = Real(seen[1])
    BY <1>2, <1>3, <1>4, <1>18, <2>0 DEF Real
  <2>2. \A p : p \in over <=> p \in front /\ s[p] > DiskThreshold
    BY <1>4, <1>5, <1>10, <2>0, <2>1 DEF Real
  <2>3. CASE over = {}
    <3>1. ~FullSnap
      BY <1>18 DEF FullSnap
    <3>. QED
      BY <1>14, <1>17, <2>3, <3>1
  <2>4. CASE over # {}
    <3>1. PICK i \in over : full[1] = seen[1][i] /\ \A p \in over : i <= p
      BY <1>14, <2>4
    <3>2. i \in front /\ s[i] > DiskThreshold /\ \A q \in front : s[q] > DiskThreshold => i <= q
      BY <2>2, <3>1
    <3>3. Alarm = Graded(s[i], DiskThreshold, 95) /\ s[i] = full[1].percent
      BY <1>5, <1>6, <1>16, <2>0, <3>1, <3>2
    <3>. QED
      BY <1>14, <2>4, <3>3
  <2>. QED
    BY <2>3, <2>4
<1>. QED
  BY <1>13, <1>17, <1>18

(* Interfaces: a name and two counters.                                    *)
AnyInterface == [name : STRING, rx : Nat, tx : Nat]

LEMMA InterfaceLine ==
    ASSUME NEW f, NEW i \in DOMAIN f.interfaces
    PROVE  /\ DOMAIN net_dev(f.interfaces) = DOMAIN f.interfaces
           /\ net_dev(f.interfaces)[i].key = f.interfaces[i].name
           /\ Len(net_dev(f.interfaces)[i].value) >= 9
           /\ AllNumbers(net_dev(f.interfaces)[i].value, {1, 9})
<1>1. PICK value : value = [n \in 1 .. 16 |->
           Num(IF n = 1 THEN f.interfaces[i].rx ELSE IF n = 9 THEN f.interfaces[i].tx ELSE 0)]
  OBVIOUS
<1>2. /\ DOMAIN net_dev(f.interfaces) = DOMAIN f.interfaces
      /\ net_dev(f.interfaces)[i] = Pair(f.interfaces[i].name, value)
  BY <1>1 DEF net_dev, Each
<1>3. Len(value) = 16
  BY <1>1
<1>4. IsNumber(value[1]) /\ IsNumber(value[9])
  <2>1. value[1] = Num(f.interfaces[i].rx) /\ value[9] = Num(f.interfaces[i].tx)
    <3>1. 1 \in 1 .. 16 /\ 9 \in 1 .. 16 /\ 9 # 1
      OBVIOUS
    <3>. QED
      BY <1>1, <3>1
  <2>. QED
    BY <2>1, Numbers
<1>5. AllNumbers(value, {1, 9}) /\ Len(value) >= 9
  BY <1>3, <1>4 DEF AllNumbers
<1>6. Pair(f.interfaces[i].name, value).key = f.interfaces[i].name
      /\ Pair(f.interfaces[i].name, value).value = value
  BY DEF Pair
<1>. QED
  BY <1>2, <1>5, <1>6, Zenon

LEMMA NetworkAlarm ==
    ASSUME ReadingInv, reader = "telemetry_network", Current > Script.commands, Complete(1),
           \A f \in Facts["network"] : f.interfaces \in Seq(AnyInterface)
    PROVE  Alarm = "CRITICAL" <=> \A i \in DOMAIN seen[1].interfaces :
                                     seen[1].interfaces[i].name = "lo"
<1>1. Script.on = "network" /\ Script.commands = 1
  BY DEF Script, Readings, Reading, Remote
<1>2. PICK f \in Facts["network"] : f = seen[1]
  BY <1>1, WholeBack
<1>3. PICK dev : dev = net_dev(f.interfaces)
  OBVIOUS
<1>4. outputs[1] = dev
  <2>1. outputs[1] = Printed(f, SubSeq(outputs, 1, 1 - 1))[1]
    BY <1>1, <1>2, WholeBack
  <2>. QED
    BY <1>3, <2>1 DEF Printed
<1>5. PICK m \in Nat : m = Len(f.interfaces) /\ DOMAIN f.interfaces = 1 .. m
  BY <1>2
<1>6. PICK places : places = {i \in DOMAIN dev : /\ Len(dev[i].value) >= 9 /\ dev[i].key # "lo"
                                                 /\ AllNumbers(dev[i].value, {1, 9})}
  OBVIOUS
<1>7. \A i : i \in places <=> i \in 1 .. m /\ f.interfaces[i].name # "lo"
  <2>1. DOMAIN dev = 1 .. m
    BY <1>3, <1>5 DEF net_dev, Each
  <2>. QED
    BY <1>3, <1>5, <1>6, <2>1, InterfaceLine
<1>8. PICK shown : shown = At(dev, places)
  OBVIOUS
<1>9. shown = <<>> <=> places = {}
  BY <1>5, <1>7, <1>8, FirstAt
<1>10. /\ Len(shown) \in Nat /\ DOMAIN shown = 1 .. Len(shown)
  BY <1>5, <1>7, <1>8, AtLines
<1>11. NetworkTelemetryParser(outputs[1]) =
          Each(shown, LAMBDA line : [interface |-> line.key, rx_bytes |-> line.value[1].num,
                                     tx_bytes |-> line.value[9].num])
  BY <1>4, <1>6, <1>8 DEF NetworkTelemetryParser, Where
<1>12. ToSet(NetworkTelemetryParser(outputs[1])) = {} <=> places = {}
  <2>1. DOMAIN NetworkTelemetryParser(outputs[1]) = 1 .. Len(shown)
    BY <1>10, <1>11 DEF Each
  <2>2. 1 .. Len(shown) = {} <=> shown = <<>>
    <3>1. shown \in Seq(ToSet(shown))
      BY <1>5, <1>7, <1>8, AtLines
    <3>2. shown = <<>> <=> Len(shown) = 0
      BY <3>1, EmptySeq
    <3>3. 1 .. Len(shown) = {} <=> Len(shown) = 0
      <4>1. PICK n \in Nat : n = Len(shown)
        BY <1>10
      <4>2. n # 0 => 1 \in 1 .. n
        OBVIOUS
      <4>3. n = 0 => 1 .. n = {}
        OBVIOUS
      <4>. QED
        BY <4>1, <4>2, <4>3
    <3>. QED
      BY <3>2, <3>3
  <2>. QED
    BY <1>9, <2>1, <2>2 DEF ToSet
<1>13. Alarm = IF ToSet(NetworkTelemetryParser(outputs[1])) = {} THEN "CRITICAL" ELSE "NONE"
  BY DEF Alarm, NetworkRule
<1>. QED
  BY <1>2, <1>5, <1>7, <1>12, <1>13

(* Units: their state and their main process, if any.                      *)
AnyUnit == [name : STRING, active : STRING, pid : Nat]

(* The process of a unit that is there once: not 0 if it has one.          *)
LEMMA PidFound ==
    ASSUME NEW m \in Nat, NEW units, Len(units) = m, NEW name,
           \A i \in 1 .. m : units[i].pid # 0
    PROVE  PidOf(units, name) = 0 <=> \A i \in 1 .. m : units[i].name # name
<1>1. PICK places : places = {i \in 1 .. Len(units) : units[i].name = name}
  OBVIOUS
<1>2. PidOf(units, name) = IF places # {} THEN (IF Min(places) = 0 THEN 0 ELSE units[Min(places)].pid)
                           ELSE 0
  BY <1>1 DEF PidOf, SelectInSeq
<1>3. places # {} => Min(places) \in 1 .. m
  BY <1>1, LeastPlace
<1>. QED
  BY <1>1, <1>2, <1>3

LEMMA ActiveLine ==
    ASSUME NEW u, u.active = "active",
           NEW line, line = (IF u.active = "failed" THEN <<Word("bullet")>> ELSE <<>>)
                            \o <<Unit(u.name), Word("loaded"), Word(u.active), Word("sub")>>
    PROVE  line[1].word = u.name
<1>1. line = <<>> \o <<Unit(u.name), Word("loaded"), Word(u.active), Word("sub")>>
  OBVIOUS
<1>2. line[1] = Unit(u.name)
  BY <1>1
<1>. QED
  BY <1>2 DEF Unit, Field

LEMMA ServiceAlarm ==
    ASSUME ReadingInv, reader = "telemetry_services", Current > Script.commands, Complete(1),
           \A f \in Facts["services"] :
              f \in Seq(AnyUnit) /\ \A i \in DOMAIN f : f[i].active = "active" => f[i].pid # 0
    PROVE  Alarm = "CRITICAL" <=> PidOf(Running(seen[1]), "nginx") = 0
<1>1. Script.on = "services" /\ Script.commands = 1
  BY DEF Script, Readings, Reading, Remote
<1>2. PICK f \in Facts["services"] : f = seen[1]
  BY <1>1, WholeBack
<1>3. PICK units : units = Running(f)
  OBVIOUS
<1>4. outputs[1] = list_units(units)
  <2>1. outputs[1] = Printed(f, SubSeq(outputs, 1, 1 - 1))[1]
    BY <1>1, <1>2, WholeBack
  <2>. QED
    BY <1>3, <2>1 DEF Printed
<1>5. PICK n \in Nat : n = Len(f) /\ DOMAIN f = 1 .. n
  BY <1>2
<1>6. PICK places : places = {i \in DOMAIN f : f[i].active = "active"}
  OBVIOUS
<1>7. (\A p \in places : p \in 1 .. n) /\ units = At(f, places)
  BY <1>3, <1>5, <1>6 DEF Running, Where
<1>8. PICK m \in Nat : m = Cardinality(places)
  BY <1>5, <1>7, AtLines
<1>9. /\ Len(units) = m /\ DOMAIN units = 1 .. m
      /\ \A k \in 1 .. m : Nth(places, k) \in places /\ units[k] = f[Nth(places, k)]
  BY <1>5, <1>7, <1>8, AtLines
<1>10. \A k \in 1 .. m : units[k].active = "active" /\ units[k].pid # 0
  BY <1>2, <1>6, <1>9
<1>11. PidOf(units, "nginx") = 0 <=> \A k \in 1 .. m : units[k].name # "nginx"
  BY <1>9, <1>10, PidFound, SMTT(30)
<1>12. PICK parsed : parsed = ServiceTelemetryParser(outputs[1])
  OBVIOUS
<1>13. DOMAIN parsed = 1 .. m /\ \A k \in 1 .. m : parsed[k].name = units[k].name
  <2>1. PICK lines : lines = list_units(units)
    OBVIOUS
  <2>2. /\ DOMAIN lines = 1 .. m
        /\ \A k \in 1 .. m : lines[k][1].word = units[k].name
    BY <1>9, <1>10, <2>1, ActiveLine DEF list_units, Each
  <2>. QED
    BY <1>4, <1>12, <2>1, <2>2 DEF ServiceTelemetryParser, Each
<1>14. PICK services : services = {s.name : s \in ToSet(parsed)}
  OBVIOUS
<1>15. "nginx" \in services <=> \E k \in 1 .. m : units[k].name = "nginx"
  BY <1>13, <1>14 DEF ToSet
<1>16. Alarm = "CRITICAL" <=> "nginx" \notin services
  <2>1. Alarm = ServiceRule([services |-> services], {"web"})
    BY <1>12, <1>14 DEF Alarm
  <2>. QED
    BY <2>1 DEF ServiceRule, NeededServices
<1>. QED
  BY <1>2, <1>3, <1>11, <1>15, <1>16

(* What may be known of a host: partitions; interfaces; units, of which one*)
(* that is active has a process.                                           *)
KnownHosts ==
    /\ Facts["disks"] \subseteq Seq(AnyDisk)
    /\ \A f \in Facts["network"] : f.interfaces \in Seq(AnyInterface)
    /\ \A f \in Facts["services"] :
          f \in Seq(AnyUnit) /\ \A i \in DOMAIN f : f[i].active = "active" => f[i].pid # 0

(* A full disk, no network or no nginx is noticed by the rules, a disk by  *)
(* the first partition that is over the threshold, and no full disk is ever*)
(* made up of a part of the output: for any number of partitions,          *)
(* interfaces and units, every threshold and every place where the output  *)
(* is cut off.                                                             *)
THEOREM AlarmsRight ==
    ASSUME KnownHosts
    PROVE  Spec => []AlarmsMatchHost
<1>1. ASSUME ReadingInv
      PROVE  AlarmsMatchHost
  <2>1. Done({"telemetry_disks"}) => reader = "telemetry_disks" /\ Current > Script.commands
    BY DEF Done
  <2>2. Done({"telemetry_network"}) => reader = "telemetry_network" /\ Current > Script.commands
    BY DEF Done
  <2>3. Done({"telemetry_services"}) => reader = "telemetry_services" /\ Current > Script.commands
    BY DEF Done
  <2>. QED
    BY <1>1, <2>1, <2>2, <2>3, DiskAlarm, NetworkAlarm, ServiceAlarm
       DEF AlarmsMatchHost, KnownHosts, FullSnap
<1>. QED
  BY <1>1, ReadingKnown, PTL

-------------------------------------------------------------------------------
(* The disks in a discovery.                                               *)

(* A partition in df -hT, and whether a line of it passes for one.         *)
LongRow(d) ==
    <<d.device, d.fstype, Human(d.total), Human(d.used), Human(d.total - d.used),
      Percent(d.percent), d.mount>>

IsLongRow(parts) ==
    /\ Len(parts) >= 7
    /\ parts[1].word \notin {"udev", "tmpfs", "devtmpfs"}
    /\ parts[7].kind \notin {"efi path", "snap path"}
    /\ parts[6].kind \in {"percent", "number"}

LEMMA LongRowWhole ==
    ASSUME NEW d, reader = "discovery_disks"
    PROVE  /\ Len(LongRow(d)) = 7
           /\ IsLongRow(LongRow(d)) <=> ~IsPseudo(d)
           /\ LongRow(d)[1] = d.device /\ LongRow(d)[3] = Human(d.total)
           /\ LongRow(d)[6].num = d.percent /\ LongRow(d)[7] = d.mount
<1>1. /\ Len(LongRow(d)) = 7
      /\ LongRow(d)[1] = d.device /\ LongRow(d)[3] = Human(d.total)
      /\ LongRow(d)[6] = Percent(d.percent) /\ LongRow(d)[7] = d.mount
  BY DEF LongRow
<1>2. Percent(d.percent).kind = "percent" /\ Percent(d.percent).num = d.percent
  BY DEF Percent, Field
<1>3. IsPseudo(d) <=> \/ d.device.word \in {"udev", "tmpfs", "devtmpfs"}
                       \/ d.mount.kind \in {"efi path", "snap path"}
  BY DEF IsPseudo
<1>4. IsLongRow(LongRow(d)) <=> ~IsPseudo(d)
  <2>1. IsLongRow(LongRow(d)) <=>
           /\ d.device.word \notin {"udev", "tmpfs", "devtmpfs"}
           /\ d.mount.kind \notin {"efi path", "snap path"}
    BY <1>1, <1>2 DEF IsLongRow
  <2>. QED
    BY <1>3, <2>1
<1>. QED
  BY <1>1, <1>2, <1>4

(* A part of a line that is as long as a line is that of a partition with  *)
(* less of a mount point.                                                  *)
LEMMA LongRowPart ==
    ASSUME NEW d \in AnyDisk, NEW part \in PartOf("fields", LongRow(d)), Len(part) >= 7
    PROVE  \E mount \in Torn(d.mount) : part = LongRow([d EXCEPT !.mount = mount])
<1>1. PICK row : row = LongRow(d)
  OBVIOUS
<1>2. row \in Seq(ToSet(row)) /\ Len(row) = 7 /\ row[7] = d.mount
  BY <1>1 DEF LongRow, ToSet
<1>3. IsPart(part, row)
  BY <1>1, <1>2, PartIs
<1>4. Len(part) = 7
  <2>1. Len(part) \in 1 .. 7
    BY <1>2, <1>3, Zenon DEF IsPart
  <2>2. \A k \in 1 .. 7 : k >= 7 => k = 7
    OBVIOUS
  <2>. QED
    BY <2>1, <2>2, Zenon
<1>5. part[7] \in Torn(d.mount)
  <2>1. ~(7 < 7)
    OBVIOUS
  <2>. QED
    BY <1>2, <1>3, <1>4, <2>1, Zenon DEF IsPart
<1>6. \A i \in 1 .. 6 : part[i] = row[i]
  <2>1. 7 - 1 = 6
    OBVIOUS
  <2>. QED
    BY <1>3, <1>4, <2>1, Zenon DEF IsPart
<1>7. part = <<row[1], row[2], row[3], row[4], row[5], row[6], part[7]>>
  <2>1. part \in Seq(ToSet(part))
    BY <1>3, Zenon DEF IsPart
  <2>2. part = <<part[1], part[2], part[3], part[4], part[5], part[6], part[7]>>
    BY <1>4, <2>1
  <2>. QED
    BY <1>6, <2>2
<1>8. <<row[1], row[2], row[3], row[4], row[5], row[6], part[7]>> = LongRow([d EXCEPT !.mount = part[7]])
  BY <1>1 DEF LongRow, AnyDisk
<1>. QED
  BY <1>5, <1>7, <1>8

(* Of the partitions, those that are found in what is kept of the lines.   *)
LEMMA LongRows ==
    ASSUME reader = "discovery_disks",
           NEW disks, Len(disks) \in Nat, DOMAIN disks = 1 .. Len(disks),
           NEW body, body = Each(disks, LongRow),
           NEW n \in 0 .. Len(disks), NEW rows, Shortened(rows, body, n, 7)
    PROVE  /\ \A i : i \in DOMAIN rows /\ IsLongRow(rows[i]) <=> i \in Real(disks) /\ i <= n
           /\ \A i \in 1 .. n : rows[i] = LongRow(disks[i])
<1>1. Len(body) = Len(disks) /\ \A i \in 1 .. Len(disks) : body[i] = LongRow(disks[i])
  BY DEF Each
<1>2. \A i \in 1 .. n : i \in 1 .. Len(disks)
  OBVIOUS
<1>3. \A i \in 1 .. n : rows[i] = LongRow(disks[i])
  BY <1>1, <1>2 DEF Shortened
<1>4. DOMAIN rows = 1 .. Len(rows)
  BY Zenon DEF Shortened
<1>5. Len(rows) = n \/ Len(rows) = n + 1
  BY Zenon DEF Shortened
<1>0. /\ \A i \in 1 .. n : i \in 1 .. Len(rows) /\ i <= n
      /\ \A i \in 1 .. Len(rows) : i \in 1 .. n \/ (i = n + 1 /\ Len(rows) = n + 1)
  <2>1. n \in Nat
    OBVIOUS
  <2>. QED
    BY <1>5, <2>1, Counted
<1>6. ASSUME Len(rows) = n + 1
      PROVE  ~IsLongRow(rows[n + 1])
  <2>1. ~(Len(rows[n + 1]) >= 7)
    BY <1>6, Zenon DEF Shortened
  <2>. QED
    BY <2>1, Zenon DEF IsLongRow
<1>7. ASSUME NEW i \in 1 .. n
      PROVE  IsLongRow(rows[i]) <=> i \in Real(disks)
  <2>1. i \in DOMAIN disks
    BY <1>2
  <2>. QED
    BY <1>3, <2>1, LongRowWhole DEF Real
<1>8. ASSUME NEW i \in DOMAIN rows, IsLongRow(rows[i])
      PROVE  i \in 1 .. n
  <2>1. i \in 1 .. n \/ (i = n + 1 /\ Len(rows) = n + 1)
    BY <1>0, <1>4, <1>8, Zenon
  <2>. QED
    BY <1>6, <1>8, <2>1
<1>9. \A i \in 1 .. n : i \in DOMAIN rows /\ i <= n
  BY <1>0, <1>4, Zenon
<1>10. \A p \in Real(disks) : p <= n => p \in 1 .. n
  BY DEF Real
<1>. QED
  BY <1>3, <1>7, <1>8, <1>9, <1>10

(* What is kept of the lines of some partitions is what is kept of those of*)
(* the partitions that may have arrived, but for a line that is too short. *)
LEMMA LongArrived ==
    ASSUME NEW disks \in Seq(AnyDisk), NEW body, body = Each(disks, LongRow),
           NEW n \in 0 .. Len(disks), NEW rows, Kept(rows, body, n),
           Complete(1) => n = Len(disks)
    PROVE  \E partitions \in Arrived(disks, MountCut) :
              /\ partitions \in Seq(LeftDisk)
              /\ \E k \in 0 .. Len(partitions) :
                    /\ Shortened(rows, Each(partitions, LongRow), k, 7)
                    /\ Complete(1) => k = Len(partitions)
<1>1. /\ Len(disks) \in Nat /\ n \in Nat
      /\ Len(body) = Len(disks) /\ \A i \in 1 .. Len(disks) : body[i] = LongRow(disks[i])
  BY DEF Each
<1>2. /\ DOMAIN rows = 1 .. Len(rows)
      /\ Len(rows) = n \/ Len(rows) = n + 1
      /\ \A i \in 1 .. n : rows[i] = body[i]
      /\ Len(rows) = n + 1 =>
            n < Len(body) /\ rows[n + 1] \in PartOf("fields", body[n + 1])
  BY Zenon DEF Kept, Left
<1>3. CASE Len(rows) = n + 1 /\ Len(rows[n + 1]) >= 7
  <2>1. n < Len(disks) /\ n + 1 \in 1 .. Len(disks)
    BY <1>1, <1>2, <1>3
  <2>2. disks[n + 1] \in AnyDisk
    BY <2>1, ElementOfSeq
  <2>3. rows[n + 1] \in PartOf("fields", LongRow(disks[n + 1]))
    BY <1>1, <1>2, <1>3, <2>1, Zenon
  <2>4. PICK mount \in Torn(disks[n + 1].mount) :
           rows[n + 1] = LongRow([disks[n + 1] EXCEPT !.mount = mount])
    BY <1>3, <2>2, <2>3, LongRowPart
  <2>5. PICK partitions : partitions = TornAt(disks, n, mount)
    OBVIOUS
  <2>6. ~Complete(1)
    BY <1>1, <2>1
  <2>7. /\ partitions \in Seq(LeftDisk) /\ partitions \in Arrived(disks, MountCut)
        /\ Len(partitions) = n + 1
        /\ \A i \in 1 .. n : partitions[i] = disks[i]
        /\ partitions[n + 1] = [disks[n + 1] EXCEPT !.mount = mount]
    BY <2>1, <2>5, <2>6, TornDisks
  <2>8. Shortened(rows, Each(partitions, LongRow), n + 1, 7)
    <3>1. /\ Len(Each(partitions, LongRow)) = n + 1
          /\ \A i \in 1 .. n + 1 : Each(partitions, LongRow)[i] = LongRow(partitions[i])
      BY <1>1, <2>7 DEF Each
    <3>2. ASSUME NEW i \in 1 .. n + 1
          PROVE  rows[i] = Each(partitions, LongRow)[i]
      <4>1. CASE i \in 1 .. n
        <5>1. i \in 1 .. Len(disks)
          BY <2>1, <4>1
        <5>2. rows[i] = LongRow(disks[i])
          BY <1>1, <1>2, <4>1, <5>1, Zenon
        <5>. QED
          BY <2>7, <3>1, <4>1, <5>2, Zenon
      <4>2. CASE i = n + 1
        BY <2>4, <2>7, <3>1, <4>2, Zenon
      <4>. QED
        BY <1>1, <4>1, <4>2
    <3>3. Len(rows) # (n + 1) + 1
      BY <1>1, <1>3
    <3>. QED
      BY <1>2, <1>3, <3>2, <3>3, Zenon DEF Shortened
  <2>9. n + 1 \in 0 .. Len(partitions)
    BY <1>1, <2>7
  <2>. QED
    BY <2>6, <2>7, <2>8, <2>9
<1>4. CASE ~(Len(rows) = n + 1 /\ Len(rows[n + 1]) >= 7)
  <2>1. disks \in Arrived(disks, MountCut)
    BY Zenon DEF Arrived
  <2>2. Shortened(rows, Each(disks, LongRow), n, 7)
    BY <1>2, <1>4, Zenon DEF Shortened
  <2>3. disks \in Seq(LeftDisk)
    BY AllDisks
  <2>. QED
    BY <2>1, <2>2, <2>3
<1>. QED
  BY <1>3, <1>4

LongPartition(parts) ==
    [device |-> parts[1], fstype |-> parts[2], total |-> Discovery!to_gb(parts[3]),
     used |-> Discovery!to_gb(parts[4]), free |-> Discovery!to_gb(parts[5]),
     percentage |-> parts[6].num, mount_point |-> parts[7]]

LEMMA SameCount ==
    ASSUME NEW S
    PROVE  Discovery!Cardinality(S) = Cardinality(S)
  BY DEF Discovery!Cardinality, Cardinality

LEMMA SameLines ==
    ASSUME NEW s, NEW places
    PROVE  Discovery!At(s, places) = At(s, places)
<1>1. ASSUME NEW n
      PROVE  Discovery!Nth(places, n) = Nth(places, n)
  BY SameCount DEF Discovery!Nth, Nth
<1>. QED
  BY <1>1, SameCount DEF Discovery!At, At

LEMMA LongParser ==
    ASSUME NEW df
    PROVE  LET rows == SubSeq(df, 2, Len(df))
           IN Discovery!FilesystemParser(df)
                 = Each(At(rows, {i \in DOMAIN rows : IsLongRow(rows[i])}), LongPartition)
  BY SameLines DEF Discovery!FilesystemParser, Discovery!Where, Discovery!Each, Each, IsLongRow,
                   LongPartition

(* What has come back to the discovery: its first lines.*)
LEMMA LongDisksBack ==
    ASSUME ReadingInv, reader = "discovery_disks", Current > Script.commands,
           Facts["disks"] \subseteq Seq(AnyDisk)
    PROVE  /\ seen[1] \in Seq(AnyDisk)
           /\ \E partitions \in Arrived(seen[1], MountCut) :
                 /\ partitions \in Seq(LeftDisk)
                 /\ \E n \in 0 .. Len(partitions) :
                       /\ Shortened(SubSeq(outputs[1], 2, Len(outputs[1])),
                                    Each(partitions, LongRow), n, 7)
                       /\ Complete(1) => n = Len(partitions)
<1>1. Script.on = "disks" /\ Script.commands = 1 /\ Script.cut[1] = "fields"
  BY DisksScript
<1>2. PICK lines : lines = df_human(seen[1])
  OBVIOUS
<1>3. lines = Printed(seen[1], SubSeq(outputs, 1, 1 - 1))[1]
  BY <1>2 DEF Printed
<1>4. seen[1] \in Seq(AnyDisk)
  BY <1>1 DEF ReadingInv, Current
<1>5. PICK disks : disks = seen[1]
  OBVIOUS
<1>6. PICK body : body = Each(disks, LongRow)
  OBVIOUS
<1>7. /\ Len(disks) \in Nat /\ DOMAIN disks = 1 .. Len(disks)
      /\ Len(body) = Len(disks)
      /\ \A i \in 1 .. Len(disks) : body[i] = LongRow(disks[i])
  <2>1. Len(disks) \in Nat /\ DOMAIN disks = 1 .. Len(disks)
    BY <1>4, <1>5
  <2>. QED
    BY <1>6, <2>1 DEF Each
<1>8. /\ lines \in Seq(ToSet(lines)) /\ Len(lines) = Len(disks) + 1
      /\ \A i \in 1 .. Len(disks) : lines[i + 1] = body[i]
  <2>0. disks \in Seq(AnyDisk)
    BY <1>4, <1>5
  <2>1. lines \in Seq(ToSet(lines))
    BY <1>2, <1>5, <2>0, DfHumanPrints
  <2>2. Len(lines) = Len(disks) + 1
    BY <1>2, <1>5, <2>0, DfHumanPrints
  <2>3. \A i \in 1 .. Len(disks) : lines[i + 1] = LongRow(disks[i])
    BY <1>2, <1>5, <2>0, DfHumanPrints DEF LongRow
  <2>. QED
    BY <1>7, <2>1, <2>2, <2>3
<1>9. PICK m \in 0 .. Len(lines) : Kept(outputs[1], lines, m) /\ (Complete(1) => m = Len(lines))
  <2>1. /\ 1 \in DOMAIN Script.cut => Script.cut[1] = "fields"
        /\ Script.commands \in Nat /\ 1 \in 1 .. Script.commands
    BY <1>1
  <2>2. /\ reader \notin {"docker_collector", "kubernetes_collector"}
        /\ lines \in Seq(ToSet(lines))
    BY <1>8
  <2>3. \E m \in 0 .. Len(lines) :
           Left(outputs[1], lines, m, "fields") /\ (Complete(1) => m = Len(lines))
    BY <1>3, <2>1, <2>2, Back, Zenon
  <2>. QED
    BY <2>3, Zenon DEF Kept
<1>10. PICK n : n = IF m = 0 THEN 0 ELSE m - 1
  OBVIOUS
<1>11. Kept(SubSeq(outputs[1], 2, Len(outputs[1])), body, n)
  <2>1. Len(body) \in Nat /\ Len(lines) = Len(body) + 1
        /\ \A i \in 1 .. Len(body) : lines[i + 1] = body[i]
    BY <1>7, <1>8
  <2>. QED
    BY <1>9, <1>10, <2>1, Headless
<1>12. n \in 0 .. Len(disks) /\ (m = Len(lines) => n = Len(disks))
  BY <1>7, <1>8, <1>10
<1>13. disks \in Seq(AnyDisk) /\ (Complete(1) => n = Len(disks))
  BY <1>4, <1>5, <1>9, <1>12
<1>14. \E partitions \in Arrived(disks, MountCut) :
          /\ partitions \in Seq(LeftDisk)
          /\ \E k \in 0 .. Len(partitions) :
                /\ Shortened(SubSeq(outputs[1], 2, Len(outputs[1])), Each(partitions, LongRow), k, 7)
                /\ Complete(1) => k = Len(partitions)
  BY <1>6, <1>11, <1>12, <1>13, LongArrived
<1>. QED
  BY <1>4, <1>5, <1>14, Zenon

LEMMA LongDisksRead ==
    ASSUME ReadingInv, reader = "discovery_disks", Current > Script.commands,
           Facts["disks"] \subseteq Seq(AnyDisk)
    PROVE  \E partitions \in Arrived(seen[1], MountCut) : \E n \in 0 .. Len(partitions) :
           \E rows, front :
              /\ partitions \in Seq(LeftDisk)
              /\ Len(partitions) \in Nat
              /\ front = {p \in Real(partitions) : p <= n}
              /\ Discovery!FilesystemParser(outputs[1]) = Each(At(rows, front), LongPartition)
              /\ \A i \in 1 .. n : rows[i] = LongRow(partitions[i])
              /\ Complete(1) => n = Len(partitions)
<1>0. PICK partitions \in Arrived(seen[1], MountCut) :
            /\ partitions \in Seq(LeftDisk)
            /\ \E n \in 0 .. Len(partitions) :
                  /\ Shortened(SubSeq(outputs[1], 2, Len(outputs[1])), Each(partitions, LongRow), n, 7)
                  /\ Complete(1) => n = Len(partitions)
  BY LongDisksBack
<1>1. Len(partitions) \in Nat /\ DOMAIN partitions = 1 .. Len(partitions)
  BY <1>0
<1>2. PICK n \in 0 .. Len(partitions) :
            /\ Shortened(SubSeq(outputs[1], 2, Len(outputs[1])), Each(partitions, LongRow), n, 7)
            /\ Complete(1) => n = Len(partitions)
  BY <1>0
<1>3. PICK rows : rows = SubSeq(outputs[1], 2, Len(outputs[1]))
  OBVIOUS
<1>4. /\ {i \in DOMAIN rows : IsLongRow(rows[i])} = {p \in Real(partitions) : p <= n}
      /\ \A i \in 1 .. n : rows[i] = LongRow(partitions[i])
  <2>1. PICK disks : disks = partitions
    OBVIOUS
  <2>2. PICK body : body = Each(disks, LongRow)
    OBVIOUS
  <2>3. /\ Len(disks) \in Nat /\ DOMAIN disks = 1 .. Len(disks)
        /\ n \in 0 .. Len(disks) /\ Shortened(rows, body, n, 7)
    BY <1>1, <1>2, <1>3, <2>1, <2>2
  <2>4. \A i : i \in DOMAIN rows /\ IsLongRow(rows[i]) <=> i \in Real(disks) /\ i <= n
    BY <2>2, <2>3, LongRows
  <2>5. \A i \in 1 .. n : rows[i] = LongRow(disks[i])
    <3>1. \A i \in 1 .. n : rows[i] = body[i]
      BY <2>3, Zenon DEF Shortened
    <3>2. \A i \in DOMAIN disks : body[i] = LongRow(disks[i])
      BY <2>2 DEF Each
    <3>3. \A i \in 1 .. n : i \in DOMAIN disks
      BY <2>3
    <3>. QED
      BY <3>1, <3>2, <3>3, Zenon
  <2>. QED
    BY <2>1, <2>4, <2>5
<1>5. Discovery!FilesystemParser(outputs[1])
         = Each(At(rows, {i \in DOMAIN rows : IsLongRow(rows[i])}), LongPartition)
  BY <1>3, LongParser, Zenon
<1>. QED
  BY <1>0, <1>1, <1>2, <1>4, <1>5

LEMMA LongShown ==
    ASSUME NEW m \in Nat, NEW places, \A p \in places : p \in 1 .. m, NEW rows
    PROVE  Each(Each(At(rows, places), LongPartition), LAMBDA d :
                <<d.device, d.total, d.percentage, d.mount_point>>)
              = At([i \in places |-> <<rows[i][1], Discovery!to_gb(rows[i][3]), rows[i][6].num, rows[i][7]>>],
                   places)
<1>1. /\ DOMAIN At(rows, places) = 1 .. Cardinality(places)
      /\ \A k \in 1 .. Cardinality(places) :
            Nth(places, k) \in places /\ At(rows, places)[k] = rows[Nth(places, k)]
  BY AtLines
<1>2. PICK read : read = Each(At(rows, places), LongPartition)
  OBVIOUS
<1>3. /\ DOMAIN read = 1 .. Cardinality(places)
      /\ \A k \in 1 .. Cardinality(places) : read[k] = LongPartition(rows[Nth(places, k)])
  BY <1>1, <1>2 DEF Each
<1>4. Each(read, LAMBDA d : <<d.device, d.total, d.percentage, d.mount_point>>)
         = [k \in 1 .. Cardinality(places) |->
               <<rows[Nth(places, k)][1], Discovery!to_gb(rows[Nth(places, k)][3]),
                 rows[Nth(places, k)][6].num, rows[Nth(places, k)][7]>>]
  BY <1>3 DEF Each, LongPartition
<1>5. At([i \in places |-> <<rows[i][1], Discovery!to_gb(rows[i][3]), rows[i][6].num, rows[i][7]>>], places)
         = [k \in 1 .. Cardinality(places) |->
               <<rows[Nth(places, k)][1], Discovery!to_gb(rows[Nth(places, k)][3]),
                 rows[Nth(places, k)][6].num, rows[Nth(places, k)][7]>>]
  BY <1>1 DEF At
<1>. QED
  BY <1>2, <1>4, <1>5

LEMMA HeldLong ==
    ASSUME NEW disks, Len(disks) \in Nat, DOMAIN disks = 1 .. Len(disks)
    PROVE  Each(Where(disks, LAMBDA d : ~IsPseudo(d)), LAMBDA d :
                <<d.device, Rounded(d.total), d.percent, d.mount>>)
              = At([i \in Real(disks) |-> <<disks[i].device, Rounded(disks[i].total),
                                            disks[i].percent, disks[i].mount>>],
                   Real(disks))
<1>0. \A p \in Real(disks) : p \in 1 .. Len(disks)
  BY DEF Real
<1>1. /\ DOMAIN At(disks, Real(disks)) = 1 .. Cardinality(Real(disks))
      /\ \A k \in 1 .. Cardinality(Real(disks)) :
            /\ Nth(Real(disks), k) \in Real(disks)
            /\ At(disks, Real(disks))[k] = disks[Nth(Real(disks), k)]
  BY <1>0, AtLines
<1>2. Where(disks, LAMBDA d : ~IsPseudo(d)) = At(disks, Real(disks))
  BY DEF Where, Real
<1>. QED
  BY <1>1, <1>2 DEF Each, At

(* What df shows of a size, in M, G or T, and what a discovery makes of it.*)
LEMMA SizeRead ==
    ASSUME NEW mb \in Nat
    PROVE  Discovery!to_gb(Human(mb)) = Rounded(mb)
<1>1. CASE mb < 1024
  <2>1. Human(mb) = [kind |-> "size", word |-> "M", num |-> mb]
    BY <1>1 DEF Human, Size, Field
  <2>2. Rounded(mb) = mb
    BY <1>1 DEF Rounded
  <2>. QED
    BY <2>1, <2>2 DEF Discovery!to_gb
<1>2. CASE ~(mb < 1024) /\ mb < 1048576
  <2>1. Human(mb) = [kind |-> "size", word |-> "G", num |-> mb \div 1024]
    BY <1>2 DEF Human, Size, Field
  <2>2. Rounded(mb) = 1024 * (mb \div 1024)
    BY <1>2 DEF Rounded
  <2>. QED
    BY <2>1, <2>2 DEF Discovery!to_gb
<1>3. CASE ~(mb < 1024) /\ ~(mb < 1048576)
  <2>1. Human(mb) = [kind |-> "size", word |-> "T", num |-> mb \div 1048576]
    BY <1>3 DEF Human, Size, Field
  <2>2. Rounded(mb) = 1024 * 1024 * (mb \div 1048576)
    BY <1>3 DEF Rounded
  <2>. QED
    BY <2>1, <2>2 DEF Discovery!to_gb
<1>. QED
  BY <1>1, <1>2, <1>3

LEMMA LongDisksRight ==
    ASSUME ReadingInv, reader = "discovery_disks", Current > Script.commands,
           Facts["disks"] \subseteq Seq(AnyDisk)
    PROVE  \E partitions \in Arrived(seen[1], MountCut) : DisksRead(partitions)
<1>0. PICK partitions \in Arrived(seen[1], MountCut) : \E n \in 0 .. Len(partitions) :
              \E rows, front :
              /\ partitions \in Seq(LeftDisk)
              /\ Len(partitions) \in Nat
              /\ front = {p \in Real(partitions) : p <= n}
              /\ Discovery!FilesystemParser(outputs[1]) = Each(At(rows, front), LongPartition)
              /\ \A i \in 1 .. n : rows[i] = LongRow(partitions[i])
              /\ Complete(1) => n = Len(partitions)
  BY LongDisksRead
<1>1. PICK n \in 0 .. Len(partitions) : \E rows, front :
              /\ partitions \in Seq(LeftDisk)
              /\ Len(partitions) \in Nat
              /\ front = {p \in Real(partitions) : p <= n}
              /\ Discovery!FilesystemParser(outputs[1]) = Each(At(rows, front), LongPartition)
              /\ \A i \in 1 .. n : rows[i] = LongRow(partitions[i])
              /\ Complete(1) => n = Len(partitions)
  BY <1>0
<1>2. PICK rows, front :
              /\ partitions \in Seq(LeftDisk)
              /\ Len(partitions) \in Nat
              /\ front = {p \in Real(partitions) : p <= n}
              /\ Discovery!FilesystemParser(outputs[1]) = Each(At(rows, front), LongPartition)
              /\ \A i \in 1 .. n : rows[i] = LongRow(partitions[i])
              /\ Complete(1) => n = Len(partitions)
  BY <1>1
<1>3. PICK m \in Nat : m = Len(partitions)
  BY <1>2
<1>4. DOMAIN partitions = 1 .. m
  BY <1>2, <1>3
<1>5. PICK places : places = Real(partitions)
  OBVIOUS
<1>6. (\A p \in places : p \in 1 .. m) /\ \A p \in front : p \in 1 .. m /\ p \in 1 .. n
  BY <1>2, <1>4, <1>5 DEF Real
<1>7. PICK s : s = [i \in front |-> <<rows[i][1], Discovery!to_gb(rows[i][3]), rows[i][6].num, rows[i][7]>>]
  OBVIOUS
<1>8. PICK t : t = [i \in places |-> <<partitions[i].device, Rounded(partitions[i].total),
                                       partitions[i].percent, partitions[i].mount>>]
  OBVIOUS
<1>9. Each(Discovery!FilesystemParser(outputs[1]), LAMBDA d :
           <<d.device, d.total, d.percentage, d.mount_point>>) = At(s, front)
  BY <1>2, <1>6, <1>7, LongShown
<1>10. Each(Where(partitions, LAMBDA d : ~IsPseudo(d)), LAMBDA d :
            <<d.device, Rounded(d.total), d.percent, d.mount>>) = At(t, places)
  BY <1>3, <1>4, <1>5, <1>8, HeldLong
<1>11. ASSUME NEW p \in front
       PROVE  s[p] = t[p]
  <2>1. p \in 1 .. n /\ p \in places
    BY <1>2, <1>5, <1>6
  <2>2. rows[p] = LongRow(partitions[p])
    BY <1>2, <2>1
  <2>3. partitions[p].total \in Nat
    <3>1. partitions \in Seq(LeftDisk)
      BY <1>2
    <3>2. p \in 1 .. Len(partitions)
      BY <1>3, <1>6
    <3>3. partitions[p] \in LeftDisk
      BY <3>1, <3>2, ElementOfSeq
    <3>. QED
      BY <3>3 DEF LeftDisk
  <2>4. Discovery!to_gb(rows[p][3]) = Rounded(partitions[p].total)
    BY <2>2, <2>3, SizeRead, LongRowWhole
  <2>. QED
    BY <1>7, <1>8, <2>1, <2>2, <2>4, LongRowWhole
<1>12. ReadsBack(At(s, front), At(t, places))
  BY <1>2, <1>3, <1>5, <1>6, <1>11, ReadsFront
<1>13. DisksRead(partitions)
  BY <1>9, <1>10, <1>12 DEF DisksRead
<1>. QED
  BY <1>13

-------------------------------------------------------------------------------
(* The disks on the host itself.                                           *)

(* A partition in df -B1, and what is made of it.                          *)
ByteRow(d) ==
    <<d.device, d.fstype, Num(d.total), Num(d.used), Num(d.total - d.used), Percent(d.percent),
      d.mount>>

LEMMA ByteRowRead ==
    ASSUME NEW d
    PROVE  /\ Len(ByteRow(d)) >= 7 /\ AllNumbers(ByteRow(d), 3 .. 5)
           /\ Filesystem(ByteRow(d)).filesystem = d.device
           /\ Filesystem(ByteRow(d)).total_bytes = d.total
           /\ Filesystem(ByteRow(d)).use_percent = d.percent
           /\ Filesystem(ByteRow(d)).mount_point = <<d.mount>>
<1>1. PICK row : row = ByteRow(d)
  OBVIOUS
<1>2. /\ row \in Seq(ToSet(row)) /\ Len(row) = 7 /\ DOMAIN row = 1 .. 7
  BY <1>1 DEF ByteRow, ToSet
<1>3. /\ row[1] = d.device /\ row[3] = Num(d.total) /\ row[4] = Num(d.used)
      /\ row[5] = Num(d.total - d.used) /\ row[6] = Percent(d.percent) /\ row[7] = d.mount
  BY <1>1 DEF ByteRow
<1>4. AllNumbers(row, 3 .. 5)
  <2>1. IsNumber(row[3]) /\ IsNumber(row[4]) /\ IsNumber(row[5])
    BY <1>3, Numbers
  <2>2. \A i \in 3 .. 5 : i = 3 \/ i = 4 \/ i = 5
    OBVIOUS
  <2>. QED
    BY <2>1, <2>2 DEF AllNumbers
<1>5. SubSeq(row, 7, Len(row)) = <<d.mount>>
  <2>1. \A i \in 7 .. 7 : row[i] \in ToSet(row)
    <3>1. \A i \in 7 .. 7 : i \in DOMAIN row
      BY <1>2
    <3>. QED
      BY <3>1 DEF ToSet
  <2>2. /\ SubSeq(row, 7, 7) \in Seq(ToSet(row))
        /\ Len(SubSeq(row, 7, 7)) = IF 7 <= 7 THEN 7 - 7 + 1 ELSE 0
        /\ \A i \in 1 .. 7 - 7 + 1 : SubSeq(row, 7, 7)[i] = row[7 + i - 1]
    BY <1>2, <2>1, SubSeqProperties
  <2>3. Len(SubSeq(row, 7, 7)) = 1 /\ SubSeq(row, 7, 7)[1] = d.mount
    BY <1>3, <2>2
  <2>4. SubSeq(row, 7, 7) = <<d.mount>>
    BY <2>2, <2>3, OneThere
  <2>. QED
    BY <1>2, <2>4
<1>6. Percent(d.percent).kind = "percent" /\ Percent(d.percent).num = d.percent
  BY DEF Percent, Field
<1>7. Num(d.total).num = d.total
  BY Numbers
<1>8. /\ Filesystem(row).filesystem = row[1]
      /\ Filesystem(row).total_bytes = row[3].num
      /\ Filesystem(row).use_percent = IF row[6].kind \in {"percent", "number"} THEN row[6].num ELSE 0
      /\ Filesystem(row).mount_point = SubSeq(row, 7, Len(row))
  BY DEF Filesystem
<1>9. Len(row) >= 7
  BY <1>2
<1>. QED
  BY <1>1, <1>3, <1>4, <1>5, <1>6, <1>7, <1>8, <1>9

(* A line of /proc/diskstats.                                              *)
DiskLine(d) == <<Num(8), Num(1), d.device>> \o [n \in 1 .. 11 |-> Num(d.used)]

LEMMA DiskLineRead ==
    ASSUME NEW d
    PROVE  /\ Len(DiskLine(d)) >= 14 /\ AllNumbers(DiskLine(d), 1 .. 14 \ {3})
           /\ DiskLine(d)[3] = d.device /\ DiskLine(d)[10].num = d.used
<1>1. PICK counters : counters = [n \in 1 .. 11 |-> Num(d.used)]
  OBVIOUS
<1>2. PICK line : line = <<Num(8), Num(1), d.device>> \o counters
  OBVIOUS
<1>3. counters \in Seq({Num(d.used)}) /\ Len(counters) = 11
  BY <1>1
<1>4. /\ Len(line) = 14 /\ line[1] = Num(8) /\ line[2] = Num(1) /\ line[3] = d.device
      /\ \A i \in 4 .. 14 : line[i] = Num(d.used)
  BY <1>1, <1>2, <1>3
<1>5. AllNumbers(line, 1 .. 14 \ {3})
  <2>1. \A i \in 1 .. 14 \ {3} : i = 1 \/ i = 2 \/ i \in 4 .. 14
    OBVIOUS
  <2>2. \A i \in 1 .. 14 \ {3} : IsNumber(line[i])
    BY <1>4, <2>1, Numbers
  <2>. QED
    BY <2>2 DEF AllNumbers
<1>6. line[10].num = d.used
  BY <1>4, Numbers
<1>7. DiskLine(d) = line
  BY <1>1, <1>2 DEF DiskLine
<1>8. Len(line) >= 14
  BY <1>4
<1>. QED
  BY <1>4, <1>5, <1>6, <1>7, <1>8, Zenon

(* The traffic of the disks, which all are read.                           *)
LEMMA DiskTraffic ==
    ASSUME NEW m \in Nat, NEW disks, Len(disks) = m, DOMAIN disks = 1 .. m
    PROVE  Each(DiskIO(diskstats(disks)), LAMBDA parts : <<parts[3], parts[10].num>>)
              = Each(disks, LAMBDA d : <<d.device, d.used>>)
<1>1. PICK lines : lines = diskstats(disks)
  OBVIOUS
<1>2. /\ DOMAIN lines = 1 .. m /\ \A i \in 1 .. m : lines[i] = DiskLine(disks[i])
      /\ lines = [i \in 1 .. m |-> lines[i]]
  BY <1>1 DEF diskstats, Each, DiskLine
<1>3. {i \in DOMAIN lines : Len(lines[i]) >= 14 /\ AllNumbers(lines[i], 1 .. 14 \ {3})} = 1 .. m
  <2>1. \A i \in 1 .. m : Len(lines[i]) >= 14 /\ AllNumbers(lines[i], 1 .. 14 \ {3})
    BY <1>2, DiskLineRead, Zenon
  <2>. QED
    BY <1>2, <2>1, Zenon
<1>4. DiskIO(lines) = At(lines, 1 .. m)
  BY <1>3 DEF DiskIO, Where
<1>5. At(lines, 1 .. m) = lines
  BY <1>2, AllAt
<1>6. PICK read : read = lines
  OBVIOUS
<1>7. \A i \in 1 .. m : read[i][3] = disks[i].device /\ read[i][10].num = disks[i].used
  BY <1>2, <1>6, DiskLineRead, Zenon
<1>8. Each(read, LAMBDA parts : <<parts[3], parts[10].num>>)
         = [i \in 1 .. m |-> <<read[i][3], read[i][10].num>>]
  BY <1>2, <1>6 DEF Each
<1>9. Each(disks, LAMBDA d : <<d.device, d.used>>)
         = [i \in 1 .. m |-> <<disks[i].device, disks[i].used>>]
  BY DEF Each
<1>. QED
  BY <1>1, <1>4, <1>5, <1>6, <1>7, <1>8, <1>9

LEMMA DisksOf ==
    ASSUME NEW df, NEW stats
    PROVE  /\ Metrics(DiskParser(df, stats), "filesystems") = Filesystems(df)
           /\ Metrics(DiskParser(df, stats), "disk_io") = DiskIO(stats)
  BY DEF DiskParser, Metrics, Valid, Invalid

LEMMA FilesystemsRead ==
    ASSUME reader = "disk_collector", NEW m \in Nat, NEW disks, Len(disks) = m, DOMAIN disks = 1 .. m
    PROVE  /\ Filesystems(df_bytes(disks)) \in Seq(ToSet(Filesystems(df_bytes(disks))))
           /\ Len(Filesystems(df_bytes(disks))) = m
           /\ Each(Filesystems(df_bytes(disks)), LAMBDA d :
                   <<d.filesystem, d.total_bytes, d.use_percent, d.mount_point>>)
              = [i \in 1 .. m |-> <<disks[i].device, disks[i].total, disks[i].percent,
                                    <<disks[i].mount>>>>]
<1>1. PICK rows : rows = df_bytes(disks)
  OBVIOUS
<1>2. /\ DOMAIN rows = 1 .. m /\ \A i \in 1 .. m : rows[i] = ByteRow(disks[i])
      /\ rows = [i \in 1 .. m |-> rows[i]]
  BY <1>1 DEF df_bytes, Each, ByteRow
<1>3. {i \in DOMAIN rows : Len(rows[i]) >= 7 /\ AllNumbers(rows[i], 3 .. 5)} = 1 .. m
  <2>1. \A i \in 1 .. m : Len(rows[i]) >= 7 /\ AllNumbers(rows[i], 3 .. 5)
    BY <1>2, ByteRowRead, Zenon
  <2>. QED
    BY <1>2, <2>1, Zenon
<1>4. At(rows, 1 .. m) = rows
  BY <1>2, AllAt
<1>5. PICK read : read = Filesystems(rows)
  OBVIOUS
<1>6. read = [i \in 1 .. m |-> Filesystem(rows[i])]
  BY <1>2, <1>3, <1>4, <1>5 DEF Filesystems, Where, Each
<1>7. \A i \in 1 .. m : /\ read[i].filesystem = disks[i].device
                         /\ read[i].total_bytes = disks[i].total
                         /\ read[i].use_percent = disks[i].percent
                         /\ read[i].mount_point = <<disks[i].mount>>
  <2>1. \A i \in 1 .. m : read[i] = Filesystem(ByteRow(disks[i]))
    BY <1>2, <1>6
  <2>. QED
    BY <2>1, ByteRowRead, Zenon
<1>8. read \in Seq(ToSet(read)) /\ Len(read) = m /\ DOMAIN read = 1 .. m
  BY <1>6, Numbered
<1>9. Each(read, LAMBDA d : <<d.filesystem, d.total_bytes, d.use_percent, d.mount_point>>)
         = [i \in 1 .. m |-> <<disks[i].device, disks[i].total, disks[i].percent,
                               <<disks[i].mount>>>>]
  BY <1>7, <1>8 DEF Each
<1>. QED
  BY <1>1, <1>5, <1>8, <1>9

LEMMA LocalDisksRight ==
    ASSUME ReadingInv, reader = "disk_collector", Current > Script.commands,
           Facts["disks"] \subseteq Seq(AnyDisk)
    PROVE  /\ \E partitions \in Arrived(seen[1], MountCut) : DisksRead(partitions)
           /\ Each(Metrics(DiskParser(outputs[1], outputs[2]), "disk_io"),
                   LAMBDA parts : <<parts[3], parts[10].num>>)
              = Each(seen[2], LAMBDA d : <<d.device, d.used>>)
<1>1. /\ Script.on = "disks" /\ Script.commands = 2
      /\ Script.cut = <<>> /\ Script.tolerated = {}
  BY DisksScript
<1>2. \A i \in 1 .. 2 : /\ seen[i] \in Seq(AnyDisk)
                        /\ outputs[i] = Printed(seen[i], SubSeq(outputs, 1, i - 1))[i]
  BY <1>1, LocalBack
<1>3. \A f, before : Printed(f, before)[1] = df_bytes(f) /\ Printed(f, before)[2] = diskstats(f)
  BY DEF Printed
<1>4. PICK disks \in Seq(AnyDisk) : disks = seen[1]
  BY <1>2
<1>5. PICK m \in Nat : m = Len(disks) /\ DOMAIN disks = 1 .. m
  OBVIOUS
<1>6. outputs[1] = df_bytes(disks) /\ outputs[2] = diskstats(seen[2])
  BY <1>2, <1>3, <1>4
<1>7. PICK t : t = [i \in 1 .. m |-> <<disks[i].device, disks[i].total, disks[i].percent,
                                      <<disks[i].mount>>>>]
  OBVIOUS
<1>8. Each(Metrics(DiskParser(outputs[1], outputs[2]), "filesystems"), LAMBDA d :
           <<d.filesystem, d.total_bytes, d.use_percent, d.mount_point>>) = t
  <2>1. Metrics(DiskParser(outputs[1], outputs[2]), "filesystems") = Filesystems(df_bytes(disks))
    BY <1>6, DisksOf, Zenon
  <2>. QED
    BY <1>5, <1>7, <2>1, FilesystemsRead
<1>9. Where(disks, LAMBDA d : ~IsPseudo(d)) = disks
  <2>1. \A i \in 1 .. m : ~IsPseudo(disks[i])
    BY DEF IsPseudo
  <2>2. {i \in DOMAIN disks : ~IsPseudo(disks[i])} = 1 .. m
    BY <1>5, <2>1
  <2>3. At(disks, 1 .. m) = disks
    BY <1>5, AllAt
  <2>. QED
    BY <2>2, <2>3 DEF Where
<1>10. Each(disks, LAMBDA d : <<d.device, d.total, d.percent, <<d.mount>>>>) = t
  BY <1>5, <1>7 DEF Each
<1>11. ReadsBack(t, t)
  <2>1. t \in Seq(ToSet(t))
    BY <1>7, Numbered
  <2>. QED
    BY <2>1 DEF ReadsBack, IsPrefix
<1>12. DisksRead(disks)
  BY <1>8, <1>9, <1>10, <1>11 DEF DisksRead
<1>13. disks \in Arrived(disks, MountCut)
  BY Zenon DEF Arrived
<1>14. Each(DiskIO(diskstats(seen[2])), LAMBDA parts : <<parts[3], parts[10].num>>)
          = Each(seen[2], LAMBDA d : <<d.device, d.used>>)
  <2>1. PICK now \in Seq(AnyDisk) : now = seen[2]
    BY <1>2
  <2>2. PICK l \in Nat : l = Len(now) /\ DOMAIN now = 1 .. l
    OBVIOUS
  <2>. QED
    BY <2>1, <2>2, DiskTraffic
<1>15. Metrics(DiskParser(outputs[1], outputs[2]), "disk_io") = DiskIO(diskstats(seen[2]))
  BY <1>6, DisksOf, Zenon
<1>. QED
  BY <1>4, <1>12, <1>13, <1>14, <1>15, Zenon

(* Each of the three readers of the disks finds the partitions of the host,*)
(* as they were when df ran, in their order, with their sizes (in a        *)
(* discovery, what df -h leaves of them), usage and place, but for those it*)
(* takes for pseudo file systems, and the agent their traffic.  Of an      *)
(* output that was cut off it finds those that had arrived, of which the   *)
(* last may have lost the end of its mount point, and nothing else: for any*)
(* number of partitions and every place of the cut.                        *)
THEOREM DisksRight ==
    ASSUME Facts["disks"] \subseteq Seq(AnyDisk)
    PROVE  Spec => []DisksReadBack
<1>1. ASSUME ReadingInv, Done({"disk_collector", "discovery_disks", "telemetry_disks"})
      PROVE  DisksReadBack
  <2>1. Current > Script.commands
    BY <1>1 DEF Done
  <2>2. reader \in {"disk_collector", "discovery_disks", "telemetry_disks"}
    BY <1>1 DEF Done
  <2>3. CASE reader = "disk_collector"
    BY <1>1, <2>1, <2>3, LocalDisksRight, Zenon DEF DisksReadBack
  <2>4. CASE reader = "discovery_disks"
    <3>1. \E partitions \in Arrived(seen[1], MountCut) : DisksRead(partitions)
      BY <1>1, <2>1, <2>4, LongDisksRight, Zenon
    <3>2. reader # "disk_collector"
      BY <2>4
    <3>. QED
      BY <3>1, <3>2, Zenon DEF DisksReadBack
  <2>5. CASE reader = "telemetry_disks"
    <3>1. \E partitions \in Arrived(seen[1], MountCut) : DisksRead(partitions)
      BY <1>1, <2>1, <2>5, ShortDisksRight, Zenon
    <3>2. reader # "disk_collector"
      BY <2>5
    <3>. QED
      BY <3>1, <3>2, Zenon DEF DisksReadBack
  <2>. QED
    BY <2>2, <2>3, <2>4, <2>5
<1>2. ReadingInv => DisksReadBack
  BY <1>1, Zenon DEF DisksReadBack
<1>. QED
  BY <1>2, ReadingKnown, PTL

-------------------------------------------------------------------------------
(* What holds of 0, and of the next number if of a number, holds of all.   *)
LEMMA Counting ==
    ASSUME NEW S, S \subseteq Nat, 0 \in S, \A n \in S : n + 1 \in S
    PROVE  \A n \in Nat : n \in S
<1>1. SUFFICES ASSUME Nat \ S # {}
               PROVE  FALSE
  OBVIOUS
<1>2. PICK n \in Nat \ S : \A m \in Nat \ S : n <= m
  BY <1>1, FirstPlace
<1>3. n # 0 /\ n - 1 \in Nat
  BY <1>2
<1>4. n - 1 \in S
  BY <1>2, <1>3
<1>. QED
  BY <1>2, <1>3, <1>4

(* FlattenSeq by its recursion: of one list more, that list is appended.   *)
Flattening(s, n, f) ==
    f = [i \in 1 .. n |-> IF i = 1 THEN s[i] ELSE f[i - 1] \o s[i]]

LEMMA FlatteningThere ==
    ASSUME NEW s
    PROVE  \A n \in Nat : \E f : Flattening(s, n, f)
<1> DEFINE S == {n \in Nat : \E f : Flattening(s, n, f)}
<1>1. 0 \in S
  <2>1. PICK f : f = [i \in 1 .. 0 |-> s[i]]
    OBVIOUS
  <2>2. Flattening(s, 0, f)
    BY <2>1 DEF Flattening
  <2>. QED
    BY <2>2
<1>2. ASSUME NEW n \in S
      PROVE  n + 1 \in S
  <2>1. PICK f : Flattening(s, n, f)
    OBVIOUS
  <2>2. PICK g : g = [i \in 1 .. n + 1 |-> IF i = n + 1
                                          THEN IF i = 1 THEN s[i] ELSE f[i - 1] \o s[i]
                                          ELSE f[i]]
    OBVIOUS
  <2>3. ASSUME NEW i \in 1 .. n + 1
        PROVE  g[i] = IF i = 1 THEN s[i] ELSE g[i - 1] \o s[i]
    <3>1. i = 1 \/ i - 1 \in 1 .. n
      OBVIOUS
    <3>2. i # 1 => g[i - 1] = f[i - 1]
      BY <2>2, <3>1
    <3>3. i # n + 1 => i \in 1 .. n
      OBVIOUS
    <3>4. i # n + 1 => f[i] = IF i = 1 THEN s[i] ELSE f[i - 1] \o s[i]
      BY <2>1, <3>3 DEF Flattening
    <3>5. g[i] = IF i = n + 1 THEN IF i = 1 THEN s[i] ELSE f[i - 1] \o s[i] ELSE f[i]
      BY <2>2
    <3>. QED
      BY <3>2, <3>4, <3>5
  <2>4. Flattening(s, n + 1, g)
    BY <2>2, <2>3 DEF Flattening
  <2>. QED
    BY <2>4
<1>. HIDE DEF S
<1>3. \A n \in Nat : n \in S
  <2>1. S \subseteq Nat
    BY DEF S
  <2>. QED
    BY <1>1, <1>2, <2>1, Counting
<1>. QED
  BY <1>3 DEF S

LEMMA FlatteningOnly ==
    ASSUME NEW s, NEW n \in Nat, NEW m \in Nat, n <= m,
           NEW f, Flattening(s, n, f), NEW g, Flattening(s, m, g)
    PROVE  \A i \in 1 .. n : f[i] = g[i]
<1> DEFINE S == {k \in Nat : k \in 1 .. n => f[k] = g[k]}
<1>1. 0 \in S
  OBVIOUS
<1>2. ASSUME NEW k \in S
      PROVE  k + 1 \in S
  <2>1. SUFFICES ASSUME k + 1 \in 1 .. n
                 PROVE  f[k + 1] = g[k + 1]
    OBVIOUS
  <2>2. k + 1 \in 1 .. m /\ (k + 1 # 1 => k \in 1 .. n) /\ (k + 1) - 1 = k
    BY <2>1
  <2>3. f[k + 1] = IF k + 1 = 1 THEN s[k + 1] ELSE f[k] \o s[k + 1]
    BY <2>1, <2>2 DEF Flattening
  <2>4. g[k + 1] = IF k + 1 = 1 THEN s[k + 1] ELSE g[k] \o s[k + 1]
    BY <2>2 DEF Flattening
  <2>5. k + 1 # 1 => f[k] = g[k]
    BY <2>2
  <2>. QED
    BY <2>3, <2>4, <2>5
<1>. HIDE DEF S
<1>3. \A k \in Nat : k \in S
  <2>1. S \subseteq Nat
    BY DEF S
  <2>. QED
    BY <1>1, <1>2, <2>1, Counting
<1>. QED
  BY <1>3 DEF S

LEMMA FlatteningSame ==
    ASSUME NEW s, NEW n \in Nat \ {0}, NEW f, Flattening(s, n + 1, f), NEW g, Flattening(s, n, g)
    PROVE  g[n] = f[n]
<1>1. PICK m : m = n + 1
  OBVIOUS
<1>2. n \in Nat /\ m \in Nat /\ n <= m /\ n \in 1 .. n
  BY <1>1
<1>3. Flattening(s, m, f)
  BY <1>1
<1>4. \A i \in 1 .. n : g[i] = f[i]
  BY <1>2, <1>3, FlatteningOnly
<1>. QED
  BY <1>2, <1>4

LEMMA FlattenedBy ==
    ASSUME NEW s, Len(s) \in Nat, Len(s) # 0
    PROVE  \E f : Flattening(s, Len(s), f) /\ FlattenSeq(s) = f[Len(s)]
<1> DEFINE step(g) == [i \in 1 .. Len(s) |-> IF i = 1 THEN s[i] ELSE g[i - 1] \o s[i]]
<1> DEFINE flatten[i \in 1 .. Len(s)] == IF i = 1 THEN s[i] ELSE flatten[i - 1] \o s[i]
<1>1. flatten = CHOOSE g : g = step(g)
  OBVIOUS
<1>2. FlattenSeq(s) = flatten[Len(s)]
  <2>. HIDE DEF step
  <2>. QED
    BY DEF FlattenSeq
<1>3. \A g : g = step(g) <=> Flattening(s, Len(s), g)
  BY DEF Flattening
<1>. HIDE DEF flatten, step
<1>4. \E g : g = step(g)
  BY <1>3, FlatteningThere
<1>5. flatten = step(flatten)
  BY <1>1, <1>4
<1>. QED
  BY <1>2, <1>3, <1>5

LEMMA FlattenOneMore ==
    ASSUME NEW s, NEW n \in Nat \ {0}, Len(s) = n + 1,
           NEW t, Len(t) = n, \A i \in 1 .. n : t[i] = s[i]
    PROVE  FlattenSeq(s) = FlattenSeq(t) \o s[n + 1]
<1>1. PICK f : Flattening(s, n + 1, f) /\ FlattenSeq(s) = f[n + 1]
  BY FlattenedBy
<1>2. PICK g : Flattening(t, n, g) /\ FlattenSeq(t) = g[n]
  BY FlattenedBy
<1>3. Flattening(s, n, g)
  <2>1. ASSUME NEW i \in 1 .. n
        PROVE  g[i] = IF i = 1 THEN s[i] ELSE g[i - 1] \o s[i]
    <3>1. g[i] = IF i = 1 THEN t[i] ELSE g[i - 1] \o t[i]
      BY <1>2 DEF Flattening
    <3>. QED
      BY <3>1
  <2>2. g = [i \in 1 .. n |-> g[i]]
    BY <1>2 DEF Flattening
  <2>. QED
    BY <2>1, <2>2 DEF Flattening
<1>4. g[n] = f[n]
  BY <1>1, <1>3, FlatteningSame
<1>5. f[n + 1] = f[n] \o s[n + 1]
  <2>1. n + 1 \in 1 .. n + 1 /\ n + 1 # 1 /\ (n + 1) - 1 = n
    OBVIOUS
  <2>. QED
    BY <1>1, <2>1 DEF Flattening
<1>. QED
  BY <1>1, <1>2, <1>4, <1>5

(* A list is its front and its last element.                               *)
LEMMA LastBehind ==
    ASSUME NEW A, NEW s \in Seq(A), NEW B, NEW t \in Seq(B), Len(t) = Len(s) + 1,
           \A k \in 1 .. Len(s) : s[k] = t[k]
    PROVE  t = s \o <<t[Len(t)]>>
<1>1. PICK c : c = Len(s)
  OBVIOUS
<1>2. c \in Nat /\ Len(t) = c + 1 /\ \A k \in 1 .. c : s[k] = t[k]
  BY <1>1
<1>3. s \in Seq(B)
  <2>1. \A k \in 1 .. c : k \in 1 .. Len(t)
    BY <1>2
  <2>2. \A k \in 1 .. c : s[k] \in B
    BY <1>2, <2>1, ElementOfSeq
  <2>. QED
    BY <1>1, <2>2
<1>4. PICK e, last : e = t[c + 1] /\ last = <<e>>
  OBVIOUS
<1>5. last \in Seq(B) /\ Len(last) = 1 /\ last[1] = e
  <2>1. e \in B
    BY <1>2, <1>4, ElementOfSeq
  <2>. QED
    BY <1>4, <2>1
<1>6. /\ s \o last \in Seq(B)
      /\ Len(s \o last) = Len(s) + Len(last)
      /\ \A i \in 1 .. Len(s) + Len(last) :
            (s \o last)[i] = IF i <= Len(s) THEN s[i] ELSE last[i - Len(s)]
  BY <1>3, <1>5, ConcatProperties
<1>7. ASSUME NEW i \in 1 .. c + 1
      PROVE  t[i] = (s \o last)[i]
  <2>1. (s \o last)[i] = IF i <= c THEN s[i] ELSE last[i - c]
    BY <1>1, <1>5, <1>6
  <2>2. CASE i <= c
    BY <1>2, <2>1, <2>2
  <2>3. CASE i = c + 1
    <3>1. i - c = 1 /\ ~(i <= c)
      BY <1>2, <2>3
    <3>. QED
      BY <1>4, <1>5, <2>1, <2>3, <3>1
  <2>4. i <= c \/ i = c + 1
    BY <1>2
  <2>. QED
    BY <2>2, <2>3, <2>4
<1>8. Len(s \o last) = Len(t)
  BY <1>1, <1>2, <1>5, <1>6
<1>9. t = s \o last
  BY <1>2, <1>6, <1>7, <1>8, SeqEqual
<1>. QED
  BY <1>2, <1>4, <1>9

LEMMA NthAsBefore ==
    ASSUME NEW m \in Nat, NEW places, \A p \in places : p \in 1 .. m,
           NEW n \in Nat, NEW front, \A p : p \in front <=> p \in places /\ p <= n
    PROVE  \A k \in 1 .. Cardinality(front) : Nth(front, k) = Nth(places, k)
<1>1. front = {p \in places : p <= n}
  OBVIOUS
<1>. QED
  BY <1>1, NthOfFront

(* One place more, behind the others: one line more.                       *)
LEMMA AtOneMore ==
    ASSUME NEW n \in Nat, NEW front, \A p \in front : p \in 1 .. n,
           NEW more, \A p : p \in more <=> p \in front \/ p = n + 1, NEW v
    PROVE  At(v, more) = At(v, front) \o <<v[n + 1]>>
<1>0. more = front \union {n + 1}
  OBVIOUS
<1>1. IsFiniteSet(front) /\ n + 1 \notin front
  BY PlacesFinite
<1>2. Cardinality(front) \in Nat /\ Cardinality(more) = Cardinality(front) + 1
  BY <1>0, <1>1, FS_AddElement, FS_CardinalityType
<1>3. PICK c : c = Cardinality(front)
  OBVIOUS
<1>4. c \in Nat /\ Cardinality(more) = c + 1
  BY <1>2, <1>3
<1>5. PICK m \in Nat : m = n + 1 /\ \A p \in more : p \in 1 .. m
  OBVIOUS
<1>6. IsFiniteSet(more)
  BY <1>5, PlacesFinite
<1>7. \A p : p \in front <=> p \in more /\ p <= n
  OBVIOUS
<1>8. \A k \in 1 .. c : Nth(front, k) = Nth(more, k)
  <2>1. \A k \in 1 .. Cardinality(front) : Nth(front, k) = Nth(more, k)
    BY <1>5, <1>7, NthAsBefore
  <2>. QED
    BY <1>3, <2>1
<1>9. Nth(more, c + 1) = n + 1
  <2>1. Below(more, n + 1) = front
    BY DEF Below
  <2>2. PICK i, j : i = n + 1 /\ j = c + 1
    OBVIOUS
  <2>3. i \in more /\ Cardinality(Below(more, i)) = j - 1
    BY <1>3, <1>4, <2>1, <2>2
  <2>4. \A p \in more : p \in Nat
    BY <1>5
  <2>5. Nth(more, j) = i
    BY <1>6, <2>3, <2>4, NthOnly
  <2>. QED
    BY <2>2, <2>5
<1>10. PICK s, t : s = At(v, front) /\ t = At(v, more)
  OBVIOUS
<1>11. /\ s \in Seq(ToSet(s)) /\ Len(s) = c
       /\ \A k \in 1 .. c : s[k] = v[Nth(front, k)]
  BY <1>3, <1>10, AtLines
<1>12. /\ t \in Seq(ToSet(t)) /\ Len(t) = c + 1
       /\ \A k \in 1 .. c + 1 : t[k] = v[Nth(more, k)]
  <2>1. /\ At(v, more) \in Seq(ToSet(At(v, more)))
        /\ Len(At(v, more)) = Cardinality(more)
        /\ \A k \in 1 .. Cardinality(more) : At(v, more)[k] = v[Nth(more, k)]
    BY <1>5, AtLines
  <2>. QED
    BY <1>4, <1>10, <2>1
<1>13. \A k \in 1 .. c : s[k] = t[k]
  <2>1. \A k \in 1 .. c : k \in 1 .. c + 1
    BY <1>4
  <2>. QED
    BY <1>8, <1>11, <1>12, <2>1
<1>14. t[Len(t)] = v[n + 1]
  <2>1. c + 1 \in 1 .. c + 1
    BY <1>4
  <2>. QED
    BY <1>9, <1>12, <2>1
<1>15. t = s \o <<t[Len(t)]>>
  BY <1>11, <1>12, <1>13, LastBehind
<1>. QED
  BY <1>10, <1>14, <1>15

LEMMA FrontOneMore ==
    ASSUME NEW n \in Nat, NEW places, \A p \in places : p \in Nat \ {0}, n + 1 \in places,
           NEW v
    PROVE  At(v, {p \in places : p <= n + 1})
              = At(v, {p \in places : p <= n}) \o <<v[n + 1]>>
<1>1. PICK f : f = {p \in places : p <= n}
  OBVIOUS
<1>2. PICK g : g = {p \in places : p <= n + 1}
  OBVIOUS
<1>3. \A p \in f : p \in 1 .. n
  BY <1>1
<1>4. \A p : p \in g <=> p \in f \/ p = n + 1
  BY <1>1, <1>2
<1>5. At(v, g) = At(v, f) \o <<v[n + 1]>>
  BY <1>3, <1>4, AtOneMore
<1>. QED
  BY <1>1, <1>2, <1>5

(* What is flattened of lists that hold one or none.                       *)
LEMMA FlattenUpTo ==
    ASSUME NEW s, s \in Seq(ToSet(s)), NEW v,
           NEW m, m = Len(s),
           \A i \in 1 .. m : s[i] = <<>> \/ s[i] = <<v[i]>>,
           NEW places, \A i : i \in places <=> i \in 1 .. m /\ s[i] # <<>>
    PROVE  FlattenSeq(s) = At(v, places)
<1> DEFINE front(n) == {p \in places : p <= n}
<1> DEFINE part(n) == [i \in 1 .. n |-> s[i]]
<1> DEFINE S == {n \in Nat : n <= m => FlattenSeq(part(n)) = At(v, front(n))}
<1>1. m \in Nat /\ s = [i \in 1 .. m |-> s[i]]
  BY LenProperties
<1>2. places = {i \in 1 .. m : s[i] # <<>>}
  OBVIOUS
<1>3. 0 \in S
  <2>1. part(0) = <<>>
    OBVIOUS
  <2>2. front(0) = {}
    OBVIOUS
  <2>3. At(v, {}) = <<>>
    <3>1. Cardinality({}) = 0
      BY FS_EmptySet
    <3>. QED
      BY <3>1 DEF At
  <2>. QED
    BY <2>1, <2>2, <2>3, NoLine
<1>4. ASSUME NEW n \in S
      PROVE  n + 1 \in S
  <2>1. SUFFICES ASSUME n + 1 <= m
                 PROVE  FlattenSeq(part(n + 1)) = At(v, front(n + 1))
    OBVIOUS
  <2>2. n \in Nat /\ FlattenSeq(part(n)) = At(v, front(n)) /\ n + 1 \in 1 .. m
    BY <2>1
  <2>3. PICK now, one : now = s[n + 1] /\ one = <<v[n + 1]>>
    OBVIOUS
  <2>4. now = <<>> \/ now = one
    BY <2>2, <2>3
  <2>5. FlattenSeq(part(n + 1)) = FlattenSeq(part(n)) \o now
    <3>1. CASE n = 0
      <4>1. part(n + 1) = <<now>>
        BY <2>3, <3>1
      <4>2. part(n) = <<>>
        BY <3>1
      <4>3. <<>> \o now = now
        BY <2>3, <2>4, OneThere, ConcatEmptySeq
      <4>. QED
        BY <4>1, <4>2, <4>3, OneLine, NoLine
    <3>2. CASE n # 0
      <4>1. PICK p, q : p = part(n + 1) /\ q = part(n)
        OBVIOUS
      <4>2. Len(p) = n + 1 /\ Len(q) = n /\ p[n + 1] = now /\ \A i \in 1 .. n : q[i] = p[i]
        BY <2>2, <2>3, <4>1
      <4>3. FlattenSeq(p) = FlattenSeq(q) \o p[n + 1]
        BY <2>2, <3>2, <4>2, FlattenOneMore
      <4>. QED
        BY <4>1, <4>2, <4>3
    <3>. QED
      BY <3>1, <3>2
  <2>6. \A p \in front(n) : p \in 1 .. n
    BY <2>2
  <2>7. CASE now = <<>>
    <3>1. front(n + 1) = front(n)
      BY <1>1, <1>2, <2>2, <2>3, <2>7
    <3>2. PICK r : r = At(v, front(n))
      OBVIOUS
    <3>3. r \in Seq(ToSet(r))
      BY <2>2, <2>6, <3>2, AtLines
    <3>4. r \o <<>> = r
      BY <3>3, ConcatEmptySeq
    <3>. QED
      BY <2>2, <2>5, <2>7, <3>1, <3>2, <3>4
  <2>8. CASE now = one /\ now # <<>>
    <3>1. n \in Nat /\ (\A p \in places : p \in Nat \ {0}) /\ n + 1 \in places
      BY <1>1, <1>2, <2>2, <2>3, <2>8
    <3>2. At(v, front(n + 1)) = At(v, front(n)) \o <<v[n + 1]>>
      BY <3>1, FrontOneMore
    <3>. QED
      BY <2>2, <2>3, <2>5, <2>8, <3>2
  <2>. QED
    BY <2>4, <2>7, <2>8
<1>. HIDE DEF S
<1>5. \A n \in Nat : n \in S
  <2>1. S \subseteq Nat
    BY DEF S
  <2>. QED
    BY <1>3, <1>4, <2>1, Counting
<1>6. m \in S
  BY <1>1, <1>5
<1>7. part(m) = s /\ front(m) = places
  BY <1>1, <1>2
<1>8. FlattenSeq(part(m)) = At(v, front(m))
  BY <1>6 DEF S
<1>. QED
  BY <1>7, <1>8

LEMMA FlattenOnes ==
    ASSUME NEW s, s \in Seq(ToSet(s)), NEW v,
           \A i \in 1 .. Len(s) : s[i] = <<>> \/ s[i] = <<v[i]>>,
           NEW places, \A i : i \in places <=> i \in 1 .. Len(s) /\ s[i] # <<>>
    PROVE  FlattenSeq(s) = At(v, places)
<1>1. PICK m : m = Len(s)
  OBVIOUS
<1>2. \A i \in 1 .. m : s[i] = <<>> \/ s[i] = <<v[i]>>
  BY <1>1
<1>3. \A i : i \in places <=> i \in 1 .. m /\ s[i] # <<>>
  BY <1>1
<1>. QED
  BY <1>1, <1>2, <1>3, FlattenUpTo

-------------------------------------------------------------------------------
(* What has come back of a command on the host itself: all, or nothing.    *)
(* Containers: whether what Docker says of one can be read, whether it     *)
(* runs, and then has memory, and how often it was restarted.              *)
AnyContainer(c) ==
    /\ {"id", "name", "malformed", "running", "restarts", "memory", "state", "mounts"}
          \subseteq DOMAIN c
    /\ c.memory \in Nat /\ (c.running => c.memory # 0)

StatsRow(c) ==
    <<c.id, c.name, IF c.running THEN Percent(5) ELSE Word("--"),
      Size(c.memory, "MIB"), Word("/"), Size(2, "GIB"),
      IF c.running THEN Percent(7) ELSE Word("--"), Size(3, "KB"), Word("/"),
      Size(4, "B"), Size(1, "MB"), Word("/"), Num(0), Num(2)>>

IsStatsRow(parts) ==
    /\ Len(parts) >= 14
    /\ {parts[3].kind, parts[7].kind} \subseteq {"percent", "number"}
    /\ IsNumber(parts[14])

LEMMA Sized ==
    ASSUME NEW n \in Int, NEW a \in Int, NEW b \in Int
    PROVE  <<n>> \o <<a, b>> = <<n, a, b>>
<1>1. PICK s, t : s = <<n>> /\ t = <<a, b>>
  OBVIOUS
<1>2. /\ s \in Seq(Int) /\ t \in Seq(Int) /\ Len(s) = 1 /\ Len(t) = 2
      /\ s[1] = n /\ t[1] = a /\ t[2] = b
  BY <1>1
<1>3. /\ s \o t \in Seq(Int)
      /\ Len(s \o t) = Len(s) + Len(t)
      /\ \A i \in 1 .. Len(s) + Len(t) :
            (s \o t)[i] = IF i <= Len(s) THEN s[i] ELSE t[i - Len(s)]
  BY <1>2, ConcatProperties
<1>4. PICK u : u = s \o t
  OBVIOUS
<1>5. u \in Seq(Int) /\ Len(u) = 3
  BY <1>2, <1>3, <1>4
<1>6. u[1] = n /\ u[2] = a /\ u[3] = b
  <2>1. \A i \in 1 .. 3 : u[i] = IF i <= 1 THEN s[i] ELSE t[i - 1]
    BY <1>2, <1>3, <1>4
  <2>. QED
    BY <1>2, <2>1
<1>7. u = <<n, a, b>>
  BY <1>5, <1>6
<1>. QED
  BY <1>1, <1>4, <1>7

LEMMA BytesRead ==
    ASSUME NEW field, field.kind = "size", field.num # 0, NEW unit,
           field.word \in DOMAIN multipliers, unit = multipliers[field.word]
    PROVE  parse_size_in_bytes(field) = <<field.num>> \o unit
<1>1. ~(field.kind \notin {"size", "number"} \/ field.num = 0)
  OBVIOUS
<1>2. parse_size_in_bytes(field)
         = <<field.num>> \o (IF field.word \in DOMAIN multipliers THEN multipliers[field.word]
                             ELSE <<1, 0>>)
  BY <1>1, Zenon DEF parse_size_in_bytes
<1>3. (IF field.word \in DOMAIN multipliers THEN multipliers[field.word] ELSE <<1, 0>>) = unit
  BY Zenon
<1>4. parse_size_in_bytes(field) = <<field.num>> \o unit
  BY <1>2, <1>3, Zenon
<1>. QED
  BY <1>4

LEMMA StatsRowRead ==
    ASSUME NEW c, c.memory \in Nat, c.running => c.memory # 0
    PROVE  /\ IsStatsRow(StatsRow(c)) <=> c.running
           /\ ContainerStats(StatsRow(c)).container_id = c.id
           /\ c.running => ContainerStats(StatsRow(c)).sizes[4] = <<c.memory, 1024, 2>>
<1>1. /\ Len(StatsRow(c)) = 14
      /\ StatsRow(c)[1] = c.id
      /\ StatsRow(c)[3] = IF c.running THEN Percent(5) ELSE Word("--")
      /\ StatsRow(c)[4] = Size(c.memory, "MIB")
      /\ StatsRow(c)[7] = IF c.running THEN Percent(7) ELSE Word("--")
      /\ StatsRow(c)[14] = Num(2)
  BY DEF StatsRow
<1>2. IsStatsRow(StatsRow(c)) <=> c.running
  <2>1. c.running => StatsRow(c)[3].kind = "percent" /\ StatsRow(c)[7].kind = "percent"
    BY <1>1 DEF Percent, Field
  <2>2. ~c.running => StatsRow(c)[3].kind = "word"
    BY <1>1 DEF Word, Field
  <2>3. IsNumber(StatsRow(c)[14])
    BY <1>1, Numbers
  <2>4. Len(StatsRow(c)) >= 14
    BY <1>1
  <2>. QED
    BY <2>1, <2>2, <2>3, <2>4 DEF IsStatsRow
<1>3. ContainerStats(StatsRow(c)).container_id = c.id
  BY <1>1 DEF ContainerStats
<1>4. ContainerStats(StatsRow(c)).sizes[4] = parse_size_in_bytes(Size(c.memory, "MIB"))
  BY <1>1 DEF ContainerStats
<1>5. ASSUME c.running
      PROVE  parse_size_in_bytes(Size(c.memory, "MIB")) = <<c.memory, 1024, 2>>
  <2>1. PICK field : field = Size(c.memory, "MIB")
    OBVIOUS
  <2>2. PICK n : n = c.memory
    OBVIOUS
  <2>3. PICK number : number = <<n>>
    OBVIOUS
  <2>4. PICK unit : unit = <<1024, 2>>
    OBVIOUS
  <2>5. /\ field.kind = "size" /\ field.word = "MIB" /\ field.num = n
        /\ n \in Int /\ n # 0
    BY <1>5, <2>1, <2>2 DEF Size, Field
  <2>6. "MIB" \in DOMAIN multipliers /\ multipliers["MIB"] = unit
    BY <2>4 DEF multipliers
  <2>7. parse_size_in_bytes(field) = number \o unit
    <3>1. parse_size_in_bytes(field) = <<field.num>> \o unit
      <4>1. field.num # 0 /\ field.word \in DOMAIN multipliers /\ unit = multipliers[field.word]
        BY <2>5, <2>6
      <4>. QED
        BY <2>5, <4>1, BytesRead
    <3>. QED
      BY <2>3, <2>5, <3>1
  <2>8. number \o unit = <<n, 1024, 2>>
    BY <2>3, <2>4, <2>5, Sized
  <2>. QED
    BY <2>1, <2>2, <2>7, <2>8
<1>. QED
  BY <1>2, <1>3, <1>4, <1>5

LEMMA DockerScript ==
    ASSUME reader = "docker_collector"
    PROVE  /\ Script.commands = 5 /\ Script.on = "containers" /\ Script.cut = <<>>
           /\ Script.tolerated = 2 .. 5
  BY DEF Script, Readings, Local, Reading

(* What docker inspect prints of the containers that docker ps listed.     *)
LEMMA DockerBack ==
    ASSUME ReadingInv, reader = "docker_collector", Current > Script.commands
    PROVE  /\ seen[1] \in Facts["containers"] /\ seen[3] \in Facts["containers"]
           /\ outputs[2] = IF Complete(2) THEN inspect(docker_ps(seen[1]), seen[2])
                           ELSE [json |-> TRUE, items |-> <<>>]
           /\ outputs[3] = IF Complete(3) THEN docker_stats(seen[3]) ELSE <<>>
           /\ outputs[4] = IF Complete(4) THEN Table(Word("net"), Word("bridge")) ELSE <<>>
           /\ outputs[5] = IF Complete(5) THEN Table(Word("vol"), Word("")) ELSE <<>>
<1>1. /\ Script.commands = 5 /\ Script.on = "containers" /\ Script.cut = <<>>
      /\ Script.tolerated = 2 .. 5
  BY DockerScript
<1>2. \A i \in 1 .. 5 :
         /\ seen[i] \in Facts["containers"]
         /\ Complete(i) \/ i \in Script.tolerated
         /\ Complete(i) => outputs[i] = Printed(seen[i], SubSeq(outputs, 1, i - 1))[i]
         /\ ~Complete(i) => outputs[i] = Unread(i)
  BY <1>1, LocalBack
<1>3. ASSUME NEW f, NEW before
      PROVE  /\ Printed(f, before)[1] = docker_ps(f)
             /\ before # <<>> => Printed(f, before)[2] = inspect(before[1], f)
             /\ Printed(f, before)[3] = docker_stats(f)
             /\ Printed(f, before)[4] = Table(Word("net"), Word("bridge"))
             /\ Printed(f, before)[5] = Table(Word("vol"), Word(""))
  BY Zenon DEF Printed
<1>4. /\ Unread(2) = [json |-> TRUE, items |-> <<>>]
      /\ Unread(3) = <<>> /\ Unread(4) = <<>> /\ Unread(5) = <<>>
  BY DEF Unread
<1>5. 1 \in 1 .. 5 /\ 2 \in 1 .. 5 /\ 3 \in 1 .. 5 /\ 4 \in 1 .. 5 /\ 5 \in 1 .. 5
  OBVIOUS
<1>6. outputs[1] = docker_ps(seen[1])
  <2>1. Complete(1)
    <3>1. 1 \notin 2 .. 5
      OBVIOUS
    <3>. QED
      BY <1>1, <1>2, <1>5, <3>1
  <2>. QED
    BY <1>2, <1>3, <1>5, <2>1, Zenon
<1>7. PICK before : before = SubSeq(outputs, 1, 2 - 1)
  OBVIOUS
<1>8. before # <<>> /\ before[1] = outputs[1]
  <2>1. Len(outputs) \in Nat /\ Len(outputs) >= 5 /\ outputs \in Seq(ToSet(outputs))
    BY <1>1 DEF ReadingInv, Current
  <2>. QED
    BY <1>7, <2>1
<1>9. outputs[2] = IF Complete(2) THEN inspect(docker_ps(seen[1]), seen[2])
                   ELSE [json |-> TRUE, items |-> <<>>]
  <2>1. Complete(2) => outputs[2] = Printed(seen[2], before)[2]
    BY <1>2, <1>5, <1>7
  <2>2. Printed(seen[2], before)[2] = inspect(docker_ps(seen[1]), seen[2])
    <3>1. Printed(seen[2], before)[2] = inspect(before[1], seen[2])
      BY <1>3, <1>8, Zenon
    <3>. QED
      BY <1>6, <1>8, <3>1, Zenon
  <2>. QED
    BY <1>2, <1>4, <1>5, <2>1, <2>2, Zenon
<1>10. outputs[3] = IF Complete(3) THEN docker_stats(seen[3]) ELSE <<>>
  BY <1>2, <1>3, <1>4, <1>5, Zenon
<1>11. outputs[4] = IF Complete(4) THEN Table(Word("net"), Word("bridge")) ELSE <<>>
  <2>1. /\ Complete(4) => outputs[4] = Printed(seen[4], SubSeq(outputs, 1, 4 - 1))[4]
        /\ ~Complete(4) => outputs[4] = Unread(4)
    BY <1>2, <1>5
  <2>. QED
    BY <1>3, <1>4, <2>1, Zenon
<1>12. outputs[5] = IF Complete(5) THEN Table(Word("vol"), Word("")) ELSE <<>>
  <2>1. /\ Complete(5) => outputs[5] = Printed(seen[5], SubSeq(outputs, 1, 5 - 1))[5]
        /\ ~Complete(5) => outputs[5] = Unread(5)
    BY <1>2, <1>5
  <2>. QED
    BY <1>3, <1>4, <2>1, Zenon
<1>. QED
  BY <1>2, <1>5, <1>9, <1>10, <1>11, <1>12

(* The lines after a header.                                               *)
LEMMA BodyOf ==
    ASSUME NEW h, NEW rows, rows \in Seq(ToSet(rows)), NEW t, t = <<h>> \o rows
    PROVE  Body(t) = rows
<1>1. /\ t \in Seq(ToSet(t))
      /\ Len(t) = Len(rows) + 1
      /\ \A i \in 1 .. Len(rows) : t[i + 1] = rows[i]
  <2>1. t \in Seq(ToSet(t))
    BY Headed
  <2>2. Len(t) = Len(rows) + 1
    BY Headed
  <2>3. \A i \in 1 .. Len(rows) : t[i + 1] = rows[i]
    BY Headed
  <2>. QED
    BY <2>1, <2>2, <2>3
<1>2. Len(rows) \in Nat /\ DOMAIN rows = 1 .. Len(rows)
  BY LenProperties
<1>3. t # <<>>
  BY <1>1, <1>2
<1>4. /\ Tail(t) \in Seq(ToSet(t)) /\ Len(Tail(t)) = Len(t) - 1
      /\ \A i \in 1 .. Len(Tail(t)) : Tail(t)[i] = t[i + 1]
  BY <1>1, <1>3, HeadTailProperties
<1>5. Len(Tail(t)) = Len(rows) /\ \A i \in 1 .. Len(rows) : Tail(t)[i] = rows[i]
  BY <1>1, <1>2, <1>4
<1>6. rows \in Seq(ToSet(t))
  <2>1. \A i \in 1 .. Len(rows) : rows[i] \in ToSet(t)
    <3>1. \A i \in 1 .. Len(rows) : i + 1 \in DOMAIN t
      BY <1>1, <1>2
    <3>. QED
      BY <1>1, <3>1 DEF ToSet
  <2>. QED
    BY <1>2, <2>1
<1>7. Tail(t) = rows
  BY <1>4, <1>5, <1>6, SeqEqual
<1>. QED
  BY <1>3, <1>7 DEF Body

LEMMA NoBody == Body(<<>>) = <<>>
  BY DEF Body

(* What docker inspect makes of a list of docker ps.                       *)
ContainerPlaces(f, now) == Each(Where(f, LAMBDA c : c.running), LAMBDA c : PlaceOf(now, c.id))

InspectedOf(f, now) ==
    IF 0 \in ToSet(ContainerPlaces(f, now)) THEN <<>>
    ELSE Each(ContainerPlaces(f, now), LAMBDA i : now[i])

LEMMA Inspected ==
    ASSUME NEW f, f \in Seq(ToSet(f)), NEW now
    PROVE  inspect(docker_ps(f), now) = [json |-> TRUE, items |-> InspectedOf(f, now)]
<1>0. PICK listed : listed = Where(f, LAMBDA c : c.running)
  OBVIOUS
<1>1. PICK rows : rows = Each(listed, LAMBDA c : <<c.id, c.name>>)
  OBVIOUS
<1>2. DOMAIN listed = 1 .. Len(listed) /\ Len(listed) \in Nat
  <2>1. PICK m \in Nat : m = Len(f) /\ DOMAIN f = 1 .. m
    BY LenProperties
  <2>2. PICK at : at = {i \in DOMAIN f : f[i].running}
    OBVIOUS
  <2>3. (\A i \in at : i \in 1 .. m) /\ listed = At(f, at)
    BY <1>0, <2>1, <2>2 DEF Where
  <2>. QED
    BY <2>1, <2>3, AtLines
<1>3. /\ DOMAIN rows = 1 .. Len(listed)
      /\ \A i \in 1 .. Len(listed) : rows[i][1] = listed[i].id
      /\ rows \in Seq(ToSet(rows))
  <2>1. /\ DOMAIN rows = 1 .. Len(listed) /\ rows = [i \in 1 .. Len(listed) |-> rows[i]]
        /\ \A i \in 1 .. Len(listed) : rows[i] = <<listed[i].id, listed[i].name>>
    BY <1>1, <1>2 DEF Each
  <2>2. rows \in Seq(ToSet(rows))
    BY <1>2, <2>1, Numbered
  <2>3. \A i \in 1 .. Len(listed) : rows[i][1] = listed[i].id
    BY <2>1
  <2>. QED
    BY <2>1, <2>2, <2>3
<1>4. Body(docker_ps(f)) = rows
  <2>1. PICK h : h = <<Word("CONTAINER")>>
    OBVIOUS
  <2>2. docker_ps(f) = <<h>> \o rows
    BY <1>0, <1>1, <2>1 DEF docker_ps
  <2>. QED
    BY <1>3, <2>2, BodyOf
<1>5. Each(rows, LAMBDA parts : PlaceOf(now, parts[1])) = ContainerPlaces(f, now)
  BY <1>0, <1>2, <1>3 DEF Each, ContainerPlaces
<1>. QED
  BY <1>4, <1>5 DEF inspect, InspectedOf

LEMMA MetadataRead ==
    ASSUME NEW items
    PROVE  Each(parse_container_metadata([json |-> TRUE, items |-> items]),
                LAMBDA c : <<c.container_id, c.restart_count>>)
              = Each(Where(items, LAMBDA c : ~c.malformed), LAMBDA c : <<c.id, c.restarts>>)
<1>1. PICK s : s = Where(items, LAMBDA c : ~c.malformed)
  OBVIOUS
<1>2. parse_container_metadata([json |-> TRUE, items |-> items]) = Each(s, ContainerMetadata)
  BY <1>1 DEF parse_container_metadata
<1>3. ASSUME NEW i \in DOMAIN s
      PROVE  /\ Each(s, ContainerMetadata)[i].container_id = s[i].id
             /\ Each(s, ContainerMetadata)[i].restart_count = s[i].restarts
  BY DEF Each, ContainerMetadata
<1>4. DOMAIN Each(s, ContainerMetadata) = DOMAIN s
  BY DEF Each
<1>5. Each(Each(s, ContainerMetadata), LAMBDA c : <<c.container_id, c.restart_count>>)
         = Each(s, LAMBDA c : <<c.id, c.restarts>>)
  BY <1>3, <1>4 DEF Each
<1>. QED
  BY <1>1, <1>2, <1>5

LEMMA NoMetadata ==
    Each(parse_container_metadata([json |-> TRUE, items |-> <<>>]),
         LAMBDA c : <<c.container_id, c.restart_count>>) = <<>>
<1>1. PICK none : none = <<>>
  OBVIOUS
<1>2. DOMAIN none = {}
  BY <1>1
<1>3. {i \in DOMAIN none : ~none[i].malformed} = {}
  BY <1>2
<1>4. Where(none, LAMBDA c : ~c.malformed) = At(none, {})
  BY <1>3 DEF Where
<1>5. At(none, {}) = <<>>
  BY <1>2, NoLines
<1>6. Each(parse_container_metadata([json |-> TRUE, items |-> none]),
           LAMBDA c : <<c.container_id, c.restart_count>>) = Each(none, LAMBDA c : <<c.id, c.restarts>>)
  BY <1>1, <1>4, <1>5, MetadataRead
<1>7. Each(none, LAMBDA c : <<c.id, c.restarts>>) = none
  BY <1>1, <1>2 DEF Each
<1>. QED
  BY <1>1, <1>6, <1>7

LEMMA StatsRead ==
    ASSUME NEW f, Len(f) \in Nat, DOMAIN f = 1 .. Len(f), \A i \in DOMAIN f : AnyContainer(f[i])
    PROVE  Each(parse_container_stats(docker_stats(f)), LAMBDA c : <<c.container_id, c.sizes[4]>>)
              = Each(Where(f, LAMBDA c : c.running), LAMBDA c : <<c.id, <<c.memory, 1024, 2>>>>)
<1>1. PICK rows : rows = [i \in DOMAIN f |-> StatsRow(f[i])]
  OBVIOUS
<1>2. rows \in Seq(ToSet(rows)) /\ DOMAIN rows = 1 .. Len(f)
  <2>1. DOMAIN rows = 1 .. Len(f) /\ rows = [i \in 1 .. Len(f) |-> rows[i]]
    BY <1>1
  <2>. QED
    BY <2>1, Numbered
<1>3. docker_stats(f) = <<<<Word("CONTAINER")>>>> \o rows
  BY <1>1 DEF docker_stats, StatsRow, Each
<1>4. Body(docker_stats(f)) = rows
  BY <1>2, <1>3, BodyOf
<1>5. PICK places : places = {i \in DOMAIN f : f[i].running}
  OBVIOUS
<1>6. PICK want : want = [i \in DOMAIN f |-> <<f[i].memory, 1024, 2>>]
  OBVIOUS
<1>7. \A i \in DOMAIN f : IsStatsRow(rows[i]) <=> f[i].running
  BY <1>1, StatsRowRead DEF AnyContainer
<1>8. \A i \in DOMAIN f : ContainerStats(rows[i]).container_id = f[i].id
  BY <1>1, StatsRowRead DEF AnyContainer
<1>9. \A i \in DOMAIN f : f[i].running => ContainerStats(rows[i]).sizes[4] = want[i]
  BY <1>1, <1>6, StatsRowRead DEF AnyContainer
<1>10. {i \in DOMAIN rows : IsStatsRow(rows[i])} = places
  BY <1>1, <1>5, <1>7
<1>11. parse_container_stats(docker_stats(f)) = Each(At(rows, places), ContainerStats)
  BY <1>4, <1>10 DEF parse_container_stats, Where, IsStatsRow
<1>12. Where(f, LAMBDA c : c.running) = At(f, places)
  BY <1>5 DEF Where
<1>13. \A p \in places : p \in 1 .. Len(f)
  BY <1>5
<1>14. PICK read, held : read = At(rows, places) /\ held = At(f, places)
  OBVIOUS
<1>15. /\ DOMAIN read = 1 .. Cardinality(places)
       /\ \A k \in 1 .. Cardinality(places) :
             Nth(places, k) \in places /\ read[k] = rows[Nth(places, k)]
  BY <1>13, <1>14, AtLines
<1>16. /\ DOMAIN held = 1 .. Cardinality(places)
       /\ \A k \in 1 .. Cardinality(places) : held[k] = f[Nth(places, k)]
  BY <1>13, <1>14, AtLines
<1>17. ASSUME NEW k \in 1 .. Cardinality(places)
       PROVE  /\ ContainerStats(read[k]).container_id = held[k].id
              /\ ContainerStats(read[k]).sizes[4] = want[Nth(places, k)]
              /\ want[Nth(places, k)] = <<held[k].memory, 1024, 2>>
  <2>1. PICK q : q = Nth(places, k)
    OBVIOUS
  <2>2. q \in DOMAIN f /\ f[q].running
    BY <1>5, <1>15, <2>1
  <2>3. read[k] = rows[q] /\ held[k] = f[q]
    BY <1>15, <1>16, <2>1
  <2>4. ContainerStats(rows[q]).container_id = f[q].id
    BY <1>8, <2>2
  <2>5. ContainerStats(rows[q]).sizes[4] = want[q]
    BY <1>9, <2>2
  <2>6. want[q] = <<f[q].memory, 1024, 2>>
    BY <1>6, <2>2
  <2>. QED
    BY <2>1, <2>3, <2>4, <2>5, <2>6
<1>18. Each(Each(read, ContainerStats), LAMBDA c : <<c.container_id, c.sizes[4]>>)
          = [k \in 1 .. Cardinality(places) |->
                <<ContainerStats(read[k]).container_id, ContainerStats(read[k]).sizes[4]>>]
  BY <1>15 DEF Each
<1>19. Each(held, LAMBDA c : <<c.id, <<c.memory, 1024, 2>>>>)
          = [k \in 1 .. Cardinality(places) |-> <<held[k].id, want[Nth(places, k)]>>]
  BY <1>16, <1>17 DEF Each
<1>20. Each(Each(read, ContainerStats), LAMBDA c : <<c.container_id, c.sizes[4]>>)
          = Each(held, LAMBDA c : <<c.id, <<c.memory, 1024, 2>>>>)
  <2>1. \A k \in 1 .. Cardinality(places) :
           <<ContainerStats(read[k]).container_id, ContainerStats(read[k]).sizes[4]>>
              = <<held[k].id, want[Nth(places, k)]>>
    BY <1>17
  <2>. QED
    BY <1>18, <1>19, <2>1
<1>. QED
  BY <1>11, <1>12, <1>14, <1>20

LEMMA NoStats ==
    Each(parse_container_stats(<<>>), LAMBDA c : <<c.container_id, c.sizes[4]>>) = <<>>
<1>1. PICK none : none = <<>>
  OBVIOUS
<1>2. DOMAIN none = {} /\ Body(none) = none
  BY <1>1, NoBody
<1>3. {i \in DOMAIN none : IsStatsRow(none[i])} = {}
  BY <1>2
<1>4. parse_container_stats(none)
         = Each(At(none, {i \in DOMAIN none : IsStatsRow(none[i])}), ContainerStats)
  BY <1>2 DEF parse_container_stats, Where, IsStatsRow
<1>5. At(none, {}) = <<>>
  BY <1>2, NoLines
<1>6. parse_container_stats(none) = <<>>
  BY <1>3, <1>4, <1>5 DEF Each
<1>. QED
  BY <1>1, <1>6 DEF Each

LEMMA OneRow ==
    ASSUME NEW row, NEW places, places = {1}
    PROVE  At(<<row>>, places) = <<row>>
<1>1. PICK s : s = <<row>>
  OBVIOUS
<1>2. s = [i \in 1 .. 1 |-> s[i]]
  BY <1>1
<1>3. At(s, 1 .. 1) = s
  BY <1>2, AllAt
<1>4. 1 .. 1 = places
  OBVIOUS
<1>. QED
  BY <1>1, <1>3, <1>4

LEMMA TableRead ==
    ASSUME NEW first, NEW second
    PROVE  /\ Each(parse_networks(Table(first, second)), LAMBDA n : n.name) = <<first>>
           /\ Each(parse_volumes(Table(first, second)), LAMBDA v : v.name) = <<first>>
<1>1. PICK row, rows : row = <<Num(1), first, second, Word("local")>> /\ rows = <<row>>
  OBVIOUS
<1>2. Len(row) = 4 /\ row[2] = first
  BY <1>1
<1>3. DOMAIN rows = {1} /\ rows[1] = row
  BY <1>1
<1>4. Body(Table(first, second)) = rows
  <2>1. rows \in Seq(ToSet(rows))
    <3>1. DOMAIN rows = 1 .. 1 /\ rows = [i \in 1 .. 1 |-> rows[i]]
      BY <1>1
    <3>. QED
      BY <3>1, Numbered
  <2>2. PICK h : h = <<Word("HEADER")>>
    OBVIOUS
  <2>3. PICK t : t = Table(first, second)
    OBVIOUS
  <2>4. t = <<h>> \o rows
    BY <1>1, <2>2, <2>3 DEF Table
  <2>. QED
    BY <2>1, <2>3, <2>4, BodyOf
<1>5. /\ {i \in DOMAIN rows : Len(rows[i]) >= 4} = {1}
      /\ {i \in DOMAIN rows : Len(rows[i]) >= 2} = {1}
  <2>1. Len(rows[1]) >= 4 /\ Len(rows[1]) >= 2
    BY <1>2, <1>3
  <2>. QED
    BY <1>3, <2>1
<1>6. At(rows, {1}) = rows
  BY <1>1, OneRow
<1>7. Where(rows, LAMBDA parts : Len(parts) >= 4) = rows
  BY <1>5, <1>6 DEF Where
<1>8. Where(rows, LAMBDA parts : Len(parts) >= 2) = rows
  BY <1>5, <1>6 DEF Where
<1>9. Each(parse_networks(Table(first, second)), LAMBDA n : n.name) = <<first>>
  <2>1. parse_networks(Table(first, second))
           = Each(rows, LAMBDA parts : [network_id |-> parts[1], name |-> parts[2],
                                        driver |-> parts[3], scope |-> parts[4]])
    BY <1>4, <1>7 DEF parse_networks
  <2>. QED
    BY <1>2, <1>3, <2>1 DEF Each
<1>10. Each(parse_volumes(Table(first, second)), LAMBDA v : v.name) = <<first>>
  <2>1. parse_volumes(Table(first, second))
           = Each(rows, LAMBDA parts : [driver |-> parts[1], name |-> parts[2]])
    BY <1>4, <1>8 DEF parse_volumes
  <2>. QED
    BY <1>2, <1>3, <2>1 DEF Each
<1>. QED
  BY <1>9, <1>10

LEMMA NoTable ==
    /\ Each(parse_networks(<<>>), LAMBDA n : n.name) = <<>>
    /\ Each(parse_volumes(<<>>), LAMBDA v : v.name) = <<>>
<1>1. PICK none : none = <<>>
  OBVIOUS
<1>2. DOMAIN none = {} /\ Body(none) = none
  BY <1>1, NoBody
<1>3. At(none, {}) = none
  BY <1>1, <1>2, NoLines
<1>4. {i \in DOMAIN none : Len(none[i]) >= 4} = {} /\ {i \in DOMAIN none : Len(none[i]) >= 2} = {}
  BY <1>2
<1>5. /\ Where(none, LAMBDA parts : Len(parts) >= 4) = none
      /\ Where(none, LAMBDA parts : Len(parts) >= 2) = none
  BY <1>3, <1>4 DEF Where
<1>6. parse_networks(none) = none /\ parse_volumes(none) = none
  BY <1>1, <1>2, <1>5 DEF parse_networks, parse_volumes, Each
<1>. QED
  BY <1>1, <1>6 DEF Each

LEMMA ContainersRight ==
    ASSUME ReadingInv,
           \A f \in Facts["containers"] :
              f \in Seq(ToSet(f)) /\ \A i \in DOMAIN f : AnyContainer(f[i])
    PROVE  ContainersRead
<1>1. SUFFICES ASSUME reader = "docker_collector", Current > Script.commands
               PROVE  ContainersRead
  BY DEF ContainersRead, Done
<1>2. /\ seen[1] \in Facts["containers"] /\ seen[3] \in Facts["containers"]
      /\ outputs[2] = IF Complete(2) THEN inspect(docker_ps(seen[1]), seen[2])
                      ELSE [json |-> TRUE, items |-> <<>>]
      /\ outputs[3] = IF Complete(3) THEN docker_stats(seen[3]) ELSE <<>>
      /\ outputs[4] = IF Complete(4) THEN Table(Word("net"), Word("bridge")) ELSE <<>>
      /\ outputs[5] = IF Complete(5) THEN Table(Word("vol"), Word("")) ELSE <<>>
  BY <1>1, DockerBack
<1>5. PICK inspected : inspected = InspectedOf(seen[1], seen[2])
  OBVIOUS
<1>6. Each(parse_container_metadata(outputs[2]),
           LAMBDA c : <<c.container_id, c.restart_count>>)
         = If(2, Each(Where(inspected, LAMBDA c : ~c.malformed), LAMBDA c : <<c.id, c.restarts>>))
  <2>1. seen[1] \in Seq(ToSet(seen[1]))
    BY <1>2
  <2>2. inspect(docker_ps(seen[1]), seen[2]) = [json |-> TRUE, items |-> inspected]
    BY <1>5, <2>1, Inspected, Zenon
  <2>. QED
    BY <1>2, <2>2, MetadataRead, NoMetadata DEF If
<1>7. Each(parse_container_stats(outputs[3]), LAMBDA c : <<c.container_id, c.sizes[4]>>)
         = If(3, Each(Where(seen[3], LAMBDA c : c.running),
                      LAMBDA c : <<c.id, <<c.memory, 1024, 2>>>>))
  <2>1. PICK f \in Facts["containers"] : f = seen[3]
    BY <1>2
  <2>2. Len(f) \in Nat /\ DOMAIN f = 1 .. Len(f) /\ \A i \in DOMAIN f : AnyContainer(f[i])
    BY LenProperties
  <2>. QED
    BY <1>2, <2>1, <2>2, StatsRead, NoStats DEF If
<1>8. Each(parse_networks(outputs[4]), LAMBDA n : n.name) = If(4, <<Word("net")>>)
  BY <1>2, TableRead, NoTable DEF If
<1>9. Each(parse_volumes(outputs[5]), LAMBDA v : v.name) = If(5, <<Word("vol")>>)
  BY <1>2, TableRead, NoTable DEF If
<1>. QED
  BY <1>5, <1>6, <1>7, <1>8, <1>9 DEF ContainersRead, DockerParser, InspectedOf, ContainerPlaces

-------------------------------------------------------------------------------
(* Lines of the log: too short, or with the name of the host where it is   *)
(* looked for and a message behind it.                                     *)
HostPlace(line) == IF line[1].word \in Months THEN 4 ELSE 2

AnyLogLine(line) ==
    /\ line \in Seq(ToSet(line))
    /\ Len(line) >= 2 /\ (line[1].word \in Months => Len(line) >= 4) =>
          /\ line[HostPlace(line)].word = "web1"
          /\ Len(line) >= 4
          /\ Len(line) >= HostPlace(line) + 2

LEMMA EndOf ==
    ASSUME NEW line, line \in Seq(ToSet(line)), NEW k \in 1 .. Len(line)
    PROVE  Last(SubSeq(line, k, Len(line))) = Last(line)
<1>1. Len(line) \in Nat /\ k <= Len(line) /\ k \in Nat
  OBVIOUS
<1>2. /\ Len(SubSeq(line, k, Len(line))) = Len(line) - k + 1
      /\ SubSeq(line, k, Len(line))[Len(line) - k + 1] = line[Len(line)]
  OBVIOUS
<1>. QED
  BY <1>2 DEF Last

LEMMA EntryRead ==
    ASSUME NEW line, line \in Seq(ToSet(line)), NEW host \in {2, 4}, Len(line) >= host + 2,
           line[host].word = "web1", NEW stamped
    PROVE  /\ LogEntry(line, host, stamped).hostname = "web1"
           /\ Last(LogEntry(line, host, stamped).message) = Last(line)
<1>1. PICK k : k = IF line[host].kind = "colon" THEN host + 1 ELSE host + 2
  OBVIOUS
<1>2. k \in 1 .. Len(line)
  BY <1>1
<1>3. LogEntry(line, host, stamped).message = SubSeq(line, k, Len(line))
  BY <1>1 DEF LogEntry
<1>4. LogEntry(line, host, stamped).hostname = "web1"
  BY DEF LogEntry
<1>. QED
  BY <1>2, <1>3, <1>4, EndOf

LEMMA LineRead ==
    ASSUME NEW line, AnyLogLine(line)
    PROVE  /\ parse_line(line) = <<>> \/ parse_line(line) = <<parse_line(line)[1]>>
           /\ parse_line(line) # <<>> <=> Len(line) > 3
           /\ parse_line(line) # <<>> =>
                 /\ parse_line(line)[1].hostname = "web1"
                 /\ Last(parse_line(line)[1].message) = Last(line)
<1>0. Len(line) \in Nat /\ line \in Seq(ToSet(line))
  BY DEF AnyLogLine
<1>1. CASE Len(line) < 2
  BY <1>0, <1>1 DEF parse_line
<1>2. CASE Len(line) >= 2 /\ line[1].word \in Months /\ Len(line) < 4
  BY <1>0, <1>2 DEF parse_line
<1>3. CASE Len(line) >= 2 /\ line[1].word \in Months /\ Len(line) >= 4
  <2>1. PICK entry : entry = LogEntry(line, 4, IsNumber(line[2]) /\ line[3].kind = "clock")
    OBVIOUS
  <2>2. parse_line(line) = <<entry>>
    BY <1>0, <1>3, <2>1 DEF parse_line
  <2>3. Len(line) >= 4 + 2 /\ line[4].word = "web1"
    BY <1>3 DEF AnyLogLine, HostPlace
  <2>4. entry.hostname = "web1" /\ Last(entry.message) = Last(line)
    <3>1. 4 \in {2, 4}
      OBVIOUS
    <3>. QED
      BY <1>0, <2>1, <2>3, <3>1, EntryRead, Zenon
  <2>. QED
    BY <1>0, <1>3, <2>2, <2>4
<1>4. CASE Len(line) >= 2 /\ line[1].word \notin Months
  <2>1. PICK entry : entry = LogEntry(line, 2, line[1].kind = "clock")
    OBVIOUS
  <2>2. parse_line(line) = <<entry>>
    BY <1>0, <1>4, <2>1 DEF parse_line
  <2>3. Len(line) >= 2 + 2 /\ line[2].word = "web1"
    BY <1>4 DEF AnyLogLine, HostPlace
  <2>4. entry.hostname = "web1" /\ Last(entry.message) = Last(line)
    <3>1. 2 \in {2, 4}
      OBVIOUS
    <3>. QED
      BY <1>0, <2>1, <2>3, <3>1, EntryRead, Zenon
  <2>. QED
    BY <1>0, <2>2, <2>3, <2>4
<1>. QED
  BY <1>0, <1>1, <1>2, <1>3, <1>4

LogLinesBack(lines) ==
    LET entries == FlattenSeq(Each(lines, parse_line))
        long == Where(lines, LAMBDA line : Len(line) > 3)
    IN /\ Len(entries) = Len(long)
       /\ \A i \in DOMAIN entries :
             /\ entries[i].hostname = "web1"
             /\ Last(entries[i].message) = Last(long[i])

LEMMA LogLinesRead ==
    ASSUME NEW lines, lines \in Seq(ToSet(lines)), \A i \in DOMAIN lines : AnyLogLine(lines[i])
    PROVE  LogLinesBack(lines)
<1>0. PICK entries, long : /\ entries = FlattenSeq(Each(lines, parse_line))
                           /\ long = Where(lines, LAMBDA line : Len(line) > 3)
  OBVIOUS
<1>1. PICK m \in Nat : m = Len(lines)
  OBVIOUS
<1>2. DOMAIN lines = 1 .. m
  BY <1>1, LenProperties
<1>3. PICK s : s = [i \in 1 .. m |-> parse_line(lines[i])]
  OBVIOUS
<1>4. PICK v : v = [i \in 1 .. m |-> s[i][1]]
  OBVIOUS
<1>5. entries = FlattenSeq(s)
  BY <1>0, <1>2, <1>3 DEF Each
<1>6. \A i \in 1 .. m : s[i] = <<>> \/ s[i] = <<v[i]>>
  BY <1>2, <1>3, <1>4, LineRead
<1>7. \A i \in 1 .. m : s[i] # <<>> <=> Len(lines[i]) > 3
  BY <1>2, <1>3, LineRead
<1>8. \A i \in 1 .. m : s[i] # <<>> => /\ v[i].hostname = "web1"
                                      /\ Last(v[i].message) = Last(lines[i])
  BY <1>2, <1>3, <1>4, LineRead
<1>9. PICK places : places = {i \in 1 .. m : s[i] # <<>>}
  OBVIOUS
<1>10. FlattenSeq(s) = At(v, places)
  <2>1. s \in Seq(ToSet(s)) /\ Len(s) = m
    <3>1. DOMAIN s = 1 .. m /\ s = [i \in 1 .. m |-> s[i]]
      BY <1>3
    <3>. QED
      BY <3>1, Numbered
  <2>2. \A i \in 1 .. Len(s) : s[i] = <<>> \/ s[i] = <<v[i]>>
    BY <1>6, <2>1
  <2>3. \A i : i \in places <=> i \in 1 .. Len(s) /\ s[i] # <<>>
    BY <1>9, <2>1
  <2>. QED
    BY <2>1, <2>2, <2>3, FlattenOnes
<1>11. \A p \in places : p \in 1 .. m
  BY <1>9
<1>12. /\ Len(At(v, places)) = Cardinality(places)
       /\ DOMAIN At(v, places) = 1 .. Cardinality(places)
       /\ \A k \in 1 .. Cardinality(places) :
             Nth(places, k) \in places /\ At(v, places)[k] = v[Nth(places, k)]
  BY <1>11, AtLines
<1>13. places = {i \in DOMAIN lines : Len(lines[i]) > 3}
  BY <1>2, <1>7, <1>9
<1>14. long = At(lines, places)
  BY <1>0, <1>13 DEF Where
<1>15. /\ Len(long) = Cardinality(places)
       /\ \A k \in 1 .. Cardinality(places) : long[k] = lines[Nth(places, k)]
  BY <1>11, <1>14, AtLines
<1>16. \A p \in places : v[p].hostname = "web1" /\ Last(v[p].message) = Last(lines[p])
  BY <1>8, <1>9
<1>17. /\ Len(entries) = Len(long)
       /\ \A i \in DOMAIN entries : /\ entries[i].hostname = "web1"
                                    /\ Last(entries[i].message) = Last(long[i])
  BY <1>5, <1>10, <1>12, <1>15, <1>16
<1>. QED
  BY <1>0, <1>17, Zenon DEF LogLinesBack

(* The three logs.                                                         *)
AnyLog(lines) == lines \in Seq(ToSet(lines)) /\ \A i \in DOMAIN lines : AnyLogLine(lines[i])

LEMMA NoLog == AnyLog(<<>>)
  BY DEF AnyLog

LEMMA BothLogs ==
    ASSUME NEW a, AnyLog(a), NEW b, AnyLog(b)
    PROVE  AnyLog(a \o b)
<1>1. PICK T : T = ToSet(a) \union ToSet(b)
  OBVIOUS
<1>2. \A line \in T : AnyLogLine(line)
  BY <1>1 DEF AnyLog, ToSet
<1>3. a \in Seq(T) /\ b \in Seq(T)
  BY <1>1 DEF AnyLog
<1>4. PICK c \in Seq(T) : c = a \o b
  <2>1. a \o b \in Seq(T)
    BY <1>3, ConcatProperties
  <2>. QED
    BY <2>1
<1>5. c \in Seq(ToSet(c))
  BY DEF ToSet
<1>6. \A i \in DOMAIN c : AnyLogLine(c[i])
  BY <1>2
<1>. QED
  BY <1>4, <1>5, <1>6 DEF AnyLog

LEMMA LogsBack ==
    ASSUME ReadingInv, reader = "log_collector", Current > Script.commands,
           \A f \in Facts["logs"] : AnyLog(f.journal) /\ AnyLog(f.syslog) /\ AnyLog(f.messages)
    PROVE  /\ AnyLog(outputs[1]) /\ AnyLog(outputs[2]) /\ AnyLog(outputs[3])
           /\ LogLines = outputs[1] \o outputs[2] \o outputs[3]
<1>1. Script.commands = 3 /\ Script.on = "logs" /\ Script.cut = <<>>
  BY DEF Script, Readings, Local, Reading
<1>2. \A i \in 1 .. 3 :
         /\ seen[i] \in Facts["logs"]
         /\ Complete(i) => outputs[i] = Printed(seen[i], SubSeq(outputs, 1, i - 1))[i]
         /\ ~Complete(i) => outputs[i] = Unread(i)
  BY <1>1, LocalBack
<1>3. ASSUME NEW f, NEW before
      PROVE  /\ Printed(f, before)[1] = f.journal
             /\ before # <<>> =>
                   Printed(f, before)[2] = IF before[1] # <<>> THEN <<>> ELSE f.syslog
             /\ Printed(f, before)[3] = f.messages
  BY Zenon DEF Printed
<1>4. Unread(1) = <<>> /\ Unread(2) = <<>> /\ Unread(3) = <<>>
  BY DEF Unread
<1>5. 1 \in 1 .. 3 /\ 2 \in 1 .. 3 /\ 3 \in 1 .. 3
  OBVIOUS
<1>6. outputs[1] = If(1, seen[1].journal)
  BY <1>2, <1>3, <1>4, <1>5, ZenonT(60) DEF If
<1>7. PICK before : before = SubSeq(outputs, 1, 2 - 1)
  OBVIOUS
<1>8. before # <<>> /\ before[1] = outputs[1]
  <2>1. Len(outputs) \in Nat /\ Len(outputs) >= 3 /\ outputs \in Seq(ToSet(outputs))
    BY <1>1 DEF ReadingInv, Current
  <2>. QED
    BY <1>7, <2>1
<1>9. outputs[2] = If(2, IF outputs[1] = <<>> THEN seen[2].syslog ELSE <<>>)
  <2>1. Complete(2) => outputs[2] = Printed(seen[2], before)[2]
    BY <1>2, <1>5, <1>7
  <2>2. Printed(seen[2], before)[2] = IF outputs[1] = <<>> THEN seen[2].syslog ELSE <<>>
    BY <1>3, <1>8, Zenon
  <2>. QED
    BY <1>2, <1>4, <1>5, <2>1, <2>2, Zenon DEF If
<1>10. outputs[3] = If(3, seen[3].messages)
  BY <1>2, <1>3, <1>4, <1>5, ZenonT(60) DEF If
<1>11. LogLines = outputs[1] \o outputs[2] \o outputs[3]
  BY <1>6, <1>9, <1>10, Zenon DEF LogLines
<1>12. AnyLog(outputs[1]) /\ AnyLog(outputs[2]) /\ AnyLog(outputs[3])
  BY <1>2, <1>5, <1>6, <1>9, <1>10, NoLog, Zenon DEF If
<1>. QED
  BY <1>11, <1>12

LEMMA LogsRight ==
    ASSUME ReadingInv,
           \A f \in Facts["logs"] : AnyLog(f.journal) /\ AnyLog(f.syslog) /\ AnyLog(f.messages)
    PROVE  LogsRead
<1>1. SUFFICES ASSUME reader = "log_collector", Current > Script.commands
               PROVE  LogsRead
  BY DEF LogsRead, Done
<1>2. /\ AnyLog(outputs[1]) /\ AnyLog(outputs[2]) /\ AnyLog(outputs[3])
      /\ LogLines = outputs[1] \o outputs[2] \o outputs[3]
  BY <1>1, LogsBack
<1>3. PICK lines : lines = outputs[1] \o outputs[2] \o outputs[3]
  OBVIOUS
<1>4. AnyLog(lines)
  BY <1>2, <1>3, BothLogs, Zenon
<1>5. LogParser(outputs[1], outputs[2], outputs[3]) = FlattenSeq(Each(lines, parse_line))
  BY <1>3 DEF LogParser
<1>7. lines \in Seq(ToSet(lines)) /\ \A i \in DOMAIN lines : AnyLogLine(lines[i])
  BY <1>4, Zenon DEF AnyLog
<1>8. LogLinesBack(lines)
  BY <1>7, LogLinesRead, Zenon
<1>. QED
  BY <1>2, <1>3, <1>5, <1>8, Zenon DEF LogsRead, LogLinesBack

-------------------------------------------------------------------------------
(* Counts of restarts.                                                     *)

(* The last of some places.                                                *)
LEMMA GreatestPlace ==
    ASSUME NEW n \in Nat, NEW d, d \subseteq 1 .. n, d # {}
    PROVE  Max(d) \in d /\ \A j \in d : j <= Max(d)
<1>1. PICK e : e = {n - i : i \in d}
  OBVIOUS
<1>2. e \subseteq Nat /\ e # {}
  <2>1. \A i \in d : n - i \in Nat
    OBVIOUS
  <2>. QED
    BY <1>1, <2>1
<1>3. PICK k \in e : \A j \in e : k <= j
  BY <1>2, FirstPlace
<1>4. PICK i \in d : k = n - i
  BY <1>1, <1>3
<1>5. ASSUME NEW j \in d
      PROVE  i >= j
  <2>1. k <= n - j
    BY <1>1, <1>3
  <2>2. i \in Int /\ j \in Int
    OBVIOUS
  <2>. QED
    BY <1>4, <2>1, <2>2
<1>6. Max(d) \in d /\ \A j \in d : Max(d) >= j
  BY <1>5 DEF Max
<1>7. \A j \in d : j \in Int
  OBVIOUS
<1>. QED
  BY <1>6, <1>7

(* FoldLeft, for restart counts and for the digits of a number, by its     *)
(* recursion over sets of places.                                          *)
Folded(base, x, y) == IF base = 1 THEN x + y ELSE base * x + y

Folding(base, v, n, g) ==
    g = [s \in SUBSET (1 .. n) |->
            IF s = {} THEN 0 ELSE Folded(base, g[s \ {Max(s)}], v[Max(s)])]

LEMMA Greatest ==
    ASSUME NEW n \in Nat, NEW s \in SUBSET (1 .. n + 1), n + 1 \in s
    PROVE  Max(s) = n + 1 /\ s \ {n + 1} \in SUBSET (1 .. n)
<1>1. \A i \in s : n + 1 >= i
  OBVIOUS
<1>2. \A i \in s : (\A j \in s : i >= j) => i = n + 1
  BY <1>1
<1>3. Max(s) = n + 1
  BY <1>1, <1>2 DEF Max
<1>. QED
  BY <1>3

(* The function by which FoldLeft is defined, which exists.                *)
LEMMA FoldingThere ==
    ASSUME NEW base, NEW v
    PROVE  \A n \in Nat : \E g : Folding(base, v, n, g)
<1> DEFINE S == {n \in Nat : \E g : Folding(base, v, n, g)}
<1>1. 0 \in S
  <2>1. PICK g : g = [s \in SUBSET (1 .. 0) |-> 0]
    OBVIOUS
  <2>2. \A s \in SUBSET (1 .. 0) : s = {}
    OBVIOUS
  <2>3. Folding(base, v, 0, g)
    BY <2>1, <2>2 DEF Folding
  <2>. QED
    BY <2>3
<1>2. ASSUME NEW n \in S
      PROVE  n + 1 \in S
  <2>1. PICK f : Folding(base, v, n, f)
    OBVIOUS
  <2>2. PICK g : g = [s \in SUBSET (1 .. n + 1) |->
                        IF n + 1 \in s THEN Folded(base, f[s \ {n + 1}], v[n + 1])
                        ELSE f[s]]
    OBVIOUS
  <2>3. ASSUME NEW s \in SUBSET (1 .. n + 1)
        PROVE  g[s] = IF s = {} THEN 0 ELSE Folded(base, g[s \ {Max(s)}], v[Max(s)])
    <3>1. CASE n + 1 \in s
      <4>1. Max(s) = n + 1 /\ s \ {n + 1} \in SUBSET (1 .. n)
        BY <3>1, Greatest
      <4>2. PICK t : t = s \ {n + 1}
        OBVIOUS
      <4>3. t \in SUBSET (1 .. n + 1) /\ n + 1 \notin t
        BY <4>1, <4>2
      <4>4. g[t] = f[t]
        BY <2>2, <4>3
      <4>5. g[s] = Folded(base, f[t], v[n + 1])
        BY <2>2, <3>1, <4>2
      <4>. QED
        BY <3>1, <4>1, <4>2, <4>4, <4>5
    <3>2. CASE n + 1 \notin s
      <4>1. s \in SUBSET (1 .. n)
        <5>1. \A i \in s : i \in 1 .. n + 1 /\ i # n + 1
          BY <3>2
        <5>. QED
          BY <5>1
      <4>2. PICK t : t = s \ {Max(s)}
        OBVIOUS
      <4>3. t \in SUBSET (1 .. n + 1) /\ n + 1 \notin t
        BY <3>2, <4>2
      <4>4. g[t] = f[t] /\ g[s] = f[s]
        BY <2>2, <3>2, <4>3
      <4>5. f[s] = IF s = {} THEN 0 ELSE Folded(base, f[t], v[Max(s)])
        BY <2>1, <4>1, <4>2 DEF Folding
      <4>. QED
        BY <4>2, <4>4, <4>5
    <3>. QED
      BY <3>1, <3>2
  <2>4. Folding(base, v, n + 1, g)
    BY <2>2, <2>3 DEF Folding
  <2>. QED
    BY <2>4
<1>. HIDE DEF S
<1>3. \A n \in Nat : n \in S
  <2>1. S \subseteq Nat
    BY DEF S
  <2>. QED
    BY <1>1, <1>2, <2>1, Counting
<1>. QED
  BY <1>3 DEF S

(* What is folded of the first places, one by one.                         *)
LEMMA OneByOne ==
    ASSUME NEW base, NEW n \in Nat, NEW v, NEW g, Folding(base, v, n, g)
    PROVE  /\ g[1 .. 0] = 0
           /\ \A k \in Nat : k + 1 <= n => g[1 .. k + 1] = Folded(base, g[1 .. k], v[k + 1])
<1>1. g[1 .. 0] = 0
  <2>1. 1 .. 0 = {} /\ {} \in SUBSET (1 .. n)
    OBVIOUS
  <2>. QED
    BY <2>1 DEF Folding
<1>2. ASSUME NEW k \in Nat, k + 1 <= n
      PROVE  g[1 .. k + 1] = Folded(base, g[1 .. k], v[k + 1])
  <2>1. PICK d : d = 1 .. k + 1
    OBVIOUS
  <2>2. d \in SUBSET (1 .. n) /\ d \in SUBSET (1 .. k + 1) /\ k + 1 \in d
    BY <1>2, <2>1
  <2>3. Max(d) = k + 1
    BY <2>2, Greatest
  <2>4. d \ {k + 1} = 1 .. k
    BY <2>1
  <2>. QED
    BY <2>1, <2>2, <2>3, <2>4 DEF Folding
<1>. QED
  BY <1>1, <1>2

LEMMA RestartsBy ==
    ASSUME NEW n \in Nat, NEW s, DOMAIN s = 1 .. n,
           NEW v, v = [i \in 1 .. n |-> Key(s[i], "restartCount", 0)]
    PROVE  \E g : Folding(1, v, n, g) /\ Restarts(s) = g[1 .. n]
<1> DEFINE step(g) == [d \in SUBSET (DOMAIN s) |->
                         IF d = {} THEN 0
                         ELSE g[d \ {Max(d)}] + Key(s[Max(d)], "restartCount", 0)]
<1> DEFINE iter[d \in SUBSET (DOMAIN s)] ==
                         IF d = {} THEN 0
                         ELSE iter[d \ {Max(d)}] + Key(s[Max(d)], "restartCount", 0)
<1>1. iter = CHOOSE g : g = step(g)
  OBVIOUS
<1>2. Restarts(s) = iter[DOMAIN s]
  <2>. HIDE DEF step
  <2>. QED
    BY DEF Restarts, FoldLeft, MapThenFoldSet
<1>3. \A g : g = step(g) <=> Folding(1, v, n, g)
  <2>1. \A d \in SUBSET (1 .. n) : d # {} => Max(d) \in 1 .. n
    BY GreatestPlace
  <2>. QED
    BY <2>1 DEF Folding, Folded
<1>. HIDE DEF iter, step
<1>4. \E g : g = step(g)
  BY <1>3, FoldingThere
<1>5. iter = step(iter)
  BY <1>1, <1>4
<1>. QED
  BY <1>2, <1>3, <1>5

(* The count of the first places, one by one.                              *)
LEMMA RestartsCounted ==
    ASSUME NEW n \in Nat, NEW s, DOMAIN s = 1 .. n
    PROVE  \E h : /\ h[0] = 0 /\ h[n] = Restarts(s)
                  /\ \A k \in Nat : k + 1 <= n =>
                        h[k + 1] = h[k] + Key(s[k + 1], "restartCount", 0)
<1>1. PICK w : w = [i \in 1 .. n |-> Key(s[i], "restartCount", 0)]
  OBVIOUS
<1>2. PICK g : Folding(1, w, n, g) /\ Restarts(s) = g[1 .. n]
  BY <1>1, RestartsBy
<1>3. PICK h : h = [k \in 0 .. n |-> g[1 .. k]]
  OBVIOUS
<1>4. h[n] = Restarts(s)
  BY <1>2, <1>3
<1>5. h[0] = 0
  <2>1. Folding(1, w, n, g)
    BY <1>2, Zenon
  <2>2. 1 .. 0 = {} /\ {} \in SUBSET (1 .. n)
    OBVIOUS
  <2>3. g[1 .. 0] = 0
    BY <2>1, <2>2 DEF Folding
  <2>. QED
    BY <1>3, <2>3
<1>6. ASSUME NEW k \in Nat, k + 1 <= n
      PROVE  h[k + 1] = h[k] + Key(s[k + 1], "restartCount", 0)
  <2>1. g[1 .. k + 1] = Folded(1, g[1 .. k], w[k + 1])
    BY <1>2, <1>6, OneByOne
  <2>2. h[k + 1] = g[1 .. k + 1] /\ h[k] = g[1 .. k]
    BY <1>3, <1>6
  <2>3. w[k + 1] = Key(s[k + 1], "restartCount", 0)
    BY <1>1, <1>6
  <2>. QED
    BY <2>1, <2>2, <2>3 DEF Folded
<1>. QED
  BY <1>4, <1>5, <1>6

(* The restarts of one list after another are those of both.               *)
LEMMA RestartsSum ==
    ASSUME NEW A, NEW s \in Seq(A), NEW t \in Seq(A),
           \A e \in A : Key(e, "restartCount", 0) \in Int
    PROVE  Restarts(s \o t) = Restarts(s) + Restarts(t)
<1>1. PICK m, n, u : m = Len(s) /\ n = Len(t) /\ u = s \o t
  OBVIOUS
<1>2. m \in Nat /\ n \in Nat /\ DOMAIN s = 1 .. m /\ DOMAIN t = 1 .. n
  BY <1>1, LenProperties
<1>3. /\ u \in Seq(A) /\ Len(u) = m + n /\ DOMAIN u = 1 .. m + n
      /\ \A i \in 1 .. m + n : u[i] = IF i <= m THEN s[i] ELSE t[i - m]
  <2>1. /\ s \o t \in Seq(A)
        /\ Len(s \o t) = Len(s) + Len(t)
        /\ \A i \in 1 .. Len(s) + Len(t) :
              (s \o t)[i] = IF i <= Len(s) THEN s[i] ELSE t[i - Len(s)]
    BY ConcatProperties
  <2>2. u \in Seq(A) /\ Len(u) = m + n /\ \A i \in 1 .. m + n : u[i] = IF i <= m THEN s[i] ELSE t[i - m]
    BY <1>1, <2>1
  <2>. QED
    BY <1>2, <2>2, LenProperties
<1>4. PICK v : v = [i \in 1 .. m + n |-> Key(u[i], "restartCount", 0)]
  OBVIOUS
<1>5. \A i \in 1 .. m + n : v[i] \in Int
  BY <1>2, <1>3, <1>4, ElementOfSeq
<1>6. \A i \in 1 .. m : v[i] = Key(s[i], "restartCount", 0)
  BY <1>2, <1>3, <1>4
<1>7. PICK w : w = [i \in 1 .. n |-> v[m + i]]
  OBVIOUS
<1>8. \A i \in 1 .. n : w[i] = Key(t[i], "restartCount", 0)
  <2>1. ASSUME NEW i \in 1 .. n
        PROVE  m + i \in 1 .. m + n /\ ~(m + i <= m) /\ (m + i) - m = i
    BY <1>2
  <2>. QED
    BY <1>3, <1>4, <1>7, <2>1
<1>9. PICK f : /\ f[0] = 0 /\ f[m + n] = Restarts(u)
               /\ \A k \in Nat : k + 1 <= m + n => f[k + 1] = f[k] + v[k + 1]
  <2>1. m + n \in Nat
    BY <1>2
  <2>2. PICK f : /\ f[0] = 0 /\ f[m + n] = Restarts(u)
                 /\ \A k \in Nat : k + 1 <= m + n =>
                       f[k + 1] = f[k] + Key(u[k + 1], "restartCount", 0)
    BY <1>3, <2>1, RestartsCounted
  <2>3. \A k \in Nat : k + 1 <= m + n => v[k + 1] = Key(u[k + 1], "restartCount", 0)
    BY <1>2, <1>4
  <2>. QED
    BY <2>2, <2>3
<1>10. PICK g : /\ g[0] = 0 /\ g[m] = Restarts(s)
                /\ \A k \in Nat : k + 1 <= m => g[k + 1] = g[k] + v[k + 1]
  <2>1. PICK g : /\ g[0] = 0 /\ g[m] = Restarts(s)
                 /\ \A k \in Nat : k + 1 <= m =>
                       g[k + 1] = g[k] + Key(s[k + 1], "restartCount", 0)
    BY <1>2, RestartsCounted
  <2>2. \A k \in Nat : k + 1 <= m => v[k + 1] = Key(s[k + 1], "restartCount", 0)
    BY <1>2, <1>6
  <2>. QED
    BY <2>1, <2>2
<1>11. PICK h : /\ h[0] = 0 /\ h[n] = Restarts(t)
                /\ \A k \in Nat : k + 1 <= n => h[k + 1] = h[k] + w[k + 1]
  <2>1. PICK h : /\ h[0] = 0 /\ h[n] = Restarts(t)
                 /\ \A k \in Nat : k + 1 <= n =>
                       h[k + 1] = h[k] + Key(t[k + 1], "restartCount", 0)
    BY <1>2, RestartsCounted
  <2>2. \A k \in Nat : k + 1 <= n => w[k + 1] = Key(t[k + 1], "restartCount", 0)
    BY <1>2, <1>8
  <2>. QED
    BY <2>1, <2>2
<1>12. \A k \in Nat : k <= m => f[k] = g[k] /\ f[k] \in Int
  <2> DEFINE S == {k \in Nat : k <= m => f[k] = g[k] /\ f[k] \in Int}
  <2>1. 0 \in S
    BY <1>9, <1>10
  <2>2. ASSUME NEW k \in S
        PROVE  k + 1 \in S
    <3>1. SUFFICES ASSUME k + 1 <= m
                   PROVE  f[k + 1] = g[k + 1] /\ f[k + 1] \in Int
      OBVIOUS
    <3>2. k \in Nat /\ k + 1 <= m + n /\ k + 1 \in 1 .. m + n /\ k <= m
      BY <1>2, <3>1
    <3>3. f[k + 1] = f[k] + v[k + 1] /\ g[k + 1] = g[k] + v[k + 1]
      BY <1>9, <1>10, <3>1, <3>2
    <3>4. f[k] = g[k] /\ f[k] \in Int /\ v[k + 1] \in Int
      BY <1>5, <3>2
    <3>. QED
      BY <3>3, <3>4
  <2>. HIDE DEF S
  <2>3. S \subseteq Nat
    BY DEF S
  <2>4. \A k \in Nat : k \in S
    BY <2>1, <2>2, <2>3, Counting
  <2>. QED
    BY <2>4 DEF S
<1>13. \A k \in Nat : k <= n => f[m + k] = f[m] + h[k] /\ h[k] \in Int
  <2> DEFINE S == {k \in Nat : k <= n => f[m + k] = f[m] + h[k] /\ h[k] \in Int}
  <2>1. 0 \in S
    <3>1. f[m] \in Int /\ m + 0 = m
      BY <1>2, <1>12
    <3>. QED
      BY <1>11, <3>1
  <2>2. ASSUME NEW k \in S
        PROVE  k + 1 \in S
    <3>1. SUFFICES ASSUME k + 1 <= n
                   PROVE  f[m + (k + 1)] = f[m] + h[k + 1] /\ h[k + 1] \in Int
      OBVIOUS
    <3>2. /\ k \in Nat /\ m + k \in Nat /\ (m + k) + 1 <= m + n /\ m + (k + 1) = (m + k) + 1
          /\ k + 1 \in 1 .. n /\ (m + k) + 1 \in 1 .. m + n /\ k <= n
      BY <1>2, <3>1
    <3>3. f[(m + k) + 1] = f[m + k] + v[(m + k) + 1]
      BY <1>9, <3>2
    <3>4. h[k + 1] = h[k] + w[k + 1] /\ w[k + 1] = v[(m + k) + 1]
      BY <1>7, <1>11, <3>1, <3>2
    <3>5. f[m + k] = f[m] + h[k] /\ h[k] \in Int /\ v[(m + k) + 1] \in Int
      BY <1>5, <3>2
    <3>6. f[m] \in Int
      BY <1>2, <1>12
    <3>7. h[k + 1] = h[k] + v[(m + k) + 1]
      BY <3>3, <3>4
    <3>8. f[m + (k + 1)] = f[m + k] + v[(m + k) + 1]
      BY <3>2, <3>3
    <3>. QED
      BY <3>5, <3>6, <3>7, <3>8
  <2>. HIDE DEF S
  <2>3. S \subseteq Nat
    BY DEF S
  <2>4. \A k \in Nat : k \in S
    BY <2>1, <2>2, <2>3, Counting
  <2>. QED
    BY <2>4 DEF S
<1>14. f[m + n] = f[m] + h[n] /\ f[m] = g[m]
  BY <1>2, <1>12, <1>13
<1>. QED
  BY <1>1, <1>9, <1>10, <1>11, <1>14

-------------------------------------------------------------------------------
(* What is read of a list of the cluster.                                  *)

(* The items of a list before the first that is malformed.                 *)
IntactOf(items) == {i \in DOMAIN items : \A j \in 1 .. i : "malformed" \notin DOMAIN items[j]}

LEMMA ReadableOf ==
    ASSUME NEW items, items \in Seq(ToSet(items)), NEW list, list.json = TRUE, list.items = items
    PROVE  /\ DOMAIN Readable(list) = IntactOf(items)
           /\ \A i \in IntactOf(items) : Readable(list)[i] = items[i]
           /\ (\A i \in DOMAIN items : "malformed" \notin DOMAIN items[i]) => Readable(list) = items
<1>1. PICK m \in Nat : m = Len(items)
  OBVIOUS
<1>2. DOMAIN items = 1 .. m
  BY <1>1, LenProperties
<1>3. PICK places : places = {i \in 1 .. m : "malformed" \in DOMAIN items[i]}
  OBVIOUS
<1>4. Readable(list) = IF (IF places # {} THEN Min(places) ELSE 0) = 0 THEN items
                       ELSE SubSeq(items, 1, (IF places # {} THEN Min(places) ELSE 0) - 1)
  BY <1>1, <1>3 DEF Readable, SelectInSeq
<1>5. CASE places = {}
  <2>1. Readable(list) = items
    BY <1>4, <1>5
  <2>2. \A i \in 1 .. m : "malformed" \notin DOMAIN items[i]
    BY <1>3, <1>5
  <2>3. IntactOf(items) = DOMAIN items
    <3>1. \A i \in 1 .. m : \A j \in 1 .. i : j \in 1 .. m
      BY <1>1
    <3>. QED
      BY <1>2, <2>2, <3>1 DEF IntactOf
  <2>. QED
    BY <2>1, <2>3
<1>6. CASE places # {}
  <2>1. Min(places) \in places /\ \A p \in places : Min(places) <= p
    <3>1. \A p \in places : p \in 1 .. m
      BY <1>3
    <3>. QED
      BY <1>6, <3>1, LeastPlace
  <2>2. PICK b : b = Min(places)
    OBVIOUS
  <2>3. b \in 1 .. m /\ b \in places /\ \A p \in places : b <= p
    BY <1>3, <2>1, <2>2
  <2>4. Readable(list) = SubSeq(items, 1, b - 1)
    <3>1. b # 0
      BY <2>3
    <3>. QED
      BY <1>4, <1>6, <2>2, <3>1
  <2>5. PICK read : read = SubSeq(items, 1, b - 1)
    OBVIOUS
  <2>6. /\ read \in Seq(ToSet(items)) /\ Len(read) = b - 1
        /\ \A i \in 1 .. b - 1 : read[i] = items[i]
    <3>1. \A i \in 1 .. b - 1 : items[i] \in ToSet(items)
      <4>1. \A i \in 1 .. b - 1 : i \in 1 .. m
        BY <2>3
      <4>. QED
        BY <1>2, <4>1 DEF ToSet
    <3>2. /\ SubSeq(items, 1, b - 1) \in Seq(ToSet(items))
          /\ Len(SubSeq(items, 1, b - 1)) = IF 1 <= b - 1 THEN (b - 1) - 1 + 1 ELSE 0
          /\ \A i \in 1 .. (b - 1) - 1 + 1 : SubSeq(items, 1, b - 1)[i] = items[1 + i - 1]
      <4>1. 1 \in Int /\ b - 1 \in Int
        BY <2>3
      <4>. QED
        BY <3>1, <4>1, SubSeqProperties
    <3>. QED
      BY <2>3, <2>5, <3>2
  <2>7. DOMAIN read = 1 .. b - 1
    BY <2>6, LenProperties
  <2>8. IntactOf(items) = 1 .. b - 1
    <3>1. ASSUME NEW i \in 1 .. m
          PROVE  (\A j \in 1 .. i : "malformed" \notin DOMAIN items[j]) <=> i <= b - 1
      <4>1. "malformed" \in DOMAIN items[b]
        BY <1>3, <2>3
      <4>2. \A j \in 1 .. b - 1 : "malformed" \notin DOMAIN items[j]
        <5>1. \A j \in 1 .. b - 1 : j \in 1 .. m /\ ~(b <= j)
          BY <2>3
        <5>. QED
          BY <1>3, <2>3, <5>1
      <4>3. ~(i <= b - 1) => b \in 1 .. i
        BY <2>3
      <4>4. i <= b - 1 => \A j \in 1 .. i : j \in 1 .. b - 1
        BY <2>3
      <4>. QED
        BY <4>1, <4>2, <4>3, <4>4
    <3>2. \A i \in 1 .. b - 1 : i \in 1 .. m /\ i <= b - 1
      BY <2>3
    <3>3. \A i \in 1 .. m : i <= b - 1 => i \in 1 .. b - 1
      BY <2>3
    <3>. QED
      BY <1>2, <3>1, <3>2, <3>3 DEF IntactOf
  <2>9. ~\A i \in DOMAIN items : "malformed" \notin DOMAIN items[i]
    BY <1>2, <1>3, <2>3
  <2>. QED
    BY <2>4, <2>5, <2>6, <2>7, <2>8, <2>9
<1>. QED
  BY <1>5, <1>6

(* What is read of a list is what it is before an item that is malformed;  *)
(* of what is not JSON, nothing.                                           *)
LEMMA ListRead ==
    ASSUME NEW items, items \in Seq(ToSet(items)), NEW list,
           (list.json = TRUE /\ list.items = items) \/ (list.json = FALSE /\ items = <<>>)
    PROVE  /\ DOMAIN Readable(list) = IntactOf(items)
           /\ \A i \in IntactOf(items) : Readable(list)[i] = items[i]
           /\ (\A i \in DOMAIN items : "malformed" \notin DOMAIN items[i]) => Readable(list) = items
<1>1. CASE list.json = TRUE /\ list.items = items
  BY <1>1, ReadableOf
<1>2. CASE list.json = FALSE /\ items = <<>>
  <2>1. DOMAIN items = {}
    BY <1>2
  <2>2. Readable(list) = items
    BY <1>2, Zenon DEF Readable
  <2>3. IntactOf(items) = {}
    BY <2>1 DEF IntactOf
  <2>. QED
    BY <2>1, <2>2, <2>3
<1>. QED
  BY <1>1, <1>2

(* How many there are in two lists.                                        *)
LEMMA ConcatLen ==
    ASSUME NEW A, NEW s \in Seq(A), NEW B, NEW t \in Seq(B)
    PROVE  Len(s \o t) = Len(s) + Len(t)
<1>1. PICK C : C = A \union B
  OBVIOUS
<1>2. s \in Seq(C) /\ t \in Seq(C)
  BY <1>1
<1>. QED
  BY <1>2, ConcatProperties

(* The addresses of a service: all of the spec, and one of each ingress.   *)
LEMMA AddressesRead ==
    ASSUME NEW item,
           NEW ips, ips = Key(item, "externalIPs", <<>>), ips \in Seq(ToSet(ips)),
           NEW ingress, ingress = Key(item, "ingress", <<>>), ingress \in Seq(ToSet(ingress)),
           \A i \in DOMAIN ingress : DOMAIN ingress[i] \intersect {"ip", "hostname"} # {}
    PROVE  Len(ServiceInfo(item).external_ip) = Len(ips) + Len(ingress)
<1>1. PICK m \in Nat : m = Len(ingress)
  OBVIOUS
<1>2. DOMAIN ingress = 1 .. m
  BY <1>1, LenProperties
<1>3. PICK v : v = [i \in 1 .. m |-> IF "ip" \in DOMAIN ingress[i] THEN ingress[i].ip
                                      ELSE ingress[i]["hostname"]]
  OBVIOUS
<1>4. PICK s : s = [i \in 1 .. m |-> IF "ip" \in DOMAIN ingress[i] THEN <<ingress[i].ip>>
                                      ELSE Some(ingress[i], "hostname")]
  OBVIOUS
<1>5. \A i \in 1 .. m : s[i] = <<v[i]>>
  BY <1>2, <1>3, <1>4 DEF Some
<1>6. s \in Seq(ToSet(s)) /\ Len(s) = m
  <2>1. DOMAIN s = 1 .. m /\ s = [i \in 1 .. m |-> s[i]]
    BY <1>4
  <2>. QED
    BY <2>1, Numbered
<1>7. FlattenSeq(s) = At(v, 1 .. m)
  <2>1. PICK places : places = 1 .. m
    OBVIOUS
  <2>2. \A i \in 1 .. Len(s) : s[i] = <<>> \/ s[i] = <<v[i]>>
    BY <1>5, <1>6
  <2>3. \A i \in 1 .. Len(s) : s[i] # <<>>
    <3>1. \A e : <<e>> # <<>>
      OBVIOUS
    <3>. QED
      BY <1>5, <1>6, <3>1
  <2>4. \A i : i \in places <=> i \in 1 .. Len(s) /\ s[i] # <<>>
    BY <1>6, <2>1, <2>3
  <2>5. FlattenSeq(s) = At(v, places)
    BY <1>6, <2>2, <2>4, FlattenOnes
  <2>. QED
    BY <2>1, <2>5
<1>8. PICK more : more = At(v, 1 .. m)
  OBVIOUS
<1>9. more \in Seq(ToSet(more)) /\ Len(more) = m
  <2>1. PICK places : places = 1 .. m
    OBVIOUS
  <2>2. /\ At(v, places) \in Seq(ToSet(At(v, places)))
        /\ Len(At(v, places)) = Cardinality(places)
    BY <2>1, AtLines
  <2>3. Cardinality(1 .. m) = m
    BY FS_Interval
  <2>. QED
    BY <1>8, <2>1, <2>2, <2>3
<1>10. ServiceInfo(item).external_ip = ips \o FlattenSeq(s)
  BY <1>2, <1>4 DEF ServiceInfo, Each
<1>11. Len(ips \o more) = Len(ips) + Len(more)
  BY <1>9, ConcatLen
<1>. QED
  BY <1>1, <1>7, <1>8, <1>9, <1>10, <1>11

(* An event has a time iff it has a key of one.                            *)
Timed(item) == {"lastTimestamp", "eventTime", "firstTimestamp"} \intersect DOMAIN item # {}

LEMMA SomeThere ==
    ASSUME NEW item, NEW key
    PROVE  /\ Some(item, key) \in Seq({item[key]})
           /\ Len(Some(item, key)) = IF key \in DOMAIN item THEN 1 ELSE 0
<1>1. <<item[key]>> \in Seq({item[key]}) /\ Len(<<item[key]>>) = 1
  OBVIOUS
<1>2. <<>> \in Seq({item[key]}) /\ Len(<<>>) = 0
  OBVIOUS
<1>3. Some(item, key) = IF key \in DOMAIN item THEN <<item[key]>> ELSE <<>>
  BY DEF Some, None
<1>. QED
  BY <1>1, <1>2, <1>3

LEMMA EventTimed ==
    ASSUME NEW item
    PROVE  EventTime(item) # <<>> <=> Timed(item)
<1>1. PICK a : a = Some(item, "lastTimestamp")
  OBVIOUS
<1>2. PICK b : b = Some(item, "eventTime")
  OBVIOUS
<1>3. PICK c : c = Some(item, "firstTimestamp")
  OBVIOUS
<1>4. PICK T : T = {item["lastTimestamp"], item["eventTime"], item["firstTimestamp"]}
  OBVIOUS
<1>5. /\ a \in Seq({item["lastTimestamp"]})
      /\ Len(a) = IF "lastTimestamp" \in DOMAIN item THEN 1 ELSE 0
  BY <1>1, SomeThere
<1>6. /\ b \in Seq({item["eventTime"]})
      /\ Len(b) = IF "eventTime" \in DOMAIN item THEN 1 ELSE 0
  BY <1>2, SomeThere
<1>7. /\ c \in Seq({item["firstTimestamp"]})
      /\ Len(c) = IF "firstTimestamp" \in DOMAIN item THEN 1 ELSE 0
  BY <1>3, SomeThere
<1>8. a \in Seq(T) /\ b \in Seq(T) /\ c \in Seq(T)
  BY <1>4, <1>5, <1>6, <1>7
<1>9. a \o b \in Seq(T) /\ Len(a \o b) = Len(a) + Len(b)
  BY <1>8, ConcatProperties
<1>10. PICK ab \in Seq(T) : ab = a \o b
  BY <1>9
<1>11. ab \o c \in Seq(T) /\ Len(ab \o c) = Len(ab) + Len(c)
  BY <1>8, ConcatProperties
<1>12. EventTime(item) = ab \o c
  BY <1>1, <1>2, <1>3, <1>10 DEF EventTime
<1>13. EventTime(item) = <<>> <=> Len(ab) + Len(c) = 0
  BY <1>11, <1>12, EmptySeq
<1>14. Len(ab) = Len(a) + Len(b)
  BY <1>9, <1>10
<1>15. Timed(item) <=> \/ "lastTimestamp" \in DOMAIN item
                       \/ "eventTime" \in DOMAIN item
                       \/ "firstTimestamp" \in DOMAIN item
  BY DEF Timed
<1>. QED
  BY <1>5, <1>6, <1>7, <1>13, <1>14, <1>15

(* The events: those that have a time, with their reason.                  *)
LEMMA EventsRead ==
    ASSUME NEW items, items \in Seq(ToSet(items)), NEW list, Readable(list) = items,
           \A i \in DOMAIN items : "reason" \in DOMAIN items[i]
    PROVE  Each(Each(Where(Readable(list), LAMBDA item : EventTime(item) # <<>>), EventInfo),
                LAMBDA e : e.reason)
              = Each(Where(items, Timed), LAMBDA e : e.reason)
<1>1. PICK m \in Nat : m = Len(items)
  OBVIOUS
<1>2. DOMAIN items = 1 .. m
  BY <1>1, LenProperties
<1>3. PICK places : places = {i \in DOMAIN items : Timed(items[i])}
  OBVIOUS
<1>4. \A p \in places : p \in 1 .. m
  BY <1>2, <1>3
<1>5. Where(items, Timed) = At(items, places)
  BY <1>3 DEF Where
<1>6. Where(Readable(list), LAMBDA item : EventTime(item) # <<>>) = At(items, places)
  <2>1. {i \in DOMAIN items : EventTime(items[i]) # <<>>} = places
    BY <1>3, EventTimed
  <2>. QED
    BY <2>1 DEF Where
<1>7. PICK timed : timed = At(items, places)
  OBVIOUS
<1>8. \A k \in DOMAIN timed : EventInfo(timed[k]).reason = timed[k].reason
  <2>1. ASSUME NEW item, "reason" \in DOMAIN item
        PROVE  EventInfo(item).reason = item.reason
    <3>1. EventInfo(item).reason = Named(item, "reason")
      BY DEF EventInfo
    <3>2. Named(item, "reason") = item.reason
      BY <2>1 DEF Named, Key
    <3>. QED
      BY <3>1, <3>2
  <2>2. \A k \in DOMAIN timed : \E p \in places : timed[k] = items[p]
    <3>1. /\ DOMAIN At(items, places) = 1 .. Cardinality(places)
          /\ \A k \in 1 .. Cardinality(places) :
                Nth(places, k) \in places /\ At(items, places)[k] = items[Nth(places, k)]
      BY <1>4, AtLines
    <3>. QED
      BY <1>7, <3>1
  <2>3. \A k \in DOMAIN timed : "reason" \in DOMAIN timed[k]
    BY <1>3, <2>2
  <2>. QED
    BY <2>1, <2>3
<1>9. Each(Each(timed, EventInfo), LAMBDA e : e.reason) = Each(timed, LAMBDA e : e.reason)
  BY <1>8 DEF Each
<1>. QED
  BY <1>5, <1>6, <1>7, <1>9

-------------------------------------------------------------------------------
(* The cluster.                                                            *)

(* What a cluster may list: what can be read of all but some of the pods,  *)
(* which then have restart counts that are numbers; services, whose ingress*)
(* has an address or a name; and events, which have a reason.              *)
StatusesOf(pod) ==
    <<pod.containerStatuses, Key(pod, "initContainerStatuses", <<>>)>>

AnyPod(pod) ==
    /\ {"name", "containerStatuses"} \subseteq DOMAIN pod
    /\ \A i \in {1, 2} :
          /\ StatusesOf(pod)[i] \in Seq(ToSet(StatusesOf(pod)[i]))
          /\ \A status \in ToSet(StatusesOf(pod)[i]) : Key(status, "restartCount", 0) \in Int

AnyService(service) ==
    /\ \A key \in {"externalIPs", "ingress"} :
          Key(service, key, <<>>) \in Seq(ToSet(Key(service, key, <<>>)))
    /\ \A i \in DOMAIN Key(service, "ingress", <<>>) :
          DOMAIN Key(service, "ingress", <<>>)[i] \intersect {"ip", "hostname"} # {}

AnyCluster(f) ==
    /\ \A i \in (1 .. 7) \ {6} : f[i] \in Seq(ToSet(f[i]))
    /\ \A i \in {1, 2, 4, 5, 7} : \A k \in DOMAIN f[i] : "malformed" \notin DOMAIN f[i][k]
    /\ \A i \in {1, 2, 4} : \A k \in DOMAIN f[i] : "name" \in DOMAIN f[i][k]
    /\ \A k \in DOMAIN f[7] : "reason" \in DOMAIN f[7][k]
    /\ \A k \in DOMAIN f[3] : "malformed" \notin DOMAIN f[3][k] => AnyPod(f[3][k])
    /\ \A k \in DOMAIN f[5] : AnyService(f[5][k])

IsList(list, items) ==
    (list.json = TRUE /\ list.items = items) \/ (list.json = FALSE /\ items = <<>>)

(* What each command was answered: the items of its kind, or nothing.      *)
LEMMA ClusterBack ==
    ASSUME ReadingInv, reader = "kubernetes_collector", Current > Script.commands
    PROVE  /\ \A i \in (1 .. 7) \ {6} : /\ seen[i] \in Facts["cluster"]
                                       /\ IsList(outputs[i], If(i, seen[i][i]))
           /\ If(1, seen[1][1]) = seen[1][1]
<1>1. /\ Script.commands = 7 /\ Script.on = "cluster" /\ Script.cut = <<>>
      /\ Script.tolerated = 2 .. 7
  BY DEF Script, Readings, Local, Reading
<1>2. \A i \in 1 .. 7 :
         /\ seen[i] \in Facts["cluster"]
         /\ Complete(i) => outputs[i] = Printed(seen[i], SubSeq(outputs, 1, i - 1))[i]
         /\ ~Complete(i) => i \in 2 .. 7 /\ outputs[i] = Unread(i)
  <2>1. 7 \in Nat
    OBVIOUS
  <2>. QED
    BY <1>1, <2>1, LocalBack
<1>3. ASSUME NEW i \in (1 .. 7) \ {6}
      PROVE  IsList(outputs[i], If(i, seen[i][i]))
  <2>1. i \in 1 .. 7 /\ i # 6
    OBVIOUS
  <2>2. CASE Complete(i)
    <3>1. Printed(seen[i], SubSeq(outputs, 1, i - 1))
             = [j \in 1 .. 7 |-> IF j = 6 THEN seen[i][j] ELSE [json |-> TRUE, items |-> seen[i][j]]]
      BY DEF Printed
    <3>2. outputs[i] = [json |-> TRUE, items |-> seen[i][i]]
      BY <1>2, <2>1, <2>2, <3>1
    <3>. QED
      BY <2>2, <3>2 DEF IsList, If
  <2>3. CASE ~Complete(i)
    <3>1. outputs[i] = [json |-> FALSE, items |-> <<>>]
      BY <1>2, <2>1, <2>3 DEF Unread
    <3>. QED
      BY <2>3, <3>1 DEF IsList, If
  <2>. QED
    BY <2>2, <2>3
<1>4. Complete(1)
  BY <1>2
<1>. QED
  BY <1>2, <1>3, <1>4 DEF If

LEMMA NamespacesRead ==
    ASSUME NEW items, \A i \in DOMAIN items : "name" \in DOMAIN items[i]
    PROVE  /\ Each(Each(items, NamespaceInfo), LAMBDA item : item.name)
                 = Each(items, LAMBDA item : item.name)
           /\ Each(Each(items, NodeInfo), LAMBDA item : item.name)
                 = Each(items, LAMBDA item : item.name)
           /\ Each(Each(items, DeploymentInfo), LAMBDA d : d.deployment_name)
                 = Each(items, LAMBDA item : item.name)
<1>1. ASSUME NEW item, "name" \in DOMAIN item
      PROVE  /\ NamespaceInfo(item).name = item.name
             /\ NodeInfo(item).name = item.name
             /\ DeploymentInfo(item).deployment_name = item.name
  <2>1. Named(item, "name") = item.name
    BY <1>1 DEF Named, Key
  <2>2. NamespaceInfo(item).name = Named(item, "name")
    BY DEF NamespaceInfo
  <2>3. NodeInfo(item).name = Named(item, "name")
    BY DEF NodeInfo
  <2>4. DeploymentInfo(item).deployment_name = Named(item, "name")
    BY DEF DeploymentInfo
  <2>. QED
    BY <2>1, <2>2, <2>3, <2>4
<1>2. Each(Each(items, NamespaceInfo), LAMBDA item : item.name)
         = Each(items, LAMBDA item : item.name)
  BY <1>1 DEF Each
<1>3. Each(Each(items, NodeInfo), LAMBDA item : item.name)
         = Each(items, LAMBDA item : item.name)
  BY <1>1 DEF Each
<1>4. Each(Each(items, DeploymentInfo), LAMBDA d : d.deployment_name)
         = Each(items, LAMBDA item : item.name)
  BY <1>1 DEF Each
<1>. QED
  BY <1>2, <1>3, <1>4

(* A pod is read with the restarts of all its containers.                  *)
LEMMA PodRead ==
    ASSUME NEW pod, AnyPod(pod)
    PROVE  /\ PodInfo(pod).pod_name = pod.name
           /\ PodInfo(pod).restart_count
                 = Restarts(pod.containerStatuses) + Restarts(Key(pod, "initContainerStatuses", <<>>))
<1>1. PICK s, t : s = pod.containerStatuses /\ t = Key(pod, "initContainerStatuses", <<>>)
  OBVIOUS
<1>2. StatusesOf(pod)[1] = s /\ StatusesOf(pod)[2] = t
  BY <1>1 DEF StatusesOf
<1>3. /\ s \in Seq(ToSet(s)) /\ t \in Seq(ToSet(t))
      /\ \A e \in ToSet(s) : Key(e, "restartCount", 0) \in Int
      /\ \A e \in ToSet(t) : Key(e, "restartCount", 0) \in Int
  BY <1>2 DEF AnyPod
<1>4. PICK A : A = ToSet(s) \union ToSet(t)
  OBVIOUS
<1>5. s \in Seq(A) /\ t \in Seq(A) /\ \A e \in A : Key(e, "restartCount", 0) \in Int
  BY <1>3, <1>4
<1>6. Restarts(s \o t) = Restarts(s) + Restarts(t)
  BY <1>5, RestartsSum
<1>7. Key(pod, "containerStatuses", <<>>) = s
  BY <1>1 DEF AnyPod, Key
<1>8. PodInfo(pod).restart_count = Restarts(s \o t)
  BY <1>1, <1>7 DEF PodInfo, Restarts
<1>9. PodInfo(pod).pod_name = Named(pod, "name")
  BY DEF PodInfo
<1>10. Named(pod, "name") = pod.name
  BY DEF AnyPod, Named, Key
<1>. QED
  BY <1>1, <1>6, <1>8, <1>9, <1>10

(* A service is read with its addresses, however it has them.              *)
LEMMA ServiceRead ==
    ASSUME NEW item, AnyService(item)
    PROVE  Len(ServiceInfo(item).external_ip)
              = Len(Key(item, "externalIPs", <<>>)) + Len(Key(item, "ingress", <<>>))
<1>1. PICK ips : ips = Key(item, "externalIPs", <<>>)
  OBVIOUS
<1>2. PICK ingress : ingress = Key(item, "ingress", <<>>)
  OBVIOUS
<1>3. ips \in Seq(ToSet(ips)) /\ ingress \in Seq(ToSet(ingress))
  BY <1>1, <1>2 DEF AnyService
<1>4. \A i \in DOMAIN ingress : DOMAIN ingress[i] \intersect {"ip", "hostname"} # {}
  BY <1>2 DEF AnyService
<1>. QED
  BY <1>1, <1>2, <1>3, <1>4, AddressesRead

(* ClusterRead, of the parsed cluster, the pods, the services and events.  *)
ClusterIs(cluster, pods, services, events) ==
    /\ DOMAIN cluster.pods = IntactOf(pods)
    /\ \A i \in DOMAIN cluster.pods :
          /\ cluster.pods[i].pod_name = pods[i].name
          /\ cluster.pods[i].restart_count = Restarts(pods[i].containerStatuses)
                 + Restarts(Key(pods[i], "initContainerStatuses", <<>>))
    /\ Each(cluster.namespaces, LAMBDA item : item.name)
          = Each(seen[1][1], LAMBDA item : item.name)
    /\ Each(cluster.nodes, LAMBDA item : item.name)
          = If(2, Each(seen[2][2], LAMBDA item : item.name))
    /\ Each(cluster.deployments, LAMBDA d : d.deployment_name)
          = If(4, Each(seen[4][4], LAMBDA item : item.name))
    /\ DOMAIN cluster.services = DOMAIN services
    /\ \A i \in DOMAIN cluster.services :
          Len(cluster.services[i].external_ip)
             = Len(Key(services[i], "externalIPs", <<>>)) + Len(Key(services[i], "ingress", <<>>))
    /\ Each(cluster.events, LAMBDA e : e.reason)
          = Each(Where(events, Timed), LAMBDA e : e.reason)

LEMMA ClusterReadIf ==
    ASSUME ClusterIs(KubernetesParser(outputs[1], outputs[2], outputs[3], outputs[4],
                                      outputs[5], outputs[7], outputs[6]),
                     If(3, seen[3][3]), If(5, seen[5][5]), If(7, seen[7][7]))
    PROVE  ClusterRead
  BY Zenon DEF ClusterIs, IntactOf, Timed, ClusterRead

(* The cluster is read, whatever it lists and whatever fails.              *)
LEMMA ClusterRight ==
    ASSUME ReadingInv, \A f \in Facts["cluster"] : AnyCluster(f)
    PROVE  ClusterRead
<1>1. SUFFICES ASSUME reader = "kubernetes_collector", Current > Script.commands
               PROVE  ClusterRead
  BY DEF ClusterRead, Done
<1>2. /\ \A i \in (1 .. 7) \ {6} : /\ seen[i] \in Facts["cluster"]
                                  /\ IsList(outputs[i], If(i, seen[i][i]))
      /\ If(1, seen[1][1]) = seen[1][1]
  BY <1>1, ClusterBack
<1>3. \A i \in (1 .. 7) \ {6} : AnyCluster(seen[i])
  BY <1>2
<1>4. \A i \in (1 .. 7) \ {6} :
         If(i, seen[i][i]) \in Seq(ToSet(If(i, seen[i][i])))
  <2>1. <<>> \in Seq(ToSet(<<>>))
    OBVIOUS
  <2>2. \A i \in (1 .. 7) \ {6} : seen[i][i] \in Seq(ToSet(seen[i][i]))
    BY <1>3 DEF AnyCluster
  <2>. QED
    BY <2>1, <2>2 DEF If
<1>5. \A i \in {1, 2, 4, 5, 7} : \A k \in DOMAIN If(i, seen[i][i]) :
         "malformed" \notin DOMAIN If(i, seen[i][i])[k]
  <2>1. \A i \in {1, 2, 4, 5, 7} : \A k \in DOMAIN seen[i][i] : "malformed" \notin DOMAIN seen[i][i][k]
    BY <1>3 DEF AnyCluster
  <2>2. DOMAIN <<>> = {}
    OBVIOUS
  <2>. QED
    BY <2>1, <2>2 DEF If
<1>6. \A i \in {1, 2, 4} : \A k \in DOMAIN If(i, seen[i][i]) :
         "name" \in DOMAIN If(i, seen[i][i])[k]
  <2>1. \A i \in {1, 2, 4} : \A k \in DOMAIN seen[i][i] : "name" \in DOMAIN seen[i][i][k]
    BY <1>3 DEF AnyCluster
  <2>2. DOMAIN <<>> = {}
    OBVIOUS
  <2>. QED
    BY <2>1, <2>2 DEF If
<1>7. \A i \in {1, 2, 4, 5, 7} : Readable(outputs[i]) = If(i, seen[i][i])
  <2>1. ASSUME NEW i \in {1, 2, 4, 5, 7}
        PROVE  Readable(outputs[i]) = If(i, seen[i][i])
    <3>1. PICK items, list : items = If(i, seen[i][i]) /\ list = outputs[i]
      OBVIOUS
    <3>2. i \in (1 .. 7) \ {6}
      OBVIOUS
    <3>3. items \in Seq(ToSet(items))
      BY <1>4, <3>1, <3>2
    <3>4. (list.json = TRUE /\ list.items = items) \/ (list.json = FALSE /\ items = <<>>)
      BY <1>2, <3>1, <3>2 DEF IsList
    <3>5. \A k \in DOMAIN items : "malformed" \notin DOMAIN items[k]
      BY <1>5, <3>1
    <3>6. Readable(list) = items
      BY <3>3, <3>4, <3>5, ListRead
    <3>. QED
      BY <3>1, <3>6
  <2>. QED
    BY <2>1
<1>8. PICK cluster : cluster = KubernetesParser(outputs[1], outputs[2], outputs[3], outputs[4],
                                               outputs[5], outputs[7], outputs[6])
  OBVIOUS
<1>9. /\ cluster.namespaces = Each(Readable(outputs[1]), NamespaceInfo)
      /\ cluster.nodes = Each(Readable(outputs[2]), NodeInfo)
      /\ cluster.pods = Each(Readable(outputs[3]), PodInfo)
      /\ cluster.deployments = Each(Readable(outputs[4]), DeploymentInfo)
      /\ cluster.services = Each(Readable(outputs[5]), ServiceInfo)
      /\ cluster.events = Each(Where(Readable(outputs[7]), LAMBDA item : EventTime(item) # <<>>),
                               EventInfo)
  BY <1>8 DEF KubernetesParser
<1>10. /\ Each(cluster.namespaces, LAMBDA item : item.name)
             = Each(seen[1][1], LAMBDA item : item.name)
       /\ Each(cluster.nodes, LAMBDA item : item.name)
             = If(2, Each(seen[2][2], LAMBDA item : item.name))
       /\ Each(cluster.deployments, LAMBDA d : d.deployment_name)
             = If(4, Each(seen[4][4], LAMBDA item : item.name))
  <2>1. \A i \in {1, 2, 4} : \A k \in DOMAIN If(i, seen[i][i]) :
           "name" \in DOMAIN If(i, seen[i][i])[k]
    BY <1>6
  <2>2. PICK one, two, four :
           one = seen[1][1] /\ two = If(2, seen[2][2]) /\ four = If(4, seen[4][4])
    OBVIOUS
  <2>3. /\ cluster.namespaces = Each(one, NamespaceInfo)
        /\ cluster.nodes = Each(two, NodeInfo)
        /\ cluster.deployments = Each(four, DeploymentInfo)
    BY <1>2, <1>7, <1>9, <2>2
  <2>4. /\ \A k \in DOMAIN one : "name" \in DOMAIN one[k]
        /\ \A k \in DOMAIN two : "name" \in DOMAIN two[k]
        /\ \A k \in DOMAIN four : "name" \in DOMAIN four[k]
    BY <1>2, <2>1, <2>2
  <2>5. Each(cluster.namespaces, LAMBDA item : item.name) = Each(one, LAMBDA item : item.name)
    BY <2>3, <2>4, NamespacesRead
  <2>6. Each(cluster.nodes, LAMBDA item : item.name) = Each(two, LAMBDA item : item.name)
    BY <2>3, <2>4, NamespacesRead
  <2>7. Each(cluster.deployments, LAMBDA d : d.deployment_name)
           = Each(four, LAMBDA item : item.name)
    BY <2>3, <2>4, NamespacesRead
  <2>8. \A s : Each(If(2, s), LAMBDA item : item.name) = If(2, Each(s, LAMBDA item : item.name))
    BY DEF If, Each
  <2>9. \A s : Each(If(4, s), LAMBDA item : item.name) = If(4, Each(s, LAMBDA item : item.name))
    BY DEF If, Each
  <2>. QED
    BY <2>2, <2>5, <2>6, <2>7, <2>8, <2>9
<1>11. PICK pods : pods = If(3, seen[3][3])
  OBVIOUS
<1>12. /\ DOMAIN cluster.pods = IntactOf(pods)
       /\ \A i \in DOMAIN cluster.pods :
             /\ cluster.pods[i].pod_name = pods[i].name
             /\ cluster.pods[i].restart_count = Restarts(pods[i].containerStatuses)
                    + Restarts(Key(pods[i], "initContainerStatuses", <<>>))
  <2>1. PICK list : list = outputs[3]
    OBVIOUS
  <2>2. /\ pods \in Seq(ToSet(pods))
        /\ (list.json = TRUE /\ list.items = pods) \/ (list.json = FALSE /\ pods = <<>>)
    BY <1>2, <1>4, <1>11, <2>1 DEF IsList
  <2>3. PICK read : read = Readable(list)
    OBVIOUS
  <2>4. DOMAIN read = IntactOf(pods) /\ \A i \in IntactOf(pods) : read[i] = pods[i]
    BY <2>2, <2>3, ListRead
  <2>5. \A i \in IntactOf(pods) : AnyPod(pods[i])
    <3>1. \A i \in DOMAIN pods : "malformed" \notin DOMAIN pods[i] => AnyPod(pods[i])
      <4>1. DOMAIN <<>> = {}
        OBVIOUS
      <4>2. \A i \in DOMAIN seen[3][3] :
               "malformed" \notin DOMAIN seen[3][3][i] => AnyPod(seen[3][3][i])
        BY <1>3 DEF AnyCluster
      <4>. QED
        BY <1>11, <4>1, <4>2 DEF If
    <3>2. \A i \in DOMAIN pods : i \in 1 .. i
      <4>1. DOMAIN pods = 1 .. Len(pods)
        BY <2>2, LenProperties
      <4>. QED
        BY <4>1
    <3>. QED
      BY <3>1, <3>2 DEF IntactOf
  <2>6. cluster.pods = [i \in DOMAIN read |-> PodInfo(read[i])]
    BY <1>9, <2>1, <2>3 DEF Each
  <2>7. DOMAIN cluster.pods = IntactOf(pods)
    BY <2>4, <2>6
  <2>8. ASSUME NEW i \in IntactOf(pods)
        PROVE  /\ cluster.pods[i].pod_name = pods[i].name
               /\ cluster.pods[i].restart_count = Restarts(pods[i].containerStatuses)
                      + Restarts(Key(pods[i], "initContainerStatuses", <<>>))
    <3>1. PICK pod : pod = pods[i]
      OBVIOUS
    <3>2. AnyPod(pod)
      BY <2>5, <3>1
    <3>3. cluster.pods[i] = PodInfo(pod)
      BY <2>4, <2>6, <3>1
    <3>. QED
      BY <3>1, <3>2, <3>3, PodRead
  <2>. QED
    BY <2>7, <2>8
<1>13. PICK services : services = If(5, seen[5][5])
  OBVIOUS
<1>14. /\ DOMAIN cluster.services = DOMAIN services
       /\ \A i \in DOMAIN cluster.services :
             Len(cluster.services[i].external_ip)
                = Len(Key(services[i], "externalIPs", <<>>)) + Len(Key(services[i], "ingress", <<>>))
  <2>1. cluster.services = [i \in DOMAIN services |-> ServiceInfo(services[i])]
    BY <1>7, <1>9, <1>13 DEF Each
  <2>2. \A i \in DOMAIN services : AnyService(services[i])
    <3>1. DOMAIN <<>> = {}
      OBVIOUS
    <3>2. \A i \in DOMAIN seen[5][5] : AnyService(seen[5][5][i])
      BY <1>3 DEF AnyCluster
    <3>. QED
      BY <1>13, <3>1, <3>2 DEF If
  <2>. QED
    BY <2>1, <2>2, ServiceRead
<1>15. PICK events : events = If(7, seen[7][7])
  OBVIOUS
<1>16. Each(cluster.events, LAMBDA e : e.reason)
          = Each(Where(events, Timed), LAMBDA e : e.reason)
  <2>1. PICK list : list = outputs[7]
    OBVIOUS
  <2>2. events \in Seq(ToSet(events)) /\ Readable(list) = events
    BY <1>4, <1>7, <1>15, <2>1
  <2>3. \A i \in DOMAIN events : "reason" \in DOMAIN events[i]
    <3>1. \A k \in DOMAIN seen[7][7] : "reason" \in DOMAIN seen[7][7][k]
      BY <1>3 DEF AnyCluster
    <3>2. DOMAIN <<>> = {}
      OBVIOUS
    <3>. QED
      BY <1>15, <3>1, <3>2 DEF If
  <2>4. cluster.events = Each(Where(Readable(list), LAMBDA item : EventTime(item) # <<>>),
                              EventInfo)
    BY <1>9, <2>1
  <2>. QED
    BY <2>2, <2>3, <2>4, EventsRead
<1>17. ClusterIs(cluster, pods, services, events)
  BY <1>10, <1>12, <1>14, <1>16 DEF ClusterIs
<1>. QED
  BY <1>8, <1>11, <1>13, <1>15, <1>17, ClusterReadIf

-------------------------------------------------------------------------------
(* What is printed in pairs of lines.                                      *)

(* What is flattened of lists that hold two.                               *)
LEMMA Doubled ==
    ASSUME NEW n \in Nat
    PROVE  2 * (n + 1) - 1 = 2 * n + 1 /\ 2 * (n + 1) = 2 * n + 2
  OBVIOUS

InPairs(T, n, t, s) ==
    /\ t \in Seq(T) /\ Len(t) = 2 * n
    /\ \A i \in 1 .. n : t[2 * i - 1] = s[i][1] /\ t[2 * i] = s[i][2]

LEMMA FlattenPairs ==
    ASSUME NEW s, s \in Seq(ToSet(s)), NEW m, m = Len(s),
           NEW T, \A i \in 1 .. m : s[i] \in Seq(T) /\ Len(s[i]) = 2,
           NEW show, show = FlattenSeq(s)
    PROVE  InPairs(T, m, show, s)
<1>1. m \in Nat /\ s = [i \in 1 .. m |-> s[i]]
  BY LenProperties
<1> DEFINE part(n) == [i \in 1 .. n |-> s[i]]
<1> DEFINE S == {n \in Nat : n <= m => InPairs(T, n, FlattenSeq(part(n)), s)}
<1>2. 0 \in S
  <2>1. part(0) = <<>>
    OBVIOUS
  <2>2. PICK none : none = <<>>
    OBVIOUS
  <2>3. none \in Seq(T) /\ Len(none) = 2 * 0
    BY <2>2
  <2>4. InPairs(T, 0, none, s)
    BY <2>3 DEF InPairs
  <2>. QED
    BY <2>1, <2>2, <2>4, NoLine
<1>3. ASSUME NEW n \in S
      PROVE  n + 1 \in S
  <2>1. SUFFICES ASSUME n + 1 <= m
                 PROVE  InPairs(T, n + 1, FlattenSeq(part(n + 1)), s)
    OBVIOUS
  <2>2. n \in Nat /\ InPairs(T, n, FlattenSeq(part(n)), s) /\ n + 1 \in 1 .. m
    BY <1>1, <2>1
  <2>3. PICK old, new : old = FlattenSeq(part(n)) /\ new = FlattenSeq(part(n + 1))
    OBVIOUS
  <2>4. /\ old \in Seq(T) /\ Len(old) = 2 * n
         /\ \A i \in 1 .. n : old[2 * i - 1] = s[i][1] /\ old[2 * i] = s[i][2]
    BY <2>2, <2>3 DEF InPairs
  <2>5. PICK both : both = s[n + 1]
    OBVIOUS
  <2>6. both \in Seq(T) /\ Len(both) = 2 /\ s[n + 1] = both
    BY <2>2, <2>5
  <2>7. FlattenSeq(part(n + 1)) = FlattenSeq(part(n)) \o both
    <3>1. CASE n = 0
      <4>1. part(n + 1) = <<both>>
        BY <2>6, <3>1
      <4>2. part(n) = <<>>
        BY <3>1
      <4>3. <<>> \o both = both
        BY <2>6, ConcatEmptySeq
      <4>. QED
        BY <4>1, <4>2, <4>3, OneLine, NoLine
    <3>2. CASE n # 0
      <4>1. PICK x, y : x = part(n + 1) /\ y = part(n)
        OBVIOUS
      <4>2. Len(x) = n + 1 /\ Len(y) = n /\ x[n + 1] = both /\ \A i \in 1 .. n : y[i] = x[i]
        BY <2>2, <2>6, <4>1
      <4>3. FlattenSeq(x) = FlattenSeq(y) \o x[n + 1]
        BY <2>2, <3>2, <4>2, FlattenOneMore
      <4>. QED
        BY <4>1, <4>2, <4>3
    <3>. QED
      BY <3>1, <3>2
  <2>8. /\ new \in Seq(T) /\ Len(new) = 2 * n + 2
        /\ new[2 * n + 1] = both[1] /\ new[2 * n + 2] = both[2]
        /\ \A i \in 1 .. 2 * n : new[i] = old[i]
    <3>1. PICK l : l = 2 * n
      OBVIOUS
    <3>2. /\ l \in Nat /\ old \in Seq(T) /\ Len(old) = l
          /\ both \in Seq(T) /\ Len(both) = 2
          /\ new = old \o both
      <4>1. old \in Seq(T) /\ Len(old) = l
        BY <2>4, <3>1
      <4>2. l \in Nat
        BY <4>1, LenProperties
      <4>3. new = old \o both
        BY <2>7, <2>3
      <4>. QED
        BY <2>5, <2>6, <4>1, <4>2, <4>3
    <3>3. /\ old \o both \in Seq(T)
          /\ Len(old \o both) = Len(old) + Len(both)
          /\ \A i \in 1 .. Len(old) + Len(both) :
                (old \o both)[i] = IF i <= Len(old) THEN old[i] ELSE both[i - Len(old)]
      BY <3>2, ConcatProperties
    <3>4. /\ new \in Seq(T) /\ Len(new) = l + 2
          /\ \A i \in 1 .. l + 2 : new[i] = IF i <= l THEN old[i] ELSE both[i - l]
      BY <3>2, <3>3
    <3>5. /\ l + 1 \in 1 .. l + 2 /\ ~(l + 1 <= l) /\ (l + 1) - l = 1
          /\ l + 2 \in 1 .. l + 2 /\ ~(l + 2 <= l) /\ (l + 2) - l = 2
      BY <3>2
    <3>6. new[l + 1] = both[1] /\ new[l + 2] = both[2]
      BY <3>4, <3>5
    <3>7. \A i \in 1 .. l : new[i] = old[i]
      BY <3>2, <3>4
    <3>. QED
      BY <3>1, <3>4, <3>6, <3>7
  <2>9. ASSUME NEW i \in 1 .. n + 1
        PROVE  new[2 * i - 1] = s[i][1] /\ new[2 * i] = s[i][2]
    <3>1. CASE i \in 1 .. n
      <4>1. 2 * i - 1 \in 1 .. 2 * n /\ 2 * i \in 1 .. 2 * n
        BY <2>2, <3>1
      <4>2. old[2 * i - 1] = s[i][1] /\ old[2 * i] = s[i][2]
        BY <2>4, <3>1
      <4>. QED
        BY <2>8, <4>1, <4>2
    <3>2. CASE i = n + 1
      <4>1. 2 * (n + 1) - 1 = 2 * n + 1 /\ 2 * (n + 1) = 2 * n + 2
        BY <2>2, Doubled
      <4>. QED
        BY <2>5, <2>6, <2>8, <3>2, <4>1
    <3>. QED
      BY <2>2, <3>1, <3>2
  <2>10. Len(new) = 2 * (n + 1)
    BY <2>2, <2>8
  <2>11. InPairs(T, n + 1, new, s)
    BY <2>8, <2>9, <2>10 DEF InPairs
  <2>. QED
    BY <2>3, <2>11
<1>. HIDE DEF S
<1>4. m \in S
  <2>1. S \subseteq Nat
    BY DEF S
  <2>2. \A n \in Nat : n \in S
    BY <1>2, <1>3, <2>1, Counting
  <2>. QED
    BY <1>1, <2>2
<1>5. part(m) = s
  BY <1>1
<1>6. InPairs(T, m, show, s)
  BY <1>1, <1>4, <1>5 DEF S
<1>. QED
  BY <1>6

(* Of the two lines of each unit the first is at an odd place.             *)
LEMMA HalfOf ==
    ASSUME NEW m \in Nat, NEW i \in 1 .. 2 * m
    PROVE  \E j \in 1 .. m : i = 2 * j - 1 \/ i = 2 * j
<1> DEFINE S == {n \in Nat : \A x \in 1 .. 2 * n : \E j \in 1 .. n : x = 2 * j - 1 \/ x = 2 * j}
<1>1. 0 \in S
  OBVIOUS
<1>2. ASSUME NEW n \in S
      PROVE  n + 1 \in S
  <2>1. n \in Nat /\ \A x \in 1 .. 2 * n : \E j \in 1 .. n : x = 2 * j - 1 \/ x = 2 * j
    OBVIOUS
  <2>2. ASSUME NEW x \in 1 .. 2 * (n + 1)
        PROVE  \E j \in 1 .. n + 1 : x = 2 * j - 1 \/ x = 2 * j
    <3>1. 2 * (n + 1) - 1 = 2 * n + 1 /\ 2 * (n + 1) = 2 * n + 2
      BY <2>1, Doubled
    <3>2. x \in 1 .. 2 * n \/ x = 2 * n + 1 \/ x = 2 * n + 2
      BY <2>1, <3>1
    <3>3. n + 1 \in 1 .. n + 1 /\ \A j \in 1 .. n : j \in 1 .. n + 1
      BY <2>1
    <3>. QED
      BY <2>1, <3>1, <3>2, <3>3
  <2>. QED
    BY <2>1, <2>2
<1>. HIDE DEF S
<1>3. S \subseteq Nat
  BY DEF S
<1>4. \A n \in Nat : n \in S
  BY <1>1, <1>2, <1>3, Counting
<1>. QED
  BY <1>4 DEF S

(* The greatest of one number.                                             *)
LEMMA MaxOfOne ==
    ASSUME NEW n \in Int
    PROVE  Max({n}) = n
  BY DEF Max

(* What is taken from a place to the end of a list.                        *)
LEMMA RestOf ==
    ASSUME NEW l \in Nat, NEW s, s \in Seq(ToSet(s)), Len(s) = l,
           NEW a \in 1 .. l, NEW b \in a .. l, NEW rest, rest = SubSeq(s, a, b)
    PROVE  /\ rest \in Seq(ToSet(s)) /\ Len(rest) = b - a + 1
           /\ \A i \in 1 .. b - a + 1 : rest[i] = s[a + i - 1]
<1>1. \A i \in a .. b : s[i] \in ToSet(s)
  <2>1. DOMAIN s = 1 .. l
    BY LenProperties
  <2>2. \A i \in a .. b : i \in 1 .. l
    OBVIOUS
  <2>. QED
    BY <2>1, <2>2 DEF ToSet
<1>2. /\ SubSeq(s, a, b) \in Seq(ToSet(s))
      /\ Len(SubSeq(s, a, b)) = IF a <= b THEN b - a + 1 ELSE 0
      /\ \A i \in 1 .. b - a + 1 : SubSeq(s, a, b)[i] = s[a + i - 1]
  <2>1. a \in Int /\ b \in Int
    OBVIOUS
  <2>. QED
    BY <1>1, <2>1, SubSeqProperties
<1>3. a <= b
  OBVIOUS
<1>. QED
  BY <1>2, <1>3

(* What systemctl shows of units by their names, line by line, and what is *)
(* taken for the properties of one of them: its own.                       *)
Shows(show, m, name, f) ==
    /\ show \in Seq(ToSet(show)) /\ Len(show) = 2 * m
    /\ \A i \in 1 .. m : /\ show[2 * i - 1] = Pair("Id", Unit(name[i]))
                         /\ show[2 * i] = Pair("MainPID", Num(PidOf(f, name[i])))

LEMMA OwnProperties ==
    ASSUME NEW m \in Nat, NEW show, NEW name, NEW f, Shows(show, m, name, f),
           \A i, j \in 1 .. m : name[i] = name[j] => i = j,
           NEW k \in 1 .. m,
           NEW own, own = PropertiesOf(show, name[k])
    PROVE  Len(own) = 1 /\ own[1] = Pair("MainPID", Num(PidOf(f, name[k])))
<1>1. /\ show \in Seq(ToSet(show)) /\ Len(show) = 2 * m
      /\ \A i \in 1 .. m : /\ show[2 * i - 1] = Pair("Id", Unit(name[i]))
                           /\ show[2 * i] = Pair("MainPID", Num(PidOf(f, name[i])))
  BY DEF Shows
<1>2. PICK l : l = 2 * m
  OBVIOUS
<1>3. l \in Nat /\ Len(show) = l /\ DOMAIN show = 1 .. l
  BY <1>1, <1>2, LenProperties
<1>4. /\ \A i \in 1 .. m : show[2 * i - 1].key = "Id" /\ show[2 * i].key # "Id"
      /\ {i \in {j \in 1 .. l : show[j].key = "Id"} : show[i].value = Unit(name[k])}
            = {2 * k - 1}
  <2>1. \A i \in 1 .. m : show[2 * i - 1].key = "Id" /\ show[2 * i - 1].value = Unit(name[i])
    <3>1. \A x : Pair("Id", x).key = "Id" /\ Pair("Id", x).value = x
      BY DEF Pair
    <3>. QED
      BY <1>1, <3>1
  <2>2. \A i \in 1 .. m : show[2 * i].key # "Id"
    <3>1. \A x : Pair("MainPID", x).key # "Id"
      BY DEF Pair
    <3>. QED
      BY <1>1, <3>1
  <2>3. \A i \in 1 .. m : Unit(name[i]) = Unit(name[k]) => i = k
    <3>1. \A i \in 1 .. m : Unit(name[i]).word = name[i]
      BY DEF Unit, Field
    <3>. QED
      BY <3>1
  <2>4. ASSUME NEW i \in 1 .. l, show[i].key = "Id", show[i].value = Unit(name[k])
        PROVE  i = 2 * k - 1
    <3>1. PICK j \in 1 .. m : i = 2 * j - 1 \/ i = 2 * j
      BY <1>2, HalfOf
    <3>2. i = 2 * j - 1
      BY <2>2, <2>4, <3>1
    <3>3. Unit(name[j]) = Unit(name[k])
      BY <2>1, <2>4, <3>1, <3>2
    <3>. QED
      BY <2>3, <3>1, <3>2, <3>3
  <2>5. 2 * k - 1 \in 1 .. l
    BY <1>2
  <2>6. show[2 * k - 1].key = "Id" /\ show[2 * k - 1].value = Unit(name[k])
    BY <2>1
  <2>. QED
    BY <2>1, <2>2, <2>4, <2>5, <2>6
<1>5. PICK a : a = 2 * k
  OBVIOUS
<1>6. a \in 2 .. l /\ a \in Int /\ 2 * k - 1 = a - 1 /\ (k = m <=> a = l)
  BY <1>2, <1>3, <1>5
<1>7. PICK rest : rest = SubSeq(show, a, l)
  OBVIOUS
<1>8. /\ rest \in Seq(ToSet(show)) /\ Len(rest) = l - a + 1
      /\ \A i \in 1 .. l - a + 1 : rest[i] = show[a + i - 1]
  BY <1>1, <1>3, <1>6, <1>7, RestOf
<1>9. PICK places : places = {i \in 1 .. Len(rest) : rest[i].key = "Id"}
  OBVIOUS
<1>10. own = IF (IF places # {} THEN Min(places) ELSE 0) = 0 THEN rest
            ELSE SubSeq(rest, 1, (IF places # {} THEN Min(places) ELSE 0) - 1)
  <2>1. PICK mine : mine = {i \in {j \in 1 .. l : show[j].key = "Id"} : show[i].value = Unit(name[k])}
    OBVIOUS
  <2>2. mine = {a - 1} /\ Max(mine) + 1 = a /\ mine # {}
    <3>1. mine = {a - 1}
      BY <1>4, <1>6, <2>1
    <3>2. a - 1 \in Int /\ (a - 1) + 1 = a
      BY <1>6
    <3>. QED
      BY <3>1, <3>2, MaxOfOne
  <2>3. own = IF mine = {} THEN <<>>
              ELSE IF SelectInSeq(rest, LAMBDA pair : pair.key = "Id") = 0 THEN rest
              ELSE SubSeq(rest, 1, SelectInSeq(rest, LAMBDA pair : pair.key = "Id") - 1)
    BY <1>3, <1>7, <2>1, <2>2 DEF PropertiesOf
  <2>4. SelectInSeq(rest, LAMBDA pair : pair.key = "Id") = IF places # {} THEN Min(places) ELSE 0
    BY <1>9 DEF SelectInSeq
  <2>. QED
    BY <2>2, <2>3, <2>4
<1>11. rest[1] = show[a] /\ rest[1].key # "Id"
  <2>1. 1 \in 1 .. l - a + 1 /\ a + 1 - 1 = a
    BY <1>3, <1>6
  <2>. QED
    BY <1>4, <1>5, <1>8, <2>1
<1>12. ASSUME k = m
       PROVE  Len(own) = 1 /\ own[1] = show[2 * k]
  <2>1. Len(rest) = 1
    BY <1>6, <1>8, <1>12
  <2>2. places = {}
    BY <1>9, <1>11, <2>1
  <2>. QED
    BY <1>5, <1>10, <1>11, <2>1, <2>2
<1>13. ASSUME k # m
       PROVE  Len(own) = 1 /\ own[1] = show[2 * k]
  <2>1. Len(rest) \in Nat /\ 2 <= Len(rest)
    <3>1. l - a >= 1
      BY <1>2, <1>5, <1>6, <1>13
    <3>. QED
      BY <1>3, <1>6, <1>8, <3>1
  <2>2. rest[2].key = "Id"
    <3>1. rest[2] = show[a + 1]
      BY <1>3, <1>6, <1>8, <2>1
    <3>2. k + 1 \in 1 .. m /\ 2 * (k + 1) - 1 = a + 1
      BY <1>5, <1>13
    <3>3. PICK j \in 1 .. m : 2 * j - 1 = a + 1
      BY <3>2
    <3>4. show[2 * j - 1].key = "Id"
      BY <1>4
    <3>. QED
      BY <3>1, <3>3, <3>4
  <2>3. 2 \in places /\ 1 \notin places /\ \A p \in places : p \in 1 .. Len(rest)
    BY <1>9, <1>11, <2>1, <2>2
  <2>4. Min(places) \in places /\ Min(places) <= 2
    BY <2>1, <2>3, LeastPlace
  <2>5. Min(places) = 2
    BY <2>3, <2>4
  <2>6. own = SubSeq(rest, 1, 1)
    BY <1>10, <2>3, <2>5
  <2>7. Len(own) = 1 /\ own[1] = rest[1]
    <3>1. 1 \in Int /\ \A i \in 1 .. 1 : rest[i] \in {rest[1]}
      OBVIOUS
    <3>2. /\ Len(SubSeq(rest, 1, 1)) = IF 1 <= 1 THEN 1 - 1 + 1 ELSE 0
          /\ \A i \in 1 .. 1 - 1 + 1 : SubSeq(rest, 1, 1)[i] = rest[1 + i - 1]
      BY <3>1, SubSeqProperties
    <3>. QED
      BY <2>6, <3>2
  <2>. QED
    BY <1>5, <1>11, <2>7
<1>14. Len(own) = 1 /\ own[1] = show[2 * k]
  BY <1>12, <1>13
<1>. QED
  BY <1>1, <1>14

-------------------------------------------------------------------------------
(* The services.                                                           *)

(* A unit is known by its line, if it has no mark before it.               *)
LEMMA UnitRow ==
    ASSUME NEW u, NEW row,
           row = (IF u.active = "failed" THEN <<Word("bullet")>> ELSE <<>>)
                 \o <<Unit(u.name), Word("loaded"), Word(u.active), Word("sub")>>
    PROVE  /\ (Len(row) >= 4 /\ row[1].kind = "unit") <=> u.active # "failed"
           /\ row[1].kind = "unit" <=> u.active # "failed"
           /\ u.active # "failed" => row[1] = Unit(u.name) /\ row[3] = Word(u.active)
<1>1. CASE u.active # "failed"
  <2>1. PICK rest : rest = <<Unit(u.name), Word("loaded"), Word(u.active), Word("sub")>>
    OBVIOUS
  <2>2. Len(row) = 4 /\ row[1] = Unit(u.name) /\ row[3] = Word(u.active)
    <3>1. DOMAIN rest = 1 .. 4 /\ rest = [i \in 1 .. 4 |-> rest[i]]
      BY <2>1
    <3>2. rest \in Seq(ToSet(rest))
      BY <3>1, Numbered
    <3>3. row = <<>> \o rest
      BY <1>1, <2>1
    <3>4. row = rest
      BY <3>2, <3>3, ConcatEmptySeq
    <3>5. Len(rest) = 4 /\ rest[1] = Unit(u.name) /\ rest[3] = Word(u.active)
      BY <2>1
    <3>. QED
      BY <3>4, <3>5
  <2>3. row[1].kind = "unit"
    BY <2>2 DEF Unit, Field
  <2>. QED
    BY <1>1, <2>2, <2>3
<1>2. CASE u.active = "failed"
  <2>1. PICK rest : rest = <<Unit(u.name), Word("loaded"), Word(u.active), Word("sub")>>
    OBVIOUS
  <2>2. rest \in Seq(ToSet(rest))
    <3>1. DOMAIN rest = 1 .. 4 /\ rest = [i \in 1 .. 4 |-> rest[i]]
      BY <2>1
    <3>. QED
      BY <3>1, Numbered
  <2>3. row[1] = Word("bullet")
    <3>1. row = <<Word("bullet")>> \o rest
      BY <1>2, <2>1
    <3>. QED
      BY <2>2, <3>1, Headed
  <2>4. row[1].kind = "word"
    BY <2>3 DEF Word, Field
  <2>. QED
    BY <1>2, <2>4
<1>. QED
  BY <1>1, <1>2

(* The units that are listed without a mark.                               *)
LEMMA ListedRows ==
    ASSUME NEW f, NEW rows, rows = list_units(f),
           NEW places, places = {i \in DOMAIN f : f[i].active # "failed"}
    PROVE  /\ Listed(rows) = At(rows, places)
           /\ Where(rows, LAMBDA parts : parts[1].kind = "unit") = At(rows, places)
           /\ \A i \in places : rows[i][1] = Unit(f[i].name) /\ rows[i][3] = Word(f[i].active)
<1>1. /\ DOMAIN rows = DOMAIN f
      /\ \A i \in DOMAIN f :
            rows[i] = (IF f[i].active = "failed" THEN <<Word("bullet")>> ELSE <<>>)
                      \o <<Unit(f[i].name), Word("loaded"), Word(f[i].active), Word("sub")>>
  BY DEF list_units, Each
<1>2. \A i \in DOMAIN f : Len(rows[i]) >= 4 /\ rows[i][1].kind = "unit" <=> f[i].active # "failed"
  BY <1>1, UnitRow
<1>3. \A i \in DOMAIN f : rows[i][1].kind = "unit" <=> f[i].active # "failed"
  BY <1>1, UnitRow
<1>4. \A i \in places : rows[i][1] = Unit(f[i].name) /\ rows[i][3] = Word(f[i].active)
  BY <1>1, UnitRow
<1>5. {i \in DOMAIN rows : Len(rows[i]) >= 4 /\ rows[i][1].kind = "unit"} = places
  BY <1>1, <1>2
<1>6. {i \in DOMAIN rows : rows[i][1].kind = "unit"} = places
  BY <1>1, <1>3
<1>7. Listed(rows) = At(rows, places)
  BY <1>5 DEF Listed, Where
<1>8. Where(rows, LAMBDA parts : parts[1].kind = "unit") = At(rows, places)
  BY <1>6 DEF Where
<1>. QED
  BY <1>4, <1>7, <1>8

(* The value of a key that is there once, and of one that is not there.    *)
LEMMA GetOne ==
    ASSUME NEW pairs, Len(pairs) = 1, NEW key, pairs[1].key = key, NEW default
    PROVE  Get(pairs, key, default) = pairs[1].value
<1>1. PICK places : places = {j \in 1 .. Len(pairs) : pairs[j].key = key}
  OBVIOUS
<1>2. places = {1}
  BY <1>1
<1>3. Max(places) = 1
  BY <1>2, MaxOfOne
<1>4. SelectLastInSeq(pairs, LAMBDA pair : pair.key = key) = 1
  BY <1>1, <1>2, <1>3 DEF SelectLastInSeq
<1>. QED
  BY <1>4 DEF Get

LEMMA GetNone ==
    ASSUME NEW pairs, Len(pairs) = 0, NEW key, NEW default
    PROVE  Get(pairs, key, default) = default
<1>1. {j \in 1 .. Len(pairs) : pairs[j].key = key} = {}
  OBVIOUS
<1>2. SelectLastInSeq(pairs, LAMBDA pair : pair.key = key) = 0
  BY <1>1 DEF SelectLastInSeq
<1>. QED
  BY <1>2 DEF Get

(* A service as it is read of its line and its properties.                 *)
LEMMA ServiceOf ==
    ASSUME NEW row, NEW name, row[1] = Unit(name), NEW show,
           NEW own, own = PropertiesOf(show, name), NEW pid \in Nat,
           \/ Len(own) = 0
           \/ Len(own) = 1 /\ own[1] = Pair("MainPID", Num(pid))
    PROVE  /\ ServiceUnit(row, show).name = name
           /\ ServiceUnit(row, show).active_state = row[3]
           /\ ServiceUnit(row, show).main_pid
                 = IF Len(own) = 0 \/ pid = 0 THEN <<>> ELSE <<pid>>
<1>1. row[1].word = name
  BY DEF Unit, Field
<1>2. ServiceUnit(row, show).name = name /\ ServiceUnit(row, show).active_state = row[3]
  BY <1>1 DEF ServiceUnit
<1>3. PICK main : main = Get(own, "MainPID", Word(""))
  OBVIOUS
<1>4. ServiceUnit(row, show).main_pid
         = IF IsNumber(main) /\ main.num > 0 THEN <<main.num>> ELSE <<>>
  BY <1>1, <1>3 DEF ServiceUnit
<1>5. CASE Len(own) = 0
  <2>1. main = Word("")
    BY <1>3, <1>5, GetNone
  <2>2. ~IsNumber(main)
    BY <2>1, Words
  <2>. QED
    BY <1>2, <1>4, <1>5, <2>2
<1>6. CASE Len(own) = 1 /\ own[1] = Pair("MainPID", Num(pid))
  <2>1. own[1].key = "MainPID" /\ own[1].value = Num(pid)
    BY <1>6 DEF Pair
  <2>2. main = Num(pid)
    BY <1>3, <1>6, <2>1, GetOne
  <2>3. IsNumber(main) /\ main.num = pid
    BY <2>2, Numbers
  <2>4. main.num > 0 <=> pid # 0
    BY <2>3
  <2>. QED
    BY <1>2, <1>4, <1>6, <2>3, <2>4
<1>. QED
  BY <1>5, <1>6

LEMMA PidKnown ==
    ASSUME NEW m \in Nat, NEW units, Len(units) = m, NEW name,
           \A i \in 1 .. m : units[i].pid \in Nat
    PROVE  PidOf(units, name) \in Nat
<1>1. PICK places : places = {i \in 1 .. Len(units) : units[i].name = name}
  OBVIOUS
<1>2. PidOf(units, name) = IF places # {} THEN (IF Min(places) = 0 THEN 0 ELSE units[Min(places)].pid)
                           ELSE 0
  BY <1>1 DEF PidOf, SelectInSeq
<1>3. places # {} => Min(places) \in 1 .. m
  BY <1>1, LeastPlace
<1>. QED
  BY <1>2, <1>3

(* What systemctl shows of the units that are asked for.                   *)
LEMMA ShownUnits ==
    ASSUME NEW m \in Nat, NEW lines, DOMAIN lines = 1 .. m, NEW names,
           \A k \in 1 .. m : lines[k][1] = Unit(names[k]),
           NEW f, NEW listed, Where(listed, LAMBDA parts : parts[1].kind = "unit") = lines,
           NEW show, show = systemctl_show(listed, f)
    PROVE  Shows(show, m, names, f)
<1>1. PICK a : a = [k \in 1 .. m |-> Pair("Id", Unit(names[k]))]
  OBVIOUS
<1>2. PICK b : b = [k \in 1 .. m |-> Pair("MainPID", Num(PidOf(f, names[k])))]
  OBVIOUS
<1>3. PICK s : s = [k \in 1 .. m |-> <<a[k], b[k]>>]
  OBVIOUS
<1>4. s \in Seq(ToSet(s)) /\ m = Len(s)
  <2>1. DOMAIN s = 1 .. m /\ s = [i \in 1 .. m |-> s[i]]
    BY <1>3
  <2>. QED
    BY <2>1, Numbered
<1>5. show = FlattenSeq(s)
  <2>1. \A name : Unit(name).word = name
    BY DEF Unit, Field
  <2>2. \A k \in 1 .. m :
           /\ Pair("Id", lines[k][1]) = a[k]
           /\ Pair("MainPID", Num(PidOf(f, lines[k][1].word))) = b[k]
    BY <1>1, <1>2, <2>1
  <2>3. [k \in DOMAIN lines |-> <<Pair("Id", lines[k][1]),
                                  Pair("MainPID", Num(PidOf(f, lines[k][1].word)))>>] = s
    BY <1>3, <2>2
  <2>. QED
    BY <2>3 DEF systemctl_show, Each
<1>6. /\ show \in Seq(ToSet(show)) /\ Len(show) = 2 * m
      /\ \A i \in 1 .. m : show[2 * i - 1] = a[i] /\ show[2 * i] = b[i]
  <2>1. \A i \in 1 .. m : s[i] = <<a[i], b[i]>>
    BY <1>3
  <2>2. PICK T : T = {a[i] : i \in 1 .. m} \union {b[i] : i \in 1 .. m}
    OBVIOUS
  <2>3. ASSUME NEW i \in 1 .. m
        PROVE  s[i] \in Seq(T) /\ Len(s[i]) = 2 /\ s[i][1] = a[i] /\ s[i][2] = b[i]
    <3>1. PICK p, q, both : p = a[i] /\ q = b[i] /\ both = <<p, q>>
      OBVIOUS
    <3>2. p \in T /\ q \in T
      BY <2>2, <3>1
    <3>3. both \in Seq(T) /\ Len(both) = 2 /\ both[1] = p /\ both[2] = q
      BY <3>1, <3>2
    <3>4. s[i] = both
      BY <2>1, <3>1
    <3>. QED
      BY <3>1, <3>3, <3>4
  <2>4. \A i \in 1 .. m : s[i] \in Seq(T) /\ Len(s[i]) = 2
    BY <2>3
  <2>5. InPairs(T, m, show, s)
    BY <1>4, <1>5, <2>4, FlattenPairs
  <2>6. show \in Seq(T) /\ Len(show) = 2 * m
    BY <2>5 DEF InPairs
  <2>7. show \in Seq(ToSet(show))
    <3>1. /\ Len(show) \in Nat /\ DOMAIN show = 1 .. Len(show)
          /\ show = [i \in 1 .. Len(show) |-> show[i]]
      BY <2>6
    <3>. QED
      BY <3>1, Numbered
  <2>8. \A i \in 1 .. m : show[2 * i - 1] = a[i] /\ show[2 * i] = b[i]
    BY <2>3, <2>5 DEF InPairs
  <2>. QED
    BY <2>6, <2>7, <2>8
<1>7. \A i \in 1 .. m : a[i] = Pair("Id", Unit(names[i]))
  BY <1>1
<1>8. \A i \in 1 .. m : b[i] = Pair("MainPID", Num(PidOf(f, names[i])))
  BY <1>2
<1>. QED
  BY <1>6, <1>7, <1>8 DEF Shows

(* Without properties, a unit is read without its process.                 *)
LEMMA NoProperties ==
    ASSUME NEW name
    PROVE  PropertiesOf(<<>>, name) = <<>>
<1>1. PICK show : show = <<>>
  OBVIOUS
<1>2. {i \in {j \in DOMAIN show : show[j].key = "Id"} : show[i].value = Unit(name)} = {}
  BY <1>1
<1>3. PropertiesOf(show, name) = <<>>
  BY <1>2 DEF PropertiesOf
<1>. QED
  BY <1>1, <1>3

LEMMA ServicesParsed ==
    ASSUME NEW c \in Nat, c # 0, NEW rows, NEW show, NEW lines, lines = Listed(rows),
           DOMAIN lines = 1 .. c,
           \A i, j \in 1 .. c : lines[i][1].word = lines[j][1].word => i = j
    PROVE  Metrics(ServiceParser(rows, show), "services")
              = [k \in 1 .. c |-> ServiceUnit(lines[k], show)]
<1>1. PICK names : names = [i \in 1 .. c |-> lines[i][1].word]
  OBVIOUS
<1>2. PICK all : all = [i \in 1 .. c |-> i]
  OBVIOUS
<1>3. Where(all, LAMBDA i : \A j \in 1 .. i - 1 : names[j] # names[i]) = all
  <2>1. \A i \in 1 .. c : \A j \in 1 .. i - 1 : names[j] # names[i]
    <3>1. \A i \in 1 .. c : \A j \in 1 .. i - 1 : j \in 1 .. c /\ j # i
      OBVIOUS
    <3>. QED
      BY <1>1, <3>1
  <2>2. {k \in DOMAIN all : \A j \in 1 .. all[k] - 1 : names[j] # names[all[k]]} = 1 .. c
    BY <1>2, <2>1
  <2>3. At(all, 1 .. c) = all
    BY <1>2, AllAt
  <2>. QED
    BY <2>2, <2>3 DEF Where
<1>4. ASSUME NEW i \in 1 .. c
      PROVE  LET I == {j \in 1 .. Len(names) : names[j] = names[all[i]]}
             IN (IF I # {} THEN Max(I) ELSE 0) = i
  <2>1. Len(names) = c /\ \A j \in 1 .. c : names[j] = names[i] => j = i
    BY <1>1
  <2>2. {j \in 1 .. Len(names) : names[j] = names[all[i]]} = {i}
    BY <1>2, <2>1
  <2>. QED
    BY <2>2, MaxOfOne
<1>5. lines # <<>>
  BY DEF Listed
<1>6. ServiceParser(rows, show)
         = Valid([services |-> Each(all, LAMBDA i :
              ServiceUnit(lines[SelectLastInSeq(names, LAMBDA n : n = names[i])], show))])
  BY <1>1, <1>2, <1>3, <1>5 DEF ServiceParser
<1>7. Each(all, LAMBDA i :
              ServiceUnit(lines[SelectLastInSeq(names, LAMBDA n : n = names[i])], show))
         = [k \in 1 .. c |-> ServiceUnit(lines[k], show)]
  BY <1>2, <1>4 DEF Each, SelectLastInSeq
<1>. QED
  BY <1>6, <1>7 DEF Metrics, Valid

(* Units, each listed once, that have a process or none.                   *)
KnownUnits(f) ==
    /\ f \in Seq(ToSet(f)) /\ \A i \in DOMAIN f : f[i].pid \in Nat
    /\ \A i, j \in DOMAIN f : f[i].name = f[j].name => i = j

(* What the two commands printed.                                          *)
LEMMA ServicesBack ==
    ASSUME ReadingInv, reader = "service_collector", Current > Script.commands
    PROVE  /\ seen[1] \in Facts["services"] /\ seen[2] \in Facts["services"]
           /\ outputs[1] = list_units(seen[1])
           /\ outputs[2] = <<>> \/ outputs[2] = systemctl_show(outputs[1], seen[2])
<1>1. Script.commands = 2 /\ Script.on = "services" /\ Script.cut = <<>> /\ Script.tolerated = {2}
  BY DEF Script, Readings, Local, Reading
<1>2. \A i \in 1 .. 2 :
         /\ seen[i] \in Facts["services"]
         /\ Complete(i) => outputs[i] = Printed(seen[i], SubSeq(outputs, 1, i - 1))[i]
         /\ ~Complete(i) => i \in {2} /\ outputs[i] = Unread(i)
  <2>1. 2 \in Nat
    OBVIOUS
  <2>. QED
    BY <1>1, <2>1, LocalBack
<1>3. \A f : \A before :
         /\ Printed(f, before)[1] = list_units(f)
         /\ Printed(f, before)[2] = IF before = <<>> THEN <<>> ELSE systemctl_show(before[1], f)
  BY DEF Printed
<1>4. 1 \in 1 .. 2 /\ 2 \in 1 .. 2 /\ 1 \notin {2} /\ 2 - 1 = 1
  OBVIOUS
<1>5. outputs[1] = list_units(seen[1])
  BY <1>2, <1>3, <1>4
<1>6. outputs[2] = <<>> \/ outputs[2] = systemctl_show(outputs[1], seen[2])
  <2>1. CASE ~Complete(2)
    <3>1. outputs[2] = Unread(2)
      BY <1>2, <1>4, <2>1
    <3>. QED
      BY <3>1 DEF Unread
  <2>2. CASE Complete(2)
    <3>1. PICK before : before = SubSeq(outputs, 1, 1)
      OBVIOUS
    <3>2. outputs[2] = Printed(seen[2], before)[2]
      BY <1>2, <1>4, <2>2, <3>1
    <3>3. before[1] = outputs[1]
      <4>1. 1 \in Int /\ \A i \in 1 .. 1 : outputs[i] \in {outputs[1]}
        OBVIOUS
      <4>2. \A i \in 1 .. 1 - 1 + 1 : SubSeq(outputs, 1, 1)[i] = outputs[1 + i - 1]
        BY <4>1, SubSeqProperties
      <4>. QED
        BY <3>1, <4>2
    <3>. QED
      BY <1>3, <3>2, <3>3
  <2>. QED
    BY <2>1, <2>2
<1>. QED
  BY <1>2, <1>4, <1>5, <1>6

(* The services as they are held, of what was printed.                     *)
LEMMA ServicesHeld ==
    ASSUME NEW f, KnownUnits(f), NEW g, KnownUnits(g), NEW rows, rows = list_units(f),
           NEW show, show = <<>> \/ show = systemctl_show(rows, g),
           NEW held, held = Where(f, LAMBDA u : u.active # "failed"),
           NEW services, services = Metrics(ServiceParser(rows, show), "services")
    PROVE  /\ DOMAIN services = DOMAIN held
           /\ \A k \in DOMAIN held :
                 /\ services[k].name = held[k].name
                 /\ services[k].active_state = Word(held[k].active)
                 /\ services[k].main_pid
                       = IF show = <<>> \/ PidOf(g, held[k].name) = 0 THEN <<>>
                         ELSE <<PidOf(g, held[k].name)>>
<1>1. PICK n \in Nat : n = Len(f) /\ DOMAIN f = 1 .. n
  BY DEF KnownUnits
<1>2. PICK places : places = {i \in DOMAIN f : f[i].active # "failed"}
  OBVIOUS
<1>3. /\ Listed(rows) = At(rows, places)
      /\ Where(rows, LAMBDA parts : parts[1].kind = "unit") = At(rows, places)
      /\ \A i \in places : rows[i][1] = Unit(f[i].name) /\ rows[i][3] = Word(f[i].active)
  BY <1>2, ListedRows
<1>4. \A p \in places : p \in 1 .. n
  BY <1>1, <1>2
<1>5. PICK c : c = Cardinality(places)
  OBVIOUS
<1>6. PICK lines : lines = At(rows, places)
  OBVIOUS
<1>7. held = At(f, places)
  BY <1>2 DEF Where
<1>8. /\ c \in Nat /\ DOMAIN lines = 1 .. c
      /\ \A k \in 1 .. c : Nth(places, k) \in places /\ lines[k] = rows[Nth(places, k)]
  BY <1>4, <1>5, <1>6, AtLines
<1>9. DOMAIN held = 1 .. c /\ \A k \in 1 .. c : held[k] = f[Nth(places, k)]
  BY <1>4, <1>5, <1>7, AtLines
<1>10. \A k \in 1 .. c : lines[k][1] = Unit(held[k].name) /\ lines[k][3] = Word(held[k].active)
  BY <1>3, <1>8, <1>9
<1>11. PICK names : names = [k \in 1 .. c |-> held[k].name]
  OBVIOUS
<1>12. \A k \in 1 .. c : lines[k][1] = Unit(names[k]) /\ lines[k][1].word = names[k]
  BY <1>10, <1>11 DEF Unit, Field
<1>13. \A i, j \in 1 .. c : names[i] = names[j] => i = j
  <2>1. ASSUME NEW i \in 1 .. c, NEW j \in 1 .. c, names[i] = names[j]
        PROVE  i = j
    <3>1. Nth(places, i) = Nth(places, j)
      <4>1. Nth(places, i) \in DOMAIN f /\ Nth(places, j) \in DOMAIN f
        BY <1>2, <1>8
      <4>. QED
        BY <1>9, <1>11, <2>1, <4>1 DEF KnownUnits
    <3>2. ~(i < j) /\ ~(j < i)
      <4>1. \A x, y \in 1 .. c : x < y => Nth(places, x) < Nth(places, y)
        BY <1>4, <1>5, NthGrows
      <4>2. Nth(places, i) \in Int /\ Nth(places, j) \in Int
        BY <1>4, <1>8
      <4>. QED
        BY <3>1, <4>1, <4>2
    <3>. QED
      BY <1>8, <3>2
  <2>. QED
    BY <2>1
<1>14. \A k \in 1 .. c : PidOf(g, names[k]) \in Nat
  <2>1. PICK m \in Nat : m = Len(g) /\ DOMAIN g = 1 .. m
    BY DEF KnownUnits
  <2>2. \A i \in 1 .. m : g[i].pid \in Nat
    BY <2>1 DEF KnownUnits
  <2>. QED
    BY <2>1, <2>2, PidKnown
<1>15. ASSUME NEW k \in 1 .. c
       PROVE  LET own == PropertiesOf(show, names[k]) IN
              \/ Len(own) = 0 /\ show = <<>>
              \/ Len(own) = 1 /\ show # <<>> /\ own[1] = Pair("MainPID", Num(PidOf(g, names[k])))
  <2>1. CASE show = <<>>
    <3>1. PropertiesOf(show, names[k]) = <<>>
      BY <2>1, NoProperties
    <3>. QED
      BY <2>1, <3>1
  <2>2. CASE show = systemctl_show(rows, g)
    <3>1. Where(rows, LAMBDA parts : parts[1].kind = "unit") = lines
      BY <1>3, <1>6
    <3>2. Shows(show, c, names, g)
      BY <1>8, <1>12, <2>2, <3>1, ShownUnits
    <3>3. PICK own : own = PropertiesOf(show, names[k])
      OBVIOUS
    <3>4. Len(own) = 1 /\ own[1] = Pair("MainPID", Num(PidOf(g, names[k])))
      BY <1>8, <1>13, <3>2, <3>3, OwnProperties
    <3>5. show # <<>>
      <4>1. Len(show) = 2 * c /\ c # 0
        BY <3>2 DEF Shows
      <4>. QED
        BY <1>8, <4>1
    <3>. QED
      BY <3>3, <3>4, <3>5
  <2>. QED
    BY <2>1, <2>2
<1>16. ASSUME NEW k \in 1 .. c
       PROVE  /\ ServiceUnit(lines[k], show).name = held[k].name
              /\ ServiceUnit(lines[k], show).active_state = Word(held[k].active)
              /\ ServiceUnit(lines[k], show).main_pid
                    = IF show = <<>> \/ PidOf(g, held[k].name) = 0 THEN <<>>
                      ELSE <<PidOf(g, held[k].name)>>
  <2>1. PICK row, name, own, pid :
           /\ row = lines[k] /\ name = names[k] /\ own = PropertiesOf(show, name)
           /\ pid = PidOf(g, name)
    OBVIOUS
  <2>2. /\ row[1] = Unit(name) /\ pid \in Nat
        /\ \/ Len(own) = 0
           \/ Len(own) = 1 /\ own[1] = Pair("MainPID", Num(pid))
    BY <1>12, <1>14, <1>15, <2>1
  <2>3. /\ ServiceUnit(row, show).name = name
        /\ ServiceUnit(row, show).active_state = row[3]
        /\ ServiceUnit(row, show).main_pid = IF Len(own) = 0 \/ pid = 0 THEN <<>> ELSE <<pid>>
    BY <2>1, <2>2, ServiceOf
  <2>4. Len(own) = 0 <=> show = <<>>
    BY <1>15, <2>1
  <2>5. name = held[k].name /\ row[3] = Word(held[k].active)
    BY <1>10, <1>11, <2>1
  <2>. QED
    BY <2>1, <2>3, <2>4, <2>5
<1>17. CASE c = 0
  <2>1. lines = <<>> /\ DOMAIN held = {}
    BY <1>6, <1>8, <1>9, <1>17 DEF At
  <2>2. ServiceParser(rows, show) = Invalid
    BY <1>3, <1>6, <2>1 DEF ServiceParser
  <2>3. services = <<>>
    BY <2>2 DEF Metrics, Invalid
  <2>. QED
    BY <2>1, <2>3
<1>18. CASE c # 0
  <2>1. lines = Listed(rows)
    BY <1>3, <1>6
  <2>2. \A i, j \in 1 .. c : lines[i][1].word = lines[j][1].word => i = j
    BY <1>12, <1>13
  <2>3. services = [k \in 1 .. c |-> ServiceUnit(lines[k], show)]
    BY <1>8, <1>18, <2>1, <2>2, ServicesParsed
  <2>. QED
    BY <1>9, <1>16, <2>3
<1>. QED
  BY <1>17, <1>18

(* The services are read, whatever systemctl show came to.                 *)
LEMMA ServicesRight ==
    ASSUME ReadingInv, \A f \in Facts["services"] : KnownUnits(f)
    PROVE  ServicesRead
<1>1. SUFFICES ASSUME reader = "service_collector", Current > Script.commands
               PROVE  ServicesRead
  BY DEF ServicesRead, Done
<1>2. /\ seen[1] \in Facts["services"] /\ seen[2] \in Facts["services"]
      /\ outputs[1] = list_units(seen[1])
      /\ outputs[2] = <<>> \/ outputs[2] = systemctl_show(outputs[1], seen[2])
  BY <1>1, ServicesBack
<1>3. PICK held : held = Where(seen[1], LAMBDA u : u.active # "failed")
  OBVIOUS
<1>4. PICK services : services = Metrics(ServiceParser(outputs[1], outputs[2]), "services")
  OBVIOUS
<1>5. KnownUnits(seen[1]) /\ KnownUnits(seen[2])
  BY <1>2
<1>6. /\ DOMAIN services = DOMAIN held
      /\ \A k \in DOMAIN held :
            /\ services[k].name = held[k].name
            /\ services[k].active_state = Word(held[k].active)
            /\ services[k].main_pid
                  = IF outputs[2] = <<>> \/ PidOf(seen[2], held[k].name) = 0 THEN <<>>
                    ELSE <<PidOf(seen[2], held[k].name)>>
  BY <1>2, <1>3, <1>4, <1>5, ServicesHeld
<1>7. Each(services, LAMBDA s : <<s.name, s.active_state, s.main_pid>>)
         = Each(held, LAMBDA u :
              <<u.name, Word(u.active),
                IF outputs[2] = <<>> \/ PidOf(seen[2], u.name) = 0 THEN <<>>
                ELSE <<PidOf(seen[2], u.name)>>>>)
  BY <1>6, Zenon DEF Each
<1>. QED
  BY <1>3, <1>4, <1>7 DEF ServicesRead

-------------------------------------------------------------------------------
(* All that is read item by item.                                          *)

(* Containers of any kind, those that run with some memory; log lines of   *)
(* either form or too short for it; clusters in which no item but a pod is *)
(* malformed, with restart counts that are numbers and reasons of events;  *)
(* and units that are listed once each.                                    *)
KnownItems ==
    /\ \A f \in Facts["containers"] : f \in Seq(ToSet(f)) /\ \A i \in DOMAIN f : AnyContainer(f[i])
    /\ \A f \in Facts["logs"] : AnyLog(f.journal) /\ AnyLog(f.syslog) /\ AnyLog(f.messages)
    /\ \A f \in Facts["cluster"] : AnyCluster(f)
    /\ \A f \in Facts["services"] : KnownUnits(f)

(* Of the items it lists the collector loses none and mixes none up: the   *)
(* units with the processes systemctl show knew of them, the containers    *)
(* that docker ps listed with what docker inspect said of them later, the  *)
(* pods with the restarts of all their containers, the events that have a  *)
(* time, and the log lines, syslog's if there is no journal: for any number*)
(* of items, a host that changes between two commands, and whichever       *)
(* commands fail.                                                          *)
THEOREM ItemsRight ==
    ASSUME KnownItems
    PROVE  Spec => []ItemsReadBack
<1>1. ASSUME ReadingInv
      PROVE  ItemsReadBack
  <2>1. ServicesRead
    BY <1>1, ServicesRight DEF KnownItems
  <2>2. ContainersRead
    BY <1>1, ContainersRight DEF KnownItems
  <2>3. ClusterRead
    BY <1>1, ClusterRight DEF KnownItems
  <2>4. LogsRead
    BY <1>1, LogsRight DEF KnownItems
  <2>. QED
    BY <2>1, <2>2, <2>3, <2>4 DEF ItemsReadBack
<1>. QED
  BY <1>1, ReadingKnown, PTL
===============================================================================
