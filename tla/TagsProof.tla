------------------------------- MODULE TagsProof -------------------------------
(***************************************************************************)
(* Proofs about Tags: the number of a release orders releases as their     *)
(* three numbers do, and GetLatestReleaseTag gives the newest release of   *)
(* any listing that has one.                                               *)
(***************************************************************************)
EXTENDS Tags, TLAPS, FiniteSetTheorems, WellFoundedInduction

-----------------------------------------------------------------------------
(* Numbers *)

ThreeDigits(n) == n \in 0..999

LEMMA NumbersOfARelease ==
  ASSUME NEW t \in Release
  PROVE  ThreeDigits(Major[t]) /\ ThreeDigits(Minor[t]) /\ ThreeDigits(Patch[t])
BY TagAssumption DEF ThreeDigits

\* The numbers a, b and c of a release as one number.
Packed(a, b, c) == a * 1000000 + b * 1000 + c

LEMMA PackedFits ==
  ASSUME NEW a, NEW b, NEW c, ThreeDigits(a), ThreeDigits(b), ThreeDigits(c)
  PROVE  Packed(a, b, c) \in Nat /\ Packed(a, b, c) < 1000000000
BY SMT DEF ThreeDigits, Packed

LEMMA PackedInOrder ==
  ASSUME NEW a, NEW b, NEW c, ThreeDigits(a), ThreeDigits(b), ThreeDigits(c),
         NEW d, NEW e, NEW f, ThreeDigits(d), ThreeDigits(e), ThreeDigits(f)
  PROVE  /\ Packed(a, b, c) < Packed(d, e, f)
              <=> a < d \/ (a = d /\ b < e) \/ (a = d /\ b = e /\ c < f)
         /\ Packed(a, b, c) = Packed(d, e, f) => a = d /\ b = e /\ c = f
BY SMT DEF ThreeDigits, Packed

LEMMA NumberIsPacked ==
  ASSUME NEW t \in Release
  PROVE  TagToNumber(t) = Packed(Major[t], Minor[t], Patch[t])
BY SMT DEF TagToNumber, Packed

\* A release's number is a natural below 10^9: an int of 32 bits holds it.
THEOREM NumberFits ==
  ASSUME NEW t \in Release
  PROVE  TagToNumber(t) \in Nat /\ TagToNumber(t) < 1000000000
BY NumbersOfARelease, NumberIsPacked, PackedFits, SMT

LEMMA NumberIsNatural == ASSUME NEW t \in Release PROVE TagToNumber(t) \in Nat
BY NumberFits, SMT

\* Comparing numbers is comparing releases: three digits never reach into the
\* next place.
THEOREM NumberOrdersReleases ==
  ASSUME NEW t \in Release, NEW u \in Release
  PROVE  TagToNumber(t) < TagToNumber(u) <=> Older(t, u)
<1>1. /\ TagToNumber(t) = Packed(Major[t], Minor[t], Patch[t])
      /\ TagToNumber(u) = Packed(Major[u], Minor[u], Patch[u])
  BY NumberIsPacked, Zenon
<1>2. Packed(Major[t], Minor[t], Patch[t]) < Packed(Major[u], Minor[u], Patch[u])
        <=> Older(t, u)
  <2>1. /\ ThreeDigits(Major[t]) /\ ThreeDigits(Minor[t]) /\ ThreeDigits(Patch[t])
        /\ ThreeDigits(Major[u]) /\ ThreeDigits(Minor[u]) /\ ThreeDigits(Patch[u])
    BY NumbersOfARelease
  <2> QED
    BY <2>1, PackedInOrder DEF Older
<1> QED
  BY <1>1, <1>2, Zenon

\* Two releases with one number have the same three numbers: only leading zeros
\* tell them apart.
THEOREM EqualNumbers ==
  ASSUME NEW t \in Release, NEW u \in Release, TagToNumber(t) = TagToNumber(u)
  PROVE  Major[t] = Major[u] /\ Minor[t] = Minor[u] /\ Patch[t] = Patch[u]
<1>1. Packed(Major[t], Minor[t], Patch[t]) = Packed(Major[u], Minor[u], Patch[u])
  BY NumberIsPacked, Zenon
<1>2. /\ ThreeDigits(Major[t]) /\ ThreeDigits(Minor[t]) /\ ThreeDigits(Patch[t])
      /\ ThreeDigits(Major[u]) /\ ThreeDigits(Minor[u]) /\ ThreeDigits(Patch[u])
  BY NumbersOfARelease
<1> QED
  BY <1>1, <1>2, PackedInOrder

-----------------------------------------------------------------------------
(* The latest release *)

\* The order GetLatestReleaseTag looks for the last element of.
NotAfter(u, t) ==
  \/ TagToNumber(u) < TagToNumber(t)
  \/ TagToNumber(u) = TagToNumber(t) /\ SortKey[u] <= SortKey[t]

\* It is total and transitive.
LEMMA NotAfterIsTotal ==
  ASSUME NEW t \in Release, NEW u \in Release
  PROVE  NotAfter(t, u) \/ NotAfter(u, t)
BY TagAssumption, NumberIsNatural DEF NotAfter

LEMMA NotAfterIsTransitive ==
  ASSUME NEW t \in Release, NEW u \in Release, NEW v \in Release,
         NotAfter(t, u), NotAfter(u, v)
  PROVE  NotAfter(t, v)
<1>1. /\ TagToNumber(t) \in Nat /\ TagToNumber(u) \in Nat /\ TagToNumber(v) \in Nat
      /\ SortKey[t] \in Nat /\ SortKey[u] \in Nat /\ SortKey[v] \in Nat
  BY TagAssumption, NumberIsNatural
<1> QED
  BY <1>1 DEF NotAfter

HasLast(S) == \E t \in S : \A u \in S : NotAfter(u, t)

\* Every set of releases but the empty one has a latest: a smallest set
\* without one would have one as soon as an element is put back.
LEMMA LatestExists ==
  ASSUME NEW S \in SUBSET Release, S # {}
  PROVE  HasLast(S)
<1> DEFINE Bad == {T \in SUBSET Release : T # {} /\ ~HasLast(T)}
           Sizes == {n \in Nat : \E T \in Bad : Cardinality(T) = n}
<1>1. \A T \in SUBSET Release : IsFiniteSet(T) /\ Cardinality(T) \in Nat
  BY TagAssumption, FS_Subset, FS_CardinalityType
<1>2. SUFFICES ASSUME S \in Bad PROVE FALSE
  OBVIOUS
<1>3. Sizes \subseteq Nat /\ Sizes # {}
  BY <1>1, <1>2
<1>4. PICK n \in Sizes : \A k \in Sizes : ~ (<<k, n>> \in OpToRel(<, Nat))
  BY <1>3, WFMin, NatLessThanWellFounded
<1>5. PICK T \in Bad : Cardinality(T) = n
  BY <1>4
<1>6. PICK x \in T : TRUE
  BY <1>5
<1>7. /\ IsFiniteSet(T \ {x}) /\ Cardinality(T \ {x}) = Cardinality(T) - 1
  BY <1>1, <1>5, <1>6, FS_RemoveElement
<1>8. T \ {x} \notin Bad
  <2>1. SUFFICES ASSUME T \ {x} \in Bad PROVE FALSE
    OBVIOUS
  <2>2. n - 1 \in Sizes
    BY <1>1, <1>5, <1>7, <2>1
  <2>3. n \in Nat /\ n - 1 \in Nat
    BY <1>3, <2>2
  <2>4. <<n - 1, n>> \in OpToRel(<, Nat)
    BY <2>3 DEF OpToRel
  <2> QED
    BY <1>4, <2>2, <2>4
<1>9. CASE T \ {x} = {}
  <2>1. T = {x} /\ x \in Release
    BY <1>6, <1>9
  <2>2. NotAfter(x, x)
    BY <2>1, NotAfterIsTotal
  <2> QED
    BY <1>5, <2>1, <2>2 DEF HasLast
<1>10. CASE T \ {x} # {}
  <2>1. PICK t \in T \ {x} : \A u \in T \ {x} : NotAfter(u, t)
    BY <1>5, <1>8, <1>10 DEF HasLast
  <2>2. T \subseteq Release /\ x \in Release /\ t \in Release
    BY <1>6, <2>1
  <2>3. NotAfter(x, x)
    BY <2>2, NotAfterIsTotal
  <2>4. CASE NotAfter(x, t)
    BY <1>5, <2>1, <2>4 DEF HasLast
  <2>5. CASE NotAfter(t, x)
    <3>1. \A u \in T : NotAfter(u, x)
      BY <2>1, <2>2, <2>3, <2>5, NotAfterIsTransitive
    <3> QED
      BY <1>5, <1>6, <3>1 DEF HasLast
  <2> QED
    BY <2>2, <2>4, <2>5, NotAfterIsTotal
<1> QED
  BY <1>9, <1>10

\* GetLatestReleaseTag returns a release of the listing it is given, when there
\* is one.
LEMMA LatestIsListed ==
  ASSUME NEW S \in SUBSET Tag, FilterReleaseTags(S) # {}
  PROVE  GetLatestReleaseTag(S) \in FilterReleaseTags(S)
<1>1. FilterReleaseTags(S) \in SUBSET Release
  BY DEF FilterReleaseTags
<1>2. PICK t \in FilterReleaseTags(S) :
        \A u \in FilterReleaseTags(S) : NotAfter(u, t)
  BY <1>1, LatestExists DEF HasLast
<1> QED
  BY <1>2 DEF GetLatestReleaseTag, NotAfter

\* GetLatestReleaseTag of a listing with a release is a release of the listing,
\* and none in the listing is newer.
THEOREM LatestIsNewest ==
  ASSUME NEW S \in SUBSET Tag, FilterReleaseTags(S) # {}
  PROVE  /\ GetLatestReleaseTag(S) \in FilterReleaseTags(S)
         /\ \A t \in FilterReleaseTags(S) : ~Older(GetLatestReleaseTag(S), t)
<1> DEFINE last == GetLatestReleaseTag(S)
<1>1. FilterReleaseTags(S) \in SUBSET Release
  BY DEF FilterReleaseTags
<1>2. PICK t \in FilterReleaseTags(S) :
        \A u \in FilterReleaseTags(S) : NotAfter(u, t)
  BY <1>1, LatestExists DEF HasLast
<1>3. last \in FilterReleaseTags(S) /\ \A u \in FilterReleaseTags(S) : NotAfter(u, last)
  BY <1>2 DEF GetLatestReleaseTag, NotAfter
<1>4. ASSUME NEW u \in FilterReleaseTags(S)
      PROVE  ~Older(last, u)
  <2>1. u \in Release /\ last \in Release /\ NotAfter(u, last)
    BY <1>1, <1>3
  <2>2. TagToNumber(u) \in Nat /\ TagToNumber(last) \in Nat
    BY <2>1, NumberIsNatural
  <2>3. ~(TagToNumber(last) < TagToNumber(u))
    BY <2>1, <2>2 DEF NotAfter
  <2> QED
    BY <2>1, <2>3, NumberOrdersReleases
<1> QED
  BY <1>3, <1>4

===============================================================================
