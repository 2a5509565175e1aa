--------------------------------- MODULE Tags ---------------------------------
(***************************************************************************)
(* Image tags: which of them are releases, which release is the latest,    *)
(* which may be pinned.                                                    *)
(*                                                                         *)
(* A listing is a set of tags: Registry shows that it repeats none. Where  *)
(* the order of the listing matters SortKey stands for it.                 *)
(***************************************************************************)
EXTENDS Integers, FiniteSets

CONSTANTS
  Tag,                  \* image tags the registry may hold
  Release,              \* those of the form v<major>.<minor>.<patch>
  Major, Minor, Patch,  \* the numbers of a release, of 1 to 3 digits each
  Sha,                  \* tags that contain a 40-digit commit hash
  SortKey,              \* the place of a tag in a sorted listing
  NoTag                 \* "": the pin that means "follow the latest release"

\* A registry holds finitely many tags; no two have one place in a listing. Two
\* releases may have the same numbers: v1.0.0 and v01.0.0.
ASSUME TagAssumption ==
  /\ IsFiniteSet(Tag)
  /\ NoTag \notin Tag
  /\ Release \subseteq Tag
  /\ Sha \subseteq Tag
  /\ Release \intersect Sha = {}
  /\ Major \in [Release -> 0..999]
  /\ Minor \in [Release -> 0..999]
  /\ Patch \in [Release -> 0..999]
  /\ SortKey \in [Tag -> Nat]
  /\ \A t, u \in Tag : SortKey[t] = SortKey[u] => t = u

-----------------------------------------------------------------------------
\* Mutation: two digits are enough for each number.
TagToNumberTwoDigits(t) == Major[t] * 10000 + Minor[t] * 100 + Patch[t]

TagToNumber(t) == Major[t] * 1000000 + Minor[t] * 1000 + Patch[t]

FilterSHATags(S) == S \ Sha

FilterReleaseTags(S) == S \intersect Release

\* Mutation: the values are sorted and the first is taken.
GetFirstReleaseTag(S) ==
  CHOOSE t \in FilterReleaseTags(S) :
    \A u \in FilterReleaseTags(S) : TagToNumber(t) <= TagToNumber(u)

\* Of two releases with the same number the later one in the listing overwrites
\* the earlier one in tagValueMap.
GetLatestReleaseTag(S) ==
  CHOOSE t \in FilterReleaseTags(S) :
    \A u \in FilterReleaseTags(S) :
      \/ TagToNumber(u) < TagToNumber(t)
      \/ TagToNumber(u) = TagToNumber(t) /\ SortKey[u] <= SortKey[t]

\* Mutation: any tag may be pinned.
IsTagDeployableAlways(t, S) == TRUE

IsTagDeployable(t, S) == t = NoTag \/ t \in S

-----------------------------------------------------------------------------
\* What the numbers are for: t is an older release than u.
Older(t, u) ==
  \/ Major[t] < Major[u]
  \/ Major[t] = Major[u] /\ Minor[t] < Minor[u]
  \/ Major[t] = Major[u] /\ Minor[t] = Minor[u] /\ Patch[t] < Patch[u]
===============================================================================
