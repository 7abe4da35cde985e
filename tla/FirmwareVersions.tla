-------------------------- MODULE FirmwareVersions --------------------------
(***************************************************************************)
(* The choice of firmware packages (meter/FwMan.py): which build a version *)
(* stands for, what packages it offers, and how two versions compare.      *)
(*                                                                         *)
(* A version is <<major, minor, build>>.  A package is what its file name  *)
(* says: its kind, the version pkg_to_ver reads from the name (from) and   *)
(* the version that runs once it is installed (to); only an upgrade from   *)
(* an older build ("diff") has two different ones.                         *)
(***************************************************************************)
EXTENDS Naturals, Sequences, FiniteSets

CONSTANTS Version,
          Listing,    \* all packages, in the order of their names
          Matching,   \* Matching[v]: builds whose directory name matches v
          MaxPart     \* bound of the numbers in a version

Package == {Listing[i] : i \in DOMAIN Listing}

ASSUME VersionAssumption ==
  MaxPart \in Nat /\ Version \subseteq (0..MaxPart) \X (0..MaxPart) \X (0..MaxPart)
ASSUME PackageAssumption ==
  Package \subseteq [kind : {"cold", "down", "diff"}, from : Version, to : Version]
ASSUME MatchingAssumption == Matching \in [Version -> SUBSET Version]

SR(v) == <<v[1], v[2]>>

\* The digits of a number as they stand in a version string.
Digits[n \in 0..MaxPart] == IF n < 10 THEN <<n>> ELSE Append(Digits[n \div 10], n % 10)

\* The order of Python's strings, here of digits.
TextLess(s, t) ==
  \E k \in DOMAIN t : /\ \A i \in 1..(k - 1) : i \in DOMAIN s /\ s[i] = t[i]
                      /\ k \in DOMAIN s => s[k] < t[k]

\* Mutant: the two strings are compared the wrong way round.
CompareSwapped(oldv, newv) ==
  IF SR(oldv) = SR(newv) THEN "same"
  ELSE LET p == IF oldv[1] = newv[1] THEN 2 ELSE 1
       IN IF TextLess(Digits[oldv[p]], Digits[newv[p]]) THEN "older" ELSE "newer"

\* What newv is compared with oldv; major and minor numbers count, as text.
compare_versions(oldv, newv) ==
  IF SR(oldv) = SR(newv) THEN "same"
  ELSE LET p == IF oldv[1] = newv[1] THEN 2 ELSE 1
       IN IF TextLess(Digits[newv[p]], Digits[oldv[p]]) THEN "older" ELSE "newer"

\* The package of one kind in the directory of a build (_find_zip), as a set.
Offered(v, kind) == {p \in Package : p.to = v /\ p.kind = kind}

\* The builds get_build may return: the one that matches and has a coldstart
\* package.  None, or a list of several, ends in an exception.
get_build(v) == {b \in Matching[v] : Matching[v] = {b} /\ Offered(b, "cold") # {}}

\* info[UpgradeFromSR_major-minor]: get_build_ex looks for three of them.
UpgradeFrom(v, cur) ==
  {p \in Offered(v, "diff") : SR(p.from) = SR(cur) /\ cur[1] = 10 /\ cur[2] \in 2..4}
=============================================================================
