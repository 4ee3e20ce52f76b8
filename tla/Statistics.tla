----------------------------- MODULE Statistics -----------------------------
(***************************************************************************)
(* The statistics of the benchmark reports over whole milliseconds.  What  *)
(* the code computes in floating point and rounds to two decimals is here  *)
(* the exact number of hundredths.                                         *)
(***************************************************************************)
EXTENDS Integers, Sequences, Functions

Ascending(s) == \A i, j \in 1..Len(s) : i <= j => s[i] <= s[j]

\* What s becomes when its elements are put in another order.
Rearrangements(s) ==
  {[i \in DOMAIN s |-> s[p[i]]] : p \in Bijection(DOMAIN s, DOMAIN s)}

\* list.sort of numbers.
Sorted(s) == CHOOSE t \in Rearrangements(s) : Ascending(t)

\* n / d, rounded half up.
Rounded(n, d) == (2 * n + d) \div (2 * d)

\* Mutant: the sample above the rank is forgotten.
PercentileBelow(s, p) ==
  LET k == (Len(s) - 1) * p
      f == k \div 100
      above == k - 100 * f
  IN  IF s = <<>> THEN 0
      ELSE IF p <= 0 THEN 100 * s[1]
      ELSE IF p >= 100 THEN 100 * s[Len(s)]
      ELSE IF above = 0 THEN 100 * s[f + 1]
      ELSE s[f + 1] * (100 - above)

(***************************************************************************)
(* The p-th percentile of an ascending sequence: the sample of rank        *)
(* (n - 1) * p / 100, counted from 0, or a mixture of the two samples      *)
(* around that rank.  k is the rank in hundredths.                         *)
(***************************************************************************)
Percentile(s, p) ==
  LET k == (Len(s) - 1) * p
      f == k \div 100
      above == k - 100 * f
  IN  IF s = <<>> THEN 0
      ELSE IF p <= 0 THEN 100 * s[1]
      ELSE IF p >= 100 THEN 100 * s[Len(s)]
      ELSE IF above = 0 THEN 100 * s[f + 1]
      ELSE s[f + 1] * (100 - above) + s[f + 2] * above

\* statistics.median.
Median(s) ==
  LET half == Len(s) \div 2
  IN  IF Len(s) % 2 = 1 THEN 100 * s[half + 1]
      ELSE 50 * (s[half] + s[half + 1])
=============================================================================
