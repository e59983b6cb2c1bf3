------------------------ MODULE LaunchValidationProofs ------------------------
(***************************************************************************)
(* Launch validation, for every kernel, launch and width of size_t: what   *)
(* is encoded keeps to Metal's rules in the integers, and what is refused  *)
(* for its sums or products breaks them.                                   *)
(*                                                                         *)
(* IInv says which checks a launch has passed at each stage (Passed), what *)
(* the loop over threadgroup_memory has summed so far (Summed), and what   *)
(* was wrong with a launch that was refused (Blamed).                      *)
(*                                                                         *)
(* Sums is a recursive function: the lemmas about it are by induction, in  *)
(* the form of a least counterexample.                                     *)
(***************************************************************************)
EXTENDS LaunchValidation, SequenceTheorems, WellFoundedInduction, TLAPS

\* The stages that come after each check.
Ends             == {"accepted", "encoded"}
AfterOffsets     == {"indirect", "uniform"} \cup Ends
AfterWidths      == {"offsets"} \cup AfterOffsets
AfterScalars     == {"widths"} \cup AfterWidths
AfterMemory      == {"scalars"} \cup AfterScalars
AfterArrays      == {"memory"} \cup AfterMemory
AfterBindings    == {"arrays"} \cup AfterArrays
AfterCount       == {"bindings"} \cup AfterBindings
AfterThreads     == {"count"} \cup AfterCount
AfterThreadgroup == {"threads"} \cup AfterThreads
AfterGrid        == {"threadgroup"} \cup AfterThreadgroup
AfterPrepare     == {"grid"} \cup AfterGrid
Stages           == {"prepare", "rejected"} \cup AfterPrepare

Inputs == pipeline \in Pipelines /\ launch \in Launches /\ budget \in Budgets /\ stage \in Stages

Passed ==
  /\ stage \in AfterPrepare => ~Malformed
  /\ stage \in AfterGrid /\ launch.indirect = None => \A d \in Dims : Grid[d] # 0
  /\ stage \in AfterThreadgroup => \A d \in Dims : Threadgroup[d] # 0
  /\ stage \in AfterThreads  => ~TooManyThreads(Threadgroup)
  /\ stage \in AfterCount    => Bound <= MaxBindings
  /\ stage \in AfterBindings => \A b \in pipeline.bindings : b.index < Bound
  /\ stage \in AfterArrays   => \A i \in pipeline.arrays : i < Len(launch.memory)
  /\ stage \in AfterScalars  =>
       \A i \in 1..Len(launch.scalars) : launch.scalars[i] <= kMaxInlineScalarBytes
  /\ stage \in AfterWidths   =>
       \A b \in pipeline.bindings : b.index >= Len(launch.buffers) /\ b.size # 0 => ~Narrow(b)
  /\ stage \in AfterOffsets  =>
       \A i \in 1..Len(launch.buffers) : ~OutOfBounds(launch.buffers[i])
  /\ stage = "indirect"      => launch.indirect # None
  /\ stage = "uniform"       => launch.indirect = None
  /\ stage \in Ends /\ launch.indirect # None =>
       ~Misplaced(launch.indirect_offset, launch.indirect)
  /\ stage \in Ends /\ launch.indirect = None =>
       nonUniform \/ \A d \in Dims : Grid[d] % Threadgroup[d] = 0

Lengths == [i \in 1..Len(launch.memory) |-> Rounded(launch.memory[i])]

Summed ==
  /\ stage \in Stages \ (AfterArrays \cup {"rejected"}) => next = 1
  /\ stage = "memory" =>
       /\ next \in 1..(Len(launch.memory) + 1)
       /\ \A i \in 1..(next - 1) : Rounds(launch.memory[i])
       /\ total = pipeline.static + Sums(Lengths)[next - 1]
       /\ next # 1 => total <= budget
  /\ stage \in AfterMemory => pipeline.static + SumOf(Lengths) <= budget

Blamed ==
  /\ NoFalseAlarm
  /\ reason = "threadgroup" => \E d \in Dims : Threadgroup[d] = 0
  /\ reason = "threads" => TooManyThreads(Threadgroup)

Encoded == stage = "encoded" => encoded = Encoding

IInv == Inputs /\ Passed /\ Summed /\ Blamed /\ Encoded

-----------------------------------------------------------------------------
(* Sums *)

\* Every nonempty set of numbers has a least element.
LEMMA Least ==
  ASSUME NEW T, T \subseteq Nat, T # {}
  PROVE  \E m \in T : \A k \in T : m <= k
<1>1. PICK m \in T : \A k \in T : ~(<<k, m>> \in OpToRel(<, Nat))
  BY NatLessThanWellFounded, WFMin, Zenon
<1>2. ASSUME NEW k \in T PROVE m <= k
  <2>1. ~(<<k, m>> \in OpToRel(<, Nat))
    BY <1>1
  <2>2. ~(k < m)
    BY <2>1 DEF OpToRel
  <2>3. QED
    BY <2>2
<1>3. QED
  BY <1>2

\* g holds the sums of s up to n.
Runs(s, g, n) == g[0] = 0 /\ \A i \in 1..n : g[i] = g[i - 1] + s[i]
Adds(s, g, n) == g \in [0..n -> Nat] /\ Runs(s, g, n)

LEMMA SumsExist ==
  ASSUME NEW s \in Seq(Nat), NEW n \in 0..Len(s)
  PROVE  \E g : Adds(s, g, n)
<1> DEFINE T == {k \in Nat : k <= Len(s) /\ ~\E g : Adds(s, g, k)}
<1>1. SUFFICES ASSUME T # {} PROVE FALSE
  OBVIOUS
<1>2. PICK m \in T : \A k \in T : m <= k
  BY <1>1, Least
<1>3. m # 0
  <2>1. Adds(s, [i \in 0..0 |-> 0], 0)
    BY DEF Adds, Runs
  <2>2. QED
    BY <2>1
<1>4. m - 1 \in Nat /\ m - 1 <= Len(s) /\ ~(m - 1 \in T) /\ m <= Len(s)
  BY <1>2, <1>3
<1>5. PICK g : Adds(s, g, m - 1)
  BY <1>4
<1>6. s[m] \in Nat
  BY <1>3, <1>4
<1> DEFINE h == [i \in 0..m |-> IF i = m THEN g[m - 1] + s[m] ELSE g[i]]
<1>7. h \in [0..m -> Nat] /\ h[0] = 0
  BY <1>3, <1>4, <1>5, <1>6 DEF Adds, Runs
<1>8. ASSUME NEW i \in 1..m PROVE h[i] = h[i - 1] + s[i]
  <2>1. CASE i = m
    BY <1>3, <1>4, <2>1
  <2>2. CASE i # m
    <3>1. i \in 1..(m - 1) /\ i - 1 \in 0..(m - 1) /\ i - 1 # m
      BY <1>3, <1>4, <2>2
    <3>2. g[i] = g[i - 1] + s[i]
      BY <1>5, <3>1 DEF Adds, Runs
    <3>3. QED
      BY <1>3, <1>4, <2>2, <3>1, <3>2
  <2>3. QED
    BY <2>1, <2>2
<1> HIDE DEF h
<1>9. Adds(s, h, m)
  BY <1>7, <1>8 DEF Adds, Runs
<1>10. QED
  BY <1>9

\* Sequences with the same elements up to n have the same sums up to n.
LEMMA RunsUnique ==
  ASSUME NEW n \in Nat, NEW r, NEW s, NEW f, NEW g, Runs(r, f, n), Runs(s, g, n),
         \A i \in 1..n : r[i] = s[i]
  PROVE  \A i \in 0..n : f[i] = g[i]
<1> DEFINE T == {i \in Nat : i <= n /\ f[i] # g[i]}
<1>1. SUFFICES ASSUME T # {} PROVE FALSE
  OBVIOUS
<1>2. PICK j \in T : \A i \in T : j <= i
  BY <1>1, Least
<1>3. j # 0 /\ j - 1 \in Nat /\ ~(j - 1 \in T)
  BY <1>2 DEF Runs
<1>4. f[j - 1] = g[j - 1]
  BY <1>2, <1>3
<1>5. f[j] = f[j - 1] + r[j] /\ g[j] = g[j - 1] + s[j] /\ r[j] = s[j]
  BY <1>2, <1>3 DEF Runs
<1>6. QED
  BY <1>2, <1>4, <1>5

LEMMA SumsAdd ==
  ASSUME NEW s \in Seq(Nat)
  PROVE  Adds(s, Sums(s), Len(s))
<1> DEFINE Rec(g) == g = [n \in 0..Len(s) |-> IF n = 0 THEN 0 ELSE g[n - 1] + s[n]]
<1>1. Len(s) \in Nat
  OBVIOUS
<1>2. PICK g : Adds(s, g, Len(s))
  BY SumsExist, <1>1
<1>3. Rec(g)
  BY <1>2 DEF Adds, Runs
<1>4. Sums(s) = CHOOSE h : Rec(h)
  BY DEF Sums
<1>5. Rec(Sums(s))
  BY <1>3, <1>4
<1>6. PICK S : S = Sums(s) /\ Rec(S)
  BY <1>5
<1>7. Runs(s, S, Len(s)) /\ S = [n \in 0..Len(s) |-> S[n]]
  BY <1>1, <1>6 DEF Runs
<1>8. Runs(s, g, Len(s)) /\ g \in [0..Len(s) -> Nat]
  BY <1>2 DEF Adds
<1>9. \A i \in 0..Len(s) : S[i] = g[i]
  <2>1. PICK n \in Nat : n = Len(s)
    BY <1>1
  <2>2. Runs(s, S, n) /\ Runs(s, g, n)
    BY <1>7, <1>8, <2>1
  <2>3. \A i \in 1..n : s[i] = s[i]
    OBVIOUS
  <2>4. \A i \in 0..n : S[i] = g[i]
    BY <2>2, <2>3, RunsUnique
  <2>5. QED
    BY <2>1, <2>4
<1>10. S \in [0..Len(s) -> Nat]
  BY <1>7, <1>8, <1>9
<1>11. QED
  BY <1>6, <1>7, <1>10 DEF Adds

\* What the sums start with, add, and end with.
LEMMA SumsFacts ==
  ASSUME NEW s \in Seq(Nat)
  PROVE  /\ Sums(s)[0] = 0
         /\ \A i \in 0..Len(s) : Sums(s)[i] \in Nat
         /\ \A i \in 1..Len(s) : Sums(s)[i] = Sums(s)[i - 1] + s[i]
         /\ SumOf(s) \in Nat
<1>1. PICK S : S = Sums(s) /\ Adds(s, S, Len(s))
  BY SumsAdd
<1>2. SumOf(s) = S[Len(s)] /\ Len(s) \in Nat
  BY <1>1 DEF SumOf
<1>3. /\ S[0] = 0 /\ \A i \in 0..Len(s) : S[i] \in Nat
      /\ \A i \in 1..Len(s) : S[i] = S[i - 1] + s[i]
      /\ S[Len(s)] \in Nat
  <2>1. S \in [0..Len(s) -> Nat]
    BY <1>1 DEF Adds
  <2>2. S[0] = 0 /\ \A i \in 1..Len(s) : S[i] = S[i - 1] + s[i]
    BY <1>1 DEF Adds, Runs
  <2>3. 0 \in 0..Len(s) /\ Len(s) \in 0..Len(s)
    BY <1>2
  <2> HIDE <1>1, <1>2
  <2>4. QED
    BY <2>1, <2>2, <2>3
<1>4. QED
  BY <1>1, <1>2, <1>3

LEMMA SumsAgree ==
  ASSUME NEW r \in Seq(Nat), NEW s \in Seq(Nat), Len(r) = Len(s), NEW k \in 0..Len(s),
         \A i \in 1..k : r[i] = s[i]
  PROVE  Sums(r)[k] = Sums(s)[k]
<1>1. PICK f, g : f = Sums(r) /\ g = Sums(s) /\ Runs(r, f, Len(r)) /\ Runs(s, g, Len(s))
  BY SumsAdd DEF Adds
<1>2. k \in Nat /\ Runs(r, f, k) /\ Runs(s, g, k)
  BY <1>1 DEF Runs
<1>3. \A i \in 0..k : f[i] = g[i]
  BY <1>2, RunsUnique
<1>4. QED
  BY <1>1, <1>2, <1>3

LEMMA SumsGrow ==
  ASSUME NEW s \in Seq(Nat), NEW k \in 0..Len(s)
  PROVE  Sums(s)[k] <= SumOf(s)
<1> DEFINE S == Sums(s)
           T == {i \in Nat : k <= i /\ i <= Len(s) /\ ~(S[k] <= S[i])}
<1>1. /\ \A i \in 0..Len(s) : S[i] \in Nat
      /\ \A i \in 1..Len(s) : S[i] = S[i - 1] + s[i]
      /\ SumOf(s) = S[Len(s)] /\ Len(s) \in Nat
  BY SumsFacts DEF SumOf
<1> HIDE DEF S
<1>2. T = {}
  <2>1. SUFFICES ASSUME T # {} PROVE FALSE
    OBVIOUS
  <2>2. PICK j \in T : \A i \in T : j <= i
    BY <2>1, Least
  <2>3. j # k
    BY <1>1, <2>2
  <2>4. j - 1 \in Nat /\ j - 1 >= k /\ ~(j - 1 \in T)
    BY <2>2, <2>3
  <2>5. S[k] <= S[j - 1]
    BY <2>2, <2>4
  <2>6. S[j] = S[j - 1] + s[j] /\ s[j] \in Nat /\ S[j - 1] \in Nat /\ S[k] \in Nat
    BY <1>1, <2>2, <2>3
  <2>7. QED
    BY <2>2, <2>5, <2>6
<1>3. QED
  BY <1>1, <1>2 DEF S

\* One more element.
LEMMA SumsStep ==
  ASSUME NEW s \in Seq(Nat), NEW n \in 1..Len(s)
  PROVE  \E before \in Nat, length \in Nat :
           /\ Sums(s)[n - 1] = before /\ s[n] = length /\ Sums(s)[n] = before + length
           /\ before + length <= SumOf(s) /\ SumOf(s) \in Nat
<1>1. PICK S : S = Sums(s)
  OBVIOUS
<1>2. n - 1 \in 0..Len(s) /\ n \in 0..Len(s) /\ s[n] \in Nat
  OBVIOUS
<1>3. S[n - 1] \in Nat /\ S[n] = S[n - 1] + s[n] /\ SumOf(s) \in Nat
  BY <1>1, <1>2, SumsFacts
<1>4. S[n] <= SumOf(s)
  BY <1>1, <1>2, SumsGrow
<1>5. QED
  BY <1>1, <1>2, <1>3, <1>4

\* Once one summand is too many, the sum of all is.
LEMMA Exceeds ==
  ASSUME NEW static \in Nat, NEW before \in Nat, NEW length \in Nat, NEW limit \in Nat,
         NEW sum \in Nat, sum = static + before, NEW all \in Nat, before + length <= all,
         length > limit \/ sum > limit \/ length > limit - sum
  PROVE  static + all > limit
OBVIOUS

-----------------------------------------------------------------------------
(* Words and alignment *)

LEMMA Constants ==
  /\ WordMax \in Nat /\ WordMax >= 1
  /\ kThreadgroupMemoryAlignment \in Nat /\ kThreadgroupMemoryAlignment >= 1
  /\ kThreadgroupMemoryAlignment <= WordMax
  /\ \A n \in Size : n \in Nat /\ n <= WordMax
BY ConstantsAssumption DEF Size

LEMMA WordFacts ==
  ASSUME NEW n \in Nat
  PROVE  Word(n) \in Nat /\ Word(n) <= n /\ Word(n) <= WordMax /\ (n <= WordMax => Word(n) = n)
BY Constants DEF Word

LEMMA Division ==
  ASSUME NEW n \in Nat, NEW d \in Nat, d >= 1
  PROVE  /\ n \div d \in Nat /\ n % d \in 0..(d - 1)
         /\ n = (n \div d) * d + (n % d)
         /\ (n \div d) * d \in Nat /\ (n \div d) * d <= n
         /\ d <= n => n \div d >= 1
<1>1. n \div d \in Nat /\ n % d \in 0..(d - 1) /\ n = (n \div d) * d + (n % d)
  OBVIOUS
<1>2. (n \div d) * d \in Nat
  BY <1>1
<1>3. (n \div d) * d <= n
  BY <1>1, <1>2
<1>4. n \div d = 0 => n < d
  BY <1>1
<1>5. QED
  BY <1>1, <1>2, <1>3, <1>4

LEMMA Products ==
  ASSUME NEW a \in Nat, NEW b \in Nat, NEW c \in Nat, a <= b
  PROVE  a * c <= b * c /\ a * c \in Nat /\ c * a = a * c
OBVIOUS

\* The next multiple of the alignment.
Align(n) ==
  ((n + kThreadgroupMemoryAlignment - 1) \div kThreadgroupMemoryAlignment)
    * kThreadgroupMemoryAlignment

LEMMA Multiple ==
  ASSUME NEW a \in Nat, a >= 1, NEW q \in Nat
  PROVE  (q * a) % a = 0
OBVIOUS

LEMMA MultiplesApart ==
  ASSUME NEW a \in Nat, a >= 1, NEW m \in Nat, NEW n \in Nat, m % a = 0, n % a = 0, m < n
  PROVE  m + a <= n
<1>1. PICK p \in Nat : p = m \div a /\ m = p * a
  BY Division
<1>2. PICK q \in Nat : q = n \div a /\ n = q * a
  BY Division
<1>3. p < q
  <2>1. SUFFICES ASSUME q <= p PROVE FALSE
    BY <1>1, <1>2
  <2>2. q * a <= p * a
    BY <2>1, Products
  <2>3. QED
    BY <1>1, <1>2, <2>2
<1>4. (p + 1) * a <= q * a
  BY <1>3, Products
<1>5. (p + 1) * a = p * a + a
  OBVIOUS
<1>6. QED
  BY <1>1, <1>2, <1>4, <1>5

LEMMA AlignFacts ==
  ASSUME NEW n \in Nat
  PROVE  /\ Align(n) \in Nat /\ n <= Align(n) /\ Align(n) < n + kThreadgroupMemoryAlignment
         /\ Align(n) % kThreadgroupMemoryAlignment = 0
<1>1. PICK a \in Nat : a = kThreadgroupMemoryAlignment /\ a >= 1
  BY Constants
<1>2. PICK m \in Nat : m = n + a - 1
  BY <1>1
<1>3. PICK q \in Nat : q = m \div a /\ m % a \in 0..(a - 1) /\ m = q * a + (m % a) /\ q * a \in Nat
  BY <1>1, Division
<1>4. Align(n) = q * a
  BY <1>1, <1>2, <1>3 DEF Align
<1>5. (q * a) % a = 0
  BY <1>1, Multiple
<1>6. n <= q * a /\ q * a < n + a
  BY <1>1, <1>2, <1>3
<1>7. QED
  BY <1>1, <1>3, <1>4, <1>5, <1>6

LEMMA RoundUpIs ==
  ASSUME NEW n \in Nat
  PROVE  RoundUp(n) = Align(n)
<1> DEFINE Fits(m) == m % kThreadgroupMemoryAlignment = 0 /\ m < n + kThreadgroupMemoryAlignment
           S == n..(n + kThreadgroupMemoryAlignment)
<1>1. kThreadgroupMemoryAlignment \in Nat /\ kThreadgroupMemoryAlignment >= 1
  BY Constants
<1>2. Align(n) \in S /\ Fits(Align(n))
  BY <1>1, AlignFacts
<1>3. ASSUME NEW m \in S, Fits(m) PROVE m = Align(n)
  <2>1. PICK b \in Nat : b = Align(n) /\ n <= b /\ b < n + kThreadgroupMemoryAlignment
                         /\ b % kThreadgroupMemoryAlignment = 0
    BY AlignFacts
  <2>2. m \in Nat /\ n <= m
    BY <1>1
  <2>3. ~(m < b)
    BY <1>1, <1>3, <2>1, <2>2, MultiplesApart
  <2>4. ~(b < m)
    BY <1>1, <1>3, <2>1, <2>2, MultiplesApart
  <2>5. QED
    BY <2>1, <2>2, <2>3, <2>4
<1>4. RoundUp(n) = CHOOSE m \in S : Fits(m)
  BY DEF RoundUp
<1> HIDE DEF Fits, S
<1>5. QED
  BY <1>2, <1>3, <1>4

\* Rounding is exact where it does not overflow; where it does, the memory exceeds a word.
LEMMA RoundedFacts ==
  ASSUME NEW n \in Size
  PROVE  /\ RoundUp(n) \in Nat
         /\ Rounds(n)  => Rounded(n) = RoundUp(n)
         /\ ~Rounds(n) => RoundUp(n) > WordMax
<1>1. n \in Nat /\ n <= WordMax
  BY Constants
<1>2. RoundUp(n) = Align(n) /\ Align(n) \in Nat /\ n <= Align(n)
      /\ Align(n) % kThreadgroupMemoryAlignment = 0
  BY <1>1, RoundUpIs, AlignFacts
<1>3. ASSUME Rounds(n) PROVE Rounded(n) = Align(n)
  <2>1. n + kThreadgroupMemoryAlignment - 1 \in Nat /\ n + kThreadgroupMemoryAlignment - 1 <= WordMax
    BY <1>1, <1>3, Constants DEF Rounds
  <2>2. Word(n + kThreadgroupMemoryAlignment - 1) = n + kThreadgroupMemoryAlignment - 1
    BY <2>1, WordFacts
  <2>3. QED
    BY <2>2 DEF Rounded, Align
<1>4. ASSUME ~Rounds(n) PROVE Align(n) > WordMax
  <2>1. n + kThreadgroupMemoryAlignment > WordMax + 1
    BY <1>1, <1>4, Constants DEF Rounds
  <2>2. WordMax + 1 \in Nat /\ (WordMax + 1) % kThreadgroupMemoryAlignment = 0
    BY ConstantsAssumption
  <2>3. PICK b \in Nat : b = Align(n) /\ n <= b /\ b % kThreadgroupMemoryAlignment = 0
    BY <1>2
  <2>4. b < WordMax + 1 => b + kThreadgroupMemoryAlignment <= WordMax + 1
    BY <2>2, <2>3, Constants, MultiplesApart
  <2>5. QED
    BY <1>1, <2>1, <2>3, <2>4, Constants
<1>5. QED
  BY <1>2, <1>3, <1>4

-----------------------------------------------------------------------------
(* Threadgroups *)

LEMMA MaxMin ==
  ASSUME NEW a \in Int, NEW b \in Int
  PROVE  /\ Max({a, b}) = IF a >= b THEN a ELSE b
         /\ Min({a, b}) = IF a <= b THEN a ELSE b
<1>1. Max({a, b}) = IF a >= b THEN a ELSE b
  BY DEF Max
<1>2. Min({a, b}) = IF a <= b THEN a ELSE b
  BY DEF Min
<1>3. QED
  BY <1>1, <1>2

\* The products wrap, but never to let a threadgroup through or to refuse one.
LEMMA ThreadsFacts ==
  ASSUME pipeline \in Pipelines, NEW tg, \A d \in Dims : tg[d] \in Nat \ {0}
  PROVE  TooManyThreads(tg) <=> Volume(tg) > pipeline.maxTotal
<1>1. PICK a \in Nat, b \in Nat, c \in Nat, m \in Nat :
        /\ a = tg[1] /\ b = tg[2] /\ c = tg[3] /\ m = pipeline.maxTotal
        /\ a >= 1 /\ b >= 1 /\ c >= 1 /\ m * m * m <= WordMax
  <2>1. pipeline.maxTotal \in Nat /\ pipeline.maxTotal * pipeline.maxTotal * pipeline.maxTotal <= WordMax
    BY PipelineAssumption, Constants
  <2>2. QED
    BY <2>1 DEF Dims
<1>2. TooManyThreads(tg) <=> a > m \/ b > m \/ c > m \/ Word(Word(a * b) * c) > m
  BY <1>1 DEF TooManyThreads, Dims
<1>3. Volume(tg) = a * b * c /\ a * b \in Nat /\ a * b * c \in Nat
  BY <1>1 DEF Volume
<1>4. a <= a * b /\ b <= a * b /\ a * b <= a * b * c /\ c <= a * b * c
  <2>1. a <= a * b /\ b <= a * b
    BY <1>1, Products
  <2>2. \A x \in Nat : x >= 1 => x <= x * c /\ c <= x * c
    BY <1>1
  <2>3. QED
    BY <1>1, <1>3, <2>1, <2>2
<1>5. Word(a * b) * c <= a * b * c /\ Word(a * b) * c \in Nat
  BY <1>3, WordFacts, Products
<1>6. Word(Word(a * b) * c) <= a * b * c /\ Word(Word(a * b) * c) \in Nat
  BY <1>3, <1>5, WordFacts
<1>7. ASSUME a <= m, b <= m, c <= m
      PROVE  Word(Word(a * b) * c) = a * b * c
  <2>1. a * b <= m * m /\ m * m \in Nat
    <3>1. a * b <= m * b /\ b * m <= m * m /\ m * b = b * m
      BY <1>7, Products
    <3>2. QED
      BY <1>3, <3>1
  <2>2. a * b * c <= m * m * m
    <3>1. a * b * c <= m * m * c /\ c * (m * m) <= m * (m * m)
      BY <1>3, <1>7, <2>1, Products
    <3>2. m * m * c = c * (m * m) /\ m * (m * m) = m * m * m
      BY <2>1
    <3>3. QED
      BY <1>3, <2>1, <3>1, <3>2
  <2>3. a * b * c <= WordMax /\ a * b <= WordMax
    BY <1>1, <1>3, <1>4, <2>1, <2>2, Constants
  <2>4. QED
    BY <1>3, <2>3, WordFacts
<1>8. QED
  BY <1>1, <1>2, <1>3, <1>4, <1>6, <1>7

\* A number of threads along one dimension.
LEMMA Clamped ==
  ASSUME NEW a \in Nat, NEW b \in Nat, NEW x, x = Max({Min({a, b}), 1})
  PROVE  x \in Nat /\ x >= 1 /\ (b >= 1 => x <= b) /\ (b = 0 => x = 1)
<1>1. PICK l \in Nat : l = Min({a, b}) /\ l <= b
  BY MaxMin
<1>2. x = IF l >= 1 THEN l ELSE 1
  BY <1>1, MaxMin
<1>3. QED
  BY <1>1, <1>2

LEMMA DefaultFacts ==
  ASSUME NEW p \in Pipelines, NEW grid \in [Dims -> Size], NEW tg, tg = DefaultThreadgroup(p, grid)
  PROVE  /\ tg[1] \in Nat \ {0} /\ tg[2] \in Nat \ {0} /\ tg[3] \in Nat \ {0}
         /\ p.width <= p.maxTotal /\ 1 <= p.maxTotal => Volume(tg) <= p.maxTotal
<1>1. PICK g1 \in Nat, g2 \in Nat, g3 \in Nat : g1 = grid[1] /\ g2 = grid[2] /\ g3 = grid[3]
  BY Constants DEF Dims
<1>2. p.maxTotal \in Nat /\ p.width \in Nat /\ p.maxTotal <= WordMax /\ p.width <= WordMax
  BY PipelineAssumption, Constants
<1>3. PICK m \in Nat, w \in Nat :
        /\ m = Max({p.maxTotal, 1}) /\ m >= 1 /\ m <= WordMax
        /\ w = Max({p.width, 1}) /\ w >= 1 /\ w <= WordMax
        /\ p.width <= p.maxTotal /\ 1 <= p.maxTotal => m = p.maxTotal /\ w <= m
  BY <1>2, MaxMin, Constants
<1>4. PICK groups \in Nat : groups = (m \div w) * w /\ groups <= m
  BY <1>3, Division
<1>5. CASE g2 <= 1 /\ g3 <= 1
  <2>1. PICK whole \in Nat :
          whole = (IF groups = 0 THEN m ELSE groups) /\ whole >= 1 /\ whole <= m
    BY <1>3, <1>4
  <2>2. PICK x \in Nat : x = Max({Min({g1, whole}), 1}) /\ x >= 1 /\ x <= m
    BY <2>1, Clamped
  <2>3. tg = <<x, 1, 1>>
    BY <1>1, <1>3, <1>4, <1>5, <2>1, <2>2 DEF DefaultThreadgroup
  <2>4. Volume(tg) = x
    BY <2>3 DEF Volume
  <2>5. QED
    BY <1>3, <2>2, <2>3, <2>4
<1>6. CASE ~(g2 <= 1 /\ g3 <= 1)
  <2>1. PICK x \in Nat : x = Max({Min({g1, w}), 1}) /\ x >= 1 /\ x <= w
    <3>1. PICK x : x = Max({Min({g1, w}), 1})
      OBVIOUS
    <3>2. w >= 1
      BY <1>3
    <3>3. x \in Nat /\ x >= 1 /\ x <= w
      BY <3>1, <3>2, Clamped
    <3>4. QED
      BY <3>1, <3>3
  <2>2. PICK rows \in Nat : rows = m \div x /\ rows * x <= m /\ (x <= m => rows >= 1)
    BY <2>1, Division
  <2>3. PICK y \in Nat :
          y = Max({Min({g2, rows}), 1}) /\ y >= 1 /\ (rows >= 1 => y <= rows) /\ (rows = 0 => y = 1)
    BY <2>2, Clamped
  <2>4. PICK plane \in Nat : plane = x * y /\ plane >= 1 /\ plane <= WordMax /\ (x <= m => plane <= m)
    <3>1. x * y \in Nat /\ x * y >= 1
      BY <2>1, <2>3
    <3>2. CASE rows >= 1
      <4>1. y * x <= rows * x /\ x * y = y * x
        BY <2>3, <3>2, Products
      <4>2. x * y <= m
        BY <2>2, <3>1, <4>1
      <4>3. QED
        BY <1>3, <3>1, <4>2, Constants
    <3>3. CASE rows = 0
      <4>1. y = 1 /\ ~(x <= m)
        BY <2>2, <2>3, <3>3
      <4>2. x * y = x /\ x <= WordMax
        BY <1>3, <2>1, <4>1, Constants
      <4>3. QED
        BY <3>1, <4>1, <4>2
    <3>4. QED
      BY <2>2, <3>2, <3>3
  <2>5. Word(plane) = plane
    BY <2>4, WordFacts
  <2>6. PICK layers \in Nat :
          layers = m \div plane /\ layers * plane <= m /\ (plane <= m => layers >= 1)
    BY <2>4, Division
  <2>7. PICK z \in Nat : z = Max({Min({g3, layers}), 1}) /\ z >= 1 /\ (layers >= 1 => z <= layers)
    BY <2>6, Clamped
  <2>8. tg = <<x, y, z>>
    BY <1>1, <1>3, <1>6, <2>1, <2>2, <2>3, <2>4, <2>5, <2>6, <2>7 DEF DefaultThreadgroup
  <2>9. Volume(tg) = plane * z /\ (x <= m => plane * z <= m)
    <3>1. Volume(tg) = plane * z
      BY <2>4, <2>8 DEF Volume
    <3>2. z <= layers => z * plane <= layers * plane /\ plane * z = z * plane /\ z * plane \in Nat
      BY Products
    <3>3. QED
      BY <2>4, <2>6, <2>7, <3>1, <3>2
  <2>10. QED
    BY <1>3, <2>1, <2>3, <2>7, <2>8, <2>9
<1>7. QED
  BY <1>5, <1>6

-----------------------------------------------------------------------------
(* The inputs do not change *)

LEMMA LaunchTypes ==
  ASSUME Inputs
  PROVE  /\ Grid \in [Dims -> Size]
         /\ \A d \in Dims : Threadgroup[d] \in Nat
         /\ launch.memory \in Seq(Size) /\ Len(launch.memory) \in Nat
         /\ pipeline.static \in Nat /\ pipeline.maxTotal \in Nat
         /\ budget \in Nat /\ budget <= WordMax
<1>1. \A s \in Seq(Size) : ToDim3(s) \in [Dims -> Size]
  <2> SUFFICES ASSUME NEW s \in Seq(Size), NEW d \in Dims
               PROVE  (IF d <= Len(s) THEN s[d] ELSE 1) \in Size
    BY DEF ToDim3
  <2>1. 1 \in Size
    BY Constants DEF Size
  <2>2. d \in Nat /\ d >= 1
    BY DEF Dims
  <2>3. d <= Len(s) => s[d] \in Size
    BY <2>2
  <2>4. QED
    BY <2>1, <2>3
<1>2. launch.grid \in Seq(Size) /\ (launch.tg # None => launch.tg \in Seq(Size)) /\ launch.memory \in Seq(Size)
  <2>1. PICK l \in Launches : l = launch
    BY DEF Inputs
  <2>2. l.grid \in Seq(Size) /\ (l.tg # None => l.tg \in Seq(Size)) /\ l.memory \in Seq(Size)
    BY LaunchAssumption, Zenon
  <2>3. QED
    BY <2>1, <2>2
<1>3. Grid \in [Dims -> Size]
  BY <1>1, <1>2 DEF Grid
<1>4. ASSUME NEW d \in Dims PROVE Threadgroup[d] \in Nat
  <2>1. CASE launch.tg = None
    <3>1. PICK p \in Pipelines, grid \in [Dims -> Size] : p = pipeline /\ grid = Grid
      BY <1>3 DEF Inputs
    <3>2. PICK tg : tg = Threadgroup /\ tg = DefaultThreadgroup(p, grid)
      BY <2>1, <3>1 DEF Threadgroup
    <3>3. tg[1] \in Nat /\ tg[2] \in Nat /\ tg[3] \in Nat
      BY <3>1, <3>2, DefaultFacts
    <3>4. QED
      BY <3>2, <3>3 DEF Dims
  <2>2. CASE launch.tg # None
    <3>1. Threadgroup \in [Dims -> Size]
      BY <1>1, <1>2, <2>2 DEF Threadgroup
    <3>2. QED
      BY <3>1, Constants
  <2>3. QED
    BY <2>1, <2>2
<1>5. pipeline.static \in Nat /\ pipeline.maxTotal \in Nat /\ budget \in Nat /\ budget <= WordMax
  BY PipelineAssumption, ConstantsAssumption, Constants DEF Inputs
<1>6. QED
  BY <1>2, <1>3, <1>4, <1>5

\* A launch that prepare() lets through has no None among its arguments.
LEMMA ArgumentTypes ==
  ASSUME Inputs, ~Malformed
  PROVE  /\ Len(launch.buffers) \in Nat /\ Len(launch.scalars) \in Nat /\ Bound \in Nat
         /\ \A i \in 1..Len(launch.buffers) :
              launch.buffers[i].offset \in Nat /\ launch.buffers[i].size \in Nat
         /\ \A i \in 1..Len(launch.scalars) : launch.scalars[i] \in Nat
         /\ launch.indirect # None => launch.indirect \in Nat
         /\ launch.indirect_offset \in Nat
         /\ \A b \in pipeline.bindings : b.index \in Nat /\ b.size \in Nat
         /\ pipeline.arrays \subseteq Nat
<1>1. PICK l \in Launches : l = launch
  BY DEF Inputs
<1>2. /\ l.buffers \in Seq([size : Size, offset : Size] \cup {None})
      /\ l.scalars \in Seq(Size \cup {None})
      /\ l.indirect \in Size \cup {None} /\ l.indirect_offset \in Size
  BY LaunchAssumption, Zenon
<1>3. Len(launch.buffers) \in Nat /\ Len(launch.scalars) \in Nat
  BY <1>1, <1>2
<1>4. ASSUME NEW i \in 1..Len(launch.buffers)
      PROVE  launch.buffers[i].offset \in Nat /\ launch.buffers[i].size \in Nat
  <2>1. launch.buffers[i] # None
    BY DEF Malformed
  <2>2. launch.buffers[i] \in [size : Size, offset : Size] \cup {None}
    BY <1>1, <1>2
  <2>3. QED
    BY <2>1, <2>2, Constants
<1>5. ASSUME NEW i \in 1..Len(launch.scalars) PROVE launch.scalars[i] \in Nat
  <2>1. launch.scalars[i] # None
    BY DEF Malformed
  <2>2. launch.scalars[i] \in Size \cup {None}
    BY <1>1, <1>2
  <2>3. QED
    BY <2>1, <2>2, Constants
<1>6. /\ launch.indirect # None => launch.indirect \in Nat
      /\ launch.indirect_offset \in Nat
  BY <1>1, <1>2, Constants
<1>7. pipeline.bindings \subseteq [index : Size, size : Size] /\ pipeline.arrays \subseteq Size
  BY PipelineAssumption DEF Inputs
<1>8. \A b \in pipeline.bindings : b.index \in Nat /\ b.size \in Nat
  BY <1>7, Constants
<1>9. Bound \in Nat
  <2>1. PICK b \in Nat, s \in Nat : b = Len(launch.buffers) /\ s = Len(launch.scalars)
    BY <1>3
  <2>2. Bound = b + s
    BY <2>1 DEF Bound
  <2>3. QED
    BY <2>2
<1>10. pipeline.arrays \subseteq Nat
  BY <1>7, Constants
<1>11. QED
  BY <1>3, <1>4, <1>5, <1>6, <1>8, <1>9, <1>10

LEMMA LengthsType ==
  ASSUME Inputs
  PROVE  Lengths \in Seq(Nat) /\ Len(Lengths) = Len(launch.memory)
<1>1. ASSUME NEW i \in 1..Len(launch.memory) PROVE Rounded(launch.memory[i]) \in Nat
  <2>1. launch.memory[i] \in Nat
    BY LaunchTypes, Constants
  <2>2. PICK w \in Nat : w = Word(launch.memory[i] + kThreadgroupMemoryAlignment - 1)
    <3>1. launch.memory[i] + kThreadgroupMemoryAlignment - 1 \in Nat
      BY <2>1, Constants
    <3>2. QED
      BY <3>1, WordFacts
  <2>3. (w \div kThreadgroupMemoryAlignment) * kThreadgroupMemoryAlignment \in Nat
    BY Constants, Division
  <2>4. QED
    BY <2>2, <2>3 DEF Rounded
<1>2. Len(launch.memory) \in Nat
  BY LaunchTypes
<1>3. QED
  BY <1>1, <1>2 DEF Lengths

LEMMA SameInput ==
  ASSUME UNCHANGED input
  PROVE  /\ pipeline' = pipeline /\ launch' = launch /\ nonUniform' = nonUniform /\ budget' = budget
         /\ Grid' = Grid /\ Threadgroup' = Threadgroup /\ Bound' = Bound
         /\ Malformed' = Malformed /\ Lengths' = Lengths /\ Encoding' = Encoding
         /\ TooManyThreads(Threadgroup)' = TooManyThreads(Threadgroup)
         /\ \A b : Narrow(b)' = Narrow(b)
<1>1. pipeline' = pipeline /\ launch' = launch /\ nonUniform' = nonUniform /\ budget' = budget
  BY DEF input
<1>2. Grid' = Grid /\ Bound' = Bound /\ Lengths' = Lengths
  BY <1>1 DEF Grid, Bound, Lengths
<1>3. Threadgroup' = Threadgroup
  BY <1>1, <1>2 DEF Threadgroup
<1>4. Malformed' = Malformed
  BY <1>1, <1>2 DEF Malformed
<1>5. \A d : Threads(d)' = Threads(d)
  BY <1>1, <1>2, <1>3 DEF Threads
<1>6. Encoding' = Encoding
  BY <1>1, <1>2, <1>3, <1>5 DEF Encoding, Table
<1>7. TooManyThreads(Threadgroup)' = TooManyThreads(Threadgroup)
  BY <1>1, <1>3 DEF TooManyThreads
<1>8. \A b : Narrow(b)' = Narrow(b)
  BY <1>1 DEF Narrow, ScalarAt
<1>9. QED
  BY <1>1, <1>2, <1>3, <1>4, <1>6, <1>7, <1>8

\* A step from one stage to the next, or to the end.
LEMMA Moves ==
  ASSUME IInv, NEW here, NEW there \in Stages \ {"memory", "encoded"}, stage = here,
         stage' \in {there, "rejected"}, UNCHANGED <<input, total, next, encoded>>,
         here \in AfterMemory \/ there \notin AfterMemory,
         here \in Stages \ (AfterArrays \cup {"rejected"}) \/ there \in AfterMemory
  PROVE  Inputs' /\ Summed' /\ Encoded'
<1>1. Inputs' /\ Encoded'
  BY SameInput DEF IInv, Inputs, Encoded, Stages
<1>2. stage' # "memory" /\ (stage' \in AfterMemory => stage \in AfterMemory)
  BY DEF AfterMemory, AfterScalars, AfterWidths, AfterOffsets, Ends
<1>3. stage' \in Stages \ (AfterArrays \cup {"rejected"}) => stage \in Stages \ (AfterArrays \cup {"rejected"})
  BY DEF AfterArrays
<1>4. Summed'
  BY <1>2, <1>3, SameInput DEF IInv, Summed
<1>5. QED
  BY <1>1, <1>4

LEMMA StillBlamed ==
  ASSUME IInv, UNCHANGED input,
         reason' = reason \/ reason' \notin {"memory", "indirect", "threads", "threadgroup"}
  PROVE  Blamed'
<1>1. NoFalseAlarm'
  BY SameInput DEF IInv, Blamed, NoFalseAlarm, SumOf
<1>2. QED
  BY <1>1, SameInput DEF IInv, Blamed

-----------------------------------------------------------------------------
(* The checks *)

USE DEF Ends, AfterOffsets, AfterWidths, AfterScalars, AfterMemory, AfterArrays, AfterBindings,
        AfterCount, AfterThreads, AfterThreadgroup, AfterGrid, AfterPrepare, Stages

LEMMA InitInv == Init => IInv
  BY DEF Init, IInv, Inputs, Passed, Summed, Blamed, NoFalseAlarm, Encoded

LEMMA PrepareInv == ASSUME IInv, Prepare PROVE IInv'
<1>1. /\ stage = "prepare" /\ UNCHANGED <<input, total, next, encoded>>
      /\ stage' = (IF Malformed THEN "rejected" ELSE "grid")
      /\ reason' \in {"prepare", "none"}
  BY DEF Prepare
<1>2. Inputs' /\ Summed' /\ Encoded'
  BY <1>1, Moves
<1>3. Passed'
  BY <1>1, SameInput DEF IInv, Passed
<1>4. Blamed'
  BY <1>1, StillBlamed
<1>5. QED
  BY <1>2, <1>3, <1>4 DEF IInv

LEMMA GridInv == ASSUME IInv, CheckGrid PROVE IInv'
<1>1. /\ stage = "grid" /\ UNCHANGED <<input, total, next, encoded>>
      /\ \/ stage' = "rejected" /\ reason' = "grid"
         \/ stage' = "threadgroup" /\ reason' = reason /\ ~(launch.indirect = None /\ \E d \in Dims : Grid[d] = 0)
  BY DEF CheckGrid, Check
<1>2. Inputs' /\ Summed' /\ Encoded'
  BY <1>1, Moves
<1>3. Passed'
  BY <1>1, SameInput DEF IInv, Passed
<1>4. Blamed'
  BY <1>1, StillBlamed
<1>5. QED
  BY <1>2, <1>3, <1>4 DEF IInv

LEMMA CountInv == ASSUME IInv, CheckCount PROVE IInv'
<1>1. /\ stage = "count" /\ UNCHANGED <<input, total, next, encoded>>
      /\ \/ stage' = "rejected" /\ reason' = "count"
         \/ stage' = "bindings" /\ reason' = reason /\ ~(Bound > MaxBindings)
  BY DEF CheckCount, Check
<1>2. Inputs' /\ Summed' /\ Encoded'
  BY <1>1, Moves
<1>3. Passed'
  <2>1. Bound \in Nat /\ MaxBindings \in Nat
    BY <1>1, ArgumentTypes, ConstantsAssumption DEF IInv, Passed
  <2>2. QED
    BY <1>1, <2>1, SameInput DEF IInv, Passed
<1>4. Blamed'
  BY <1>1, StillBlamed
<1>5. QED
  BY <1>2, <1>3, <1>4 DEF IInv

LEMMA BindingsInv == ASSUME IInv, CheckBindings PROVE IInv'
<1>1. /\ stage = "bindings" /\ UNCHANGED <<input, total, next, encoded>>
      /\ \/ stage' = "rejected" /\ reason' = "bindings"
         \/ stage' = "arrays" /\ reason' = reason /\ ~(\E b \in pipeline.bindings : Uncovered(b))
  BY DEF CheckBindings, Check
<1>2. Inputs' /\ Summed' /\ Encoded'
  BY <1>1, Moves
<1>3. Passed'
  <2>1. Bound \in Nat /\ \A b \in pipeline.bindings : b.index \in Nat
    BY <1>1, ArgumentTypes DEF IInv, Passed
  <2>2. QED
    BY <1>1, <2>1, SameInput DEF IInv, Passed, Uncovered
<1>4. Blamed'
  BY <1>1, StillBlamed
<1>5. QED
  BY <1>2, <1>3, <1>4 DEF IInv

LEMMA ScalarsInv == ASSUME IInv, CheckScalars PROVE IInv'
<1>1. /\ stage = "scalars" /\ UNCHANGED <<input, total, next, encoded>>
      /\ \/ stage' = "rejected" /\ reason' = "scalars"
         \/ stage' = "widths" /\ reason' = reason /\ ~(\E i \in 1..Len(launch.scalars) : launch.scalars[i] > kMaxInlineScalarBytes)
  BY DEF CheckScalars, Check
<1>2. Inputs' /\ Summed' /\ Encoded'
  BY <1>1, Moves
<1>3. Passed'
  <2>1. kMaxInlineScalarBytes \in Nat /\ \A i \in 1..Len(launch.scalars) : launch.scalars[i] \in Nat
    BY <1>1, ArgumentTypes, ConstantsAssumption DEF IInv, Passed
  <2>2. QED
    BY <1>1, <2>1, SameInput DEF IInv, Passed
<1>4. Blamed'
  BY <1>1, StillBlamed
<1>5. QED
  BY <1>2, <1>3, <1>4 DEF IInv

LEMMA WidthsInv == ASSUME IInv, CheckWidths PROVE IInv'
<1>1. /\ stage = "widths" /\ UNCHANGED <<input, total, next, encoded>>
      /\ \/ stage' = "rejected" /\ reason' = "widths"
         \/ stage' = "offsets" /\ reason' = reason /\ ~(\E b \in pipeline.bindings : b.index >= Len(launch.buffers) /\ b.size # 0 /\ Narrow(b))
  BY DEF CheckWidths, Check
<1>2. Inputs' /\ Summed' /\ Encoded'
  BY <1>1, Moves
<1>3. Passed'
  BY <1>1, SameInput DEF IInv, Passed
<1>4. Blamed'
  BY <1>1, StillBlamed
<1>5. QED
  BY <1>2, <1>3, <1>4 DEF IInv

LEMMA UniformInv == ASSUME IInv, CheckUniform PROVE IInv'
<1>1. /\ stage = "uniform" /\ UNCHANGED <<input, total, next, encoded>>
      /\ \/ stage' = "rejected" /\ reason' = "uniform"
         \/ stage' = "accepted" /\ reason' = reason /\ ~(~nonUniform /\ \E d \in Dims : Grid[d] % Threadgroup[d] # 0)
  BY DEF CheckUniform, Check
<1>2. Inputs' /\ Summed' /\ Encoded'
  BY <1>1, Moves
<1>3. Passed'
  BY <1>1, SameInput DEF IInv, Passed
<1>4. Blamed'
  BY <1>1, StillBlamed
<1>5. QED
  BY <1>2, <1>3, <1>4 DEF IInv

LEMMA ThreadgroupInv == ASSUME IInv, CheckThreadgroup PROVE IInv'
<1>1. /\ stage = "threadgroup" /\ UNCHANGED <<input, total, next, encoded>>
      /\ \/ stage' = "rejected" /\ reason' = "threadgroup" /\ \E d \in Dims : Threadgroup[d] = 0
         \/ stage' = "threads" /\ reason' = reason /\ \A d \in Dims : Threadgroup[d] # 0
  BY DEF CheckThreadgroup, Check
<1>2. Inputs' /\ Summed' /\ Encoded'
  BY <1>1, Moves
<1>3. Passed'
  BY <1>1, SameInput DEF IInv, Passed
<1>4. NoFalseAlarm'
  BY <1>1, SameInput DEF IInv, Blamed, NoFalseAlarm, SumOf
<1>5. Blamed'
  BY <1>1, <1>4, SameInput DEF IInv, Blamed
<1>6. QED
  BY <1>2, <1>3, <1>5 DEF IInv

LEMMA ThreadsInv == ASSUME IInv, CheckThreads PROVE IInv'
<1>1. /\ stage = "threads" /\ UNCHANGED <<input, total, next, encoded>>
      /\ \/ stage' = "rejected" /\ reason' = "threads" /\ TooManyThreads(Threadgroup)
         \/ stage' = "count" /\ reason' = reason /\ ~TooManyThreads(Threadgroup)
  BY DEF CheckThreads, Check
<1>2. Inputs' /\ Summed' /\ Encoded'
  BY <1>1, Moves
<1>3. Passed'
  BY <1>1, SameInput DEF IInv, Passed
<1>4. TooManyThreads(Threadgroup) => Volume(Threadgroup) > pipeline.maxTotal
  <2>1. \A d \in Dims : Threadgroup[d] \in Nat \ {0}
    BY <1>1, LaunchTypes DEF IInv, Passed
  <2>2. PICK tg : tg = Threadgroup
    OBVIOUS
  <2>3. QED
    BY <2>1, <2>2, ThreadsFacts DEF IInv, Inputs
<1>5. NoFalseAlarm'
  BY <1>1, <1>4, SameInput DEF IInv, Blamed, NoFalseAlarm, SumOf, Volume
<1>6. Blamed'
  BY <1>1, <1>5, SameInput DEF IInv, Blamed
<1>7. QED
  BY <1>2, <1>3, <1>6 DEF IInv

LEMMA OffsetsInv == ASSUME IInv, CheckOffsets PROVE IInv'
<1>1. /\ stage = "offsets" /\ UNCHANGED <<input, total, next, encoded>>
      /\ \/ stage' = "rejected" /\ reason' = "offsets"
         \/ stage' = "uniform" /\ reason' = reason /\ launch.indirect = None
         \/ stage' = "indirect" /\ reason' = reason /\ launch.indirect # None
      /\ stage' # "rejected" => \A i \in 1..Len(launch.buffers) : ~OutOfBounds(launch.buffers[i])
  BY DEF CheckOffsets, Check
<1>2. Inputs' /\ Summed' /\ Encoded'
  <2>1. stage' = "uniform" \/ stage' = "rejected" => Inputs' /\ Summed' /\ Encoded'
    BY <1>1, Moves
  <2>2. stage' = "indirect" => Inputs' /\ Summed' /\ Encoded'
    BY <1>1, Moves
  <2>3. QED
    BY <1>1, <2>1, <2>2
<1>3. Passed'
  BY <1>1, SameInput DEF IInv, Passed
<1>4. Blamed'
  BY <1>1, StillBlamed
<1>5. QED
  BY <1>2, <1>3, <1>4 DEF IInv

LEMMA IndirectInv == ASSUME IInv, CheckIndirect PROVE IInv'
<1>1. /\ stage = "indirect" /\ UNCHANGED <<input, total, next, encoded>>
      /\ \/ /\ stage' = "rejected" /\ reason' = "indirect"
            /\ Misplaced(launch.indirect_offset, launch.indirect)
         \/ /\ stage' = "accepted" /\ reason' = reason
            /\ ~Misplaced(launch.indirect_offset, launch.indirect)
  BY DEF CheckIndirect, Check
<1>2. Inputs' /\ Summed' /\ Encoded'
  BY <1>1, Moves
<1>3. Passed'
  BY <1>1, SameInput DEF IInv, Passed
<1>4. Misplaced(launch.indirect_offset, launch.indirect) =>
        launch.indirect_offset % 4 # 0 \/ launch.indirect_offset + 12 > launch.indirect
  <2>1. launch.indirect \in Nat /\ launch.indirect_offset \in Nat
    BY <1>1, ArgumentTypes DEF IInv, Passed
  <2>2. QED
    BY <2>1 DEF Misplaced, kIndirectArgumentsSize
<1>5. NoFalseAlarm'
  BY <1>1, <1>4, SameInput DEF IInv, Blamed, NoFalseAlarm, SumOf
<1>6. Blamed'
  BY <1>1, <1>5, SameInput DEF IInv, Blamed
<1>7. QED
  BY <1>2, <1>3, <1>6 DEF IInv

LEMMA EncodeInv == ASSUME IInv, Encode PROVE IInv'
<1>1. /\ stage = "accepted" /\ stage' = "encoded" /\ encoded' = Encoding
      /\ UNCHANGED <<input, total, next, reason>>
  BY DEF Encode
<1>2. Inputs' /\ Encoded'
  BY <1>1, SameInput DEF IInv, Inputs, Encoded
<1>3. Passed'
  BY <1>1, SameInput DEF IInv, Passed
<1>4. Summed'
  BY <1>1, SameInput DEF IInv, Summed
<1>5. Blamed'
  BY <1>1, StillBlamed
<1>6. QED
  BY <1>2, <1>3, <1>4, <1>5 DEF IInv

LEMMA ArraysInv == ASSUME IInv, CheckArrays PROVE IInv'
<1>1. /\ stage = "arrays" /\ UNCHANGED <<input, next, encoded>> /\ total' = pipeline.static
      /\ \/ stage' = "rejected" /\ reason' = "arrays"
         \/ /\ stage' = "memory" /\ reason' = reason
            /\ ~\E i \in pipeline.arrays : i >= Len(launch.memory)
  BY DEF CheckArrays
<1>2. Inputs' /\ Encoded'
  BY <1>1, SameInput DEF IInv, Inputs, Encoded
<1>3. Passed'
  <2>1. pipeline.arrays \subseteq Nat /\ Len(launch.memory) \in Nat
    BY <1>1, ArgumentTypes, LaunchTypes DEF IInv, Passed
  <2>2. QED
    BY <1>1, <2>1, SameInput DEF IInv, Passed
<1>4. Summed'
  <2>1. Len(launch.memory) \in Nat /\ pipeline.static \in Nat /\ Sums(Lengths)[0] = 0
    BY LaunchTypes, LengthsType, SumsFacts DEF IInv
  <2>2. next = 1
    BY <1>1 DEF IInv, Summed
  <2>3. (pipeline.static + Sums(Lengths)[0])' = pipeline.static
    BY <1>1, <2>1, SameInput
  <2>4. QED
    BY <1>1, <2>1, <2>2, <2>3, SameInput DEF Summed
<1>5. Blamed'
  BY <1>1, StillBlamed
<1>6. QED
  BY <1>2, <1>3, <1>4, <1>5 DEF IInv

\* What the sum would be in the integers, of any length.
RoundedUp == [i \in 1..Len(launch.memory) |-> RoundUp(launch.memory[i])]

\* So far the sum has not wrapped.
LEMMA SoFar ==
  ASSUME IInv, stage = "memory"
  PROVE  /\ RoundedUp \in Seq(Nat) /\ Len(RoundedUp) = Len(launch.memory)
         /\ next - 1 \in 0..Len(launch.memory) /\ next \in Nat /\ total \in Nat
         /\ total = pipeline.static + Sums(RoundedUp)[next - 1]
<1>1. Inputs /\ Len(launch.memory) \in Nat
  BY LaunchTypes DEF IInv
<1>2. \A i \in 1..Len(launch.memory) : launch.memory[i] \in Size
  BY <1>1, LaunchTypes
<1>3. RoundedUp \in Seq(Nat) /\ Len(RoundedUp) = Len(launch.memory)
  BY <1>1, <1>2, RoundedFacts DEF RoundedUp
<1>4. next - 1 \in 0..Len(launch.memory) /\ next \in Nat
  BY <1>1 DEF IInv, Summed
<1>5. PICK k \in 0..Len(launch.memory) : k = next - 1
  BY <1>4
<1>6. ASSUME NEW i \in 1..k PROVE Lengths[i] = RoundedUp[i]
  <2>1. Rounds(launch.memory[i]) /\ i \in 1..Len(launch.memory)
    BY <1>1, <1>5 DEF IInv, Summed
  <2>2. Rounded(launch.memory[i]) = RoundUp(launch.memory[i])
    BY <1>2, <2>1, RoundedFacts
  <2>3. QED
    BY <2>1, <2>2 DEF Lengths, RoundedUp
<1>7. Lengths \in Seq(Nat) /\ Len(Lengths) = Len(launch.memory)
  BY <1>1, LengthsType
<1>8. PICK r \in Seq(Nat), s \in Seq(Nat) : r = Lengths /\ s = RoundedUp
  BY <1>3, <1>7
<1>9. Sums(r)[k] = Sums(s)[k]
  BY <1>3, <1>6, <1>7, <1>8, SumsAgree
<1>10. Sums(s)[k] \in Nat
  BY <1>3, <1>8, SumsFacts
<1>11. total = pipeline.static + Sums(r)[k]
  BY <1>5, <1>8 DEF IInv, Summed
<1>12. pipeline.static \in Nat
  BY <1>1, LaunchTypes
<1>13. QED
  BY <1>3, <1>4, <1>5, <1>8, <1>9, <1>10, <1>11, <1>12

LEMMA MemoryFaults ==
  ASSUME IInv, stage = "memory", next <= Len(launch.memory),
         ~Rounds(launch.memory[next]) \/ Overruns(Rounded(launch.memory[next]))
  PROVE  pipeline.static + SumOf(RoundedUp) > budget
<1>1. PICK s \in Seq(Nat) : s = RoundedUp
  BY SoFar
<1>2. PICK n \in 1..Len(s) : n = next /\ n <= Len(launch.memory)
  BY <1>1, SoFar
<1>3. PICK m \in Size : m = launch.memory[n]
  BY <1>1, <1>2, SoFar, LaunchTypes DEF IInv
<1>4. PICK before \in Nat, rounded \in Nat :
        /\ Sums(s)[n - 1] = before /\ s[n] = rounded /\ Sums(s)[n] = before + rounded
        /\ before + rounded <= SumOf(s) /\ SumOf(s) \in Nat
  BY SumsStep
<1>5. RoundUp(m) = rounded
  BY <1>1, <1>2, <1>3, <1>4 DEF RoundedUp
<1>6. /\ pipeline.static \in Nat /\ budget \in Nat /\ budget <= WordMax
      /\ total = pipeline.static + before
  BY <1>1, <1>2, <1>4, SoFar, LaunchTypes DEF IInv
<1>7. RoundUp(m) > WordMax \/ total > budget \/ RoundUp(m) > budget - total
  BY <1>2, <1>3, RoundedFacts DEF Overruns
<1>8. PICK static \in Nat, limit \in Nat, sum \in Nat, all \in Nat :
        /\ static = pipeline.static /\ limit = budget /\ sum = total /\ all = SumOf(s)
        /\ sum = static + before /\ before + rounded <= all /\ limit <= WordMax
  BY <1>4, <1>6
<1>9. rounded > limit \/ sum > limit \/ rounded > limit - sum
  BY <1>5, <1>7, <1>8, Constants
<1>10. static + all > limit
  BY <1>8, <1>9, Exceeds
<1>11. QED
  BY <1>1, <1>8, <1>10

LEMMA MemoryInv == ASSUME IInv, CheckMemory PROVE IInv'
<1> DEFINE length == launch.memory[next]
           fault  == ~Rounds(length) \/ Overruns(Rounded(length))
<1>1. /\ stage = "memory" /\ next <= Len(launch.memory) /\ next' = next + 1
      /\ UNCHANGED <<input, encoded>>
      /\ \/ fault /\ stage' = "rejected" /\ reason' = "memory" /\ total' = total
         \/ /\ ~fault /\ stage' = "memory" /\ reason' = reason
            /\ total' = Word(total + Rounded(length))
  BY DEF CheckMemory
<1>2. Inputs' /\ Encoded'
  BY <1>1, SameInput DEF IInv, Inputs, Encoded
<1>3. Passed'
  BY <1>1, SameInput DEF IInv, Passed
<1>4. CASE fault
  <2>1. pipeline.static + SumOf(RoundedUp) > budget
    BY <1>1, <1>4, MemoryFaults
  <2>2. NoFalseAlarm'
    BY <1>1, <1>4, <2>1, SameInput DEF NoFalseAlarm, RoundedUp, SumOf
  <2>3. Blamed'
    BY <1>1, <1>4, <2>2 DEF Blamed
  <2>4. Summed'
    BY <1>1, <1>4 DEF Summed
  <2>5. QED
    BY <1>2, <1>3, <2>3, <2>4 DEF IInv
<1>5. CASE ~fault
  <2>1. PICK s \in Seq(Nat) : s = Lengths /\ Len(s) = Len(launch.memory)
    BY LengthsType DEF IInv
  <2>2. PICK n \in 1..Len(s) : n = next
    BY <1>1, <2>1, SoFar
  <2>3. PICK before \in Nat, rounded \in Nat :
          /\ Sums(s)[n - 1] = before /\ s[n] = rounded /\ Sums(s)[n] = before + rounded
          /\ before + rounded <= SumOf(s) /\ SumOf(s) \in Nat
    BY SumsStep
  <2>4. rounded = Rounded(length)
    BY <2>1, <2>2, <2>3 DEF Lengths
  <2>5. total = pipeline.static + before
    BY <1>1, <2>1, <2>2, <2>3 DEF IInv, Summed
  <2>6. pipeline.static \in Nat /\ budget \in Nat /\ budget <= WordMax
    BY LaunchTypes DEF IInv
  <2>7. ~(total > budget \/ rounded > budget - total)
    BY <1>5, <2>4 DEF Overruns
  <2>8. PICK sum \in Nat :
          /\ sum = total + rounded /\ sum = pipeline.static + (before + rounded)
          /\ sum <= budget /\ sum <= WordMax
    <3>1. PICK static \in Nat, limit \in Nat, so \in Nat :
            static = pipeline.static /\ limit = budget /\ so = total /\ so = static + before
      BY <2>5, <2>6
    <3>2. ~(so > limit \/ rounded > limit - so)
      BY <2>7, <3>1
    <3>3. PICK sum \in Nat : sum = so + rounded /\ sum = static + (before + rounded)
      <4>1. so = static + before
        BY <3>1
      <4>2. so + rounded = static + (before + rounded) /\ so + rounded \in Nat
        BY <4>1
      <4>3. QED
        BY <4>2
    <3>4. limit <= WordMax /\ WordMax \in Nat
      BY <2>6, <3>1, Constants
    <3>5. sum <= limit
      BY <3>2, <3>3
    <3>6. sum <= WordMax
      BY <3>4, <3>5
    <3>7. QED
      BY <3>1, <3>3, <3>5, <3>6
  <2>9. total' = sum
    BY <1>1, <1>5, <2>4, <2>8, WordFacts
  <2>10. (Sums(Lengths)[next - 1])' = before + rounded
    <3>1. next' - 1 = n
      BY <1>1, <2>2
    <3>2. Lengths' = s
      BY <1>1, <2>1, SameInput
    <3>3. QED
      BY <2>3, <3>1, <3>2
  <2>11. \A i \in 1..(next' - 1) : Rounds(launch.memory[i])
    <3>1. \A i \in 1..(n - 1) : Rounds(launch.memory[i])
      BY <1>1, <2>2 DEF IInv, Summed
    <3>2. Rounds(launch.memory[n])
      BY <1>5, <2>2
    <3>3. next' - 1 = n
      BY <1>1, <2>2
    <3>4. QED
      BY <3>1, <3>2, <3>3
  <2>12. next' \in 1..(Len(launch.memory) + 1)
    BY <1>1, <2>1, <2>2
  <2>13. stage' = "memory" /\ ~(stage' \in Stages \ (AfterArrays \cup {"rejected"})) /\ stage' \notin AfterMemory
    BY <1>1, <1>5
  <2>14. Summed'
    BY <2>8, <2>9, <2>10, <2>11, <2>12, <2>13, <1>1, SameInput DEF Summed
  <2>15. Blamed'
    BY <1>1, <1>5, StillBlamed
  <2>16. QED
    BY <1>2, <1>3, <2>14, <2>15 DEF IInv
<1>6. QED
  BY <1>4, <1>5

LEMMA BudgetInv == ASSUME IInv, CheckBudget PROVE IInv'
<1>1. /\ stage = "memory" /\ next > Len(launch.memory)
      /\ UNCHANGED <<input, total, next, encoded>>
      /\ \/ stage' = "rejected" /\ reason' = "memory" /\ total > budget
         \/ stage' = "scalars" /\ reason' = reason /\ ~(total > budget)
  BY DEF CheckBudget, Check
<1>2. Inputs' /\ Encoded'
  BY <1>1, SameInput DEF IInv, Inputs, Encoded
<1>3. Passed'
  BY <1>1, SameInput DEF IInv, Passed
<1>4. next - 1 = Len(launch.memory) /\ Len(launch.memory) \in Nat
  BY <1>1, SoFar, LaunchTypes DEF IInv
<1>5. total = pipeline.static + SumOf(RoundedUp)
  BY <1>1, <1>4, SoFar DEF SumOf
<1>6. total = pipeline.static + SumOf(Lengths)
  BY <1>1, <1>4, LengthsType DEF IInv, Summed, SumOf
<1>7. NoFalseAlarm'
  <2>1. NoFalseAlarm
    BY DEF IInv, Blamed
  <2>2. reason' = "memory" => pipeline.static + SumOf(RoundedUp) > budget
    BY <1>1, <1>5, <2>1 DEF NoFalseAlarm, RoundedUp
  <2>3. QED
    BY <1>1, <2>1, <2>2, SameInput DEF NoFalseAlarm, RoundedUp, SumOf
<1>8. Blamed'
  BY <1>1, <1>7, SameInput DEF IInv, Blamed
<1>9. Summed'
  <2>1. budget \in Nat /\ total \in Nat
    BY <1>1, LaunchTypes, SoFar DEF IInv
  <2>2. ~(total > budget) => pipeline.static + SumOf(Lengths) <= budget
    BY <1>6, <2>1
  <2>3. (pipeline.static + SumOf(Lengths))' = pipeline.static + SumOf(Lengths)
    BY <1>1, SameInput DEF SumOf
  <2>4. QED
    BY <1>1, <2>2, <2>3, SameInput DEF Summed
<1>10. QED
  BY <1>2, <1>3, <1>8, <1>9 DEF IInv

LEMMA StutterInv == ASSUME IInv, UNCHANGED vars PROVE IInv'
<1>1. UNCHANGED input /\ UNCHANGED <<stage, total, next, reason, encoded>>
  BY DEF vars
<1>2. Inputs' /\ Encoded' /\ Passed'
  BY <1>1, SameInput DEF IInv, Inputs, Encoded, Passed
<1>3. Summed'
  BY <1>1, SameInput DEF IInv, Summed, SumOf
<1>4. Blamed'
  BY <1>1, StillBlamed
<1>5. QED
  BY <1>2, <1>3, <1>4 DEF IInv

-----------------------------------------------------------------------------
(* Theorems *)

\* What the checks have established, stage by stage, is inductive (dispatch.cpp:37-153).
THEOREM Invariance == Spec => []IInv
<1>1. IInv /\ [Next]_vars => IInv'
  BY PrepareInv, GridInv, ThreadgroupInv, ThreadsInv, CountInv, BindingsInv, ArraysInv, MemoryInv,
     BudgetInv, ScalarsInv, WidthsInv, OffsetsInv, IndirectInv, UniformInv, EncodeInv, StutterInv
     DEF Next
<1>2. QED
  BY InitInv, <1>1, PTL DEF Spec

\* The threads of the threadgroup of a launch that was encoded.
LEMMA EncodedThreads ==
  ASSUME IInv, stage = "encoded"
  PROVE  Volume(Threadgroup) \in 1..pipeline.maxTotal
<1>1. \A d \in Dims : Threadgroup[d] \in Nat \ {0}
  BY LaunchTypes DEF IInv, Passed
<1>2. PICK tg : tg = Threadgroup
  OBVIOUS
<1>3. ~(Volume(tg) > pipeline.maxTotal)
  BY <1>1, <1>2, ThreadsFacts DEF IInv, Inputs, Passed
<1>4. PICK x \in Nat, y \in Nat, z \in Nat :
        x = tg[1] /\ y = tg[2] /\ z = tg[3] /\ x >= 1 /\ y >= 1 /\ z >= 1
  BY <1>1, <1>2 DEF Dims
<1>5. Volume(tg) \in Nat /\ Volume(tg) >= 1
  <2>1. x * y \in Nat /\ x * y >= 1
    BY <1>4
  <2>2. x * y * z \in Nat /\ x * y * z >= 1
    BY <1>4, <2>1
  <2>3. QED
    BY <1>4, <2>2 DEF Volume
<1>6. pipeline.maxTotal \in Nat
  BY LaunchTypes DEF IInv
<1>7. QED
  BY <1>2, <1>3, <1>5, <1>6

\* The argument table of the encoder: the buffers, then the scalars.
LEMMA EncodedTable ==
  ASSUME IInv, stage = "encoded"
  PROVE  /\ Len(encoded.table) = Bound
         /\ \A k \in 1..Len(launch.scalars) :
              /\ encoded.table[Len(launch.buffers) + k].size = launch.scalars[k]
              /\ encoded.table[Len(launch.buffers) + k].offset = 0
         /\ \A k \in 1..Len(launch.buffers) : encoded.table[k] = launch.buffers[k]
<1>1. PICK n \in Nat, m \in Nat : n = Len(launch.buffers) /\ m = Len(launch.scalars)
  BY ArgumentTypes DEF IInv, Passed
<1> DEFINE Entry == [size : Size, offset : Size] \cup {None}
<1>2. PICK l \in Launches : l = launch /\ l.buffers \in Seq(Entry) /\ l.scalars \in Seq(Size \cup {None})
  BY LaunchAssumption, Zenon DEF IInv, Inputs
<1> DEFINE s == [i \in 1..m |-> [offset |-> 0, size |-> launch.scalars[i]]]
<1>3. ASSUME NEW i \in 1..m PROVE launch.scalars[i] \in Size
  <2>1. launch.scalars[i] # None
    BY <1>1 DEF IInv, Passed, Malformed
  <2>2. launch.scalars[i] \in Size \cup {None}
    BY <1>1, <1>2
  <2>3. QED
    BY <2>1, <2>2
<1>4. /\ s \in Seq(Entry) /\ Len(s) = m
      /\ \A k \in 1..m : s[k].size = launch.scalars[k] /\ s[k].offset = 0
  <2>1. \A i \in 1..m : [offset |-> 0, size |-> launch.scalars[i]] \in Entry
    BY <1>3, Constants DEF Size
  <2>2. QED
    BY <1>1, <2>1
<1>5. PICK a \in Seq(Entry), c \in Seq(Entry) :
        a = launch.buffers /\ c = s /\ Len(a) = n /\ Len(c) = m
  BY <1>1, <1>2, <1>4
<1>6. encoded.table = a \o c
  <2>1. encoded.table = Table
    BY DEF IInv, Encoded, Encoding
  <2>2. Table = launch.buffers \o s
    BY <1>1 DEF Table
  <2>3. QED
    BY <1>5, <2>1, <2>2
<1> HIDE DEF s, Entry
<1>7. Len(a \o c) = n + m
  BY <1>5, ConcatProperties
<1>8. ASSUME NEW k \in 1..m PROVE (a \o c)[n + k] = c[k]
  <2>1. n + k \in 1..(n + m) /\ ~(n + k <= n) /\ n + k - n = k
    OBVIOUS
  <2>2. (a \o c)[n + k] = IF n + k <= n THEN a[n + k] ELSE c[n + k - n]
    BY <1>5, <2>1, ConcatProperties
  <2>3. QED
    BY <2>1, <2>2
<1>9. ASSUME NEW k \in 1..n PROVE (a \o c)[k] = a[k]
  <2>1. k \in 1..(n + m) /\ k <= n
    OBVIOUS
  <2>2. (a \o c)[k] = IF k <= n THEN a[k] ELSE c[k - n]
    BY <1>5, <2>1, ConcatProperties
  <2>3. QED
    BY <2>1, <2>2
<1>10. Bound = n + m
  BY <1>1 DEF Bound
<1>11. QED
  BY <1>1, <1>4, <1>5, <1>6, <1>7, <1>8, <1>9, <1>10

\* The threads of a dispatch that was encoded: the threadgroup divides the grid where
\* it has to.
LEMMA ThreadsAreGrid ==
  ASSUME IInv, stage = "encoded", launch.indirect = None, NEW d \in Dims
  PROVE  Threads(d) = Grid[d] /\ Grid[d] \in Nat
<1>1. PICK g \in Nat, t \in Nat : g = Grid[d] /\ t = Threadgroup[d] /\ t >= 1
  <2>1. Grid[d] \in Nat /\ Threadgroup[d] \in Nat /\ Threadgroup[d] # 0
    BY LaunchTypes, Constants DEF IInv, Passed
  <2>2. QED
    BY <2>1
<1>2. nonUniform \/ g % t = 0
  BY <1>1 DEF IInv, Passed
<1>3. g = (g \div t) * t + (g % t)
  BY <1>1, Division
<1>4. QED
  BY <1>1, <1>2, <1>3 DEF Threads

\* Whatever CommandBatch::add encodes keeps to Metal's rules in the integers, although
\* validate() computes in words (dispatch.cpp:37-153).
THEOREM MetalIsSatisfied == Spec => []MetalAccepts
<1>1. IInv => MetalAccepts
  <2> SUFFICES ASSUME IInv, stage = "encoded" PROVE MetalAccepts
    BY DEF MetalAccepts
  <2>1. encoded.tg = Threadgroup /\ encoded.memory = Lengths
    BY DEF IInv, Encoded, Encoding, Lengths
  <2>2. Volume(encoded.tg) \in 1..pipeline.maxTotal
    BY <2>1, EncodedThreads
  <2>3. pipeline.static + SumOf(encoded.memory) <= budget
    BY <2>1 DEF IInv, Summed
  <2>4. Len(encoded.table) <= MaxBindings /\ \A b \in pipeline.bindings : b.index < Len(encoded.table)
    BY EncodedTable DEF IInv, Passed
  <2>5. \A i \in pipeline.arrays : i < Len(encoded.memory)
    BY <2>1, LengthsType DEF IInv, Passed
  <2>6. launch.indirect # None => launch.indirect_offset + 12 <= launch.indirect
    <3>1. SUFFICES ASSUME launch.indirect # None PROVE launch.indirect_offset + 12 <= launch.indirect
      OBVIOUS
    <3>2. launch.indirect \in Nat /\ launch.indirect_offset \in Nat
      BY <3>1, ArgumentTypes DEF IInv, Passed
    <3>3. ~Misplaced(launch.indirect_offset, launch.indirect)
      BY <3>1 DEF IInv, Passed
    <3>4. QED
      BY <3>2, <3>3 DEF Misplaced, kIndirectArgumentsSize
  <2>7. ASSUME launch.indirect = None, NEW d \in Dims PROVE encoded.threads[d] > 0
    <3>1. encoded.threads[d] = Threads(d)
      BY <2>7 DEF IInv, Encoded, Encoding
    <3>2. Threads(d) = Grid[d] /\ Grid[d] \in Nat
      BY <2>7, ThreadsAreGrid
    <3>3. Grid[d] # 0
      BY <2>7 DEF IInv, Passed
    <3>4. QED
      BY <3>1, <3>2, <3>3
  <2>8. ASSUME NEW i \in 1..Len(encoded.memory)
        PROVE  encoded.memory[i] % kThreadgroupMemoryAlignment = 0
    <3>1. encoded.memory[i] = Rounded(launch.memory[i]) /\ launch.memory[i] \in Nat
      BY <2>1, LengthsType, LaunchTypes, Constants DEF IInv, Lengths
    <3>2. PICK w \in Nat : w = Word(launch.memory[i] + kThreadgroupMemoryAlignment - 1)
      <4>1. launch.memory[i] + kThreadgroupMemoryAlignment - 1 \in Nat
        BY <3>1, Constants
      <4>2. QED
        BY <4>1, WordFacts
    <3>3. PICK q \in Nat : q = w \div kThreadgroupMemoryAlignment
      BY Constants, Division
    <3>4. encoded.memory[i] = q * kThreadgroupMemoryAlignment
      BY <3>1, <3>2, <3>3 DEF Rounded
    <3>5. QED
      BY <3>4, Constants, Multiple
  <2>9. ASSUME NEW i \in 1..Len(encoded.table)
        PROVE  /\ encoded.table[i].offset < encoded.table[i].size \/ encoded.table[i].offset = 0
               /\ i > Len(launch.buffers) => encoded.table[i].size <= kMaxInlineScalarBytes
    <3>1. PICK n \in Nat, m \in Nat :
            n = Len(launch.buffers) /\ m = Len(launch.scalars) /\ Len(encoded.table) = n + m
      BY ArgumentTypes, EncodedTable DEF IInv, Passed, Bound
    <3>2. CASE i <= n
      <4>1. i \in 1..n /\ ~(i > n)
        BY <3>1, <3>2
      <4>2. encoded.table[i] = launch.buffers[i] /\ ~OutOfBounds(launch.buffers[i])
        BY <3>1, <4>1, EncodedTable DEF IInv, Passed
      <4>3. launch.buffers[i].offset \in Nat /\ launch.buffers[i].size \in Nat
        BY <3>1, <4>1, ArgumentTypes DEF IInv, Passed
      <4>4. QED
        BY <3>1, <4>1, <4>2, <4>3 DEF OutOfBounds
    <3>3. CASE i > n
      <4>1. PICK k \in 1..m : i = n + k
        <5>1. i \in 1..(n + m)
          BY <3>1
        <5>2. i - n \in 1..m /\ i = n + (i - n)
          BY <3>3, <5>1
        <5>3. QED
          BY <5>2
      <4>2. encoded.table[i].size = launch.scalars[k] /\ encoded.table[i].offset = 0
        BY <3>1, <4>1, EncodedTable
      <4>3. launch.scalars[k] <= kMaxInlineScalarBytes
        BY <3>1 DEF IInv, Passed
      <4>4. QED
        BY <4>2, <4>3
    <3>4. QED
      BY <3>1, <3>2, <3>3
  <2>10. launch.indirect # None => launch.indirect_offset % 4 = 0
    BY DEF IInv, Passed, Misplaced
  <2>11. QED
    BY <2>2, <2>3, <2>4, <2>5, <2>6, <2>7, <2>8, <2>9, <2>10 DEF MetalAccepts
<1>2. QED
  BY Invariance, <1>1, PTL

\* No kernel reads past the end of a scalar: the coverage check comes before the widths,
\* so each index names a scalar of the launch (dispatch.cpp:66-75, 113-128).
THEOREM ScalarsAreWide == Spec => []ScalarsCoverReads
<1>1. IInv => ScalarsCoverReads
  <2> SUFFICES ASSUME IInv, stage = "encoded",
                      NEW b \in pipeline.bindings, b.index >= Len(launch.buffers), b.size > 0
               PROVE  \E k \in 1..kMaxInlineScalarBytes : encoded.table[b.index + 1].size = k * b.size
    BY DEF ScalarsCoverReads
  <2>1. PICK n \in Nat, m \in Nat : n = Len(launch.buffers) /\ m = Len(launch.scalars) /\ Bound = n + m
    BY ArgumentTypes DEF IInv, Passed, Bound
  <2>2. PICK index \in Nat, size \in Nat :
          index = b.index /\ size = b.size /\ index >= n /\ index < n + m /\ size >= 1
    <3>1. b.index \in Nat /\ b.size \in Nat
      BY ArgumentTypes DEF IInv, Passed
    <3>2. b.index < Bound
      BY DEF IInv, Passed
    <3>3. PICK index \in Nat, size \in Nat : index = b.index /\ size = b.size
      BY <3>1
    <3>4. index >= n /\ index < n + m /\ size >= 1
      <4>1. index < n + m
        BY <2>1, <3>2, <3>3
      <4>2. index >= n /\ size >= 1
        BY <2>1, <3>3
      <4>3. QED
        BY <4>1, <4>2
    <3>5. QED
      BY <3>3, <3>4
  <2>3. PICK j \in 1..m : j = index - n + 1 /\ n + j = b.index + 1
    <3>1. index - n + 1 \in 1..m /\ n + (index - n + 1) = index + 1
      BY <2>2
    <3>2. QED
      BY <2>2, <3>1
  <2>4. PICK width \in Nat : width = launch.scalars[j] /\ width <= kMaxInlineScalarBytes
    BY <2>1, ArgumentTypes DEF IInv, Passed
  <2>5. encoded.table[b.index + 1].size = width
    BY <2>1, <2>3, <2>4, EncodedTable
  <2>6. width >= size /\ width % size = 0
    <3>1. ~Narrow(b)
      BY <2>2 DEF IInv, Passed
    <3>2. ScalarAt(b.index) = width
      BY <2>1, <2>2, <2>3, <2>4 DEF ScalarAt
    <3>3. QED
      BY <2>2, <2>4, <3>1, <3>2 DEF Narrow
  <2>7. PICK k \in Nat : k = width \div size /\ width = k * size /\ k >= 1
    <3>1. /\ width \div size \in Nat /\ width = (width \div size) * size + (width % size)
          /\ (size <= width => width \div size >= 1)
      BY <2>2, Division
    <3>2. width = (width \div size) * size
      <4>1. PICK q \in Nat : q = width \div size
        BY <3>1
      <4>2. q * size \in Nat /\ width = q * size + 0
        BY <2>6, <3>1, <4>1
      <4>3. QED
        BY <4>1, <4>2
    <3>3. QED
      BY <2>6, <3>1, <3>2
  <2>8. k <= width
    <3>1. 1 * k <= size * k /\ k * size = size * k
      BY <2>2, Products
    <3>2. QED
      BY <2>7, <3>1
  <2>9. k \in 1..kMaxInlineScalarBytes
    BY <2>4, <2>7, <2>8, ConstantsAssumption
  <2>10. QED
    BY <2>2, <2>5, <2>7, <2>9
<1>2. QED
  BY Invariance, <1>1, PTL

\* The dispatch runs the threads of the grid, no more and no fewer: a grid that the
\* threadgroup does not divide was refused where it matters (dispatch.cpp:148-152, 258-268).
THEOREM GridIsCovered == Spec => []EveryThreadRuns
<1>1. IInv => EveryThreadRuns
  <2> SUFFICES ASSUME IInv, stage = "encoded", launch.indirect = None, NEW d \in Dims
               PROVE  encoded.threads[d] = IF d \in DOMAIN launch.grid THEN launch.grid[d] ELSE 1
    BY DEF EveryThreadRuns
  <2>1. encoded.threads[d] = Threads(d)
    BY DEF IInv, Encoded, Encoding
  <2>2. Threads(d) = Grid[d]
    BY ThreadsAreGrid
  <2>3. Grid[d] = IF d \in DOMAIN launch.grid THEN launch.grid[d] ELSE 1
    <3>1. PICK grid \in Seq(Size) : grid = launch.grid
      BY LaunchAssumption DEF IInv, Inputs
    <3>2. d \in DOMAIN grid <=> d <= Len(grid)
      BY <3>1 DEF Dims
    <3>3. QED
      BY <3>1, <3>2 DEF Grid, ToDim3
  <2>4. QED
    BY <2>1, <2>2, <2>3
<1>2. QED
  BY Invariance, <1>1, PTL

\* A launch refused for its sums or products breaks the rule it was refused for
\* (dispatch.cpp:53-59, 85-105, 138-147).
THEOREM RefusalsAreFounded == Spec => []NoFalseAlarm
<1>1. IInv => NoFalseAlarm
  BY DEF IInv, Blamed
<1>2. QED
  BY Invariance, <1>1, PTL

\* Where every kernel takes at least one whole SIMD group, the threadgroup that
\* default_threadgroup picks passes validate() (dispatch.cpp:192-210).
THEOREM DefaultsAreTaken ==
  ASSUME \A p \in Pipelines : p.width <= p.maxTotal /\ 1 <= p.maxTotal
  PROVE  Spec => []DefaultWithinCeiling
<1>1. IInv => DefaultWithinCeiling
  <2> SUFFICES ASSUME IInv, launch.tg = None PROVE reason \notin {"threadgroup", "threads"}
    BY DEF DefaultWithinCeiling
  <2>1. PICK p \in Pipelines, grid \in [Dims -> Size] : p = pipeline /\ grid = Grid
    BY LaunchTypes DEF IInv, Inputs
  <2>2. PICK tg : tg = Threadgroup /\ tg = DefaultThreadgroup(p, grid)
    BY <2>1 DEF Threadgroup
  <2>3. \A d \in Dims : tg[d] \in Nat \ {0}
    BY <2>1, <2>2, DefaultFacts DEF Dims
  <2>4. Volume(tg) <= p.maxTotal
    BY <2>1, <2>2, DefaultFacts
  <2>5. Volume(tg) \in Nat /\ p.maxTotal \in Nat
    <3>1. PICK x \in Nat, y \in Nat, z \in Nat : x = tg[1] /\ y = tg[2] /\ z = tg[3]
      BY <2>3 DEF Dims
    <3>2. x * y \in Nat /\ x * y * z \in Nat
      OBVIOUS
    <3>3. QED
      BY <2>1, <3>1, <3>2, LaunchTypes DEF IInv, Volume
  <2>6. ~TooManyThreads(tg)
    BY <2>1, <2>3, <2>4, <2>5, ThreadsFacts
  <2>7. QED
    BY <2>2, <2>3, <2>6 DEF IInv, Blamed
<1>2. QED
  BY Invariance, <1>1, PTL
=============================================================================
