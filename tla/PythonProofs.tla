----------------------------- MODULE PythonProofs -----------------------------
(***************************************************************************)
(* Three parts of the Python module, which share no state, and what is     *)
(* proved of each for all values of its constants: Kernel() with its       *)
(* constants, captures, and buffers.                                       *)
(*                                                                         *)
(* - KernelConstants: each text that goes into a key can be read back from *)
(*   it, up to where it ends, whatever follows: a number because no digit  *)
(*   follows, a field because of its length, a list because what follows   *)
(*   cannot go on with it.  So two requests with one key are one request,  *)
(*   and what is cached for one is right for the other (KernelInv).        *)
(* - PyBuffer: the element count of a shape throws, or it is the product   *)
(*   (BufferInv).                                                          *)
(* - Capture: the flag and Metal's capture agree but for the steps between *)
(*   them, which the lock holds together (CaptureInv).                     *)
(***************************************************************************)
EXTENDS KernelConstants, PyBuffer, Capture, SequenceTheorems, WellFoundedInduction, TLAPS

-----------------------------------------------------------------------------
(* Recursion and induction *)

\* Every nonempty set of numbers has a least element.
LEMMA Least ==
  ASSUME NEW T, T \subseteq Nat, T # {}
  PROVE  \E m \in T : \A k \in T : m <= k
<1>1. PICK m \in T : \A k \in T : ~(<<k, m>> \in OpToRel(<, Nat))
  BY NatLessThanWellFounded, WFMin, Zenon
<1>2. ASSUME NEW k \in T PROVE m <= k
  <2>1. ~(<<k, m>> \in OpToRel(<, Nat))
    BY <1>1
  <2>2. ~(k < m)
    BY <2>1 DEF OpToRel
  <2>3. QED
    BY <2>2
<1>3. QED
  BY <1>2

\* F, from the number of a step and what the step before it gave, gives what this one does.
Steps(F, g, n) == \A i \in 1..n : g[i] = F[<<i, g[i - 1]>>]

\* A function may be defined by recursion up to n.
LEMMA Recursion ==
  ASSUME NEW V, NEW n \in Nat, NEW a \in V, NEW F \in [(1..n) \X V -> V]
  PROVE  \E g \in [0..n -> V] : g[0] = a /\ Steps(F, g, n)
<1> DEFINE Upto(g, k) == g \in [0..k -> V] /\ g[0] = a /\ Steps(F, g, k)
           T == {k \in Nat : k <= n /\ ~\E g : Upto(g, k)}
<1>1. SUFFICES ASSUME T # {} PROVE FALSE
  OBVIOUS
<1>2. PICK m \in T : \A k \in T : m <= k
  BY <1>1, Least
<1>3. m # 0
  <2>1. Upto([i \in 0..0 |-> a], 0)
    BY DEF Steps
  <2>2. QED
    BY <2>1
<1>4. m - 1 \in Nat /\ m - 1 <= n /\ ~(m - 1 \in T) /\ m \in 1..n
  BY <1>2, <1>3
<1>5. PICK g : Upto(g, m - 1)
  BY <1>4
<1>6. g[m - 1] \in V /\ F[<<m, g[m - 1]>>] \in V
  BY <1>4, <1>5
<1> DEFINE h == [i \in 0..m |-> IF i = m THEN F[<<m, g[m - 1]>>] ELSE g[i]]
<1>7. h \in [0..m -> V] /\ h[0] = a
  BY <1>3, <1>4, <1>5, <1>6
<1>8. ASSUME NEW i \in 1..m PROVE h[i] = F[<<i, h[i - 1]>>]
  <2>1. CASE i = m
    BY <1>3, <1>4, <2>1
  <2>2. CASE i # m
    <3>1. i \in 1..(m - 1) /\ i - 1 \in 0..(m - 1) /\ i - 1 # m
      BY <1>3, <1>4, <2>2
    <3>2. g[i] = F[<<i, g[i - 1]>>]
      BY <1>5, <3>1 DEF Steps
    <3>3. i \in 0..m /\ i - 1 \in 0..m
      BY <3>1, <1>4
    <3>4. h[i] = g[i] /\ h[i - 1] = g[i - 1]
      BY <2>2, <3>1, <3>3
    <3>5. QED
      BY <3>2, <3>4
  <2>3. QED
    BY <2>1, <2>2
<1> HIDE DEF h
<1>9. Upto(h, m)
  BY <1>7, <1>8 DEF Steps
<1>10. QED
  BY <1>2, <1>9

\* A number is what division leaves of it, and no less than a multiple it has.
LEMMA Division ==
  ASSUME NEW n \in Nat, NEW d \in Nat, d >= 1
  PROVE  /\ n \div d \in Nat /\ n % d \in 0..(d - 1)
         /\ n = (n \div d) * d + (n % d)
         /\ (n \div d) * d \in Nat /\ (n \div d) * d <= n
<1>1. n \div d \in Nat /\ n % d \in 0..(d - 1) /\ n = (n \div d) * d + (n % d)
  OBVIOUS
<1>2. (n \div d) * d \in Nat
  BY <1>1
<1>3. (n \div d) * d <= n
  BY <1>1, <1>2
<1>4. QED
  BY <1>1, <1>2, <1>3

-----------------------------------------------------------------------------
(* Texts: where one ends and the next begins *)

\* Where the characters of two texts are in the text they make.
LEMMA Joining ==
  ASSUME NEW a \in Text, NEW b \in Text
  PROVE  /\ a \o b \in Text /\ Len(a) \in Nat /\ Len(b) \in Nat
         /\ Len(a \o b) = Len(a) + Len(b)
         /\ \A i \in 1..(Len(a) + Len(b)) :
              /\ i <= Len(a) => (a \o b)[i] = a[i]
              /\ ~(i <= Len(a)) => (a \o b)[i] = b[i - Len(a)]
<1>1. a \in Seq(Nat) /\ b \in Seq(Nat)
  BY DEF Text
<1>2. Len(a) \in Nat /\ Len(b) \in Nat
  BY <1>1
<1>3. a \o b \in Seq(Nat) /\ Len(a \o b) = Len(a) + Len(b)
  BY <1>1, ConcatProperties
<1>4. \A i \in 1..(Len(a) + Len(b)) :
        (a \o b)[i] = IF i <= Len(a) THEN a[i] ELSE b[i - Len(a)]
  BY <1>1, ConcatProperties
<1>5. QED
  BY <1>2, <1>3, <1>4 DEF Text

\* The same, of the lengths alone.
LEMMA Lengths ==
  ASSUME NEW a \in Text, NEW b \in Text, NEW k \in Nat, NEW l \in Nat,
         Len(a) = k, Len(b) = l
  PROVE  Len(a \o b) = k + l
<1>1. Len(a \o b) = Len(a) + Len(b)
  BY Joining
<1>2. QED
  BY <1>1, Zenon

\* What stands in front may be taken away, if it is as long.
LEMMA Cancel ==
  ASSUME NEW a \in Text, NEW b \in Text, NEW x \in Text, NEW y \in Text
  PROVE  Len(a) = Len(b) /\ a \o x = b \o y => a = b /\ x = y
<1>1. SUFFICES ASSUME Len(a) = Len(b), a \o x = b \o y PROVE a = b /\ x = y
  OBVIOUS
<1>2. PICK l \in Nat, m \in Nat, n \in Nat : l = Len(a) /\ m = Len(x) /\ n = Len(y)
  BY Joining
<1>3. Len(a \o x) = l + m /\ Len(b \o y) = l + n
  <2>1. Len(a) = l /\ Len(b) = l /\ Len(x) = m /\ Len(y) = n
    BY <1>1, <1>2
  <2>2. Len(a \o x) = l + m
    BY <2>1, Lengths
  <2>3. Len(b \o y) = l + n
    BY <2>1, Lengths
  <2>4. QED
    BY <2>2, <2>3
<1>4. m = n
  BY <1>1, <1>3
<1>5. ASSUME NEW i \in 1..(l + m)
      PROVE  /\ i <= l => a[i] = b[i]
             /\ ~(i <= l) => x[i - l] = y[i - l]
  <2>1. /\ i <= l => (a \o x)[i] = a[i]
        /\ ~(i <= l) => (a \o x)[i] = x[i - l]
    BY <1>2, Joining
  <2>2. /\ i <= l => (b \o y)[i] = b[i]
        /\ ~(i <= l) => (b \o y)[i] = y[i - l]
    BY <1>1, <1>2, <1>4, Joining
  <2>3. QED
    BY <1>1, <2>1, <2>2, Zenon
<1>6. \A i \in 1..l : a[i] = b[i]
  <2>1. \A i \in 1..l : i \in 1..(l + m) /\ i <= l
    OBVIOUS
  <2>2. QED
    BY <1>5, <2>1
<1>7. ASSUME NEW i \in 1..m PROVE x[i] = y[i]
  <2>1. PICK j \in Int : j = i + l
    OBVIOUS
  <2>2. j \in 1..(l + m) /\ ~(j <= l) /\ j - l = i
    BY <2>1
  <2>3. QED
    BY <1>5, <2>2
<1>8. x = y
  BY <1>2, <1>4, <1>7, SeqEqual DEF Text
<1>9. QED
  BY <1>1, <1>2, <1>6, <1>8, SeqEqual DEF Text

\* What is in front of two equal texts may go.
LEMMA CancelFront == \A a, x, y \in Text : a \o x = a \o y => x = y
<1>1. SUFFICES ASSUME NEW a \in Text, NEW x \in Text, NEW y \in Text
               PROVE  a \o x = a \o y => x = y
  OBVIOUS
<1>2. Len(a) = Len(a) /\ a \o x = a \o y => a = a /\ x = y
  BY Cancel
<1>3. QED
  BY <1>2, Zenon

\* x does not go on with characters of D.
Ends(x, D) == x \in Text /\ (x = << >> \/ x[1] \notin D)

\* A run of characters of D ends where the text with the other run goes on without them.
LEMMA NotLonger ==
  ASSUME NEW D \in SUBSET Nat, NEW a \in Seq(D), NEW b \in Seq(D), NEW x, NEW y \in Text,
         Ends(x, D)
  PROVE  a \o x = b \o y => ~(Len(a) < Len(b))
<1>1. SUFFICES ASSUME a \o x = b \o y, Len(a) < Len(b) PROVE FALSE
  OBVIOUS
<1>2. a \in Text /\ b \in Text /\ x \in Text
  BY SeqMonotonic DEF Text, Ends
<1>3. PICK k \in Nat, l \in Nat, m \in Nat, n \in Nat :
        k = Len(a) /\ l = Len(b) /\ m = Len(x) /\ n = Len(y)
  BY <1>2, Joining
<1>4. Len(a \o x) = k + m /\ Len(b \o y) = l + n
  <2>1. Len(a \o x) = k + m
    BY <1>2, <1>3, Lengths
  <2>2. Len(b \o y) = l + n
    BY <1>2, <1>3, Lengths
  <2>3. QED
    BY <2>1, <2>2
<1>5. PICK i \in Nat : i = k + 1
  OBVIOUS
<1>6. /\ i \in 1..l /\ i \in 1..(k + m) /\ i \in 1..(l + n)
      /\ ~(i <= k) /\ i - k = 1 /\ i <= l /\ m # 0
  BY <1>1, <1>3, <1>4, <1>5
<1>7. (a \o x)[i] = x[i - k]
  BY <1>2, <1>3, <1>6, Joining
<1>8. (b \o y)[i] = b[i]
  BY <1>2, <1>3, <1>6, Joining
<1>9. b[i] \in D
  BY <1>3, <1>6, ElementOfSeq
<1>10. x # << >>
  BY <1>3, <1>6
<1>11. x[1] = b[i]
  BY <1>1, <1>6, <1>7, <1>8
<1>12. QED
  BY <1>9, <1>10, <1>11 DEF Ends

\* Characters of D, and what follows them, are told apart.
LEMMA Split ==
  ASSUME NEW D \in SUBSET Nat, NEW a \in Seq(D), NEW b \in Seq(D), NEW x, NEW y,
         Ends(x, D), Ends(y, D)
  PROVE  a \o x = b \o y => a = b /\ x = y
<1>1. SUFFICES ASSUME a \o x = b \o y PROVE a = b /\ x = y
  OBVIOUS
<1>2. a \in Text /\ b \in Text /\ x \in Text /\ y \in Text
  BY SeqMonotonic DEF Text, Ends
<1>3. ~(Len(a) < Len(b)) /\ ~(Len(b) < Len(a))
  BY <1>1, <1>2, NotLonger
<1>4. Len(a) = Len(b)
  BY <1>2, <1>3 DEF Text
<1>5. QED
  BY <1>1, <1>2, <1>4, Cancel

\* A concatenation of texts is a text, and may be bracketed at will.
LEMMA Joined ==
  ASSUME NEW a \in Text, NEW b \in Text, NEW c \in Text
  PROVE  a \o b \in Text /\ (a \o b) \o c = a \o (b \o c) /\ (a \o b) \o c \in Text
BY ConcatProperties, ConcatAssociative, SMTT(30) DEF Text

\* It does not matter which two of three texts are joined first.
LEMMA Bracket == \A a, b, c \in Text : (a \o b) \o c = a \o (b \o c)
BY Joined

\* The same, with a name the provers do not take apart.
Cat(a, b) == a \o b

\* Cat is no more than that.
LEMMA CatFacts ==
  /\ \A a, b \in Text : Cat(a, b) \in Text
  /\ \A a, b, c \in Text : Cat(Cat(a, b), c) = Cat(a, Cat(b, c))
BY Joined, Bracket DEF Cat

\* Four texts.
LEMMA Brackets ==
  \A a, b, c, d \in Text :
    /\ ((a \o b) \o c) \o d = a \o (b \o (c \o d))
    /\ b \o (c \o d) \in Text /\ c \o d \in Text
<1>1. \A a, b, c, d \in Text :
        /\ Cat(Cat(Cat(a, b), c), d) = Cat(a, Cat(b, Cat(c, d)))
        /\ Cat(b, Cat(c, d)) \in Text /\ Cat(c, d) \in Text
  BY CatFacts
<1>2. QED
  BY <1>1 DEF Cat

\* And more of them.
LEMMA MoreBrackets ==
  \A a, b, c, d, x \in Text :
    /\ Cat(Cat(Cat(Cat(a, b), c), d), x) = Cat(a, Cat(b, Cat(c, Cat(d, x))))
    /\ Cat(Cat(Cat(a, b), c), d) \in Text /\ Cat(d, x) \in Text
    /\ Cat(c, Cat(d, x)) \in Text /\ Cat(b, Cat(c, Cat(d, x))) \in Text
<1>1. SUFFICES ASSUME NEW a \in Text, NEW b \in Text, NEW c \in Text, NEW d \in Text,
                      NEW x \in Text
               PROVE  /\ Cat(Cat(Cat(Cat(a, b), c), d), x)
                           = Cat(a, Cat(b, Cat(c, Cat(d, x))))
                      /\ Cat(Cat(Cat(a, b), c), d) \in Text /\ Cat(d, x) \in Text
                      /\ Cat(c, Cat(d, x)) \in Text /\ Cat(b, Cat(c, Cat(d, x))) \in Text
  OBVIOUS
<1>2. /\ Cat(Cat(Cat(a, b), c), d) \in Text /\ Cat(d, x) \in Text
      /\ Cat(c, Cat(d, x)) \in Text /\ Cat(b, Cat(c, Cat(d, x))) \in Text
      /\ Cat(a, b) \in Text /\ Cat(Cat(a, b), c) \in Text
  BY CatFacts
<1>3. Cat(Cat(Cat(Cat(a, b), c), d), x) = Cat(Cat(Cat(a, b), c), Cat(d, x))
  BY <1>2, CatFacts
<1>4. Cat(Cat(Cat(a, b), c), Cat(d, x)) = Cat(Cat(a, b), Cat(c, Cat(d, x)))
  BY <1>2, CatFacts
<1>5. Cat(Cat(a, b), Cat(c, Cat(d, x))) = Cat(a, Cat(b, Cat(c, Cat(d, x))))
  BY <1>2, CatFacts
<1>6. QED
  BY <1>2, <1>3, <1>4, <1>5, Zenon

\* A text of one character.
LEMMA Character == \A c \in Nat : <<c>> \in Text /\ Len(<<c>>) = 1 /\ <<c>>[1] = c
BY DEF Text

\* The first character of a text that begins with a known one.
LEMMA Begins ==
  ASSUME NEW c \in Nat, NEW x \in Text
  PROVE  /\ <<c>> \o x \in Text /\ <<c>> \o x # << >> /\ (<<c>> \o x)[1] = c
         /\ \A D : c \notin D => Ends(<<c>> \o x, D)
<1>1. <<c>> \in Text /\ Len(<<c>>) = 1 /\ <<c>>[1] = c
  BY Character
<1>2. Len(x) \in Nat /\ 1 \in 1..(1 + Len(x))
  BY DEF Text
<1>3. /\ <<c>> \o x \in Text /\ Len(<<c>> \o x) = 1 + Len(x)
      /\ (<<c>> \o x)[1] = c
  BY <1>1, <1>2, ConcatProperties DEF Text
<1>4. <<c>> \o x # << >>
  BY <1>2, <1>3
<1>5. QED
  BY <1>3, <1>4 DEF Ends

-----------------------------------------------------------------------------
(* Texts: numbers *)

Digit == 48..57

\* g are the texts of the numbers up to n.
Numerals(g, n) ==
  /\ g \in [0..n -> Seq(Digit)]
  /\ \A k \in 0..n : g[k] = IF k < 10 THEN <<48 + k>> ELSE g[k \div 10] \o <<48 + (k % 10)>>

\* A number without its last digit, and that digit.
LEMMA Tenth ==
  ASSUME NEW k \in Nat
  PROVE  /\ k \div 10 \in Nat /\ k % 10 \in 0..9 /\ k = (k \div 10) * 10 + (k % 10)
         /\ <<48 + (k % 10)>> \in Seq(Digit)
         /\ k < 10 => <<48 + k>> \in Seq(Digit)
         /\ k >= 10 => k \div 10 < k
         /\ \A n \in Nat : k <= n => k \div 10 \in 0..n
<1>1. k \div 10 \in Nat /\ k % 10 \in 0..9 /\ k = (k \div 10) * 10 + (k % 10)
  BY Division
<1>2. 48 + (k % 10) \in Digit /\ (k < 10 => 48 + k \in Digit)
  BY <1>1 DEF Digit
<1>3. QED
  BY <1>1, <1>2

\* There are such texts for the numbers up to any n.
LEMMA NumeralsExist ==
  ASSUME NEW n \in Nat
  PROVE  \E g : Numerals(g, n)
<1> DEFINE T == {k \in Nat : ~\E g : Numerals(g, k)}
<1>1. SUFFICES ASSUME T # {} PROVE FALSE
  OBVIOUS
<1>2. PICK m \in T : \A k \in T : m <= k
  BY <1>1, Least
<1>3. m # 0
  <2>1. <<48>> \in Seq(Digit)
    BY DEF Digit
  <2>2. Numerals([k \in 0..0 |-> <<48>>], 0)
    BY <2>1 DEF Numerals
  <2>3. QED
    BY <2>2
<1>4. m \in Nat /\ m - 1 \in Nat /\ ~(m - 1 \in T)
  BY <1>2, <1>3
<1>5. PICK g : Numerals(g, m - 1)
  BY <1>4
<1> DEFINE end == IF m < 10 THEN <<48 + m>> ELSE g[m \div 10] \o <<48 + (m % 10)>>
           h   == [k \in 0..m |-> IF k = m THEN end ELSE g[k]]
<1>6. end \in Seq(Digit)
  <2>1. CASE m < 10
    BY <1>4, <2>1, Tenth
  <2>2. CASE m >= 10
    <3>1. m \div 10 \in 0..(m - 1) /\ <<48 + (m % 10)>> \in Seq(Digit)
      BY <1>4, <2>2, Tenth
    <3>2. g[m \div 10] \in Seq(Digit)
      BY <1>5, <3>1 DEF Numerals
    <3>3. g[m \div 10] \o <<48 + (m % 10)>> \in Seq(Digit)
      BY <3>1, <3>2, ConcatProperties
    <3>4. QED
      BY <1>4, <2>2, <3>3
  <2>3. QED
    BY <1>4, <2>1, <2>2
<1> HIDE DEF end
<1>7. h \in [0..m -> Seq(Digit)]
  BY <1>4, <1>5, <1>6 DEF Numerals
<1>8. ASSUME NEW k \in 0..m
      PROVE  h[k] = IF k < 10 THEN <<48 + k>> ELSE h[k \div 10] \o <<48 + (k % 10)>>
  <2>1. k \in Nat /\ (k >= 10 => k \div 10 \in 0..(m - 1) /\ k \div 10 # m)
    BY <1>4, Tenth
  <2>2. k >= 10 => h[k \div 10] = g[k \div 10]
    BY <1>4, <2>1
  <2>3. CASE k = m
    BY <2>1, <2>2, <2>3 DEF end
  <2>4. CASE k # m
    <3>1. k \in 0..(m - 1) /\ h[k] = g[k]
      BY <1>4, <2>4
    <3>2. g[k] = IF k < 10 THEN <<48 + k>> ELSE g[k \div 10] \o <<48 + (k % 10)>>
      BY <1>5, <3>1 DEF Numerals
    <3>3. QED
      BY <2>1, <2>2, <3>1, <3>2
  <2>5. QED
    BY <2>3, <2>4
<1> HIDE DEF h
<1>9. Numerals(h, m)
  BY <1>7, <1>8 DEF Numerals
<1>10. QED
  BY <1>2, <1>9

\* Digits are a text.
LEMMA DigitsText == \A a : a \in Seq(Digit) => a \in Text
BY SeqMonotonic DEF Text, Digit

\* What stands behind may be taken away, if it is as long.
LEMMA CancelBehind ==
  ASSUME NEW a \in Text, NEW b \in Text, NEW x \in Text, NEW y \in Text
  PROVE  Len(x) = Len(y) /\ a \o x = b \o y => a = b /\ x = y
<1>1. SUFFICES ASSUME Len(x) = Len(y), a \o x = b \o y PROVE a = b /\ x = y
  OBVIOUS
<1>2. PICK k \in Nat, l \in Nat, m \in Nat : k = Len(a) /\ l = Len(b) /\ m = Len(x)
  BY Joining
<1>3. Len(a) = k /\ Len(b) = l /\ Len(x) = m /\ Len(y) = m
  BY <1>1, <1>2
<1>4. Len(a \o x) = k + m
  BY <1>3, Lengths
<1>5. Len(b \o y) = l + m
  BY <1>3, Lengths
<1>6. k = l
  BY <1>1, <1>4, <1>5
<1>7. Len(a) = Len(b)
  BY <1>3, <1>6
<1>8. Len(a) = Len(b) /\ a \o x = b \o y => a = b /\ x = y
  BY Cancel
<1>9. QED
  BY <1>1, <1>7, <1>8, Zenon

\* A text that ends in a digit.
LEMMA LastDigit ==
  ASSUME NEW a \in Text, NEW b \in Text, NEW c \in Nat, NEW d \in Nat
  PROVE  a \o <<c>> = b \o <<d>> => a = b /\ c = d
<1>1. PICK x, y : x = <<c>> /\ y = <<d>>
  OBVIOUS
<1>2. /\ x \in Text /\ Len(x) = 1 /\ x[1] = c
      /\ y \in Text /\ Len(y) = 1 /\ y[1] = d
  BY <1>1, Character
<1>3. a \o x = b \o y => a = b /\ x = y
  BY <1>2, CancelBehind, ZenonT(30)
<1>4. a \o x = b \o y => a = b /\ c = d
  BY <1>2, <1>3
<1>5. QED
  BY <1>1, <1>4, Zenon

\* A text with a last character is not empty.
LEMMA NotEmpty ==
  ASSUME NEW a \in Seq(Digit), NEW c \in Nat
  PROVE  a \o <<c>> # << >>
<1>1. a \in Text /\ <<c>> \in Text /\ Len(<<c>>) = 1
  BY Character, SeqMonotonic DEF Text, Digit
<1>2. PICK l \in Nat : l = Len(a)
  BY <1>1, Joining
<1>3. Len(a \o <<c>>) = l + 1
  BY <1>1, <1>2, Joining
<1>4. Len(a \o <<c>>) # 0
  BY <1>3
<1>5. QED
  BY <1>4

\* The text of k is that of d and one digit more.
Tens(g, n, k, d, r) ==
  /\ d \in 0..n /\ r \in 0..9 /\ d < k /\ k = d * 10 + r
  /\ g[k] = g[d] \o <<48 + r>> /\ <<48 + r>> \in Seq(Digit)

\* A number has one digit, or it has the digits of a smaller one and one more.
LEMMA NumeralsRule ==
  ASSUME NEW n \in Nat, NEW g, NEW k \in 0..n,
         g[k] = IF k < 10 THEN <<48 + k>> ELSE g[k \div 10] \o <<48 + (k % 10)>>
  PROVE  \/ k < 10 /\ g[k] = <<48 + k>> /\ <<48 + k>> \in Seq(Digit)
         \/ \E d, r : Tens(g, n, k, d, r)
<1>1. CASE k < 10
  BY <1>1, Tenth
<1>2. CASE ~(k < 10)
  <2>1. PICK d, r : d = k \div 10 /\ r = k % 10
    OBVIOUS
  <2>2. k >= 10 /\ k \in Nat /\ k <= n
    BY <1>2
  <2>3. d \in 0..n /\ r \in 0..9 /\ d < k /\ k = d * 10 + r
    BY <2>1, <2>2, Tenth
  <2>4. <<48 + r>> \in Seq(Digit)
    BY <2>1, <2>2, Tenth
  <2>5. g[k] = g[d] \o <<48 + r>>
    BY <1>2, <2>1, Zenon
  <2>6. QED
    BY <2>3, <2>4, <2>5 DEF Tens
<1>3. QED
  BY <1>1, <1>2

\* Decimals(n) is defined by the rule, and so it obeys it.
LEMMA DecimalsFacts ==
  ASSUME NEW n \in Nat
  PROVE  Numerals(Decimals(n), n)
<1> DEFINE Rec(g) == g = [k \in 0..n |->
                            IF k < 10 THEN <<48 + k>> ELSE g[k \div 10] \o <<48 + (k % 10)>>]
<1>1. PICK g : Numerals(g, n)
  BY NumeralsExist
<1>2. Rec(g)
  BY <1>1 DEF Numerals
<1>3. Decimals(n) = CHOOSE h : Rec(h)
  BY DEF Decimals
<1>4. PICK G : G = Decimals(n) /\ Rec(G)
  BY <1>2, <1>3
<1>5. \A k \in 0..n : G[k] = IF k < 10 THEN <<48 + k>> ELSE G[k \div 10] \o <<48 + (k % 10)>>
  BY <1>4
<1>6. \A k \in 0..n : G[k] \in Seq(Digit)
  <2> DEFINE T == {k \in Nat : k <= n /\ ~(G[k] \in Seq(Digit))}
  <2>1. SUFFICES ASSUME T # {} PROVE FALSE
    OBVIOUS
  <2>2. PICK j \in T : \A i \in T : j <= i
    BY <2>1, Least
  <2>3. j \in Nat /\ j \in 0..n /\ ~(G[j] \in Seq(Digit))
    BY <2>2
  <2>4. G[j] = IF j < 10 THEN <<48 + j>> ELSE G[j \div 10] \o <<48 + (j % 10)>>
    BY <1>5, <2>3
  <2>5. ~(G[j] = <<48 + j>> /\ <<48 + j>> \in Seq(Digit))
    BY <2>3
  <2>6. PICK d, r : Tens(G, n, j, d, r)
    BY <2>3, <2>4, <2>5, NumeralsRule
  <2>7. G[d] \in Seq(Digit)
    <3>1. d \in 0..n /\ d < j
      BY <2>6 DEF Tens
    <3>2. ~(d \in T)
      BY <2>2, <2>3, <3>1
    <3>3. QED
      BY <3>1, <3>2
  <2>8. G[d] \o <<48 + r>> \in Seq(Digit)
    BY <2>6, <2>7, ConcatProperties DEF Tens
  <2>9. QED
    BY <2>3, <2>6, <2>8 DEF Tens
<1>7. G \in [0..n -> Seq(Digit)]
  BY <1>4, <1>6
<1>8. QED
  BY <1>4, <1>5, <1>7 DEF Numerals

\* The same of Numerals, where no text is empty.
LEMMA NumeralsCases ==
  ASSUME NEW n \in Nat, NEW g, Numerals(g, n), NEW k \in 0..n
  PROVE  /\ g[k] \in Seq(Digit) /\ g[k] # << >>
         /\ (k < 10 /\ g[k] = <<48 + k>>) \/ (\E d, r : Tens(g, n, k, d, r))
<1>1. /\ g[k] \in Seq(Digit)
      /\ g[k] = IF k < 10 THEN <<48 + k>> ELSE g[k \div 10] \o <<48 + (k % 10)>>
  BY DEF Numerals
<1>2. (k < 10 /\ g[k] = <<48 + k>>) \/ (\E d, r : Tens(g, n, k, d, r))
  BY <1>1, NumeralsRule
<1>3. ASSUME g[k] = <<48 + k>> PROVE g[k] # << >>
  BY <1>3
<1>4. ASSUME \E d, r : Tens(g, n, k, d, r) PROVE g[k] # << >>
  <2>1. PICK d, r : Tens(g, n, k, d, r)
    BY <1>4
  <2>2. g[d] \in Seq(Digit) /\ 48 + r \in Nat
    BY <2>1 DEF Numerals, Tens
  <2>3. g[k] = g[d] \o <<48 + r>>
    BY <2>1 DEF Tens
  <2>4. QED
    BY <2>2, <2>3, NotEmpty
<1>5. g[k] # << >>
  BY <1>2, <1>3, <1>4
<1>6. QED
  BY <1>1, <1>2, <1>5

\* One digit is not the text of a number with two.
LEMMA OneDigit ==
  ASSUME NEW c \in Nat, NEW a \in Seq(Digit), a # << >>, NEW d \in Nat
  PROVE  <<c>> # a \o <<d>>
<1>1. SUFFICES ASSUME <<c>> = a \o <<d>> PROVE FALSE
  OBVIOUS
<1>2. << >> \in Text /\ a \in Text
  BY DigitsText, EmptySeq DEF Text
<1>3. << >> \o <<c>> = <<c>>
  BY Character, ConcatEmptySeq DEF Text
<1>4. << >> \o <<c>> = a \o <<d>>
  BY <1>1, <1>3
<1>5. << >> = a
  BY <1>2, <1>4, LastDigit
<1>6. QED
  BY <1>5

\* Every number has a text of its own, of at least one digit.
LEMMA NumeralsApart ==
  ASSUME NEW m \in Nat, NEW n \in Nat, NEW g, NEW h, Numerals(g, m), Numerals(h, n)
  PROVE  \A i \in 0..m, j \in 0..n : g[i] = h[j] => i = j
<1> DEFINE T == {i \in Nat : i <= m /\ \E j \in 0..n : g[i] = h[j] /\ i # j}
<1>1. SUFFICES ASSUME T # {} PROVE FALSE
  OBVIOUS
<1>2. PICK i \in T : \A k \in T : i <= k
  BY <1>1, Least
<1>3. PICK j \in 0..n : g[i] = h[j] /\ i # j
  BY <1>2
<1>4. i \in Nat /\ i \in 0..m /\ j \in Nat
  BY <1>2, <1>3
<1>5. ASSUME NEW k \in 0..m, NEW l \in 0..n, k < i, g[k] = h[l] PROVE k = l
  <2>1. ~(k \in T)
    BY <1>2, <1>4, <1>5
  <2>2. QED
    BY <1>5, <2>1
<1> HIDE DEF T
<1>6. (i < 10 /\ g[i] = <<48 + i>>) \/ (\E d, r : Tens(g, m, i, d, r))
  BY <1>4, NumeralsCases
<1>7. (j < 10 /\ h[j] = <<48 + j>>) \/ (\E d, r : Tens(h, n, j, d, r))
  BY <1>3, NumeralsCases
<1>8. ASSUME NEW o \in Nat, NEW f, Numerals(f, o), NEW k, NEW d, NEW r, Tens(f, o, k, d, r)
      PROVE  /\ f[d] \in Seq(Digit) /\ f[d] # << >> /\ d \in 0..o /\ r \in Nat /\ d < k
             /\ 48 + r \in Nat /\ f[k] = f[d] \o <<48 + r>> /\ k = d * 10 + r
  <2>1. /\ d \in 0..o /\ r \in 0..9 /\ d < k /\ k = d * 10 + r
        /\ f[k] = f[d] \o <<48 + r>>
    BY <1>8 DEF Tens
  <2>2. f[d] \in Seq(Digit) /\ f[d] # << >>
    BY <1>8, <2>1, NumeralsCases
  <2>3. r \in Nat /\ 48 + r \in Nat
    BY <2>1
  <2>4. QED
    BY <2>1, <2>2, <2>3
<1>9. CASE g[i] = <<48 + i>> /\ h[j] = <<48 + j>>
  <2>1. <<48 + i>> = <<48 + j>>
    BY <1>3, <1>9, Zenon
  <2>2. 48 + i = 48 + j
    BY <2>1
  <2>3. QED
    BY <1>3, <1>4, <2>2
<1>10. CASE g[i] = <<48 + i>> /\ \E d, r : Tens(h, n, j, d, r)
  <2>1. PICK d, r : Tens(h, n, j, d, r)
    BY <1>10
  <2>2. h[d] \in Seq(Digit) /\ h[d] # << >> /\ 48 + r \in Nat /\ h[j] = h[d] \o <<48 + r>>
    BY <1>8, <2>1
  <2>3. 48 + i \in Nat
    BY <1>4
  <2>4. <<48 + i>> = h[d] \o <<48 + r>>
    BY <1>3, <1>10, <2>2, Zenon
  <2>5. QED
    BY <2>2, <2>3, <2>4, OneDigit
<1>11. CASE h[j] = <<48 + j>> /\ \E d, r : Tens(g, m, i, d, r)
  <2>1. PICK d, r : Tens(g, m, i, d, r)
    BY <1>11
  <2>2. g[d] \in Seq(Digit) /\ g[d] # << >> /\ 48 + r \in Nat /\ g[i] = g[d] \o <<48 + r>>
    BY <1>8, <2>1
  <2>3. 48 + j \in Nat
    BY <1>4
  <2>4. <<48 + j>> = g[d] \o <<48 + r>>
    BY <1>3, <1>11, <2>2, Zenon
  <2>5. QED
    BY <2>2, <2>3, <2>4, OneDigit
<1>12. CASE (\E d, r : Tens(g, m, i, d, r)) /\ (\E d, r : Tens(h, n, j, d, r))
  <2>1. PICK d, r : Tens(g, m, i, d, r)
    BY <1>12
  <2>2. PICK e, s : Tens(h, n, j, e, s)
    BY <1>12
  <2>3. PICK u, v : u = 48 + r /\ v = 48 + s
    OBVIOUS
  <2>4. /\ g[d] \in Seq(Digit) /\ d \in 0..m /\ d < i /\ r \in Nat /\ u \in Nat
        /\ i = d * 10 + r /\ g[i] = g[d] \o <<u>>
    BY <1>8, <2>1, <2>3
  <2>5. /\ h[e] \in Seq(Digit) /\ e \in 0..n /\ s \in Nat /\ v \in Nat
        /\ j = e * 10 + s /\ h[j] = h[e] \o <<v>>
    BY <1>8, <2>2, <2>3
  <2>6. g[d] \o <<u>> = h[e] \o <<v>>
    BY <1>3, <2>4, <2>5, Zenon
  <2>7. g[d] = h[e] /\ u = v
    <3>1. u \in Nat /\ v \in Nat /\ g[d] \in Text /\ h[e] \in Text
      BY <2>4, <2>5, DigitsText
    <3>2. \A p, q \in Text : p \o <<u>> = q \o <<v>> => p = q /\ u = v
      BY <3>1, LastDigit
    <3>3. QED
      BY <2>6, <3>1, <3>2, Zenon
  <2>8. d = e
    BY <1>5, <2>4, <2>5, <2>7
  <2>9. r = s
    BY <2>3, <2>4, <2>5, <2>7
  <2>10. i = j
    BY <2>4, <2>5, <2>8, <2>9
  <2>11. QED
    BY <1>3, <2>10
<1>13. QED
  BY <1>6, <1>7, <1>9, <1>10, <1>11, <1>12

\* std::to_string gives digits, other ones for each number.
LEMMA DecimalFacts ==
  ASSUME NEW m \in Nat
  PROVE  /\ Decimal(m) \in Seq(Digit) /\ Decimal(m) \in Text /\ Decimal(m) # << >>
         /\ \A n \in Nat : Decimal(m) = Decimal(n) => m = n
<1>1. Numerals(Decimals(m), m) /\ \A n \in Nat : Numerals(Decimals(n), n)
  BY DecimalsFacts
<1>2. m \in 0..m /\ \A n \in Nat : n \in 0..n
  OBVIOUS
<1>3. Decimal(m) \in Seq(Digit) /\ Decimal(m) # << >>
  BY <1>1, <1>2, NumeralsCases DEF Decimal
<1>4. ASSUME NEW n \in Nat, Decimal(m) = Decimal(n) PROVE m = n
  BY <1>1, <1>2, <1>4, NumeralsApart DEF Decimal
<1>5. Decimal(m) \in Text
  BY <1>3, SeqMonotonic DEF Text, Digit
<1>6. QED
  BY <1>3, <1>4, <1>5

\* A number that no digit follows can be read back.
LEMMA NumeralThen ==
  ASSUME NEW m \in Nat, NEW n \in Nat, NEW x, NEW y, Ends(x, Digit), Ends(y, Digit)
  PROVE  Decimal(m) \o x = Decimal(n) \o y => m = n /\ x = y
<1>1. Digit \in SUBSET Nat
  BY DEF Digit
<1>2. Decimal(m) \in Seq(Digit) /\ Decimal(n) \in Seq(Digit)
  BY DecimalFacts
<1>3. Decimal(m) \o x = Decimal(n) \o y => Decimal(m) = Decimal(n) /\ x = y
  BY <1>1, <1>2, Split
<1>4. Decimal(m) = Decimal(n) => m = n
  BY DecimalFacts
<1>5. QED
  BY <1>3, <1>4, Zenon

\* A character in front, and then two texts.
LEMMA After ==
  ASSUME NEW c \in Nat, NEW x \in Text, NEW y \in Text
  PROVE  <<c>> \o x = <<c>> \o y => x = y
BY Character, Cancel

\* A character that two texts do not share tells them apart.
LEMMA Unlike ==
  ASSUME NEW c \in Nat, NEW d \in Nat, c # d, NEW x \in Text, NEW y \in Text
  PROVE  <<c>> \o x # <<d>> \o y
<1>1. (<<c>> \o x)[1] = c /\ (<<d>> \o y)[1] = d
  BY Begins
<1>2. QED
  BY <1>1

\* What a field is, and what follows it.
LEMMA FieldFacts ==
  ASSUME NEW s \in Text, NEW x \in Text
  PROVE  /\ Field(s) \in Text /\ Len(s) \in Nat
         /\ s \o x \in Text /\ <<58>> \o (s \o x) \in Text
         /\ Ends(<<58>> \o (s \o x), Digit)
         /\ Field(s) \o x = Decimal(Len(s)) \o (<<58>> \o (s \o x))
<1>1. PICK d \in Text, c \in Text : d = Decimal(Len(s)) /\ c = <<58>>
  BY Joining, DecimalFacts, Character
<1>2. Field(s) = (d \o c) \o s /\ d \o c \in Text
  BY <1>1, Joined DEF Field
<1>3. ((d \o c) \o s) \o x = (d \o c) \o (s \o x)
  BY <1>2, Joined
<1>4. (d \o c) \o (s \o x) = d \o (c \o (s \o x))
  <2>1. PICK w \in Text : w = s \o x
    BY Joined
  <2>2. (d \o c) \o w = d \o (c \o w)
    <3>1. d \in Text /\ c \in Text /\ w \in Text
      BY <1>1, <2>1
    <3>2. QED
      BY <3>1, Bracket
  <2>3. QED
    BY <2>1, <2>2, Zenon
<1>5. Field(s) \in Text
  BY <1>2, Joined
<1>6. s \o x \in Text /\ Len(s) \in Nat
  BY Joined, Joining
<1>7. 58 \notin Digit /\ 58 \in Nat
  BY DEF Digit
<1>8. <<58>> \o (s \o x) \in Text /\ Ends(<<58>> \o (s \o x), Digit)
  BY <1>6, <1>7, Begins
<1>9. QED
  BY <1>1, <1>2, <1>3, <1>4, <1>5, <1>6, <1>8, Zenon

\* A field can be read back, whatever follows.
LEMMA FieldThen ==
  ASSUME NEW s \in Text, NEW t \in Text, NEW x \in Text, NEW y \in Text
  PROVE  Field(s) \o x = Field(t) \o y => s = t /\ x = y
<1>1. PICK u, v : u = <<58>> \o (s \o x) /\ v = <<58>> \o (t \o y)
  OBVIOUS
<1>2. /\ Ends(u, Digit) /\ Len(s) \in Nat /\ s \o x \in Text
      /\ Field(s) \o x = Decimal(Len(s)) \o u
  BY <1>1, FieldFacts
<1>3. /\ Ends(v, Digit) /\ Len(t) \in Nat /\ t \o y \in Text
      /\ Field(t) \o y = Decimal(Len(t)) \o v
  BY <1>1, FieldFacts
<1>4. Decimal(Len(s)) \o u = Decimal(Len(t)) \o v => Len(s) = Len(t) /\ u = v
  BY <1>2, <1>3, NumeralThen
<1>5. u = v => s \o x = t \o y
  <2>1. <<58>> \o (s \o x) = <<58>> \o (t \o y) => s \o x = t \o y
    BY <1>2, <1>3, After
  <2>2. QED
    BY <1>1, <2>1, Zenon
<1>6. Len(s) = Len(t) /\ s \o x = t \o y => s = t /\ x = y
  BY Cancel
<1>7. QED
  BY <1>2, <1>3, <1>4, <1>5, <1>6, Zenon

\* And a field alone is one text.
LEMMA FieldsApart ==
  ASSUME NEW s \in Text, NEW t \in Text, Field(s) = Field(t)
  PROVE  s = t
<1>1. PICK x \in Text : x = << >>
  BY EmptySeq DEF Text
<1>2. x \in Text
  BY <1>1
<1>3. Field(s) \o x = Field(t) \o x => s = t /\ x = x
  BY <1>2, FieldThen
<1>4. QED
  BY <1>3, Zenon

Sign == Digit \cup {45}

\* A number with a sign or without can be read back too.
LEMMA SignedThen ==
  ASSUME NEW m \in Int, NEW n \in Int, NEW x, NEW y, Ends(x, Sign), Ends(y, Sign)
  PROVE  /\ SignedDecimal(m) \in Text
         /\ SignedDecimal(m) \o x = SignedDecimal(n) \o y => m = n /\ x = y
<1>1. Sign \in SUBSET Nat /\ 45 \in Sign /\ 45 \notin Digit /\ Digit \subseteq Sign
  BY DEF Sign, Digit
<1>2. ASSUME NEW i \in Int
      PROVE  /\ SignedDecimal(i) \in Seq(Sign)
             /\ i < 0 => SignedDecimal(i) = <<45>> \o Decimal(-i)
             /\ i >= 0 => SignedDecimal(i) = Decimal(i)
  <2>1. CASE i < 0
    <3>1. -i \in Nat
      BY <2>1
    <3>2. Decimal(-i) \in Seq(Digit)
      BY <3>1, DecimalFacts
    <3>3. Decimal(-i) \in Seq(Sign) /\ <<45>> \in Seq(Sign)
      <4>1. Decimal(-i) \in Seq(Sign)
        BY <1>1, <3>2, SeqMonotonic
      <4>2. <<45>> \in Seq(Sign)
        BY <1>1
      <4>3. QED
        BY <4>1, <4>2
    <3>4. <<45>> \o Decimal(-i) \in Seq(Sign)
      BY <3>3, ConcatProperties
    <3>5. SignedDecimal(i) = <<45>> \o Decimal(-i) /\ ~(i >= 0)
      BY <2>1 DEF SignedDecimal
    <3>6. QED
      BY <3>4, <3>5, Zenon
  <2>2. CASE ~(i < 0)
    <3>1. i \in Nat
      BY <2>2
    <3>2. Decimal(i) \in Seq(Digit)
      BY <3>1, DecimalFacts
    <3>3. Decimal(i) \in Seq(Sign)
      BY <1>1, <3>2, SeqMonotonic
    <3>4. SignedDecimal(i) = Decimal(i)
      BY <2>2 DEF SignedDecimal
    <3>5. QED
      BY <2>2, <3>3, <3>4, Zenon
  <2>3. QED
    BY <2>1, <2>2
<1>3. ASSUME NEW i \in Int, NEW j \in Int, i < 0, j >= 0
      PROVE  SignedDecimal(i) # SignedDecimal(j)
  <2>1. -i \in Nat /\ j \in Nat
    BY <1>3
  <2>2. Decimal(-i) \in Text /\ Decimal(j) \in Seq(Digit) /\ Decimal(j) # << >>
    BY <2>1, DecimalFacts
  <2>3. PICK a \in Text, b \in Seq(Digit) : a = Decimal(-i) /\ b = Decimal(j) /\ b # << >>
    BY <2>2
  <2>4. (<<45>> \o a)[1] = 45
    BY <2>3, Begins
  <2>5. b[1] \in Digit
    <3>1. 1 \in 1..Len(b)
      BY <2>3, EmptySeq
    <3>2. QED
      BY <2>3, <3>1, ElementOfSeq
  <2>6. <<45>> \o a # b
    BY <1>1, <2>4, <2>5
  <2>7. QED
    BY <1>2, <1>3, <2>3, <2>6
<1>4. ASSUME NEW i \in Int, NEW j \in Int, SignedDecimal(i) = SignedDecimal(j)
      PROVE  i = j
  <2>1. CASE i < 0 /\ j < 0
    <3>1. PICK k \in Nat, l \in Nat : k = -i /\ l = -j
      BY <2>1
    <3>2. SignedDecimal(i) = <<45>> \o Decimal(k) /\ SignedDecimal(j) = <<45>> \o Decimal(l)
      BY <1>2, <2>1, <3>1
    <3>3. Decimal(k) \in Text /\ Decimal(l) \in Text
      BY <3>1, DecimalFacts
    <3>4. <<45>> \o Decimal(k) = <<45>> \o Decimal(l) => Decimal(k) = Decimal(l)
      BY <3>3, After
    <3>5. Decimal(k) = Decimal(l)
      BY <1>4, <3>2, <3>4, Zenon
    <3>6. k = l
      BY <3>1, <3>5, DecimalFacts
    <3>7. QED
      BY <3>1, <3>6
  <2>2. CASE i >= 0 /\ j >= 0
    <3>1. SignedDecimal(i) = Decimal(i) /\ SignedDecimal(j) = Decimal(j)
      BY <1>2, <2>2
    <3>2. Decimal(i) = Decimal(j)
      BY <1>4, <3>1, Zenon
    <3>3. i \in Nat /\ j \in Nat
      BY <2>2
    <3>4. QED
      BY <3>2, <3>3, DecimalFacts
  <2>3. (i < 0 \/ i >= 0) /\ (j < 0 \/ j >= 0)
    OBVIOUS
  <2>4. QED
    BY <1>3, <1>4, <2>1, <2>2, <2>3
<1>5. SignedDecimal(m) \in Seq(Sign) /\ SignedDecimal(n) \in Seq(Sign)
  BY <1>2
<1>6. SignedDecimal(m) \o x = SignedDecimal(n) \o y
        => SignedDecimal(m) = SignedDecimal(n) /\ x = y
  BY <1>1, <1>5, Split
<1>7. SignedDecimal(m) \in Text
  BY <1>1, <1>5, SeqMonotonic DEF Text
<1>8. QED
  BY <1>4, <1>6, <1>7

-----------------------------------------------------------------------------
(* Texts: lists *)

\* A text built from the left, of what A gives for each number up to n.
LEMMA Gathered ==
  ASSUME NEW n \in Nat, NEW A \in [1..n -> Text]
  PROVE  \E g \in [0..n -> Text] : g[0] = << >> /\ \A i \in 1..n : g[i] = g[i - 1] \o A[i]
<1> DEFINE F == [p \in (1..n) \X Text |-> p[2] \o A[p[1]]]
<1>1. \A i \in 1..n, x \in Text : x \o A[i] \in Text
  BY Joined
<1>2. F \in [(1..n) \X Text -> Text]
  BY <1>1
<1>3. \A i \in 1..n, x \in Text : F[<<i, x>>] = x \o A[i]
  OBVIOUS
<1>4. << >> \in Text
  BY EmptySeq DEF Text
<1> HIDE DEF F
<1>5. PICK g \in [0..n -> Text] : g[0] = << >> /\ Steps(F, g, n)
  BY <1>2, <1>4, Recursion
<1>6. ASSUME NEW i \in 1..n PROVE g[i] = g[i - 1] \o A[i]
  <2>1. i - 1 \in 0..n
    OBVIOUS
  <2>2. g[i - 1] \in Text
    BY <1>5, <2>1
  <2>3. g[i] = F[<<i, g[i - 1]>>]
    BY <1>5 DEF Steps
  <2>4. F[<<i, g[i - 1]>>] = g[i - 1] \o A[i]
    BY <1>3, <2>2, Zenon
  <2>5. QED
    BY <2>3, <2>4
<1>7. QED
  BY <1>5, <1>6

\* What is built like this is a text at every step.
LEMMA GatheredText ==
  ASSUME NEW n \in Nat, NEW A \in [1..n -> Text], NEW G, G[0] = << >>,
         \A i \in 1..n : G[i] = G[i - 1] \o A[i]
  PROVE  \A k \in 0..n : G[k] \in Text
<1> DEFINE T == {k \in Nat : k <= n /\ ~(G[k] \in Text)}
<1>1. SUFFICES ASSUME T # {} PROVE FALSE
  OBVIOUS
<1>2. PICK j \in T : \A i \in T : j <= i
  BY <1>1, Least
<1>3. j \in Nat /\ j <= n /\ ~(G[j] \in Text)
  BY <1>2
<1>4. j # 0
  <2>1. << >> \in Text
    BY EmptySeq DEF Text
  <2>2. QED
    BY <1>3, <2>1
<1>5. j \in 1..n /\ j - 1 \in Nat /\ j - 1 <= n /\ j - 1 < j
  BY <1>3, <1>4
<1>6. ~(j - 1 \in T)
  BY <1>2, <1>3, <1>5
<1>7. G[j - 1] \in Text /\ A[j] \in Text
  BY <1>5, <1>6
<1>8. G[j] = G[j - 1] \o A[j]
  BY <1>5
<1>9. G[j - 1] \o A[j] \in Text
  BY <1>7, Joined
<1>10. QED
  BY <1>3, <1>8, <1>9

\* What the bytes of a scalar are written as.
LEMMA ByteHeadsFacts ==
  ASSUME NEW b \in Seq(Nat)
  PROVE  /\ ByteHeads(b)[0] = << >>
         /\ \A k \in 0..Len(b) : ByteHeads(b)[k] \in Text
         /\ \A k \in 1..Len(b) :
              ByteHeads(b)[k] = (ByteHeads(b)[k - 1] \o Decimal(b[k])) \o <<44>>
<1> DEFINE Rec(g) == g = [k \in 0..Len(b) |->
                            IF k = 0 THEN << >> ELSE g[k - 1] \o Decimal(b[k]) \o <<44>>]
           A == [k \in 1..Len(b) |-> Decimal(b[k]) \o <<44>>]
<1>1. Len(b) \in Nat /\ \A k \in 1..Len(b) : b[k] \in Nat
  OBVIOUS
<1>2. \A k \in 1..Len(b) : Decimal(b[k]) \in Text /\ <<44>> \in Text
  BY <1>1, DecimalFacts, Character
<1>3. A \in [1..Len(b) -> Text]
  BY <1>2, Joined
<1>4. \A k \in 1..Len(b) : A[k] = Decimal(b[k]) \o <<44>>
  OBVIOUS
<1> HIDE DEF A
<1>5. ASSUME NEW x \in Text, NEW k \in 1..Len(b)
      PROVE  x \o A[k] = (x \o Decimal(b[k])) \o <<44>>
  <2>1. PICK d \in Text, c \in Text : d = Decimal(b[k]) /\ c = <<44>>
    BY <1>2
  <2>2. (x \o d) \o c = x \o (d \o c)
    BY <2>1, Bracket, Zenon
  <2>3. QED
    BY <1>4, <2>1, <2>2, Zenon
<1>6. PICK g \in [0..Len(b) -> Text] :
        g[0] = << >> /\ \A i \in 1..Len(b) : g[i] = g[i - 1] \o A[i]
  BY <1>1, <1>3, Gathered
<1>7. ASSUME NEW k \in 0..Len(b)
      PROVE  g[k] = IF k = 0 THEN << >> ELSE g[k - 1] \o Decimal(b[k]) \o <<44>>
  <2>1. CASE k = 0
    BY <1>6, <2>1
  <2>2. CASE k # 0
    <3>1. k \in 1..Len(b) /\ k - 1 \in 0..Len(b)
      BY <1>1, <2>2
    <3>2. g[k - 1] \in Text /\ g[k] = g[k - 1] \o A[k]
      BY <1>6, <3>1
    <3>3. g[k] = (g[k - 1] \o Decimal(b[k])) \o <<44>>
      BY <1>5, <3>1, <3>2, Zenon
    <3>4. QED
      BY <2>2, <3>3, Zenon
  <2>3. QED
    BY <2>1, <2>2
<1>8. Rec(g)
  BY <1>6, <1>7
<1>9. ByteHeads(b) = CHOOSE h : Rec(h)
  BY DEF ByteHeads
<1>10. PICK G : G = ByteHeads(b) /\ Rec(G)
  BY <1>8, <1>9
<1>11. G[0] = << >>
  <2>1. 0 \in 0..Len(b)
    BY <1>1
  <2>2. QED
    BY <1>10, <2>1
<1>12. \A k \in 1..Len(b) : G[k] = (G[k - 1] \o Decimal(b[k])) \o <<44>>
  <2>1. SUFFICES ASSUME NEW k \in 1..Len(b)
                 PROVE  G[k] = (G[k - 1] \o Decimal(b[k])) \o <<44>>
    OBVIOUS
  <2>2. k \in 0..Len(b) /\ k # 0
    BY <1>1
  <2>3. G[k] = IF k = 0 THEN << >> ELSE G[k - 1] \o Decimal(b[k]) \o <<44>>
    BY <1>10, <2>2
  <2>4. QED
    BY <2>2, <2>3, Zenon
<1>13. \A k \in 0..Len(b) : G[k] \in Text
  <2> DEFINE T == {k \in Nat : k <= Len(b) /\ ~(G[k] \in Text)}
  <2>1. SUFFICES ASSUME T # {} PROVE FALSE
    BY <1>1
  <2>2. PICK j \in T : \A i \in T : j <= i
    BY <2>1, Least
  <2>3. j \in Nat /\ j <= Len(b) /\ ~(G[j] \in Text)
    BY <2>2
  <2>4. j # 0
    <3>1. << >> \in Text
      BY EmptySeq DEF Text
    <3>2. QED
      BY <1>11, <2>3, <3>1
  <2>5. j \in 1..Len(b) /\ j - 1 \in Nat /\ j - 1 <= Len(b) /\ j - 1 < j
    BY <1>1, <2>3, <2>4
  <2>6. ~(j - 1 \in T)
    BY <2>2, <2>3, <2>5
  <2>7. G[j - 1] \in Text
    BY <2>5, <2>6
  <2>8. (G[j - 1] \o Decimal(b[j])) \o <<44>> \in Text
    BY <1>2, <2>5, <2>7, Joined
  <2>9. QED
    BY <1>12, <2>3, <2>5, <2>8
<1>14. QED
  BY <1>10, <1>11, <1>12, <1>13

\* The last of the first k bytes, and what follows it.
LEMMA ByteHeadsThen ==
  ASSUME NEW b \in Seq(Nat), NEW k \in 1..Len(b), NEW u \in Text
  PROVE  /\ ByteHeads(b)[k - 1] \in Text /\ <<44>> \o u \in Text
         /\ Decimal(b[k]) \o (<<44>> \o u) \in Text /\ Ends(<<44>> \o u, Digit)
         /\ ByteHeads(b)[k] \o u = ByteHeads(b)[k - 1] \o (Decimal(b[k]) \o (<<44>> \o u))
<1>1. PICK e, d, z : e = ByteHeads(b)[k - 1] /\ d = Decimal(b[k]) /\ z = <<44>>
  OBVIOUS
<1>2. e \in Text
  <2>1. k - 1 \in 0..Len(b)
    OBVIOUS
  <2>2. QED
    BY <1>1, <2>1, ByteHeadsFacts
<1>3. d \in Text /\ z \in Text
  <2>1. b[k] \in Nat /\ 44 \in Nat
    OBVIOUS
  <2>2. QED
    BY <1>1, <2>1, DecimalFacts, Character
<1>4. ByteHeads(b)[k] = (e \o d) \o z
  BY <1>1, ByteHeadsFacts
<1>5. /\ ((e \o d) \o z) \o u = e \o (d \o (z \o u))
      /\ d \o (z \o u) \in Text /\ z \o u \in Text
  BY <1>2, <1>3, Brackets, Zenon
<1>6. Ends(<<44>> \o u, Digit)
  <2>1. 44 \in Nat /\ 44 \notin Digit
    BY DEF Digit
  <2>2. QED
    BY <2>1, Begins
<1>7. QED
  BY <1>1, <1>2, <1>4, <1>5, <1>6, Zenon

\* Bytes can be read back, if it is known how many there are.
LEMMA BytesThen ==
  ASSUME NEW b \in Seq(Nat), NEW c \in Seq(Nat), Len(b) = Len(c),
         NEW x \in Text, NEW y \in Text
  PROVE  /\ BytesText(b) \in Text
         /\ BytesText(b) \o x = BytesText(c) \o y => b = c /\ x = y
<1>1. PICK n \in Nat : n = Len(b) /\ n = Len(c)
  OBVIOUS
<1>2. \A k \in 1..n : b[k] \in Nat /\ c[k] \in Nat
  BY <1>1
<1> DEFINE Same(k) == \A u, v \in Text :
             ByteHeads(b)[k] \o u = ByteHeads(c)[k] \o v
               => u = v /\ \A i \in 1..k : b[i] = c[i]
           T == {k \in Nat : k <= n /\ ~Same(k)}
<1>3. T = {}
  <2>1. SUFFICES ASSUME T # {} PROVE FALSE
    OBVIOUS
  <2>2. PICK k \in T : \A i \in T : k <= i
    BY <2>1, Least
  <2>3. k \in Nat /\ k <= n /\ ~Same(k)
    BY <2>2
  <2>4. k # 0
    <3>1. ByteHeads(b)[0] = << >> /\ ByteHeads(c)[0] = << >>
      BY ByteHeadsFacts
    <3>2. \A u \in Text : << >> \o u = u
      BY ConcatEmptySeq DEF Text
    <3>3. Same(0)
      BY <3>1, <3>2
    <3>4. QED
      BY <2>3, <3>3
  <2>5. k \in 1..n /\ k - 1 \in 0..n /\ k - 1 \in Nat /\ k - 1 <= n /\ k - 1 < k
    BY <2>3, <2>4
  <2>6. Same(k - 1)
    <3>1. PICK l \in Nat : l = k - 1 /\ l <= n /\ l < k
      BY <2>5
    <3>2. ~(k <= l)
      BY <2>3, <3>1
    <3>3. ~(l \in T)
      BY <2>2, <3>2
    <3>4. Same(l)
      BY <3>1, <3>3
    <3>5. QED
      BY <3>1, <3>4
  <2> HIDE DEF T
  <2>7. ASSUME NEW u \in Text, NEW v \in Text,
               ByteHeads(b)[k] \o u = ByteHeads(c)[k] \o v
        PROVE  u = v /\ \A i \in 1..k : b[i] = c[i]
    <3>1. PICK p, q : p = <<44>> \o u /\ q = <<44>> \o v
      OBVIOUS
    <3>2. /\ ByteHeads(b)[k - 1] \in Text /\ Decimal(b[k]) \o p \in Text /\ Ends(p, Digit)
          /\ ByteHeads(b)[k] \o u = ByteHeads(b)[k - 1] \o (Decimal(b[k]) \o p)
      <4>1. k \in 1..Len(b)
        BY <1>1, <2>5
      <4>2. /\ ByteHeads(b)[k - 1] \in Text
            /\ Decimal(b[k]) \o (<<44>> \o u) \in Text /\ Ends(<<44>> \o u, Digit)
            /\ ByteHeads(b)[k] \o u = ByteHeads(b)[k - 1] \o (Decimal(b[k]) \o (<<44>> \o u))
        BY <4>1, ByteHeadsThen, ZenonT(30)
      <4>3. QED
        BY <3>1, <4>2, Zenon
    <3>3. /\ ByteHeads(c)[k - 1] \in Text /\ Decimal(c[k]) \o q \in Text /\ Ends(q, Digit)
          /\ ByteHeads(c)[k] \o v = ByteHeads(c)[k - 1] \o (Decimal(c[k]) \o q)
      <4>1. k \in 1..Len(c)
        BY <1>1, <2>5
      <4>2. /\ ByteHeads(c)[k - 1] \in Text
            /\ Decimal(c[k]) \o (<<44>> \o v) \in Text /\ Ends(<<44>> \o v, Digit)
            /\ ByteHeads(c)[k] \o v = ByteHeads(c)[k - 1] \o (Decimal(c[k]) \o (<<44>> \o v))
        BY <4>1, ByteHeadsThen, ZenonT(30)
      <4>3. QED
        BY <3>1, <4>2, Zenon
    <3>4. ByteHeads(b)[k - 1] \o (Decimal(b[k]) \o p)
            = ByteHeads(c)[k - 1] \o (Decimal(c[k]) \o q)
      BY <2>7, <3>2, <3>3, Zenon
    <3>5. Decimal(b[k]) \o p = Decimal(c[k]) \o q /\ \A i \in 1..(k - 1) : b[i] = c[i]
      BY <2>6, <3>2, <3>3, <3>4, Zenon
    <3>6. PICK m \in Nat, o \in Nat : m = b[k] /\ o = c[k]
      BY <1>2, <2>5
    <3>7. Decimal(m) \o p = Decimal(o) \o q => m = o /\ p = q
      <4>1. m \in Nat /\ o \in Nat /\ Ends(p, Digit) /\ Ends(q, Digit)
        BY <3>2, <3>3, <3>6
      <4>2. QED
        BY <4>1, NumeralThen
    <3>8. b[k] = c[k] /\ p = q
      BY <3>5, <3>6, <3>7, Zenon
    <3>9. <<44>> \o u = <<44>> \o v => u = v
      BY After
    <3>10. u = v
      BY <3>1, <3>8, <3>9, Zenon
    <3>11. \A i \in 1..k : i \in 1..(k - 1) \/ i = k
      BY <2>5
    <3>12. QED
      BY <3>5, <3>8, <3>10, <3>11
  <2>8. QED
    BY <2>3, <2>7
<1>4. Same(n)
  <2>1. n \in Nat /\ n <= n
    BY <1>1
  <2>2. QED
    BY <1>3, <2>1
<1>5. BytesText(b) = ByteHeads(b)[n] /\ BytesText(c) = ByteHeads(c)[n]
  BY <1>1 DEF BytesText
<1>6. BytesText(b) \in Text
  <2>1. n \in 0..Len(b)
    BY <1>1
  <2>2. QED
    BY <1>5, <2>1, ByteHeadsFacts
<1>7. ASSUME BytesText(b) \o x = BytesText(c) \o y PROVE b = c /\ x = y
  <2>1. x = y /\ \A i \in 1..n : b[i] = c[i]
    BY <1>4, <1>5, <1>7
  <2>2. QED
    BY <1>1, <2>1, SeqEqual
<1>8. QED
  BY <1>6, <1>7

-----------------------------------------------------------------------------
(* Texts: values *)

\* x does not go on with what a number could.
Stops(x) == Ends(x, Sign)

\* Nor with a digit.
LEMMA StopsDigits == \A x : Stops(x) => x \in Text /\ Ends(x, Digit) /\ Ends(x, Sign)
BY DEF Stops, Ends, Sign

ScalarValues == [kind : {"scalar"}, dtype : Nat \X Nat, val : Bytes]

\* A scalar's text and what follows it, from its beginning on.
ScalarParts(v, x, o, p, q) ==
  /\ ValueText(v) \in Text
  /\ ValueText(v) \o x = <<69>> \o (Decimal(v.dtype[1]) \o q)
  /\ Decimal(v.dtype[1]) \o q \in Text /\ v.dtype[1] \in Nat /\ Ends(q, Digit)
  /\ q = <<46>> \o (Decimal(v.dtype[2]) \o p)
  /\ Decimal(v.dtype[2]) \o p \in Text /\ v.dtype[2] \in Nat /\ Ends(p, Digit)
  /\ p = <<58>> \o o
  /\ o = BytesText(v.val) \o x /\ o \in Text

\* A scalar's text has these parts.
LEMMA ScalarText ==
  ASSUME NEW v \in ScalarValues, NEW x \in Text
  PROVE  \E o, p, q : ScalarParts(v, x, o, p, q)
<1> DEFINE m == v.dtype[1]
           n == v.dtype[2]
           s == BytesText(v.val)
<1>1. m \in Nat /\ n \in Nat /\ s \in Text
  <2>1. m \in Nat /\ n \in Nat /\ v.val \in Bytes
    BY DEF ScalarValues
  <2>2. 0..(Byte - 1) \subseteq Nat
    BY NumberAssumption
  <2>3. v.val \in Seq(Nat)
    BY <2>1, <2>2, SeqMonotonic DEF Bytes
  <2>4. QED
    BY <2>1, <2>3, BytesThen
<1>2. ValueText(v) = <<69>> \o Decimal(m) \o <<46>> \o Decimal(n) \o <<58>> \o s
  BY DEF ValueText, ScalarValues
<1> HIDE DEF m, n, s
<1>3. PICK a, b, c, d, e : /\ a = <<69>> /\ b = Decimal(m) /\ c = <<46>>
                           /\ d = Decimal(n) /\ e = <<58>>
  OBVIOUS
<1>4. a \in Text /\ b \in Text /\ c \in Text
  BY <1>1, <1>3, DecimalFacts, Character
<1>5. d \in Text /\ e \in Text
  BY <1>1, <1>3, DecimalFacts, Character
<1>6. PICK q : q = Cat(d, Cat(e, Cat(s, x)))
  OBVIOUS
<1>7. /\ Cat(s, x) \in Text /\ Cat(e, Cat(s, x)) \in Text /\ q \in Text
      /\ Cat(b, Cat(c, q)) \in Text
      /\ Cat(Cat(Cat(Cat(Cat(a, b), c), d), e), s) \in Text
  <2>1. Cat(s, x) \in Text /\ Cat(e, Cat(s, x)) \in Text /\ q \in Text
    BY <1>1, <1>5, <1>6, CatFacts
  <2>2. Cat(b, Cat(c, q)) \in Text
    BY <1>4, <2>1, CatFacts
  <2>3. Cat(Cat(Cat(Cat(Cat(a, b), c), d), e), s) \in Text
    BY <1>1, <1>4, <1>5, CatFacts
  <2>4. QED
    BY <2>1, <2>2, <2>3
<1>8. Cat(Cat(Cat(Cat(Cat(Cat(a, b), c), d), e), s), x) = Cat(a, Cat(b, Cat(c, q)))
  <2>1. PICK f : f = Cat(Cat(a, b), c)
    OBVIOUS
  <2>2. f \in Text
    BY <1>4, <2>1, CatFacts
  <2>3. Cat(Cat(Cat(Cat(f, d), e), s), x) = Cat(f, Cat(d, Cat(e, Cat(s, x))))
    BY <1>1, <1>5, <2>2, MoreBrackets
  <2>4. Cat(f, q) = Cat(Cat(a, b), Cat(c, q))
    <3>1. Cat(a, b) \in Text
      BY <1>4, CatFacts
    <3>2. Cat(Cat(Cat(a, b), c), q) = Cat(Cat(a, b), Cat(c, q))
      BY <1>4, <1>7, <3>1, CatFacts
    <3>3. QED
      BY <2>1, <3>2, Zenon
  <2>5. Cat(Cat(a, b), Cat(c, q)) = Cat(a, Cat(b, Cat(c, q)))
    BY <1>4, <1>7, CatFacts
  <2>6. QED
    BY <1>6, <2>1, <2>3, <2>4, <2>5, Zenon
<1>9. /\ s \o x \in Text /\ e \o (s \o x) \in Text /\ q \in Text /\ q = d \o (e \o (s \o x))
      /\ b \o (c \o q) \in Text
      /\ ((((a \o b) \o c) \o d) \o e) \o s \in Text
      /\ (((((a \o b) \o c) \o d) \o e) \o s) \o x = a \o (b \o (c \o q))
  BY <1>6, <1>7, <1>8 DEF Cat
<1>10. 46 \notin Digit /\ 58 \notin Digit /\ 46 \in Nat /\ 58 \in Nat
  BY DEF Digit
<1>11. Ends(<<46>> \o q, Digit)
  BY <1>9, <1>10, Begins
<1>12. Ends(<<58>> \o (s \o x), Digit)
  BY <1>9, <1>10, Begins
<1>13. PICK o, p : o = s \o x /\ p = <<58>> \o o
  OBVIOUS
<1>14. /\ ValueText(v) \in Text
       /\ ValueText(v) \o x = <<69>> \o (Decimal(m) \o (<<46>> \o q))
       /\ Decimal(m) \o (<<46>> \o q) \in Text /\ Ends(<<46>> \o q, Digit)
       /\ q = Decimal(n) \o p /\ q \in Text /\ Ends(p, Digit) /\ o \in Text
  BY <1>2, <1>3, <1>9, <1>11, <1>12, <1>13, Zenon
<1>15. ScalarParts(v, x, o, p, <<46>> \o q)
  BY <1>1, <1>13, <1>14, Zenon DEF ScalarParts, m, n, s
<1>16. QED
  BY <1>15

\* A scalar's text gives the dtype back, and the bytes.
LEMMA ScalarThen ==
  ASSUME NEW v \in ScalarValues, NEW w \in ScalarValues,
         Len(v.val) = NumberOfBytes(v.dtype), Len(w.val) = NumberOfBytes(w.dtype),
         NEW x \in Text, NEW y \in Text
  PROVE  /\ ValueText(v) \in Text
         /\ ValueText(v) \o x = ValueText(w) \o y => v = w
<1>1. PICK m \in Nat, n \in Nat, b \in Bytes :
        /\ v = [kind |-> "scalar", dtype |-> <<m, n>>, val |-> b]
        /\ m = v.dtype[1] /\ n = v.dtype[2] /\ b = v.val
  BY DEF ScalarValues
<1>2. PICK k \in Nat, l \in Nat, c \in Bytes :
        /\ w = [kind |-> "scalar", dtype |-> <<k, l>>, val |-> c]
        /\ k = w.dtype[1] /\ l = w.dtype[2] /\ c = w.val
  BY DEF ScalarValues
<1>3. b \in Seq(Nat) /\ c \in Seq(Nat)
  <2>1. 0..(Byte - 1) \subseteq Nat
    BY NumberAssumption
  <2>2. QED
    BY <1>1, <1>2, <2>1, SeqMonotonic DEF Bytes
<1>4. PICK o, p, q : ScalarParts(v, x, o, p, q)
  BY ScalarText
<1>5. PICK f, g, h : ScalarParts(w, y, f, g, h)
  BY ScalarText
<1>6. /\ ValueText(v) \in Text /\ ValueText(v) \o x = <<69>> \o (Decimal(m) \o q)
       /\ Decimal(m) \o q \in Text /\ Ends(q, Digit)
       /\ Decimal(n) \o p \in Text /\ Ends(p, Digit) /\ o \in Text
       /\ q = <<46>> \o (Decimal(n) \o p) /\ p = <<58>> \o o /\ o = BytesText(b) \o x
  BY <1>1, <1>4, Zenon DEF ScalarParts
<1>7. /\ ValueText(w) \o y = <<69>> \o (Decimal(k) \o h)
       /\ Decimal(k) \o h \in Text /\ Ends(h, Digit)
       /\ Decimal(l) \o g \in Text /\ Ends(g, Digit) /\ f \in Text
       /\ h = <<46>> \o (Decimal(l) \o g) /\ g = <<58>> \o f /\ f = BytesText(c) \o y
  BY <1>2, <1>5, Zenon DEF ScalarParts
<1>8. ASSUME ValueText(v) \o x = ValueText(w) \o y PROVE v = w
  <2>1. Decimal(m) \o q = Decimal(k) \o h
    <3>1. <<69>> \o (Decimal(m) \o q) = <<69>> \o (Decimal(k) \o h)
            => Decimal(m) \o q = Decimal(k) \o h
      <4>1. /\ Decimal(m) \o q \in Text /\ Decimal(k) \o h \in Text
            /\ 46 \in Nat /\ 58 \in Nat /\ 69 \in Nat
        BY <1>6, <1>7
      <4>2. QED
        BY <4>1, After
    <3>2. QED
      BY <1>6, <1>7, <1>8, <3>1, Zenon
  <2>2. m = k /\ q = h
    <3>1. Decimal(m) \o q = Decimal(k) \o h => m = k /\ q = h
      <4>1. m \in Nat /\ k \in Nat /\ Ends(q, Digit) /\ Ends(h, Digit)
        BY <1>1, <1>2, <1>6, <1>7
      <4>2. QED
        BY <4>1, NumeralThen
    <3>2. QED
      BY <2>1, <3>1, Zenon
  <2>3. Decimal(n) \o p = Decimal(l) \o g
    <3>1. <<46>> \o (Decimal(n) \o p) = <<46>> \o (Decimal(l) \o g)
            => Decimal(n) \o p = Decimal(l) \o g
      <4>1. /\ Decimal(n) \o p \in Text /\ Decimal(l) \o g \in Text
            /\ 46 \in Nat /\ 58 \in Nat /\ 69 \in Nat
        BY <1>6, <1>7
      <4>2. QED
        BY <4>1, After
    <3>2. QED
      BY <1>6, <1>7, <2>2, <3>1, Zenon
  <2>4. n = l /\ p = g
    <3>1. Decimal(n) \o p = Decimal(l) \o g => n = l /\ p = g
      <4>1. n \in Nat /\ l \in Nat /\ Ends(p, Digit) /\ Ends(g, Digit)
        BY <1>1, <1>2, <1>6, <1>7
      <4>2. QED
        BY <4>1, NumeralThen
    <3>2. QED
      BY <2>3, <3>1, Zenon
  <2>5. o = f
    <3>1. <<58>> \o o = <<58>> \o f => o = f
      <4>1. o \in Text /\ f \in Text /\ 46 \in Nat /\ 58 \in Nat /\ 69 \in Nat
        BY <1>6, <1>7
      <4>2. QED
        BY <4>1, After
    <3>2. QED
      BY <1>6, <1>7, <2>4, <3>1, Zenon
  <2>6. Len(b) = Len(c)
    <3>1. v.dtype = w.dtype
      BY <1>1, <1>2, <2>2, <2>4
    <3>2. QED
      BY <1>1, <1>2, <3>1
  <2>7. BytesText(b) \o x = BytesText(c) \o y => b = c
    BY <1>3, <2>6, BytesThen
  <2>8. b = c
    BY <1>6, <1>7, <2>5, <2>7, Zenon
  <2>9. QED
    BY <1>1, <1>2, <2>2, <2>4, <2>8
<1>9. QED
  BY <1>6, <1>8

\* What each kind of value is written as.
LEMMA ValueKinds ==
  ASSUME NEW v \in Values, ~Unparsable(v)
  PROVE  \/ /\ v.kind = "bool" /\ v = [kind |-> "bool", val |-> v.val] /\ v.val \in Nat
            /\ ValueText(v) = <<66>> \o Decimal(v.val)
         \/ /\ v.kind = "int" /\ v = [kind |-> "int", val |-> v.val] /\ v.val \in Int
            /\ ValueText(v) = <<73>> \o SignedDecimal(v.val)
         \/ /\ v.kind = "float" /\ v = [kind |-> "float", val |-> v.val] /\ v.val \in Int64
            /\ ValueText(v) = <<70>> \o Decimal(DoubleBits(v.val))
         \/ /\ v.kind = "scalar" /\ v \in ScalarValues /\ Len(v.val) = NumberOfBytes(v.dtype)
<1>1. v.kind # "object"
  BY DEF Unparsable
<1>2. CASE v \in [kind : {"bool"}, val : {0, 1}]
  BY <1>2 DEF ValueText
<1>3. CASE v \in [kind : {"int"}, val : Int]
  BY <1>3 DEF ValueText
<1>4. CASE v \in [kind : {"float"}, val : Int64]
  BY <1>4 DEF ValueText
<1>5. CASE v \in {u \in [kind : {"scalar"}, dtype : Nat \X Nat, val : Bytes] :
                    Len(u.val) = NumberOfBytes(u.dtype)}
  BY <1>5 DEF ScalarValues
<1>6. CASE v \in [kind : {"object"}]
  BY <1>1, <1>6
<1>7. QED
  BY <1>2, <1>3, <1>4, <1>5, <1>6 DEF Values

\* The bits of two doubles differ.
LEMMA DoubleBitsFacts ==
  \A v, w \in Int64 : /\ DoubleBits(v) \in Nat
                      /\ DoubleBits(v) = DoubleBits(w) => v = w
<1>1. \A t \in {"long"} : Span(t) \in Nat
  BY NumberAssumption DEF Span, Square, Width, ConstantDtype
<1>2. PICK s \in Nat : s = Span("long")
  BY <1>1
<1>3. PICK l \in Int : l = Lowest("long")
  BY <1>2, Division DEF Lowest, Signed
<1>4. \A v \in Int64 : v \in Int /\ l <= v
  BY <1>3 DEF Int64
<1>5. QED
  BY <1>3, <1>4 DEF DoubleBits

\* The letter that the text of a value begins with.
Letter(kind) ==
  IF kind = "bool" THEN 66 ELSE IF kind = "int" THEN 73 ELSE IF kind = "float" THEN 70 ELSE 69

\* A value's text and what follows it, after the letter.
ValueRest(v, x, z) ==
  /\ z \in Text /\ ValueText(v) \in Text
  /\ ValueText(v) \o x = <<Letter(v.kind)>> \o z
  /\ v.kind = "bool"  => z = Decimal(v.val) \o x
  /\ v.kind = "int"   => z = SignedDecimal(v.val) \o x
  /\ v.kind = "float" => z = Decimal(DoubleBits(v.val)) \o x

\* A letter in front of two texts.
LEMMA Lettered ==
  ASSUME NEW c \in Nat, NEW a \in Text, NEW x \in Text
  PROVE  /\ <<c>> \o a \in Text /\ a \o x \in Text
         /\ (<<c>> \o a) \o x = <<c>> \o (a \o x)
<1>1. PICK p : p = <<c>>
  OBVIOUS
<1>2. p \in Text
  BY <1>1, Character
<1>3. (p \o a) \o x = p \o (a \o x)
  BY <1>2, Bracket
<1>4. p \o a \in Text /\ a \o x \in Text
  BY <1>2, Joined
<1>5. QED
  BY <1>1, <1>3, <1>4, Zenon

\* A value's text begins with its letter.
LEMMA ValueHead ==
  ASSUME NEW v \in Values, ~Unparsable(v), NEW x \in Text
  PROVE  \E z : ValueRest(v, x, z)
<1>1. CASE /\ v.kind = "bool" /\ v.val \in Nat
           /\ ValueText(v) = <<66>> \o Decimal(v.val)
  <2>1. PICK a : a = Decimal(v.val)
    OBVIOUS
  <2>2. a \in Text
    BY <1>1, <2>1, DecimalFacts
  <2>3. <<66>> \o a \in Text /\ a \o x \in Text /\ (<<66>> \o a) \o x = <<66>> \o (a \o x)
    BY <2>2, Lettered
  <2>4. Letter(v.kind) = 66 /\ v.kind # "int" /\ v.kind # "float"
    BY <1>1 DEF Letter
  <2>5. ValueRest(v, x, a \o x)
    BY <1>1, <2>1, <2>3, <2>4, Zenon DEF ValueRest
  <2>6. QED
    BY <2>5
<1>2. CASE /\ v.kind = "int" /\ v.val \in Int
           /\ ValueText(v) = <<73>> \o SignedDecimal(v.val)
  <2>1. PICK a : a = SignedDecimal(v.val)
    OBVIOUS
  <2>2. a \in Text
    <3>1. Ends(<< >>, Sign)
      BY EmptySeq DEF Ends, Text
    <3>2. QED
      BY <1>2, <2>1, <3>1, SignedThen
  <2>3. <<73>> \o a \in Text /\ a \o x \in Text /\ (<<73>> \o a) \o x = <<73>> \o (a \o x)
    BY <2>2, Lettered
  <2>4. Letter(v.kind) = 73 /\ v.kind # "bool" /\ v.kind # "float"
    BY <1>2 DEF Letter
  <2>5. ValueRest(v, x, a \o x)
    BY <1>2, <2>1, <2>3, <2>4, Zenon DEF ValueRest
  <2>6. QED
    BY <2>5
<1>3. CASE /\ v.kind = "float" /\ v.val \in Int64
           /\ ValueText(v) = <<70>> \o Decimal(DoubleBits(v.val))
  <2>1. PICK a : a = Decimal(DoubleBits(v.val))
    OBVIOUS
  <2>2. a \in Text
    <3>1. DoubleBits(v.val) \in Nat
      BY <1>3, DoubleBitsFacts
    <3>2. QED
      BY <2>1, <3>1, DecimalFacts
  <2>3. <<70>> \o a \in Text /\ a \o x \in Text /\ (<<70>> \o a) \o x = <<70>> \o (a \o x)
    BY <2>2, Lettered
  <2>4. Letter(v.kind) = 70 /\ v.kind # "bool" /\ v.kind # "int"
    BY <1>3 DEF Letter
  <2>5. ValueRest(v, x, a \o x)
    BY <1>3, <2>1, <2>3, <2>4, Zenon DEF ValueRest
  <2>6. QED
    BY <2>5
<1>4. CASE v.kind = "scalar" /\ v \in ScalarValues
  <2>1. PICK o, p, q : ScalarParts(v, x, o, p, q)
    BY <1>4, ScalarText
  <2>2. PICK z : z = Decimal(v.dtype[1]) \o q
    OBVIOUS
  <2>3. z \in Text /\ ValueText(v) \in Text /\ ValueText(v) \o x = <<69>> \o z
    BY <2>1, <2>2, Zenon DEF ScalarParts
  <2>4. Letter(v.kind) = 69 /\ v.kind # "bool" /\ v.kind # "int" /\ v.kind # "float"
    BY <1>4 DEF Letter
  <2>5. ValueRest(v, x, z)
    BY <2>3, <2>4, Zenon DEF ValueRest
  <2>6. QED
    BY <2>5
<1>5. QED
  BY <1>1, <1>2, <1>3, <1>4, ValueKinds

\* A value can be read back from its text, if nothing that a number could goes on with follows.
LEMMA ValueThen ==
  ASSUME NEW v \in Values, ~Unparsable(v), NEW w \in Values, ~Unparsable(w),
         NEW x, NEW y, Stops(x), Stops(y)
  PROVE  /\ ValueText(v) \in Text
         /\ ValueText(v) \o x = ValueText(w) \o y => v = w
<1>1. /\ x \in Text /\ Ends(x, Digit) /\ Ends(x, Sign)
      /\ y \in Text /\ Ends(y, Digit) /\ Ends(y, Sign)
  BY StopsDigits
<1>2. PICK z : ValueRest(v, x, z)
  BY <1>1, ValueHead
<1>3. PICK u : ValueRest(w, y, u)
  BY <1>1, ValueHead
<1>4. ValueText(v) \in Text
  BY <1>2 DEF ValueRest
<1>5. /\ v.kind \in {"bool", "int", "float", "scalar"}
      /\ w.kind \in {"bool", "int", "float", "scalar"}
  <2>1. v.kind \in {"bool", "int", "float", "scalar"}
    BY ValueKinds
  <2>2. w.kind \in {"bool", "int", "float", "scalar"}
    BY ValueKinds
  <2>3. QED
    BY <2>1, <2>2
<1>6. ASSUME ValueText(v) \o x = ValueText(w) \o y PROVE v = w
  <2>1. PICK c \in Nat, d \in Nat : c = Letter(v.kind) /\ d = Letter(w.kind)
    BY DEF Letter
  <2>2. <<c>> \o z = <<d>> \o u /\ z \in Text /\ u \in Text
    BY <1>2, <1>3, <1>6, <2>1, Zenon DEF ValueRest
  <2>3. c = d
    BY <2>2, Unlike
  <2>4. v.kind = w.kind
    BY <1>5, <2>1, <2>3 DEF Letter
  <2>5. z = u
    <3>1. <<c>> \o z = <<c>> \o u => z = u
      BY <2>2, After
    <3>2. QED
      BY <2>2, <2>3, <3>1, Zenon
  <2>6. CASE v.kind = "bool"
    <3>1. /\ v = [kind |-> "bool", val |-> v.val] /\ v.val \in Nat
          /\ w = [kind |-> "bool", val |-> w.val] /\ w.val \in Nat
      BY <2>4, <2>6, ValueKinds
    <3>2. Decimal(v.val) \o x = Decimal(w.val) \o y
      BY <1>2, <1>3, <2>4, <2>5, <2>6, Zenon DEF ValueRest
    <3>3. v.val = w.val
      <4>1. Decimal(v.val) \o x = Decimal(w.val) \o y => v.val = w.val /\ x = y
        BY <1>1, <3>1, NumeralThen
      <4>2. QED
        BY <3>2, <4>1, Zenon
    <3>4. QED
      BY <3>1, <3>3
  <2>7. CASE v.kind = "int"
    <3>1. /\ v = [kind |-> "int", val |-> v.val] /\ v.val \in Int
          /\ w = [kind |-> "int", val |-> w.val] /\ w.val \in Int
      BY <2>4, <2>7, ValueKinds
    <3>2. SignedDecimal(v.val) \o x = SignedDecimal(w.val) \o y
      BY <1>2, <1>3, <2>4, <2>5, <2>7, Zenon DEF ValueRest
    <3>3. v.val = w.val
      <4>1. SignedDecimal(v.val) \o x = SignedDecimal(w.val) \o y => v.val = w.val /\ x = y
        BY <1>1, <3>1, SignedThen
      <4>2. QED
        BY <3>2, <4>1, Zenon
    <3>4. QED
      BY <3>1, <3>3
  <2>8. CASE v.kind = "float"
    <3>1. /\ v = [kind |-> "float", val |-> v.val] /\ v.val \in Int64
          /\ w = [kind |-> "float", val |-> w.val] /\ w.val \in Int64
      BY <2>4, <2>8, ValueKinds
    <3>2. Decimal(DoubleBits(v.val)) \o x = Decimal(DoubleBits(w.val)) \o y
      BY <1>2, <1>3, <2>4, <2>5, <2>8, Zenon DEF ValueRest
    <3>3. PICK k, l : k = DoubleBits(v.val) /\ l = DoubleBits(w.val)
      OBVIOUS
    <3>4. k \in Nat /\ l \in Nat /\ (k = l => v.val = w.val)
      BY <3>1, <3>3, DoubleBitsFacts
    <3>5. Decimal(k) \o x = Decimal(l) \o y => k = l /\ x = y
      BY <1>1, <3>4, NumeralThen
    <3>6. v.val = w.val
      BY <3>2, <3>3, <3>4, <3>5, Zenon
    <3>7. QED
      BY <3>1, <3>6
  <2>9. CASE v.kind = "scalar"
    <3>1. /\ v \in ScalarValues /\ Len(v.val) = NumberOfBytes(v.dtype)
          /\ w \in ScalarValues /\ Len(w.val) = NumberOfBytes(w.dtype)
      BY <2>4, <2>9, ValueKinds
    <3>2. ValueText(v) \o x = ValueText(w) \o y => v = w
      BY <1>1, <3>1, ScalarThen
    <3>3. QED
      BY <1>6, <3>2, Zenon
  <2>10. QED
    BY <1>5, <2>6, <2>7, <2>8, <2>9
<1>7. QED
  BY <1>4, <1>6

-----------------------------------------------------------------------------
(* Texts: the items of a key *)

\* Texts under some of the names.
Itemized(f) ==
  /\ f \in [DOMAIN f -> Text]
  /\ \A n \in DOMAIN f : \E i \in 1..Len(NameOrder) : n = NameOrder[i]

\* The names are texts and differ.
LEMMA NameFacts ==
  /\ Len(NameOrder) \in Nat
  /\ \A i \in 1..Len(NameOrder) : NameOrder[i] \in Text
  /\ \A i, j \in 1..Len(NameOrder) : NameOrder[i] = NameOrder[j] => i = j
BY RequestAssumption

\* What an item is, and what follows it.
ItemParts(f, n, x) ==
  /\ Item(f, n) \in Text
  /\ n \notin DOMAIN f => Item(f, n) = << >> /\ Item(f, n) \o x = x
  /\ n \in DOMAIN f =>
       /\ f[n] \in Text /\ f[n] \o x \in Text /\ <<61>> \o (f[n] \o x) \in Text
       /\ Field(n) \o (<<61>> \o (f[n] \o x)) \in Text
       /\ Item(f, n) \o x = <<59>> \o (Field(n) \o (<<61>> \o (f[n] \o x)))

\* An item has these parts.
LEMMA ItemFacts ==
  ASSUME NEW f, Itemized(f), NEW n \in Text, NEW x \in Text
  PROVE  ItemParts(f, n, x)
<1>1. CASE n \notin DOMAIN f
  <2>1. Item(f, n) = << >>
    BY <1>1 DEF Item
  <2>2. << >> \in Text /\ << >> \o x = x
    BY EmptySeq, ConcatEmptySeq DEF Text
  <2>3. QED
    BY <1>1, <2>1, <2>2, Zenon DEF ItemParts
<1>2. CASE n \in DOMAIN f
  <2>1. PICK a, b, c, d : a = <<59>> /\ b = Field(n) /\ c = <<61>> /\ d = f[n]
    OBVIOUS
  <2>2. a \in Text /\ c \in Text
    BY <2>1, Character
  <2>3. b \in Text
    <3>1. << >> \in Text
      BY EmptySeq DEF Text
    <3>2. QED
      BY <2>1, <3>1, FieldFacts
  <2>4. d \in Text
    BY <1>2, <2>1 DEF Itemized
  <2>5. Item(f, n) = Cat(Cat(Cat(a, b), c), d)
    BY <1>2, <2>1 DEF Item, Cat
  <2>6. /\ Cat(Cat(Cat(Cat(a, b), c), d), x) = Cat(a, Cat(b, Cat(c, Cat(d, x))))
        /\ Cat(Cat(Cat(a, b), c), d) \in Text /\ Cat(d, x) \in Text
        /\ Cat(c, Cat(d, x)) \in Text /\ Cat(b, Cat(c, Cat(d, x))) \in Text
    BY <2>2, <2>3, <2>4, MoreBrackets
  <2>7. /\ Item(f, n) \in Text /\ d \o x \in Text /\ c \o (d \o x) \in Text
        /\ b \o (c \o (d \o x)) \in Text
        /\ Item(f, n) \o x = a \o (b \o (c \o (d \o x)))
    BY <2>5, <2>6 DEF Cat
  <2>8. QED
    BY <1>2, <2>1, <2>4, <2>7, Zenon DEF ItemParts
<1>3. QED
  BY <1>1, <1>2

\* The heads of the items.
LEMMA HeadsFacts ==
  ASSUME NEW f, Itemized(f)
  PROVE  /\ Heads(f)[0] = << >>
         /\ \A k \in 0..Len(NameOrder) : Heads(f)[k] \in Text
         /\ \A k \in 1..Len(NameOrder) :
              Heads(f)[k] = Heads(f)[k - 1] \o Item(f, NameOrder[k])
<1> DEFINE N == Len(NameOrder)
           Rec(g) == g = [k \in 0..N |->
                            IF k = 0 THEN << >> ELSE g[k - 1] \o Item(f, NameOrder[k])]
           A == [k \in 1..N |-> Item(f, NameOrder[k])]
<1>1. N \in Nat
  BY NameFacts
<1>2. A \in [1..N -> Text]
  <2>1. << >> \in Text
    BY EmptySeq DEF Text
  <2>2. \A k \in 1..N : Item(f, NameOrder[k]) \in Text
    BY <2>1, NameFacts, ItemFacts DEF ItemParts
  <2>3. QED
    BY <2>2
<1>3. \A k \in 1..N : A[k] = Item(f, NameOrder[k])
  OBVIOUS
<1>4. Heads(f) = CHOOSE h : Rec(h)
  BY DEF Heads
<1> HIDE DEF A, N
<1>5. PICK g \in [0..N -> Text] : g[0] = << >> /\ \A i \in 1..N : g[i] = g[i - 1] \o A[i]
  BY <1>1, <1>2, Gathered
<1>6. ASSUME NEW k \in 0..N
      PROVE  g[k] = IF k = 0 THEN << >> ELSE g[k - 1] \o Item(f, NameOrder[k])
  <2>1. CASE k = 0
    BY <1>5, <2>1
  <2>2. CASE k # 0
    <3>1. k \in 1..N
      BY <1>1, <2>2
    <3>2. QED
      BY <1>3, <1>5, <2>2, <3>1, Zenon
  <2>3. QED
    BY <2>1, <2>2
<1>7. Rec(g)
  BY <1>5, <1>6
<1>8. PICK G : G = Heads(f) /\ Rec(G)
  BY <1>4, <1>7
<1>9. G[0] = << >>
  <2>1. 0 \in 0..N
    BY <1>1
  <2>2. QED
    BY <1>8, <2>1
<1>10. \A k \in 1..N : G[k] = G[k - 1] \o Item(f, NameOrder[k])
  <2>1. SUFFICES ASSUME NEW k \in 1..N PROVE G[k] = G[k - 1] \o Item(f, NameOrder[k])
    OBVIOUS
  <2>2. k \in 0..N /\ k # 0
    BY <1>1
  <2>3. G[k] = IF k = 0 THEN << >> ELSE G[k - 1] \o Item(f, NameOrder[k])
    BY <1>8, <2>2
  <2>4. QED
    BY <2>2, <2>3, Zenon
<1>11. \A k \in 1..N : G[k] = G[k - 1] \o A[k]
  BY <1>3, <1>10
<1>12. \A k \in 0..N : G[k] \in Text
  BY <1>1, <1>2, <1>9, <1>11, GatheredText
<1>13. QED
  BY <1>8, <1>9, <1>10, <1>12 DEF N

\* What follows the heads up to a name is empty, or it begins with the item of a later name.
Opens(x, k) ==
  /\ x \in Text
  /\ \/ x = << >>
     \/ \E j \in 1..Len(NameOrder), z \in Text :
          k < j /\ x = <<59>> \o (Field(NameOrder[j]) \o z)

\* A later item does not go on with what a number could.
LEMMA OpensStops == \A x, k : Opens(x, k) => Stops(x) /\ x \in Text
<1>1. SUFFICES ASSUME NEW x, NEW k, Opens(x, k) PROVE Stops(x) /\ x \in Text
  OBVIOUS
<1>2. CASE x = << >>
  BY <1>1, <1>2 DEF Opens, Stops, Ends
<1>3. CASE \E j \in 1..Len(NameOrder), z \in Text :
              x = <<59>> \o (Field(NameOrder[j]) \o z)
  <2>1. PICK j \in 1..Len(NameOrder), z \in Text :
               x = <<59>> \o (Field(NameOrder[j]) \o z)
    BY <1>3
  <2>2. Field(NameOrder[j]) \in Text
    BY <2>1, NameFacts, FieldFacts
  <2>3. Field(NameOrder[j]) \o z \in Text
    BY <2>1, <2>2, Joined
  <2>4. 59 \in Nat /\ 59 \notin Sign
    BY DEF Sign, Digit
  <2>5. Ends(<<59>> \o (Field(NameOrder[j]) \o z), Sign)
    BY <2>3, <2>4, Begins
  <2>6. QED
    BY <1>1, <2>1, <2>5, Zenon DEF Stops, Opens
<1>4. QED
  BY <1>1, <1>2, <1>3 DEF Opens

\* The item of a name, or the lack of it, keeps to that.
LEMMA OpensItem ==
  ASSUME NEW f, Itemized(f), NEW k \in 1..Len(NameOrder), NEW x, Opens(x, k)
  PROVE  Opens(Item(f, NameOrder[k]) \o x, k - 1)
<1>1. NameOrder[k] \in Text /\ x \in Text
  BY NameFacts, OpensStops
<1>2. PICK n \in Text : n = NameOrder[k]
  BY <1>1
<1>3. ItemParts(f, n, x)
  BY <1>1, <1>2, ItemFacts
<1>4. CASE n \notin DOMAIN f
  <2>1. Item(f, n) \o x = x
    BY <1>4, <1>3, Zenon DEF ItemParts
  <2>2. \A j \in 1..Len(NameOrder) : k < j => k - 1 < j
    OBVIOUS
  <2>3. Opens(x, k - 1)
    BY <2>2 DEF Opens
  <2>4. QED
    BY <1>2, <2>1, <2>3, Zenon
<1>5. CASE n \in DOMAIN f
  <2>1. PICK z : z = <<61>> \o (f[n] \o x)
    OBVIOUS
  <2>2. z \in Text /\ Field(n) \o z \in Text /\ Item(f, n) \o x = <<59>> \o (Field(n) \o z)
    <3>1. /\ <<61>> \o (f[n] \o x) \in Text
          /\ Field(n) \o (<<61>> \o (f[n] \o x)) \in Text
          /\ Item(f, n) \o x = <<59>> \o (Field(n) \o (<<61>> \o (f[n] \o x)))
      BY <1>5, <1>3, Zenon DEF ItemParts
    <3>2. QED
      BY <2>1, <3>1, Zenon
  <2>3. <<59>> \o (Field(n) \o z) \in Text
    BY <2>2, Begins
  <2>4. k - 1 < k
    OBVIOUS
  <2>5. Opens(Item(f, n) \o x, k - 1)
    BY <1>2, <2>2, <2>3, <2>4, Zenon DEF Opens
  <2>6. QED
    BY <1>2, <2>5, Zenon
<1>6. QED
  BY <1>4, <1>5

\* A key is the heads up to any name, and then such a rest.
LEMMA RestsExist ==
  ASSUME NEW f, Itemized(f)
  PROVE  \A k \in 0..Len(NameOrder) : \E x : Opens(x, k) /\ Items(f) = Heads(f)[k] \o x
<1>1. PICK N \in Nat : N = Len(NameOrder)
  BY NameFacts
<1> DEFINE Rest(k) == \E x : Opens(x, k) /\ Items(f) = Heads(f)[k] \o x
           T == {i \in Nat : i <= N /\ ~Rest(N - i)}
<1>2. ASSUME NEW k \in 1..N, Rest(k) PROVE Rest(k - 1)
  <2>1. PICK x : Opens(x, k) /\ Items(f) = Heads(f)[k] \o x
    BY <1>2
  <2>2. PICK h, m : h = Heads(f)[k - 1] /\ m = Item(f, NameOrder[k])
    OBVIOUS
  <2>3. h \in Text /\ Heads(f)[k] = h \o m
    <3>1. k - 1 \in 0..N
      OBVIOUS
    <3>2. QED
      BY <1>1, <2>2, <3>1, HeadsFacts
  <2>4. m \in Text /\ x \in Text
    <3>1. x \in Text
      BY <2>1, OpensStops
    <3>2. QED
      BY <1>1, <2>2, <3>1, NameFacts, ItemFacts DEF ItemParts
  <2>5. (h \o m) \o x = h \o (m \o x)
    BY <2>3, <2>4, Bracket
  <2>6. Opens(m \o x, k - 1)
    BY <1>1, <2>1, <2>2, OpensItem
  <2>7. Items(f) = h \o (m \o x)
    BY <2>1, <2>3, <2>5, Zenon
  <2>8. QED
    BY <2>2, <2>6, <2>7
<1>3. Rest(N)
  <2>1. Items(f) = Heads(f)[N] /\ Heads(f)[N] \in Text
    <3>1. N \in 0..N
      OBVIOUS
    <3>2. QED
      BY <1>1, <3>1, HeadsFacts DEF Items
  <2>2. Heads(f)[N] \o << >> = Heads(f)[N]
    BY <2>1, ConcatEmptySeq DEF Text
  <2>3. Opens(<< >>, N)
    BY EmptySeq DEF Opens, Text
  <2>4. QED
    BY <2>1, <2>2, <2>3
<1> HIDE DEF Rest
<1>4. T = {}
  <2>1. SUFFICES ASSUME T # {} PROVE FALSE
    OBVIOUS
  <2>2. PICK m \in T : \A i \in T : m <= i
    BY <2>1, Least
  <2>3. m \in Nat /\ m <= N /\ ~Rest(N - m)
    BY <2>2
  <2>4. m # 0
    <3>1. N - 0 = N
      OBVIOUS
    <3>2. QED
      BY <1>3, <2>3, <3>1
  <2>5. PICK l \in Nat : l = m - 1 /\ l <= N /\ ~(m <= l)
    BY <2>3, <2>4
  <2>6. Rest(N - l)
    BY <2>2, <2>5
  <2>7. PICK k \in 1..N : k = N - l /\ k - 1 = N - m
    BY <2>3, <2>4, <2>5
  <2>8. Rest(k - 1)
    BY <1>2, <2>6, <2>7
  <2>9. QED
    BY <2>3, <2>7, <2>8
<1>5. ASSUME NEW k \in 0..N PROVE Rest(k)
  <2>1. PICK i \in Nat : i = N - k /\ i <= N /\ k = N - i
    OBVIOUS
  <2>2. Rest(N - i)
    BY <1>4, <2>1
  <2>3. QED
    BY <2>1, <2>2
<1>6. QED
  BY <1>1, <1>5 DEF Rest

\* Two texts that are equal if they are followed by no more than an item could be.
Apart(a, b) == \A x, y : Stops(x) /\ Stops(y) /\ a \o x = b \o y => a = b

ItemIn(f, g, n, x, y) ==
  /\ n \in DOMAIN f /\ Item(f, n) \o x = Item(g, n) \o y
  => n \in DOMAIN g /\ f[n] \o x = g[n] \o y

\* The next name, if the items are the same up to it: f has it only if g has.
LEMMA ItemHere ==
  ASSUME NEW f, Itemized(f), NEW g, Itemized(g),
         NEW k \in 1..Len(NameOrder), NEW x, NEW y, Opens(x, k), Opens(y, k)
  PROVE  ItemIn(f, g, NameOrder[k], x, y)
<1>1. PICK n \in Text : n = NameOrder[k]
  BY NameFacts
<1>2. SUFFICES ASSUME n \in DOMAIN f, Item(f, n) \o x = Item(g, n) \o y
               PROVE  n \in DOMAIN g /\ f[n] \o x = g[n] \o y
  BY <1>1, Zenon DEF ItemIn
<1>3. x \in Text /\ y \in Text
  BY OpensStops
<1>4. PICK z : z = <<61>> \o (f[n] \o x)
  OBVIOUS
<1>5. /\ f[n] \o x \in Text /\ z \in Text /\ Field(n) \o z \in Text
      /\ Item(f, n) \o x = <<59>> \o (Field(n) \o z)
  <2>1. /\ f[n] \o x \in Text /\ <<61>> \o (f[n] \o x) \in Text
        /\ Field(n) \o (<<61>> \o (f[n] \o x)) \in Text
        /\ Item(f, n) \o x = <<59>> \o (Field(n) \o (<<61>> \o (f[n] \o x)))
    <3>1. ItemParts(f, n, x)
      BY <1>1, <1>3, ItemFacts
    <3>2. QED
      BY <1>2, <3>1, Zenon DEF ItemParts
  <2>2. QED
    BY <1>4, <2>1, Zenon
<1>6. ItemParts(g, n, y)
  BY <1>1, <1>3, ItemFacts
<1>7. CASE n \notin DOMAIN g
  <2>1. Item(g, n) \o y = y
    BY <1>7, <1>6, Zenon DEF ItemParts
  <2>2. y = <<59>> \o (Field(n) \o z)
    BY <1>2, <1>5, <2>1, Zenon
  <2>3. y # << >>
    <3>1. <<59>> \o (Field(n) \o z) # << >>
      BY <1>5, Begins
    <3>2. QED
      BY <2>2, <3>1, Zenon
  <2>4. PICK j \in 1..Len(NameOrder), u \in Text :
               k < j /\ y = <<59>> \o (Field(NameOrder[j]) \o u)
    BY <2>3 DEF Opens
  <2>5. PICK m \in Text : m = NameOrder[j]
    BY <2>4, NameFacts
  <2>6. u \in Text /\ Field(m) \o u \in Text
    <3>1. u \in Text
      BY <2>4
    <3>2. Field(m) \in Text
      BY <2>5, <3>1, FieldFacts
    <3>3. QED
      BY <3>1, <3>2, Joined
  <2>7. <<59>> \o (Field(n) \o z) = <<59>> \o (Field(m) \o u)
          => Field(n) \o z = Field(m) \o u
    BY <1>5, <2>6, After
  <2>8. Field(n) \o z = Field(m) \o u => n = m /\ z = u
    <3>1. n \in Text /\ m \in Text /\ z \in Text /\ u \in Text
      BY <1>1, <1>5, <2>5, <2>6
    <3>2. QED
      BY <3>1, FieldThen, ZenonT(30)
  <2>9. n = m
    BY <2>2, <2>4, <2>5, <2>7, <2>8, Zenon
  <2>10. k = j
    BY <1>1, <2>4, <2>5, <2>9, NameFacts
  <2>11. QED
    BY <2>4, <2>10
<1>8. CASE n \in DOMAIN g
  <2>1. PICK u : u = <<61>> \o (g[n] \o y)
    OBVIOUS
  <2>2. /\ g[n] \o y \in Text /\ u \in Text /\ Field(n) \o u \in Text
        /\ Item(g, n) \o y = <<59>> \o (Field(n) \o u)
    <3>1. /\ g[n] \o y \in Text /\ <<61>> \o (g[n] \o y) \in Text
          /\ Field(n) \o (<<61>> \o (g[n] \o y)) \in Text
          /\ Item(g, n) \o y = <<59>> \o (Field(n) \o (<<61>> \o (g[n] \o y)))
      BY <1>8, <1>6, Zenon DEF ItemParts
    <3>2. QED
      BY <2>1, <3>1, Zenon
  <2>3. <<59>> \o (Field(n) \o z) = <<59>> \o (Field(n) \o u)
          => Field(n) \o z = Field(n) \o u
    BY <1>5, <2>2, After
  <2>4. Field(n) \o z = Field(n) \o u => n = n /\ z = u
    <3>1. n \in Text /\ z \in Text /\ u \in Text
      BY <1>1, <1>5, <2>2
    <3>2. QED
      BY <3>1, FieldThen
  <2>5. <<61>> \o (f[n] \o x) = <<61>> \o (g[n] \o y) => f[n] \o x = g[n] \o y
    BY <1>5, <2>2, After, ZenonT(30)
  <2>6. f[n] \o x = g[n] \o y
    BY <1>2, <1>4, <1>5, <2>1, <2>2, <2>3, <2>4, <2>5, Zenon
  <2>7. QED
    BY <1>8, <2>6
<1>9. QED
  BY <1>7, <1>8

\* Items that are equal stand for the same texts under the same names.
LEMMA ItemsApart ==
  ASSUME NEW f, Itemized(f), NEW g, Itemized(g),
         \A n \in DOMAIN f \cap DOMAIN g : Apart(f[n], g[n])
  PROVE  Items(f) = Items(g) => f = g
<1>1. SUFFICES ASSUME Items(f) = Items(g) PROVE f = g
  OBVIOUS
<1>2. PICK N \in Nat : N = Len(NameOrder)
  BY NameFacts
<1> DEFINE Agree(n) == /\ n \in DOMAIN f <=> n \in DOMAIN g
                       /\ n \in DOMAIN f => f[n] = g[n]
           Same(k) == /\ Heads(f)[k] = Heads(g)[k]
                      /\ \A i \in 1..k : Agree(NameOrder[i])
           T == {k \in Nat : k <= N /\ ~Same(k)}
<1>3. Same(0)
  <2>1. Heads(f)[0] = << >> /\ Heads(g)[0] = << >>
    BY HeadsFacts
  <2>2. \A i \in 1..0 : FALSE
    OBVIOUS
  <2>3. QED
    BY <2>1, <2>2
<1>4. ASSUME NEW k \in 1..N, Same(k - 1) PROVE Same(k)
  <2>1. PICK n, h, e, d : /\ n = NameOrder[k] /\ h = Heads(f)[k - 1]
                          /\ e = Item(f, n) /\ d = Item(g, n)
    OBVIOUS
  <2>2. k \in 1..Len(NameOrder) /\ k - 1 \in 0..Len(NameOrder) /\ k \in 0..Len(NameOrder)
    BY <1>2
  <2>3. h \in Text /\ Heads(f)[k] = h \o e /\ Heads(g)[k] = h \o d
    <3>1. h = Heads(g)[k - 1]
      BY <1>4, <2>1
    <3>2. h \in Text
      BY <2>1, <2>2, HeadsFacts
    <3>3. Heads(f)[k] = Heads(f)[k - 1] \o Item(f, NameOrder[k])
      BY <2>2, HeadsFacts
    <3>4. Heads(g)[k] = Heads(g)[k - 1] \o Item(g, NameOrder[k])
      BY <2>2, HeadsFacts
    <3>5. QED
      BY <2>1, <3>1, <3>2, <3>3, <3>4, Zenon
  <2>4. PICK x : Opens(x, k) /\ Items(f) = Heads(f)[k] \o x
    BY <2>2, RestsExist
  <2>5. PICK y : Opens(y, k) /\ Items(g) = Heads(g)[k] \o y
    BY <2>2, RestsExist
  <2>6. x \in Text /\ y \in Text /\ Stops(x) /\ Stops(y)
    BY <2>4, <2>5, OpensStops
  <2>7. e \in Text /\ d \in Text
    <3>1. n \in Text
      BY <2>1, <2>2, NameFacts
    <3>2. ItemParts(f, n, x) /\ ItemParts(g, n, x)
      BY <2>6, <3>1, ItemFacts
    <3>3. QED
      BY <2>1, <3>2 DEF ItemParts
  <2>8. e \o x = d \o y
    <3>1. (h \o e) \o x = h \o (e \o x) /\ (h \o d) \o y = h \o (d \o y)
      <4>1. Cat(Cat(h, e), x) = Cat(h, Cat(e, x)) /\ Cat(Cat(h, d), y) = Cat(h, Cat(d, y))
        BY <2>3, <2>6, <2>7, CatFacts
      <4>2. QED
        BY <4>1 DEF Cat
    <3>2. h \o (e \o x) = h \o (d \o y)
      BY <1>1, <2>3, <2>4, <2>5, <3>1, Zenon
    <3>3. PICK p, q : p = e \o x /\ q = d \o y
      OBVIOUS
    <3>4. p \in Text /\ q \in Text
      BY <2>6, <2>7, <3>3, Joined
    <3>5. h \o p = h \o q => p = q
      BY <2>3, <3>4, CancelFront
    <3>6. QED
      BY <3>2, <3>3, <3>5, Zenon
  <2>9. /\ n \in DOMAIN f => n \in DOMAIN g /\ f[n] \o x = g[n] \o y
        /\ n \in DOMAIN g => n \in DOMAIN f /\ g[n] \o y = f[n] \o x
    <3>1. ItemIn(f, g, NameOrder[k], x, y)
      BY <2>2, <2>4, <2>5, ItemHere
    <3>2. ItemIn(g, f, NameOrder[k], y, x)
      BY <2>2, <2>4, <2>5, ItemHere
    <3>3. QED
      BY <2>1, <2>8, <3>1, <3>2, Zenon DEF ItemIn
  <2>10. Agree(n)
    BY <2>6, <2>9 DEF Apart
  <2>11. e = d
    BY <2>1, <2>10 DEF Item
  <2>12. Heads(f)[k] = Heads(g)[k]
    BY <2>3, <2>11, Zenon
  <2>13. \A i \in 1..k : i \in 1..(k - 1) \/ i = k
    OBVIOUS
  <2> HIDE DEF Agree
  <2>14. QED
    BY <1>4, <2>1, <2>10, <2>12, <2>13
<1> HIDE DEF Same
<1>5. T = {}
  <2>1. SUFFICES ASSUME T # {} PROVE FALSE
    OBVIOUS
  <2>2. PICK m \in T : \A i \in T : m <= i
    BY <2>1, Least
  <2>3. m \in Nat /\ m <= N /\ ~Same(m)
    BY <2>2
  <2>4. m # 0
    BY <1>3, <2>3
  <2>5. PICK l \in Nat : l = m - 1 /\ l <= N /\ ~(m <= l) /\ m \in 1..N
    BY <2>3, <2>4
  <2>6. Same(l)
    BY <2>2, <2>5
  <2>7. Same(m)
    BY <1>4, <2>5, <2>6
  <2>8. QED
    BY <2>3, <2>7
<1>6. Same(N)
  <2>1. N \in Nat /\ N <= N
    BY <1>2
  <2>2. QED
    BY <1>5, <2>1
<1>7. \A i \in 1..N : Agree(NameOrder[i])
  BY <1>6 DEF Same
<1>8. \A n \in DOMAIN f \cup DOMAIN g : Agree(n)
  BY <1>2, <1>7 DEF Itemized
<1>9. DOMAIN f = DOMAIN g /\ \A n \in DOMAIN f : f[n] = g[n]
  BY <1>8
<1>10. f = [n \in DOMAIN f |-> f[n]] /\ g = [n \in DOMAIN g |-> g[n]]
  BY DEF Itemized
<1>11. QED
  BY <1>9, <1>10

-----------------------------------------------------------------------------
(* Keys: no two requests share one *)

\* The parts of a request, and the texts its key is made of.
LEMMA RequestFacts ==
  ASSUME NEW r \in Requests
  PROVE  /\ r.source \in Text /\ r.function \in Text /\ r.mathMode \in Nat
         /\ Itemized([n \in DOMAIN r.defines |-> Field(r.defines[n])])
         /\ \A n \in DOMAIN r.defines : r.defines[n] \in Text
         /\ r.defines = [n \in DOMAIN r.defines |-> r.defines[n]]
         /\ \A n \in DOMAIN r.constants : r.constants[n] \in Values
         /\ r.constants = [n \in DOMAIN r.constants |-> r.constants[n]]
         /\ Parsed(r) => Itemized([n \in DOMAIN r.constants |-> ValueText(r.constants[n])])
<1>1. /\ r.source \in Text /\ r.function \in Text /\ r.mathMode \in Nat
      /\ r.defines \in [DOMAIN r.defines -> Text]
      /\ r.constants \in [DOMAIN r.constants -> Values]
      /\ \A n \in DOMAIN r.defines \cup DOMAIN r.constants :
           \E i \in 1..Len(NameOrder) : n = NameOrder[i]
  BY RequestAssumption
<1>2. << >> \in Text /\ Ends(<< >>, Sign)
  BY EmptySeq DEF Text, Ends
<1>3. \A n \in DOMAIN r.defines : Field(r.defines[n]) \in Text
  BY <1>1, <1>2, FieldFacts
<1>4. Itemized([n \in DOMAIN r.defines |-> Field(r.defines[n])])
  BY <1>1, <1>3 DEF Itemized
<1>5. ASSUME Parsed(r)
      PROVE  Itemized([n \in DOMAIN r.constants |-> ValueText(r.constants[n])])
  <2>1. ASSUME NEW n \in DOMAIN r.constants PROVE ValueText(r.constants[n]) \in Text
    <3>1. r.constants[n] \in Values /\ ~Unparsable(r.constants[n])
      BY <1>1, <1>5 DEF Parsed
    <3>2. QED
      BY <1>2, <3>1, ValueThen DEF Stops
  <2>2. QED
    BY <1>1, <2>1 DEF Itemized
<1>6. QED
  BY <1>1, <1>4, <1>5

\* The items are a text that no digit begins.
LEMMA ItemsFacts ==
  ASSUME NEW h, Itemized(h)
  PROVE  Items(h) \in Text /\ Ends(Items(h), Digit)
<1>1. PICK x : Opens(x, 0) /\ Items(h) = Heads(h)[0] \o x
  <2>1. 0 \in 0..Len(NameOrder)
    BY NameFacts
  <2>2. QED
    BY <2>1, RestsExist
<1>2. Stops(x) /\ x \in Text
  BY <1>1, OpensStops
<1>3. Heads(h)[0] = << >> /\ << >> \o x = x
  BY <1>2, HeadsFacts, ConcatEmptySeq DEF Text
<1>4. Items(h) = x
  BY <1>1, <1>3, Zenon
<1>5. QED
  BY <1>2, <1>4, StopsDigits

\* The options of a compilation can be read back from CompileOptions::cache_key.
LEMMA CacheKeyApart ==
  ASSUME NEW r \in Requests, NEW q \in Requests
  PROVE  /\ CacheKey(r.mathMode, r.defines) \in Text
         /\ CacheKey(r.mathMode, r.defines) = CacheKey(q.mathMode, q.defines)
              => r.mathMode = q.mathMode /\ r.defines = q.defines
<1> DEFINE f == [n \in DOMAIN r.defines |-> Field(r.defines[n])]
           g == [n \in DOMAIN q.defines |-> Field(q.defines[n])]
<1>1. PICK a, b, c : /\ a = <<109, 97, 116, 104, 61>>
                     /\ b = Decimal(r.mathMode) /\ c = Decimal(q.mathMode)
  OBVIOUS
<1>2. a \in Text /\ b \in Text /\ c \in Text
  <2>1. a \in Text
    BY <1>1 DEF Text
  <2>2. QED
    BY <1>1, <2>1, RequestFacts, DecimalFacts
<1>3. Itemized(f) /\ Itemized(g)
  BY RequestFacts
<1>4. /\ CacheKey(r.mathMode, r.defines) = (a \o b) \o Items(f)
      /\ CacheKey(q.mathMode, q.defines) = (a \o c) \o Items(g)
  BY <1>1, Zenon DEF CacheKey
<1>5. PICK x, y : x = Items(f) /\ y = Items(g)
  OBVIOUS
<1>6. x \in Text /\ y \in Text /\ Ends(x, Digit) /\ Ends(y, Digit)
  BY <1>3, <1>5, ItemsFacts
<1> HIDE DEF f, g
<1>7. /\ Cat(Cat(a, b), x) = Cat(a, Cat(b, x)) /\ Cat(Cat(a, c), y) = Cat(a, Cat(c, y))
      /\ Cat(Cat(a, b), x) \in Text /\ Cat(b, x) \in Text /\ Cat(c, y) \in Text
  BY <1>2, <1>6, CatFacts
<1>8. /\ (a \o b) \o x = a \o (b \o x) /\ (a \o c) \o y = a \o (c \o y)
      /\ (a \o b) \o x \in Text /\ b \o x \in Text /\ c \o y \in Text
  BY <1>7 DEF Cat
<1>9. a \o (b \o x) = a \o (c \o y) => b \o x = c \o y
  <2>1. PICK u, w : u = b \o x /\ w = c \o y
    OBVIOUS
  <2>2. a \o u = a \o w => u = w
    BY <1>2, <1>8, <2>1, CancelFront
  <2>3. QED
    BY <2>1, <2>2, Zenon
<1>10. b \o x = c \o y => r.mathMode = q.mathMode /\ x = y
  <2>1. r.mathMode \in Nat /\ q.mathMode \in Nat
    BY RequestFacts
  <2>2. Decimal(r.mathMode) \o x = Decimal(q.mathMode) \o y => r.mathMode = q.mathMode /\ x = y
    BY <1>6, <2>1, NumeralThen
  <2>3. QED
    BY <1>1, <2>2, Zenon
<1>11. x = y => r.defines = q.defines
  <2>1. ASSUME NEW n \in DOMAIN f \cap DOMAIN g PROVE Apart(f[n], g[n])
    <3>1. PICK s \in Text, t \in Text :
            s = r.defines[n] /\ t = q.defines[n] /\ f[n] = Field(s) /\ g[n] = Field(t)
      BY RequestFacts DEF f, g
    <3>2. ASSUME NEW u, NEW v, Stops(u), Stops(v), Field(s) \o u = Field(t) \o v
          PROVE  Field(s) = Field(t)
      <4>1. u \in Text /\ v \in Text /\ s \in Text /\ t \in Text
        BY <3>1, <3>2, StopsDigits
      <4>2. Field(s) \o u = Field(t) \o v => s = t /\ u = v
        BY <4>1, FieldThen, ZenonT(30)
      <4>3. QED
        BY <3>2, <4>2, Zenon
    <3>3. QED
      BY <3>1, <3>2 DEF Apart
  <2>2. x = y => f = g
    BY <1>3, <1>5, <2>1, ItemsApart
  <2>3. ASSUME f = g PROVE r.defines = q.defines
    <3>1. DOMAIN r.defines = DOMAIN q.defines
      BY <2>3 DEF f, g
    <3>2. ASSUME NEW n \in DOMAIN r.defines PROVE r.defines[n] = q.defines[n]
      <4>1. PICK s \in Text, t \in Text : s = r.defines[n] /\ t = q.defines[n]
        BY <3>1, RequestFacts
      <4>2. Field(s) = Field(t)
        BY <2>3, <3>1, <4>1 DEF f, g
      <4>3. s = t
        BY <4>1, <4>2, FieldsApart
      <4>4. QED
        BY <4>1, <4>3
    <3>3. QED
      BY <3>1, <3>2, RequestFacts
  <2>4. QED
    BY <2>2, <2>3
<1>12. QED
  BY <1>4, <1>5, <1>8, <1>9, <1>10, <1>11, Zenon

\* What LibraryKey is made of: no other source, mode or macros have the same.
LEMMA KeyOfApart ==
  ASSUME NEW r \in Requests, NEW q \in Requests
  PROVE  KeyOf(r) = KeyOf(q)
           => r.source = q.source /\ r.mathMode = q.mathMode /\ r.defines = q.defines
<1>1. PICK a, b : a = CacheKey(r.mathMode, r.defines) /\ b = CacheKey(q.mathMode, q.defines)
  OBVIOUS
<1>2. a \in Text /\ b \in Text
  BY <1>1, CacheKeyApart
<1>3. r.source \in Text /\ q.source \in Text
  BY RequestFacts
<1>4. KeyOf(r) = Field(a) \o r.source /\ KeyOf(q) = Field(b) \o q.source
  BY <1>1, Zenon DEF KeyOf, LibraryKey
<1>5. Field(a) \o r.source = Field(b) \o q.source => a = b /\ r.source = q.source
  BY <1>2, <1>3, FieldThen
<1>6. a = b => r.mathMode = q.mathMode /\ r.defines = q.defines
  <2>1. CacheKey(r.mathMode, r.defines) = CacheKey(q.mathMode, q.defines)
          => r.mathMode = q.mathMode /\ r.defines = q.defines
    BY CacheKeyApart
  <2>2. QED
    BY <1>1, <2>1, Zenon
<1>7. QED
  BY <1>4, <1>5, <1>6, Zenon

\* The same for the key of a pipeline: no other function or constants have it.
LEMMA PipelineKeyApart ==
  ASSUME NEW r \in Requests, NEW q \in Requests, Parsed(r), Parsed(q)
  PROVE  PipelineKey(r.function, r.constants) = PipelineKey(q.function, q.constants)
           => r.function = q.function /\ r.constants = q.constants
<1> DEFINE f == [n \in DOMAIN r.constants |-> ValueText(r.constants[n])]
           g == [n \in DOMAIN q.constants |-> ValueText(q.constants[n])]
<1>1. Itemized(f) /\ Itemized(g)
  BY RequestFacts
<1>2. PICK x, y : x = Items(f) /\ y = Items(g)
  OBVIOUS
<1>3. x \in Text /\ y \in Text
  BY <1>1, <1>2, ItemsFacts
<1>4. r.function \in Text /\ q.function \in Text
  BY RequestFacts
<1>5. /\ PipelineKey(r.function, r.constants) = Field(r.function) \o x
      /\ PipelineKey(q.function, q.constants) = Field(q.function) \o y
  BY <1>2, Zenon DEF PipelineKey
<1>6. Field(r.function) \o x = Field(q.function) \o y => r.function = q.function /\ x = y
  BY <1>3, <1>4, FieldThen
<1>7. \A n \in DOMAIN r.constants : r.constants[n] \in Values /\ ~Unparsable(r.constants[n])
  BY RequestFacts DEF Parsed
<1>8. \A n \in DOMAIN q.constants : q.constants[n] \in Values /\ ~Unparsable(q.constants[n])
  BY RequestFacts DEF Parsed
<1>9. ASSUME NEW n \in DOMAIN f \cap DOMAIN g PROVE Apart(f[n], g[n])
  <2>1. PICK v \in Values, w \in Values :
          ~Unparsable(v) /\ ~Unparsable(w) /\ f[n] = ValueText(v) /\ g[n] = ValueText(w)
    BY <1>7, <1>8
  <2>2. ASSUME NEW u, NEW z, Stops(u), Stops(z), ValueText(v) \o u = ValueText(w) \o z
        PROVE  ValueText(v) = ValueText(w)
    <3>1. ~Unparsable(v) /\ ~Unparsable(w)
      BY <2>1
    <3>2. ValueText(v) \o u = ValueText(w) \o z => v = w
      BY <2>2, <3>1, ValueThen
    <3>3. QED
      BY <2>2, <3>2, Zenon
  <2>3. QED
    BY <2>1, <2>2 DEF Apart
<1>10. f = g => r.constants = q.constants
  <2>1. SUFFICES ASSUME f = g PROVE r.constants = q.constants
    OBVIOUS
  <2>2. DOMAIN r.constants = DOMAIN q.constants
    BY <2>1
  <2>3. ASSUME NEW n \in DOMAIN r.constants PROVE r.constants[n] = q.constants[n]
    <3>1. PICK v \in Values, w \in Values :
            /\ v = r.constants[n] /\ w = q.constants[n]
            /\ ~Unparsable(v) /\ ~Unparsable(w) /\ ValueText(v) = ValueText(w)
      BY <1>7, <1>8, <2>1, <2>2
    <3>2. << >> \in Text /\ Ends(<< >>, Sign)
      BY EmptySeq DEF Text, Ends
    <3>3. ValueText(v) \o << >> = ValueText(w) \o << >> => v = w
      BY <3>1, <3>2, ValueThen DEF Stops
    <3>4. QED
      BY <3>1, <3>3, Zenon
  <2>4. QED
    BY <2>2, <2>3, RequestFacts
<1> HIDE DEF f, g
<1>11. x = y => f = g
  BY <1>1, <1>2, <1>9, ItemsApart
<1>12. QED
  BY <1>5, <1>6, <1>10, <1>11, Zenon

-----------------------------------------------------------------------------
(* Constants: what reaches Metal is the value, or no bits of the type are *)

\* The types and their widths.
LEMMA ScalarFacts ==
  /\ Scalars = {"bool", "char", "short", "int", "long", "uchar", "ushort", "uint", "ulong",
                "half", "float", "bfloat"}
  /\ \A t \in Scalars : Width(t) \in {8, 16, 32, 64}
<1>1. Scalars = {"bool", "char", "short", "int", "long", "uchar", "ushort", "uint", "ulong",
                 "half", "float", "bfloat"}
  BY DEF Scalars, ConstantDtype
<1>2. ASSUME NEW t \in Scalars PROVE Width(t) \in {8, 16, 32, 64}
  BY <1>1 DEF Width, ConstantDtype
<1>3. QED
  BY <1>1, <1>2

\* An even number times another is even.
LEMMA EvenProduct ==
  ASSUME NEW a \in Nat \ {0}, NEW b \in Nat \ {0}
  PROVE  (2 * a) * b = 2 * (a * b) /\ a * b \in Nat \ {0}
OBVIOUS

Half(t, h) == h \in Nat \ {0} /\ Span(t) = 2 * h /\ Span(t) \div 2 = h

\* The patterns of a type are two times as many as some number.
LEMMA Halves == \A t \in Scalars : \E h : Half(t, h)
<1> DEFINE Even(n) == \E h \in Nat \ {0} : n = 2 * h
<1>1. ASSUME NEW n, Even(n) PROVE Even(Square(n))
  <2>1. PICK h \in Nat \ {0} : n = 2 * h
    BY <1>1
  <2>2. n \in Nat \ {0} /\ n * n = 2 * (h * n) /\ h * n \in Nat \ {0}
    BY <2>1, EvenProduct
  <2>3. QED
    BY <2>2 DEF Square
<1>2. Even(Byte)
  <2>1. Byte \in Nat /\ Byte # 0 /\ Byte % 2 = 0
    BY NumberAssumption
  <2>2. Byte = 2 * (Byte \div 2) /\ Byte \div 2 \in Nat \ {0}
    BY <2>1
  <2>3. QED
    BY <2>2
<1>3. Even(Square(Byte)) /\ Even(Square(Square(Byte))) /\ Even(Square(Square(Square(Byte))))
  BY <1>1, <1>2
<1>4. ASSUME NEW t \in Scalars PROVE Even(Span(t))
  <2>1. Width(t) \in {8, 16, 32, 64}
    BY ScalarFacts
  <2> HIDE DEF Even
  <2>2. QED
    BY <1>2, <1>3, <2>1 DEF Span
<1>5. ASSUME NEW t \in Scalars PROVE \E h : Half(t, h)
  <2>1. PICK h \in Nat \ {0} : Span(t) = 2 * h
    BY <1>4
  <2>2. (2 * h) \div 2 = h
    OBVIOUS
  <2>3. QED
    BY <2>1, <2>2 DEF Half
<1>6. QED
  BY <1>5

\* v % n, for an n that v is below.
LEMMA Wrapped ==
  ASSUME NEW n \in Nat \ {0}, NEW v \in Int, -n <= v, v < n
  PROVE  v % n = IF v < 0 THEN v + n ELSE v
<1>1. PICK q \in Int, r \in 0..(n - 1) : v = q * n + r /\ r = v % n
  <2>1. v \div n \in Int /\ v % n \in 0..(n - 1) /\ v = (v \div n) * n + (v % n)
    OBVIOUS
  <2>2. QED
    BY <2>1
<1>2. q * n < n /\ -n - n < q * n
  BY <1>1
<1>3. q < 1 /\ -2 < q
  <2>1. q >= 1 => q * n >= n
    <3>1. q >= 1 => (q - 1) * n >= 0
      OBVIOUS
    <3>2. (q - 1) * n = q * n - n
      OBVIOUS
    <3>3. q * n \in Int
      OBVIOUS
    <3>4. QED
      BY <3>1, <3>2, <3>3
  <2>2. q <= -2 => q * n <= -n - n
    <3>1. q <= -2 => (-2 - q) * n >= 0
      OBVIOUS
    <3>2. (-2 - q) * n = -n - n - q * n
      OBVIOUS
    <3>3. q * n \in Int
      OBVIOUS
    <3>4. QED
      BY <3>1, <3>2, <3>3
  <2>3. q * n \in Int
    OBVIOUS
  <2>4. QED
    BY <1>2, <2>1, <2>2, <2>3
<1>4. q = 0 \/ q = -1
  BY <1>3
<1>5. QED
  BY <1>1, <1>4

\* An int that fits is read back from the bits that coerce() makes of it.
LEMMA WholeRead ==
  ASSUME NEW t \in Signed \cup Unsigned, NEW v \in Int, Lowest(t) <= v, v <= Highest(t)
  PROVE  Read(t, v % Span(t)) = v
<1>1. t \in Scalars /\ t # "float" /\ (t \in Signed <=> t \notin Unsigned)
  BY ScalarFacts DEF Signed, Unsigned
<1>2. PICK h : Half(t, h)
  BY <1>1, Halves
<1>3. CASE t \in Signed
  <2>1. -h <= v /\ v <= h - 1 /\ Highest(t) = h - 1
    BY <1>2, <1>3 DEF Half, Lowest, Highest
  <2>2. v % Span(t) = IF v < 0 THEN v + 2 * h ELSE v
    BY <1>2, <2>1, Wrapped DEF Half
  <2>3. QED
    BY <1>1, <1>2, <1>3, <2>1, <2>2 DEF Read, Half
<1>4. CASE t \notin Signed
  <2>1. 0 <= v /\ v <= 2 * h - 1
    BY <1>2, <1>4 DEF Half, Lowest, Highest
  <2>2. v % Span(t) = v
    BY <1>2, <2>1, Wrapped DEF Half
  <2>3. QED
    BY <1>1, <1>4, <2>2 DEF Read
<1>5. QED
  BY <1>3, <1>4

\* What is read from the bits of a type of whole numbers is one of its numbers.
LEMMA ReadFits ==
  ASSUME NEW t \in Signed \cup Unsigned, NEW bits \in 0..(Span(t) - 1)
  PROVE  Read(t, bits) \in Int /\ Lowest(t) <= Read(t, bits) /\ Read(t, bits) <= Highest(t)
<1>1. t \in Scalars /\ t # "float"
  BY ScalarFacts DEF Signed, Unsigned
<1>2. PICK h : Half(t, h)
  BY <1>1, Halves
<1>3. bits \in Int /\ 0 <= bits /\ bits <= 2 * h - 1 /\ h \in Nat /\ h >= 1
  BY <1>2 DEF Half
<1>4. CASE t \in Signed
  <2>1. Lowest(t) = -h /\ Highest(t) = h - 1 /\ Span(t) = 2 * h
    BY <1>2, <1>4 DEF Half, Lowest, Highest
  <2>2. QED
    BY <1>1, <1>3, <1>4, <2>1 DEF Read
<1>5. CASE t \notin Signed
  <2>1. Lowest(t) = 0 /\ Highest(t) = 2 * h - 1
    BY <1>2, <1>5 DEF Half, Lowest, Highest
  <2>2. QED
    BY <1>1, <1>3, <1>5, <2>1 DEF Read
<1>6. QED
  BY <1>4, <1>5

\* An int or a float is a whole number.
LEMMA IntsOnly ==
  ASSUME NEW v \in Values, v.kind \in {"int", "float"}
  PROVE  v.val \in Int
<1>1. Int64 \subseteq Int
  BY DEF Int64
<1>2. CASE v \in [kind : {"int"}, val : Int] \/ v \in [kind : {"float"}, val : Int64]
  BY <1>1, <1>2
<1>3. CASE v.kind \notin {"int", "float"}
  BY <1>3
<1>4. QED
  BY <1>2, <1>3 DEF Values

\* A multiple of FloatStep that is not the same is off by at least one step.
LEMMA Multiples ==
  ASSUME NEW f \in Nat, NEW q \in Int, NEW m \in Int
  PROVE  /\ q * f \in Int /\ m * f \in Int
         /\ m = q \/ m * f >= q * f + f \/ m * f <= q * f - f
<1>1. q * f \in Int /\ m * f \in Int
  OBVIOUS
<1>2. CASE m > q
  <2>1. (m - q - 1) * f >= 0
    <3>1. m - q - 1 \in Nat
      BY <1>2
    <3>2. \A i \in Nat : i * f \in Nat
      OBVIOUS
    <3>3. QED
      BY <3>1, <3>2
  <2>2. (m - q - 1) * f = m * f - q * f - f
    OBVIOUS
  <2>3. QED
    BY <1>1, <2>1, <2>2
<1>3. CASE m < q
  <2>1. (q - m - 1) * f >= 0
    <3>1. q - m - 1 \in Nat
      BY <1>3
    <3>2. \A i \in Nat : i * f \in Nat
      OBVIOUS
    <3>3. QED
      BY <3>1, <3>2
  <2>2. (q - m - 1) * f = q * f - m * f - f
    OBVIOUS
  <2>3. QED
    BY <1>1, <2>1, <2>2
<1>4. QED
  BY <1>1, <1>2, <1>3

\* No float is nearer to a number than the one that coerce() makes of it.
LEMMA Nearest ==
  ASSUME NEW v \in Int, NEW other \in 0..(Span("float") - 1)
  PROVE  Distance(Read("float", FloatBits(v)), v) <= Distance(Read("float", other), v)
<1>1. PICK h \in Nat : h = Span("float") \div 2
  BY ScalarFacts, Halves DEF Half
<1>2. PICK f \in Nat \ {0} : f = FloatStep
  BY NumberAssumption
<1>3. PICK k \in Nat : k = f \div 2 /\ 2 * k <= f /\ f <= 2 * k + 1
  <2>1. f \div 2 \in Nat /\ 2 * (f \div 2) <= f /\ f <= 2 * (f \div 2) + 1
    BY <1>2
  <2>2. QED
    BY <2>1
<1>4. PICK q \in Int, r \in 0..(f - 1) : q = (v + k) \div f /\ v + k = q * f + r
  <2>1. PICK n \in Int : n = v + k
    BY <1>3
  <2>2. n \div f \in Int /\ n % f \in 0..(f - 1) /\ n = (n \div f) * f + (n % f)
    BY <1>2, <2>1
  <2>3. QED
    BY <2>1, <2>2
<1>5. PICK m \in Int : m = other - h
  <2>1. other \in Int
    BY ScalarFacts, Halves DEF Half
  <2>2. QED
    BY <1>1, <2>1
<1>6. FloatBits(v) = q + h
  BY <1>1, <1>2, <1>3, <1>4 DEF FloatBits
<1>7. (q + h) - h = q
  BY <1>1, <1>4
<1>8. Read("float", FloatBits(v)) = q * f /\ Read("float", other) = m * f
  BY <1>1, <1>2, <1>5, <1>6, <1>7 DEF Read
<1>9. PICK x \in Int, y \in Int :
        /\ x = q * f /\ y = m * f
        /\ m = q => x = y
        /\ m = q \/ y >= x + f \/ y <= x - f
  BY <1>2, <1>4, <1>5, Multiples
<1>10. Distance(x, v) <= Distance(y, v)
  <2>1. v = x + r - k /\ r \in Int /\ 0 <= r /\ r <= f - 1
    BY <1>2, <1>3, <1>4, <1>9
  <2>2. QED
    BY <1>2, <1>3, <1>9, <2>1 DEF Distance
<1>11. QED
  BY <1>8, <1>9, <1>10

\* A value that coerce() takes is what the kernel reads.
LEMMA Coerced ==
  ASSUME NEW v \in Values, ~Unparsable(v), NEW t, Coerces(v, t)
  PROVE  Means([type |-> t, bits |-> Bits(v, t)], v)
<1> DEFINE c == [type |-> t, bits |-> Bits(v, t)]
<1> SUFFICES Means(c, v)
  OBVIOUS
<1>1. c.type = t /\ c.bits = Bits(v, t)
  OBVIOUS
<1> HIDE DEF c
<1>2. CASE v.kind = "scalar"
  BY <1>1, <1>2 DEF Means, Coerces, Bits
<1>3. CASE v.kind = "bool"
  BY <1>1, <1>3 DEF Means, Coerces, Bits
<1>4. CASE v.kind \in {"int", "float"} /\ t = "float"
  <2>1. v.val \in Int
    BY <1>4, IntsOnly
  <2>2. Bits(v, t) = FloatBits(v.val)
    BY <1>4 DEF Bits
  <2>3. \A other \in 0..(Span("float") - 1) :
          Distance(Read("float", c.bits), v.val) <= Distance(Read("float", other), v.val)
    BY <1>1, <2>1, <2>2, Nearest
  <2>4. QED
    BY <1>1, <1>4, <2>3 DEF Means
<1>5. CASE v.kind = "int" /\ t # "float"
  <2>1. /\ t \in Signed \cup Unsigned /\ v.val \in Int
        /\ Lowest(t) <= v.val /\ v.val <= Highest(t)
    BY <1>5, IntsOnly DEF Coerces, Fits
  <2>2. Bits(v, t) = v.val % Span(t)
    BY <1>5 DEF Bits
  <2>3. Read(c.type, c.bits) = v.val
    BY <1>1, <2>1, <2>2, WholeRead
  <2>4. QED
    BY <1>1, <1>5, <2>1, <2>3 DEF Means
<1>6. QED
  BY <1>2, <1>3, <1>4, <1>5 DEF Coerces

\* A value that coerce() does not take has no bits.
LEMMA NotCoerced ==
  ASSUME NEW v \in Values, ~Unparsable(v), NEW t, ~Coerces(v, t)
  PROVE  Unrepresentable(v, t)
<1>1. SUFFICES ASSUME t \in Scalars, NEW bits \in 0..(Span(t) - 1),
                      Means([type |-> t, bits |-> bits], v)
               PROVE  FALSE
  BY DEF Unrepresentable
<1> DEFINE c == [type |-> t, bits |-> bits]
<1>2. Means(c, v) /\ c.type = t /\ c.bits = bits
  BY <1>1
<1> HIDE DEF c
<1>3. v.kind # "scalar" /\ v.kind # "bool"
  BY <1>1, <1>2 DEF Means, Coerces
<1>4. v.kind = "int" /\ t # "float"
  BY <1>1, <1>2, <1>3 DEF Means, Coerces
<1>5. t \in Signed \cup Unsigned /\ Read(t, bits) = v.val
  BY <1>1, <1>2, <1>4 DEF Means
<1>6. Fits(v.val, t)
  BY <1>1, <1>5, ReadFits DEF Fits
<1>7. QED
  BY <1>1, <1>4, <1>5, <1>6 DEF Coerces

-----------------------------------------------------------------------------
(* Kernel(): the invariant *)

\* A kernel is the one that r asks for, and nothing of it was left to Metal.
Right(kernel, r) ==
  LET declared == Declares(r.source, r.defines)[r.function] IN
  /\ \A part \in {"source", "mathMode", "defines", "function"} : kernel[part] = r[part]
  /\ DOMAIN kernel.set = DOMAIN r.constants
  /\ Required(declared) \subseteq DOMAIN kernel.set
  /\ \A n \in DOMAIN kernel.set :
       /\ Means(kernel.set[n], r.constants[n])
       /\ n \in DOMAIN declared /\ declared[n].type = kernel.set[n].type

\* A library of the source, math mode and macros of r, with those pipelines.
LibraryOf(r, pipelines) ==
  [source |-> r.source, mathMode |-> r.mathMode, defines |-> r.defines,
   pipelines |-> pipelines]

\* A pipeline under a key of a library was made for a request that has both keys.
PipelineOf(kernel, key, libraryKey) == \E q \in Requests :
  /\ libraryKey = KeyOf(q) /\ Parsed(q) /\ key = PipelineKey(q.function, q.constants)
  /\ Right(kernel, q)

Pipelines(libraryKey, pipelines) ==
  \A key \in DOMAIN pipelines : PipelineOf(pipelines[key], key, libraryKey)

\* A library under a key was made for a request that has the key.
Cached(key, lib) == \E r \in Requests :
  /\ key = KeyOf(r) /\ SourceError(r) = "none"
  /\ lib = LibraryOf(r, lib.pipelines) /\ Pipelines(key, lib.pipelines)

KernelInv ==
  /\ \A key \in DOMAIN libraries : Cached(key, libraries[key])
  /\ answer.verdict = "ok" => Right(answer.kernel, asked)
  /\ RefusedForCause

\* Nothing is cached at first.
LEMMA KernelInit == ASSUME Init PROVE KernelInv
<1>1. DOMAIN libraries = {} /\ answer.verdict = "none"
  BY DEF Init, NoKernel
<1>2. QED
  BY <1>1 DEF KernelInv, RefusedForCause

\* What is cached under the key of a request was made for it, or might have been.
LEMMA CachedFor ==
  ASSUME NEW r \in Requests, NEW lib, Cached(KeyOf(r), lib)
  PROVE  /\ lib = LibraryOf(r, lib.pipelines) /\ SourceError(r) = "none"
         /\ Pipelines(KeyOf(r), lib.pipelines)
<1>1. PICK q \in Requests :
        /\ KeyOf(r) = KeyOf(q) /\ SourceError(q) = "none"
        /\ lib = LibraryOf(q, lib.pipelines) /\ Pipelines(KeyOf(r), lib.pipelines)
  BY DEF Cached
<1>2. r.source = q.source /\ r.mathMode = q.mathMode /\ r.defines = q.defines
  BY <1>1, KeyOfApart
<1>3. SourceError(r) = SourceError(q)
  BY <1>2 DEF SourceError, Texts
<1>4. LibraryOf(r, lib.pipelines) = LibraryOf(q, lib.pipelines)
  BY <1>2 DEF LibraryOf
<1>5. QED
  BY <1>1, <1>3, <1>4

\* A hit: the pipeline that was made for another request is right for this one.
LEMMA RightShared ==
  ASSUME NEW r \in Requests, Parsed(r), NEW kernel,
         PipelineOf(kernel, PipelineKey(r.function, r.constants), KeyOf(r))
  PROVE  Right(kernel, r)
<1>1. PICK q \in Requests :
        /\ KeyOf(r) = KeyOf(q) /\ Parsed(q)
        /\ PipelineKey(r.function, r.constants) = PipelineKey(q.function, q.constants)
        /\ Right(kernel, q)
  BY DEF PipelineOf
<1>2. r.source = q.source /\ r.mathMode = q.mathMode /\ r.defines = q.defines
  BY <1>1, KeyOfApart
<1>3. r.function = q.function /\ r.constants = q.constants
  BY <1>1, PipelineKeyApart
<1>4. QED
  BY <1>1, <1>2, <1>3 DEF Right

\* A miss: the pipeline that is made is right.
LEMMA RightMade ==
  ASSUME NEW r \in Requests, Parsed(r), NEW lib, lib = LibraryOf(r, lib.pipelines),
         ConstantsError(lib, r) = "none"
  PROVE  Right(Specialized(lib, r), r)
<1> DEFINE declared == Declares(r.source, r.defines)[r.function]
           given    == DOMAIN r.constants
           kernel   == Specialized(lib, r)
<1>1. lib.source = r.source /\ lib.mathMode = r.mathMode /\ lib.defines = r.defines
  BY DEF LibraryOf
<1>2. /\ \A part \in {"source", "mathMode", "defines", "function"} : kernel[part] = r[part]
      /\ DOMAIN kernel.set = given
      /\ \A n \in given : kernel.set[n] =
           [type |-> declared[n].type, bits |-> Bits(r.constants[n], declared[n].type)]
  BY <1>1 DEF Specialized
<1>3. /\ Required(declared) \subseteq given /\ given \subseteq DOMAIN declared
      /\ \A n \in given : Coerces(r.constants[n], declared[n].type)
  <2>1. CASE Plain(declared, r.constants)
    BY <2>1 DEF Plain, Required
  <2>2. CASE ~Plain(declared, r.constants)
    BY <1>1, <2>2 DEF ConstantsError
  <2>3. QED
    BY <2>1, <2>2
<1>4. ASSUME NEW n \in given PROVE Means(kernel.set[n], r.constants[n])
  <2>1. r.constants[n] \in Values /\ ~Unparsable(r.constants[n])
    BY RequestFacts DEF Parsed
  <2>2. Coerces(r.constants[n], declared[n].type)
    BY <1>3
  <2> HIDE DEF declared
  <2>3. Means([type |-> declared[n].type, bits |-> Bits(r.constants[n], declared[n].type)],
              r.constants[n])
    BY <2>1, <2>2, Coerced
  <2>4. QED
    BY <1>2, <2>3, Zenon
<1>5. \A n \in given : declared[n].type = kernel.set[n].type
  BY <1>1 DEF Specialized
<1> HIDE DEF kernel
<1>6. Right(kernel, r)
  BY <1>2, <1>3, <1>4, <1>5 DEF Right
<1>7. QED
  BY <1>6 DEF kernel

\* An error of create_specialized has a cause in the request.
LEMMA ErrorCaused ==
  ASSUME NEW r \in Requests, Parsed(r), NEW lib, lib = LibraryOf(r, lib.pipelines)
  PROVE  LET functions == Declares(r.source, r.defines)
             declared  == functions[r.function]
             given     == DOMAIN r.constants
             error     == ConstantsError(lib, r) IN
         /\ error \in {"none", "value_error", "not_found", "compile_error"}
         /\ error = "value_error" => r.function \in Malformed
         /\ error = "not_found" => r.function \notin DOMAIN functions
         /\ error = "compile_error" =>
              \/ Required(declared) \ given # {} \/ given \ DOMAIN declared # {}
              \/ \E n \in given : Unrepresentable(r.constants[n], declared[n].type)
<1> DEFINE functions == Declares(r.source, r.defines)
           declared  == functions[r.function]
           given     == DOMAIN r.constants
           error     == ConstantsError(lib, r)
<1>1. lib.source = r.source /\ lib.defines = r.defines
  BY DEF LibraryOf
<1>2. ASSUME NEW n \in given, NEW t, ~Coerces(r.constants[n], t)
      PROVE  Unrepresentable(r.constants[n], t)
  BY <1>2, RequestFacts, NotCoerced DEF Parsed
<1>3. /\ error \in {"none", "value_error", "not_found", "compile_error"}
      /\ error = "value_error" => r.function \in Malformed
      /\ error = "not_found" => r.function \notin DOMAIN functions
  BY <1>1 DEF ConstantsError
<1>4. error = "compile_error" =>
        \/ Required(declared) \ given # {} \/ given \ DOMAIN declared # {}
        \/ \E n \in given : ~Coerces(r.constants[n], declared[n].type)
  BY <1>1 DEF ConstantsError
<1>5. QED
  BY <1>2, <1>3, <1>4, Zenon

\* What is under a key was there, or it is what was put there.
LEMMA WithFacts ==
  ASSUME NEW f, NEW k, NEW v, NEW w, w = With(f, k, v)
  PROVE  \A j \in DOMAIN w : \/ j = k /\ w[j] = v
                             \/ j \in DOMAIN f /\ w[j] = f[j]
BY DEF With

\* A library with other pipelines is cached under its key.
LEMMA CachedWith ==
  ASSUME NEW r \in Requests, NEW lib, Cached(KeyOf(r), lib),
         NEW pipelines, Pipelines(KeyOf(r), pipelines)
  PROVE  Cached(KeyOf(r), [lib EXCEPT !.pipelines = pipelines])
<1>1. lib = LibraryOf(r, lib.pipelines) /\ SourceError(r) = "none"
  BY CachedFor
<1>2. [lib EXCEPT !.pipelines = pipelines] = LibraryOf(r, pipelines)
  BY <1>1 DEF LibraryOf
<1>3. LibraryOf(r, pipelines).pipelines = pipelines
  BY DEF LibraryOf
<1>4. Cached(KeyOf(r), LibraryOf(r, pipelines))
  BY <1>1, <1>3 DEF Cached
<1>5. QED
  BY <1>2, <1>4

\* One that is not cached yet has no pipelines.
LEMMA CachedNew ==
  ASSUME NEW r \in Requests, SourceError(r) = "none"
  PROVE  Cached(KeyOf(r), NewLibrary(r))
<1>1. NewLibrary(r) = LibraryOf(r, NewLibrary(r).pipelines)
  BY DEF NewLibrary, LibraryOf
<1>2. DOMAIN NewLibrary(r).pipelines = {}
  BY DEF NewLibrary
<1>3. QED
  BY <1>1, <1>2 DEF Cached, Pipelines

\* A source that is refused changes no cache.
LEMMA RefuseSourceInv ==
  ASSUME KernelInv, NEW r \in Requests, asked' = r, RefuseSource(r, KeyOf(r))
  PROVE  KernelInv'
<1>1. /\ SourceError(r) \in {"value_error", "compile_error"}
      /\ SourceError(r) = "value_error" => Texts(r) \cap Malformed # {}
      /\ SourceError(r) = "compile_error" => ~Compiles(r.source, r.defines)
  BY DEF RefuseSource, SourceError
<1>2. answer'.verdict = SourceError(r) /\ libraries' = libraries
  BY DEF RefuseSource, Refused
<1>3. RefusedForCause'
  BY <1>1, <1>2 DEF RefusedForCause
<1>4. QED
  BY <1>1, <1>2, <1>3 DEF KernelInv

\* A kernel of a library: parsed or not, cached or not, refused or made.
LEMMA WithLibraryInv ==
  ASSUME KernelInv, NEW r \in Requests, asked' = r,
         NEW lib, Cached(KeyOf(r), lib), WithLibrary(r, KeyOf(r), lib)
  PROVE  KernelInv'
<1> DEFINE key   == PipelineKey(r.function, r.constants)
           error == ConstantsError(lib, r)
           Cache(pipelines) ==
             libraries' = With(libraries, KeyOf(r), [lib EXCEPT !.pipelines = pipelines])
<1>1. /\ lib = LibraryOf(r, lib.pipelines) /\ SourceError(r) = "none"
      /\ Pipelines(KeyOf(r), lib.pipelines)
  BY CachedFor
<1>2. ASSUME NEW pipelines, Cache(pipelines), Pipelines(KeyOf(r), pipelines)
      PROVE  \A k \in DOMAIN libraries' : Cached(k, libraries'[k])
  <2>1. \A k \in DOMAIN libraries : Cached(k, libraries[k])
    BY DEF KernelInv
  <2>2. Cached(KeyOf(r), [lib EXCEPT !.pipelines = pipelines])
    BY <1>2, CachedWith
  <2>3. PICK lib_ : lib_ = [lib EXCEPT !.pipelines = pipelines]
    OBVIOUS
  <2>4. libraries' = With(libraries, KeyOf(r), lib_)
    BY <1>2, <2>3
  <2>5. \A k \in DOMAIN libraries' :
          \/ k = KeyOf(r) /\ libraries'[k] = lib_
          \/ k \in DOMAIN libraries /\ libraries'[k] = libraries[k]
    BY <2>4, WithFacts
  <2>6. QED
    BY <2>1, <2>2, <2>3, <2>5
<1>3. CASE ~Parsed(r) /\ answer' = Refused("value_error") /\ Cache(lib.pipelines)
  <2>1. answer'.verdict = "value_error"
    BY <1>3 DEF Refused
  <2>2. RefusedForCause'
    BY <1>3, <2>1 DEF RefusedForCause, Parsed
  <2>3. QED
    BY <1>1, <1>2, <1>3, <2>1, <2>2 DEF KernelInv
<1>4. CASE /\ Parsed(r) /\ key \in DOMAIN lib.pipelines
           /\ answer' = Handed(lib.pipelines[key]) /\ Cache(lib.pipelines)
  <2>1. answer'.verdict = "ok" /\ answer'.kernel = lib.pipelines[key]
    BY <1>4 DEF Handed
  <2>2. PipelineOf(lib.pipelines[key], key, KeyOf(r))
    BY <1>1, <1>4 DEF Pipelines
  <2>3. Right(lib.pipelines[key], r)
    BY <1>4, <2>2, RightShared
  <2>4. RefusedForCause'
    BY <2>1 DEF RefusedForCause
  <2>5. QED
    BY <1>1, <1>2, <1>4, <2>1, <2>3, <2>4 DEF KernelInv
<1>5. CASE /\ Parsed(r) /\ Cache(lib.pipelines)
           /\ answer' = Refused(IF error = "none" THEN "metal" ELSE error)
  <2>1. answer'.verdict = IF error = "none" THEN "metal" ELSE error
    BY <1>5 DEF Refused
  <2>2. error \in {"none", "value_error", "not_found", "compile_error"}
    BY <1>1, <1>5, ErrorCaused
  <2>3. /\ error = "value_error" => r.function \in Malformed
        /\ error = "not_found" => r.function \notin DOMAIN Declares(r.source, r.defines)
    BY <1>1, <1>5, ErrorCaused
  <2>4. LET declared == Declares(r.source, r.defines)[r.function]
            given    == DOMAIN r.constants IN
        error = "compile_error" =>
          \/ Required(declared) \ given # {} \/ given \ DOMAIN declared # {}
          \/ \E n \in given : Unrepresentable(r.constants[n], declared[n].type)
    BY <1>1, <1>5, ErrorCaused
  <2>5. RefusedForCause'
    BY <2>1, <2>2, <2>3, <2>4 DEF RefusedForCause
  <2>6. answer'.verdict # "ok"
    BY <2>1, <2>2
  <2>7. QED
    BY <1>1, <1>2, <1>5, <2>5, <2>6 DEF KernelInv
<1>6. CASE /\ Parsed(r) /\ key \notin DOMAIN lib.pipelines /\ error = "none"
           /\ answer' = Handed(Specialized(lib, r))
           /\ Cache(With(lib.pipelines, key, Specialized(lib, r)))
  <2>1. answer'.verdict = "ok" /\ answer'.kernel = Specialized(lib, r)
    BY <1>6 DEF Handed
  <2>2. Right(Specialized(lib, r), r)
    BY <1>1, <1>6, RightMade
  <2>3. PipelineOf(Specialized(lib, r), key, KeyOf(r))
    BY <1>6, <2>2 DEF PipelineOf
  <2>4. Pipelines(KeyOf(r), With(lib.pipelines, key, Specialized(lib, r)))
    <3>1. PICK pipelines, kernel :
            /\ kernel = Specialized(lib, r) /\ pipelines = With(lib.pipelines, key, kernel)
      OBVIOUS
    <3>2. \A p \in DOMAIN pipelines :
            \/ p = key /\ pipelines[p] = kernel
            \/ p \in DOMAIN lib.pipelines /\ pipelines[p] = lib.pipelines[p]
      BY <3>1, WithFacts
    <3>3. PipelineOf(kernel, key, KeyOf(r))
      BY <2>3, <3>1
    <3>4. \A p \in DOMAIN lib.pipelines : PipelineOf(lib.pipelines[p], p, KeyOf(r))
      BY <1>1 DEF Pipelines
    <3>5. Pipelines(KeyOf(r), pipelines)
      BY <3>2, <3>3, <3>4 DEF Pipelines
    <3>6. QED
      BY <3>1, <3>5
  <2>5. RefusedForCause'
    BY <2>1 DEF RefusedForCause
  <2>6. QED
    BY <1>2, <1>6, <2>1, <2>2, <2>4, <2>5 DEF KernelInv
<1>7. QED
  BY <1>3, <1>4, <1>5, <1>6 DEF WithLibrary

\* A library that leaves the cache takes its pipelines with it.
LEMMA DropLibraryInv == ASSUME KernelInv, DropLibrary PROVE KernelInv'
<1>1. PICK k \in DOMAIN libraries :
        libraries' = [other \in DOMAIN libraries \ {k} |-> libraries[other]]
  BY DEF DropLibrary
<1>2. \A key \in DOMAIN libraries' : Cached(key, libraries'[key])
  BY <1>1 DEF KernelInv
<1>3. asked' = asked /\ answer' = answer
  BY DEF DropLibrary
<1>4. QED
  BY <1>2, <1>3 DEF KernelInv, RefusedForCause

\* The library that loses a pipeline keeps the others.
LEMMA DropPipelineInv == ASSUME KernelInv, DropPipeline PROVE KernelInv'
<1>1. PICK k \in DOMAIN libraries : \E p \in DOMAIN libraries[k].pipelines :
        libraries' = [libraries EXCEPT ![k].pipelines =
                        [other \in DOMAIN @ \ {p} |-> @[other]]]
  BY DEF DropPipeline
<1>2. PICK lib : lib = libraries[k]
  OBVIOUS
<1>3. PICK p \in DOMAIN lib.pipelines :
        libraries' = [libraries EXCEPT ![k].pipelines =
                        [other \in DOMAIN @ \ {p} |-> @[other]]]
  BY <1>1, <1>2
<1> DEFINE pipelines == [other \in DOMAIN lib.pipelines \ {p} |-> lib.pipelines[other]]
<1>4. /\ DOMAIN libraries' = DOMAIN libraries
      /\ libraries'[k] = [lib EXCEPT !.pipelines = pipelines]
      /\ \A other \in DOMAIN libraries : other # k => libraries'[other] = libraries[other]
  BY <1>2, <1>3
<1>5. Cached(k, [lib EXCEPT !.pipelines = pipelines])
  <2>1. PICK r \in Requests : k = KeyOf(r) /\ Cached(KeyOf(r), lib)
    BY <1>2 DEF KernelInv, Cached
  <2>2. Pipelines(k, lib.pipelines)
    BY <2>1, CachedFor
  <2>3. Pipelines(k, pipelines)
    BY <2>2 DEF Pipelines
  <2>4. QED
    BY <2>1, <2>3, CachedWith
<1>6. \A key \in DOMAIN libraries' : Cached(key, libraries'[key])
  BY <1>4, <1>5 DEF KernelInv
<1>7. asked' = asked /\ answer' = answer
  BY DEF DropPipeline
<1>8. QED
  BY <1>6, <1>7 DEF KernelInv, RefusedForCause

\* Every step keeps the invariant.
LEMMA KernelStep == ASSUME KernelInv, [Next]_vars PROVE KernelInv'
<1>1. ASSUME NEW r \in Requests, Kernel(r) PROVE KernelInv'
  <2>1. asked' = r
    BY <1>1 DEF Kernel
  <2>2. CASE RefuseSource(r, KeyOf(r))
    BY <2>1, <2>2, RefuseSourceInv
  <2>3. CASE KeyOf(r) \in DOMAIN libraries /\ WithLibrary(r, KeyOf(r), libraries[KeyOf(r)])
    <3>1. Cached(KeyOf(r), libraries[KeyOf(r)])
      BY <2>3 DEF KernelInv
    <3>2. QED
      BY <2>1, <2>3, <3>1, WithLibraryInv
  <2>4. CASE SourceError(r) = "none" /\ WithLibrary(r, KeyOf(r), NewLibrary(r))
    BY <2>1, <2>4, CachedNew, WithLibraryInv
  <2>5. QED
    BY <1>1, <2>2, <2>3, <2>4 DEF Kernel
<1>2. CASE UNCHANGED vars
  BY <1>2 DEF vars, KernelInv, RefusedForCause
<1>3. QED
  BY <1>1, <1>2, DropLibraryInv, DropPipelineInv DEF Next

\* Everything cached was made for a request that has its keys, and is right for it: the
\* source, math mode, macros, function and constants asked for (library.cpp:16-24, 94-110,
\* runtime.cpp:45-73).  That the keys tell requests apart makes it right for the next one.
THEOREM KernelInvariance == Spec => []KernelInv
<1>1. Init => KernelInv
  BY KernelInit
<1>2. KernelInv /\ [Next]_vars => KernelInv'
  BY KernelStep
<1>3. QED
  BY <1>1, <1>2, PTL DEF Spec

\* For all requests: no two with the same key differ, and each constant reads as the value
\* that was given (library.cpp:16-24, 117-208, runtime.cpp:45-46).
THEOREM KernelsAreAsAsked == Spec => []GivesWhatWasAsked
<1>1. KernelInv => GivesWhatWasAsked
  BY DEF KernelInv, Right, GivesWhatWasAsked
<1>2. QED
  BY <1>1, KernelInvariance, PTL

\* The required constants are set, and each with its declared type, in a pipeline from
\* the cache as in a new one (library.cpp:236-269).
THEOREM MetalIsLeftNothing == Spec => []NothingLeftToMetal
<1>1. KernelInv => NothingLeftToMetal
  BY DEF KernelInv, Right, NothingLeftToMetal
<1>2. QED
  BY <1>1, KernelInvariance, PTL

\* Each refusal has its cause in the request, and a value that does not fit its type is one
\* that no bits of the type are (library.cpp:116-183, 225-286).
THEOREM RefusalsHaveCause == Spec => []RefusedForCause
<1>1. KernelInv => RefusedForCause
  BY DEF KernelInv
<1>2. QED
  BY <1>1, KernelInvariance, PTL

-----------------------------------------------------------------------------
(* Buffers: the products *)

\* The products of the first lengths are defined by the rule, and so they obey it.
LEMMA ProductsFacts ==
  ASSUME NEW s \in Seq(Nat)
  PROVE  /\ Products(s)[0] = 1
         /\ \A i \in 0..Len(s) : Products(s)[i] \in Nat
         /\ \A i \in 1..Len(s) : Products(s)[i] = Products(s)[i - 1] * s[i]
         /\ Exact(s) \in Nat
<1> DEFINE Rec(g) == g = [k \in 0..Len(s) |-> IF k = 0 THEN 1 ELSE g[k - 1] * s[k]]
           F == [p \in (1..Len(s)) \X Nat |-> p[2] * s[p[1]]]
<1>1. Len(s) \in Nat /\ \A i \in 1..Len(s) : s[i] \in Nat
  OBVIOUS
<1>2. F \in [(1..Len(s)) \X Nat -> Nat]
  BY <1>1
<1>3. \A i \in 1..Len(s), x \in Nat : F[<<i, x>>] = x * s[i]
  OBVIOUS
<1> HIDE DEF F
<1>4. PICK g \in [0..Len(s) -> Nat] : g[0] = 1 /\ Steps(F, g, Len(s))
  BY <1>1, <1>2, Recursion
<1>5. \A i \in 1..Len(s) : i - 1 \in 0..Len(s) /\ g[i - 1] \in Nat
  BY <1>1, <1>4, SMTT(30)
<1>6. \A i \in 1..Len(s) : g[i] = g[i - 1] * s[i]
  BY <1>3, <1>4, <1>5 DEF Steps
<1>7. Rec(g)
  BY <1>1, <1>4, <1>6
<1>8. Products(s) = CHOOSE h : Rec(h)
  BY DEF Products
<1>9. Rec(Products(s))
  BY <1>7, <1>8
<1>10. PICK S : S = Products(s) /\ Rec(S)
  BY <1>9
<1>11. S[0] = 1 /\ \A i \in 1..Len(s) : S[i] = S[i - 1] * s[i]
  BY <1>1, <1>10, SMTT(30)
<1>12. \A i \in 0..Len(s) : S[i] \in Nat
  <2> DEFINE T == {i \in Nat : i <= Len(s) /\ ~(S[i] \in Nat)}
  <2>1. SUFFICES ASSUME T # {} PROVE FALSE
    BY <1>1
  <2>2. PICK j \in T : \A i \in T : j <= i
    BY <2>1, Least
  <2>3. j # 0
    BY <1>11, <2>2
  <2>4. j - 1 \in Nat /\ ~(j - 1 \in T) /\ j \in 1..Len(s)
    BY <1>1, <2>2, <2>3
  <2>5. S[j - 1] \in Nat /\ s[j] \in Nat /\ S[j] = S[j - 1] * s[j]
    BY <1>1, <1>11, <2>2, <2>4
  <2>6. QED
    BY <2>2, <2>5
<1>13. Exact(s) = S[Len(s)] /\ Len(s) \in 0..Len(s)
  BY <1>1, <1>10 DEF Exact
<1>14. QED
  BY <1>10, <1>11, <1>12, <1>13

\* What one round of the loop computes, against the product in the integers.
LEMMA MultipliedExact ==
  ASSUME NEW count \in Nat, NEW dim \in Size
  PROVE  /\ count * dim \in Nat
         /\ Multiplied(count, dim) = IF count * dim > WordMax THEN None ELSE count * dim
<1>1. WordMax \in Nat /\ WordMax >= 1 /\ count # None
      /\ dim \in Nat /\ dim <= WordMax
  BY BufferAssumption DEF Size
<1>2. count * dim \in Nat
  BY <1>1
<1>3. CASE dim = 0
  <2>1. count * dim = 0
    BY <1>1, <1>3
  <2>2. Word(0) = 0
    BY <1>1 DEF Word
  <2>3. QED
    BY <1>1, <1>3, <2>1, <2>2 DEF Multiplied
<1>4. CASE dim # 0
  <2>1. PICK q \in Nat, r \in 0..(dim - 1) : q = WordMax \div dim /\ WordMax = q * dim + r
    <3>1. dim \in Nat /\ dim >= 1
      BY <1>1, <1>4
    <3>2. /\ WordMax \div dim \in Nat /\ WordMax % dim \in 0..(dim - 1)
          /\ WordMax = (WordMax \div dim) * dim + (WordMax % dim)
      BY <1>1, <3>1, Division
    <3>3. QED
      BY <3>2
  <2>2. count > q => count * dim > WordMax
    <3>1. SUFFICES ASSUME count >= q + 1 PROVE count * dim > WordMax
      BY <1>1, <2>1
    <3>2. count * dim >= (q + 1) * dim
      BY <1>1, <2>1, <3>1
    <3>3. (q + 1) * dim = q * dim + dim /\ q * dim \in Nat
      BY <1>1, <2>1
    <3>4. QED
      BY <1>1, <1>2, <2>1, <3>2, <3>3
  <2>3. count <= q => count * dim <= WordMax
    <3>1. SUFFICES ASSUME count <= q PROVE count * dim <= WordMax
      OBVIOUS
    <3>2. count * dim <= q * dim /\ q * dim \in Nat
      BY <1>1, <2>1, <3>1
    <3>3. QED
      BY <1>1, <1>2, <2>1, <3>2
  <2>4. count * dim <= WordMax => Word(count * dim) = count * dim
    BY <1>1, <1>2 DEF Word
  <2>5. Multiplied(count, dim) = IF count > q THEN None ELSE Word(count * dim)
    BY <1>1, <1>4, <2>1 DEF Multiplied
  <2>6. count > q \/ count <= q
    BY <1>1, <2>1
  <2>7. QED
    BY <1>1, <1>2, <2>2, <2>3, <2>4, <2>5, <2>6
<1>5. QED
  BY <1>2, <1>3, <1>4

\* Some product of the first n dimensions is no size_t.
Overflowed(s, n) == \E m \in 0..n : Products(s)[m] > WordMax

\* checked_element_count throws if a product on its way is too large, or it is exact.
LEMMA CountsExact ==
  ASSUME NEW s \in Seq(Size), NEW n \in 0..Len(s)
  PROVE  Counts(s)[n] = IF Overflowed(s, n) THEN None ELSE Products(s)[n]
<1> DEFINE Rec(g) ==
             g = [k \in 0..Len(s) |-> IF k = 0 THEN 1 ELSE Multiplied(g[k - 1], s[k])]
           V == Size \cup {None}
           F == [p \in (1..Len(s)) \X V |-> Multiplied(p[2], s[p[1]])]
<1>1. Len(s) \in Nat /\ \A i \in 1..Len(s) : s[i] \in Size
  OBVIOUS
<1>2. F \in [(1..Len(s)) \X V -> V]
  <2>1. ASSUME NEW i \in 1..Len(s), NEW x \in V PROVE Multiplied(x, s[i]) \in V
    <3>1. CASE x = None
      BY <3>1 DEF Multiplied
    <3>2. CASE x \in Size
      <4>1. s[i] \in Size
        BY <1>1
      <4>2. WordMax \in Nat /\ x \in Nat
        BY <3>2, BufferAssumption DEF Size
      <4>3. /\ x * s[i] \in Nat
            /\ Multiplied(x, s[i]) = IF x * s[i] > WordMax THEN None ELSE x * s[i]
        BY <4>1, <4>2, MultipliedExact
      <4>4. QED
        BY <4>2, <4>3 DEF Size
    <3>3. QED
      BY <3>1, <3>2
  <2>2. QED
    BY <2>1
<1>3. \A i \in 1..Len(s), x \in V : F[<<i, x>>] = Multiplied(x, s[i])
  OBVIOUS
<1>4. 1 \in V
  BY BufferAssumption DEF Size
<1> HIDE DEF F, V
<1>5. PICK g \in [0..Len(s) -> V] : g[0] = 1 /\ Steps(F, g, Len(s))
  BY <1>1, <1>2, <1>4, Recursion
<1>6. \A i \in 1..Len(s) : i - 1 \in 0..Len(s) /\ g[i - 1] \in V
  BY <1>1, <1>5
<1>7. \A i \in 1..Len(s) : g[i] = Multiplied(g[i - 1], s[i])
  BY <1>3, <1>5, <1>6 DEF Steps
<1>8. Rec(g)
  BY <1>1, <1>5, <1>7
<1>9. Counts(s) = CHOOSE h : Rec(h)
  BY DEF Counts
<1>10. Rec(Counts(s))
  BY <1>8, <1>9
<1>11. PICK counts :
         /\ counts = Counts(s) /\ counts[0] = 1
         /\ \A i \in 1..Len(s) : counts[i] = Multiplied(counts[i - 1], s[i])
  <2>1. PICK counts : counts = Counts(s) /\ Rec(counts)
    BY <1>10
  <2>2. counts[0] = 1 /\ \A i \in 1..Len(s) : counts[i] = Multiplied(counts[i - 1], s[i])
    BY <1>1, <2>1
  <2>3. QED
    BY <2>1, <2>2
<1>12. PICK products :
         /\ products = Products(s) /\ products[0] = 1
         /\ \A i \in 0..Len(s) : products[i] \in Nat
         /\ \A i \in 1..Len(s) : products[i] = products[i - 1] * s[i]
  <2>1. s \in Seq(Nat)
    BY <1>1, BufferAssumption DEF Size
  <2>2. QED
    BY <2>1, ProductsFacts
<1> DEFINE Over(k) == \E m \in 0..k : products[m] > WordMax
           T == {k \in Nat : /\ k <= Len(s)
                             /\ ~(counts[k] = IF Over(k) THEN None ELSE products[k])}
<1>13. T = {}
  <2>1. SUFFICES ASSUME T # {} PROVE FALSE
    OBVIOUS
  <2>2. PICK j \in T : \A i \in T : j <= i
    BY <2>1, Least
  <2>3. WordMax \in Nat /\ WordMax >= 1
    BY BufferAssumption
  <2>4. j # 0
    BY <1>11, <1>12, <2>2, <2>3
  <2>5. j - 1 \in Nat /\ ~(j - 1 \in T) /\ j \in 1..Len(s) /\ j - 1 <= Len(s)
    BY <1>1, <2>2, <2>4
  <2>6. counts[j - 1] = IF Over(j - 1) THEN None ELSE products[j - 1]
    BY <2>5
  <2>7. Over(j) <=> Over(j - 1) \/ products[j] > WordMax
    BY <2>5
  <2>8. /\ counts[j] = Multiplied(counts[j - 1], s[j])
        /\ products[j] = products[j - 1] * s[j] /\ s[j] \in Size
        /\ products[j - 1] \in Nat
    BY <1>1, <1>11, <1>12, <2>5
  <2>9. ~(counts[j] = IF Over(j) THEN None ELSE products[j])
    BY <2>2
  <2> HIDE DEF T
  <2>10. CASE Over(j - 1)
    BY <2>6, <2>7, <2>8, <2>9, <2>10 DEF Multiplied
  <2>11. CASE ~Over(j - 1)
    <3>1. counts[j] = IF products[j] > WordMax THEN None ELSE products[j]
      BY <2>6, <2>8, <2>11, MultipliedExact
    <3>2. QED
      BY <2>7, <2>9, <2>11, <3>1
  <2>12. QED
    BY <2>10, <2>11
<1>14. QED
  BY <1>11, <1>12, <1>13 DEF Overflowed
TooLarge(s, dtype) == Overflowed(s, Len(s)) \/ Exact(s) * Itemsize(dtype) > WordMax

\* checked_byte_count of checked_element_count throws for a reason, or is exact.
LEMMA BytesExact ==
  ASSUME NEW s \in Seq(Size), NEW dtype \in DTypes
  PROVE  /\ Itemsize(dtype) \in Nat /\ Exact(s) \in Nat
         /\ ByteCount(ElementCount(s), dtype) =
              IF TooLarge(s, dtype) THEN None ELSE Exact(s) * Itemsize(dtype)
<1>1. WordMax \in Nat /\ None \notin Nat
  BY BufferAssumption
<1>2. s \in Seq(Nat) /\ Len(s) \in 0..Len(s) /\ Len(s) \in Nat
  BY <1>1 DEF Size
<1>3. PICK exact \in Nat : exact = Exact(s) /\ exact = Products(s)[Len(s)]
  BY <1>2, ProductsFacts DEF Exact
<1>4. PICK bytes \in Nat : bytes = Itemsize(dtype)
  <2>1. PICK bits \in Nat : bits = dtype.bits
    BY DEF DTypes
  <2>2. (bits + 7) \div 8 \in Nat
    BY <2>1
  <2>3. QED
    BY <2>1, <2>2 DEF Itemsize
<1>5. PICK count : count = ElementCount(s)
  OBVIOUS
<1>6. count = IF Overflowed(s, Len(s)) THEN None ELSE exact
  BY <1>2, <1>3, <1>5, CountsExact DEF ElementCount
<1>7. CASE Overflowed(s, Len(s))
  BY <1>3, <1>4, <1>5, <1>6, <1>7 DEF TooLarge, ByteCount
<1>8. CASE ~Overflowed(s, Len(s))
  <2>1. exact \in Size /\ count = exact
    BY <1>1, <1>2, <1>3, <1>6, <1>8 DEF Overflowed, Size
  <2>2. /\ bytes * exact \in Nat
        /\ Multiplied(bytes, exact) = IF bytes * exact > WordMax THEN None ELSE bytes * exact
    BY <1>4, <2>1, MultipliedExact
  <2>3. exact * bytes = bytes * exact
    BY <1>3, <1>4
  <2>4. ByteCount(count, dtype) = Multiplied(bytes, exact)
    BY <1>1, <1>3, <1>4, <2>1, <2>3 DEF ByteCount, Multiplied
  <2>5. QED
    BY <1>3, <1>4, <1>5, <1>8, <2>2, <2>3, <2>4 DEF TooLarge
<1>9. QED
  BY <1>7, <1>8

-----------------------------------------------------------------------------
(* Buffers: the invariant *)

\* The buffer is as large as its shape says.
Sized ==
  buffer = None \/ /\ buffer \in Buffers
                   /\ buffer.size = Exact(buffer.shape) * Itemsize(buffer.dtype)
                   /\ buffer.size <= buffer.memory

\* Views have the shape of the buffer and elements of the same width, and keep it alive.
Viewed ==
  /\ held \/ views # {} => buffer # None
  /\ \A view \in views :
       /\ view.shape = buffer.shape
       /\ Itemsize(view.dtype) = Itemsize(buffer.dtype)

\* The last copy fitted, and the last refusal was right.
Told ==
  /\ copied \in Nat
  /\ buffer # None => copied <= buffer.memory
  /\ last.how = "copied" /\ held => copied = buffer.size
  /\ last.how \in {"made", "too large", "no memory"} =>
       (last.how = "too large" <=> TooLarge(last.shape, last.dtype))

BufferInv == Sized /\ Viewed /\ Told

\* There is no buffer at first.
LEMMA BufferBegins == ASSUME BufferInit PROVE BufferInv
BY DEF BufferInit, Ended, BufferInv, Sized, Viewed, Told

\* A name or an array's type that is taken is a dtype, of the width of the elements.
LEMMA DTypeFacts ==
  /\ \A name : FromName(name) # None => FromName(name) = name /\ name \in DTypes
  /\ \A array \in Arrays : \A name : LET dtype == ResolveDtype(array, name) IN
       dtype # None => dtype \in DTypes /\ ElementSize(array) = Itemsize(dtype)
<1>1. Supported \subseteq DTypes
  <2>1. \A code \in Codes, bits \in Nat : DType(code, bits) \in DTypes
    BY DEF DType, DTypes
  <2>2. SUFFICES ASSUME NEW x \in Supported PROVE x \in DTypes
    OBVIOUS
  <2>3. \E code \in Codes, bits \in {8, 16, 32, 64} : x = DType(code, bits)
    BY DEF Supported, Codes
  <2>4. \A bits \in {8, 16, 32, 64} : bits \in Nat
    OBVIOUS
  <2>5. QED
    BY <2>1, <2>3, <2>4
<1>2. \A name : FromName(name) # None => FromName(name) = name /\ name \in DTypes
  BY <1>1 DEF FromName
<1>3. ASSUME NEW array \in Arrays, NEW name, ResolveDtype(array, name) # None
      PROVE  LET dtype == ResolveDtype(array, name) IN
             dtype \in DTypes /\ ElementSize(array) = Itemsize(dtype)
  <2>1. CASE name # None
    BY <1>2, <1>3, <2>1 DEF ResolveDtype
  <2>2. CASE name = None
    <3>1. /\ ResolveDtype(array, name) = array.dtype
          /\ array.lanes = 1 /\ array.dtype \in DTypes
      BY <1>1, <1>3, <2>2 DEF ResolveDtype, FromDlpack
    <3>2. PICK bits \in Nat : bits = array.dtype.bits
      BY <3>1 DEF DTypes
    <3>3. bits * 1 = bits
      BY <3>2
    <3>4. QED
      BY <3>1, <3>2, <3>3 DEF ElementSize, Itemsize
  <2>3. QED
    BY <2>1, <2>2
<1>4. QED
  BY <1>2, <1>3

\* A buffer is made and length bytes are copied into it, or it is refused.
LEMMA AllocateInv ==
  ASSUME BufferInv, buffer = None, NEW shape \in Seq(Size),
         NEW dtype \in DTypes, NEW length \in Nat,
         ~TooLarge(shape, dtype) => length <= Exact(shape) * Itemsize(dtype),
         Allocate(shape, dtype, length), UNCHANGED views
  PROVE  BufferInv'
<1>1. PICK exact \in Nat, bytes \in Nat : exact = Exact(shape) /\ bytes = Itemsize(dtype)
  BY BytesExact
<1>2. exact * bytes \in Nat /\ WordMax \in Nat /\ WordMax >= 1
  BY <1>1, BufferAssumption
<1>3. PICK size : size = ByteCount(ElementCount(shape), dtype)
  OBVIOUS
<1>4. size = IF TooLarge(shape, dtype) THEN None ELSE exact * bytes
  BY <1>1, <1>3, BytesExact
<1>5. size # None <=> ~TooLarge(shape, dtype)
  BY <1>2, <1>4, BufferAssumption
<1>6. size # None => size \in Size /\ size = exact * bytes /\ length <= size
  BY <1>1, <1>2, <1>4, <1>5 DEF TooLarge, Size
<1>7. views = {} /\ views' = {} /\ ~held
  BY DEF BufferInv, Viewed
<1>8. ASSUME size # None, held' = TRUE, copied' = length,
             last' = Ended("made", shape, dtype),
             buffer' = [shape |-> shape, dtype |-> dtype, size |-> size,
                        memory |-> IF size = 0 THEN 1 ELSE size]
      PROVE  BufferInv'
  <2>1. PICK memory \in Size \ {0} : memory = (IF size = 0 THEN 1 ELSE size) /\ size <= memory
    BY <1>2, <1>6, <1>8 DEF Size
  <2>2. buffer' \in Buffers
    BY <1>6, <1>8, <2>1 DEF Buffers
  <2>3. buffer'.shape = shape /\ buffer'.dtype = dtype /\ buffer'.size = size
        /\ buffer'.memory = memory
    BY <1>8, <2>1
  <2>4. Sized'
    BY <1>1, <1>6, <1>8, <2>1, <2>2, <2>3 DEF Sized
  <2>5. buffer' # None
    BY <2>2, BufferAssumption
  <2>6. Viewed'
    BY <1>7, <2>5 DEF Viewed
  <2>7. last'.how = "made" /\ last'.shape = shape /\ last'.dtype = dtype
    BY <1>8 DEF Ended
  <2>8. copied' <= buffer'.memory
    BY <1>2, <1>6, <1>8, <2>1, <2>3
  <2>9. Told'
    BY <1>5, <1>8, <2>7, <2>8 DEF Told
  <2>10. QED
    BY <2>4, <2>6, <2>9 DEF BufferInv
<1>9. ASSUME last' = Ended(IF size = None THEN "too large" ELSE "no memory", shape, dtype),
             UNCHANGED <<buffer, held, copied>>
      PROVE  BufferInv'
  <2>1. /\ last'.how = IF size = None THEN "too large" ELSE "no memory"
        /\ last'.shape = shape /\ last'.dtype = dtype
    BY <1>9 DEF Ended
  <2>2. Told'
    BY <1>5, <1>7, <1>9, <2>1 DEF Told, BufferInv
  <2>3. QED
    BY <1>7, <1>9, <2>2 DEF BufferInv, Sized, Viewed
<1>10. QED
  BY <1>3, <1>8, <1>9 DEF Allocate

\* A constructor that throws before it allocates.
LEMMA ThrowsInv ==
  ASSUME BufferInv, NEW how \in {"dtype", "type", "mismatch"}, Throws(how)
  PROVE  BufferInv'
<1>1. UNCHANGED <<buffer, held, views, copied>> /\ last'.how = how
  BY DEF Throws, Ended
<1>2. Told'
  <2>1. last'.how \notin {"copied", "made", "too large", "no memory"}
    BY <1>1
  <2>2. QED
    BY <1>1, <2>1 DEF Told, BufferInv
<1>3. QED
  BY <1>1, <1>2 DEF BufferInv, Sized, Viewed

\* Buffer(array).
LEMMA FromArrayInv ==
  ASSUME BufferInv, NEW array \in Arrays, NEW name,
         FromArray(array, name)
  PROVE  BufferInv'
<1>1. PICK dtype : dtype = ResolveDtype(array, name)
  OBVIOUS
<1>2. CASE dtype = None
  BY <1>1, <1>2, ThrowsInv DEF FromArray
<1>3. CASE dtype # None
  <2>1. array.shape \in Seq(Size) /\ Nbytes(array) \in Nat
    BY BufferAssumption DEF Size
  <2>2. dtype \in DTypes /\ ElementSize(array) = Itemsize(dtype)
    BY <1>1, <1>3, DTypeFacts
  <2>3. PICK exact \in Nat, bytes \in Nat :
          exact = Exact(array.shape) /\ bytes = Itemsize(dtype)
    BY <2>1, <2>2, BytesExact
  <2>4. Nbytes(array) = exact * bytes
    BY <2>2, <2>3 DEF Nbytes
  <2>5. exact * bytes <= exact * bytes
    BY <2>3
  <2>6. /\ buffer = None /\ UNCHANGED views
        /\ Allocate(array.shape, dtype, Nbytes(array))
    BY <1>1, <1>3 DEF FromArray
  <2>7. Nbytes(array) <= Exact(array.shape) * Itemsize(dtype)
    BY <2>3, <2>4, <2>5
  <2>8. QED
    BY <2>1, <2>2, <2>6, <2>7, AllocateInv
<1>4. QED
  BY <1>2, <1>3

\* Buffer(shape).
LEMMA FromShapeInv ==
  ASSUME BufferInv, NEW shape \in Shapes, NEW name,
         FromShape(shape, name)
  PROVE  BufferInv'
<1>1. CASE FromName(name) = None
  BY <1>1, ThrowsInv DEF FromShape
<1>2. CASE FromName(name) # None
  <2>1. shape \in Seq(Size) /\ name \in DTypes
    BY <1>2, DTypeFacts, BufferAssumption
  <2>2. PICK exact \in Nat, bytes \in Nat :
          exact = Exact(shape) /\ bytes = Itemsize(name)
    BY <2>1, BytesExact
  <2>3. exact * bytes \in Nat
    BY <2>2
  <2>4. 0 <= Exact(shape) * Itemsize(name)
    BY <2>2, <2>3
  <2>5. buffer = None /\ UNCHANGED views /\ Allocate(shape, name, 0)
    BY <1>2 DEF FromShape
  <2>6. QED
    BY <2>1, <2>4, <2>5, AllocateInv
<1>3. QED
  BY <1>1, <1>2

\* copy_from().
LEMMA CopyFromInv ==
  ASSUME BufferInv, NEW array \in Arrays, NEW name,
         CopyFrom(array, name)
  PROVE  BufferInv'
<1>1. CASE Throws("mismatch")
  BY <1>1, ThrowsInv
<1>2. CASE /\ Nbytes(array) = buffer.size /\ copied' = Nbytes(array)
           /\ last' = Ended("copied", << >>, None)
           /\ UNCHANGED <<buffer, held, views>>
  <2>1. Nbytes(array) \in Nat
    BY BufferAssumption DEF Size
  <2>2. last'.how = "copied"
    BY <1>2 DEF Ended
  <2>3. buffer # None => buffer.size <= buffer.memory
    BY DEF BufferInv, Sized
  <2>4. QED
    BY <1>2, <2>1, <2>2, <2>3 DEF BufferInv, Sized, Viewed, Told
<1>3. QED
  BY <1>1, <1>2 DEF CopyFrom

\* A view of the buffer, with its shape or with another.
LEMMA ExportInv ==
  ASSUME BufferInv, held, NEW dtype,
         Itemsize(dtype) = Itemsize(buffer.dtype), Export(dtype)
  PROVE  BufferInv'
<1>1. buffer' = buffer /\ held' = held /\ buffer # None /\ copied' = copied
  BY DEF BufferInv, Viewed, Export
<1>2. ASSUME NEW view \in views'
      PROVE  view.shape = buffer.shape /\ Itemsize(view.dtype) = Itemsize(buffer.dtype)
  <2>1. view \in views \/ view = [shape |-> buffer.shape, dtype |-> dtype]
    BY DEF Export
  <2>2. QED
    BY <2>1 DEF BufferInv, Viewed
<1>3. last'.how = "exported"
  BY DEF Export, Ended
<1>4. QED
  BY <1>1, <1>2, <1>3 DEF BufferInv, Sized, Viewed, Told

\* A view is read.
LEMMA ReadInv ==
  ASSUME BufferInv, NEW name, ToNumpy(name) \/ ToDlpack
  PROVE  BufferInv'
<1>1. CASE \E how \in {"dtype", "type"} : Throws(how)
  BY <1>1, ThrowsInv
<1>2. CASE \E dtype : /\ held /\ Itemsize(dtype) = Itemsize(buffer.dtype)
                      /\ Export(dtype)
  BY <1>2, ExportInv
<1>3. QED
  BY <1>1, <1>2 DEF ToNumpy, ToDlpack

\* The buffer or a view is let go.
LEMMA ForgetInv ==
  ASSUME BufferInv, Forget \/ \E view \in views : ForgetView(view)
  PROVE  BufferInv'
<1>1. /\ views' \subseteq views /\ UNCHANGED <<copied, last>>
      /\ buffer' = buffer \/ (buffer' = None /\ views' = {} /\ held' = FALSE)
      /\ held' => held
  BY DEF Forget, ForgetView, BufferInv, Viewed
<1>2. CASE buffer' = buffer
  BY <1>1, <1>2 DEF BufferInv, Sized, Viewed, Told
<1>3. CASE buffer' = None /\ views' = {} /\ held' = FALSE
  BY <1>1, <1>3 DEF BufferInv, Sized, Viewed, Told
<1>4. QED
  BY <1>1, <1>2, <1>3

\* Every step keeps the invariant.
LEMMA BufferStep ==
  ASSUME BufferInv, [BufferNext]_bufferVars
  PROVE  BufferInv'
<1>1. CASE UNCHANGED bufferVars
  BY <1>1 DEF bufferVars, BufferInv, Sized, Viewed, Told
<1>2. CASE BufferNext
  BY <1>2, FromArrayInv, FromShapeInv, CopyFromInv, ReadInv, ForgetInv DEF BufferNext
<1>3. QED
  BY <1>1, <1>2

\* A buffer is as large as its shape and dtype say, no copy was longer than its memory, and
\* a shape is refused as too large only if it is (bindings.cpp:108-135, 141-217).
THEOREM BufferInvariance == BufferSpec => []BufferInv
BY BufferBegins, BufferStep, PTL DEF BufferSpec

\* No product of lengths wraps unnoticed, whatever the shape: checked_multiply sees it
\* (bindings.cpp:108-117, 212-217).
THEOREM SizesAreExact == BufferSpec => []SizesExact
<1>1. BufferInv => SizesExact
  BY DEF BufferInv, Sized, Told, TooLarge, Overflowed, SizesExact
<1>2. QED
  BY <1>1, BufferInvariance, PTL

\* The bytes that are copied into a buffer, and those a view reads, are within its memory
\* (bindings.cpp:119-135, 141-144, 155-196).
THEOREM CopiesAndViewsFit == BufferSpec => []WithinMemory
<1>1. BufferInv => WithinMemory
  BY DEF BufferInv, Sized, Viewed, Told, WithinMemory
<1>2. QED
  BY <1>1, BufferInvariance, PTL

-----------------------------------------------------------------------------
(* Captures: the flag capture_started_ and Metal's capture are changed in   *)
(* steps of their own, so neither property is inductive: CaptureInv says     *)
(* where they may differ, which is at the program points of the owner of     *)
(* capture_mutex_ and after the rest of the process stopped a capture of ours. *)

Locked == {"check", "start", "mark", "stop", "clear"}

CaptureTypeOK ==
  /\ active \in Threads \cup {Foreign, Nobody}
  /\ capture_started_ \in BOOLEAN /\ meddled \in BOOLEAN
  /\ pc   \in [Threads -> {"idle", "lock"} \cup Locked]
  /\ op   \in [Threads -> {"start", "enter", "stop"}]

\* The critical sections of capture_mutex_ exclude each other.
Exclusive == \A t \in Threads : pc[t] \in Locked => mutex = t

\* What the owner of the mutex knows of the flag and of the capture.
OwnerKnows == \A t \in Threads :
  /\ pc[t] = "mark"  => Ours(active) \/ meddled
  /\ pc[t] = "stop"  => capture_started_
  /\ pc[t] = "clear" => ~Ours(active)

\* The flag is set for a capture that is not ours only if it was ended behind our back,
\* or is just being ended.
FlagIsOurs == capture_started_ /\ ~Ours(active) =>
  meddled \/ \E t \in Threads : pc[t] = "clear"

CaptureInv ==
  /\ CaptureTypeOK /\ Exclusive /\ OwnerKnows /\ FlagIsOurs
  /\ OwnCaptureStoppable /\ StopsOnlyOurs

USE CaptureAssumption

\* No capture is under way at first.
LEMMA CaptureBegins ==
  ASSUME CaptureInit
  PROVE  CaptureInv
BY DEF CaptureInit, CaptureInv, CaptureTypeOK, Exclusive, OwnerKnows, FlagIsOurs,
  OwnCaptureStoppable, StopsOnlyOurs, Ours, Locked

\* A call begins: nothing but the program point of t changes.
LEMMA CaptureOutside ==
  ASSUME CaptureInv, NEW t \in Threads, Call(t) \/ Exit(t)
  PROVE  CaptureInv'
<1>1. /\ pc[t] = "idle" /\ pc' = [pc EXCEPT ![t] = "lock"]
      /\ \E o \in {"start", "enter", "stop"} : op' = [op EXCEPT ![t] = o]
      /\ UNCHANGED <<active, capture_started_, mutex, stopped, meddled>>
  BY DEF Call, Exit, Goto, history
<1>2. \A u \in Threads : pc'[u] = IF u = t THEN "lock" ELSE pc[u]
  BY <1>1 DEF CaptureInv, CaptureTypeOK
<1>3. CaptureTypeOK'
  BY <1>1 DEF CaptureInv, CaptureTypeOK
<1>4. Exclusive' /\ OwnerKnows' /\ FlagIsOurs' /\ OwnCaptureStoppable' /\ StopsOnlyOurs'
  BY <1>1, <1>2 DEF CaptureInv, Exclusive, OwnerKnows, FlagIsOurs, OwnCaptureStoppable,
                    StopsOnlyOurs, Ours, Locked
<1>5. QED
  BY <1>3, <1>4 DEF CaptureInv

\* t, in a critical section or entering one, goes to label.
Moves(t, label) ==
  /\ pc[t] \in Locked \/ mutex = Nobody
  /\ pc' = [pc EXCEPT ![t] = label]
  /\ label \in Locked => mutex' = t
  /\ UNCHANGED <<op, meddled>>

\* The flag and the capture after a step to label fit together.
Fitting(label) ==
  /\ active' \in Threads \cup {Foreign, Nobody} /\ capture_started_' \in BOOLEAN
  /\ label = "mark"  => Ours(active') \/ meddled
  /\ label = "stop"  => capture_started_'
  /\ label = "clear" => ~Ours(active')
  /\ capture_started_' /\ ~Ours(active') => meddled \/ label = "clear"
  /\ Ours(active') => capture_started_' \/ label = "mark"
  /\ stopped' = Foreign => meddled

\* A step to a label that fits it keeps the invariant.
LEMMA OwnerStep ==
  ASSUME CaptureInv,
         NEW t \in Threads, NEW label \in {"idle", "lock"} \cup Locked,
         Moves(t, label), Fitting(label)
  PROVE  CaptureInv'
<1>1. \A u \in Threads : pc'[u] = IF u = t THEN label ELSE pc[u]
  BY DEF CaptureInv, CaptureTypeOK, Moves
<1>2. \A u \in Threads \ {t} : pc[u] \notin Locked
  BY DEF CaptureInv, Exclusive, Moves
<1>3. CaptureTypeOK'
  BY DEF CaptureInv, CaptureTypeOK, Moves, Fitting
<1>4. Exclusive'
  BY <1>1, <1>2 DEF Exclusive, Moves
<1>5. OwnerKnows'
  BY <1>1, <1>2 DEF OwnerKnows, Locked, Fitting, Moves, Ours
<1>6. FlagIsOurs' /\ OwnCaptureStoppable'
  BY <1>1 DEF FlagIsOurs, OwnCaptureStoppable, Fitting, Moves, Ours
<1>7. StopsOnlyOurs'
  BY DEF StopsOnlyOurs, Fitting, Moves
<1>8. QED
  BY <1>3, <1>4, <1>5, <1>6, <1>7 DEF CaptureInv

\* What t can rely on when it is alone in a critical section, or enters one.
LEMMA OwnerRelies ==
  ASSUME CaptureInv, NEW t \in Threads, pc[t] \in Locked \/ mutex = Nobody
  PROVE  /\ active \in Threads \cup {Foreign, Nobody} /\ capture_started_ \in BOOLEAN
         /\ pc[t] = "mark"  => Ours(active) \/ meddled
         /\ pc[t] = "stop"  => capture_started_
         /\ pc[t] = "clear" => ~Ours(active)
         /\ capture_started_ /\ ~Ours(active) => meddled \/ pc[t] = "clear"
         /\ Ours(active) => capture_started_ \/ pc[t] = "mark"
         /\ stopped = Foreign => meddled
<1>1. \A u \in Threads \ {t} : pc[u] \notin Locked
  BY DEF CaptureInv, Exclusive
<1>2. QED
  BY <1>1 DEF CaptureInv, CaptureTypeOK, OwnerKnows, FlagIsOurs, OwnCaptureStoppable,
       StopsOnlyOurs, Locked

\* Every step of a thread of ours keeps the invariant.
LEMMA CaptureStep ==
  ASSUME CaptureInv, NEW t \in Threads, Step(t)
  PROVE  CaptureInv'
<1> DEFINE Label == {"idle", "lock"} \cup Locked
<1>1. pc[t] \in Locked \/ mutex = Nobody
  BY DEF Step, Acquire, CheckFree, Start, Mark, CheckStarted, Stop, Clear, Locked
<1>2. CASE Acquire(t)
  <2>1. Moves(t, "check") /\ "check" \in Label
    BY <1>1, <1>2 DEF Acquire, Moves, Goto, history, Locked
  <2>2. Fitting("check")
    BY <1>1, <1>2, OwnerRelies DEF Acquire, Fitting, history
  <2>3. QED
    BY <2>1, <2>2, OwnerStep
<1>3. CASE CheckFree(t)
  <2>1. PICK label \in {"idle", "start"} : Moves(t, label)
    BY <1>1, <1>3 DEF CheckFree, Moves, Goto, Leave, history, Locked, CaptureInv, Exclusive
  <2>2. Fitting(label)
    BY <1>1, <1>3, OwnerRelies DEF CheckFree, Fitting, history
  <2>3. QED
    BY <2>1, <2>2, OwnerStep DEF Locked
<1>4. CASE Start(t)
  <2>1. \/ Moves(t, "idle") /\ UNCHANGED active
        \/ Moves(t, "mark") /\ active' = t
    BY <1>1, <1>4 DEF Start, Moves, Goto, Leave, history, Locked, CaptureInv, Exclusive
  <2>2. pc[t] = "start" /\ UNCHANGED <<capture_started_, stopped>>
    BY <1>4 DEF Start, history
  <2>3. CASE Moves(t, "idle") /\ UNCHANGED active
    <3>1. Fitting("idle")
      BY <1>1, <2>2, <2>3, OwnerRelies DEF Fitting
    <3>2. QED
      BY <2>3, <3>1, OwnerStep
  <2>4. CASE Moves(t, "mark") /\ active' = t
    <3>1. Fitting("mark")
      BY <1>1, <2>2, <2>4, OwnerRelies DEF Fitting, Ours
    <3>2. QED
      BY <2>4, <3>1, OwnerStep DEF Locked
  <2>5. QED
    BY <2>1, <2>3, <2>4
<1>5. CASE Mark(t)
  <2>1. Moves(t, "idle")
    BY <1>1, <1>5 DEF Mark, Moves, Goto, Leave, history, Locked
  <2>2. Fitting("idle")
    BY <1>1, <1>5, OwnerRelies DEF Mark, Fitting, history
  <2>3. QED
    BY <2>1, <2>2, OwnerStep
<1>6. CASE CheckStarted(t)
  <2>1. pc[t] = "check" /\ UNCHANGED <<active, stopped>>
    BY <1>6 DEF CheckStarted, history
  <2>2. CASE capture_started_ /\ active # Nobody
    <3>1. Moves(t, "stop") /\ UNCHANGED capture_started_
      BY <1>1, <1>6, <2>2 DEF CheckStarted, Moves, Goto, history, Locked, CaptureInv, Exclusive
    <3>2. Fitting("stop")
      BY <1>1, <2>1, <2>2, <3>1, OwnerRelies DEF Fitting
    <3>3. QED
      BY <3>1, <3>2, OwnerStep DEF Locked
  <2>3. CASE ~(capture_started_ /\ active # Nobody)
    <3>1. Moves(t, "idle") /\ capture_started_' = FALSE
      BY <1>1, <1>6, <2>3 DEF CheckStarted, Moves, Goto, Leave, history, Locked
    <3>2. ~Ours(active)
      BY <1>1, <2>1, <2>3, OwnerRelies DEF Ours
    <3>3. Fitting("idle")
      BY <1>1, <2>1, <3>1, <3>2, OwnerRelies DEF Fitting
    <3>4. QED
      BY <3>1, <3>3, OwnerStep
  <2>4. QED
    BY <2>2, <2>3
<1>7. CASE Stop(t)
  <2>1. Moves(t, "clear")
    BY <1>1, <1>7 DEF Stop, Moves, Goto, Locked, CaptureInv, Exclusive
  <2>2. pc[t] = "stop" /\ stopped' = active /\ active' = Nobody /\ UNCHANGED capture_started_
    BY <1>7 DEF Stop
  <2>3. Fitting("clear")
    BY <1>1, <2>2, OwnerRelies DEF Fitting, Ours
  <2>4. QED
    BY <2>1, <2>3, OwnerStep DEF Locked
<1>8. CASE Clear(t)
  <2>1. Moves(t, "idle")
    BY <1>1, <1>8 DEF Clear, Moves, Goto, Leave, history, Locked
  <2>2. Fitting("idle")
    BY <1>1, <1>8, OwnerRelies DEF Clear, Fitting, history
  <2>3. QED
    BY <2>1, <2>2, OwnerStep
<1>9. QED
  BY <1>2, <1>3, <1>4, <1>5, <1>6, <1>7, <1>8 DEF Step

\* The rest of the process acts between the steps of a call.
LEMMA CaptureForeign ==
  ASSUME CaptureInv, ForeignStart \/ ForeignStop
  PROVE  CaptureInv'
<1>1. UNCHANGED <<capture_started_, mutex, pc, op, stopped>>
  BY DEF ForeignStart, ForeignStop, threadVars, history
<1>2. CASE ForeignStart
  <2>1. active = Nobody /\ active' = Foreign /\ UNCHANGED meddled
    BY <1>2 DEF ForeignStart, history
  <2>2. QED
    BY <1>1, <2>1
    DEF CaptureInv, CaptureTypeOK, Exclusive, OwnerKnows, FlagIsOurs, OwnCaptureStoppable,
      StopsOnlyOurs, Ours
<1>3. CASE ForeignStop
  <2>1. active' = Nobody /\ meddled' = (meddled \/ Ours(active))
    BY <1>3 DEF ForeignStop
  <2>2. QED
    BY <1>1, <2>1
    DEF CaptureInv, CaptureTypeOK, Exclusive, OwnerKnows, FlagIsOurs, OwnCaptureStoppable,
      StopsOnlyOurs, Ours
<1>4. QED
  BY <1>2, <1>3

\* CaptureInv is an invariant of every behaviour of Capture (runtime.cpp:84-117).
THEOREM CaptureInvariance == CaptureSpec => []CaptureInv
<1>1. CaptureInv /\ [CaptureNext]_captureVars => CaptureInv'
  <2>1. ASSUME CaptureInv, UNCHANGED captureVars PROVE CaptureInv'
    BY <2>1 DEF captureVars, threadVars, history, CaptureInv, CaptureTypeOK, Exclusive,
      OwnerKnows, FlagIsOurs,
                OwnCaptureStoppable, StopsOnlyOurs, Ours
  <2>2. ASSUME CaptureInv, CaptureNext PROVE CaptureInv'
    BY <2>2, CaptureOutside, CaptureStep, CaptureForeign DEF CaptureNext
  <2>3. QED
    BY <2>1, <2>2
<1>2. QED
  BY CaptureBegins, <1>1, PTL DEF CaptureSpec

\* A capture of ours can be stopped through this runtime, whatever the interleaving of
\* its calls with the other users of the capture manager (runtime.cpp:94-98, 103-109).
THEOREM OwnCapturesAreStoppable ==
  CaptureSpec => []OwnCaptureStoppable
<1>1. CaptureInv => OwnCaptureStoppable
  BY DEF CaptureInv
<1>2. QED
  BY <1>1, CaptureInvariance, PTL

\* stop_capture() ends nobody else's capture unless ours was ended behind its back
\* (runtime.cpp:100-109).
THEOREM StopsAreOurs == CaptureSpec => []StopsOnlyOurs
<1>1. CaptureInv => StopsOnlyOurs
  BY DEF CaptureInv
<1>2. QED
  BY <1>1, CaptureInvariance, PTL
=============================================================================
