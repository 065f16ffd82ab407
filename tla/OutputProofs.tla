---------------------------- MODULE OutputProofs ----------------------------
(***************************************************************************)
(* Proofs about the way of a command's output to the client, for texts of  *)
(* any length, any limits and any frame size: a response fits its frame,   *)
(* a result that is not marked as truncated is complete, a stream that is  *)
(* redacted in chunks is redacted as if it were whole, the counts of a     *)
(* result are its markers, no byte of a URL's user or password is shown,   *)
(* and two streams share a frame fairly.                                   *)
(***************************************************************************)
EXTENDS Output, WellFoundedInduction, FiniteSetTheorems, SequenceTheorems, TLAPS

-----------------------------------------------------------------------------
(* Numbers and sums. *)

\* Induction over the natural numbers, for a set of them.
LEMMA SetInduction ==
    ASSUME NEW S, 0 \in S, \A n \in Nat : n \in S => n + 1 \in S
    PROVE  Nat \subseteq S
<1> SUFFICES ASSUME NEW m \in Nat, m \notin S PROVE FALSE
  OBVIOUS
<1> DEFINE T == Nat \ S
           R == OpToRel(<, Nat)
<1>1. T \subseteq Nat /\ T # {}
  OBVIOUS
<1>2. \E x \in T : \A y \in T : ~ (<<y, x>> \in R)
  <2> HIDE DEF T
  <2> QED
    BY <1>1, WFMin, NatLessThanWellFounded
<1>3. PICK x \in T : \A y \in T : ~ (<<y, x>> \in R)
  BY <1>2
<1>4. \A y \in T : ~ (y < x)
  BY <1>3 DEF OpToRel
<1>5. x # 0 /\ x - 1 \in Nat /\ (x - 1) + 1 = x
  OBVIOUS
<1>6. x - 1 \in S
  BY <1>4, <1>5
<1> QED
  BY <1>5, <1>6

\* A set of numbers that is bounded and not empty has a greatest element.
LEMMA Greatest ==
    ASSUME NEW n \in Nat, NEW S, S \subseteq 0..n, S # {}
    PROVE  \E m \in S : \A j \in S : j <= m
<1> DEFINE T == { k \in Nat : \A m \in S : m <= k => \E g \in S : g <= k /\ \A j \in S : j <= k => j <= g }
<1>1. 0 \in T
  OBVIOUS
<1>2. ASSUME NEW k \in Nat, k \in T PROVE k + 1 \in T
  <2>1. CASE k + 1 \in S
    BY <2>1
  <2>2. CASE k + 1 \notin S
    <3>1. \A j \in S : j <= k + 1 <=> j <= k
      BY <2>2
    <3> QED
      BY <1>2, <3>1
  <2> QED
    BY <2>1, <2>2
<1>3. n \in T
  <2> HIDE DEF T
  <2> QED
    BY <1>1, <1>2, SetInduction
<1>4. \A j \in S : j <= n
  OBVIOUS
<1>5. PICK m \in S : m <= n
  BY <1>4
<1>6. PICK g \in S : \A j \in S : j <= n => j <= g
  BY <1>3, <1>5
<1> QED
  BY <1>4, <1>6

\* The smaller of two numbers.
LEMMA MinOfTwo ==
    ASSUME NEW a \in Int, NEW b \in Int
    PROVE  Min({a, b}) = IF a <= b THEN a ELSE b
<1>1. CASE a <= b
  BY <1>1 DEF Min
<1>2. CASE ~(a <= b)
  BY <1>2 DEF Min
<1> QED
  BY <1>1, <1>2

\* The greatest number of a set that is bounded and not empty.
LEMMA MaxIs ==
    ASSUME NEW n \in Nat, NEW S, S \subseteq 0..n, S # {}
    PROVE  Max(S) \in S /\ \A j \in S : j <= Max(S)
<1>1. PICK m \in S : \A j \in S : j <= m
  BY Greatest
<1>2. \A j \in S : m >= j
  BY <1>1
<1>3. Max(S) \in S /\ \A j \in S : Max(S) >= j
  BY <1>2 DEF Max
<1> QED
  BY <1>3

\* The function by which a sum over the set S is defined, for the subsets of S in T.
Pick(s) == CHOOSE x \in s : TRUE
Sums(f, T, it) == it = [ s \in T |-> IF s = {} THEN 0 ELSE f[Pick(s)] + it[s \ {Pick(s)}] ]

\* There is such a function, and the sum is its value at S.
LEMMA SumIs ==
    ASSUME NEW f, IsFiniteSet(DOMAIN f)
    PROVE  \E it : Sums(f, SUBSET DOMAIN f, it) /\ SumFunction(f) = it[DOMAIN f]
<1> DEFINE D == DOMAIN f
           T(n) == { s \in SUBSET D : Cardinality(s) <= n }
           N == { n \in Nat : \E it : Sums(f, T(n), it) }
<1>1. \A s \in SUBSET D : IsFiniteSet(s) /\ Cardinality(s) \in Nat /\ Cardinality(s) <= Cardinality(D)
  BY FS_Subset, FS_CardinalityType
<1>2. \A s \in SUBSET D : s # {} =>
         /\ Pick(s) \in s /\ s \ {Pick(s)} \in SUBSET D
         /\ Cardinality(s \ {Pick(s)}) = Cardinality(s) - 1
  <2> SUFFICES ASSUME NEW s \in SUBSET D, s # {}
               PROVE  /\ Pick(s) \in s /\ s \ {Pick(s)} \in SUBSET D
                      /\ Cardinality(s \ {Pick(s)}) = Cardinality(s) - 1
    OBVIOUS
  <2>1. Pick(s) \in s
    BY DEF Pick
  <2> QED
    BY <1>1, <2>1, FS_RemoveElement
<1>3. 0 \in N
  <2>1. T(0) = {{}}
    BY <1>1, FS_EmptySet
  <2>2. Sums(f, T(0), [ s \in T(0) |-> 0 ])
    BY <2>1 DEF Sums
  <2> QED
    BY <2>2
<1>4. ASSUME NEW n \in Nat, n \in N PROVE n + 1 \in N
  <2>1. PICK g : Sums(f, T(n), g)
    BY <1>4
  <2> DEFINE h == [ s \in T(n + 1) |-> IF s \in T(n) THEN g[s] ELSE f[Pick(s)] + g[s \ {Pick(s)}] ]
  <2>2. ASSUME NEW s \in T(n + 1) PROVE h[s] = IF s = {} THEN 0 ELSE f[Pick(s)] + h[s \ {Pick(s)}]
    <3>1. s # {} => s \ {Pick(s)} \in T(n) /\ s \ {Pick(s)} \in T(n + 1)
      BY <1>1, <1>2
    <3>2. s # {} => h[s \ {Pick(s)}] = g[s \ {Pick(s)}]
      BY <3>1
    <3>3. {} \in T(n)
      BY FS_EmptySet
    <3>4. CASE s \in T(n)
      <4>1. g[s] = IF s = {} THEN 0 ELSE f[Pick(s)] + g[s \ {Pick(s)}]
        BY <2>1, <3>4 DEF Sums
      <4> QED
        BY <3>2, <3>4, <4>1
    <3>5. CASE s \notin T(n)
      BY <3>2, <3>3, <3>5
    <3> QED
      BY <3>4, <3>5
  <2> DEFINE h2 == [ s \in T(n + 1) |-> IF s = {} THEN 0 ELSE f[Pick(s)] + h[s \ {Pick(s)}] ]
  <2>3. h = h2
    <3>1. \A s \in T(n + 1) : h[s] = h2[s]
      BY <2>2
    <3> QED
      BY <3>1
  <2>4. Sums(f, T(n + 1), h)
    BY <2>3 DEF Sums
  <2> HIDE DEF h, h2, T
  <2>5. \E it : Sums(f, T(n + 1), it)
    BY <2>4
  <2> QED
    BY <2>5
<1>5. Cardinality(D) \in N
  <2> HIDE DEF N
  <2>1. Nat \subseteq N
    BY <1>3, <1>4, SetInduction
  <2> QED
    BY <1>1, <2>1
<1>6. T(Cardinality(D)) = SUBSET D
  BY <1>1
<1>7. \E it : Sums(f, SUBSET D, it)
  BY <1>5, <1>6
<1> DEFINE it == CHOOSE it : Sums(f, SUBSET D, it)
<1>8. Sums(f, SUBSET D, it)
  BY <1>7
<1>9. SumFunction(f) = it[D]
  BY DEF SumFunction, SumFunctionOnSet, FoldFunctionOnSet, MapThenFoldSet, Sums, Pick
<1> QED
  BY <1>8, <1>9

\* A sum of natural numbers is one, that of nothing is zero, and that of two is theirs.
LEMMA SumOfNaturals ==
    ASSUME NEW n \in Nat, NEW f \in [1..n -> Nat]
    PROVE  /\ SumFunction(f) \in Nat
           /\ n = 0 => SumFunction(f) = 0
           /\ n = 2 => SumFunction(f) = f[1] + f[2]
<1>1. DOMAIN f = 1..n /\ IsFiniteSet(1..n) /\ Cardinality(1..n) \in Nat
  BY FS_Interval, FS_CardinalityType
<1>2. PICK it : Sums(f, SUBSET (1..n), it) /\ SumFunction(f) = it[1..n]
  BY <1>1, SumIs
<1>3. \A s \in SUBSET (1..n) : it[s] = IF s = {} THEN 0 ELSE f[Pick(s)] + it[s \ {Pick(s)}]
  BY <1>2 DEF Sums
<1>4. \A s \in SUBSET (1..n) : s # {} => Pick(s) \in s
  BY DEF Pick
<1>5. it[{}] = 0
  <2>1. {} \in SUBSET (1..n)
    OBVIOUS
  <2> QED
    BY <1>3, <2>1
<1>6. SumFunction(f) \in Nat
  <2> DEFINE N == { k \in Nat : \A s \in SUBSET (1..n) : Cardinality(s) <= k => it[s] \in Nat }
  <2>1. \A s \in SUBSET (1..n) : IsFiniteSet(s) /\ Cardinality(s) \in Nat
    BY <1>1, FS_Subset, FS_CardinalityType
  <2>2. 0 \in N
    <3>1. \A s \in SUBSET (1..n) : Cardinality(s) <= 0 => s = {}
      BY <2>1, FS_EmptySet
    <3>2. ASSUME NEW s \in SUBSET (1..n), Cardinality(s) <= 0 PROVE it[s] \in Nat
      <4>1. s = {}
        BY <3>1, <3>2
      <4> QED
        BY <1>5, <4>1
    <3> QED
      BY <3>2
  <2>3. ASSUME NEW k \in Nat, k \in N PROVE k + 1 \in N
    <3>1. ASSUME NEW s \in SUBSET (1..n), Cardinality(s) <= k + 1 PROVE it[s] \in Nat
      <4>1. CASE s = {}
        BY <1>5, <4>1
      <4>2. CASE s # {}
        <5>1. Pick(s) \in s /\ f[Pick(s)] \in Nat
          BY <1>4, <4>2
        <5>2. Cardinality(s \ {Pick(s)}) = Cardinality(s) - 1 /\ s \ {Pick(s)} \in SUBSET (1..n)
          BY <2>1, <5>1, FS_RemoveElement
        <5>3. Cardinality(s \ {Pick(s)}) <= k
          BY <2>1, <3>1, <5>2
        <5>4. it[s \ {Pick(s)}] \in Nat
          BY <2>3, <5>2, <5>3
        <5>5. it[s] = f[Pick(s)] + it[s \ {Pick(s)}]
          BY <1>3, <4>2
        <5> QED
          BY <5>1, <5>4, <5>5
      <4> QED
        BY <4>1, <4>2
    <3> QED
      BY <3>1
  <2>4. Nat \subseteq N
    <3> HIDE DEF N
    <3> QED
      BY <2>2, <2>3, SetInduction
  <2>5. Cardinality(1..n) \in N
    <3> HIDE DEF N
    <3> QED
      BY <1>1, <2>4
  <2>6. it[1..n] \in Nat
    BY <1>1, <2>5
  <2> QED
    BY <1>2, <2>6
<1>7. ASSUME n = 0 PROVE SumFunction(f) = 0
  <2>1. 1..n = {}
    BY <1>7
  <2> QED
    BY <1>2, <1>3, <2>1
<1>8. ASSUME n = 2 PROVE SumFunction(f) = f[1] + f[2]
  <2>1. 1..n = {1, 2}
    BY <1>8
  <2>2. f[1] \in Nat /\ f[2] \in Nat
    BY <2>1
  <2>3. it[{}] = 0 /\ it[{1}] = f[1] + it[{}] /\ it[{2}] = f[2] + it[{}]
    <3>1. Pick({1}) = 1 /\ Pick({2}) = 2
      BY DEF Pick
    <3>2. {1} \ {1} = {} /\ {2} \ {2} = {} /\ {1} # {} /\ {2} # {}
      OBVIOUS
    <3>3. {} \in SUBSET (1..n) /\ {1} \in SUBSET (1..n) /\ {2} \in SUBSET (1..n)
      BY <2>1
    <3> QED
      BY <1>3, <3>1, <3>2, <3>3
  <2>4. it[1..n] = f[Pick({1, 2})] + it[{1, 2} \ {Pick({1, 2})}]
    BY <1>3, <2>1
  <2>5. Pick({1, 2}) = 1 \/ Pick({1, 2}) = 2
    BY DEF Pick
  <2>6. CASE Pick({1, 2}) = 1
    <3>1. {1, 2} \ {Pick({1, 2})} = {2}
      BY <2>6
    <3>2. it[1..n] = f[1] + it[{2}]
      BY <2>4, <2>6, <3>1
    <3> QED
      BY <1>2, <2>2, <2>3, <3>2
  <2>7. CASE Pick({1, 2}) = 2
    <3>1. {1, 2} \ {Pick({1, 2})} = {1}
      BY <2>7
    <3>2. it[1..n] = f[2] + it[{1}]
      BY <2>4, <2>7, <3>1
    <3> QED
      BY <1>2, <2>2, <2>3, <3>2
  <2> QED
    BY <2>5, <2>6, <2>7
<1> QED
  BY <1>6, <1>7, <1>8

-----------------------------------------------------------------------------
(* Sizes and prefixes. *)

\* Every text has a size; what is empty has none.
LEMMA SizeIs ==
    ASSUME NEW S, NEW text \in Seq(S)
    PROVE  ContentSize(text) \in Nat /\ (text = <<>> => ContentSize(text) = 0)
<1> DEFINE f == [ i \in DOMAIN text |-> JsonSize(text[i].c) ]
<1>1. \A c : JsonSize(c) \in Nat
  BY DEF JsonSize
<1>2. DOMAIN text = 1..Len(text) /\ Len(text) \in Nat
  OBVIOUS
<1>3. f \in [ 1..Len(text) -> Nat ]
  BY <1>1, <1>2
<1>4. ContentSize(text) = SumFunction(f)
  BY DEF ContentSize
<1> HIDE DEF f
<1> QED
  BY <1>2, <1>3, <1>4, SumOfNaturals

\* jsonPrefix returns a prefix that fits its budget.
LEMMA PrefixFits ==
    ASSUME NEW S, NEW text \in Seq(S), NEW budget \in Nat
    PROVE  /\ JsonPrefix(text, budget) \in Seq(S)
           /\ ContentSize(JsonPrefix(text, budget)) <= budget
           /\ text = <<>> => JsonPrefix(text, budget) = <<>>
<1> DEFINE K == { k \in 0 .. Len(text) : /\ k = 0 \/ text[k].c \notin {"l", "r1", "r2"}
                                         /\ ContentSize(SubSeq(text, 1, k)) <= budget }
           m == Max(K)
<1>1. Len(text) \in Nat /\ K \subseteq 0 .. Len(text)
  OBVIOUS
<1>2. SubSeq(text, 1, 0) = <<>>
  BY <1>1
<1>3. ContentSize(SubSeq(text, 1, 0)) <= budget
  <2> DEFINE e == SubSeq(text, 1, 0)
  <2>1. e \in Seq(S) /\ e = <<>>
    BY <1>2
  <2> HIDE DEF e
  <2>2. ContentSize(e) = 0
    BY <2>1, SizeIs
  <2>3. ContentSize(e) <= budget
    BY <2>2
  <2> QED
    BY <2>3 DEF e
<1>4. 0 \in K
  BY <1>1, <1>3
<1>5. m \in K
  <2> HIDE DEF K
  <2> QED
    BY <1>1, <1>4, MaxIs
<1>6. JsonPrefix(text, budget) = SubSeq(text, 1, m)
  BY DEF JsonPrefix
<1>7. m \in 0 .. Len(text) /\ ContentSize(SubSeq(text, 1, m)) <= budget
  BY <1>5
<1> HIDE DEF m
<1>8. SubSeq(text, 1, m) \in Seq(S)
  BY <1>1, <1>7
<1>9. text = <<>> => m = 0
  BY <1>7
<1> QED
  BY <1>2, <1>6, <1>7, <1>8, <1>9

-----------------------------------------------------------------------------
(* The cut of the output. *)

\* The room for the contents of the streams, when the names of their fields are paid for.
Room(stdout, stderr, available) ==
    available - (IF stdout = <<>> THEN 0 ELSE FieldBytes) - (IF stderr = <<>> THEN 0 ELSE FieldBytes)

\* How many streams there are.
LEMMA FieldCount ==
    ASSUME NEW stdout, NEW stderr, NEW available \in Int
    PROVE  available - FieldBytes * Cardinality({ i \in 1 .. 2 : <<stdout, stderr>>[i] # <<>> })
              = Room(stdout, stderr, available)
<1> DEFINE F == { i \in 1 .. 2 : <<stdout, stderr>>[i] # <<>> }
           n == Cardinality(F)
<1>1. \A i : i \in F <=> (i = 1 /\ stdout # <<>>) \/ (i = 2 /\ stderr # <<>>)
  OBVIOUS
<1>2. Cardinality({}) = 0 /\ Cardinality({1}) = 1 /\ Cardinality({2}) = 1 /\ Cardinality({1, 2}) = 2
  <2>1. Cardinality({}) = 0 /\ Cardinality({1}) = 1 /\ Cardinality({2}) = 1
    BY FS_EmptySet, FS_Singleton
  <2>2. IsFiniteSet({1}) /\ 2 \notin {1} /\ {1} \cup {2} = {1, 2}
    <3>1. IsFiniteSet({1})
      BY FS_Singleton
    <3>2. 2 \notin {1} /\ {1} \cup {2} = {1, 2}
      OBVIOUS
    <3> QED
      BY <3>1, <3>2
  <2>3. Cardinality({1} \cup {2}) = Cardinality({1}) + 1
    BY <2>2, FS_AddElement
  <2> QED
    BY <2>1, <2>2, <2>3
<1> HIDE DEF F
<1>3. n = (IF stdout = <<>> THEN 0 ELSE 1) + (IF stderr = <<>> THEN 0 ELSE 1)
  <2>1. CASE stdout = <<>> /\ stderr = <<>>
    <3>1. F = {}
      BY <1>1, <2>1
    <3> QED
      BY <1>2, <2>1, <3>1
  <2>2. CASE stdout # <<>> /\ stderr = <<>>
    <3>1. F = {1}
      BY <1>1, <2>2
    <3> QED
      BY <1>2, <2>2, <3>1
  <2>3. CASE stdout = <<>> /\ stderr # <<>>
    <3>1. F = {2}
      BY <1>1, <2>3
    <3> QED
      BY <1>2, <2>3, <3>1
  <2>4. CASE stdout # <<>> /\ stderr # <<>>
    <3>1. F = {1, 2}
      BY <1>1, <2>4
    <3> QED
      BY <1>2, <2>4, <3>1
  <2> QED
    BY <2>1, <2>2, <2>3, <2>4
<1> HIDE DEF n
<1>4. available - FieldBytes * n = Room(stdout, stderr, available)
  BY <1>3 DEF Room, FieldBytes
<1> QED
  BY <1>4 DEF n, F

\* fitExecuteOutput: the two prefixes with their fields fit what is available.
LEMMA OutputFits ==
    ASSUME NEW S, NEW stdout \in Seq(S), NEW stderr \in Seq(S), NEW available \in Int
    PROVE  LET fit == FitExecuteOutput(stdout, stderr, available) IN
           /\ fit.stdout \in Seq(S) /\ fit.stderr \in Seq(S)
           /\ available >= 0 => TextBytes(fit.stdout) + TextBytes(fit.stderr) <= available
           /\ stdout = <<>> => fit.stdout = <<>>
           /\ stderr = <<>> => fit.stderr = <<>>
<1> DEFINE fit == FitExecuteOutput(stdout, stderr, available)
           content == available - FieldBytes * Cardinality({ i \in 1 .. 2 : <<stdout, stderr>>[i] # <<>> })
           fullOut == JsonEscapedContentSize(stdout, content)
           fullErr == JsonEscapedContentSize(stderr, content)
           out  == Min({fullOut, content \div 2})
           err  == Min({fullErr, content \div 2})
           more == Min({fullOut - out, content - out - err})
           rest == Min({fullErr - err, content - out - err - more})
<1>1. content = Room(stdout, stderr, available) /\ content \in Int
  <2>1. content = Room(stdout, stderr, available)
    BY FieldCount
  <2> HIDE DEF content
  <2> QED
    BY <2>1 DEF Room, FieldBytes
<1>2. fit = IF content <= 0 THEN [ stdout |-> <<>>, stderr |-> <<>> ]
            ELSE [ stdout |-> JsonPrefix(stdout, out + more), stderr |-> JsonPrefix(stderr, err + rest) ]
  BY DEF FitExecuteOutput
<1> HIDE DEF fit, content
<1>3. <<>> \in Seq(S) /\ TextBytes(<<>>) = 0
  BY DEF TextBytes
<1>4. CASE content <= 0
  <2>1. fit.stdout = <<>> /\ fit.stderr = <<>>
    BY <1>2, <1>4
  <2> QED
    BY <1>3, <2>1 DEF fit
<1>5. CASE ~(content <= 0)
  <2>1. fullOut \in Nat /\ fullErr \in Nat
    <3>1. ContentSize(stdout) \in Nat /\ ContentSize(stderr) \in Nat
      BY SizeIs
    <3> QED
      BY <1>1, <1>5, <3>1, MinOfTwo DEF JsonEscapedContentSize
  <2> HIDE DEF fullOut, fullErr
  <2>2. content \div 2 \in Nat /\ (content \div 2) + (content \div 2) <= content
    BY <1>1, <1>5
  <2>3. out \in Nat /\ out <= fullOut /\ out <= content \div 2 /\ err \in Nat /\ err <= fullErr /\ err <= content \div 2
    BY <2>1, <2>2, MinOfTwo
  <2> HIDE DEF out, err
  <2>4. fullOut - out \in Nat /\ content - out - err \in Nat
    BY <1>1, <2>1, <2>2, <2>3
  <2>5. more \in Nat /\ more <= content - out - err
    BY <2>4, MinOfTwo
  <2> HIDE DEF more
  <2>6. fullErr - err \in Nat /\ content - out - err - more \in Nat
    BY <1>1, <2>1, <2>3, <2>4, <2>5
  <2>7. rest \in Nat /\ rest <= content - out - err - more
    BY <2>6, MinOfTwo
  <2> HIDE DEF rest
  <2>8. out + more \in Nat /\ err + rest \in Nat /\ (out + more) + (err + rest) <= content
    BY <1>1, <2>3, <2>5, <2>7
  <2> DEFINE a == JsonPrefix(stdout, out + more)
             b == JsonPrefix(stderr, err + rest)
  <2>9. /\ a \in Seq(S) /\ ContentSize(a) <= out + more /\ (stdout = <<>> => a = <<>>)
        /\ b \in Seq(S) /\ ContentSize(b) <= err + rest /\ (stderr = <<>> => b = <<>>)
    BY <2>8, PrefixFits
  <2>10. fit.stdout = a /\ fit.stderr = b
    BY <1>2, <1>5
  <2> HIDE DEF a, b
  <2>11. ContentSize(a) \in Nat /\ ContentSize(b) \in Nat
    BY <2>9, SizeIs
  <2>12. TextBytes(a) + TextBytes(b) <= available
    <3> DEFINE fieldOut == IF stdout = <<>> THEN 0 ELSE FieldBytes
               fieldErr == IF stderr = <<>> THEN 0 ELSE FieldBytes
    <3>1. fieldOut \in Nat /\ fieldErr \in Nat
      BY DEF FieldBytes
    <3>2. TextBytes(a) \in Nat /\ TextBytes(a) <= fieldOut + (out + more)
      BY <2>8, <2>9, <2>11 DEF TextBytes, FieldBytes
    <3>3. TextBytes(b) \in Nat /\ TextBytes(b) <= fieldErr + (err + rest)
      BY <2>8, <2>9, <2>11 DEF TextBytes, FieldBytes
    <3>4. content = available - fieldOut - fieldErr
      BY <1>1 DEF Room
    <3> HIDE DEF fieldOut, fieldErr
    <3> QED
      BY <2>8, <3>1, <3>2, <3>3, <3>4
  <2> QED
    BY <2>9, <2>10, <2>12 DEF fit
<1> QED
  BY <1>4, <1>5

-----------------------------------------------------------------------------
(* The response. *)

\* A result whose streams are sequences over S.
Results(S) == [ stdout : Seq(S), stderr : Seq(S), truncated : BOOLEAN ]

\* The size of a result; without output it is that of the flag.
LEMMA ResultSizeIs ==
    ASSUME NEW S, NEW r \in Results(S)
    PROVE  ResultSize(r) \in Nat /\ (r.stdout = <<>> /\ r.stderr = <<>> => ResultSize(r) = FlagBytes(r.truncated))
<1>1. r.stdout \in Seq(S) /\ r.stderr \in Seq(S)
  BY DEF Results
<1>2. ContentSize(r.stdout) \in Nat /\ ContentSize(r.stderr) \in Nat
  BY <1>1, SizeIs
<1> QED
  BY <1>2 DEF ResultSize, TextBytes, FieldBytes, FlagBytes

\* What is sent for one result: it fits, or not even an empty one would; and it is the
\* result itself unless it says that it was cut.
LEMMA SingleFits ==
    ASSUME NEW S, NEW r \in Results(S)
    PROVE  LET m == WriteResponse(MarshalExecuteResult(r)) IN
           /\ m.ok \in BOOLEAN
           /\ m.ok => m.size <= MaxFrame
           /\ ~m.ok => MaxFrame < SingleBytes + 5
           /\ \A i \in DOMAIN m.results : i = 1 /\ (~m.results[i].truncated => m.results[i] = r)
<1> DEFINE blank == [ stdout |-> <<>>, stderr |-> <<>>, truncated |-> TRUE ]
           base == Encoded(blank)
           fit  == FitExecuteOutput(r.stdout, r.stderr, MaxFrame - base.size)
           cut  == [ stdout |-> fit.stdout, stderr |-> fit.stderr, truncated |-> TRUE ]
           marshalled == MarshalExecuteResult(r)
           m == WriteResponse(marshalled)
<1> SUFFICES /\ m.ok \in BOOLEAN
             /\ m.ok => m.size <= MaxFrame
             /\ ~m.ok => MaxFrame < SingleBytes + 5
             /\ \A i \in DOMAIN m.results : i = 1 /\ (~m.results[i].truncated => m.results[i] = r)
  OBVIOUS
<1>1. MaxFrame \in Nat /\ SingleBytes \in Nat
  BY FramingAssumption
<1>2. r.stdout \in Seq(S) /\ r.stderr \in Seq(S)
  BY DEF Results
<1>3. base.size = SingleBytes + 4
  <2>1. blank \in Results(S)
    BY DEF Results
  <2>2. ResultSize(blank) = 4
    BY <2>1, ResultSizeIs DEF FlagBytes
  <2> HIDE DEF blank
  <2> QED
    BY <2>2 DEF Encoded
<1>4. Encoded(r).size \in Nat /\ Encoded(r).ok = TRUE /\ Encoded(r).results = <<r>>
  BY <1>1, ResultSizeIs DEF Encoded
<1>5. marshalled = IF Encoded(r).size <= MaxFrame THEN Encoded(r)
                   ELSE IF base.size > MaxFrame THEN Failure
                   ELSE Encoded(cut)
  BY DEF MarshalExecuteResult
<1> HIDE DEF base, marshalled
<1>6. CASE Encoded(r).size <= MaxFrame
  <2>1. m = Encoded(r)
    BY <1>1, <1>4, <1>5, <1>6 DEF WriteResponse
  <2> HIDE DEF m
  <2>2. m.ok = TRUE /\ m.size <= MaxFrame /\ m.results = <<r>>
    BY <1>4, <1>6, <2>1
  <2>3. DOMAIN m.results = {1} /\ m.results[1] = r
    BY <2>2
  <2> QED
    BY <2>2, <2>3
<1>7. CASE ~(Encoded(r).size <= MaxFrame) /\ base.size > MaxFrame
  <2>1. m = Failure
    BY <1>5, <1>7 DEF WriteResponse
  <2> HIDE DEF m
  <2> QED
    BY <1>1, <1>3, <1>7, <2>1 DEF Failure
<1>8. CASE ~(Encoded(r).size <= MaxFrame) /\ ~(base.size > MaxFrame)
  <2>1. MaxFrame - base.size \in Nat
    BY <1>1, <1>3, <1>8
  <2>2. /\ fit.stdout \in Seq(S) /\ fit.stderr \in Seq(S)
        /\ TextBytes(fit.stdout) + TextBytes(fit.stderr) <= MaxFrame - base.size
    BY <1>2, <2>1, OutputFits
  <2> HIDE DEF fit
  <2>3. cut \in Results(S) /\ cut.truncated = TRUE /\ ResultSize(cut) = 4 + TextBytes(fit.stdout) + TextBytes(fit.stderr)
    BY <2>2 DEF Results, ResultSize, FlagBytes
  <2>4. TextBytes(fit.stdout) \in Nat /\ TextBytes(fit.stderr) \in Nat
    BY <2>2, SizeIs DEF TextBytes, FieldBytes
  <2> HIDE DEF cut
  <2>5. Encoded(cut).size = SingleBytes + ResultSize(cut) /\ Encoded(cut).ok = TRUE /\ Encoded(cut).results = <<cut>>
    BY DEF Encoded
  <2>6. Encoded(cut).size <= MaxFrame /\ Encoded(cut).size \in Nat
    BY <1>1, <1>3, <2>2, <2>3, <2>4, <2>5
  <2>7. m = Encoded(cut)
    BY <1>1, <1>5, <1>8, <2>6 DEF WriteResponse
  <2> HIDE DEF m
  <2>8. m.ok = TRUE /\ m.size <= MaxFrame /\ m.results = <<cut>>
    BY <2>5, <2>6, <2>7
  <2>9. DOMAIN m.results = {1} /\ m.results[1] = cut
    BY <2>8
  <2> QED
    BY <2>3, <2>8, <2>9
<1> QED
  BY <1>6, <1>7, <1>8

\* The share of a result in a batch is a number.
LEMMA ShareIs ==
    ASSUME NEW first \in Nat, NEW a \in Nat
    PROVE  Share(first, a) \in Nat
<1> DEFINE G(g, n) == g = [ k \in 0 .. n |-> IF k = 0 THEN first ELSE (g[k - 1] * 3) \div 4 ]
           N == { n \in Nat : \E g : G(g, n) }
<1>1. 0 \in N
  <2> DEFINE g == [ k \in 0 .. 0 |-> first ]
  <2>1. G(g, 0)
    OBVIOUS
  <2> HIDE DEF g, G
  <2> QED
    BY <2>1
<1>2. ASSUME NEW n \in Nat, n \in N PROVE n + 1 \in N
  <2>1. PICK g : G(g, n)
    BY <1>2
  <2> DEFINE h == [ k \in 0 .. n + 1 |-> IF k \in 0 .. n THEN g[k] ELSE (g[k - 1] * 3) \div 4 ]
             h2 == [ k \in 0 .. n + 1 |-> IF k = 0 THEN first ELSE (h[k - 1] * 3) \div 4 ]
  <2>2. \A k \in 0 .. n : g[k] = IF k = 0 THEN first ELSE (g[k - 1] * 3) \div 4
    BY <2>1
  <2>3. ASSUME NEW k \in 0 .. n + 1 PROVE h[k] = h2[k]
    <3>1. k # 0 => k - 1 \in 0 .. n /\ k - 1 \in 0 .. n + 1
      OBVIOUS
    <3>2. k # 0 => h[k - 1] = g[k - 1]
      BY <3>1
    <3>3. h2[k] = IF k = 0 THEN first ELSE (h[k - 1] * 3) \div 4
      OBVIOUS
    <3>4. h[k] = IF k \in 0 .. n THEN g[k] ELSE (g[k - 1] * 3) \div 4
      OBVIOUS
    <3>5. 0 \in 0 .. n
      OBVIOUS
    <3> HIDE DEF h, h2
    <3> QED
      BY <2>2, <3>2, <3>3, <3>4, <3>5
  <2>4. h = h2
    BY <2>3
  <2>5. G(h, n + 1)
    BY <2>4
  <2> HIDE DEF h, h2, G
  <2> QED
    BY <2>5
<1>3. \E g : G(g, a)
  <2>1. Nat \subseteq N
    <3> HIDE DEF N
    <3> QED
      BY <1>1, <1>2, SetInduction
  <2>2. a \in N
    <3> HIDE DEF N
    <3> QED
      BY <2>1
  <2> HIDE DEF G
  <2> QED
    BY <2>2
<1> DEFINE share == CHOOSE g : G(g, a)
<1>4. G(share, a)
  BY <1>3
<1>5. Share(first, a) = share[a]
  BY DEF Share
<1> HIDE DEF share
<1>6. \A k \in 0 .. a : share[k] = IF k = 0 THEN first ELSE (share[k - 1] * 3) \div 4
  BY <1>4
<1> DEFINE M == { k \in Nat : k <= a => share[k] \in Nat }
<1>7. 0 \in M
  BY <1>6
<1>8. ASSUME NEW k \in Nat, k \in M PROVE k + 1 \in M
  <2> SUFFICES ASSUME k + 1 <= a PROVE share[k + 1] \in Nat
    OBVIOUS
  <2>1. share[k] \in Nat
    BY <1>8
  <2>2. share[k + 1] = (share[k] * 3) \div 4
    BY <1>6
  <2> QED
    BY <2>1, <2>2
<1>9. Nat \subseteq M
  <2> HIDE DEF M
  <2> QED
    BY <1>7, <1>8, SetInduction
<1> QED
  BY <1>5, <1>9

\* The least number of a set that is not empty.
LEMMA MinIs ==
    ASSUME NEW S, S \subseteq Nat, S # {}
    PROVE  Min(S) \in S /\ \A j \in S : Min(S) <= j
<1> DEFINE R == OpToRel(<, Nat)
<1>1. PICK x \in S : \A y \in S : ~ (<<y, x>> \in R)
  <2>1. \E x \in S : \A y \in S : ~ (<<y, x>> \in R)
    BY WFMin, NatLessThanWellFounded
  <2> QED
    BY <2>1
<1>2. \A y \in S : ~ (y < x)
  BY <1>1 DEF OpToRel
<1>3. \A y \in S : x =< y
  BY <1>2
<1> QED
  BY <1>3 DEF Min

\* The size of the response of a batch of two.
LEMMA BatchSizeIs ==
    ASSUME NEW S, NEW q, DOMAIN q = 1..2, \A i \in 1..2 : q[i] \in Results(S)
    PROVE  /\ EncodedBatch(q).ok = TRUE /\ EncodedBatch(q).results = q
           /\ EncodedBatch(q).size \in Nat
           /\ EncodedBatch(q).size = BatchBytes + (ResultBytes + ResultSize(q[1])) + (ResultBytes + ResultSize(q[2]))
<1> DEFINE f == [ i \in DOMAIN q |-> ResultBytes + ResultSize(q[i]) ]
<1>1. BatchBytes \in Nat /\ ResultBytes \in Nat
  BY FramingAssumption
<1>2. \A i \in 1..2 : ResultBytes + ResultSize(q[i]) \in Nat
  BY <1>1, ResultSizeIs
<1>3. f \in [ 1..2 -> Nat ] /\ f[1] = ResultBytes + ResultSize(q[1]) /\ f[2] = ResultBytes + ResultSize(q[2])
  BY <1>2
<1>4. EncodedBatch(q) = [ ok |-> TRUE, results |-> q, size |-> BatchBytes + SumFunction(f) ]
  BY DEF EncodedBatch
<1> HIDE DEF f
<1>5. SumFunction(f) \in Nat /\ SumFunction(f) = f[1] + f[2]
  BY <1>3, SumOfNaturals
<1>6. f[1] \in Nat /\ f[2] \in Nat
  BY <1>3
<1> HIDE <1>3
<1>7. EncodedBatch(q).size = BatchBytes + f[1] + f[2]
  BY <1>1, <1>4, <1>5, <1>6
<1> QED
  BY <1>1, <1>3, <1>4, <1>5, <1>6, <1>7

\* What is sent for a batch of two: it fits, or not even empty results would; and each of
\* its results is the one of its server unless it says that it was cut.
LEMMA BatchFits ==
    ASSUME NEW S, NEW rs, DOMAIN rs = 1..2, Len(rs) = 2, \A i \in 1..2 : rs[i] \in Results(S)
    PROVE  LET m == WriteResponse(MarshalBatchExecuteResult(rs)) IN
           /\ m.ok \in BOOLEAN
           /\ m.ok => m.size <= MaxFrame
           /\ ~m.ok => MaxFrame < BatchBytes + 2 * (ResultBytes + 5)
           /\ \A i \in DOMAIN m.results : i \in 1..2 /\ (~m.results[i].truncated => m.results[i] = rs[i])
<1> DEFINE blank(r) == [ stdout |-> <<>>, stderr |-> <<>>,
                         truncated |-> r.truncated \/ r.stdout # <<>> \/ r.stderr # <<>> ]
           blanks == [ i \in DOMAIN rs |-> blank(rs[i]) ]
           base  == EncodedBatch(blanks)
           first == (MaxFrame - base.size) \div Len(rs)
           fit(i, a) == FitExecuteOutput(rs[i].stdout, rs[i].stderr, Share(first, a))
           tried(a) == [ i \in DOMAIN rs |-> [base.results[i] EXCEPT !.stdout = fit(i, a).stdout, !.stderr = fit(i, a).stderr] ]
           attempt(a) == EncodedBatch(tried(a))
           fitting == { a \in 0 .. 7 : attempt(a).size <= MaxFrame }
           marshalled == MarshalBatchExecuteResult(rs)
           m == WriteResponse(marshalled)
           \* A list of results that may be sent instead of rs.
           Honest(q) == /\ DOMAIN q = 1..2
                        /\ \A i \in 1..2 : q[i] \in Results(S) /\ (~q[i].truncated => q[i] = rs[i])
           Sendable(x) == \E q : Honest(q) /\ x = EncodedBatch(q) /\ EncodedBatch(q).size <= MaxFrame
<1> SUFFICES /\ m.ok \in BOOLEAN
             /\ m.ok => m.size <= MaxFrame
             /\ ~m.ok => MaxFrame < BatchBytes + 2 * (ResultBytes + 5)
             /\ \A i \in DOMAIN m.results : i \in 1..2 /\ (~m.results[i].truncated => m.results[i] = rs[i])
  OBVIOUS
<1>1. MaxFrame \in Nat /\ BatchBytes \in Nat /\ ResultBytes \in Nat
  BY FramingAssumption
<1>2. marshalled = IF EncodedBatch(rs).size <= MaxFrame THEN EncodedBatch(rs)
                   ELSE IF base.size > MaxFrame THEN Failure
                   ELSE IF rs = <<>> \/ first <= 0 \/ fitting = {} THEN base
                   ELSE attempt(Min(fitting))
  BY DEF MarshalBatchExecuteResult
<1>3. ASSUME NEW i \in 1..2
      PROVE  /\ rs[i].stdout \in Seq(S) /\ rs[i].stderr \in Seq(S) /\ rs[i].truncated \in BOOLEAN
             /\ rs[i] = [ stdout |-> rs[i].stdout, stderr |-> rs[i].stderr, truncated |-> rs[i].truncated ]
             /\ blanks[i] = blank(rs[i])
  BY DEF Results
<1>4. Honest(blanks)
  <2>1. DOMAIN blanks = 1..2
    OBVIOUS
  <2>2. ASSUME NEW i \in 1..2 PROVE blanks[i] \in Results(S) /\ (~blanks[i].truncated => blanks[i] = rs[i])
    <3>1. <<>> \in Seq(S)
      OBVIOUS
    <3>2. blanks[i] \in Results(S)
      BY <1>3, <3>1 DEF Results
    <3>3. blanks[i].truncated = (rs[i].truncated \/ rs[i].stdout # <<>> \/ rs[i].stderr # <<>>)
      BY <1>3
    <3>4. ASSUME ~blanks[i].truncated PROVE blanks[i] = rs[i]
      <4>1. rs[i].truncated = FALSE /\ rs[i].stdout = <<>> /\ rs[i].stderr = <<>>
        BY <1>3, <3>3, <3>4
      <4> QED
        BY <1>3, <4>1
    <3> QED
      BY <3>2, <3>4
  <2> HIDE DEF blanks
  <2> QED
    BY <2>1, <2>2
<1>5. base.size \in Nat /\ base.size <= BatchBytes + 2 * (ResultBytes + 5) /\ base.results = blanks
  <2>1. \A i \in 1..2 : blanks[i].stdout = <<>> /\ blanks[i].stderr = <<>> /\ blanks[i] \in Results(S)
    BY <1>3, <1>4
  <2> HIDE DEF blanks
  <2>2. \A i \in 1..2 : ResultSize(blanks[i]) = FlagBytes(blanks[i].truncated)
    BY <2>1, ResultSizeIs
  <2>3. \A i \in 1..2 : ResultSize(blanks[i]) \in {4, 5}
    BY <2>2 DEF FlagBytes
  <2>4. /\ base.size \in Nat /\ base.results = blanks
        /\ base.size = BatchBytes + (ResultBytes + ResultSize(blanks[1])) + (ResultBytes + ResultSize(blanks[2]))
    BY <1>4, BatchSizeIs
  <2> QED
    BY <1>1, <2>3, <2>4
<1>6. ASSUME ~(first <= 0), NEW a \in 0 .. 7 PROVE Honest(tried(a))
  <2>1. first \in Nat
    <3>1. (MaxFrame - base.size) \in Int
      BY <1>1, <1>5
    <3> HIDE DEF base
    <3>2. first \in Int
      BY <3>1
    <3> HIDE DEF first
    <3> QED
      BY <1>6, <3>2
  <2>2. Share(first, a) \in Nat
    <3>1. a \in Nat
      OBVIOUS
    <3> HIDE DEF first
    <3> QED
      BY <2>1, <3>1, ShareIs
  <2> DEFINE t == tried(a)
  <2>3. DOMAIN t = 1..2
    OBVIOUS
  <2>4. ASSUME NEW i \in 1..2 PROVE t[i] \in Results(S) /\ (~t[i].truncated => t[i] = rs[i])
    <3> DEFINE x == fit(i, a).stdout
               y == fit(i, a).stderr
    <3>1. x \in Seq(S) /\ y \in Seq(S) /\ (rs[i].stdout = <<>> => x = <<>>) /\ (rs[i].stderr = <<>> => y = <<>>)
      <4> DEFINE share == Share(first, a)
                 out == rs[i].stdout
                 err == rs[i].stderr
      <4>1. share \in Int /\ out \in Seq(S) /\ err \in Seq(S)
        BY <1>3, <2>2
      <4> HIDE DEF share, out, err
      <4>2. LET f == FitExecuteOutput(out, err, share) IN
            /\ f.stdout \in Seq(S) /\ f.stderr \in Seq(S)
            /\ (out = <<>> => f.stdout = <<>>) /\ (err = <<>> => f.stderr = <<>>)
        BY <4>1, OutputFits
      <4> QED
        BY <4>2 DEF share, out, err
    <3>2. t[i] = [blank(rs[i]) EXCEPT !.stdout = x, !.stderr = y]
      BY <1>3, <1>5
    <3> HIDE DEF x, y, t
    <3> DEFINE b == rs[i].truncated \/ rs[i].stdout # <<>> \/ rs[i].stderr # <<>>
    <3>3. t[i] = [ stdout |-> x, stderr |-> y, truncated |-> b ] /\ b \in BOOLEAN
      BY <3>2
    <3> HIDE DEF b
    <3>4. t[i] \in Results(S)
      BY <3>1, <3>3 DEF Results
    <3>5. ASSUME ~t[i].truncated PROVE t[i] = rs[i]
      <4>1. t[i].truncated = b
        BY <3>3
      <4>2. b = FALSE /\ rs[i].truncated = FALSE /\ rs[i].stdout = <<>> /\ rs[i].stderr = <<>>
        BY <1>3, <3>3, <3>5, <4>1 DEF b
      <4>3. t[i] = [ stdout |-> <<>>, stderr |-> <<>>, truncated |-> FALSE ]
        BY <3>1, <3>3, <4>2
      <4> QED
        BY <1>3, <4>2, <4>3
    <3> QED
      BY <3>4, <3>5
  <2> HIDE DEF t
  <2>5. Honest(t)
    BY <2>3, <2>4
  <2> QED
    BY <2>5 DEF t
<1>7. Honest(rs)
  OBVIOUS
<1> HIDE DEF Honest
<1>8. (marshalled = Failure /\ base.size > MaxFrame) \/ Sendable(marshalled)
  <2>1. CASE EncodedBatch(rs).size <= MaxFrame
    <3>1. marshalled = EncodedBatch(rs)
      BY <1>2, <2>1
    <3> HIDE DEF marshalled
    <3> QED
      BY <1>7, <2>1, <3>1
  <2>2. CASE ~(EncodedBatch(rs).size <= MaxFrame) /\ base.size > MaxFrame
    BY <1>2, <2>2
  <2>3. CASE ~(EncodedBatch(rs).size <= MaxFrame) /\ ~(base.size > MaxFrame) /\ (rs = <<>> \/ first <= 0 \/ fitting = {})
    <3>1. marshalled = base
      BY <1>2, <2>3
    <3>2. base.size <= MaxFrame
      <4> HIDE DEF base, first, fitting
      <4> QED
        BY <1>1, <1>5, <2>3
    <3> HIDE DEF marshalled, blanks
    <3> QED
      BY <1>4, <3>1, <3>2
  <2>4. CASE ~(EncodedBatch(rs).size <= MaxFrame) /\ ~(base.size > MaxFrame) /\ ~(rs = <<>> \/ first <= 0 \/ fitting = {})
    <3>1. marshalled = attempt(Min(fitting))
      BY <1>2, <2>4
    <3>2. fitting \subseteq Nat /\ fitting # {}
      <4>1. fitting # {}
        <5> HIDE DEF fitting, first, base
        <5> QED
          BY <2>4
      <4> HIDE DEF attempt
      <4> QED
        BY <4>1
    <3>3. Min(fitting) \in fitting
      <4> HIDE DEF fitting
      <4> QED
        BY <3>2, MinIs
    <3> DEFINE a == Min(fitting)
    <3>4. a \in 0 .. 7 /\ attempt(a).size <= MaxFrame
      BY <3>3
    <3> HIDE DEF a, marshalled
    <3>5. Honest(tried(a))
      BY <1>6, <2>4, <3>4
    <3>6. marshalled = attempt(a)
      BY <3>1 DEF a
    <3> HIDE DEF tried
    <3> QED
      BY <3>4, <3>5, <3>6
  <2> QED
    BY <2>1, <2>2, <2>3, <2>4
<1> HIDE DEF marshalled, base
<1>9. CASE marshalled = Failure /\ base.size > MaxFrame
  <2>1. m = Failure
    BY <1>9 DEF WriteResponse
  <2> HIDE DEF m
  <2> QED
    BY <1>1, <1>5, <1>9, <2>1 DEF Failure
<1>10. CASE Sendable(marshalled)
  <2>1. PICK q : Honest(q) /\ marshalled = EncodedBatch(q) /\ EncodedBatch(q).size <= MaxFrame
    BY <1>10
  <2>2. DOMAIN q = 1..2 /\ \A i \in 1..2 : q[i] \in Results(S) /\ (~q[i].truncated => q[i] = rs[i])
    BY <2>1 DEF Honest
  <2>3. marshalled.ok = TRUE /\ marshalled.results = q /\ marshalled.size \in Nat /\ marshalled.size <= MaxFrame
    BY <2>1, <2>2, BatchSizeIs
  <2>4. m = marshalled
    BY <1>1, <2>3 DEF WriteResponse
  <2> HIDE DEF m
  <2> QED
    BY <2>2, <2>3, <2>4
<1> QED
  BY <1>8, <1>9, <1>10

-----------------------------------------------------------------------------
(* The state machine. *)

\* The output that is kept is all that was written, unless the budget says otherwise.
BufferInv ==
    /\ job \in Jobs /\ remaining \in Nat /\ truncated \in BOOLEAN
    /\ DOMAIN sent = Streams /\ DOMAIN buffer = Streams
    /\ \A s \in Streams : /\ sent[s] \in 0 .. Len(job[s]) /\ buffer[s] \in Seq(Byte)
                          /\ job.kind = "command" /\ ~truncated => buffer[s] = SubSeq(job[s], 1, sent[s])

\* What is redacted is the whole of it.
RedactedInv ==
    redacted # Pending /\ job.kind = "command" =>
        Written /\ redacted = [ s \in Streams |-> RedactString(buffer[s], job.limit) ]

IInv == BufferInv /\ RedactedInv /\ FrameFits /\ TruncationReported

\* What is shown of a text is a sequence.
LEMMA RedactedText ==
    ASSUME NEW x, NEW max \in Nat
    PROVE  (\E S : RedactString(x, max).text \in Seq(S)) /\ RedactString(x, max).truncated \in BOOLEAN
<1>1. ASSUME NEW text PROVE \E S : Truncate(text, max) \in Seq(S)
  <2> DEFINE K == { k \in 0 .. max : k = 0 \/ (k <= Len(text) /\ text[k].c \notin {"l", "r1", "r2"}) }
             m == Max(K)
             S == { text[i] : i \in 1 .. m }
  <2>1. K \subseteq 0 .. max /\ K # {}
    OBVIOUS
  <2>2. m \in 0 .. max
    <3> HIDE DEF K
    <3> QED
      BY <2>1, MaxIs
  <2>3. Truncate(text, max) = SubSeq(text, 1, m)
    BY DEF Truncate
  <2> HIDE DEF m
  <2>4. m \in Int /\ 1 \in Int /\ \A i \in 1 .. m : text[i] \in S
    BY <2>2
  <2> HIDE DEF S
  <2>5. SubSeq(text, 1, m) \in Seq(S)
    BY <2>4, SubSeqProperties
  <2> QED
    BY <2>3, <2>5
<1>2. ASSUME NEW y, NEW cut \in BOOLEAN, NEW prefix
      PROVE  (\E S : RedactBounded(y, cut, prefix, max).text \in Seq(S)) /\ RedactBounded(y, cut, prefix, max).truncated \in BOOLEAN
  <2>1. \E text, counts, markers, n :
           RedactBounded(y, cut, prefix, max) =
              [ text |-> Truncate(text, max), counts |-> counts, truncated |-> cut \/ n > max, markers |-> markers ]
    BY DEF RedactBounded
  <2> QED
    BY <1>1, <2>1
<1>3. \E y, prefix : RedactString(x, max) = RedactBounded(y, Len(x) > max, prefix, max)
  BY DEF RedactString, RedactInspected
<1>4. (Len(x) > max) \in BOOLEAN
  OBVIOUS
<1> QED
  BY <1>2, <1>3, <1>4

\* Two adjacent parts of a text.
LEMMA PartsJoin ==
    ASSUME NEW S, NEW x \in Seq(S), NEW n \in Nat, NEW k \in Nat, n + k <= Len(x)
    PROVE  SubSeq(x, 1, n) \o SubSeq(SubSeq(x, n + 1, n + k), 1, k) = SubSeq(x, 1, n + k)
<1> DEFINE a == SubSeq(x, 1, n)
           b == SubSeq(x, n + 1, n + k)
           c == SubSeq(b, 1, k)
           d == SubSeq(x, 1, n + k)
<1>1. Len(x) \in Nat /\ \A i \in 1..Len(x) : x[i] \in S
  OBVIOUS
<1>2. a \in Seq(S) /\ Len(a) = n /\ \A i \in 1..n : a[i] = x[i]
  BY <1>1
<1>3. b \in Seq(S) /\ Len(b) = k /\ \A i \in 1..k : b[i] = x[n + i]
  <2>1. \A i \in (n + 1)..(n + k) : x[i] \in S
    BY <1>1
  <2>2. n + 1 \in Int /\ n + k \in Int
    OBVIOUS
  <2>3. /\ b \in Seq(S)
        /\ Len(b) = IF n + 1 <= n + k THEN (n + k) - (n + 1) + 1 ELSE 0
        /\ \A i \in 1 .. (n + k) - (n + 1) + 1 : b[i] = x[(n + 1) + i - 1]
    BY <2>1, <2>2, SubSeqProperties
  <2> HIDE DEF b
  <2>4. Len(b) = k
    BY <2>3
  <2>5. ASSUME NEW i \in 1..k PROVE b[i] = x[n + i]
    <3>1. i \in 1 .. (n + k) - (n + 1) + 1 /\ (n + 1) + i - 1 = n + i
      OBVIOUS
    <3> QED
      BY <2>3, <3>1
  <2> QED
    BY <2>3, <2>4, <2>5
<1>4. d \in Seq(S) /\ Len(d) = n + k /\ \A i \in 1..(n + k) : d[i] = x[i]
  <2> DEFINE m == n + k
  <2>1. m \in Nat /\ m <= Len(x)
    OBVIOUS
  <2>2. d = SubSeq(x, 1, m)
    OBVIOUS
  <2> HIDE DEF m, d
  <2>3. d \in Seq(S) /\ Len(d) = m /\ \A i \in 1..m : d[i] = x[i]
    BY <1>1, <2>1, <2>2
  <2> QED
    BY <2>3 DEF m
<1> HIDE DEF a, b, d
<1>5. c \in Seq(S) /\ Len(c) = k /\ \A i \in 1..k : c[i] = x[n + i]
  BY <1>3
<1> HIDE DEF c
<1>6. a \o c \in Seq(S) /\ Len(a \o c) = n + k
  BY <1>2, <1>5, ConcatProperties
<1>7. ASSUME NEW i \in 1..(n + k) PROVE (a \o c)[i] = d[i]
  <2>1. (a \o c)[i] = IF i <= n THEN a[i] ELSE c[i - n]
    BY <1>2, <1>5, ConcatProperties
  <2>2. CASE i <= n
    BY <1>2, <1>4, <2>1, <2>2
  <2>3. CASE ~(i <= n)
    <3>1. i - n \in 1..k /\ n + (i - n) = i
      BY <2>3
    <3>2. c[i - n] = x[i]
      BY <1>5, <3>1
    <3> QED
      BY <1>4, <2>1, <2>3, <3>2
  <2> QED
    BY <2>2, <2>3
<1>8. a \o c = d
  BY <1>4, <1>6, <1>7, SeqEqual
<1> QED
  BY <1>8 DEF a, b, c, d

\* What is written to a stream goes through the budget.
LEMMA WriteBuffer ==
    ASSUME BufferInv, NEW s \in Streams, NEW k \in 1 .. Len(job[s]), Write(s, k)
    PROVE  BufferInv'
<1> DEFINE accepted == Min({k, remaining})
<1>1. /\ job' = job /\ job \in Jobs /\ job[s] \in Seq(Byte) /\ sent[s] \in Nat /\ k \in Nat /\ k > 0
      /\ remaining \in Nat /\ Len(job[s]) \in Nat
  BY OutputAssumption DEF BufferInv, Write
<1>2. accepted \in Nat /\ accepted <= k /\ accepted <= remaining
  BY <1>1, MinOfTwo
<1>3. /\ sent[s] + k <= Len(job[s])
      /\ sent' = [sent EXCEPT ![s] = @ + k]
      /\ buffer' = [buffer EXCEPT ![s] = @ \o SubSeq(Chunk(s, k), 1, accepted)]
      /\ remaining' = remaining - accepted
      /\ truncated' = (truncated \/ accepted < k)
  BY DEF Write
<1> HIDE DEF accepted
<1>4. remaining' \in Nat /\ truncated' \in BOOLEAN /\ DOMAIN sent' = Streams /\ DOMAIN buffer' = Streams
  BY <1>1, <1>2, <1>3 DEF BufferInv
<1>5. ASSUME NEW z \in Streams
      PROVE  /\ sent'[z] \in 0 .. Len(job[z]) /\ buffer'[z] \in Seq(Byte)
             /\ job.kind = "command" /\ ~truncated' => buffer'[z] = SubSeq(job[z], 1, sent'[z])
  <2>1. CASE z # s
    <3>1. sent'[z] = sent[z] /\ buffer'[z] = buffer[z]
      BY <1>3, <2>1 DEF BufferInv
    <3> QED
      BY <1>3, <3>1 DEF BufferInv
  <2>2. CASE z = s
    <3>1. sent'[s] = sent[s] + k /\ buffer'[s] = buffer[s] \o SubSeq(Chunk(s, k), 1, accepted)
      BY <1>3 DEF BufferInv
    <3>2. sent'[s] \in 0 .. Len(job[s])
      BY <1>1, <1>3, <3>1
    <3>3. ASSUME job.kind = "command", ~truncated' PROVE buffer'[s] = SubSeq(job[s], 1, sent'[s])
      <4>1. ~truncated /\ accepted = k
        <5>1. truncated' = (truncated \/ accepted < k)
          BY <1>3
        <5>2. ~truncated /\ ~(accepted < k)
          BY <3>3, <5>1
        <5> QED
          BY <1>1, <1>2, <5>2
      <4>2. buffer[s] = SubSeq(job[s], 1, sent[s])
        BY <3>3, <4>1 DEF BufferInv
      <4>3. buffer'[s] = SubSeq(job[s], 1, sent[s]) \o SubSeq(SubSeq(job[s], sent[s] + 1, sent[s] + k), 1, k)
        BY <3>1, <4>1, <4>2 DEF Chunk
      <4> QED
        BY <1>1, <1>3, <3>1, <4>3, PartsJoin, ZenonT(30)
    <3>4. buffer'[s] \in Seq(Byte)
      <4> DEFINE y == Chunk(s, k)
      <4>1. y \in Seq(Byte) /\ Len(y) = k
        BY <1>1, <1>3, SMTT(30) DEF Chunk
      <4> HIDE DEF y
      <4>2. SubSeq(y, 1, accepted) \in Seq(Byte)
        BY <1>1, <1>2, <4>1
      <4>3. buffer[s] \in Seq(Byte)
        BY DEF BufferInv
      <4>4. buffer[s] \o SubSeq(y, 1, accepted) \in Seq(Byte)
        BY <4>2, <4>3
      <4> QED
        BY <3>1, <4>4 DEF y
    <3> QED
      BY <2>2, <3>2, <3>3, <3>4
  <2> QED
    BY <2>1, <2>2
<1> QED
  BY <1>1, <1>4, <1>5 DEF BufferInv

\* Every step keeps the output complete.
LEMMA NextBuffer ==
    ASSUME BufferInv, Next
    PROVE  BufferInv'
<1>1. CASE \E s \in Streams : \E k \in 1 .. Len(job[s]) : Write(s, k)
  BY <1>1, WriteBuffer
<1>2. CASE \E k \in 1 .. Len(job.stdout) : StreamChunk(k)
  <2>1. PICK k \in 1 .. Len(job.stdout) : StreamChunk(k)
    BY <1>2
  <2>2. /\ job.kind = "stream" /\ job' = job /\ buffer' = buffer /\ remaining' = remaining /\ truncated' = truncated
        /\ sent.stdout + k <= Len(job.stdout) /\ sent' = [sent EXCEPT !.stdout = @ + k]
    BY <2>1 DEF StreamChunk
  <2>3. sent["stdout"] \in Nat /\ Len(job["stdout"]) \in Nat
    BY OutputAssumption DEF BufferInv, Streams
  <2>4. DOMAIN sent' = Streams /\ sent'["stdout"] = sent["stdout"] + k /\ sent'["stderr"] = sent["stderr"]
    BY <2>2 DEF BufferInv, Streams
  <2>5. \A s \in Streams : sent'[s] \in 0 .. Len(job[s])
    <3>1. sent'["stdout"] \in 0 .. Len(job["stdout"])
      BY <2>1, <2>2, <2>3, <2>4
    <3>2. sent'["stderr"] \in 0 .. Len(job["stderr"])
      BY <2>4 DEF BufferInv, Streams
    <3> QED
      BY <3>1, <3>2 DEF Streams
  <2> QED
    BY <2>2, <2>4, <2>5 DEF BufferInv
<1>3. CASE Collect \/ Respond \/ CloseStream \/ \E other \in Others : RespondBatch(other)
  <2>1. UNCHANGED <<job, sent, buffer, remaining, truncated>>
    BY <1>3 DEF Collect, Respond, CloseStream, RespondBatch
  <2> QED
    BY <2>1 DEF BufferInv
<1> QED
  BY <1>1, <1>2, <1>3 DEF Next

\* Every step keeps what is redacted the whole of the output.
LEMMA NextRedacted ==
    ASSUME BufferInv, RedactedInv, Next
    PROVE  RedactedInv'
<1>1. CASE \E s \in Streams : \E k \in 1 .. Len(job[s]) : Write(s, k)
  <2>1. PICK s \in Streams : \E k \in 1 .. Len(job[s]) : Write(s, k)
    BY <1>1
  <2>2. PICK k \in 1 .. Len(job[s]) : Write(s, k)
    BY <2>1
  <2>3. sent[s] + k <= Len(job[s]) /\ k \in Nat /\ k > 0 /\ sent[s] \in Nat /\ Len(job[s]) \in Nat
    BY <2>2, OutputAssumption DEF Write, BufferInv
  <2>4. sent[s] # Len(job[s])
    BY <2>3
  <2>5. ~Written
    BY <2>4 DEF Written
  <2>6. redacted' = redacted /\ job' = job
    BY <2>2 DEF Write
  <2> QED
    BY <2>5, <2>6 DEF RedactedInv
<1>2. CASE \E k \in 1 .. Len(job.stdout) : StreamChunk(k)
  BY <1>2 DEF StreamChunk, RedactedInv
<1>3. CASE Collect
  <2>1. /\ Written /\ redacted' = [ s \in Streams |-> RedactString(buffer[s], job.limit) ]
        /\ job' = job /\ sent' = sent /\ buffer' = buffer
    BY <1>3 DEF Collect
  <2> QED
    BY <2>1 DEF RedactedInv, Written
<1>4. CASE CloseStream
  BY <1>4 DEF CloseStream, RedactedInv
<1>5. CASE Respond \/ \E other \in Others : RespondBatch(other)
  <2>1. UNCHANGED <<job, sent, buffer, redacted>>
    BY <1>5 DEF Respond, RespondBatch
  <2> QED
    BY <2>1 DEF RedactedInv, Written
<1> QED
  BY <1>1, <1>2, <1>3, <1>4, <1>5 DEF Next

\* What executeRemote returns: complete unless it says otherwise.
LEMMA ResultIs ==
    ASSUME BufferInv, RedactedInv, job.kind = "command", redacted # Pending
    PROVE  /\ \E S : ExecuteResult \in Results(S)
           /\ ~ExecuteResult.truncated =>
                 \A s \in Streams : ExecuteResult[s] = RedactString(job[s], job.limit).text
<1> DEFINE out == RedactString(buffer["stdout"], job.limit)
           err == RedactString(buffer["stderr"], job.limit)
           r == ExecuteResult
<1>1. job \in Jobs /\ job.limit \in Nat /\ truncated \in BOOLEAN
  BY OutputAssumption DEF BufferInv
<1>2. Written /\ redacted.stdout = out /\ redacted.stderr = err
  BY DEF RedactedInv, Streams
<1>3. r = [ stdout |-> out.text, stderr |-> err.text, truncated |-> truncated \/ out.truncated \/ err.truncated ]
  BY <1>2 DEF ExecuteResult
<1>4. PICK A : out.text \in Seq(A)
  BY <1>1, RedactedText
<1>5. PICK B : err.text \in Seq(B)
  BY <1>1, RedactedText
<1>6. r.truncated \in BOOLEAN /\ r.stdout = out.text /\ r.stderr = err.text /\ (~r.truncated => ~truncated)
  <2> HIDE DEF out, err, r
  <2> QED
    BY <1>3
<1>7. r \in Results(A \cup B)
  <2>1. out.text \in Seq(A \cup B) /\ err.text \in Seq(A \cup B)
    BY <1>4, <1>5, SeqMonotonic
  <2> HIDE DEF out, err, r
  <2> QED
    BY <1>3, <2>1 DEF Results
<1>8. ASSUME ~r.truncated, NEW s \in Streams PROVE r[s] = RedactString(job[s], job.limit).text
  <2>1. ~truncated
    BY <1>6, <1>8
  <2>2. job[s] \in Seq(Byte) /\ sent[s] = Len(job[s]) /\ buffer[s] = SubSeq(job[s], 1, sent[s])
    BY <1>1, <1>2, <2>1, OutputAssumption DEF BufferInv, Written
  <2>3. buffer[s] = job[s]
    BY <2>2
  <2>4. r[s] = RedactString(buffer[s], job.limit).text
    BY <1>6 DEF Streams
  <2> QED
    BY <2>3, <2>4
<1> QED
  BY <1>7, <1>8

\* The answer to execute.
LEMMA RespondIsRight ==
    ASSUME BufferInv, RedactedInv, Respond
    PROVE  FrameFits' /\ TruncationReported'
<1> DEFINE r == ExecuteResult
           m == WriteResponse(MarshalExecuteResult(r))
<1>1. job.kind = "command" /\ redacted # Pending /\ results' = <<r>> /\ response' = m /\ job' = job
  BY DEF Respond
<1>2. (\E S : r \in Results(S)) /\ (~r.truncated => \A s \in Streams : r[s] = RedactString(job[s], job.limit).text)
  BY <1>1, ResultIs
<1> HIDE DEF r
<1>3. PICK S : r \in Results(S)
  BY <1>2
<1>4. /\ m.ok \in BOOLEAN
      /\ m.ok => m.size <= MaxFrame
      /\ ~m.ok => MaxFrame < SingleBytes + 5
      /\ \A i \in DOMAIN m.results : i = 1 /\ (~m.results[i].truncated => m.results[i] = r)
  BY <1>3, SingleFits
<1> HIDE DEF m
<1>5. Len(results') = 1
  BY <1>1
<1>6. FrameFits'
  BY <1>1, <1>4, <1>5 DEF FrameFits
<1>7. \A i \in DOMAIN m.results : ~m.results[i].truncated =>
         i = 1 /\ \A s \in Streams : m.results[i][s] = RedactString(job[s], job.limit).text
  BY <1>2, <1>4
<1>8. TruncationReported'
  BY <1>1, <1>7 DEF TruncationReported
<1> QED
  BY <1>6, <1>8

\* The answer to a batch.
LEMMA RespondBatchIsRight ==
    ASSUME BufferInv, RedactedInv, NEW other \in Others, RespondBatch(other)
    PROVE  FrameFits' /\ TruncationReported'
<1> DEFINE r == ExecuteResult
           rs == <<r, other>>
           m == WriteResponse(MarshalBatchExecuteResult(rs))
<1>1. job.kind = "command" /\ redacted # Pending /\ results' = rs /\ response' = m /\ job' = job
  BY DEF RespondBatch
<1>2. (\E S : r \in Results(S)) /\ (~r.truncated => \A s \in Streams : r[s] = RedactString(job[s], job.limit).text)
  BY <1>1, ResultIs
<1> HIDE DEF r
<1>3. PICK A : r \in Results(A)
  BY <1>2
<1> DEFINE S == A \cup [ c : STRING, n : Nat ]
<1>4. r \in Results(S) /\ other \in Results(S)
  <2>1. Seq(A) \subseteq Seq(S) /\ Texts \subseteq Seq(S)
    BY SeqMonotonic DEF Texts
  <2>2. other \in [ stdout : Texts, stderr : Texts, truncated : BOOLEAN ]
    BY OutputAssumption
  <2> HIDE DEF S
  <2> QED
    BY <1>3, <2>1, <2>2 DEF Results
<1>5. DOMAIN rs = 1..2 /\ Len(rs) = 2 /\ rs[1] = r /\ rs[2] = other
  OBVIOUS
<1> HIDE DEF rs, S
<1>6. \A i \in 1..2 : rs[i] \in Results(S)
  BY <1>4, <1>5
<1>7. /\ m.ok \in BOOLEAN
      /\ m.ok => m.size <= MaxFrame
      /\ ~m.ok => MaxFrame < BatchBytes + 2 * (ResultBytes + 5)
      /\ \A i \in DOMAIN m.results : i \in 1..2 /\ (~m.results[i].truncated => m.results[i] = rs[i])
  BY <1>5, <1>6, BatchFits
<1> HIDE DEF m
<1>8. FrameFits'
  BY <1>1, <1>5, <1>7 DEF FrameFits
<1>9. ASSUME NEW i \in DOMAIN m.results, ~m.results[i].truncated
      PROVE  IF i = 1 THEN \A s \in Streams : m.results[i][s] = RedactString(job[s], job.limit).text
             ELSE m.results[i] = rs[i]
  <2>1. m.results[i] = rs[i]
    BY <1>7, <1>9
  <2>2. CASE i = 1
    <3>1. m.results[i] = r
      BY <1>5, <2>1, <2>2
    <3> QED
      BY <1>2, <1>9, <2>2, <3>1
  <2> QED
    BY <2>1, <2>2
<1>10. TruncationReported'
  BY <1>1, <1>9 DEF TruncationReported
<1> QED
  BY <1>8, <1>10

\* The inductive invariant holds of every reachable state.
THEOREM Invariance == Spec => []IInv
<1>1. Init => IInv
  <2> SUFFICES ASSUME Init PROVE IInv
    OBVIOUS
  <2>1. /\ job \in Jobs /\ remaining = job.limit /\ truncated = FALSE /\ redacted = Pending /\ response = Pending
        /\ sent = [ s \in Streams |-> 0 ] /\ buffer = [ s \in Streams |-> <<>> ]
    BY DEF Init
  <2>2. job.limit \in Nat /\ \A s \in Streams : job[s] \in Seq(Byte)
    BY <2>1, OutputAssumption
  <2>3. ASSUME NEW s \in Streams PROVE sent[s] \in 0 .. Len(job[s]) /\ buffer[s] \in Seq(Byte) /\ buffer[s] = SubSeq(job[s], 1, sent[s])
    <3>1. sent[s] = 0 /\ buffer[s] = <<>>
      BY <2>1
    <3>2. SubSeq(job[s], 1, 0) = <<>> /\ Len(job[s]) \in Nat
      BY <2>2
    <3> QED
      BY <3>1, <3>2
  <2>4. BufferInv
    BY <2>1, <2>2, <2>3 DEF BufferInv
  <2> QED
    BY <2>1, <2>4 DEF IInv, RedactedInv, FrameFits, TruncationReported
<1>2. IInv /\ [Next]_vars => IInv'
  <2> SUFFICES ASSUME IInv, [Next]_vars PROVE IInv'
    OBVIOUS
  <2>1. BufferInv /\ RedactedInv /\ FrameFits /\ TruncationReported
    BY DEF IInv
  <2>2. CASE Next
    <3>1. BufferInv' /\ RedactedInv'
      BY <2>1, <2>2, NextBuffer, NextRedacted
    <3>2. CASE Respond
      BY <2>1, <3>1, <3>2, RespondIsRight DEF IInv
    <3>3. CASE \E other \in Others : RespondBatch(other)
      BY <2>1, <3>1, <3>3, RespondBatchIsRight DEF IInv
    <3>4. CASE \/ \E s \in Streams : \E k \in 1 .. Len(job[s]) : Write(s, k)
               \/ \E k \in 1 .. Len(job.stdout) : StreamChunk(k)
               \/ Collect \/ CloseStream
      <4>1. UNCHANGED <<job, results, response>>
        BY <3>4 DEF Write, StreamChunk, Collect, CloseStream
      <4>2. FrameFits' /\ TruncationReported'
        BY <2>1, <4>1 DEF FrameFits, TruncationReported
      <4> QED
        BY <3>1, <4>2 DEF IInv
    <3> QED
      BY <2>2, <3>2, <3>3, <3>4 DEF Next
  <2>3. CASE UNCHANGED vars
    BY <2>1, <2>3 DEF vars, IInv, BufferInv, RedactedInv, Written, FrameFits, TruncationReported
  <2> QED
    BY <2>2, <2>3
<1> QED
  BY <1>1, <1>2, PTL DEF Spec

\* Whatever a command writes, a response is a frame within MaxFrameBytes, and it is an
\* error only when not even a result without output would fit.
THEOREM FramesFit == Spec => []FrameFits
<1>1. IInv => FrameFits
  BY DEF IInv
<1> QED
  BY <1>1, Invariance, PTL

\* Whatever a command writes, in whatever pieces and order, a result that is not marked as
\* truncated shows all of it: no byte is lost in the budget, in the growth by markers, in
\* the cut to one frame or in the attempts to fit a batch without the flag.
THEOREM TruncationIsReported == Spec => []TruncationReported
<1>1. IInv => TruncationReported
  BY DEF IInv
<1> QED
  BY <1>1, Invariance, PTL

-----------------------------------------------------------------------------
(* The StreamRedactor. *)

\* The function by which a fold over a sequence is defined, for the sets of positions in T.
Observes(t0, q, max, T, it) ==
    it = [ s \in T |-> IF s = {} THEN t0 ELSE ObserveByte(it[s \ {Max(s)}], q[Max(s)], max) ]

\* What observeDroppedURLBytes makes of t0 when it goes over the bytes q.
Observed(t0, q, max) == FoldLeft(LAMBDA s, b : ObserveByte(s, b, max), t0, q)

\* There is such a function, and the fold is its value at all positions.
LEMMA ObservesIs ==
    ASSUME NEW t0, NEW S, NEW q \in Seq(S), NEW max
    PROVE  \E it : /\ Observes(t0, q, max, SUBSET (1..Len(q)), it)
                   /\ Observed(t0, q, max) = it[1..Len(q)]
<1> DEFINE D == 1..Len(q)
           T(n) == { s \in SUBSET D : Cardinality(s) <= n }
           N == { n \in Nat : \E it : Observes(t0, q, max, T(n), it) }
<1>0. Len(q) \in Nat /\ DOMAIN q = D
  OBVIOUS
<1>1. \A s \in SUBSET D : IsFiniteSet(s) /\ Cardinality(s) \in Nat /\ Cardinality(s) <= Cardinality(D)
  <2>1. IsFiniteSet(D)
    BY <1>0, FS_Interval
  <2> HIDE DEF D
  <2> QED
    BY <2>1, FS_Subset, FS_CardinalityType
<1>2. \A s \in SUBSET D : s # {} =>
         /\ Max(s) \in s /\ s \ {Max(s)} \in SUBSET D
         /\ Cardinality(s \ {Max(s)}) = Cardinality(s) - 1
  <2> SUFFICES ASSUME NEW s \in SUBSET D, s # {}
               PROVE  /\ Max(s) \in s /\ s \ {Max(s)} \in SUBSET D
                      /\ Cardinality(s \ {Max(s)}) = Cardinality(s) - 1
    OBVIOUS
  <2>0. s \subseteq 0..Len(q)
    BY <1>0
  <2>1. Max(s) \in s
    BY <1>0, <2>0, MaxIs
  <2> QED
    BY <1>1, <2>1, FS_RemoveElement
<1>3. 0 \in N
  <2>1. T(0) = {{}}
    BY <1>1, FS_EmptySet
  <2>2. Observes(t0, q, max, T(0), [ s \in T(0) |-> t0 ])
    BY <2>1 DEF Observes
  <2> QED
    BY <2>2
<1>4. ASSUME NEW n \in Nat, n \in N PROVE n + 1 \in N
  <2>1. PICK g : Observes(t0, q, max, T(n), g)
    BY <1>4
  <2> DEFINE h == [ s \in T(n + 1) |-> IF s \in T(n) THEN g[s] ELSE ObserveByte(g[s \ {Max(s)}], q[Max(s)], max) ]
  <2>2. ASSUME NEW s \in T(n + 1) PROVE h[s] = IF s = {} THEN t0 ELSE ObserveByte(h[s \ {Max(s)}], q[Max(s)], max)
    <3>1. s # {} => s \ {Max(s)} \in T(n) /\ s \ {Max(s)} \in T(n + 1)
      BY <1>1, <1>2, SMTT(30)
    <3>2. s # {} => h[s \ {Max(s)}] = g[s \ {Max(s)}]
      BY <3>1
    <3>3. {} \in T(n)
      BY FS_EmptySet
    <3>4. CASE s \in T(n)
      <4>1. g[s] = IF s = {} THEN t0 ELSE ObserveByte(g[s \ {Max(s)}], q[Max(s)], max)
        BY <2>1, <3>4 DEF Observes
      <4> QED
        BY <3>2, <3>4, <4>1
    <3>5. CASE s \notin T(n)
      BY <3>2, <3>3, <3>5
    <3> QED
      BY <3>4, <3>5
  <2> DEFINE h2 == [ s \in T(n + 1) |-> IF s = {} THEN t0 ELSE ObserveByte(h[s \ {Max(s)}], q[Max(s)], max) ]
  <2>3. h = h2
    <3>1. \A s \in T(n + 1) : h[s] = h2[s]
      BY <2>2
    <3> QED
      BY <3>1
  <2>4. Observes(t0, q, max, T(n + 1), h)
    BY <2>3 DEF Observes
  <2> HIDE DEF h, h2, T
  <2>5. \E it : Observes(t0, q, max, T(n + 1), it)
    BY <2>4
  <2> QED
    BY <2>5
<1>5. Cardinality(D) \in N
  <2> HIDE DEF N
  <2>1. Nat \subseteq N
    BY <1>3, <1>4, SetInduction
  <2> QED
    BY <1>1, <2>1
<1>6. T(Cardinality(D)) = SUBSET D
  BY <1>1
<1>7. \E it : Observes(t0, q, max, SUBSET D, it)
  BY <1>5, <1>6
<1> DEFINE it == CHOOSE it : Observes(t0, q, max, SUBSET D, it)
<1>8. Observes(t0, q, max, SUBSET D, it)
  BY <1>7
<1>9. Observed(t0, q, max) = it[D]
  BY <1>0 DEF Observed, FoldLeft, MapThenFoldSet, Observes
<1> QED
  BY <1>8, <1>9

\* The states g through which it goes.
Passes(g, t0, q, max) ==
    /\ g[0] = t0
    /\ \A k \in 1..Len(q) : g[k] = ObserveByte(g[k - 1], q[k], max)
    /\ Observed(t0, q, max) = g[Len(q)]

\* The fold goes through the sequence from left to right.
LEMMA FoldIs ==
    ASSUME NEW t0, NEW S, NEW q \in Seq(S), NEW max
    PROVE  \E g : Passes(g, t0, q, max)
<1>0. Len(q) \in Nat
  OBVIOUS
<1>1. PICK it : /\ Observes(t0, q, max, SUBSET (1..Len(q)), it)
                /\ Observed(t0, q, max) = it[1..Len(q)]
  BY ObservesIs
<1>2. \A s \in SUBSET (1..Len(q)) : it[s] = IF s = {} THEN t0 ELSE ObserveByte(it[s \ {Max(s)}], q[Max(s)], max)
  BY <1>1 DEF Observes
<1> DEFINE g == [ k \in 0..Len(q) |-> it[1..k] ]
<1>3. g[0] = t0
  <2>1. 1..0 = {} /\ {} \in SUBSET (1..Len(q)) /\ 0 \in 0..Len(q)
    BY <1>0
  <2> QED
    BY <1>2, <2>1
<1>4. ASSUME NEW k \in 1..Len(q) PROVE g[k] = ObserveByte(g[k - 1], q[k], max)
  <2>1. k \in 1..k /\ 1..k \subseteq 0..Len(q) /\ 1..k \in SUBSET (1..Len(q)) /\ k \in 0..Len(q) /\ k - 1 \in 0..Len(q)
    BY <1>0
  <2>2. Max(1..k) \in 1..k /\ k <= Max(1..k)
    <3> DEFINE I == 1..k
    <3>1. I \subseteq 0..Len(q) /\ I # {} /\ k \in I
      BY <2>1
    <3> HIDE DEF I
    <3>2. Max(I) \in I /\ k <= Max(I)
      BY <1>0, <3>1, MaxIs
    <3> QED
      BY <3>2 DEF I
  <2>3. Max(1..k) = k
    BY <2>2
  <2>4. (1..k) \ {k} = 1..(k - 1) /\ 1..k # {}
    <3>1. k \in Nat /\ k >= 1
      BY <1>0
    <3>2. \A i : i \in (1..k) \ {k} <=> i \in 1..(k - 1)
      BY <3>1
    <3> QED
      BY <2>1, <3>2
  <2>5. it[1..k] = ObserveByte(it[(1..k) \ {k}], q[k], max)
    BY <1>2, <2>1, <2>3, <2>4
  <2>6. g[k] = it[1..k] /\ g[k - 1] = it[1..(k - 1)]
    BY <2>1
  <2> HIDE DEF g
  <2> QED
    BY <2>4, <2>5, <2>6
<1>5. g[Len(q)] = it[1..Len(q)]
  BY <1>0
<1> HIDE DEF g
<1>6. Passes(g, t0, q, max)
  BY <1>1, <1>3, <1>4, <1>5 DEF Passes
<1> QED
  BY <1>6

\* Where the first byte of a kind is.
LEMMA FirstIs ==
    ASSUME NEW S, NEW x \in Seq(S), NEW i \in Nat, NEW C
    PROVE  /\ First(x, i, C) \in Nat /\ First(x, i, C) <= Len(x) + 1
           /\ i <= Len(x) + 1 => i <= First(x, i, C)
           /\ First(x, i, C) <= Len(x) => First(x, i, C) \in i .. Len(x) /\ x[First(x, i, C)] \in C
           /\ \A j \in i .. Len(x) : x[j] \in C => First(x, i, C) <= j
<1> DEFINE J == { j \in i .. Len(x) : x[j] \in C } \cup {Len(x) + 1}
           f == First(x, i, C)
<1>1. Len(x) \in Nat /\ Len(x) + 1 \in J /\ J \subseteq Nat /\ f = Min(J)
  BY DEF First
<1>2. \A j : j \in J <=> (j = Len(x) + 1 \/ (j \in i .. Len(x) /\ x[j] \in C))
  OBVIOUS
<1> HIDE DEF J
<1>3. f \in J /\ \A j \in J : f <= j
  <2>1. J # {} /\ J \subseteq Nat
    BY <1>1
  <2>2. Min(J) \in J /\ \A j \in J : Min(J) <= j
    BY <2>1, MinIs
  <2> QED
    BY <1>1, <2>2
<1> HIDE DEF f
<1>4. f \in Nat /\ f <= Len(x) + 1 /\ (i <= Len(x) + 1 => i <= f)
  BY <1>1, <1>2, <1>3
<1>5. f <= Len(x) => f \in i .. Len(x) /\ x[f] \in C
  BY <1>1, <1>2, <1>3
<1>6. \A j \in i .. Len(x) : x[j] \in C => f <= j
  BY <1>2, <1>3
<1> QED
  BY <1>4, <1>5, <1>6 DEF f

\* The place with nothing of the kind before it is the first one.
LEMMA FirstEquals ==
    ASSUME NEW S, NEW x \in Seq(S), NEW i \in Nat, NEW C, NEW f \in i .. Len(x) + 1,
           f <= Len(x) => x[f] \in C, \A j \in i .. f - 1 : x[j] \notin C
    PROVE  First(x, i, C) = f
<1> DEFINE g == First(x, i, C)
<1>1. Len(x) \in Nat /\ f \in Nat /\ i <= Len(x) + 1
  OBVIOUS
<1>2. /\ g \in Nat /\ g <= Len(x) + 1 /\ i <= g
      /\ g <= Len(x) => g \in i .. Len(x) /\ x[g] \in C
      /\ \A j \in i .. Len(x) : x[j] \in C => g <= j
  BY <1>1, FirstIs
<1> HIDE DEF g
<1>3. ~(g < f)
  <2> SUFFICES ASSUME g < f PROVE FALSE
    OBVIOUS
  <2>1. g \in i .. f - 1 /\ g <= Len(x)
    BY <1>1, <1>2
  <2> QED
    BY <1>2, <2>1
<1>4. f <= Len(x) => g <= f
  BY <1>1, <1>2
<1> QED
  BY <1>1, <1>2, <1>3, <1>4 DEF g

\* Where the authority across the limit starts is known from the bytes up to the limit.
LEMMA AuthorityIs ==
    ASSUME NEW S, NEW x \in Seq(S), NEW public \in 0 .. Len(x)
    PROVE  /\ UrlAuthorityAtBoundary(x, public) \in 0 .. public
           /\ \A y \in Seq(S) : Len(y) >= public /\ (\A i \in 1 .. public : y[i] = x[i]) =>
                 UrlAuthorityAtBoundary(y, public) = UrlAuthorityAtBoundary(x, public)
<1> DEFINE A(z) == { i \in 1 .. public - 1 :
                        z[i] = "S" /\ First(SubSeq(z, 1, public), i + 1, Terminators) > public }
           B(z) == { i + 1 : i \in A(z) } \cup {0}
<1>1. Len(x) \in Nat /\ public \in Nat /\ public <= Len(x)
  OBVIOUS
<1>2. ASSUME NEW z \in Seq(S), Len(z) >= public PROVE UrlAuthorityAtBoundary(z, public) = Max(B(z))
  <2>1. ~(public > Len(z))
    BY <1>1, <1>2
  <2> QED
    BY <2>1 DEF UrlAuthorityAtBoundary
<1>3. B(x) \subseteq 0 .. public /\ B(x) # {}
  BY <1>1
<1>4. Max(B(x)) \in 0 .. public
  <2> HIDE DEF B
  <2> QED
    BY <1>1, <1>3, MaxIs
<1>5. ASSUME NEW y \in Seq(S), Len(y) >= public, \A i \in 1 .. public : y[i] = x[i]
      PROVE  UrlAuthorityAtBoundary(y, public) = UrlAuthorityAtBoundary(x, public)
  <2>1. SubSeq(y, 1, public) = SubSeq(x, 1, public)
    BY <1>1, <1>5
  <2>2. \A i \in 1 .. public - 1 : y[i] = x[i]
    BY <1>1, <1>5
  <2>3. A(y) = A(x)
    BY <2>1, <2>2
  <2>4. B(y) = B(x)
    <3> HIDE DEF A
    <3> QED
      BY <2>3
  <2> HIDE DEF B
  <2> QED
    BY <1>1, <1>2, <1>5, <2>4
<1> QED
  BY <1>1, <1>2, <1>4, <1>5

\* The states of the search through the bytes behind the limit.
Tails == [ initialized : BOOLEAN, active : BOOLEAN, colonSeen : BOOLEAN, credentials : BOOLEAN, resolved : BOOLEAN ]

\* What ends the search for credentials in an authority.
Ends == Terminators \cup {"@"}

\* The state of the search when the bytes from start to the end of x have been seen.
Seen(tail, x, start, max) ==
    LET end == First(x, start, Ends) IN
    /\ tail \in Tails /\ tail.initialized
    /\ IF start = 0 THEN ~tail.active /\ ~tail.credentials
       ELSE IF end > Len(x)
       THEN /\ tail.active /\ ~tail.resolved /\ ~tail.credentials
            /\ tail.colonSeen <=> \E i \in start .. Len(x) : x[i] = ":"
       ELSE /\ ~tail.active
            /\ tail.credentials <=> x[end] = "@" /\ max < end /\ \E i \in start .. end - 1 : x[i] = ":"

\* One more byte is seen.  Its number may be wrong, as long as it is on the right side of
\* the limit.
LEMMA SeenStep ==
    ASSUME NEW x \in Seq(Byte), NEW y \in Seq(Byte), NEW start \in 0 .. Len(x) + 1, NEW max \in Nat,
           NEW tail, Seen(tail, x, start, max), NEW b,
           Len(y) = Len(x) + 1, \A i \in 1 .. Len(x) : y[i] = x[i],
           b.c = y[Len(y)], max < b.n <=> max < Len(y)
    PROVE  Seen(ObserveByte(tail, b, max), y, start, max)
<1> DEFINE e == First(x, start, Ends)
           d == First(y, start, Ends)
           next == ObserveByte(tail, b, max)
<1>1. Len(x) \in Nat /\ start \in Nat /\ Len(y) \in Nat /\ y[Len(y)] \in Byte
  OBVIOUS
<1>2. tail \in Tails /\ tail.initialized
  BY DEF Seen
<1>3. next \in Tails /\ next.initialized
  <2>1. (tail.colonSeen /\ max < b.n) \in BOOLEAN
    BY <1>2 DEF Tails
  <2> QED
    BY <1>2, <2>1 DEF ObserveByte, Tails
<1>4. CASE start = 0
  <2>1. ~tail.active /\ ~tail.credentials
    BY <1>4 DEF Seen
  <2>2. next = tail
    BY <2>1 DEF ObserveByte
  <2> QED
    BY <1>2, <1>4, <2>1, <2>2 DEF Seen
<1>5. CASE start # 0
  <2>1. /\ e \in Nat /\ e <= Len(x) + 1 /\ start <= e
        /\ e <= Len(x) => x[e] \in Ends
        /\ \A j \in start .. Len(x) : x[j] \in Ends => e <= j
    BY <1>1, FirstIs
  <2> HIDE DEF e, next, d
  <2>2. CASE e <= Len(x)
    <3>1. ~tail.active /\ (tail.credentials <=> x[e] = "@" /\ max < e /\ \E i \in start .. e - 1 : x[i] = ":")
      BY <1>1, <1>5, <2>1, <2>2 DEF Seen, e
    <3>2. next = tail
      BY <3>1 DEF ObserveByte, next
    <3>3. d = e
      <4>1. e \in start .. Len(y) + 1 /\ e \in 1 .. Len(x)
        BY <1>1, <1>5, <2>1, <2>2
      <4>2. y[e] \in Ends
        BY <2>1, <2>2, <4>1
      <4>3. ASSUME NEW j \in start .. e - 1 PROVE y[j] \notin Ends
        <5>1. j \in 1 .. Len(x) /\ j \in start .. Len(x) /\ ~(e <= j)
          BY <1>1, <1>5, <2>1, <2>2
        <5> QED
          BY <2>1, <5>1
      <4> QED
        BY <1>1, <4>1, <4>2, <4>3, FirstEquals DEF d
    <3>4. y[e] = x[e] /\ \A i \in start .. e - 1 : y[i] = x[i]
      BY <1>1, <1>5, <2>1, <2>2
    <3>5. d <= Len(y)
      BY <1>1, <2>1, <2>2, <3>3
    <3>6. ~next.active /\ (next.credentials <=> y[d] = "@" /\ max < d /\ \E i \in start .. d - 1 : y[i] = ":")
      BY <3>1, <3>2, <3>3, <3>4
    <3>7. ~(d > Len(y))
      BY <1>1, <2>1, <3>3, <3>5
    <3> QED
      BY <1>3, <1>5, <3>6, <3>7 DEF Seen, d, next
  <2>3. CASE ~(e <= Len(x))
    <3>1. /\ tail.active /\ ~tail.resolved /\ ~tail.credentials
          /\ tail.colonSeen <=> \E i \in start .. Len(x) : x[i] = ":"
      BY <1>1, <1>5, <2>1, <2>3 DEF Seen, e
    <3>2. \A j \in start .. Len(x) : y[j] \notin Ends /\ y[j] = x[j]
      BY <1>1, <1>5, <2>1, <2>3
    <3>3. tail.colonSeen <=> \E i \in start .. Len(y) - 1 : y[i] = ":"
      BY <1>1, <3>1, <3>2
    <3>4. CASE y[Len(y)] \in Ends
      <4>1. d = Len(y)
        BY <1>1, <3>2, <3>4, FirstEquals DEF d
      <4>2. next.active = FALSE /\ (next.credentials <=> y[Len(y)] = "@" /\ max < Len(y) /\ tail.colonSeen)
        <5>1. CASE y[Len(y)] \in Terminators
          <6>1. y[Len(y)] # "@"
            BY <5>1 DEF Terminators
          <6>2. next = [tail EXCEPT !.resolved = TRUE, !.active = FALSE]
            BY <3>1, <5>1 DEF next, ObserveByte
          <6> QED
            BY <1>2, <3>1, <6>1, <6>2 DEF Tails
        <5>2. CASE y[Len(y)] \notin Terminators
          <6>1. y[Len(y)] = "@"
            BY <3>4, <5>2 DEF Ends
          <6>2. next = [tail EXCEPT !.credentials = tail.colonSeen /\ max < b.n, !.resolved = TRUE, !.active = FALSE]
            BY <3>1, <5>2, <6>1 DEF next, ObserveByte
          <6> QED
            BY <1>2, <6>1, <6>2 DEF Tails
        <5> QED
          BY <5>1, <5>2
      <4>3. next.active = FALSE /\ (next.credentials <=> y[d] = "@" /\ max < d /\ \E i \in start .. d - 1 : y[i] = ":")
        BY <3>3, <4>1, <4>2
      <4>4. ~(d > Len(y))
        BY <1>1, <4>1
      <4> QED
        BY <1>3, <1>5, <4>3, <4>4 DEF Seen, d, next
    <3>5. CASE y[Len(y)] \notin Ends
      <4>1. d = Len(y) + 1
        <5>1. \A j \in start .. (Len(y) + 1) - 1 : y[j] \notin Ends
          BY <1>1, <3>2, <3>5
        <5>2. Len(y) + 1 \in start .. Len(y) + 1 /\ ~(Len(y) + 1 <= Len(y))
          BY <1>1
        <5> QED
          BY <1>1, <5>1, <5>2, FirstEquals DEF d
      <4>2. b.c \notin Terminators /\ b.c # "@"
        BY <3>5 DEF Ends
      <4>3. next = IF b.c = ":" THEN [tail EXCEPT !.colonSeen = TRUE] ELSE tail
        BY <3>1, <4>2 DEF next, ObserveByte
      <4>4. next.active = TRUE /\ next.resolved = FALSE /\ next.credentials = FALSE
        BY <1>2, <3>1, <4>3 DEF Tails
      <4>5. next.colonSeen <=> tail.colonSeen \/ y[Len(y)] = ":"
        BY <1>2, <4>3 DEF Tails
      <4>6. next.colonSeen <=> \E i \in start .. Len(y) : y[i] = ":"
        BY <1>1, <3>3, <4>5
      <4>7. d > Len(y)
        BY <1>1, <4>1
      <4> QED
        BY <1>3, <1>5, <4>4, <4>6, <4>7 DEF Seen, d, next
    <3> QED
      BY <3>4, <3>5
  <2> QED
    BY <2>2, <2>3
<1> QED
  BY <1>4, <1>5

\* A run of bytes is seen.
LEMMA SeenRun ==
    ASSUME NEW y \in Seq(Byte), NEW n \in 0 .. Len(y), NEW start \in 0 .. n + 1, NEW max \in Nat,
           NEW tail, Seen(tail, SubSeq(y, 1, n), start, max),
           NEW S, NEW q \in Seq(S), Len(q) = Len(y) - n,
           \A k \in 1 .. Len(q) : q[k].c = y[n + k] /\ (max < q[k].n <=> max < n + k)
    PROVE  Seen(Observed(tail, q, max), y, start, max)
<1>1. Len(y) \in Nat /\ n \in Nat /\ Len(q) \in Nat /\ n + Len(q) = Len(y)
  <2>1. Len(y) \in Nat /\ Len(q) \in Nat
    OBVIOUS
  <2>2. n \in Nat /\ Len(q) = Len(y) - n
    BY <2>1
  <2> QED
    BY <2>1, <2>2
<1>2. PICK g : Passes(g, tail, q, max)
  BY FoldIs
<1>8. g[0] = tail /\ Observed(tail, q, max) = g[Len(q)]
  BY <1>2 DEF Passes
<1> DEFINE z(k) == SubSeq(y, 1, n + k)
           N == { k \in Nat : k <= Len(q) => Seen(g[k], z(k), start, max) }
<1>3. 0 \in N
  <2>1. n + 0 = n
    BY <1>1
  <2> QED
    BY <1>8, <2>1
<1>4. ASSUME NEW k \in Nat, k \in N PROVE k + 1 \in N
  <2> SUFFICES ASSUME k + 1 <= Len(q) PROVE Seen(g[k + 1], z(k + 1), start, max)
    OBVIOUS
  <2>1. k <= Len(q) /\ k + 1 \in 1..Len(q) /\ (k + 1) - 1 = k /\ n + k \in Nat /\ n + (k + 1) \in Nat
        /\ n + (k + 1) <= Len(y) /\ n + (k + 1) = (n + k) + 1 /\ n + k <= Len(y)
    BY <1>1
  <2>2. Seen(g[k], z(k), start, max) /\ g[k + 1] = ObserveByte(g[k], q[k + 1], max)
    <3>1. g[k + 1] = ObserveByte(g[(k + 1) - 1], q[k + 1], max)
      BY <1>2, <2>1 DEF Passes
    <3> QED
      BY <1>4, <2>1, <3>1
  <2>3. z(k) \in Seq(Byte) /\ Len(z(k)) = n + k /\ \A i \in 1 .. n + k : z(k)[i] = y[i]
    <3> DEFINE m == n + k
    <3>1. m \in Nat /\ m <= Len(y)
      BY <2>1
    <3> HIDE DEF m
    <3>2. SubSeq(y, 1, m) \in Seq(Byte) /\ Len(SubSeq(y, 1, m)) = m /\ \A i \in 1 .. m : SubSeq(y, 1, m)[i] = y[i]
      BY <1>1, <3>1, SMTT(30)
    <3> QED
      BY <3>2 DEF m
  <2>4. z(k + 1) \in Seq(Byte) /\ Len(z(k + 1)) = n + (k + 1) /\ \A i \in 1 .. n + (k + 1) : z(k + 1)[i] = y[i]
    <3> DEFINE m == n + (k + 1)
    <3>1. m \in Nat /\ m <= Len(y)
      BY <2>1
    <3> HIDE DEF m
    <3>2. SubSeq(y, 1, m) \in Seq(Byte) /\ Len(SubSeq(y, 1, m)) = m /\ \A i \in 1 .. m : SubSeq(y, 1, m)[i] = y[i]
      BY <1>1, <3>1
    <3> QED
      BY <3>2 DEF m
  <2>5. q[k + 1].c = y[n + (k + 1)] /\ (max < q[k + 1].n <=> max < n + (k + 1))
    BY <2>1
  <2> HIDE DEF z
  <2>6. start \in 0 .. Len(z(k)) + 1
    BY <1>1, <2>1, <2>3
  <2>7. Len(z(k + 1)) = Len(z(k)) + 1 /\ \A i \in 1 .. Len(z(k)) : z(k + 1)[i] = z(k)[i]
    BY <2>1, <2>3, <2>4
  <2>8. q[k + 1].c = z(k + 1)[Len(z(k + 1))] /\ (max < q[k + 1].n <=> max < Len(z(k + 1)))
    BY <2>1, <2>4, <2>5
  <2> DEFINE v == z(k)
             w == z(k + 1)
             b == q[k + 1]
             t == g[k]
  <2>9. /\ v \in Seq(Byte) /\ w \in Seq(Byte) /\ start \in 0 .. Len(v) + 1 /\ Seen(t, v, start, max)
        /\ Len(w) = Len(v) + 1 /\ (\A i \in 1 .. Len(v) : w[i] = v[i])
        /\ b.c = w[Len(w)] /\ (max < b.n <=> max < Len(w))
    BY <2>2, <2>3, <2>4, <2>6, <2>7, <2>8
  <2> HIDE DEF v, w, b, t
  <2>10. Seen(ObserveByte(t, b, max), w, start, max)
    BY <2>9, SeenStep
  <2> QED
    BY <2>2, <2>10 DEF t, b, w
<1>5. Nat \subseteq N
  <2> HIDE DEF N
  <2> QED
    BY <1>3, <1>4, SetInduction
<1>6. Seen(g[Len(q)], z(Len(q)), start, max)
  <2> HIDE DEF z
  <2> QED
    BY <1>1, <1>5
<1>7. z(Len(q)) = y
  BY <1>1
<1> QED
  BY <1>6, <1>7, <1>8

\* A text and one that starts with it.
Starts(b, y) == Len(b) <= Len(y) /\ \A i \in 1 .. Len(b) : b[i] = y[i]

\* The credentials of the authority across the limit, as the search finds them.
LEMMA CredentialSeen ==
    ASSUME NEW y \in Seq(Byte), NEW max \in Nat, max < Len(y), NEW tail,
           Seen(tail, y, UrlAuthorityAtBoundary(y, max), max)
    PROVE  UrlCredentialAfterBoundary(y, max) <=> tail.credentials
<1> DEFINE start == UrlAuthorityAtBoundary(y, max)
           end == First(y, start, Ends)
<1>1. Len(y) \in Nat /\ max \in 0 .. Len(y)
  OBVIOUS
<1>2. start \in 0 .. max
  BY <1>1, AuthorityIs
<1>3. end \in Nat
  <2>1. start \in Nat
    BY <1>2
  <2> QED
    BY <2>1, FirstIs
<1>4. UrlCredentialAfterBoundary(y, max) <=>
         /\ start > 0 /\ max < Len(y)
         /\ end <= Len(y) /\ y[end] = "@" /\ max < end
         /\ \E i \in start .. end - 1 : y[i] = ":"
  BY DEF UrlCredentialAfterBoundary, Ends
<1>5. /\ tail \in Tails
      /\ IF start = 0 THEN ~tail.active /\ ~tail.credentials
         ELSE IF end > Len(y) THEN ~tail.credentials
         ELSE tail.credentials <=> y[end] = "@" /\ max < end /\ \E i \in start .. end - 1 : y[i] = ":"
  BY DEF Seen
<1> HIDE DEF start, end
<1>6. CASE start = 0
  BY <1>4, <1>5, <1>6
<1>7. CASE start # 0
  <2>1. start > 0
    BY <1>2, <1>7
  <2>2. CASE end > Len(y)
    BY <1>1, <1>3, <1>4, <1>5, <1>7, <2>2
  <2>3. CASE ~(end > Len(y))
    <3>1. end <= Len(y)
      BY <1>1, <1>3, <2>3
    <3> QED
      BY <1>4, <1>5, <1>7, <2>1, <2>3, <3>1
  <2> QED
    BY <2>2, <2>3
<1> QED
  BY <1>6, <1>7

\* Credentials that end in the buffer are credentials of the whole.
LEMMA CredentialKept ==
    ASSUME NEW y \in Seq(Byte), NEW b \in Seq(Byte), Starts(b, y), NEW max \in 0 .. Len(b),
           UrlCredentialAfterBoundary(b, max)
    PROVE  UrlCredentialAfterBoundary(y, max)
<1> DEFINE start == UrlAuthorityAtBoundary(b, max)
           end == First(b, start, Ends)
<1>1. Len(y) \in Nat /\ Len(b) \in Nat /\ Len(b) <= Len(y) /\ max \in 0 .. Len(y) /\ \A i \in 1 .. Len(b) : b[i] = y[i]
  BY DEF Starts
<1>2. start \in 0 .. max
  BY AuthorityIs
<1>3. UrlAuthorityAtBoundary(y, max) = start
  BY <1>1, AuthorityIs
<1>4. /\ start > 0 /\ max < Len(b)
      /\ end <= Len(b) /\ b[end] = "@" /\ max < end
      /\ \E i \in start .. end - 1 : b[i] = ":"
  BY DEF UrlCredentialAfterBoundary, Ends
<1>5. end \in start .. Len(b) /\ b[end] \in Ends /\ \A j \in start .. Len(b) : b[j] \in Ends => end <= j
  <2>1. start \in Nat
    BY <1>2
  <2> QED
    BY <1>4, <2>1, FirstIs
<1> HIDE DEF end, start
<1>6. First(y, start, Ends) = end
  <2>1. start \in Nat /\ end \in Nat /\ end \in start .. Len(y) + 1 /\ end \in 1 .. Len(b)
    BY <1>1, <1>2, <1>4, <1>5
  <2>2. y[end] \in Ends
    BY <1>1, <1>5, <2>1
  <2>3. ASSUME NEW j \in start .. end - 1 PROVE y[j] \notin Ends
    <3>1. j \in start .. Len(b) /\ j \in 1 .. Len(b) /\ ~(end <= j)
      BY <1>1, <1>2, <1>4, <2>1
    <3> QED
      BY <1>1, <1>5, <3>1
  <2> QED
    BY <2>1, <2>2, <2>3, FirstEquals
<1>7. end <= Len(y) /\ y[end] = "@" /\ max < Len(y)
  BY <1>1, <1>2, <1>4, <1>5
<1>8. \E i \in start .. end - 1 : y[i] = ":"
  <2>1. PICK i \in start .. end - 1 : b[i] = ":"
    BY <1>4
  <2>2. i \in 1 .. Len(b)
    BY <1>1, <1>2, <1>4, <1>5
  <2> QED
    BY <1>1, <2>1, <2>2
<1> QED
  BY <1>3, <1>4, <1>6, <1>7, <1>8 DEF UrlCredentialAfterBoundary, Ends

\* What the StreamRedactor knows of the text y that was written to it.
Tracks(s, y, max) ==
    /\ s.buffer = SubSeq(y, 1, Min({Len(y), max + Lookahead}))
    /\ s.truncated \in BOOLEAN /\ (s.truncated <=> Len(y) > max)
    /\ IF Len(y) <= max + Lookahead THEN s.tail = NewStream.tail
       ELSE Seen(s.tail, y, UrlAuthorityAtBoundary(y, max), max)

\* When it is closed it shows what RedactString shows of the whole text.
LEMMA ClosedIs ==
    ASSUME NEW y \in Seq(Byte), NEW max \in Nat, NEW s, Tracks(s, y, max)
    PROVE  StreamClose(s, max) = RedactString(y, max)
<1> DEFINE kept == Min({Len(y), max + Lookahead})
           b == SubSeq(y, 1, kept)
           across == UrlCredentialAfterBoundary(s.buffer, max) \/ s.tail.credentials
<1>1. Len(y) \in Nat /\ Lookahead \in Nat /\ max + Lookahead \in Nat
  BY RedactorAssumption
<1>2. kept = IF Len(y) <= max + Lookahead THEN Len(y) ELSE max + Lookahead
  BY <1>1, MinOfTwo
<1>3. s.buffer = b /\ s.truncated \in BOOLEAN /\ (s.truncated <=> Len(y) > max)
  BY DEF Tracks
<1>4. across = UrlCredentialAfterBoundary(y, max)
  <2>1. CASE Len(y) <= max + Lookahead
    <3>1. b = y
      BY <1>1, <1>2, <2>1
    <3>2. s.tail = NewStream.tail
      BY <2>1 DEF Tracks
    <3>3. s.tail.credentials = FALSE
      BY <3>2 DEF NewStream
    <3>4. UrlCredentialAfterBoundary(y, max) \in BOOLEAN
      BY DEF UrlCredentialAfterBoundary
    <3> HIDE DEF b
    <3> QED
      BY <1>3, <3>1, <3>3, <3>4
  <2>2. CASE ~(Len(y) <= max + Lookahead)
    <3>1. kept = max + Lookahead /\ max < Len(y) /\ kept \in 0 .. Len(y) /\ max <= kept
      BY <1>1, <1>2, <2>2
    <3> HIDE DEF kept
    <3>2. b \in Seq(Byte) /\ Len(b) = kept /\ Starts(b, y)
      BY <1>1, <3>1 DEF Starts
    <3> HIDE DEF b
    <3>3. Seen(s.tail, y, UrlAuthorityAtBoundary(y, max), max)
      BY <2>2 DEF Tracks
    <3>4. UrlCredentialAfterBoundary(y, max) <=> s.tail.credentials
      BY <3>1, <3>3, CredentialSeen
    <3>5. UrlCredentialAfterBoundary(b, max) => UrlCredentialAfterBoundary(y, max)
      BY <1>1, <3>1, <3>2, CredentialKept
    <3>6. s.tail.credentials \in BOOLEAN
      BY <3>3 DEF Seen, Tails
    <3>7. UrlCredentialAfterBoundary(y, max) \in BOOLEAN
      BY DEF UrlCredentialAfterBoundary
    <3> QED
      BY <1>3, <3>4, <3>5, <3>6, <3>7
  <2> QED
    BY <2>1, <2>2
<1>5. StreamClose(s, max) = RedactInspected(s.buffer, s.truncated, across, max)
  BY DEF StreamClose
<1>6. RedactString(y, max) = RedactInspected(b, Len(y) > max, UrlCredentialAfterBoundary(y, max), max)
  BY DEF RedactString
<1> DEFINE cut == Len(y) > max
<1>7. s.truncated = cut
  <2>1. cut \in BOOLEAN /\ (s.truncated <=> cut)
    BY <1>3
  <2> HIDE DEF cut
  <2> QED
    BY <1>3, <2>1
<1> HIDE DEF b, across, kept, cut
<1>8. RedactString(y, max) = RedactInspected(b, cut, UrlCredentialAfterBoundary(y, max), max)
  BY <1>6 DEF cut
<1> QED
  BY <1>3, <1>4, <1>5, <1>7, <1>8

\* The numbered bytes of a part of a text.
At(x, i) == [j \in DOMAIN x |-> [c |-> x[j], n |-> i + j]]

\* The bytes of x with their positions, when the first one stands behind position i.
LEMMA AtIs ==
    ASSUME NEW x \in Seq(Byte), NEW i \in Nat
    PROVE  /\ At(x, i) \in Seq([ c : Byte, n : Nat ]) /\ Len(At(x, i)) = Len(x)
           /\ \A j \in 1 .. Len(x) : At(x, i)[j].c = x[j] /\ At(x, i)[j].n = i + j
<1>1. DOMAIN x = 1 .. Len(x) /\ Len(x) \in Nat /\ \A j \in 1 .. Len(x) : x[j] \in Byte /\ j \in Nat
  OBVIOUS
<1>2. At(x, i) \in [ 1 .. Len(x) -> [ c : Byte, n : Nat ] ]
  BY <1>1 DEF At
<1>3. \A j \in 1 .. Len(x) : At(x, i)[j] = [ c |-> x[j], n |-> i + j ]
  BY <1>1 DEF At
<1> DEFINE R == [ c : Byte, n : Nat ]
           f == At(x, i)
<1>4. f \in [ 1 .. Len(x) -> R ]
  BY <1>2
<1> HIDE DEF R, f
<1>5. f \in Seq(R) /\ Len(f) = Len(x)
  BY <1>1, <1>4
<1>6. ASSUME NEW j \in 1 .. Len(x) PROVE f[j].c = x[j] /\ f[j].n = i + j
  <2>1. f[j] = [ c |-> x[j], n |-> i + j ]
    BY <1>3 DEF f
  <2> QED
    BY <2>1
<1> QED
  BY <1>5, <1>6 DEF R, f

\* What is written next behind what was written.
LEMMA Behind ==
    ASSUME NEW y \in Seq(Byte), NEW p \in Seq(Byte)
    PROVE  /\ y \o p \in Seq(Byte) /\ Len(y \o p) = Len(y) + Len(p)
           /\ \A i \in 1 .. Len(y) : (y \o p)[i] = y[i]
           /\ \A i \in 1 .. Len(p) : (y \o p)[Len(y) + i] = p[i]
<1>1. Len(y) \in Nat /\ Len(p) \in Nat
  OBVIOUS
<1> DEFINE z == y \o p
<1>2. z \in Seq(Byte) /\ Len(z) = Len(y) + Len(p)
      /\ \A i \in 1 .. Len(y) + Len(p) : z[i] = IF i <= Len(y) THEN y[i] ELSE p[i - Len(y)]
  BY ConcatProperties
<1> HIDE DEF z
<1>3. \A i \in 1 .. Len(y) : z[i] = y[i]
  BY <1>1, <1>2
<1>4. ASSUME NEW i \in 1 .. Len(p) PROVE z[Len(y) + i] = p[i]
  <2>1. Len(y) + i \in 1 .. Len(y) + Len(p) /\ ~(Len(y) + i <= Len(y)) /\ (Len(y) + i) - Len(y) = i
    BY <1>1
  <2> QED
    BY <1>2, <2>1
<1> QED
  BY <1>2, <1>3, <1>4 DEF z

\* The bytes of a text from a place on.
LEMMA RestIs ==
    ASSUME NEW x \in Seq(Byte), NEW m \in 1 .. Len(x) + 1
    PROVE  /\ SubSeq(x, m, Len(x)) \in Seq(Byte) /\ Len(SubSeq(x, m, Len(x))) = Len(x) - m + 1
           /\ \A i \in 1 .. Len(x) - m + 1 : SubSeq(x, m, Len(x))[i] = x[m - 1 + i]
           /\ SubSeq(x, m, Len(x)) = <<>> <=> m = Len(x) + 1
<1>1. Len(x) \in Nat /\ m \in Nat /\ m >= 1
  OBVIOUS
<1>2. \A i \in m .. Len(x) : x[i] \in Byte
  BY <1>1
<1> DEFINE r == SubSeq(x, m, Len(x))
           n == Len(x)
<1>3. /\ r \in Seq(Byte)
      /\ Len(r) = IF m <= n THEN n - m + 1 ELSE 0
      /\ \A i \in 1 .. n - m + 1 : r[i] = x[m + i - 1]
  BY <1>1, <1>2, SubSeqProperties
<1> HIDE DEF r
<1>4. Len(r) = n - m + 1
  BY <1>1, <1>3
<1>5. \A i \in 1 .. n - m + 1 : m + i - 1 = m - 1 + i
  BY <1>1
<1>6. \A i \in 1 .. n - m + 1 : r[i] = x[m - 1 + i]
  BY <1>3, <1>5
<1>7. r = <<>> <=> m = n + 1
  <2>1. r = <<>> <=> Len(r) = 0
    BY <1>3
  <2> QED
    BY <1>1, <1>4, <2>1
<1> QED
  BY <1>3, <1>4, <1>6, <1>7 DEF r

\* What is dropped is searched for the end of the authority across the limit: first in the
\* bytes of the buffer behind the limit, ...
LEMMA FirstDropped ==
    ASSUME NEW z \in Seq(Byte), NEW max \in Nat, NEW n \in 0 .. Len(z), max <= n, n < Len(z),
           NEW b \in Seq(Byte), b = SubSeq(z, 1, n), NEW d \in Seq(Byte), d = SubSeq(z, n + 1, Len(z))
    PROVE  Seen(ObserveDropped(NewStream.tail, b, d, max), z, UrlAuthorityAtBoundary(z, max), max)
<1> DEFINE start == UrlAuthorityAtBoundary(b, max)
           t == NewStream.tail
           t0 == [ initialized |-> TRUE, active |-> start > 0, colonSeen |-> FALSE, credentials |-> FALSE, resolved |-> FALSE ]
           u == IF start = 0 THEN <<>> ELSE At(SubSeq(b, start, Len(b)), start - 1)
           q == u \o At(d, Len(b))
           R == [ c : Byte, n : Nat ]
<1>1. Len(z) \in Nat /\ n \in Nat
  OBVIOUS
<1>2. Len(b) = n /\ \A i \in 1 .. n : b[i] = z[i]
  BY <1>1
<1>3. Len(d) = Len(z) - n /\ \A i \in 1 .. Len(z) - n : d[i] = z[n + i]
  <2>1. n + 1 \in 1 .. Len(z) + 1
    BY <1>1
  <2> DEFINE m == n + 1
  <2>2. d = SubSeq(z, m, Len(z)) /\ m \in 1 .. Len(z) + 1
    BY <2>1
  <2> HIDE DEF m
  <2>3. Len(d) = Len(z) - m + 1 /\ \A i \in 1 .. Len(z) - m + 1 : d[i] = z[m - 1 + i]
    <3> DEFINE e == SubSeq(z, m, Len(z))
    <3>1. Len(e) = Len(z) - m + 1 /\ \A i \in 1 .. Len(z) - m + 1 : e[i] = z[m - 1 + i]
      BY <2>2, RestIs
    <3>2. d = e
      BY <2>2
    <3> HIDE DEF e
    <3> QED
      BY <3>1, <3>2
  <2>4. Len(z) - m + 1 = Len(z) - n /\ \A i \in Nat : m - 1 + i = n + i
    BY <1>1 DEF m
  <2>5. \A i \in 1 .. Len(z) - n : i \in Nat
    BY <1>1
  <2> QED
    BY <2>3, <2>4, <2>5
<1>4. start = UrlAuthorityAtBoundary(z, max) /\ start \in 0 .. max
  <2>1. max \in 0 .. Len(b) /\ max \in 0 .. Len(z) /\ Len(z) >= max /\ \A i \in 1 .. max : z[i] = b[i]
    BY <1>1, <1>2
  <2> QED
    BY <2>1, AuthorityIs, ZenonT(30)
<1> HIDE DEF start
<1>5. (start > 0) \in BOOLEAN /\ t0 \in Tails
  BY DEF Tails
<1>6. ObserveDropped(t, b, d, max) = Observed(t0, q, max)
  <2>1. t.initialized = FALSE /\ [t EXCEPT !.initialized = TRUE, !.active = IF t.initialized THEN @ ELSE start > 0] = t0
    <3>1. t = [ initialized |-> FALSE, active |-> FALSE, colonSeen |-> FALSE, credentials |-> FALSE, resolved |-> FALSE ]
      BY DEF NewStream
    <3> DEFINE a == start > 0
               new == [ initialized |-> TRUE, active |-> a, colonSeen |-> FALSE, credentials |-> FALSE, resolved |-> FALSE ]
               old == [t EXCEPT !.initialized = TRUE, !.active = IF t.initialized THEN @ ELSE a]
    <3> HIDE DEF t, a
    <3>2. t.initialized = FALSE
      BY <3>1
    <3>3. old = new
      <4>1. a \in BOOLEAN
        BY DEF a
      <4>2. t \in Tails /\ t.colonSeen = FALSE /\ t.credentials = FALSE /\ t.resolved = FALSE
        BY <3>1 DEF Tails
      <4>3. old = [t EXCEPT !.initialized = TRUE, !.active = a]
        BY <3>2
      <4>4. /\ old \in Tails /\ old.initialized = TRUE /\ old.active = a
            /\ old.colonSeen = FALSE /\ old.credentials = FALSE /\ old.resolved = FALSE
        BY <4>1, <4>2, <4>3 DEF Tails
      <4> HIDE DEF old
      <4> QED
        BY <4>1, <4>4 DEF Tails
    <3> QED
      BY <3>2, <3>3 DEF a
  <2>2. (t.initialized \/ start = 0) <=> start = 0
    BY <2>1
  <2> HIDE DEF t, t0
  <2>3. ObserveDropped(t, b, d, max) =
           FoldLeft(LAMBDA s, c : ObserveByte(s, c, max),
                    [t EXCEPT !.initialized = TRUE, !.active = IF t.initialized THEN @ ELSE start > 0],
                    (IF t.initialized \/ start = 0 THEN <<>> ELSE At(SubSeq(b, start, Len(b)), start - 1)) \o At(d, Len(b)))
    BY DEF ObserveDropped, At, start
  <2> QED
    BY <2>1, <2>2, <2>3 DEF Observed
<1>7. At(d, Len(b)) \in Seq(R) /\ Len(At(d, Len(b))) = Len(d)
      /\ \A j \in 1 .. Len(d) : At(d, Len(b))[j].c = d[j] /\ At(d, Len(b))[j].n = n + j
  <2>1. At(d, n) \in Seq(R) /\ Len(At(d, n)) = Len(d)
        /\ \A j \in 1 .. Len(d) : At(d, n)[j].c = d[j] /\ At(d, n)[j].n = n + j
    BY <1>1, AtIs
  <2> QED
    BY <1>2, <2>1
<1>8. CASE start = 0
  <2>1. q = At(d, Len(b))
    <3>1. u = <<>>
      BY <1>8
    <3> HIDE DEF u, R
    <3> QED
      BY <1>7, <3>1
  <2> HIDE DEF q, R
  <2>2. Seen(t0, b, 0, max)
    <3>1. t0.initialized = TRUE /\ t0.active = FALSE /\ t0.credentials = FALSE
      <4>1. (start > 0) = FALSE
        BY <1>8
      <4> QED
        BY <4>1
    <3> HIDE DEF t0
    <3> QED
      BY <1>5, <3>1 DEF Seen
  <2>3. Len(q) = Len(z) - n /\ q \in Seq(R)
    BY <1>3, <1>7, <2>1
  <2>4. ASSUME NEW k \in 1 .. Len(q) PROVE q[k].c = z[n + k] /\ (max < q[k].n <=> max < n + k)
    BY <1>3, <1>7, <2>1, <2>3
  <2>5. 0 \in 0 .. n + 1
    BY <1>1
  <2> HIDE DEF t0
  <2>6. Seen(Observed(t0, q, max), z, 0, max)
    BY <2>2, <2>3, <2>4, <2>5, SeenRun
  <2> QED
    BY <1>4, <1>6, <1>8, <2>6
<1>9. CASE start # 0
  <2> DEFINE o == start - 1
             v == SubSeq(z, 1, o)
             w == SubSeq(b, start, Len(b))
  <2>1. start \in Nat /\ start >= 1 /\ o \in Nat /\ o <= n /\ start = o + 1 /\ start \in 1 .. Len(b) + 1
    BY <1>1, <1>2, <1>4, <1>9
  <2>2. /\ w \in Seq(Byte) /\ Len(w) = n - o
        /\ \A i \in 1 .. n - o : w[i] = b[o + i]
    <3>1. w \in Seq(Byte) /\ Len(w) = Len(b) - start + 1 /\ \A i \in 1 .. Len(b) - start + 1 : w[i] = b[start - 1 + i]
      BY <2>1, RestIs
    <3>2. Len(b) - start + 1 = n - o
      BY <1>1, <1>2, <2>1
    <3> HIDE DEF w
    <3> QED
      BY <3>1, <3>2
  <2> HIDE DEF w
  <2>3. At(w, o) \in Seq(R) /\ Len(At(w, o)) = n - o
        /\ \A j \in 1 .. n - o : At(w, o)[j].c = w[j] /\ At(w, o)[j].n = o + j
    <3>1. w \in Seq(Byte) /\ o \in Nat
      BY <2>1, <2>2
    <3>2. /\ At(w, o) \in Seq([ c : Byte, n : Nat ]) /\ Len(At(w, o)) = Len(w)
          /\ \A j \in 1 .. Len(w) : At(w, o)[j].c = w[j] /\ At(w, o)[j].n = o + j
      BY <3>1, AtIs
    <3> QED
      BY <2>2, <3>2
  <2>4. q = At(w, o) \o At(d, Len(b))
    BY <1>9 DEF w
  <2>5. v \in Seq(Byte) /\ Len(v) = o
    BY <1>1, <2>1
  <2> HIDE DEF v, o, R, q
  <2>6. Seen(t0, v, start, max)
    <3>1. First(v, start, Ends) = start
      <4>1. start \in start .. Len(v) + 1 /\ ~(start <= Len(v)) /\ \A j \in start .. start - 1 : FALSE
        BY <2>1, <2>5
      <4> QED
        BY <2>1, <2>5, <4>1, FirstEquals
    <3>2. start > Len(v) /\ start > 0 /\ ~(\E i \in start .. Len(v) : v[i] = ":")
      BY <2>1, <2>5
    <3>3. t0.initialized = TRUE /\ t0.active = TRUE /\ t0.credentials = FALSE /\ t0.resolved = FALSE /\ t0.colonSeen = FALSE
      BY <3>2
    <3> HIDE DEF t0
    <3> QED
      BY <1>5, <1>9, <3>1, <3>2, <3>3 DEF Seen
  <2>7. q \in Seq(R) /\ Len(q) = Len(z) - o
    <3> DEFINE e == At(w, o)
               f == At(d, Len(b))
    <3> HIDE DEF e, f
    <3>2. e \in Seq(R) /\ f \in Seq(R) /\ q = e \o f /\ Len(e) = n - o /\ Len(f) = Len(d)
      BY <1>7, <2>3, <2>4 DEF e, f
    <3>1. Len(q) = (n - o) + Len(d) /\ q \in Seq(R)
      <4>1. e \o f \in Seq(R) /\ Len(e \o f) = Len(e) + Len(f)
        BY <3>2, ConcatProperties
      <4> QED
        BY <3>2, <4>1
    <3> QED
      BY <1>1, <1>3, <2>1, <3>1
  <2>8. ASSUME NEW k \in 1 .. Len(q) PROVE q[k].c = z[o + k] /\ q[k].n = o + k
    <3>1. q[k] = IF k <= n - o THEN At(w, o)[k] ELSE At(d, Len(b))[k - (n - o)]
      <4> DEFINE e == At(w, o)
                 f == At(d, Len(b))
      <4> HIDE DEF e, f
      <4>2. e \in Seq(R) /\ f \in Seq(R) /\ q = e \o f /\ Len(e) = n - o /\ Len(f) = Len(d)
        BY <1>7, <2>3, <2>4 DEF e, f
      <4>1. k \in 1 .. Len(e) + Len(f)
        BY <1>1, <1>3, <2>1, <2>7, <4>2
      <4>3. q[k] = IF k <= Len(e) THEN e[k] ELSE f[k - Len(e)]
        BY <4>1, <4>2, ConcatProperties
      <4> QED
        BY <4>2, <4>3 DEF e, f
    <3>2. CASE k <= n - o
      <4>1. k \in 1 .. n - o /\ o + k \in 1 .. n
        BY <1>1, <2>1, <3>2
      <4>2. q[k].c = w[k] /\ q[k].n = o + k
        BY <2>3, <3>1, <3>2, <4>1
      <4> QED
        BY <1>2, <2>2, <4>1, <4>2
    <3>3. CASE ~(k <= n - o)
      <4> DEFINE j == k - (n - o)
      <4>1. j \in 1 .. Len(d) /\ n + j = o + k /\ j \in 1 .. Len(z) - n
        BY <1>1, <1>3, <2>1, <2>7, <3>3
      <4>2. q[k] = At(d, Len(b))[j]
        BY <3>1, <3>3
      <4> HIDE DEF j
      <4>3. q[k].c = d[j] /\ q[k].n = n + j
        BY <1>7, <4>1, <4>2
      <4> QED
        BY <1>3, <4>1, <4>3
    <3> QED
      BY <3>2, <3>3
  <2>9. o \in 0 .. Len(z) /\ start \in 0 .. o + 1
    BY <1>1, <2>1
  <2> HIDE DEF t0
  <2>10. Seen(Observed(t0, q, max), z, start, max)
    <3>1. \A k \in 1 .. Len(q) : q[k].c = z[o + k] /\ (max < q[k].n <=> max < o + k)
      BY <2>8
    <3>2. Seen(t0, SubSeq(z, 1, o), start, max)
      BY <2>6 DEF v
    <3> QED
      BY <2>7, <2>9, <3>1, <3>2, SeenRun
  <2> QED
    BY <1>4, <1>6, <2>10
<1> QED
  BY <1>8, <1>9

\* ... and then in what is dropped later.
LEMMA LaterDropped ==
    ASSUME NEW y \in Seq(Byte), NEW d \in Seq(Byte), NEW max \in Nat, max < Len(y),
           NEW b, Len(b) \in Nat, max <= Len(b),
           NEW tail, Seen(tail, y, UrlAuthorityAtBoundary(y, max), max)
    PROVE  Seen(ObserveDropped(tail, b, d, max), y \o d, UrlAuthorityAtBoundary(y \o d, max), max)
<1> DEFINE z == y \o d
           start == UrlAuthorityAtBoundary(y, max)
           q == At(d, Len(b))
           R == [ c : Byte, n : Nat ]
<1>1. Len(y) \in Nat /\ Len(d) \in Nat
  OBVIOUS
<1>2. z \in Seq(Byte) /\ Len(z) = Len(y) + Len(d) /\ (\A i \in 1 .. Len(y) : z[i] = y[i])
      /\ (\A i \in 1 .. Len(d) : z[Len(y) + i] = d[i])
  BY Behind
<1>3. SubSeq(z, 1, Len(y)) = y
  <2> HIDE DEF z
  <2> DEFINE v == SubSeq(z, 1, Len(y))
  <2>1. v \in Seq(Byte) /\ Len(v) = Len(y) /\ \A i \in 1 .. Len(y) : v[i] = y[i]
    BY <1>1, <1>2
  <2> HIDE DEF v
  <2>2. v = y
    BY <2>1, SeqEqual
  <2> QED
    BY <2>2 DEF v
<1> HIDE DEF z
<1>4. UrlAuthorityAtBoundary(z, max) = start /\ start \in 0 .. max
  <2>1. max \in 0 .. Len(y) /\ Len(z) >= max /\ \A i \in 1 .. max : z[i] = y[i]
    BY <1>1, <1>2
  <2> QED
    BY <1>2, <2>1, AuthorityIs
<1> HIDE DEF start
<1>5. q \in Seq(R) /\ Len(q) = Len(d) /\ \A j \in 1 .. Len(d) : q[j].c = d[j] /\ q[j].n = Len(b) + j
  BY AtIs
<1>6. ObserveDropped(tail, b, d, max) = Observed(tail, q, max)
  <2>1. tail \in Tails /\ tail.initialized
    BY DEF Seen
  <2>2. [tail EXCEPT !.initialized = TRUE, !.active = IF tail.initialized THEN @ ELSE UrlAuthorityAtBoundary(b, max) > 0] = tail
    BY <2>1 DEF Tails
  <2>3. ObserveDropped(tail, b, d, max) =
           FoldLeft(LAMBDA s, c : ObserveByte(s, c, max),
                    [tail EXCEPT !.initialized = TRUE, !.active = IF tail.initialized THEN @ ELSE UrlAuthorityAtBoundary(b, max) > 0],
                    <<>> \o At(d, Len(b)))
    BY <2>1 DEF ObserveDropped, At
  <2>4. <<>> \o q = q
    <3> HIDE DEF q, R
    <3> QED
      BY <1>5
  <2> QED
    BY <2>2, <2>3, <2>4 DEF Observed
<1> HIDE DEF q, R
<1>7. ASSUME NEW k \in 1 .. Len(q) PROVE q[k].c = z[Len(y) + k] /\ (max < q[k].n <=> max < Len(y) + k)
  BY <1>1, <1>2, <1>5
<1>8. Len(y) \in 0 .. Len(z) /\ start \in 0 .. Len(y) + 1 /\ Len(q) = Len(z) - Len(y)
  BY <1>1, <1>2, <1>4, <1>5
<1>9. Seen(Observed(tail, q, max), z, start, max)
  <2>1. Seen(tail, SubSeq(z, 1, Len(y)), start, max)
    BY <1>3 DEF start
  <2> QED
    BY <1>2, <1>5, <1>7, <1>8, <2>1, SeenRun
<1> QED
  BY <1>4, <1>6, <1>9 DEF z

\* A write to the StreamRedactor.
LEMMA WriteTracks ==
    ASSUME NEW y \in Seq(Byte), NEW p \in Seq(Byte), NEW max \in Nat, NEW s, Tracks(s, y, max)
    PROVE  Tracks(StreamWrite(s, p, max), y \o p, max)
<1> DEFINE all == max + Lookahead
           sb == s.buffer
           st == s.truncated
           tl == s.tail
           z == y \o p
           room == max + Lookahead - Len(sb)
           kept == SubSeq(p, 1, Min({Len(p), room}))
           dropped == SubSeq(p, Len(kept) + 1, Len(p))
           b == sb \o kept
           w == StreamWrite(s, p, max)
<1>1. Len(y) \in Nat /\ Len(p) \in Nat /\ all \in Nat /\ max <= all
  BY RedactorAssumption
<1>2. z \in Seq(Byte) /\ Len(z) = Len(y) + Len(p) /\ (\A i \in 1 .. Len(y) : z[i] = y[i])
      /\ (\A i \in 1 .. Len(p) : z[Len(y) + i] = p[i])
  BY Behind
<1>8. Len(z) = Len(y) + Len(p) /\ Len(z) \in Nat
  <2> HIDE DEF z
  <2> QED
    BY <1>1, <1>2
<1>3. /\ w.buffer = b /\ w.truncated \in BOOLEAN /\ (w.truncated <=> (st \/ Len(sb) + Len(p) > max))
      /\ w.tail = IF dropped = <<>> THEN tl ELSE ObserveDropped(tl, b, dropped, max)
  <2>1. w.buffer = b
    BY DEF StreamWrite
  <2>2. w.tail = IF dropped = <<>> THEN tl ELSE ObserveDropped(tl, b, dropped, max)
    BY DEF StreamWrite
  <2>3. w.truncated = (st \/ Len(sb) + Len(p) > max)
    BY DEF StreamWrite
  <2>4. w.truncated \in BOOLEAN /\ (w.truncated <=> (st \/ Len(sb) + Len(p) > max))
    <3> HIDE DEF w, st, sb
    <3> QED
      BY <2>3
  <2> HIDE DEF w, b, dropped, st, tl, sb
  <2> QED
    BY <2>1, <2>2, <2>4
<1>4. /\ sb = SubSeq(y, 1, Min({Len(y), all})) /\ st \in BOOLEAN /\ (st <=> Len(y) > max)
      /\ IF Len(y) <= all THEN tl = NewStream.tail ELSE Seen(tl, y, UrlAuthorityAtBoundary(y, max), max)
  BY DEF Tracks
<1>5. Min({Len(y), all}) = (IF Len(y) <= all THEN Len(y) ELSE all) /\ Min({Len(z), all}) = (IF Len(z) <= all THEN Len(z) ELSE all)
  BY <1>1, <1>2, MinOfTwo, SMTT(30)
<1> HIDE DEF w, all, z, sb, st, tl
<1>6. CASE Len(y) <= all
  <2>1. sb = y /\ Len(sb) = Len(y) /\ tl = NewStream.tail
    BY <1>1, <1>4, <1>5, <1>6
  <2>2. room \in Nat /\ room = all - Len(y)
    BY <1>1, <1>6, <2>1, RedactorAssumption DEF all
  <2> HIDE DEF room
  <2> DEFINE k == Min({Len(p), room})
  <2>3. k = (IF Len(p) <= room THEN Len(p) ELSE room) /\ k \in 0 .. Len(p)
    <3>1. k = IF Len(p) <= room THEN Len(p) ELSE room
      BY <1>1, <2>2, MinOfTwo
    <3> HIDE DEF k
    <3> QED
      BY <1>1, <2>2, <3>1
  <2>4. kept \in Seq(Byte) /\ Len(kept) = k /\ \A i \in 1 .. k : kept[i] = p[i]
    <3> HIDE DEF k
    <3>1. SubSeq(p, 1, k) \in Seq(Byte) /\ Len(SubSeq(p, 1, k)) = k /\ \A i \in 1 .. k : SubSeq(p, 1, k)[i] = p[i]
      BY <1>1, <2>3
    <3> QED
      BY <3>1 DEF k
  <2> HIDE DEF kept, room, k
  <2>5. b \in Seq(Byte) /\ Len(b) = Len(y) + k /\ (\A i \in 1 .. Len(y) : b[i] = y[i])
        /\ (\A i \in 1 .. k : b[Len(y) + i] = kept[i])
    BY <2>1, <2>4, Behind
  <2> HIDE DEF b
  <2>6. b = SubSeq(z, 1, Len(y) + k)
    <3> DEFINE n == Len(y) + k
               v == SubSeq(z, 1, n)
    <3>1. n \in Nat /\ n <= Len(z)
      BY <1>1, <1>2, <2>3
    <3> HIDE DEF n
    <3>2. v \in Seq(Byte) /\ Len(v) = n /\ \A i \in 1 .. n : v[i] = z[i]
      BY <1>2, <3>1
    <3> HIDE DEF v
    <3>3. ASSUME NEW i \in 1 .. n PROVE b[i] = v[i]
      <4>1. CASE i <= Len(y)
        BY <1>1, <1>2, <2>5, <3>2, <4>1
      <4>2. CASE ~(i <= Len(y))
        <5> DEFINE j == i - Len(y)
        <5>1. j \in 1 .. k /\ j \in 1 .. Len(p) /\ Len(y) + j = i
          BY <1>1, <2>3, <4>2 DEF n
        <5> HIDE DEF j
        <5>2. b[i] = p[j] /\ z[i] = p[j]
          BY <1>2, <2>4, <2>5, <5>1
        <5> QED
          BY <3>2, <5>2
      <4> QED
        BY <4>1, <4>2
    <3>4. Len(b) = n
      BY <2>5 DEF n
    <3>5. b = v
      BY <2>5, <3>2, <3>3, <3>4, SeqEqual
    <3> QED
      BY <3>5 DEF v, n
  <2>7. Len(y) + k = Min({Len(z), all})
    BY <1>1, <1>2, <1>5, <1>6, <2>2, <2>3
  <2>8. w.truncated <=> Len(z) > max
    <3>1. w.truncated <=> (Len(y) > max \/ Len(y) + Len(p) > max)
      BY <1>3, <1>4, <2>1
    <3> QED
      BY <1>1, <1>8, <3>1
  <2>9. dropped = SubSeq(p, k + 1, Len(p)) /\ k + 1 \in 1 .. Len(p) + 1
    BY <1>1, <2>3, <2>4
  <2>10. dropped \in Seq(Byte) /\ Len(dropped) = Len(p) - k /\ (dropped = <<>> <=> k = Len(p))
         /\ \A i \in 1 .. Len(p) - k : dropped[i] = p[k + i]
    <3> DEFINE m == k + 1
               r == SubSeq(p, m, Len(p))
    <3>1. m \in 1 .. Len(p) + 1 /\ dropped = r
      BY <2>9
    <3> HIDE DEF m
    <3>2. r \in Seq(Byte) /\ Len(r) = Len(p) - m + 1 /\ (r = <<>> <=> m = Len(p) + 1)
          /\ \A i \in 1 .. Len(p) - m + 1 : r[i] = p[m - 1 + i]
      BY <3>1, RestIs
    <3> HIDE DEF r, dropped
    <3>3. Len(p) - m + 1 = Len(p) - k /\ (m = Len(p) + 1 <=> k = Len(p)) /\ m - 1 = k
      BY <1>1, <2>3 DEF m
    <3> QED
      BY <3>1, <3>2, <3>3
  <2> HIDE DEF dropped
  <2>11. CASE Len(z) <= all
    <3>1. dropped = <<>>
      BY <1>1, <1>2, <2>2, <2>3, <2>10, <2>11
    <3> QED
      BY <1>3, <2>1, <2>6, <2>7, <2>8, <2>11, <3>1 DEF Tracks, all, z, w
  <2>12. CASE ~(Len(z) <= all)
    <3>1. k = room /\ k < Len(p) /\ Len(y) + k = all /\ all \in 0 .. Len(z) /\ all < Len(z) /\ Len(z) - all = Len(p) - k
      <4> DEFINE lz == Len(z)
                 ly == Len(y)
                 lp == Len(p)
      <4>1. lz = ly + lp /\ ly \in Nat /\ lp \in Nat /\ all \in Nat /\ room = all - ly /\ ~(lz <= all)
            /\ k = IF lp <= room THEN lp ELSE room
        BY <1>1, <1>8, <2>2, <2>3, <2>12
      <4> HIDE DEF lz, ly, lp
      <4>2. k = room /\ k < lp /\ ly + k = all
        BY <4>1
      <4>3. all \in 0 .. lz /\ all < lz /\ lz - all = lp - k
        BY <4>1, <4>2
      <4> QED
        BY <4>2, <4>3 DEF lz, ly, lp
    <3>2. dropped # <<>>
      BY <1>1, <2>3, <2>10, <3>1
    <3>3. w.tail = ObserveDropped(NewStream.tail, b, dropped, max)
      BY <1>3, <2>1, <3>2
    <3>4. b = SubSeq(z, 1, all)
      BY <2>6, <3>1
    <3>5. dropped = SubSeq(z, all + 1, Len(z))
      <4> DEFINE m == all + 1
                 r == SubSeq(z, m, Len(z))
      <4>1. m \in 1 .. Len(z) + 1
        BY <1>1, <3>1
      <4> HIDE DEF m
      <4>2. r \in Seq(Byte) /\ Len(r) = Len(z) - m + 1 /\ \A i \in 1 .. Len(z) - m + 1 : r[i] = z[m - 1 + i]
        BY <1>2, <4>1, RestIs
      <4> HIDE DEF r
      <4>3. Len(z) - m + 1 = Len(p) - k /\ m - 1 = Len(y) + k
        <5> DEFINE lz == Len(z)
                   ly == Len(y)
                   lp == Len(p)
        <5>1. lz = ly + lp /\ ly \in Nat /\ lp \in Nat /\ all \in Nat /\ ly + k = all /\ lz - all = lp - k /\ k \in Nat
          <6>1. k \in Nat
            BY <1>1, <2>3
          <6> QED
            BY <1>1, <1>8, <3>1, <6>1
        <5> HIDE DEF lz, ly, lp
        <5>2. lz - m + 1 = lp - k /\ m - 1 = ly + k
          BY <5>1 DEF m
        <5> QED
          BY <5>2 DEF lz, ly, lp
      <4>4. ASSUME NEW i \in 1 .. Len(p) - k PROVE dropped[i] = r[i]
        <5>1. k + i \in 1 .. Len(p) /\ Len(y) + (k + i) = m - 1 + i
          BY <1>1, <2>3, <3>1, <4>3
        <5>2. z[m - 1 + i] = p[k + i]
          BY <1>2, <5>1
        <5> QED
          BY <2>10, <4>2, <4>3, <5>2
      <4>5. dropped = r
        BY <2>10, <4>2, <4>3, <4>4, SeqEqual
      <4> QED
        BY <4>5 DEF r, m
    <3>6. Seen(w.tail, z, UrlAuthorityAtBoundary(z, max), max)
      <4>1. z \in Seq(Byte) /\ b \in Seq(Byte) /\ dropped \in Seq(Byte)
        BY <1>2, <2>5, <2>10
      <4>2. Seen(ObserveDropped(NewStream.tail, b, dropped, max), z, UrlAuthorityAtBoundary(z, max), max)
        BY <1>1, <3>1, <3>4, <3>5, <4>1, FirstDropped
      <4> QED
        BY <3>3, <4>2
    <3> QED
      BY <1>3, <2>6, <2>7, <2>8, <2>12, <3>6 DEF Tracks, all, z, w
  <2> QED
    BY <2>11, <2>12
<1>7. CASE ~(Len(y) <= all)
  <2>1. sb = SubSeq(y, 1, all) /\ all < Len(y) /\ max < Len(y) /\ Seen(tl, y, UrlAuthorityAtBoundary(y, max), max)
    <3>1. all < Len(y) /\ max < Len(y)
      BY <1>1, <1>7
    <3>2. Min({Len(y), all}) = all
      BY <1>5, <1>7
    <3> QED
      BY <1>4, <1>7, <3>1, <3>2
  <2>2. sb \in Seq(Byte) /\ Len(sb) = all /\ \A i \in 1 .. all : sb[i] = y[i]
    BY <1>1, <2>1
  <2>3. room = 0
    BY <1>1, <2>2, RedactorAssumption DEF all
  <2>4. Min({Len(p), room}) = 0
    BY <1>1, <2>3, MinOfTwo
  <2>5. kept = <<>>
    <3>1. kept = SubSeq(p, 1, 0)
      BY <2>4
    <3>2. SubSeq(p, 1, 0) = <<>>
      OBVIOUS
    <3> QED
      BY <3>1, <3>2
  <2> HIDE DEF kept
  <2>6. b = sb
    BY <2>2, <2>5
  <2>7. dropped = p
    <3>1. Len(kept) + 1 = 1
      BY <2>5
    <3>2. dropped = SubSeq(p, 1, Len(p))
      BY <3>1
    <3>3. SubSeq(p, 1, Len(p)) = p
      OBVIOUS
    <3> QED
      BY <3>2, <3>3
  <2> HIDE DEF kept, dropped, room, b
  <2>8. ~(Len(z) <= all) /\ Len(z) > max
    BY <1>1, <1>2, <1>7
  <2>9. w.buffer = SubSeq(z, 1, Min({Len(z), all}))
    <3> DEFINE v == SubSeq(z, 1, all)
    <3>1. v \in Seq(Byte) /\ Len(v) = all /\ \A i \in 1 .. all : v[i] = z[i]
      BY <1>1, <1>2, <2>8
    <3> HIDE DEF v
    <3>2. \A i \in 1 .. all : sb[i] = v[i]
      <4>1. \A i \in 1 .. all : i \in 1 .. Len(y)
        BY <1>1, <2>1
      <4> QED
        BY <1>2, <2>2, <3>1, <4>1
    <3>3. sb = v
      BY <2>2, <3>1, <3>2, SeqEqual
    <3> QED
      BY <1>3, <1>5, <2>6, <2>8, <3>3 DEF v
  <2>10. w.truncated <=> Len(z) > max
    BY <1>1, <1>3, <1>4, <2>1, <2>8
  <2>11. Seen(w.tail, z, UrlAuthorityAtBoundary(z, max), max)
    <3>1. CASE p = <<>>
      <4>1. z = y
        BY <3>1 DEF z
      <4> QED
        BY <1>3, <2>1, <2>7, <3>1, <4>1
    <3>2. CASE p # <<>>
      <4>1. w.tail = ObserveDropped(tl, sb, p, max)
        BY <1>3, <2>6, <2>7, <3>2
      <4>2. Len(sb) \in Nat /\ max <= Len(sb)
        BY <1>1, <2>2
      <4> QED
        BY <2>1, <4>1, <4>2, LaterDropped DEF z
    <3> QED
      BY <3>1, <3>2
  <2> QED
    BY <2>8, <2>9, <2>10, <2>11 DEF Tracks, all, z, w
<1> QED
  BY <1>6, <1>7

\* What the stream redactor of a job knows, and what it showed.
StreamInv ==
    job.kind = "stream" =>
        /\ Tracks(stream, SubSeq(job.stdout, 1, sent.stdout), job.limit)
        /\ redacted # Pending => redacted = [s \in {"stdout"} |-> RedactString(job.stdout, job.limit)]

\* A chunk is written to the stream.
LEMMA ChunkTracks ==
    ASSUME BufferInv, StreamInv, NEW k \in 1 .. Len(job.stdout), StreamChunk(k)
    PROVE  StreamInv'
<1> DEFINE y == SubSeq(job.stdout, 1, sent.stdout)
           p == Chunk("stdout", k)
           n == sent.stdout
<1>1. /\ job.kind = "stream" /\ n + k <= Len(job.stdout) /\ sent' = [sent EXCEPT !.stdout = @ + k]
      /\ stream' = StreamWrite(stream, p, job.limit) /\ job' = job /\ redacted' = redacted
  BY DEF StreamChunk
<1>2. job.stdout \in Seq(Byte) /\ job.limit \in Nat /\ n \in Nat /\ k \in Nat /\ k > 0 /\ Len(job.stdout) \in Nat
      /\ DOMAIN sent = Streams
  BY OutputAssumption DEF BufferInv, Streams
<1>3. sent'.stdout = n + k
  BY <1>1, <1>2 DEF Streams
<1>4. p \in Seq(Byte) /\ Len(p) = k /\ \A i \in 1 .. k : p[i] = job.stdout[n + i]
  <2>1. \A i \in (n + 1)..(n + k) : job.stdout[i] \in Byte
    BY <1>1, <1>2
  <2>2. n + 1 \in Int /\ n + k \in Int
    BY <1>2
  <2>3. /\ p \in Seq(Byte)
        /\ Len(p) = IF n + 1 <= n + k THEN (n + k) - (n + 1) + 1 ELSE 0
        /\ \A i \in 1 .. (n + k) - (n + 1) + 1 : p[i] = job.stdout[(n + 1) + i - 1]
    BY <2>1, <2>2, SubSeqProperties DEF Chunk
  <2> HIDE DEF p
  <2>4. Len(p) = k
    BY <1>2, <2>3
  <2>5. ASSUME NEW i \in 1 .. k PROVE p[i] = job.stdout[n + i]
    <3>1. i \in 1 .. (n + k) - (n + 1) + 1 /\ (n + 1) + i - 1 = n + i
      BY <1>2
    <3> QED
      BY <2>3, <3>1
  <2> QED
    BY <2>3, <2>4, <2>5
<1> HIDE DEF p
<1>5. y \in Seq(Byte)
  BY <1>1, <1>2
<1>6. p = SubSeq(p, 1, k)
  BY <1>4
<1>7. y \o p = SubSeq(job.stdout, 1, n + k)
  <2> DEFINE q == Chunk("stdout", k)
  <2>1. p = q
    BY DEF p
  <2>2. y \o SubSeq(q, 1, k) = SubSeq(job.stdout, 1, n + k)
    BY <1>1, <1>2, PartsJoin DEF Chunk
  <2> QED
    BY <1>6, <2>1, <2>2
<1>8. Tracks(stream, y, job.limit)
  BY <1>1 DEF StreamInv
<1> HIDE DEF y
<1>9. Tracks(stream', y \o p, job.limit)
  BY <1>1, <1>2, <1>4, <1>5, <1>8, WriteTracks
<1>10. Tracks(stream', SubSeq(job.stdout, 1, sent'.stdout), job.limit)
  BY <1>3, <1>7, <1>9
<1> QED
  BY <1>1, <1>10 DEF StreamInv

\* Every step keeps what the stream redactor knows.
LEMMA NextStream ==
    ASSUME BufferInv, StreamInv, Next
    PROVE  StreamInv'
<1>1. CASE \E k \in 1 .. Len(job.stdout) : StreamChunk(k)
  BY <1>1, ChunkTracks
<1>2. CASE CloseStream
  <2>1. /\ job.kind = "stream" /\ Written /\ redacted' = [s \in {"stdout"} |-> StreamClose(stream, job.limit)]
        /\ job' = job /\ sent' = sent /\ stream' = stream
    BY <1>2 DEF CloseStream
  <2>2. job.stdout \in Seq(Byte) /\ job.limit \in Nat /\ sent.stdout = Len(job.stdout)
    BY <2>1, OutputAssumption DEF BufferInv, Streams, Written
  <2>3. SubSeq(job.stdout, 1, sent.stdout) = job.stdout
    BY <2>2
  <2>4. Tracks(stream, SubSeq(job.stdout, 1, sent.stdout), job.limit)
    BY <2>1 DEF StreamInv
  <2>5. StreamClose(stream, job.limit) = RedactString(job.stdout, job.limit)
    BY <2>2, <2>3, <2>4, ClosedIs
  <2> QED
    BY <2>1, <2>4, <2>5 DEF StreamInv
<1>3. CASE \/ \E s \in Streams : \E k \in 1 .. Len(job[s]) : Write(s, k)
           \/ Collect
  <2>1. job' = job /\ job.kind = "command"
    BY <1>3 DEF Write, Collect
  <2> QED
    BY <2>1 DEF StreamInv
<1>4. CASE Respond \/ \E other \in Others : RespondBatch(other)
  <2>1. job' = job /\ job.kind = "command"
    BY <1>4 DEF Respond, RespondBatch
  <2> QED
    BY <2>1 DEF StreamInv
<1> QED
  BY <1>1, <1>2, <1>3, <1>4 DEF Next

\* What the stream redactor knows is right in every reachable state.
THEOREM StreamInvariance == Spec => []StreamInv
<1>1. Init => StreamInv
  <2> SUFFICES ASSUME Init PROVE StreamInv
    OBVIOUS
  <2>1. job \in Jobs /\ sent = [s \in Streams |-> 0] /\ stream = NewStream /\ redacted = Pending
    BY DEF Init
  <2>2. job.stdout \in Seq(Byte) /\ job.limit \in Nat /\ sent.stdout = 0
    BY <2>1, OutputAssumption DEF Streams
  <2> DEFINE y == SubSeq(job.stdout, 1, sent.stdout)
  <2>3. y = <<>> /\ Len(y) = 0
    BY <2>2
  <2> HIDE DEF y
  <2>4. job.limit + Lookahead \in Nat /\ Lookahead \in Nat
    BY <2>2, RedactorAssumption
  <2>5. Min({0, job.limit + Lookahead}) = 0
    BY <2>4, MinOfTwo
  <2>6. NewStream.buffer = <<>> /\ NewStream.truncated = FALSE
    BY DEF NewStream
  <2>7. SubSeq(y, 1, 0) = <<>> /\ (0 > job.limit) = FALSE /\ 0 <= job.limit + Lookahead
    BY <2>2, <2>3, <2>4
  <2>8. Tracks(stream, y, job.limit)
    BY <2>1, <2>3, <2>5, <2>6, <2>7 DEF Tracks
  <2> QED
    BY <2>1, <2>8 DEF StreamInv, y
<1>2. IInv /\ StreamInv /\ [Next]_vars => StreamInv'
  <2> SUFFICES ASSUME IInv, StreamInv, [Next]_vars PROVE StreamInv'
    OBVIOUS
  <2>1. CASE Next
    BY <2>1, NextStream DEF IInv
  <2>2. CASE UNCHANGED vars
    BY <2>2 DEF vars, StreamInv
  <2> QED
    BY <2>1, <2>2
<1> QED
  BY <1>1, <1>2, Invariance, PTL DEF Spec

\* However the output is cut into chunks, a StreamRedactor shows what RedactString shows of the
\* whole: the search for the end of an authority, over bytes that are not kept, finds the
\* credentials that the whole text has.
THEOREM StreamsAgree == Spec => []StreamAgrees
<1>1. StreamInv => StreamAgrees
  BY DEF StreamInv, StreamAgrees
<1> QED
  BY <1>1, StreamInvariance, PTL

-----------------------------------------------------------------------------
(* Concatenation. *)

\* The function by which FlattenSeq is defined.
Flattens(seqs, f) == f = [ i \in 1..Len(seqs) |-> IF i = 1 THEN seqs[i] ELSE f[i - 1] \o seqs[i] ]

\* There is such a function, so that FlattenSeq is its last value.
LEMMA FlattenIs ==
    ASSUME NEW seqs, Len(seqs) \in Nat \ {0}
    PROVE  \E f : Flattens(seqs, f) /\ FlattenSeq(seqs) = f[Len(seqs)]
<1> DEFINE F(f, n) == f = [ i \in 1..n |-> IF i = 1 THEN seqs[i] ELSE f[i - 1] \o seqs[i] ]
           S == { n \in Nat : \E f : F(f, n) }
<1>1. 0 \in S
  <2>1. F(<<>>, 0)
    OBVIOUS
  <2> QED
    BY <2>1
<1>2. ASSUME NEW n \in Nat, n \in S PROVE n + 1 \in S
  <2>1. PICK f : F(f, n)
    BY <1>2
  <2> DEFINE g == [ i \in 1..(n + 1) |-> IF i = n + 1 THEN IF i = 1 THEN seqs[i] ELSE f[i - 1] \o seqs[i] ELSE f[i] ]
  <2>2. \A i \in 1..n : f[i] = IF i = 1 THEN seqs[i] ELSE f[i - 1] \o seqs[i]
    BY <2>1
  <2>3. \A i \in 1..n : i \in 1..(n + 1) /\ i # n + 1
    OBVIOUS
  <2>4. \A i \in 1..n : g[i] = f[i]
    BY <2>3
  <2>5. ASSUME NEW i \in 1..(n + 1) PROVE g[i] = IF i = 1 THEN seqs[i] ELSE g[i - 1] \o seqs[i]
    <3>1. i # 1 => i - 1 \in 1..n
      OBVIOUS
    <3>2. CASE i \in 1..n
      <4> HIDE DEF g
      <4> QED
        BY <2>2, <2>4, <3>1, <3>2
    <3>3. CASE i = n + 1
      <4>1. g[i] = IF i = 1 THEN seqs[i] ELSE f[i - 1] \o seqs[i]
        BY <3>3
      <4> HIDE DEF g
      <4> QED
        BY <2>4, <3>1, <4>1
    <3> QED
      BY <3>2, <3>3
  <2>6. F(g, n + 1)
    BY <2>5
  <2>7. \E h : F(h, n + 1)
    BY <2>6
  <2> HIDE DEF F
  <2> QED
    BY <2>7
<1>3. Nat \subseteq S
  <2> HIDE DEF S
  <2> QED
    BY <1>1, <1>2, SetInduction
<1>4. \E f : Flattens(seqs, f)
  BY <1>3 DEF Flattens
<1> DEFINE f == CHOOSE f : f = [ i \in 1..Len(seqs) |-> IF i = 1 THEN seqs[i] ELSE f[i - 1] \o seqs[i] ]
<1>5. Flattens(seqs, f)
  BY <1>4 DEF Flattens
<1>6. FlattenSeq(seqs) = f[Len(seqs)]
  BY DEF FlattenSeq
<1> QED
  BY <1>5, <1>6

\* Where the pieces q are in their concatenation r: piece i ends at off[i].
Lays(q, off, r) ==
    /\ off[0] = 0 /\ Len(r) = off[Len(q)]
    /\ \A i \in 0 .. Len(q) : off[i] \in Nat
    /\ \A i \in 1 .. Len(q) : off[i] = off[i - 1] + Len(q[i])
    /\ \A i \in 1 .. Len(q) : \A j \in 1 .. Len(q[i]) : r[off[i - 1] + j] = q[i][j]

\* The pieces are laid out one after the other.
LEMMA FlattenLays ==
    ASSUME NEW T, NEW q \in Seq(Seq(T))
    PROVE  FlattenSeq(q) \in Seq(T) /\ \E off : Lays(q, off, FlattenSeq(q))
<1>1. Len(q) \in Nat /\ \A i \in 1 .. Len(q) : q[i] \in Seq(T) /\ Len(q[i]) \in Nat
  OBVIOUS
<1>2. CASE Len(q) = 0
  <2>1. FlattenSeq(q) = q /\ q = <<>>
    BY <1>2 DEF FlattenSeq
  <2> DEFINE off == [ i \in 0 .. 0 |-> 0 ]
  <2>2. off[0] = 0
    OBVIOUS
  <2>3. \A i \in 0 .. 0 : off[i] \in Nat
    OBVIOUS
  <2> HIDE DEF off
  <2>4. Lays(q, off, q)
    BY <1>2, <2>2, <2>3 DEF Lays
  <2> QED
    BY <2>1, <2>4
<1>3. CASE Len(q) # 0
  <2>1. Len(q) \in Nat \ {0}
    BY <1>1, <1>3
  <2>2. PICK f : Flattens(q, f) /\ FlattenSeq(q) = f[Len(q)]
    BY <2>1, FlattenIs
  <2>3. \A i \in 1 .. Len(q) : f[i] = IF i = 1 THEN q[i] ELSE f[i - 1] \o q[i]
    BY <2>2 DEF Flattens
  <2> DEFINE off == [ i \in 0 .. Len(q) |-> IF i = 0 THEN 0 ELSE Len(f[i]) ]
             P(i) == /\ f[i] \in Seq(T) /\ off[i] = Len(f[i]) /\ off[i] = off[i - 1] + Len(q[i]) /\ off[i - 1] \in Nat
                     /\ \A h \in 1 .. i : off[h] <= off[i]
                     /\ \A h \in 1 .. i : \A j \in 1 .. Len(q[h]) : f[i][off[h - 1] + j] = q[h][j]
             S == { n \in Nat : n \in 1 .. Len(q) => P(n) }
  <2>4. off[0] = 0 /\ \A i \in 1 .. Len(q) : off[i] = Len(f[i])
    BY <1>1
  <2> HIDE DEF off
  <2>5. 0 \in S
    OBVIOUS
  <2>6. ASSUME NEW n \in Nat, \A m \in 0 .. n : m \in S PROVE n + 1 \in S
    <3> SUFFICES ASSUME n + 1 \in 1 .. Len(q) PROVE P(n + 1)
      OBVIOUS
    <3>1. q[n + 1] \in Seq(T) /\ Len(q[n + 1]) \in Nat
      BY <1>1
    <3>2. CASE n = 0
      <4>1. f[1] = q[1] /\ off[1] = Len(q[1]) /\ 1 \in 1 .. Len(q)
        BY <1>1, <2>3, <2>4, <3>2
      <4>2. \A h : h \in 1 .. 1 <=> h = 1
        OBVIOUS
      <4>3. f[1] \in Seq(T) /\ off[1] = off[1 - 1] + Len(q[1]) /\ off[1 - 1] \in Nat
        BY <2>4, <3>1, <3>2, <4>1
      <4>4. \A j \in 1 .. Len(q[1]) : f[1][off[1 - 1] + j] = q[1][j]
        BY <2>4, <3>1, <3>2, <4>1
      <4>5. P(1)
        BY <2>4, <3>1, <3>2, <4>1, <4>2, <4>3, <4>4
      <4>6. n + 1 = 1
        BY <3>2
      <4> HIDE DEF P
      <4> QED
        BY <4>5, <4>6
    <3>3. CASE n # 0
      <4>1. n \in 1 .. Len(q) /\ n + 1 # 1 /\ (n + 1) - 1 = n /\ n \in 0 .. n
        BY <1>1, <3>3
      <4>2. P(n)
        BY <2>6, <4>1
      <4>3. f[n + 1] = f[n] \o q[n + 1]
        BY <2>3, <4>1
      <4> DEFINE a == f[n]
                 b == q[n + 1]
      <4>4. a \in Seq(T) /\ b \in Seq(T) /\ Len(a) = off[n] /\ Len(a) \in Nat /\ Len(b) \in Nat
        BY <3>1, <4>2
      <4> HIDE DEF a, b
      <4>5. a \o b \in Seq(T) /\ Len(a \o b) = Len(a) + Len(b)
            /\ \A i \in 1 .. Len(a) + Len(b) : (a \o b)[i] = IF i <= Len(a) THEN a[i] ELSE b[i - Len(a)]
        BY <4>4, ConcatProperties
      <4>6. f[n + 1] = a \o b
        BY <4>3 DEF a, b
      <4>7. f[n + 1] \in Seq(T) /\ off[n + 1] = Len(f[n + 1]) /\ off[n + 1] = off[n] + Len(b) /\ off[n] \in Nat
        BY <2>4, <4>4, <4>5, <4>6
      <4>8. ASSUME NEW h \in 1 .. n + 1 PROVE off[h] <= off[n + 1]
        <5>1. CASE h \in 1 .. n
          <6>1. off[h] <= off[n] /\ off[h] \in Nat
            <7>1. h \in 1 .. Len(q) /\ h \in 0 .. n
              BY <1>1, <4>1, <5>1
            <7>2. P(h)
              BY <2>6, <7>1
            <7>3. off[h] = Len(f[h]) /\ f[h] \in Seq(T)
              BY <7>2
            <7>4. off[h] \in Nat
              BY <7>3
            <7> QED
              BY <4>2, <5>1, <7>4
          <6> QED
            BY <4>4, <4>7, <6>1
        <5>2. CASE h = n + 1
          BY <4>4, <4>7, <5>2
        <5> QED
          BY <5>1, <5>2
      <4>9. ASSUME NEW h \in 1 .. n + 1, NEW j \in 1 .. Len(q[h]) PROVE f[n + 1][off[h - 1] + j] = q[h][j]
        <5>1. CASE h \in 1 .. n
          <6>1. h \in 1 .. Len(q) /\ h \in 0 .. n
            BY <1>1, <4>1, <5>1
          <6>2. P(h)
            BY <2>6, <6>1
          <6>3. off[h] <= off[n] /\ off[h] = off[h - 1] + Len(q[h]) /\ off[h - 1] \in Nat /\ Len(q[h]) \in Nat
            BY <1>1, <4>2, <5>1, <6>1, <6>2
          <6> DEFINE i == off[h - 1] + j
          <6>4. i \in 1 .. Len(a) + Len(b) /\ i <= Len(a)
            <7> DEFINE k == off[h - 1]
                       l == Len(q[h])
            <7>1. k \in Nat /\ l \in Nat /\ j \in 1 .. l /\ k + l <= Len(a) /\ Len(a) \in Nat /\ Len(b) \in Nat
              BY <4>4, <6>3
            <7> HIDE DEF k, l
            <7>2. k + j \in 1 .. Len(a) + Len(b) /\ k + j <= Len(a)
              BY <7>1
            <7> QED
              BY <7>2 DEF k
          <6>5. a[i] = q[h][j]
            BY <4>2, <5>1 DEF a
          <6> QED
            BY <4>5, <4>6, <6>4, <6>5
        <5>2. CASE h = n + 1
          <6> DEFINE i == off[n] + j
          <6>1. j \in 1 .. Len(b) /\ h - 1 = n
            BY <5>2 DEF b
          <6>2. i \in 1 .. Len(a) + Len(b) /\ ~(i <= Len(a)) /\ i - Len(a) = j
            BY <4>4, <6>1
          <6>3. (a \o b)[i] = b[j]
            BY <4>5, <6>2
          <6> QED
            BY <4>6, <5>2, <6>1, <6>3 DEF b
        <5> QED
          BY <5>1, <5>2
      <4> QED
        BY <4>1, <4>7, <4>8, <4>9 DEF b
    <3> QED
      BY <3>2, <3>3
  <2>7. \A n \in Nat : n \in S
    <3> DEFINE U == { n \in Nat : \A m \in 0 .. n : m \in S }
    <3> HIDE DEF S
    <3>1. 0 \in U
      BY <2>5
    <3>2. ASSUME NEW n \in Nat, n \in U PROVE n + 1 \in U
      <4>1. n + 1 \in S
        BY <2>6, <3>2
      <4>2. \A m \in 0 .. n + 1 : m \in 0 .. n \/ m = n + 1
        OBVIOUS
      <4> QED
        BY <3>2, <4>1, <4>2
    <3>3. Nat \subseteq U
      <4> HIDE DEF U
      <4> QED
        BY <3>1, <3>2, SetInduction
    <3> QED
      BY <3>3
  <2>8. ASSUME NEW i \in 1 .. Len(q) PROVE P(i)
    <3>1. i \in Nat /\ i \in S
      BY <1>1, <2>7
    <3> HIDE DEF P
    <3> QED
      BY <3>1
  <2>9. \A i \in 0 .. Len(q) : off[i] \in Nat
    <3>1. ASSUME NEW i \in 0 .. Len(q) PROVE off[i] \in Nat
      <4>1. CASE i = 0
        BY <2>4, <4>1
      <4>2. CASE i # 0
        <5>1. i \in 1 .. Len(q)
          BY <1>1, <4>2
        <5>2. f[i] \in Seq(T) /\ off[i] = Len(f[i])
          BY <2>8, <5>1
        <5> QED
          BY <5>2
      <4> QED
        BY <4>1, <4>2
    <3> QED
      BY <3>1
  <2>10. P(Len(q)) /\ Len(q) \in 1 .. Len(q)
    BY <2>1, <2>8
  <2>11. Lays(q, off, f[Len(q)])
    <3>1. \A i \in 1 .. Len(q) : off[i] = off[i - 1] + Len(q[i])
      BY <2>8
    <3>2. Len(f[Len(q)]) = off[Len(q)] /\ \A i \in 1 .. Len(q) : \A j \in 1 .. Len(q[i]) : f[Len(q)][off[i - 1] + j] = q[i][j]
      BY <2>10
    <3> QED
      BY <2>4, <2>9, <3>1, <3>2 DEF Lays
  <2> QED
    BY <2>2, <2>10, <2>11
<1> QED
  BY <1>2, <1>3

\* The pieces before a place are not longer.
LEMMA LaysGrow ==
    ASSUME NEW q, Len(q) \in Nat, \A i \in 1 .. Len(q) : Len(q[i]) \in Nat, NEW off, NEW r, Lays(q, off, r),
           NEW i \in 0 .. Len(q), NEW h \in i .. Len(q)
    PROVE  off[i] <= off[h]
<1> DEFINE S == { n \in Nat : i + n <= Len(q) => off[i] <= off[i + n] }
<1>1. /\ \A k \in 0 .. Len(q) : off[k] \in Nat
      /\ \A k \in 1 .. Len(q) : off[k] = off[k - 1] + Len(q[k])
  BY DEF Lays
<1>2. 0 \in S
  <2>1. i + 0 = i
    OBVIOUS
  <2> QED
    BY <1>1, <2>1
<1>3. ASSUME NEW n \in Nat, n \in S PROVE n + 1 \in S
  <2> SUFFICES ASSUME i + (n + 1) <= Len(q) PROVE off[i] <= off[i + (n + 1)]
    OBVIOUS
  <2>1. i \in Nat /\ i + n <= Len(q) /\ i + (n + 1) \in 1 .. Len(q) /\ (i + (n + 1)) - 1 = i + n /\ i + n \in 0 .. Len(q)
    OBVIOUS
  <2>2. off[i] <= off[i + n]
    BY <1>3, <2>1
  <2>3. off[i + (n + 1)] = off[i + n] + Len(q[i + (n + 1)]) /\ Len(q[i + (n + 1)]) \in Nat
    BY <1>1, <2>1
  <2>4. off[i] \in Nat /\ off[i + n] \in Nat
    BY <1>1, <2>1
  <2> QED
    BY <2>2, <2>3, <2>4
<1>4. Nat \subseteq S
  <2> HIDE DEF S
  <2> QED
    BY <1>2, <1>3, SetInduction
<1>5. h - i \in Nat /\ i + (h - i) = h /\ h <= Len(q)
  OBVIOUS
<1>6. h - i \in S
  BY <1>4, <1>5
<1> QED
  BY <1>5, <1>6

\* Every element of the concatenation is in a piece.
LEMMA LaysPlace ==
    ASSUME NEW q, Len(q) \in Nat, \A i \in 1 .. Len(q) : Len(q[i]) \in Nat, NEW off, NEW r, Lays(q, off, r),
           NEW k \in 1 .. Len(r)
    PROVE  \E i \in 1 .. Len(q) : off[i - 1] < k /\ k <= off[i]
<1> DEFINE S == { i \in 0 .. Len(q) : k <= off[i] }
           m == Min(S)
<1>1. /\ off[0] = 0 /\ Len(r) = off[Len(q)]
      /\ \A i \in 0 .. Len(q) : off[i] \in Nat
  BY DEF Lays
<1>2. Len(q) \in S /\ S \subseteq Nat /\ k \in Nat /\ k >= 1
  BY <1>1
<1>3. m \in S /\ \A j \in S : m <= j
  <2> HIDE DEF S
  <2> QED
    BY <1>2, MinIs
<1>4. m \in 0 .. Len(q) /\ k <= off[m]
  BY <1>3
<1>5. m # 0
  BY <1>1, <1>2, <1>4
<1>6. \A j \in 0 .. Len(q) : j < m => ~(k <= off[j])
  <2>1. \A j \in 0 .. Len(q) : k <= off[j] => j \in S
    OBVIOUS
  <2>2. \A j \in S : j \in Nat
    OBVIOUS
  <2> HIDE DEF S
  <2>3. ASSUME NEW j \in 0 .. Len(q), j < m, k <= off[j] PROVE FALSE
    BY <1>3, <1>4, <2>1, <2>3
  <2> QED
    BY <2>3
<1> HIDE DEF m
<1>7. m \in 1 .. Len(q) /\ m - 1 \in 0 .. Len(q) /\ m - 1 < m
  BY <1>4, <1>5
<1>8. ~(k <= off[m - 1]) /\ off[m - 1] \in Nat
  BY <1>1, <1>6, <1>7
<1> QED
  BY <1>2, <1>4, <1>7, <1>8

\* One piece.
LEMMA LaysAt ==
    ASSUME NEW q, Len(q) \in Nat, \A i \in 1 .. Len(q) : Len(q[i]) \in Nat, NEW off, NEW r, Lays(q, off, r),
           NEW i \in 1 .. Len(q)
    PROVE  /\ off[i - 1] \in Nat /\ off[i] \in Nat /\ Len(q[i]) \in Nat /\ off[i] = off[i - 1] + Len(q[i])
           /\ \A j \in 1 .. Len(q[i]) : r[off[i - 1] + j] = q[i][j]
<1>1. i - 1 \in 0 .. Len(q) /\ i \in 0 .. Len(q)
  OBVIOUS
<1>2. /\ \A h \in 0 .. Len(q) : off[h] \in Nat
      /\ \A h \in 1 .. Len(q) : off[h] = off[h - 1] + Len(q[h])
      /\ \A h \in 1 .. Len(q) : \A j \in 1 .. Len(q[h]) : r[off[h - 1] + j] = q[h][j]
  BY DEF Lays
<1> QED
  BY <1>1, <1>2

\* The element at a place within a piece.
LaidIn(q, off, r, i, k) == \E j \in 1 .. Len(q[i]) : k = off[i - 1] + j /\ r[k] = q[i][j]

\* Where it is.
LEMMA LaysIn ==
    ASSUME NEW q, Len(q) \in Nat, \A i \in 1 .. Len(q) : Len(q[i]) \in Nat, NEW off, NEW r, Lays(q, off, r),
           NEW i \in 1 .. Len(q), NEW k \in Nat, off[i - 1] < k, k <= off[i]
    PROVE  LaidIn(q, off, r, i, k)
<1>1. /\ off[i - 1] \in Nat /\ off[i] \in Nat /\ Len(q[i]) \in Nat /\ off[i] = off[i - 1] + Len(q[i])
      /\ \A j \in 1 .. Len(q[i]) : r[off[i - 1] + j] = q[i][j]
  BY LaysAt
<1> DEFINE b == off[i - 1]
           n == Len(q[i])
<1>2. b \in Nat /\ n \in Nat /\ b < k /\ k <= b + n
  BY <1>1
<1> HIDE DEF b, n
<1>3. k - b \in 1 .. n /\ b + (k - b) = k
  BY <1>2
<1> DEFINE j == k - b
<1>4. j \in 1 .. n /\ b + j = k
  BY <1>3
<1> HIDE DEF j
<1>5. r[b + j] = q[i][j]
  BY <1>1, <1>4 DEF b, n
<1>6. j \in 1 .. Len(q[i]) /\ k = off[i - 1] + j /\ r[k] = q[i][j]
  BY <1>4, <1>5 DEF b, n
<1> QED
  BY <1>6 DEF LaidIn

\* Elements of the concatenation are elements of pieces, ...
LEMMA FlattenFrom ==
    ASSUME NEW T, NEW q \in Seq(Seq(T)), NEW k \in 1 .. Len(FlattenSeq(q))
    PROVE  \E i \in 1 .. Len(q) : \E j \in 1 .. Len(q[i]) : FlattenSeq(q)[k] = q[i][j]
<1> DEFINE r == FlattenSeq(q)
<1>1. Len(q) \in Nat /\ \A i \in 1 .. Len(q) : Len(q[i]) \in Nat
  OBVIOUS
<1>2. PICK off : Lays(q, off, r)
  BY FlattenLays
<1> HIDE DEF r
<1>3. k \in 1 .. Len(r)
  BY DEF r
<1>4. PICK i \in 1 .. Len(q) : off[i - 1] < k /\ k <= off[i]
  BY <1>1, <1>2, <1>3, LaysPlace
<1>5. k \in Nat
  OBVIOUS
<1>6. LaidIn(q, off, r, i, k)
  BY <1>1, <1>2, <1>4, <1>5, LaysIn
<1> QED
  BY <1>6 DEF r, LaidIn

\* ... and the other way round.
LEMMA FlattenTo ==
    ASSUME NEW T, NEW q \in Seq(Seq(T)), NEW i \in 1 .. Len(q), NEW j \in 1 .. Len(q[i])
    PROVE  \E k \in 1 .. Len(FlattenSeq(q)) : FlattenSeq(q)[k] = q[i][j]
<1> DEFINE r == FlattenSeq(q)
<1>1. Len(q) \in Nat /\ \A h \in 1 .. Len(q) : Len(q[h]) \in Nat
  OBVIOUS
<1>2. PICK off : Lays(q, off, r)
  BY FlattenLays
<1> HIDE DEF r
<1> DEFINE k == off[i - 1] + j
<1>3. off[i - 1] \in Nat /\ off[i] = off[i - 1] + Len(q[i]) /\ Len(r) = off[Len(q)] /\ off[Len(q)] \in Nat
  <2>1. i - 1 \in 0 .. Len(q) /\ Len(q) \in 0 .. Len(q)
    BY <1>1
  <2> QED
    BY <1>2, <2>1 DEF Lays
<1>4. off[i] <= off[Len(q)]
  <2>1. i \in 0 .. Len(q) /\ Len(q) \in i .. Len(q)
    BY <1>1
  <2> QED
    BY <1>1, <1>2, <2>1, LaysGrow
<1>5. k \in 1 .. Len(r)
  BY <1>1, <1>3, <1>4
<1>6. r[k] = q[i][j]
  BY <1>2 DEF Lays
<1> HIDE DEF k
<1> QED
  BY <1>5, <1>6 DEF r

\* Neighbours in a piece, or the end of one piece and the start of another with nothing
\* between them.
Neighbours(q, i, a, h, b) ==
    \/ h = i /\ b = a + 1
    \/ i < h /\ a = Len(q[i]) /\ b = 1 /\ \A g \in i + 1 .. h - 1 : Len(q[g]) = 0

\* Neighbours in the concatenation.
LEMMA FlattenNext ==
    ASSUME NEW T, NEW q \in Seq(Seq(T)), NEW k \in 1 .. Len(FlattenSeq(q)) - 1
    PROVE  \E i \in 1 .. Len(q), h \in 1 .. Len(q) : \E a \in 1 .. Len(q[i]), b \in 1 .. Len(q[h]) :
              FlattenSeq(q)[k] = q[i][a] /\ FlattenSeq(q)[k + 1] = q[h][b] /\ Neighbours(q, i, a, h, b)
<1> DEFINE r == FlattenSeq(q)
<1>1. Len(q) \in Nat /\ \A i \in 1 .. Len(q) : Len(q[i]) \in Nat
  OBVIOUS
<1>2. PICK off : Lays(q, off, r)
  BY FlattenLays
<1>3. r \in Seq(T) /\ Len(r) \in Nat
  BY FlattenLays
<1> HIDE DEF r
<1>4. k \in 1 .. Len(r) /\ k + 1 \in 1 .. Len(r) /\ k \in Nat
  BY <1>3 DEF r
<1>5. PICK i \in 1 .. Len(q) : off[i - 1] < k /\ k <= off[i]
  BY <1>1, <1>2, <1>4, LaysPlace
<1>6. PICK h \in 1 .. Len(q) : off[h - 1] < k + 1 /\ k + 1 <= off[h]
  BY <1>1, <1>2, <1>4, LaysPlace
<1>7. ASSUME NEW g \in 1 .. Len(q)
      PROVE  off[g] = off[g - 1] + Len(q[g]) /\ off[g - 1] \in Nat /\ off[g] \in Nat /\ Len(q[g]) \in Nat
  BY <1>1, <1>2, LaysAt
<1>8. PICK a \in 1 .. Len(q[i]) : k = off[i - 1] + a /\ r[k] = q[i][a]
  <2>1. k \in Nat
    BY <1>4
  <2>2. LaidIn(q, off, r, i, k)
    BY <1>1, <1>2, <1>5, <2>1, LaysIn
  <2> QED
    BY <2>2 DEF LaidIn
<1>9. PICK b \in 1 .. Len(q[h]) : k + 1 = off[h - 1] + b /\ r[k + 1] = q[h][b]
  <2>1. k + 1 \in Nat
    BY <1>4
  <2> QED
    <3>1. LaidIn(q, off, r, h, k + 1)
      BY <1>1, <1>2, <1>6, <2>1, LaysIn
    <3> QED
      BY <3>1 DEF LaidIn
<1>10. /\ off[i - 1] \in Nat /\ off[i] \in Nat /\ off[i] = off[i - 1] + Len(q[i]) /\ Len(q[i]) \in Nat
       /\ off[h - 1] \in Nat /\ off[h] \in Nat /\ off[h] = off[h - 1] + Len(q[h]) /\ Len(q[h]) \in Nat
  BY <1>7
<1>11. Neighbours(q, i, a, h, b)
  <2>1. CASE h = i
    <3>1. b = a + 1
      <4> DEFINE u == off[i - 1]
      <4>1. u \in Nat /\ k = u + a /\ k + 1 = u + b /\ a \in Int /\ b \in Int
        BY <1>8, <1>9, <1>10, <2>1
      <4> HIDE DEF u
      <4> QED
        BY <4>1
    <3> QED
      BY <2>1, <3>1 DEF Neighbours
  <2>2. CASE h < i
    <3>1. off[h] <= off[i - 1]
      <4>1. h \in 0 .. Len(q) /\ i - 1 \in h .. Len(q)
        BY <1>1, <2>2
      <4> QED
        BY <1>1, <1>2, <4>1, LaysGrow
    <3>2. FALSE
      <4> DEFINE u == off[h]
                 v == off[i - 1]
      <4>1. u \in Nat /\ v \in Nat /\ k \in Nat /\ u <= v /\ v < k /\ k + 1 <= u
        BY <1>4, <1>5, <1>6, <1>10, <3>1
      <4> HIDE DEF u, v
      <4> QED
        BY <4>1
    <3> QED
      BY <3>2
  <2>3. CASE i < h
    <3>1. ASSUME NEW g \in i .. h - 1 PROVE off[i] <= off[g] /\ off[g] <= off[h - 1]
      <4>1. i \in 0 .. Len(q) /\ g \in i .. Len(q) /\ g \in 0 .. Len(q) /\ h - 1 \in g .. Len(q)
        BY <1>1, <2>3
      <4>2. off[i] <= off[g]
        BY <1>1, <1>2, <4>1, LaysGrow
      <4>3. off[g] <= off[h - 1]
        BY <1>1, <1>2, <4>1, LaysGrow
      <4> QED
        BY <4>2, <4>3
    <3>2. off[i] <= off[h - 1]
      <4>1. i \in i .. h - 1
        BY <1>1, <2>3
      <4> QED
        BY <3>1, <4>1
    <3>3. off[i] = k /\ off[h - 1] = k
      <4> DEFINE u == off[i]
                 v == off[h - 1]
      <4>1. u \in Nat /\ v \in Nat /\ u <= v /\ v < k + 1 /\ k <= u /\ k \in Nat
        BY <1>4, <1>5, <1>6, <1>10, <3>2
      <4> HIDE DEF u, v
      <4>2. u = k /\ v = k
        BY <4>1
      <4> QED
        BY <4>2 DEF u, v
    <3>4. a = Len(q[i]) /\ b = 1
      <4> DEFINE u == off[i - 1]
                 v == Len(q[i])
      <4>1. u \in Nat /\ v \in Nat /\ k = u + v /\ k = u + a /\ k + 1 = k + b /\ a \in Int /\ b \in Int
        BY <1>8, <1>9, <1>10, <3>3
      <4> HIDE DEF u, v
      <4>2. a = v
        BY <1>4, <4>1
      <4>3. b = 1
        BY <1>4, <4>1
      <4> QED
        BY <4>2, <4>3 DEF v
    <3>5. ASSUME NEW g \in i + 1 .. h - 1 PROVE Len(q[g]) = 0
      <4>1. g \in i .. h - 1 /\ g - 1 \in i .. h - 1 /\ g \in 1 .. Len(q)
        BY <1>1
      <4>2. off[g] = k /\ off[g - 1] = k
        <5>1. off[g] \in Nat /\ off[g - 1] \in Nat
          BY <1>7, <4>1
        <5>2. k <= off[g] /\ off[g] <= k
          BY <3>1, <3>3, <4>1
        <5>3. k <= off[g - 1] /\ off[g - 1] <= k
          BY <3>1, <3>3, <4>1
        <5> QED
          BY <1>4, <5>1, <5>2, <5>3
      <4>3. off[g] = off[g - 1] + Len(q[g]) /\ Len(q[g]) \in Nat
        BY <1>7, <4>1
      <4> QED
        BY <1>4, <4>2, <4>3, SMTT(30)
    <3> QED
      BY <2>3, <3>4, <3>5 DEF Neighbours
  <2>4. h = i \/ h < i \/ i < h
    BY <1>1
  <2> QED
    BY <2>1, <2>2, <2>3, <2>4
<1> QED
  BY <1>8, <1>9, <1>11 DEF r

\* The ends of the concatenation are ends of pieces, with nothing outside of them.
LEMMA FlattenEnds ==
    ASSUME NEW T, NEW q \in Seq(Seq(T)), FlattenSeq(q) # <<>>
    PROVE  /\ \E i \in 1 .. Len(q) : /\ Len(q[i]) > 0 /\ FlattenSeq(q)[1] = q[i][1]
                                     /\ \A g \in 1 .. i - 1 : Len(q[g]) = 0
           /\ \E i \in 1 .. Len(q) : /\ Len(q[i]) > 0 /\ FlattenSeq(q)[Len(FlattenSeq(q))] = q[i][Len(q[i])]
                                     /\ \A g \in i + 1 .. Len(q) : Len(q[g]) = 0
<1> DEFINE r == FlattenSeq(q)
           n == Len(r)
<1>1. Len(q) \in Nat /\ \A i \in 1 .. Len(q) : Len(q[i]) \in Nat
  OBVIOUS
<1>2. PICK off : Lays(q, off, r)
  BY FlattenLays
<1>3. n \in Nat /\ n >= 1
  <2>1. r \in Seq(T) /\ r # <<>>
    BY FlattenLays
  <2> HIDE DEF r
  <2> QED
    BY <2>1
<1> HIDE DEF r
<1>4. 1 \in 1 .. Len(r) /\ Len(r) \in 1 .. Len(r)
  BY <1>3
<1>5. /\ \A g \in 0 .. Len(q) : off[g] \in Nat
      /\ \A g \in 1 .. Len(q) : off[g] = off[g - 1] + Len(q[g]) /\ g - 1 \in 0 .. Len(q) /\ off[g - 1] \in Nat /\ off[g] \in Nat
      /\ \A g \in 1 .. Len(q) : \A j \in 1 .. Len(q[g]) : r[off[g - 1] + j] = q[g][j]
      /\ n = off[Len(q)] /\ Len(q) \in 0 .. Len(q)
  BY <1>1, <1>2 DEF Lays
<1>6. \E i \in 1 .. Len(q) : Len(q[i]) > 0 /\ r[1] = q[i][1] /\ \A g \in 1 .. i - 1 : Len(q[g]) = 0
  <2>1. PICK i \in 1 .. Len(q) : off[i - 1] < 1 /\ 1 <= off[i]
    BY <1>1, <1>2, <1>4, LaysPlace
  <2>2. off[i - 1] = 0 /\ Len(q[i]) > 0
    BY <1>1, <1>5, <2>1
  <2>3. r[1] = q[i][1]
    <3>1. 1 \in 1 .. Len(q[i]) /\ off[i - 1] + 1 = 1
      BY <1>1, <2>2
    <3> QED
      BY <1>5, <3>1
  <2>4. ASSUME NEW g \in 1 .. i - 1 PROVE Len(q[g]) = 0
    <3>1. g \in 0 .. Len(q) /\ i - 1 \in g .. Len(q) /\ g \in 1 .. Len(q)
      BY <1>1
    <3>2. off[g] <= off[i - 1]
      BY <1>1, <1>2, <3>1, LaysGrow
    <3>3. off[g] = off[g - 1] + Len(q[g]) /\ off[g - 1] \in Nat /\ off[g] \in Nat /\ Len(q[g]) \in Nat
      BY <1>1, <1>2, <3>1, LaysAt
    <3> QED
      BY <2>2, <3>2, <3>3
  <2> QED
    BY <2>2, <2>3, <2>4
<1>7. \E i \in 1 .. Len(q) : Len(q[i]) > 0 /\ r[n] = q[i][Len(q[i])] /\ \A g \in i + 1 .. Len(q) : Len(q[g]) = 0
  <2>1. PICK i \in 1 .. Len(q) : off[i - 1] < n /\ n <= off[i]
    BY <1>1, <1>2, <1>4, LaysPlace
  <2>2. off[i] <= off[Len(q)]
    <3>1. i \in 0 .. Len(q) /\ Len(q) \in i .. Len(q)
      BY <1>1
    <3> QED
      BY <1>1, <1>2, <3>1, LaysGrow
  <2>3. off[i] = n /\ Len(q[i]) > 0 /\ Len(q[i]) \in 1 .. Len(q[i]) /\ off[i - 1] + Len(q[i]) = n
    BY <1>1, <1>3, <1>5, <2>1, <2>2, SMTT(30)
  <2>4. r[n] = q[i][Len(q[i])]
    BY <1>5, <2>3
  <2>5. ASSUME NEW g \in i + 1 .. Len(q) PROVE Len(q[g]) = 0
    <3>1. g \in 1 .. Len(q) /\ i \in 0 .. Len(q) /\ g - 1 \in i .. Len(q) /\ g \in 0 .. Len(q) /\ Len(q) \in g .. Len(q)
      BY <1>1
    <3>2. off[i] <= off[g - 1] /\ off[g] <= off[Len(q)]
      BY <1>1, <1>2, <3>1, LaysGrow
    <3>3. off[g] = off[g - 1] + Len(q[g]) /\ off[g - 1] \in Nat /\ off[g] \in Nat /\ Len(q[g]) \in Nat
      BY <1>1, <1>2, <3>1, LaysAt
    <3>4. n <= off[g - 1] /\ off[g] <= n
      BY <1>5, <2>3, <3>2
    <3> QED
      BY <1>3, <3>3, <3>4
  <2> QED
    BY <2>3, <2>4, <2>5
<1> QED
  BY <1>6, <1>7 DEF r

\* Pieces of one element at the end are the end of the concatenation.
LEMMA FlattenTail ==
    ASSUME NEW T, NEW q \in Seq(Seq(T)), NEW o \in 1 .. Len(q) + 1, \A g \in o .. Len(q) : Len(q[g]) = 1
    PROVE  LET r == FlattenSeq(q) IN
           /\ r \in Seq(T) /\ Len(r) \in Nat /\ Len(r) >= Len(q) - o + 1
           /\ \A g \in o .. Len(q) : r[Len(r) - Len(q) + g] = q[g][1]
           /\ \A k \in 1 .. Len(r) - (Len(q) - o + 1) :
                 \E i \in 1 .. o - 1 : \E j \in 1 .. Len(q[i]) : r[k] = q[i][j]
<1> DEFINE r == FlattenSeq(q)
<1>1. Len(q) \in Nat /\ o \in Nat /\ o >= 1 /\ \A i \in 1 .. Len(q) : Len(q[i]) \in Nat
  OBVIOUS
<1>2. PICK off : Lays(q, off, r)
  BY FlattenLays
<1>3. r \in Seq(T) /\ Len(r) \in Nat
  BY FlattenLays
<1> HIDE DEF r
<1>5. /\ \A g \in 0 .. Len(q) : off[g] \in Nat
      /\ \A g \in 1 .. Len(q) : off[g] = off[g - 1] + Len(q[g]) /\ g - 1 \in 0 .. Len(q) /\ off[g - 1] \in Nat /\ off[g] \in Nat
      /\ \A g \in 1 .. Len(q) : \A j \in 1 .. Len(q[g]) : r[off[g - 1] + j] = q[g][j]
      /\ Len(r) = off[Len(q)] /\ o - 1 \in 0 .. Len(q) /\ off[o - 1] \in Nat
  BY <1>1, <1>2 DEF Lays
<1> DEFINE b == off[o - 1]
           S == { n \in Nat : n <= Len(q) - o + 1 => off[(o - 1) + n] = b + n }
<1>6. 0 \in S
  <2>1. (o - 1) + 0 = o - 1 /\ b + 0 = b
    BY <1>1, <1>5
  <2> QED
    BY <2>1
<1>7. ASSUME NEW n \in Nat, n \in S PROVE n + 1 \in S
  <2> SUFFICES ASSUME n + 1 <= Len(q) - o + 1 PROVE off[(o - 1) + (n + 1)] = b + (n + 1)
    OBVIOUS
  <2> DEFINE g == (o - 1) + (n + 1)
  <2>1. n <= Len(q) - o + 1 /\ g \in o .. Len(q) /\ g \in 1 .. Len(q) /\ g - 1 = (o - 1) + n
    BY <1>1
  <2>2. off[(o - 1) + n] = b + n
    BY <1>7, <2>1
  <2> HIDE DEF g
  <2>3. off[g] = off[g - 1] + Len(q[g]) /\ Len(q[g]) = 1
    BY <1>5, <2>1
  <2>4. off[g] = b + (n + 1)
    <3>1. off[g] = (b + n) + 1 /\ b \in Nat
      BY <1>5, <2>1, <2>2, <2>3
    <3> HIDE DEF b
    <3> QED
      BY <3>1
  <2> QED
    BY <2>4 DEF g
<1>8. ASSUME NEW n \in Nat, n <= Len(q) - o + 1 PROVE off[(o - 1) + n] = b + n
  <2>1. Nat \subseteq S
    <3> HIDE DEF S
    <3> QED
      BY <1>6, <1>7, SetInduction
  <2> QED
    BY <1>8, <2>1
<1>9. Len(r) = b + (Len(q) - o + 1)
  <2> DEFINE n == Len(q) - o + 1
  <2>1. n \in Nat /\ n <= Len(q) - o + 1 /\ (o - 1) + n = Len(q)
    BY <1>1
  <2> HIDE DEF n
  <2>2. off[Len(q)] = b + n
    BY <1>8, <2>1
  <2> QED
    BY <1>5, <2>2 DEF n
<1>10. ASSUME NEW g \in o .. Len(q) PROVE r[Len(r) - Len(q) + g] = q[g][1]
  <2> DEFINE n == g - o
  <2>1. n \in Nat /\ n <= Len(q) - o + 1 /\ (o - 1) + n = g - 1 /\ g \in 1 .. Len(q)
    BY <1>1
  <2> HIDE DEF n
  <2>2. off[g - 1] = b + n
    BY <1>8, <2>1
  <2>3. 1 \in 1 .. Len(q[g]) /\ r[off[g - 1] + 1] = q[g][1]
    <3>1. Len(q[g]) = 1
      OBVIOUS
    <3> QED
      BY <1>5, <2>1, <3>1
  <2>4. Len(r) - Len(q) + g = off[g - 1] + 1
    <3> DEFINE e == Len(r)
               l == Len(q)
               v == off[g - 1]
    <3>1. b \in Nat /\ l \in Nat /\ o \in Nat /\ g \in Nat /\ e = b + (l - o + 1) /\ v = b + (g - o)
      BY <1>1, <1>5, <1>9, <2>1, <2>2 DEF n
    <3> HIDE DEF e, l, v, b
    <3>2. e - l + g = v + 1
      BY <3>1
    <3> QED
      BY <3>2 DEF e, l, v
  <2> QED
    BY <2>3, <2>4
<1>11. ASSUME NEW k \in 1 .. Len(r) - (Len(q) - o + 1)
       PROVE  \E i \in 1 .. o - 1 : \E j \in 1 .. Len(q[i]) : r[k] = q[i][j]
  <2>1. k <= b /\ k \in 1 .. Len(r) /\ k \in Nat
    BY <1>1, <1>3, <1>5, <1>9
  <2>2. PICK i \in 1 .. Len(q) : off[i - 1] < k /\ k <= off[i]
    BY <1>1, <1>2, <2>1, LaysPlace
  <2>3. ~(o - 1 <= i - 1)
    <3> SUFFICES ASSUME o - 1 <= i - 1 PROVE FALSE
      OBVIOUS
    <3>1. o - 1 \in 0 .. Len(q) /\ i - 1 \in (o - 1) .. Len(q)
      BY <1>1
    <3>2. off[o - 1] <= off[i - 1]
      BY <1>1, <1>2, <3>1, LaysGrow
    <3> QED
      BY <1>5, <2>1, <2>2, <3>2
  <2>4. i \in 1 .. o - 1
    BY <1>1, <2>3
  <2>5. LaidIn(q, off, r, i, k)
    BY <1>1, <1>2, <2>1, <2>2, LaysIn
  <2> QED
    BY <2>4, <2>5 DEF LaidIn
<1>12. Len(r) >= Len(q) - o + 1
  BY <1>1, <1>5, <1>9
<1> QED
  BY <1>3, <1>10, <1>11, <1>12 DEF r

-----------------------------------------------------------------------------
(* The share of each stream. *)

\* A sum can be taken apart anywhere, ...
Taken(n, f, it) == \A s \in SUBSET (1..n) : it[s] \in Nat /\ \A x \in s : it[s] = f[x] + it[s \ {x}]

\* ... because the order of its summands does not matter.
LEMMA SumTaken ==
    ASSUME NEW n \in Nat, NEW f \in [1..n -> Nat], NEW it, Sums(f, SUBSET (1..n), it)
    PROVE  Taken(n, f, it)
<1>1. IsFiniteSet(1..n) /\ \A s \in SUBSET (1..n) : IsFiniteSet(s) /\ Cardinality(s) \in Nat
  <2>1. IsFiniteSet(1..n)
    BY FS_Interval
  <2> QED
    BY <2>1, FS_Subset, FS_CardinalityType
<1>2. \A s \in SUBSET (1..n) : it[s] = IF s = {} THEN 0 ELSE f[Pick(s)] + it[s \ {Pick(s)}]
  BY DEF Sums
<1>3. \A s \in SUBSET (1..n) : s # {} => Pick(s) \in s
  BY DEF Pick
<1> DEFINE P(s) == it[s] \in Nat /\ \A x \in s : it[s] = f[x] + it[s \ {x}]
           N == { k \in Nat : \A s \in SUBSET (1..n) : Cardinality(s) <= k => P(s) }
<1>4. P({})
  <2>1. {} \in SUBSET (1..n)
    OBVIOUS
  <2>2. it[{}] = 0
    BY <1>2, <2>1
  <2> QED
    BY <2>2
<1>5. 0 \in N
  <2>1. ASSUME NEW s \in SUBSET (1..n), Cardinality(s) <= 0 PROVE P(s)
    <3>1. s = {}
      BY <1>1, <2>1, FS_EmptySet
    <3> HIDE DEF P
    <3> QED
      BY <1>4, <3>1
  <2> HIDE DEF P
  <2> QED
    BY <2>1
<1>6. ASSUME NEW k \in Nat, k \in N PROVE k + 1 \in N
  <2>1. ASSUME NEW s \in SUBSET (1..n), Cardinality(s) <= k + 1, s # {} PROVE P(s)
    <3> DEFINE p == Pick(s)
               r == s \ {p}
    <3>1. p \in s /\ f[p] \in Nat /\ it[s] = f[p] + it[r]
      BY <1>2, <1>3, <2>1
    <3> HIDE DEF p
    <3>2. \A x \in s : Cardinality(s \ {x}) <= k /\ s \ {x} \in SUBSET (1..n)
      <4>1. ASSUME NEW x \in s PROVE Cardinality(s \ {x}) <= k /\ s \ {x} \in SUBSET (1..n)
        <5>1. Cardinality(s \ {x}) = Cardinality(s) - 1
          BY <1>1, FS_RemoveElement
        <5> QED
          BY <1>1, <2>1, <5>1
      <4> QED
        BY <4>1
    <3>3. \A x \in s : P(s \ {x})
      <4> HIDE DEF P
      <4> QED
        BY <1>6, <3>2
    <3>4. it[r] \in Nat
      BY <3>1, <3>3
    <3>5. ASSUME NEW x \in s PROVE it[s] = f[x] + it[s \ {x}]
      <4>1. CASE x = p
        BY <3>1, <4>1
      <4>2. CASE x # p
        <5> DEFINE u == s \ {x}
        <5>1. x \in r /\ p \in u /\ r \ {x} = u \ {p}
          BY <3>1, <4>2
        <5>2. it[r] = f[x] + it[r \ {x}] /\ it[u] = f[p] + it[u \ {p}]
          BY <3>1, <3>3, <5>1
        <5>3. it[u] \in Nat /\ f[x] \in Nat /\ it[u \ {p}] \in Nat
          <6>1. it[u] \in Nat /\ f[x] \in Nat
            BY <3>3
          <6>2. x \in r /\ r \ {x} \in SUBSET (1..n) /\ Cardinality(r \ {x}) <= k
            <7>1. Cardinality(r \ {x}) = Cardinality(r) - 1
              BY <1>1, <3>1, <3>2, <5>1, FS_RemoveElement
            <7>2. Cardinality(r) \in Nat /\ Cardinality(r) <= k
              BY <1>1, <3>1, <3>2
            <7> QED
              BY <3>2, <5>1, <7>1, <7>2
          <6>3. P(r \ {x})
            <7> HIDE DEF P
            <7> QED
              BY <1>6, <6>2
          <6> QED
            BY <5>1, <6>1, <6>3
        <5> HIDE DEF u, r
        <5>4. it[s] = f[p] + (f[x] + it[u \ {p}])
          BY <3>1, <5>1, <5>2 DEF r
        <5>5. it[s] = f[x] + it[u]
          BY <3>1, <5>2, <5>3, <5>4
        <5> QED
          BY <5>5 DEF u
      <4> QED
        BY <4>1, <4>2
    <3>6. it[s] \in Nat
      BY <3>1, <3>4
    <3> QED
      BY <3>5, <3>6
  <2>2. ASSUME NEW s \in SUBSET (1..n), Cardinality(s) <= k + 1 PROVE P(s)
    <3> HIDE DEF P
    <3> QED
      BY <1>4, <2>1, <2>2
  <2> HIDE DEF P
  <2> QED
    BY <2>2
<1>7. Nat \subseteq N
  <2> HIDE DEF N
  <2> QED
    BY <1>5, <1>6, SetInduction
<1>8. ASSUME NEW s \in SUBSET (1..n) PROVE P(s)
  <2>1. Cardinality(s) \in Nat /\ Cardinality(s) <= Cardinality(s)
    BY <1>1
  <2>2. Cardinality(s) \in N
    BY <1>7, <2>1
  <2> HIDE DEF P
  <2> QED
    BY <2>1, <2>2
<1> QED
  BY <1>8 DEF Taken

\* The last summand.
LEMMA SumSplit ==
    ASSUME NEW n \in Nat, NEW f \in [1..(n + 1) -> Nat], NEW g \in [1..n -> Nat], \A i \in 1..n : g[i] = f[i]
    PROVE  SumFunction(f) = SumFunction(g) + f[n + 1]
<1>1. DOMAIN f = 1..(n + 1) /\ IsFiniteSet(1..(n + 1)) /\ DOMAIN g = 1..n /\ IsFiniteSet(1..n)
  BY FS_Interval
<1>2. PICK it : Sums(f, SUBSET (1..(n + 1)), it) /\ SumFunction(f) = it[1..(n + 1)]
  BY <1>1, SumIs
<1>3. PICK jt : Sums(g, SUBSET (1..n), jt) /\ SumFunction(g) = jt[1..n]
  BY <1>1, SumIs
<1>4. n + 1 \in Nat /\ n + 1 \in 1..(n + 1) /\ (1..(n + 1)) \ {n + 1} = 1..n /\ 1..n \in SUBSET (1..(n + 1))
  OBVIOUS
<1>5. \A s \in SUBSET (1..(n + 1)) : it[s] \in Nat /\ \A x \in s : it[s] = f[x] + it[s \ {x}]
  <2> DEFINE m == n + 1
  <2>1. m \in Nat /\ f \in [1..m -> Nat] /\ Sums(f, SUBSET (1..m), it)
    BY <1>2
  <2> HIDE DEF m
  <2>2. Taken(m, f, it)
    BY <2>1, SumTaken
  <2> QED
    BY <2>2 DEF Taken, m
<1>6. \A s \in SUBSET (1..n) : jt[s] \in Nat /\ \A x \in s : jt[s] = g[x] + jt[s \ {x}]
  <2>1. Taken(n, g, jt)
    BY <1>3, SumTaken
  <2> QED
    BY <2>1 DEF Taken
<1>7. it[{}] = 0 /\ jt[{}] = 0
  <2>1. {} \in SUBSET (1..n) /\ {} \in SUBSET (1..(n + 1))
    OBVIOUS
  <2> QED
    BY <1>2, <1>3, <2>1 DEF Sums
<1> DEFINE N == { k \in Nat : k <= n => it[1..k] = jt[1..k] }
<1>8. 0 \in N
  <2>1. 1..0 = {}
    OBVIOUS
  <2> QED
    BY <1>7, <2>1
<1>9. ASSUME NEW k \in Nat, k \in N PROVE k + 1 \in N
  <2> SUFFICES ASSUME k + 1 <= n PROVE it[1..(k + 1)] = jt[1..(k + 1)]
    OBVIOUS
  <2> DEFINE s == 1..(k + 1)
             x == k + 1
  <2>1. k <= n /\ x \in s /\ s \ {x} = 1..k /\ s \in SUBSET (1..n) /\ s \in SUBSET (1..(n + 1)) /\ x \in 1..n
    OBVIOUS
  <2>2. it[1..k] = jt[1..k]
    BY <1>9, <2>1
  <2> HIDE DEF s, x
  <2>3. it[s] = f[x] + it[s \ {x}] /\ jt[s] = g[x] + jt[s \ {x}]
    BY <1>5, <1>6, <2>1
  <2>4. f[x] = g[x]
    BY <2>1
  <2>5. it[s] = jt[s]
    BY <2>1, <2>2, <2>3, <2>4
  <2> QED
    BY <2>5 DEF s
<1>10. Nat \subseteq N
  <2> HIDE DEF N
  <2> QED
    BY <1>8, <1>9, SetInduction
<1>11. it[1..n] = jt[1..n]
  BY <1>10
<1>12. it[1..(n + 1)] = f[n + 1] + it[1..n]
  BY <1>4, <1>5
<1>13. it[1..n] \in Nat /\ f[n + 1] \in Nat
  BY <1>4, <1>5
<1> QED
  BY <1>2, <1>3, <1>11, <1>12, <1>13

\* The first k characters of a text.
Size(text, k) == ContentSize(SubSeq(text, 1, k))

\* One more character adds its size.
LEMMA SizeGrows ==
    ASSUME NEW S, NEW text \in Seq(S), NEW k \in Nat, k + 1 <= Len(text)
    PROVE  Size(text, k + 1) = Size(text, k) + JsonSize(text[k + 1].c) /\ Size(text, k) \in Nat
<1> DEFINE a == SubSeq(text, 1, k + 1)
           b == SubSeq(text, 1, k)
           f == [ i \in DOMAIN a |-> JsonSize(a[i].c) ]
           g == [ i \in DOMAIN b |-> JsonSize(b[i].c) ]
<1>1. \A c : JsonSize(c) \in Nat
  BY DEF JsonSize
<1>2. a \in Seq(S) /\ Len(a) = k + 1 /\ DOMAIN a = 1..(k + 1) /\ \A i \in 1..(k + 1) : a[i] = text[i]
  <2> DEFINE m == k + 1
  <2>1. m \in Nat /\ m <= Len(text) /\ a = SubSeq(text, 1, m)
    OBVIOUS
  <2> HIDE DEF m
  <2>2. a \in Seq(S) /\ Len(a) = m /\ DOMAIN a = 1..m /\ \A i \in 1..m : a[i] = text[i]
    BY <2>1
  <2> QED
    BY <2>2 DEF m
<1>3. b \in Seq(S) /\ Len(b) = k /\ DOMAIN b = 1..k /\ \A i \in 1..k : b[i] = text[i]
  <2>1. k <= Len(text)
    OBVIOUS
  <2> QED
    BY <2>1
<1> HIDE DEF a, b
<1>4. f \in [1..(k + 1) -> Nat] /\ f[k + 1] = JsonSize(text[k + 1].c)
  BY <1>1, <1>2
<1>5. g \in [1..k -> Nat]
  BY <1>1, <1>3
<1>6. \A i \in 1..k : g[i] = f[i]
  <2>1. \A i \in 1..k : i \in 1..(k + 1)
    OBVIOUS
  <2> QED
    BY <1>2, <1>3, <2>1
<1>7. ContentSize(a) = SumFunction(f) /\ ContentSize(b) = SumFunction(g)
  BY DEF ContentSize
<1> HIDE DEF f, g
<1>8. SumFunction(f) = SumFunction(g) + f[k + 1]
  BY <1>4, <1>5, <1>6, SumSplit
<1>9. ContentSize(b) \in Nat
  BY <1>3, SizeIs
<1> QED
  BY <1>4, <1>7, <1>8, <1>9 DEF Size, a, b

\* The bytes behind which a character goes on.
Open == {"l", "r1", "r2"}

\* A text of whole characters.
Whole(t) ==
    \A k \in 1 .. Len(t) :
        /\ t[k].c = "l" => k + 1 <= Len(t) /\ t[k + 1].c = "t"
        /\ t[k].c = "r1" => k + 2 <= Len(t) /\ t[k + 1].c = "r2" /\ t[k + 2].c = "r3"
        /\ t[k].c = "r2" => k > 1 /\ t[k - 1].c = "r1"

\* The size of the character that starts at k.
NextSize(t, k) == CASE t[k].c = "l" -> 2 [] t[k].c = "r1" -> 3 [] OTHER -> JsonSize(t[k].c)

\* jsonPrefix: the next character does not fit, and of a text that fits nothing is cut.
LEMMA PrefixIsLongest ==
    ASSUME NEW S, NEW text \in Seq(S), NEW budget \in Nat, Whole(text)
    PROVE  LET p == JsonPrefix(text, budget) IN
           /\ p \in Seq(S) /\ Len(p) \in Nat /\ Len(p) <= Len(text)
           /\ Len(p) < Len(text) => budget < ContentSize(p) + NextSize(text, Len(p) + 1)
           /\ ContentSize(text) <= budget => Len(p) = Len(text)
<1> DEFINE K == { k \in 0 .. Len(text) : /\ k = 0 \/ text[k].c \notin {"l", "r1", "r2"}
                                         /\ ContentSize(SubSeq(text, 1, k)) <= budget }
           m == Max(K)
           p == JsonPrefix(text, budget)
<1>1. Len(text) \in Nat /\ K \subseteq 0 .. Len(text)
  OBVIOUS
<1>2. \A k \in 0 .. Len(text) : k \in K <=> ((k = 0 \/ text[k].c \notin Open) /\ Size(text, k) <= budget)
  BY DEF Open, Size
<1>3. Size(text, 0) = 0
  <2> DEFINE e == SubSeq(text, 1, 0)
  <2>1. e \in Seq(S) /\ e = <<>>
    BY <1>1
  <2> HIDE DEF e
  <2>2. ContentSize(e) = 0
    BY <2>1, SizeIs
  <2> QED
    BY <2>2 DEF e, Size
<1>4. 0 \in K
  <2>1. 0 \in 0 .. Len(text) /\ Size(text, 0) <= budget
    BY <1>1, <1>3
  <2> HIDE DEF K
  <2> QED
    BY <1>2, <2>1
<1>5. m \in K /\ \A k \in K : k <= m
  <2> HIDE DEF K
  <2> QED
    BY <1>1, <1>4, MaxIs
<1>6. p = SubSeq(text, 1, m)
  BY DEF JsonPrefix
<1> HIDE DEF K, m, p
<1>7. m \in 0 .. Len(text) /\ m \in Nat /\ m <= Len(text) /\ (m = 0 \/ text[m].c \notin Open)
  BY <1>1, <1>2, <1>5
<1>8. p \in Seq(S) /\ Len(p) = m /\ ContentSize(p) = Size(text, m)
  BY <1>1, <1>6, <1>7 DEF Size
<1>9. \A k \in m + 1 .. Len(text) : text[k].c \notin Open => budget < Size(text, k) /\ Size(text, k) \in Nat
  <2> SUFFICES ASSUME NEW k \in m + 1 .. Len(text), text[k].c \notin Open PROVE budget < Size(text, k) /\ Size(text, k) \in Nat
    OBVIOUS
  <2>1. k \in 0 .. Len(text) /\ ~(k <= m) /\ k \in Nat /\ k <= Len(text)
    BY <1>7
  <2>2. k \notin K
    BY <1>5, <2>1
  <2>3. ~(Size(text, k) <= budget)
    BY <1>2, <2>1, <2>2
  <2>4. Size(text, k) \in Nat
    <3>1. SubSeq(text, 1, k) \in Seq(S)
      BY <2>1
    <3> QED
      BY <3>1, SizeIs DEF Size
  <2> QED
    BY <2>3, <2>4
<1>10. ASSUME m < Len(text) PROVE budget < Size(text, m) + NextSize(text, m + 1)
  <2> DEFINE c == text[m + 1].c
  <2>1. m + 1 \in 1 .. Len(text) /\ m + 1 \in m + 1 .. Len(text)
    BY <1>1, <1>7, <1>10
  <2>2. Size(text, m + 1) = Size(text, m) + JsonSize(c) /\ Size(text, m) \in Nat
    BY <1>1, <1>7, <1>10, SizeGrows
  <2>3. CASE c = "l"
    <3>1. (m + 1) + 1 <= Len(text) /\ text[(m + 1) + 1].c = "t"
      BY <2>1, <2>3 DEF Whole
    <3>2. Size(text, (m + 1) + 1) = Size(text, m + 1) + JsonSize("t")
      <4>1. m + 1 \in Nat
        BY <1>7
      <4> QED
        BY <3>1, <4>1, SizeGrows
    <3>3. JsonSize("t") = 1 /\ JsonSize("l") = 1 /\ NextSize(text, m + 1) = 2 /\ "t" \notin Open
      BY <2>3 DEF JsonSize, NextSize, Open
    <3>4. (m + 1) + 1 \in m + 1 .. Len(text)
      BY <1>7, <3>1
    <3>5. budget < Size(text, (m + 1) + 1)
      BY <1>9, <3>1, <3>3, <3>4
    <3> QED
      BY <2>2, <2>3, <3>2, <3>3, <3>5
  <2>4. CASE c = "r1"
    <3>1. (m + 1) + 2 <= Len(text) /\ text[(m + 1) + 1].c = "r2" /\ text[(m + 1) + 2].c = "r3"
      BY <2>1, <2>4 DEF Whole
    <3>2. Size(text, (m + 1) + 1) = Size(text, m + 1) + JsonSize("r2")
      <4>1. m + 1 \in Nat /\ (m + 1) + 1 <= Len(text)
        BY <1>1, <1>7, <3>1
      <4> QED
        BY <3>1, <4>1, SizeGrows
    <3>3. Size(text, (m + 1) + 2) = Size(text, (m + 1) + 1) + JsonSize("r3")
      <4>1. (m + 1) + 1 \in Nat /\ ((m + 1) + 1) + 1 = (m + 1) + 2
        BY <1>7
      <4>2. Size(text, ((m + 1) + 1) + 1) = Size(text, (m + 1) + 1) + JsonSize(text[((m + 1) + 1) + 1].c)
        BY <3>1, <4>1, SizeGrows
      <4> QED
        BY <3>1, <4>1, <4>2
    <3>4. JsonSize("r1") = 1 /\ JsonSize("r2") = 1 /\ JsonSize("r3") = 1 /\ NextSize(text, m + 1) = 3 /\ "r3" \notin Open
      BY <2>4 DEF JsonSize, NextSize, Open
    <3>5. (m + 1) + 2 \in m + 1 .. Len(text)
      BY <1>7, <3>1
    <3>6. budget < Size(text, (m + 1) + 2)
      BY <1>9, <3>1, <3>4, <3>5
    <3>7. Size(text, (m + 1) + 2) = Size(text, m) + 3
      BY <2>2, <2>4, <3>2, <3>3, <3>4
    <3> QED
      BY <3>4, <3>6, <3>7
  <2>5. CASE c # "l" /\ c # "r1"
    <3>1. c # "r2"
      <4> SUFFICES ASSUME c = "r2" PROVE FALSE
        OBVIOUS
      <4>1. m + 1 > 1 /\ text[(m + 1) - 1].c = "r1"
        BY <2>1 DEF Whole
      <4>2. (m + 1) - 1 = m /\ m # 0
        BY <1>7, <4>1
      <4> QED
        BY <1>7, <4>1, <4>2 DEF Open
    <3>2. c \notin Open /\ NextSize(text, m + 1) = JsonSize(c)
      BY <2>5, <3>1 DEF Open, NextSize
    <3>3. budget < Size(text, m + 1)
      BY <1>9, <2>1, <3>2
    <3> QED
      BY <2>2, <3>2, <3>3
  <2> QED
    BY <2>3, <2>4, <2>5
<1>11. ASSUME ContentSize(text) <= budget PROVE m = Len(text)
  <2> SUFFICES ASSUME m # Len(text) PROVE FALSE
    OBVIOUS
  <2>1. Len(text) \in m + 1 .. Len(text) /\ Len(text) \in 1 .. Len(text)
    BY <1>1, <1>7
  <2>2. text[Len(text)].c \notin Open
    <3>1. text[Len(text)].c # "l" /\ text[Len(text)].c # "r1"
      BY <1>1, <2>1 DEF Whole
    <3>2. text[Len(text)].c # "r2"
      <4> SUFFICES ASSUME text[Len(text)].c = "r2" PROVE FALSE
        OBVIOUS
      <4> DEFINE k == Len(text) - 1
      <4>1. Len(text) > 1 /\ text[k].c = "r1"
        BY <2>1 DEF Whole
      <4>2. k \in 1 .. Len(text) /\ ~(k + 2 <= Len(text))
        BY <1>1, <4>1
      <4> HIDE DEF k
      <4> QED
        BY <4>1, <4>2 DEF Whole
    <3> QED
      BY <3>1, <3>2 DEF Open
  <2>3. Size(text, Len(text)) = ContentSize(text)
    <3>1. SubSeq(text, 1, Len(text)) = text
      OBVIOUS
    <3> QED
      BY <3>1 DEF Size
  <2>4. budget < Size(text, Len(text)) /\ Size(text, Len(text)) \in Nat
    BY <1>9, <2>1, <2>2
  <2> QED
    BY <1>11, <2>3, <2>4
<1>12. Len(p) < Len(text) => budget < ContentSize(p) + NextSize(text, Len(p) + 1)
  BY <1>8, <1>10
<1>13. ContentSize(text) <= budget => Len(p) = Len(text)
  BY <1>8, <1>11
<1> QED
  BY <1>7, <1>8, <1>12, <1>13 DEF p

\* Of the text t the part p is shown: all of it, or its next character does not fit beside
\* what counts of the other text.
Uncut(t, p, other, content) ==
    \/ Len(p) = Len(t)
    \/ content < ContentSize(p) + NextSize(t, Len(p) + 1) + Min({ContentSize(other), content - content \div 2})

\* The arithmetic of fitExecuteOutput: ...
Shared(content, half, sizeOut, sizeErr, fullOut, fullErr, out, err, more, rest) ==
    /\ content \in Int /\ content > 0 /\ half \in Nat /\ half + half <= content
    /\ sizeOut \in Nat /\ sizeErr \in Nat /\ fullOut \in Nat /\ fullErr \in Nat
    /\ out \in Nat /\ err \in Nat /\ more \in Nat /\ rest \in Nat
    /\ fullOut = IF sizeOut <= content + 1 THEN sizeOut ELSE content + 1
    /\ fullErr = IF sizeErr <= content + 1 THEN sizeErr ELSE content + 1
    /\ out = IF fullOut <= half THEN fullOut ELSE half
    /\ err = IF fullErr <= half THEN fullErr ELSE half
    /\ more = IF fullOut - out <= content - out - err THEN fullOut - out ELSE content - out - err
    /\ rest = IF fullErr - err <= content - out - err - more THEN fullErr - err ELSE content - out - err - more

\* ... a budget that is too small leaves to the other stream what that one has, and half of
\* the room at most.
LEMMA RoomIsShared ==
    ASSUME NEW content, NEW half, NEW sizeOut, NEW sizeErr, NEW fullOut, NEW fullErr, NEW out, NEW err, NEW more, NEW rest,
           Shared(content, half, sizeOut, sizeErr, fullOut, fullErr, out, err, more, rest)
    PROVE  /\ out + more < sizeOut => content <= (out + more) + sizeErr /\ content <= (out + more) + (content - half)
           /\ err + rest < sizeErr => content <= (err + rest) + sizeOut /\ content <= (err + rest) + (content - half)
<1> USE DEF Shared
<1>1. out <= half /\ err <= half /\ out <= fullOut /\ err <= fullErr /\ fullOut <= sizeOut /\ fullErr <= sizeErr
  OBVIOUS
<1>2. ASSUME out + more < sizeOut PROVE content <= (out + more) + sizeErr /\ content <= (out + more) + (content - half)
  <2>1. out + more = content - err
    <3>1. CASE fullOut - out <= content - out - err
      <4>1. out + more = fullOut /\ fullOut <= content - err
        BY <3>1
      <4>2. fullOut <= content
        BY <4>1
      <4> QED
        BY <1>2, <4>1, <4>2
    <3>2. CASE ~(fullOut - out <= content - out - err)
      BY <3>2
    <3> QED
      BY <3>1, <3>2
  <2> QED
    BY <1>1, <2>1
<1>3. ASSUME err + rest < sizeErr PROVE content <= (err + rest) + sizeOut /\ content <= (err + rest) + (content - half)
  <2>1. more <= fullOut - out /\ more <= content - out - err
    OBVIOUS
  <2>2. CASE fullErr - err <= content - out - err - more
    <3>1. err + rest = fullErr /\ fullErr <= content
      BY <2>1, <2>2
    <3> QED
      BY <1>3, <3>1
  <2>3. CASE ~(fullErr - err <= content - out - err - more)
    <3>1. err + rest = content - out - more
      BY <2>3
    <3>2. fullErr - err > 0
      BY <2>1, <2>3
    <3>3. err = half
      BY <3>2
    <3> QED
      BY <1>1, <2>1, <3>1, <3>3
  <2> QED
    BY <2>2, <2>3
<1> QED
  BY <1>2, <1>3

\* fitExecuteOutput, when there is room for contents.
LEMMA FitShares ==
    ASSUME NEW S, NEW stdout \in Seq(S), NEW stderr \in Seq(S), NEW available \in Int,
           Whole(stdout), Whole(stderr), Room(stdout, stderr, available) > 0
    PROVE  LET fit == FitExecuteOutput(stdout, stderr, available)
               room == Room(stdout, stderr, available)
           IN  Uncut(stdout, fit.stdout, stderr, room) /\ Uncut(stderr, fit.stderr, stdout, room)
<1> DEFINE fit == FitExecuteOutput(stdout, stderr, available)
           content == available - FieldBytes * Cardinality({ i \in 1 .. 2 : <<stdout, stderr>>[i] # <<>> })
           sizeOut == ContentSize(stdout)
           sizeErr == ContentSize(stderr)
           fullOut == JsonEscapedContentSize(stdout, content)
           fullErr == JsonEscapedContentSize(stderr, content)
           half == content \div 2
           out  == Min({fullOut, half})
           err  == Min({fullErr, half})
           more == Min({fullOut - out, content - out - err})
           rest == Min({fullErr - err, content - out - err - more})
<1>1. content = Room(stdout, stderr, available) /\ content \in Int /\ content > 0
  <2>1. content = Room(stdout, stderr, available)
    BY FieldCount
  <2> HIDE DEF content
  <2> QED
    BY <2>1 DEF Room, FieldBytes
<1>2. fit = IF content <= 0 THEN [ stdout |-> <<>>, stderr |-> <<>> ]
            ELSE [ stdout |-> JsonPrefix(stdout, out + more), stderr |-> JsonPrefix(stderr, err + rest) ]
  BY DEF FitExecuteOutput
<1> HIDE DEF fit, content
<1>3. sizeOut \in Nat /\ sizeErr \in Nat
  BY SizeIs
<1>4. /\ fullOut = IF sizeOut <= content + 1 THEN sizeOut ELSE content + 1
      /\ fullErr = IF sizeErr <= content + 1 THEN sizeErr ELSE content + 1
  <2>1. content + 1 \in Int
    BY <1>1
  <2> QED
    BY <1>3, <2>1, MinOfTwo DEF JsonEscapedContentSize
<1> HIDE DEF sizeOut, sizeErr, fullOut, fullErr
<1>5. fullOut \in Nat /\ fullErr \in Nat /\ fullOut <= sizeOut /\ fullErr <= sizeErr
  BY <1>1, <1>3, <1>4
<1>6. half \in Nat /\ half + half <= content
  BY <1>1
<1> HIDE DEF half
<1>7. /\ out = IF fullOut <= half THEN fullOut ELSE half
      /\ err = IF fullErr <= half THEN fullErr ELSE half
  BY <1>5, <1>6, MinOfTwo
<1> HIDE DEF out, err
<1>8. out \in Nat /\ err \in Nat /\ fullOut - out \in Nat /\ content - out - err \in Nat
  BY <1>1, <1>5, <1>6, <1>7
<1>9. more = IF fullOut - out <= content - out - err THEN fullOut - out ELSE content - out - err
  BY <1>8, MinOfTwo
<1> HIDE DEF more
<1>10. more \in Nat /\ fullErr - err \in Nat /\ content - out - err - more \in Nat
  BY <1>1, <1>5, <1>6, <1>7, <1>8, <1>9
<1>11. rest = IF fullErr - err <= content - out - err - more THEN fullErr - err ELSE content - out - err - more
  BY <1>10, MinOfTwo
<1> HIDE DEF rest
<1>12. rest \in Nat
  BY <1>10, <1>11
<1> DEFINE a == out + more
           b == err + rest
           p == JsonPrefix(stdout, a)
           q == JsonPrefix(stderr, b)
<1>13. a \in Nat /\ b \in Nat
  BY <1>8, <1>10, <1>12
<1>14. fit.stdout = p /\ fit.stderr = q
  BY <1>1, <1>2
<1>15. /\ a < sizeOut => content <= a + sizeErr /\ content <= a + (content - half)
       /\ b < sizeErr => content <= b + sizeOut /\ content <= b + (content - half)
  <2>1. Shared(content, half, sizeOut, sizeErr, fullOut, fullErr, out, err, more, rest)
    BY <1>1, <1>3, <1>4, <1>5, <1>6, <1>7, <1>8, <1>9, <1>10, <1>11, <1>12 DEF Shared
  <2> QED
    BY <2>1, RoomIsShared
<1> HIDE DEF a, b
<1>17. /\ p \in Seq(S) /\ Len(p) \in Nat /\ Len(p) <= Len(stdout)
       /\ Len(p) < Len(stdout) => a < ContentSize(p) + NextSize(stdout, Len(p) + 1)
       /\ ContentSize(stdout) <= a => Len(p) = Len(stdout)
  BY <1>13, PrefixIsLongest
<1>18. /\ q \in Seq(S) /\ Len(q) \in Nat /\ Len(q) <= Len(stderr)
       /\ Len(q) < Len(stderr) => b < ContentSize(q) + NextSize(stderr, Len(q) + 1)
       /\ ContentSize(stderr) <= b => Len(q) = Len(stderr)
  BY <1>13, PrefixIsLongest
<1>19. \A t, k : NextSize(t, k) \in Nat
  BY DEF NextSize, JsonSize
<1> HIDE DEF p, q
<1>20. ContentSize(p) \in Nat /\ ContentSize(q) \in Nat
  BY <1>17, <1>18, SizeIs
<1>21. Min({sizeErr, content - half}) = IF sizeErr <= content - half THEN sizeErr ELSE content - half
  BY <1>1, <1>3, <1>6, MinOfTwo
<1>22. Min({sizeOut, content - half}) = IF sizeOut <= content - half THEN sizeOut ELSE content - half
  BY <1>1, <1>3, <1>6, MinOfTwo
<1>23. Uncut(stdout, p, stderr, content)
  <2> SUFFICES ASSUME Len(p) # Len(stdout)
               PROVE  content < ContentSize(p) + NextSize(stdout, Len(p) + 1) + Min({sizeErr, content - half})
    BY DEF Uncut, half, sizeErr
  <2>1. Len(stdout) \in Nat /\ Len(p) < Len(stdout) /\ ~(sizeOut <= a)
    BY <1>17 DEF sizeOut
  <2>2. content <= a + sizeErr /\ content <= a + (content - half)
    BY <1>3, <1>13, <1>15, <2>1
  <2> DEFINE n == NextSize(stdout, Len(p) + 1)
             u == ContentSize(p)
             v == Min({sizeErr, content - half})
  <2>3. n \in Nat /\ u \in Nat /\ v \in Int /\ a < u + n /\ content <= a + v
    <3>1. n \in Nat /\ u \in Nat
      BY <1>19, <1>20
    <3>2. a < u + n
      BY <1>17, <2>1
    <3>3. v = sizeErr \/ v = content - half
      BY <1>21
    <3>4. v \in Int /\ content <= a + v
      <4> HIDE DEF v
      <4> QED
        BY <1>1, <1>3, <1>6, <2>2, <3>3
    <3> QED
      BY <3>1, <3>2, <3>4
  <2> HIDE DEF n, u, v
  <2>4. content < u + n + v
    BY <1>1, <1>13, <2>3
  <2> QED
    BY <2>4 DEF n, u, v
<1>24. Uncut(stderr, q, stdout, content)
  <2> SUFFICES ASSUME Len(q) # Len(stderr)
               PROVE  content < ContentSize(q) + NextSize(stderr, Len(q) + 1) + Min({sizeOut, content - half})
    BY DEF Uncut, half, sizeOut
  <2>1. Len(stderr) \in Nat /\ Len(q) < Len(stderr) /\ ~(sizeErr <= b)
    BY <1>18 DEF sizeErr
  <2>2. content <= b + sizeOut /\ content <= b + (content - half)
    BY <1>3, <1>13, <1>15, <2>1
  <2> DEFINE n == NextSize(stderr, Len(q) + 1)
             u == ContentSize(q)
             v == Min({sizeOut, content - half})
  <2>3. n \in Nat /\ u \in Nat /\ v \in Int /\ b < u + n /\ content <= b + v
    <3>1. n \in Nat /\ u \in Nat
      BY <1>19, <1>20
    <3>2. b < u + n
      BY <1>18, <2>1
    <3>3. v = sizeOut \/ v = content - half
      BY <1>22
    <3>4. v \in Int /\ content <= b + v
      <4> HIDE DEF v
      <4> QED
        BY <1>1, <1>3, <1>6, <2>2, <3>3
    <3> QED
      BY <3>1, <3>2, <3>4
  <2> HIDE DEF n, u, v
  <2>4. content < u + n + v
    BY <1>1, <1>13, <2>3
  <2> QED
    BY <2>4 DEF n, u, v
<1> QED
  BY <1>1, <1>14, <1>23, <1>24 DEF fit

\* What is sent for one result of whole characters.
LEMMA SingleShares ==
    ASSUME NEW S, NEW r \in Results(S), Whole(r.stdout), Whole(r.stderr),
           Room(r.stdout, r.stderr, MaxFrame - (SingleBytes + 4)) > 0
    PROVE  LET m == WriteResponse(MarshalExecuteResult(r))
               room == Room(r.stdout, r.stderr, MaxFrame - (SingleBytes + 4))
           IN  m.ok => /\ Uncut(r.stdout, m.results[1].stdout, r.stderr, room)
                       /\ Uncut(r.stderr, m.results[1].stderr, r.stdout, room)
<1> DEFINE blank == [ stdout |-> <<>>, stderr |-> <<>>, truncated |-> TRUE ]
           base == Encoded(blank)
           fit  == FitExecuteOutput(r.stdout, r.stderr, MaxFrame - base.size)
           cut  == [ stdout |-> fit.stdout, stderr |-> fit.stderr, truncated |-> TRUE ]
           marshalled == MarshalExecuteResult(r)
           m == WriteResponse(marshalled)
           room == Room(r.stdout, r.stderr, MaxFrame - (SingleBytes + 4))
           Goal(z) == z.ok => /\ Uncut(r.stdout, z.results[1].stdout, r.stderr, room)
                              /\ Uncut(r.stderr, z.results[1].stderr, r.stdout, room)
<1>1. MaxFrame \in Nat /\ SingleBytes \in Nat
  BY FramingAssumption
<1>2. r.stdout \in Seq(S) /\ r.stderr \in Seq(S)
  BY DEF Results
<1>3. base.size = SingleBytes + 4
  <2>1. blank \in Results(S)
    BY DEF Results
  <2>2. ResultSize(blank) = 4
    BY <2>1, ResultSizeIs DEF FlagBytes
  <2> HIDE DEF blank
  <2> QED
    BY <2>2 DEF Encoded
<1>4. marshalled = IF Encoded(r).size <= MaxFrame THEN Encoded(r)
                   ELSE IF base.size > MaxFrame THEN Failure
                   ELSE Encoded(cut)
  BY DEF MarshalExecuteResult
<1>5. /\ Uncut(r.stdout, fit.stdout, r.stderr, room)
      /\ Uncut(r.stderr, fit.stderr, r.stdout, room)
  <2> DEFINE available == MaxFrame - (SingleBytes + 4)
  <2>1. available \in Int /\ fit = FitExecuteOutput(r.stdout, r.stderr, available)
    BY <1>1, <1>3
  <2> HIDE DEF available, fit
  <2>2. Room(r.stdout, r.stderr, available) > 0
    BY DEF available
  <2> QED
    BY <1>2, <2>1, <2>2, FitShares DEF available
<1> HIDE DEF base, marshalled, fit, room
<1>6. Goal(Encoded(r))
  <2>1. Encoded(r).results[1] = r
    BY DEF Encoded
  <2> QED
    BY <2>1 DEF Uncut
<1>7. Goal(Failure)
  BY DEF Failure
<1>8. Goal(Encoded(cut))
  <2>1. Encoded(cut).results[1].stdout = fit.stdout /\ Encoded(cut).results[1].stderr = fit.stderr
    BY DEF Encoded
  <2> QED
    BY <1>5, <2>1
<1> HIDE DEF Goal, cut
<1>9. Goal(marshalled)
  BY <1>4, <1>6, <1>7, <1>8
<1>10. Goal(m)
  BY <1>7, <1>9 DEF WriteResponse
<1> QED
  BY <1>10 DEF Goal, marshalled, room

-----------------------------------------------------------------------------
(* The redactor's text. *)

\* What a byte of a redactor's text is, and the bytes that continue a character.
Symbols == Byte \cup {"r1", "r2", "r3", "#", "*"}
Elems == [ c : Symbols, n : Nat ]
Close == {"t", "r2", "r3"}

\* Two neighbours: a character is not torn, and bytes of the input are neighbours there.
Joint(a, b) == (a.c = "l" <=> b.c = "t") /\ (a.c = "r1" <=> b.c = "r2") /\ (a.c = "r2" <=> b.c = "r3")
Follows(a, b) == a.c \in Byte /\ b.c \in Byte => b.n = a.n + 1

\* A byte of the input.
Origin(e, x) == e.c \in Byte => e.n \in 1 .. Len(x) /\ x[e.n] = e.c /\ ~Invalid(x, e.n)

\* A text that the redactor makes of x before it is rendered.
Sound(t, x) ==
    /\ t \in Seq(Elems)
    /\ \A k \in 1 .. Len(t) : Origin(t[k], x)
    /\ \A k \in 1 .. Len(t) - 1 : Joint(t[k], t[k + 1]) /\ Follows(t[k], t[k + 1])
    /\ Len(t) > 0 => /\ t[1].c \notin Close /\ t[Len(t)].c \notin Open
                     /\ t[Len(t)].c \in Byte => t[Len(t)].n = Len(x)

\* What ToValidUTF8 makes of the byte at i.
Char(x, i) ==
    IF ~Invalid(x, i) THEN << [c |-> x[i], n |-> i] >>
    ELSE IF i > 1 /\ Invalid(x, i - 1) THEN <<>>
    ELSE << [c |-> "r1", n |-> 0], [c |-> "r2", n |-> 0], [c |-> "r3", n |-> 0] >>

\* The three cases.
LEMMA CharIs ==
    ASSUME NEW x \in Seq(Byte), NEW i \in 1 .. Len(x)
    PROVE  /\ Char(x, i) \in Seq(Elems)
           /\ ~Invalid(x, i) => /\ Len(Char(x, i)) = 1 /\ Char(x, i)[1].c = x[i] /\ Char(x, i)[1].n = i
           /\ Invalid(x, i) /\ i > 1 /\ Invalid(x, i - 1) => Len(Char(x, i)) = 0
           /\ Invalid(x, i) /\ ~(i > 1 /\ Invalid(x, i - 1)) =>
                 Len(Char(x, i)) = 3 /\ Char(x, i)[1].c = "r1" /\ Char(x, i)[2].c = "r2" /\ Char(x, i)[3].c = "r3"
<1> DEFINE a == [c |-> x[i], n |-> i]
           b == [c |-> "r1", n |-> 0]
           d == [c |-> "r2", n |-> 0]
           e == [c |-> "r3", n |-> 0]
<1>1. a \in Elems /\ b \in Elems /\ d \in Elems /\ e \in Elems
  <2>1. x[i] \in Symbols /\ i \in Nat /\ "r1" \in Symbols /\ "r2" \in Symbols /\ "r3" \in Symbols /\ 0 \in Nat
    BY DEF Symbols
  <2> QED
    BY <2>1 DEF Elems
<1>2. a.c = x[i] /\ a.n = i /\ b.c = "r1" /\ d.c = "r2" /\ e.c = "r3"
  OBVIOUS
<1>3. Char(x, i) = IF ~Invalid(x, i) THEN <<a>> ELSE IF i > 1 /\ Invalid(x, i - 1) THEN <<>> ELSE <<b, d, e>>
  BY DEF Char
<1> HIDE DEF a, b, d, e
<1>4. CASE ~Invalid(x, i)
  <2>1. Char(x, i) = <<a>>
    BY <1>3, <1>4
  <2> QED
    BY <1>1, <1>2, <1>4, <2>1
<1>5. CASE Invalid(x, i) /\ i > 1 /\ Invalid(x, i - 1)
  <2>1. Char(x, i) = <<>>
    BY <1>3, <1>5
  <2> QED
    BY <1>5, <2>1
<1>6. CASE Invalid(x, i) /\ ~(i > 1 /\ Invalid(x, i - 1))
  <2>1. Char(x, i) = <<b, d, e>>
    BY <1>3, <1>6
  <2>2. Char(x, i) \in Seq(Elems)
    BY <1>1, <2>1
  <2>3. Len(Char(x, i)) = 3 /\ Char(x, i)[1] = b /\ Char(x, i)[2] = d /\ Char(x, i)[3] = e
    BY <2>1
  <2> QED
    BY <1>2, <1>6, <2>2, <2>3
<1> QED
  BY <1>4, <1>5, <1>6

\* ToValidUTF8: whole characters, in the order of the input.
LEMMA ValidIsSound ==
    ASSUME NEW x \in Seq(Byte)
    PROVE  Sound(ToValidUTF8(x), x)
<1> DEFINE q == [ i \in DOMAIN x |-> Char(x, i) ]
           t == ToValidUTF8(x)
<1>1. DOMAIN x = 1 .. Len(x) /\ Len(x) \in Nat /\ \A i \in 1 .. Len(x) : x[i] \in Byte
  OBVIOUS
<1>2. t = FlattenSeq(q)
  BY DEF ToValidUTF8, Char
<1>3. q \in Seq(Seq(Elems)) /\ Len(q) = Len(x) /\ \A i \in 1 .. Len(x) : q[i] = Char(x, i)
  <2>1. \A i \in 1 .. Len(x) : Char(x, i) \in Seq(Elems)
    BY CharIs
  <2>2. q \in [ 1 .. Len(x) -> Seq(Elems) ]
    BY <1>1, <2>1
  <2>3. \A i \in 1 .. Len(x) : q[i] = Char(x, i)
    BY <1>1
  <2>4. Len(q) = Len(x) /\ q \in Seq(Seq(Elems))
    <3>1. DOMAIN q = 1 .. Len(x)
      BY <1>1
    <3> HIDE DEF q
    <3> QED
      BY <1>1, <2>2, <3>1
  <2> QED
    BY <2>3, <2>4
<1> HIDE DEF q, t
<1>4. ASSUME NEW i \in 1 .. Len(x)
      PROVE  /\ ~Invalid(x, i) => Len(q[i]) = 1 /\ q[i][1].c = x[i] /\ q[i][1].n = i
             /\ Invalid(x, i) /\ i > 1 /\ Invalid(x, i - 1) => Len(q[i]) = 0
             /\ Invalid(x, i) /\ ~(i > 1 /\ Invalid(x, i - 1)) =>
                   Len(q[i]) = 3 /\ q[i][1].c = "r1" /\ q[i][2].c = "r2" /\ q[i][3].c = "r3"
  <2>1. q[i] = Char(x, i)
    BY <1>3
  <2> QED
    BY <2>1, CharIs
<1>5. \A i \in 1 .. Len(x) : Len(q[i]) = 0 => i > 1 /\ Invalid(x, i) /\ Invalid(x, i - 1)
  BY <1>4
<1>6. ~("r1" \in Byte) /\ ~("r2" \in Byte) /\ ~("r3" \in Byte)
  BY DEF Byte
<1>7. t \in Seq(Elems) /\ Len(t) \in Nat
  BY <1>2, <1>3, FlattenLays
<1>8. ASSUME NEW k \in 1 .. Len(t) PROVE Origin(t[k], x)
  <2>1. k \in 1 .. Len(FlattenSeq(q))
    BY <1>2
  <2>0. PICK i \in 1 .. Len(q) : \E j \in 1 .. Len(q[i]) : FlattenSeq(q)[k] = q[i][j]
    BY <1>3, <2>1, FlattenFrom
  <2>2. PICK j \in 1 .. Len(q[i]) : FlattenSeq(q)[k] = q[i][j]
    BY <2>0
  <2>3. i \in 1 .. Len(x) /\ t[k] = q[i][j]
    BY <1>2, <1>3, <2>2
  <2>4. CASE ~Invalid(x, i)
    <3>1. Len(q[i]) = 1 /\ q[i][1].c = x[i] /\ q[i][1].n = i
      BY <1>4, <2>3, <2>4
    <3>2. j = 1
      BY <3>1
    <3> QED
      BY <2>3, <2>4, <3>1, <3>2 DEF Origin
  <2>5. CASE Invalid(x, i)
    <3>1. Len(q[i]) = 3 /\ q[i][1].c = "r1" /\ q[i][2].c = "r2" /\ q[i][3].c = "r3"
      BY <1>4, <2>2, <2>3, <2>5
    <3>2. j = 1 \/ j = 2 \/ j = 3
      BY <3>1
    <3>3. t[k].c \notin Byte
      BY <1>6, <2>3, <3>1, <3>2
    <3> QED
      BY <3>3 DEF Origin
  <2> QED
    BY <2>4, <2>5
<1>9. ASSUME NEW k \in 1 .. Len(t) - 1 PROVE Joint(t[k], t[k + 1]) /\ Follows(t[k], t[k + 1])
  <2>1. k \in 1 .. Len(FlattenSeq(q)) - 1
    BY <1>2
  <2>2. PICK i \in 1 .. Len(q), h \in 1 .. Len(q) : \E a \in 1 .. Len(q[i]), b \in 1 .. Len(q[h]) :
           FlattenSeq(q)[k] = q[i][a] /\ FlattenSeq(q)[k + 1] = q[h][b] /\ Neighbours(q, i, a, h, b)
    BY <1>3, <2>1, FlattenNext
  <2>3. PICK a \in 1 .. Len(q[i]), b \in 1 .. Len(q[h]) :
           t[k] = q[i][a] /\ t[k + 1] = q[h][b] /\ Neighbours(q, i, a, h, b)
    BY <1>2, <2>2
  <2>4. i \in 1 .. Len(x) /\ h \in 1 .. Len(x)
    BY <1>3
  <2>5. CASE h = i /\ b = a + 1
    <3>1. Len(q[i]) # 1
      <4>1. a \in 1 .. Len(q[i]) /\ a + 1 \in 1 .. Len(q[i])
        BY <2>3, <2>5
      <4> SUFFICES ASSUME Len(q[i]) = 1 PROVE FALSE
        OBVIOUS
      <4> QED
        BY <4>1
    <3>2. Len(q[i]) = 3 /\ q[i][1].c = "r1" /\ q[i][2].c = "r2" /\ q[i][3].c = "r3"
      BY <1>4, <2>3, <2>4, <3>1
    <3>3. (a = 1 /\ b = 2) \/ (a = 2 /\ b = 3)
      BY <2>5, <3>2
    <3>4. (t[k].c = "r1" /\ t[k + 1].c = "r2") \/ (t[k].c = "r2" /\ t[k + 1].c = "r3")
      BY <2>3, <2>5, <3>2, <3>3
    <3> QED
      BY <1>6, <3>4 DEF Joint, Follows
  <2>6. CASE i < h /\ a = Len(q[i]) /\ b = 1 /\ \A g \in i + 1 .. h - 1 : Len(q[g]) = 0
    <3>1. Len(q[i]) # 0 /\ Len(q[h]) # 0
      BY <2>3
    <3>2. h > i + 1 => Invalid(x, i) /\ Invalid(x, h - 1)
      <4> SUFFICES ASSUME h > i + 1 PROVE Invalid(x, i) /\ Invalid(x, h - 1)
        OBVIOUS
      <4>1. i + 1 \in i + 1 .. h - 1 /\ h - 1 \in i + 1 .. h - 1 /\ i + 1 \in 1 .. Len(x) /\ h - 1 \in 1 .. Len(x) /\ (i + 1) - 1 = i
        BY <1>1, <2>4
      <4> QED
        BY <1>5, <2>6, <4>1
    <3>3. Invalid(x, i) => t[k].c = "r3"
      <4> SUFFICES ASSUME Invalid(x, i) PROVE t[k].c = "r3"
        OBVIOUS
      <4>1. Len(q[i]) = 3 /\ q[i][3].c = "r3"
        BY <1>4, <2>4, <3>1
      <4> QED
        BY <2>3, <2>6, <4>1
    <3>4. ~Invalid(x, i) => t[k].c = x[i] /\ t[k].n = i /\ x[i] \in Byte
      <4> SUFFICES ASSUME ~Invalid(x, i) PROVE t[k].c = x[i] /\ t[k].n = i /\ x[i] \in Byte
        OBVIOUS
      <4>1. Len(q[i]) = 1 /\ q[i][1].c = x[i] /\ q[i][1].n = i
        BY <1>4, <2>4
      <4> QED
        BY <1>1, <2>3, <2>4, <2>6, <4>1
    <3>5. Invalid(x, h) => t[k + 1].c = "r1" /\ ~Invalid(x, h - 1)
      <4> SUFFICES ASSUME Invalid(x, h) PROVE t[k + 1].c = "r1" /\ ~Invalid(x, h - 1)
        OBVIOUS
      <4>1. h > 1
        BY <2>4, <2>6
      <4> QED
        BY <1>4, <2>3, <2>4, <2>6, <3>1, <4>1
    <3>6. ~Invalid(x, h) => t[k + 1].c = x[h] /\ t[k + 1].n = h /\ x[h] \in Byte
      BY <1>1, <1>4, <2>3, <2>4, <2>6
    <3>7. CASE ~Invalid(x, i) /\ ~Invalid(x, h)
      <4>1. h = i + 1
        BY <2>4, <2>6, <3>2, <3>7
      <4>2. x[i] = "l" <=> x[h] = "t"
        BY <1>1, <2>4, <3>7, <4>1 DEF Invalid
      <4>3. x[i] # "r1" /\ x[i] # "r2" /\ x[h] # "r2" /\ x[h] # "r3"
        BY <1>6, <3>4, <3>6, <3>7
      <4> QED
        BY <2>4, <3>4, <3>6, <3>7, <4>1, <4>2, <4>3 DEF Joint, Follows
    <3>8. CASE ~Invalid(x, i) /\ Invalid(x, h)
      <4>1. h = i + 1
        BY <2>4, <2>6, <3>2, <3>7, <3>8
      <4>2. x[i] # "l"
        BY <1>1, <2>4, <3>8, <4>1 DEF Invalid
      <4>3. x[i] # "r1" /\ x[i] # "r2" /\ "r1" \notin Byte
        BY <1>6, <3>4, <3>8
      <4> QED
        BY <3>4, <3>5, <3>8, <4>2, <4>3 DEF Joint, Follows
    <3>9. CASE Invalid(x, i) /\ ~Invalid(x, h)
      <4>1. Invalid(x, h - 1) /\ h > 1 /\ h - 1 \in 1 .. Len(x)
        <5>1. h > i + 1 \/ h - 1 = i
          BY <2>4, <2>6
        <5>2. h > 1 /\ h - 1 \in 1 .. Len(x)
          BY <1>1, <2>4, <2>6
        <5> QED
          BY <3>2, <3>9, <5>1, <5>2
      <4>2. x[h] # "t"
        <5> SUFFICES ASSUME x[h] = "t" PROVE FALSE
          OBVIOUS
        <5>1. x[h - 1] = "l"
          BY <3>9 DEF Invalid
        <5>2. h - 1 < Len(x) /\ (h - 1) + 1 = h
          BY <1>1, <2>4
        <5> QED
          BY <4>1, <5>1, <5>2 DEF Invalid
      <4>3. x[h] # "r2" /\ x[h] # "r3" /\ "r3" \notin Byte
        BY <1>6, <3>6, <3>9
      <4> QED
        BY <3>3, <3>6, <3>9, <4>2, <4>3 DEF Joint, Follows
    <3>10. CASE Invalid(x, i) /\ Invalid(x, h)
      <4>1. h = i + 1
        BY <2>4, <2>6, <3>2, <3>5, <3>10
      <4>2. h - 1 = i
        BY <2>4, <4>1
      <4> QED
        BY <3>5, <3>10, <4>2
    <3> QED
      BY <3>7, <3>8, <3>9, <3>10
  <2> QED
    BY <2>3, <2>5, <2>6 DEF Neighbours
<1>10. ASSUME Len(t) > 0
       PROVE  t[1].c \notin Close /\ t[Len(t)].c \notin Open /\ (t[Len(t)].c \in Byte => t[Len(t)].n = Len(x))
  <2>1. FlattenSeq(q) # <<>>
    BY <1>2, <1>7, <1>10
  <2>2. PICK i \in 1 .. Len(q) : Len(q[i]) > 0 /\ t[1] = q[i][1] /\ \A g \in 1 .. i - 1 : Len(q[g]) = 0
    BY <1>2, <1>3, <2>1, FlattenEnds
  <2>3. PICK h \in 1 .. Len(q) : Len(q[h]) > 0 /\ t[Len(t)] = q[h][Len(q[h])] /\ \A g \in h + 1 .. Len(q) : Len(q[g]) = 0
    BY <1>2, <1>3, <2>1, FlattenEnds
  <2>4. i \in 1 .. Len(x) /\ h \in 1 .. Len(x) /\ Len(q) = Len(x)
    BY <1>3
  <2>5. i = 1
    <3> SUFFICES ASSUME i # 1 PROVE FALSE
      OBVIOUS
    <3>1. 1 \in 1 .. i - 1 /\ 1 \in 1 .. Len(x)
      BY <1>1, <2>4
    <3> QED
      BY <1>5, <2>2, <3>1
  <2>6. t[1].c \notin Close
    <3>1. CASE Invalid(x, 1)
      <4>1. q[1][1].c = "r1"
        BY <1>4, <2>4, <2>5, <3>1
      <4> QED
        BY <2>2, <2>5, <4>1 DEF Close
    <3>2. CASE ~Invalid(x, 1)
      <4>1. t[1].c = x[1] /\ x[1] # "t" /\ x[1] \in Byte
        BY <1>1, <1>4, <2>2, <2>4, <2>5, <3>2 DEF Invalid
      <4> QED
        BY <1>6, <4>1 DEF Close
    <3> QED
      BY <3>1, <3>2
  <2>7. CASE Invalid(x, h)
    <3>1. Len(q[h]) = 3 /\ q[h][3].c = "r3"
      <4>1. Len(q[h]) # 0
        BY <2>3
      <4> QED
        BY <1>4, <2>4, <2>7, <4>1
    <3>2. t[Len(t)].c = "r3"
      BY <2>3, <3>1
    <3> QED
      BY <1>6, <2>6, <3>2 DEF Open
  <2>8. CASE ~Invalid(x, h)
    <3>1. h = Len(x)
      <4> SUFFICES ASSUME h # Len(x) PROVE FALSE
        OBVIOUS
      <4>1. h + 1 \in h + 1 .. Len(q) /\ h + 1 \in 1 .. Len(x) /\ (h + 1) - 1 = h
        <5>1. h \in Nat /\ h >= 1 /\ h + 1 <= Len(x) /\ Len(q) = Len(x) /\ Len(x) \in Nat
          <6> DEFINE n == Len(x)
          <6>1. n \in Nat /\ h \in 1 .. n /\ h # n /\ Len(q) = n
            BY <1>1, <2>4
          <6> HIDE DEF n
          <6>2. h \in Nat /\ h >= 1 /\ h + 1 <= n
            BY <6>1
          <6> QED
            BY <6>1, <6>2 DEF n
        <5>2. h + 1 \in h + 1 .. Len(x) /\ h + 1 \in 1 .. Len(x)
          BY <5>1
        <5>3. (h + 1) - 1 = h
          BY <5>1
        <5> QED
          BY <5>1, <5>2, <5>3
      <4> QED
        BY <1>5, <2>3, <2>8, <4>1
    <3>2. Len(q[h]) = 1 /\ q[h][1].c = x[h] /\ q[h][1].n = h /\ x[h] \in Byte
      BY <1>1, <1>4, <2>4, <2>8
    <3>3. t[Len(t)].c = x[h] /\ t[Len(t)].n = h
      BY <2>3, <3>2
    <3>4. x[h] # "l"
      BY <1>1, <2>4, <2>8, <3>1 DEF Invalid
    <3> QED
      BY <1>6, <2>6, <3>1, <3>2, <3>3, <3>4 DEF Open
  <2> QED
    BY <2>7, <2>8
<1> QED
  BY <1>7, <1>8, <1>9, <1>10 DEF Sound, t

\* Intervals of the text t, none with the start of another.
Matching(t, M) ==
    /\ \A m \in M : m.from \in 1 .. Len(t) /\ m.to \in m.from .. Len(t)
    /\ \A m \in M, o \in M : m.from = o.from => m = o

\* They are finitely many.
LEMMA MatchingIsFinite ==
    ASSUME NEW t \in Seq(Elems), NEW M, Matching(t, M)
    PROVE  IsFiniteSet(M) /\ Cardinality(M) \in Nat
<1> DEFINE F == { i \in 1 .. Len(t) : \E m \in M : m.from = i }
           f == [ i \in F |-> CHOOSE m \in M : m.from = i ]
<1>1. IsFiniteSet(F)
  <2>1. IsFiniteSet(1 .. Len(t)) /\ F \subseteq 1 .. Len(t)
    <3>1. 1 \in Int /\ Len(t) \in Int
      OBVIOUS
    <3> QED
      BY <3>1, FS_Interval
  <2> HIDE DEF F
  <2> QED
    BY <2>1, FS_Subset
<1>2. \A i \in F : f[i] \in M /\ f[i].from = i
  OBVIOUS
<1>3. \A m \in M : m.from \in F /\ f[m.from] = m
  <2>1. ASSUME NEW m \in M PROVE m.from \in F /\ f[m.from] = m
    <3>1. m.from \in F
      BY DEF Matching
    <3>2. f[m.from] \in M /\ f[m.from].from = m.from
      BY <1>2, <3>1
    <3> QED
      BY <3>1, <3>2 DEF Matching
  <2> QED
    BY <2>1
<1>4. f \in [ F -> M ]
  BY <1>2
<1>5. f \in Surjection(F, M)
  <2> HIDE DEF f, F
  <2> QED
    BY <1>3, <1>4 DEF Surjection
<1>6. IsFiniteSet(M)
  <2> HIDE DEF f, F
  <2> QED
    BY <1>1, <1>5, FS_Surjection
<1> QED
  BY <1>6, FS_CardinalityType

\* The start of an interval, and a place inside of one.
Heads(M, i) == \E m \in M : i = m.from
Covers(M, i) == \E m \in M : i \in m.from .. m.to

\* The number of the placeholder at i, behind d others.
Rank(M, d, i) == d + Cardinality({ m \in M : m.from <= i })

\* What protect makes of the byte at i, with d placeholders so far.
Piece(t, M, d, i) ==
    IF Heads(M, i) THEN << [c |-> "#", n |-> Rank(M, d, i)] >>
    ELSE IF Covers(M, i) THEN <<>>
    ELSE << t[i] >>

\* The text that protect makes of t consists of the pieces q.
Pieces(t, M, d, q) ==
    /\ q \in Seq(Seq(Elems)) /\ Len(q) = Len(t)
    /\ \A i \in 1 .. Len(t) :
          /\ Heads(M, i) => Len(q[i]) = 1 /\ q[i][1].c = "#" /\ q[i][1].n = Rank(M, d, i)
          /\ Covers(M, i) /\ ~Heads(M, i) => Len(q[i]) = 0
          /\ ~Covers(M, i) => Len(q[i]) = 1 /\ q[i][1] = t[i] /\ ~Heads(M, i)

\* protect works piece by piece.
LEMMA ProtectIs ==
    ASSUME NEW s, s.text \in Seq(Elems), Len(s.replacements) \in Nat, NEW M, Matching(s.text, M), NEW category
    PROVE  \E q : Pieces(s.text, M, Len(s.replacements), q) /\ Protect(s, M, category).text = FlattenSeq(q)
<1> DEFINE t == s.text
           d == Len(s.replacements)
           q == [ i \in DOMAIN t |-> Piece(t, M, d, i) ]
<1>1. Protect(s, M, category).text = FlattenSeq(q)
  BY ZenonT(30) DEF Protect, Piece, Heads, Covers, Rank
<1> HIDE DEF t, d
<1>2. t \in Seq(Elems) /\ d \in Nat /\ Matching(t, M)
  BY DEF t, d
<1>3. DOMAIN t = 1 .. Len(t) /\ Len(t) \in Nat
  BY <1>2
<1>4. ASSUME NEW i \in 1 .. Len(t)
      PROVE  /\ Piece(t, M, d, i) \in Seq(Elems)
             /\ Heads(M, i) => /\ Len(Piece(t, M, d, i)) = 1 /\ Piece(t, M, d, i)[1].c = "#"
                               /\ Piece(t, M, d, i)[1].n = Rank(M, d, i)
             /\ Covers(M, i) /\ ~Heads(M, i) => Len(Piece(t, M, d, i)) = 0
             /\ ~Covers(M, i) => Len(Piece(t, M, d, i)) = 1 /\ Piece(t, M, d, i)[1] = t[i] /\ ~Heads(M, i)
  <2> DEFINE a == [c |-> "#", n |-> Rank(M, d, i)]
  <2>1. Rank(M, d, i) \in Nat
    <3>1. IsFiniteSet(M)
      BY <1>2, MatchingIsFinite
    <3>2. IsFiniteSet({ m \in M : m.from <= i })
      BY <3>1, FS_Subset
    <3> QED
      BY <1>2, <3>2, FS_CardinalityType DEF Rank
  <2>2. a \in Elems /\ a.c = "#" /\ a.n = Rank(M, d, i) /\ t[i] \in Elems
    <3>1. "#" \in Symbols
      BY DEF Symbols
    <3>2. t[i] \in Elems
      BY <1>2
    <3>3. a \in Elems
      BY <2>1, <3>1 DEF Elems
    <3> QED
      BY <3>2, <3>3
  <2>3. Heads(M, i) => Covers(M, i)
    <3> SUFFICES ASSUME NEW m \in M, i = m.from PROVE i \in m.from .. m.to
      BY DEF Heads, Covers
    <3>1. m.from \in 1 .. Len(t) /\ m.to \in m.from .. Len(t)
      BY <1>2 DEF Matching
    <3> QED
      BY <1>3, <3>1
  <2>4. Piece(t, M, d, i) = IF Heads(M, i) THEN <<a>> ELSE IF Covers(M, i) THEN <<>> ELSE <<t[i]>>
    BY DEF Piece
  <2> HIDE DEF a
  <2>5. CASE Heads(M, i)
    <3>1. Piece(t, M, d, i) = <<a>>
      BY <2>4, <2>5
    <3> QED
      BY <2>2, <2>3, <2>5, <3>1
  <2>6. CASE ~Heads(M, i) /\ Covers(M, i)
    <3>1. Piece(t, M, d, i) = <<>>
      BY <2>4, <2>6
    <3> QED
      BY <2>6, <3>1
  <2>7. CASE ~Heads(M, i) /\ ~Covers(M, i)
    <3>1. Piece(t, M, d, i) = <<t[i]>>
      BY <2>4, <2>7
    <3> QED
      BY <2>2, <2>7, <3>1
  <2> QED
    BY <2>5, <2>6, <2>7
<1>5. q \in [ 1 .. Len(t) -> Seq(Elems) ] /\ \A i \in 1 .. Len(t) : q[i] = Piece(t, M, d, i)
  BY <1>3, <1>4
<1>6. DOMAIN q = 1 .. Len(t)
  BY <1>3
<1> HIDE DEF q
<1>7. q \in Seq(Seq(Elems)) /\ Len(q) = Len(t)
  BY <1>3, <1>5, <1>6
<1>8. Pieces(t, M, d, q)
  BY <1>4, <1>5, <1>7 DEF Pieces
<1> QED
  BY <1>1, <1>8 DEF t, d

\* Intervals that tear no character.
Aligned(t, M) == \A m \in M : (m.from > 1 => t[m.from - 1].c \notin Open) /\ t[m.to].c \notin Open

\* An interval that covers a place starts there or covers the place before it.
LEMMA CoversBack ==
    ASSUME NEW t, Len(t) \in Nat, NEW M, Matching(t, M), NEW i \in 1 .. Len(t), Covers(M, i), ~Heads(M, i)
    PROVE  i > 1 /\ Covers(M, i - 1)
<1>1. PICK m \in M : i \in m.from .. m.to
  BY DEF Covers
<1>2. m.from # i
  BY DEF Heads
<1>3. m.from \in 1 .. Len(t) /\ m.to \in m.from .. Len(t)
  BY DEF Matching
<1> DEFINE a == m.from
           b == m.to
<1>4. a \in Nat /\ b \in Nat /\ a >= 1 /\ i \in a .. b /\ a # i
  BY <1>1, <1>2, <1>3
<1> HIDE DEF a, b
<1>5. i > 1 /\ i - 1 \in a .. b
  BY <1>4
<1> QED
  BY <1>5 DEF Covers, a, b

\* One that covers a place and not the next ends there.
LEMMA CoversEnd ==
    ASSUME NEW t, Len(t) \in Nat, NEW M, Matching(t, M), NEW i \in 1 .. Len(t), Covers(M, i), ~Covers(M, i + 1)
    PROVE  \E m \in M : m.to = i
<1>1. PICK m \in M : i \in m.from .. m.to
  BY DEF Covers
<1>2. ~(i + 1 \in m.from .. m.to)
  BY DEF Covers
<1>3. m.from \in 1 .. Len(t) /\ m.to \in m.from .. Len(t)
  BY DEF Matching
<1> DEFINE a == m.from
           b == m.to
<1>4. a \in Nat /\ b \in Nat /\ i \in a .. b /\ ~(i + 1 \in a .. b)
  BY <1>1, <1>2, <1>3
<1> HIDE DEF a, b
<1>5. b = i
  BY <1>4
<1> QED
  BY <1>5 DEF b

\* protect keeps a text sound.
LEMMA ProtectIsSound ==
    ASSUME NEW x \in Seq(Byte), NEW t, Sound(t, x), NEW M, Matching(t, M), Aligned(t, M), NEW d, NEW q, Pieces(t, M, d, q)
    PROVE  Sound(FlattenSeq(q), x)
<1> DEFINE r == FlattenSeq(q)
           Hash(e) == e.c = "#"
<1>1. /\ t \in Seq(Elems) /\ Len(t) \in Nat
      /\ \A k \in 1 .. Len(t) : Origin(t[k], x)
      /\ \A k \in 1 .. Len(t) - 1 : Joint(t[k], t[k + 1]) /\ Follows(t[k], t[k + 1])
      /\ Len(t) > 0 => /\ t[1].c \notin Close /\ t[Len(t)].c \notin Open
                       /\ t[Len(t)].c \in Byte => t[Len(t)].n = Len(x)
  BY DEF Sound
<1>2. q \in Seq(Seq(Elems)) /\ Len(q) = Len(t) /\ Len(q) \in Nat
  BY <1>1 DEF Pieces
<1>3. \A i \in 1 .. Len(t) :
          /\ Heads(M, i) => Len(q[i]) = 1 /\ Hash(q[i][1])
          /\ Covers(M, i) /\ ~Heads(M, i) => Len(q[i]) = 0
          /\ ~Covers(M, i) => Len(q[i]) = 1 /\ q[i][1] = t[i] /\ ~Heads(M, i)
  BY DEF Pieces
<1>4. "#" \notin Byte /\ "#" \notin Open /\ "#" \notin Close
  BY DEF Byte, Open, Close
<1>5. \A i \in 1 .. Len(t) : Len(q[i]) # 0 => Len(q[i]) = 1 /\ (Heads(M, i) \/ ~Covers(M, i))
  BY <1>3
<1>6. \A i \in 1 .. Len(t) : Len(q[i]) = 0 => Covers(M, i) /\ ~Heads(M, i)
  BY <1>3
<1>7. ASSUME NEW i \in 1 .. Len(t), NEW h \in i + 1 .. Len(t), Len(q[i]) # 0, Len(q[h]) # 0,
             \A g \in i + 1 .. h - 1 : Len(q[g]) = 0
      PROVE  Joint(q[i][1], q[h][1]) /\ Follows(q[i][1], q[h][1])
  <2>1. h \in 1 .. Len(t) /\ i \in Nat /\ h \in Nat /\ i < h
    BY <1>1
  <2>2. h # i + 1 => Heads(M, i) /\ Covers(M, h - 1)
    <3> SUFFICES ASSUME h # i + 1 PROVE Heads(M, i) /\ Covers(M, h - 1)
      OBVIOUS
    <3>1. i + 1 \in i + 1 .. h - 1 /\ h - 1 \in i + 1 .. h - 1 /\ i + 1 \in 1 .. Len(t) /\ h - 1 \in 1 .. Len(t) /\ (i + 1) - 1 = i
      BY <1>1, <2>1
    <3>2. Covers(M, i + 1) /\ ~Heads(M, i + 1) /\ Covers(M, h - 1)
      BY <1>6, <1>7, <3>1
    <3>3. Covers(M, i)
      BY <1>1, <3>1, <3>2, CoversBack
    <3> QED
      BY <1>5, <1>7, <3>2, <3>3
  <2>3. CASE ~Covers(M, i) /\ ~Covers(M, h)
    <3>1. h = i + 1
      <4> SUFFICES ASSUME h # i + 1 PROVE FALSE
        OBVIOUS
      <4>1. Heads(M, i)
        BY <2>2
      <4> QED
        BY <1>3, <2>3, <4>1
    <3>2. i \in 1 .. Len(t) - 1
      BY <1>1, <2>1, <3>1
    <3>3. q[i][1] = t[i] /\ q[h][1] = t[i + 1]
      BY <1>3, <2>1, <2>3, <3>1
    <3> QED
      BY <1>1, <3>2, <3>3
  <2>4. CASE ~Covers(M, i) /\ Heads(M, h)
    <3>1. h = i + 1 /\ h - 1 = i
      <4> SUFFICES ASSUME h # i + 1 PROVE FALSE
        BY <2>1
      <4>1. Heads(M, i)
        BY <2>2
      <4> QED
        BY <1>3, <2>4, <4>1
    <3>2. PICK m \in M : h = m.from
      BY <2>4 DEF Heads
    <3>3. t[i].c \notin Open
      <4>1. m.from > 1 => t[m.from - 1].c \notin Open
        BY DEF Aligned
      <4> QED
        BY <2>1, <3>1, <3>2, <4>1
    <3>4. q[i][1] = t[i] /\ q[h][1].c = "#"
      BY <1>3, <2>1, <2>4
    <3> QED
      BY <1>4, <3>3, <3>4 DEF Joint, Follows, Open
  <2>5. CASE Heads(M, i) /\ ~Covers(M, h)
    <3>1. Covers(M, h - 1) /\ h - 1 \in 1 .. Len(t) /\ h - 1 \in 1 .. Len(t) - 1 /\ (h - 1) + 1 = h
      <4>1. h - 1 \in 1 .. Len(t) /\ (h - 1) + 1 = h /\ h - 1 \in 1 .. Len(t) - 1
        BY <1>1, <2>1
      <4>2. CASE h = i + 1
        <5>1. h - 1 = i
          BY <2>1, <4>2
        <5>2. Covers(M, i)
          BY <1>3, <2>5
        <5> QED
          BY <4>1, <5>1, <5>2
      <4> QED
        BY <2>2, <4>1, <4>2
    <3>2. PICK m \in M : m.to = h - 1
      <4> DEFINE g == h - 1
      <4>1. g \in 1 .. Len(t) /\ Covers(M, g) /\ ~Covers(M, g + 1)
        BY <2>5, <3>1
      <4> HIDE DEF g
      <4>2. \E m \in M : m.to = g
        BY <1>1, <4>1, CoversEnd
      <4> QED
        BY <4>2 DEF g
    <3>3. t[h - 1].c \notin Open
      BY <3>2 DEF Aligned
    <3>4. Joint(t[h - 1], t[h])
      BY <1>1, <3>1
    <3>5. t[h].c \notin Close
      BY <3>3, <3>4 DEF Joint, Open, Close
    <3>6. q[h][1] = t[h] /\ q[i][1].c = "#"
      BY <1>3, <2>1, <2>5
    <3> QED
      BY <1>4, <3>5, <3>6 DEF Joint, Follows, Close
  <2>6. CASE Heads(M, i) /\ Heads(M, h)
    <3>1. q[h][1].c = "#" /\ q[i][1].c = "#"
      BY <1>3, <2>1, <2>6
    <3> QED
      BY <1>4, <3>1 DEF Joint, Follows
  <2> QED
    BY <1>5, <1>7, <2>1, <2>3, <2>4, <2>5, <2>6
<1>8. r \in Seq(Elems) /\ Len(r) \in Nat
  BY <1>2, FlattenLays
<1> HIDE DEF r
<1>9. ASSUME NEW k \in 1 .. Len(r) PROVE Origin(r[k], x)
  <2>1. k \in 1 .. Len(FlattenSeq(q))
    BY DEF r
  <2>2. PICK i \in 1 .. Len(q) : \E j \in 1 .. Len(q[i]) : FlattenSeq(q)[k] = q[i][j]
    BY <1>2, <2>1, FlattenFrom
  <2>3. PICK j \in 1 .. Len(q[i]) : r[k] = q[i][j]
    BY <2>2 DEF r
  <2>4. i \in 1 .. Len(t)
    BY <1>2
  <2>5. Len(q[i]) = 1 /\ (Heads(M, i) \/ ~Covers(M, i))
    <3>1. Len(q[i]) # 0
      BY <2>3
    <3> QED
      BY <1>5, <2>4, <3>1
  <2>6. r[k] = q[i][1]
    BY <2>3, <2>5
  <2>7. CASE Heads(M, i)
    BY <1>3, <1>4, <2>4, <2>6, <2>7 DEF Origin
  <2>8. CASE ~Covers(M, i)
    BY <1>1, <1>3, <2>4, <2>6, <2>8
  <2> QED
    BY <2>5, <2>7, <2>8
<1>10. ASSUME NEW k \in 1 .. Len(r) - 1 PROVE Joint(r[k], r[k + 1]) /\ Follows(r[k], r[k + 1])
  <2>1. k \in 1 .. Len(FlattenSeq(q)) - 1
    BY DEF r
  <2>2. PICK i \in 1 .. Len(q), h \in 1 .. Len(q) : \E a \in 1 .. Len(q[i]), b \in 1 .. Len(q[h]) :
           FlattenSeq(q)[k] = q[i][a] /\ FlattenSeq(q)[k + 1] = q[h][b] /\ Neighbours(q, i, a, h, b)
    BY <1>2, <2>1, FlattenNext
  <2>3. PICK a \in 1 .. Len(q[i]), b \in 1 .. Len(q[h]) :
           r[k] = q[i][a] /\ r[k + 1] = q[h][b] /\ Neighbours(q, i, a, h, b)
    BY <2>2 DEF r
  <2>4. i \in 1 .. Len(t) /\ h \in 1 .. Len(t) /\ Len(q[i]) # 0 /\ Len(q[h]) # 0
    BY <1>2, <2>3, SMTT(30)
  <2>5. Len(q[i]) = 1 /\ Len(q[h]) = 1
    BY <1>5, <2>4
  <2>6. a = 1 /\ b = 1
    BY <2>3, <2>5
  <2>7. i < h /\ \A g \in i + 1 .. h - 1 : Len(q[g]) = 0
    BY <2>3, <2>6 DEF Neighbours
  <2>8. h \in i + 1 .. Len(t)
    BY <1>1, <2>4, <2>7
  <2> QED
    BY <1>7, <2>3, <2>4, <2>6, <2>7, <2>8
<1>11. ASSUME Len(r) > 0
       PROVE  r[1].c \notin Close /\ r[Len(r)].c \notin Open /\ (r[Len(r)].c \in Byte => r[Len(r)].n = Len(x))
  <2>1. FlattenSeq(q) # <<>>
    BY <1>8, <1>11 DEF r
  <2>2. PICK i \in 1 .. Len(q) : Len(q[i]) > 0 /\ r[1] = q[i][1] /\ \A g \in 1 .. i - 1 : Len(q[g]) = 0
    BY <1>2, <2>1, FlattenEnds DEF r
  <2>3. PICK h \in 1 .. Len(q) : Len(q[h]) > 0 /\ r[Len(r)] = q[h][Len(q[h])] /\ \A g \in h + 1 .. Len(q) : Len(q[g]) = 0
    BY <1>2, <2>1, FlattenEnds DEF r
  <2>4. i \in 1 .. Len(t) /\ h \in 1 .. Len(t) /\ Len(t) > 0 /\ Len(q[i]) # 0 /\ Len(q[h]) # 0
    BY <1>1, <1>2, <2>2, <2>3
  <2>5. i = 1
    <3> SUFFICES ASSUME i # 1 PROVE FALSE
      OBVIOUS
    <3>1. 1 \in 1 .. i - 1 /\ 1 \in 1 .. Len(t)
      BY <1>1, <2>4
    <3>2. Covers(M, 1) /\ ~Heads(M, 1)
      BY <1>6, <2>2, <3>1
    <3>3. 1 > 1
      BY <1>1, <3>1, <3>2, CoversBack
    <3> QED
      BY <3>3
  <2>6. r[1].c \notin Close
    <3>1. Heads(M, 1) \/ ~Covers(M, 1)
      BY <1>5, <2>4, <2>5
    <3> QED
      BY <1>1, <1>3, <1>4, <2>2, <2>4, <2>5, <3>1
  <2>7. Len(q[h]) = 1 /\ r[Len(r)] = q[h][1]
    BY <1>5, <2>3, <2>4
  <2>8. CASE Heads(M, h)
    BY <1>3, <1>4, <2>4, <2>6, <2>7, <2>8
  <2>9. CASE ~Covers(M, h)
    <3>1. h = Len(t)
      <4> SUFFICES ASSUME h # Len(t) PROVE FALSE
        OBVIOUS
      <4> DEFINE n == Len(t)
      <4>1. n \in Nat /\ h \in 1 .. n /\ h # n /\ Len(q) = n
        BY <1>1, <1>2, <2>4
      <4> HIDE DEF n
      <4>2. h + 1 \in h + 1 .. n /\ h + 1 \in 1 .. n /\ (h + 1) - 1 = h
        BY <4>1
      <4>3. Covers(M, h + 1) /\ ~Heads(M, h + 1)
        BY <1>6, <2>3, <4>1, <4>2 DEF n
      <4>4. Covers(M, (h + 1) - 1)
        BY <1>1, <4>2, <4>3, CoversBack DEF n
      <4> QED
        BY <2>9, <4>2, <4>4
    <3>2. r[Len(r)] = t[Len(t)]
      BY <1>3, <2>4, <2>7, <2>9, <3>1
    <3> QED
      BY <1>1, <2>4, <2>6, <3>2
  <2> QED
    BY <1>5, <2>4, <2>8, <2>9
<1> QED
  BY <1>8, <1>9, <1>10, <1>11 DEF Sound, r

\* A text in which no character is torn.
Tidy(t) ==
    /\ t \in Seq(Elems)
    /\ \A k \in 1 .. Len(t) - 1 : Joint(t[k], t[k + 1])
    /\ Len(t) > 0 => t[1].c \notin Close /\ t[Len(t)].c \notin Open

\* It is one of whole characters.
LEMMA TidyIsWhole ==
    ASSUME NEW t, Tidy(t)
    PROVE  Whole(t)
<1> SUFFICES ASSUME NEW k \in 1 .. Len(t)
             PROVE  /\ t[k].c = "l" => k + 1 <= Len(t) /\ t[k + 1].c = "t"
                    /\ t[k].c = "r1" => k + 2 <= Len(t) /\ t[k + 1].c = "r2" /\ t[k + 2].c = "r3"
                    /\ t[k].c = "r2" => k > 1 /\ t[k - 1].c = "r1"
  BY DEF Whole
<1>1. Len(t) \in Nat /\ k \in Nat /\ k >= 1 /\ k <= Len(t) /\ Len(t) > 0
  BY DEF Tidy
<1>2. ASSUME NEW j \in 1 .. Len(t), t[j].c \in Open PROVE j + 1 <= Len(t) /\ Joint(t[j], t[j + 1])
  <2>1. j # Len(t)
    BY <1>1, <1>2 DEF Tidy
  <2>2. j \in 1 .. Len(t) - 1 /\ j + 1 <= Len(t)
    BY <1>1, <2>1
  <2> QED
    BY <2>2 DEF Tidy
<1>3. ASSUME t[k].c = "l" PROVE k + 1 <= Len(t) /\ t[k + 1].c = "t"
  BY <1>2, <1>3 DEF Open, Joint
<1>4. ASSUME t[k].c = "r1" PROVE k + 2 <= Len(t) /\ t[k + 1].c = "r2" /\ t[k + 2].c = "r3"
  <2>1. k + 1 <= Len(t) /\ t[k + 1].c = "r2"
    BY <1>2, <1>4 DEF Open, Joint
  <2> DEFINE j == k + 1
  <2>2. j \in 1 .. Len(t) /\ t[j].c = "r2" /\ j + 1 = k + 2
    BY <1>1, <2>1
  <2> HIDE DEF j
  <2>3. j + 1 <= Len(t) /\ t[j + 1].c = "r3"
    BY <1>2, <2>2 DEF Open, Joint
  <2> QED
    BY <2>1, <2>2, <2>3
<1>5. ASSUME t[k].c = "r2" PROVE k > 1 /\ t[k - 1].c = "r1"
  <2>1. k # 1
    BY <1>1, <1>5 DEF Tidy, Close
  <2> DEFINE j == k - 1
  <2>2. j \in 1 .. Len(t) - 1 /\ j + 1 = k
    BY <1>1, <2>1
  <2> HIDE DEF j
  <2>3. Joint(t[j], t[k])
    BY <2>2 DEF Tidy
  <2>4. t[j].c = "r1"
    BY <1>5, <2>3 DEF Joint
  <2> QED
    BY <1>1, <2>1, <2>4 DEF j
<1> QED
  BY <1>3, <1>4, <1>5

\* truncateValidUTF8 keeps whole characters, and takes nothing but the first bytes.
LEMMA TruncateIsTidy ==
    ASSUME NEW t, Tidy(t), NEW max \in Nat
    PROVE  /\ Tidy(Truncate(t, max)) /\ Len(Truncate(t, max)) <= Len(t)
           /\ \A k \in 1 .. Len(Truncate(t, max)) : Truncate(t, max)[k] = t[k]
<1> DEFINE K == { k \in 0 .. max : k = 0 \/ (k <= Len(t) /\ t[k].c \notin {"l", "r1", "r2"}) }
           m == Max(K)
           r == Truncate(t, max)
<1>1. t \in Seq(Elems) /\ Len(t) \in Nat
  BY DEF Tidy
<1>2. K \subseteq 0 .. max /\ 0 \in K
  OBVIOUS
<1>3. m \in K
  <2> HIDE DEF K
  <2> QED
    BY <1>2, MaxIs
<1>4. m \in Nat /\ m <= Len(t) /\ (m = 0 \/ t[m].c \notin Open)
  BY <1>1, <1>3 DEF Open
<1>5. r = SubSeq(t, 1, m)
  BY DEF Truncate
<1> HIDE DEF K, m, r
<1>6. r \in Seq(Elems) /\ Len(r) = m /\ \A k \in 1 .. m : r[k] = t[k]
  BY <1>1, <1>4, <1>5
<1>7. ASSUME NEW k \in 1 .. Len(r) - 1 PROVE Joint(r[k], r[k + 1])
  <2>1. k \in 1 .. Len(t) - 1 /\ k \in 1 .. m /\ k + 1 \in 1 .. m
    BY <1>1, <1>4, <1>6
  <2> QED
    BY <1>6, <2>1 DEF Tidy
<1>8. ASSUME Len(r) > 0 PROVE r[1].c \notin Close /\ r[Len(r)].c \notin Open
  <2>1. 1 \in 1 .. m /\ m \in 1 .. m /\ Len(t) > 0 /\ m # 0
    BY <1>1, <1>4, <1>6, <1>8
  <2> QED
    BY <1>4, <1>6, <2>1 DEF Tidy
<1>9. Tidy(r)
  BY <1>6, <1>7, <1>8 DEF Tidy
<1> QED
  BY <1>4, <1>6, <1>9 DEF r

\* What Render makes of the text t: every placeholder becomes a marker or nothing.
Shown(s, t, q) ==
    /\ q \in Seq(Seq(Elems)) /\ Len(q) = Len(t)
    /\ \A i \in 1 .. Len(t) :
          /\ t[i].c # "#" => Len(q[i]) = 1 /\ q[i][1] = t[i]
          /\ t[i].c = "#" => (Len(q[i]) # 0 <=> s.replacements[t[i].n].active)
          /\ t[i].c = "#" => \A j \in 1 .. Len(q[i]) : q[i][j].c = "*" /\ q[i][j].n = t[i].n

\* Render works piece by piece.
LEMMA RenderIs ==
    ASSUME NEW s, s.text \in Seq(Elems)
    PROVE  \E q : Shown(s, s.text, q) /\ Render(s) = FlattenSeq(q)
<1> DEFINE t == s.text
           Mark(n) == [ b \in 1 .. MarkerBytes |-> [c |-> "*", n |-> n] ]
           P(i) == IF t[i].c # "#" THEN << t[i] >>
                   ELSE IF s.replacements[t[i].n].active THEN Mark(t[i].n) ELSE <<>>
           q == [ i \in DOMAIN t |-> P(i) ]
<1>1. Render(s) = FlattenSeq(q)
  BY DEF Render
<1> HIDE DEF t
<1>2. t \in Seq(Elems) /\ DOMAIN t = 1 .. Len(t) /\ Len(t) \in Nat
  BY DEF t
<1>3. MarkerBytes \in Nat /\ MarkerBytes # 0
  BY RedactorAssumption
<1>4. ASSUME NEW n \in Nat
      PROVE  Mark(n) \in Seq(Elems) /\ Len(Mark(n)) # 0 /\ \A j \in 1 .. Len(Mark(n)) : Mark(n)[j].c = "*" /\ Mark(n)[j].n = n
  <2> DEFINE e == [c |-> "*", n |-> n]
  <2>1. e \in Elems /\ e.c = "*" /\ e.n = n
    <3>1. "*" \in Symbols
      BY DEF Symbols
    <3> QED
      BY <3>1 DEF Elems
  <2>2. Mark(n) = [ b \in 1 .. MarkerBytes |-> e ]
    OBVIOUS
  <2> HIDE DEF e, Mark
  <2>3. Mark(n) \in [ 1 .. MarkerBytes -> Elems ] /\ DOMAIN Mark(n) = 1 .. MarkerBytes
        /\ \A j \in 1 .. MarkerBytes : Mark(n)[j] = e
    BY <2>1, <2>2
  <2>4. Mark(n) \in Seq(Elems) /\ Len(Mark(n)) = MarkerBytes
    BY <1>3, <2>3
  <2> QED
    BY <1>3, <2>1, <2>3, <2>4
<1>5. ASSUME NEW i \in 1 .. Len(t)
      PROVE  /\ P(i) \in Seq(Elems)
             /\ t[i].c # "#" => Len(P(i)) = 1 /\ P(i)[1] = t[i]
             /\ t[i].c = "#" => (Len(P(i)) # 0 <=> s.replacements[t[i].n].active)
             /\ t[i].c = "#" => \A j \in 1 .. Len(P(i)) : P(i)[j].c = "*" /\ P(i)[j].n = t[i].n
  <2> DEFINE e == t[i]
             z == P(i)
             live == s.replacements[t[i].n].active
  <2>1. e \in Elems /\ e.n \in Nat
    <3>1. e \in Elems
      BY <1>2
    <3> HIDE DEF e
    <3> QED
      BY <3>1 DEF Elems
  <2>2. /\ e.c # "#" => z = <<e>>
        /\ e.c = "#" /\ live => z = Mark(e.n)
        /\ e.c = "#" /\ ~live => z = <<>>
    OBVIOUS
  <2> HIDE DEF e, z, Mark, live
  <2>3. CASE e.c # "#"
    <3>1. z = <<e>>
      BY <2>2, <2>3
    <3>2. z \in Seq(Elems) /\ Len(z) = 1 /\ z[1] = e
      BY <2>1, <3>1
    <3> QED
      BY <2>3, <3>2 DEF e, z
  <2>4. CASE e.c = "#" /\ live
    <3>1. z = Mark(e.n)
      BY <2>2, <2>4
    <3>2. z \in Seq(Elems) /\ Len(z) # 0 /\ \A j \in 1 .. Len(z) : z[j].c = "*" /\ z[j].n = e.n
      BY <1>4, <2>1, <3>1
    <3> QED
      BY <2>4, <3>2 DEF e, z, live
  <2>5. CASE e.c = "#" /\ ~live
    <3>1. z = <<>>
      BY <2>2, <2>5
    <3>2. z \in Seq(Elems) /\ Len(z) = 0
      BY <3>1
    <3>3. \A j \in 1 .. Len(z) : FALSE
      BY <3>2
    <3> QED
      BY <2>5, <3>2, <3>3 DEF e, z, live
  <2> QED
    BY <2>3, <2>4, <2>5
<1> HIDE DEF P
<1>6. q \in [ 1 .. Len(t) -> Seq(Elems) ] /\ \A i \in 1 .. Len(t) : q[i] = P(i)
  BY <1>2, <1>5
<1>7. DOMAIN q = 1 .. Len(t)
  BY <1>2
<1> HIDE DEF q
<1>8. q \in Seq(Seq(Elems)) /\ Len(q) = Len(t)
  BY <1>2, <1>6, <1>7
<1>9. Shown(s, t, q)
  BY <1>5, <1>6, <1>8 DEF Shown
<1> QED
  BY <1>1, <1>9 DEF t

\* Render tears no character: what is beside a placeholder is whole.
LEMMA RenderIsTidy ==
    ASSUME NEW x, NEW s, NEW t, Sound(t, x), NEW q, Shown(s, t, q)
    PROVE  Tidy(FlattenSeq(q))
<1> DEFINE r == FlattenSeq(q)
<1>1. /\ t \in Seq(Elems) /\ Len(t) \in Nat
      /\ \A k \in 1 .. Len(t) - 1 : Joint(t[k], t[k + 1])
      /\ Len(t) > 0 => t[1].c \notin Close /\ t[Len(t)].c \notin Open
  BY DEF Sound
<1>2. q \in Seq(Seq(Elems)) /\ Len(q) = Len(t) /\ Len(q) \in Nat
  BY <1>1 DEF Shown
<1>3. \A i \in 1 .. Len(t) :
          /\ t[i].c # "#" => Len(q[i]) = 1 /\ q[i][1] = t[i]
          /\ t[i].c = "#" => \A j \in 1 .. Len(q[i]) : q[i][j].c = "*"
  BY DEF Shown
<1>4. \A i \in 1 .. Len(t) : Len(q[i]) = 0 => t[i].c = "#"
  BY <1>3
<1>5. ASSUME NEW i \in 1 .. Len(t), NEW h \in 1 .. Len(t), h = i + 1
      PROVE  /\ t[h].c = "#" => t[i].c \notin Open
             /\ t[i].c = "#" => t[h].c \notin Close
  <2>1. i \in 1 .. Len(t) - 1
    BY <1>1, <1>5
  <2>2. Joint(t[i], t[h])
    BY <1>1, <1>5, <2>1
  <2> QED
    BY <2>2 DEF Joint, Open, Close
<1>6. "*" \notin Open /\ "*" \notin Close
  BY DEF Open, Close
<1>7. r \in Seq(Elems) /\ Len(r) \in Nat
  BY <1>2, FlattenLays
<1> HIDE DEF r
<1>8. ASSUME NEW k \in 1 .. Len(r) - 1 PROVE Joint(r[k], r[k + 1])
  <2>1. k \in 1 .. Len(FlattenSeq(q)) - 1
    BY DEF r
  <2>2. PICK i \in 1 .. Len(q), h \in 1 .. Len(q) : \E a \in 1 .. Len(q[i]), b \in 1 .. Len(q[h]) :
           FlattenSeq(q)[k] = q[i][a] /\ FlattenSeq(q)[k + 1] = q[h][b] /\ Neighbours(q, i, a, h, b)
    BY <1>2, <2>1, FlattenNext
  <2>3. PICK a \in 1 .. Len(q[i]), b \in 1 .. Len(q[h]) :
           r[k] = q[i][a] /\ r[k + 1] = q[h][b] /\ Neighbours(q, i, a, h, b)
    BY <2>2 DEF r
  <2>4. i \in 1 .. Len(t) /\ h \in 1 .. Len(t) /\ i \in Nat /\ h \in Nat
    BY <1>2
  <2>5. CASE h = i /\ b = a + 1
    <3>1. t[i].c = "#"
      <4> SUFFICES ASSUME t[i].c # "#" PROVE FALSE
        OBVIOUS
      <4>1. Len(q[i]) = 1
        BY <1>3, <2>4
      <4>2. a \in 1 .. 1 /\ a + 1 \in 1 .. 1
        BY <2>3, <2>5, <4>1
      <4> QED
        BY <4>2
    <3>2. r[k].c = "*" /\ r[k + 1].c = "*"
      BY <1>3, <2>3, <2>4, <2>5, <3>1
    <3> QED
      BY <3>2 DEF Joint
  <2>6. CASE i < h /\ a = Len(q[i]) /\ b = 1 /\ \A g \in i + 1 .. h - 1 : Len(q[g]) = 0
    <3>1. i + 1 \in 1 .. Len(t) /\ h - 1 \in 1 .. Len(t) /\ h = (h - 1) + 1
      BY <1>1, <2>4, <2>6
    <3>2. h # i + 1 => t[i + 1].c = "#" /\ t[h - 1].c = "#"
      <4> SUFFICES ASSUME h # i + 1 PROVE t[i + 1].c = "#" /\ t[h - 1].c = "#"
        OBVIOUS
      <4>1. i + 1 \in i + 1 .. h - 1 /\ h - 1 \in i + 1 .. h - 1
        BY <2>4, <2>6
      <4> QED
        BY <1>4, <2>6, <3>1, <4>1
    <3>3. /\ t[i].c # "#" => r[k] = t[i]
          /\ t[i].c = "#" => r[k].c = "*"
          /\ t[h].c # "#" => r[k + 1] = t[h]
          /\ t[h].c = "#" => r[k + 1].c = "*"
      BY <1>3, <2>3, <2>4, <2>6
    <3>4. t[i + 1].c = "#" => t[i].c \notin Open
      BY <1>5, <2>4, <3>1
    <3>5. t[h - 1].c = "#" => t[h].c \notin Close
      BY <1>5, <2>4, <3>1
    <3>6. CASE t[i].c # "#" /\ t[h].c # "#"
      <4>1. CASE h = i + 1
        <5>1. i \in 1 .. Len(t) - 1
          BY <1>1, <2>4, <4>1
        <5> QED
          BY <1>1, <3>3, <3>6, <4>1, <5>1
      <4>2. CASE h # i + 1
        BY <3>2, <3>3, <3>4, <3>5, <3>6, <4>2 DEF Joint, Open, Close
      <4> QED
        BY <4>1, <4>2
    <3>7. CASE t[i].c # "#" /\ t[h].c = "#"
      <4>1. t[i + 1].c = "#"
        BY <3>2, <3>7
      <4> QED
        BY <3>3, <3>4, <3>7, <4>1 DEF Joint, Open
    <3>8. CASE t[i].c = "#" /\ t[h].c # "#"
      <4>1. t[h - 1].c = "#"
        <5>1. h = i + 1 => h - 1 = i
          BY <2>4
        <5> QED
          BY <3>2, <3>8, <5>1
      <4> QED
        BY <3>3, <3>5, <3>8, <4>1 DEF Joint, Close
    <3>9. CASE t[i].c = "#" /\ t[h].c = "#"
      BY <3>3, <3>9 DEF Joint
    <3> QED
      BY <3>6, <3>7, <3>8, <3>9
  <2> QED
    BY <2>3, <2>5, <2>6 DEF Neighbours
<1>9. ASSUME Len(r) > 0 PROVE r[1].c \notin Close /\ r[Len(r)].c \notin Open
  <2>1. FlattenSeq(q) # <<>>
    BY <1>7, <1>9 DEF r
  <2>2. PICK i \in 1 .. Len(q) : Len(q[i]) > 0 /\ r[1] = q[i][1] /\ \A g \in 1 .. i - 1 : Len(q[g]) = 0
    BY <1>2, <2>1, FlattenEnds DEF r
  <2>3. PICK h \in 1 .. Len(q) : Len(q[h]) > 0 /\ r[Len(r)] = q[h][Len(q[h])] /\ \A g \in h + 1 .. Len(q) : Len(q[g]) = 0
    BY <1>2, <2>1, FlattenEnds DEF r
  <2>4. i \in 1 .. Len(t) /\ h \in 1 .. Len(t) /\ Len(t) > 0 /\ i \in Nat /\ h \in Nat /\ Len(q[i]) \in Nat /\ Len(q[h]) \in Nat
    BY <1>1, <1>2
  <2>5. 1 \in 1 .. Len(q[i]) /\ Len(q[h]) \in 1 .. Len(q[h])
    BY <2>2, <2>3, <2>4
  <2>6. r[1].c \notin Close
    <3>1. CASE t[i].c = "#"
      BY <1>3, <1>6, <2>2, <2>4, <2>5, <3>1
    <3>2. CASE t[i].c # "#" /\ i = 1
      BY <1>1, <1>3, <2>2, <2>4, <3>2
    <3>3. CASE t[i].c # "#" /\ i # 1
      <4>1. i - 1 \in 1 .. i - 1 /\ i - 1 \in 1 .. Len(t) /\ i = (i - 1) + 1
        BY <1>1, <2>4, <3>3
      <4>2. t[i - 1].c = "#"
        BY <1>4, <2>2, <4>1
      <4>3. t[i].c \notin Close
        BY <1>5, <2>4, <4>1, <4>2
      <4> QED
        BY <1>3, <2>2, <2>4, <3>3, <4>3
    <3> QED
      BY <3>1, <3>2, <3>3
  <2>7. r[Len(r)].c \notin Open
    <3>1. CASE t[h].c = "#"
      BY <1>3, <1>6, <2>3, <2>4, <2>5, <3>1
    <3>2. CASE t[h].c # "#" /\ h = Len(t)
      BY <1>1, <1>3, <2>3, <2>4, <3>2
    <3>3. CASE t[h].c # "#" /\ h # Len(t)
      <4>1. h + 1 \in h + 1 .. Len(t) /\ h + 1 \in 1 .. Len(t)
        BY <1>1, <2>4, <3>3
      <4>2. t[h + 1].c = "#"
        BY <1>2, <1>4, <2>3, <4>1
      <4>3. t[h].c \notin Open
        BY <1>5, <2>4, <4>1, <4>2
      <4> QED
        BY <1>3, <2>3, <2>4, <3>3, <4>3
    <3> QED
      BY <3>1, <3>2, <3>3
  <2> QED
    BY <2>6, <2>7
<1> QED
  BY <1>7, <1>8, <1>9 DEF Tidy, r

\* The bytes of a text.
LEMMA BytesIs ==
    ASSUME NEW t \in Seq(Elems)
    PROVE  /\ Bytes(t) \in Seq(Symbols) /\ Len(Bytes(t)) = Len(t) /\ DOMAIN Bytes(t) = 1 .. Len(t) /\ Len(t) \in Nat
           /\ \A i \in 1 .. Len(t) : Bytes(t)[i] = t[i].c
<1>1. Len(t) \in Nat /\ DOMAIN t = 1 .. Len(t) /\ \A i \in 1 .. Len(t) : t[i] \in Elems
  OBVIOUS
<1>2. \A i \in 1 .. Len(t) : t[i].c \in Symbols
  BY <1>1 DEF Elems
<1> DEFINE y == Bytes(t)
<1>3. DOMAIN y = 1 .. Len(t) /\ \A i \in 1 .. Len(t) : y[i] = t[i].c
  BY <1>1 DEF Bytes
<1>4. y \in [ 1 .. Len(t) -> Symbols ]
  BY <1>1, <1>2 DEF Bytes
<1> HIDE DEF y
<1>5. y \in Seq(Symbols) /\ Len(y) = Len(t)
  BY <1>1, <1>3, <1>4
<1> QED
  BY <1>1, <1>3, <1>5 DEF y

\* The neighbours of bytes that begin no character, in a sound text.
LEMMA Beside ==
    ASSUME NEW x, NEW t, Sound(t, x), NEW i \in 1 .. Len(t)
    PROVE  /\ i > 1 /\ t[i].c \notin Close => t[i - 1].c \notin Open
           /\ i = Len(t) => t[i].c \notin Open
<1>1. Len(t) \in Nat /\ i \in Nat /\ i >= 1 /\ Len(t) > 0
  BY DEF Sound
<1>2. ASSUME i > 1, t[i].c \notin Close PROVE t[i - 1].c \notin Open
  <2> DEFINE k == i - 1
  <2>1. k \in 1 .. Len(t) - 1 /\ k + 1 = i
    BY <1>1, <1>2
  <2> HIDE DEF k
  <2>2. Joint(t[k], t[i])
    BY <2>1 DEF Sound
  <2>3. t[k].c \notin Open
    BY <1>2, <2>2 DEF Joint, Open, Close
  <2> QED
    BY <2>3 DEF k
<1> QED
  BY <1>1, <1>2 DEF Sound

\* What is hidden of the matches R, when each has a byte before it that stays.
LEMMA HiddenMatches ==
    ASSUME NEW x, NEW t, Sound(t, x), NEW R, NEW e \in {0, 1},
           \A m \in R : /\ m.from \in 1 .. Len(t) /\ m.to \in 1 .. Len(t) /\ m.from + 1 <= m.to - e
                        /\ t[m.from].c \notin Open /\ t[m.to - e].c \notin Open,
           \A m \in R, o \in R : m.from = o.from => m.to = o.to
    PROVE  Matching(t, Hidden(R, e)) /\ Aligned(t, Hidden(R, e))
<1> DEFINE M == Hidden(R, e)
<1>1. Len(t) \in Nat
  BY DEF Sound
<1>2. ASSUME NEW m \in M
      PROVE  \E o \in R : m = [ from |-> o.from + 1, to |-> o.to - e ] /\ m.from = o.from + 1 /\ m.to = o.to - e
  BY DEF Hidden
<1> HIDE DEF M
<1>3. ASSUME NEW m \in M
      PROVE  /\ m.from \in 1 .. Len(t) /\ m.to \in m.from .. Len(t)
             /\ t[m.from - 1].c \notin Open /\ t[m.to].c \notin Open
  <2>1. PICK o \in R : m.from = o.from + 1 /\ m.to = o.to - e
    BY <1>2
  <2> DEFINE a == o.from
             b == o.to
  <2>2. /\ a \in 1 .. Len(t) /\ b \in 1 .. Len(t) /\ a + 1 <= b - e
        /\ t[a].c \notin Open /\ t[b - e].c \notin Open
    OBVIOUS
  <2>3. m.from = a + 1 /\ m.to = b - e
    BY <2>1
  <2> HIDE DEF a, b
  <2>4. a + 1 \in 1 .. Len(t) /\ b - e \in a + 1 .. Len(t) /\ (a + 1) - 1 = a
    BY <1>1, <2>2
  <2> QED
    BY <2>2, <2>3, <2>4
<1>4. ASSUME NEW m \in M, NEW n \in M, m.from = n.from PROVE m = n
  <2>1. PICK o \in R : m = [ from |-> o.from + 1, to |-> o.to - e ] /\ m.from = o.from + 1
    BY <1>2
  <2>2. PICK p \in R : n = [ from |-> p.from + 1, to |-> p.to - e ] /\ n.from = p.from + 1
    BY <1>2
  <2>3. o.from \in Int /\ p.from \in Int
    OBVIOUS
  <2>4. o.from = p.from
    BY <1>4, <2>1, <2>2, <2>3
  <2>5. o.to = p.to
    BY <2>4
  <2> QED
    BY <2>1, <2>2, <2>4, <2>5
<1>5. Matching(t, M)
  BY <1>3, <1>4 DEF Matching
<1>6. Aligned(t, M)
  BY <1>3 DEF Aligned
<1> QED
  BY <1>5, <1>6 DEF M

\* The matches of urlCredentialRE.
LEMMA UrlsMatch ==
    ASSUME NEW x, NEW t, Sound(t, x)
    PROVE  LET M == Hidden(UrlCredentials(Bytes(t)), 1) IN Matching(t, M) /\ Aligned(t, M)
<1> DEFINE y == Bytes(t)
           R == UrlCredentials(y)
           colon(m) == First(y, m.from + 1, Stops \cup {":"})
<1>1. t \in Seq(Elems)
  BY DEF Sound
<1>2. /\ y \in Seq(Symbols) /\ Len(y) = Len(t) /\ DOMAIN y = 1 .. Len(t) /\ Len(t) \in Nat
      /\ \A i \in 1 .. Len(t) : y[i] = t[i].c
  BY <1>1, BytesIs
<1> HIDE DEF y
<1>3. ASSUME NEW m \in R
      PROVE  /\ m.from \in 1 .. Len(t) /\ y[m.from] = "S" /\ m.to \in 1 .. Len(t) /\ y[m.to] = "@"
             /\ m.from + 1 < colon(m) /\ colon(m) + 1 < m.to /\ m.to = First(y, colon(m) + 1, Stops)
             /\ colon(m) \in Nat
  <2>1. colon(m) \in Nat
    <3>1. m.from \in Nat /\ m.from + 1 \in Nat
      BY <1>2 DEF UrlCredentials
    <3> QED
      BY <1>2, <3>1, FirstIs
  <2>2. /\ m \in [ from : { i \in DOMAIN y : y[i] = "S" }, to : { j \in DOMAIN y : y[j] = "@" } ]
        /\ m.from + 1 < colon(m) /\ m.to = First(y, colon(m) + 1, Stops) /\ colon(m) + 1 < m.to
    BY DEF UrlCredentials
  <2> HIDE DEF colon
  <2>3. m.from \in DOMAIN y /\ y[m.from] = "S" /\ m.to \in DOMAIN y /\ y[m.to] = "@"
    BY <2>2
  <2> QED
    BY <1>2, <2>1, <2>2, <2>3 DEF colon
<1>4. ASSUME NEW m \in R
      PROVE  /\ m.from \in 1 .. Len(t) /\ m.to \in 1 .. Len(t) /\ m.from + 1 <= m.to - 1
             /\ t[m.from].c \notin Open /\ t[m.to - 1].c \notin Open
  <2> DEFINE a == m.from
             b == m.to
             c == colon(m)
  <2>1. /\ a \in 1 .. Len(t) /\ y[a] = "S" /\ b \in 1 .. Len(t) /\ y[b] = "@" /\ a + 1 < c /\ c + 1 < b /\ c \in Nat
    BY <1>3
  <2> HIDE DEF a, b, c
  <2>2. a + 1 <= b - 1 /\ b > 1
    BY <2>1
  <2>3. t[a].c = "S" /\ t[b].c = "@"
    BY <1>2, <2>1
  <2>4. t[b - 1].c \notin Open
    BY <2>1, <2>2, <2>3, Beside DEF Close
  <2> QED
    BY <2>1, <2>2, <2>3, <2>4 DEF a, b, Open
<1>5. ASSUME NEW m \in R, NEW o \in R, m.from = o.from PROVE m.to = o.to
  <2>1. m.to = First(y, colon(m) + 1, Stops) /\ o.to = First(y, colon(o) + 1, Stops)
    BY <1>3
  <2>2. colon(m) = colon(o)
    BY <1>5
  <2> QED
    BY <2>1, <2>2
<1> HIDE DEF R
<1>6. Matching(t, Hidden(R, 1)) /\ Aligned(t, Hidden(R, 1))
  BY <1>4, <1>5, HiddenMatches
<1> QED
  BY <1>6 DEF R, y

\* The matches of incompleteURLRE.
LEMMA IncompleteMatch ==
    ASSUME NEW x, NEW t, Sound(t, x)
    PROVE  LET M == Hidden(IncompleteUrls(Bytes(t)), 0) IN Matching(t, M) /\ Aligned(t, M)
<1> DEFINE y == Bytes(t)
           R == IncompleteUrls(y)
           colon(m) == First(y, m.from + 1, Stops \cup {":"})
<1>1. t \in Seq(Elems)
  BY DEF Sound
<1>2. /\ y \in Seq(Symbols) /\ Len(y) = Len(t) /\ DOMAIN y = 1 .. Len(t) /\ Len(t) \in Nat
      /\ \A i \in 1 .. Len(t) : y[i] = t[i].c
  BY <1>1, BytesIs
<1> HIDE DEF y
<1>3. ASSUME NEW m \in R
      PROVE  /\ m.from \in 1 .. Len(t) /\ y[m.from] = "S" /\ m.to = Len(t)
             /\ m.from + 1 < colon(m) /\ colon(m) <= Len(t) /\ colon(m) \in Nat
  <2>1. colon(m) \in Nat
    <3>1. m.from \in Nat /\ m.from + 1 \in Nat
      BY <1>2 DEF IncompleteUrls
    <3> QED
      BY <1>2, <3>1, FirstIs
  <2>2. /\ m \in [ from : { i \in DOMAIN y : y[i] = "S" }, to : {Len(y)} ]
        /\ m.from + 1 < colon(m) /\ colon(m) <= Len(y)
    BY DEF IncompleteUrls
  <2> HIDE DEF colon
  <2>3. m.from \in DOMAIN y /\ y[m.from] = "S" /\ m.to = Len(y)
    BY <2>2
  <2> QED
    BY <1>2, <2>1, <2>2, <2>3 DEF colon
<1>4. ASSUME NEW m \in R
      PROVE  /\ m.from \in 1 .. Len(t) /\ m.to \in 1 .. Len(t) /\ m.from + 1 <= m.to - 0
             /\ t[m.from].c \notin Open /\ t[m.to - 0].c \notin Open
  <2> DEFINE a == m.from
             n == Len(t)
             c == colon(m)
  <2>1. a \in 1 .. n /\ y[a] = "S" /\ m.to = n /\ a + 1 < c /\ c <= n /\ c \in Nat /\ n \in Nat
    BY <1>2, <1>3
  <2> HIDE DEF a, c
  <2>2. a + 1 <= n /\ n \in 1 .. n /\ n - 0 = n
    BY <2>1
  <2>3. t[a].c = "S"
    BY <1>2, <2>1
  <2>4. t[n].c \notin Open
    BY <2>1, <2>2, Beside
  <2> QED
    BY <2>1, <2>2, <2>3, <2>4 DEF a, Open
<1>5. ASSUME NEW m \in R, NEW o \in R, m.from = o.from PROVE m.to = o.to
  BY <1>3
<1> HIDE DEF R
<1>6. Matching(t, Hidden(R, 0)) /\ Aligned(t, Hidden(R, 0))
  BY <1>4, <1>5, HiddenMatches
<1> QED
  BY <1>6 DEF R, y

\* The matches of assignmentRE.
LEMMA AssignmentsMatch ==
    ASSUME NEW x, NEW t, Sound(t, x)
    PROVE  LET M == Hidden(Assignments(Bytes(t)), 0) IN Matching(t, M) /\ Aligned(t, M)
<1> DEFINE y == Bytes(t)
           R == Assignments(y)
           end(m) == First(y, m.from + 1, White)
<1>1. t \in Seq(Elems)
  BY DEF Sound
<1>2. /\ y \in Seq(Symbols) /\ Len(y) = Len(t) /\ DOMAIN y = 1 .. Len(t) /\ Len(t) \in Nat
      /\ \A i \in 1 .. Len(t) : y[i] = t[i].c
  BY <1>1, BytesIs
<1> HIDE DEF y
<1>3. ASSUME NEW m \in R
      PROVE  /\ m.from \in 1 .. Len(t) /\ y[m.from] = "P" /\ m.to \in 1 .. Len(t) /\ m.to = end(m) - 1 /\ m.from < m.to
             /\ end(m) \in Nat /\ end(m) <= Len(t) + 1 /\ (end(m) <= Len(t) => y[end(m)] = "n")
  <2>1. /\ m \in [ from : { i \in DOMAIN y : y[i] = "P" }, to : DOMAIN y ]
        /\ m.to = end(m) - 1 /\ m.from < m.to
    BY DEF Assignments
  <2> HIDE DEF end
  <2>2. m.from \in DOMAIN y /\ y[m.from] = "P" /\ m.to \in DOMAIN y
    BY <2>1
  <2>3. end(m) \in Nat /\ end(m) <= Len(y) + 1 /\ (end(m) <= Len(y) => y[end(m)] \in White)
    <3>1. m.from + 1 \in Nat
      BY <1>2, <2>2
    <3> QED
      BY <1>2, <3>1, FirstIs DEF end
  <2> QED
    BY <1>2, <2>1, <2>2, <2>3 DEF end, White
<1>4. ASSUME NEW m \in R
      PROVE  /\ m.from \in 1 .. Len(t) /\ m.to \in 1 .. Len(t) /\ m.from + 1 <= m.to - 0
             /\ t[m.from].c \notin Open /\ t[m.to - 0].c \notin Open
  <2> DEFINE a == m.from
             b == m.to
             c == end(m)
  <2>1. /\ a \in 1 .. Len(t) /\ y[a] = "P" /\ b \in 1 .. Len(t) /\ b = c - 1 /\ a < b
        /\ c \in Nat /\ c <= Len(t) + 1 /\ (c <= Len(t) => y[c] = "n")
    BY <1>3
  <2> HIDE DEF a, b, c
  <2>2. a + 1 <= b /\ b - 0 = b
    BY <2>1
  <2>3. t[a].c = "P"
    BY <1>2, <2>1
  <2>4. t[b].c \notin Open
    <3>1. CASE c <= Len(t)
      <4>1. c \in 1 .. Len(t) /\ c > 1 /\ c - 1 = b
        BY <1>2, <2>1, <3>1
      <4>2. t[c].c \notin Close
        BY <1>2, <2>1, <3>1, <4>1 DEF Close
      <4> QED
        BY <4>1, <4>2, Beside
    <3>2. CASE ~(c <= Len(t))
      <4>1. b = Len(t)
        BY <1>2, <2>1, <3>2
      <4> QED
        BY <2>1, <4>1, Beside
    <3> QED
      BY <3>1, <3>2
  <2> QED
    BY <2>1, <2>2, <2>3, <2>4 DEF a, b, Open
<1>5. ASSUME NEW m \in R, NEW o \in R, m.from = o.from PROVE m.to = o.to
  <2>1. m.to = end(m) - 1 /\ o.to = end(o) - 1
    BY <1>3
  <2>2. end(m) = end(o)
    BY <1>5
  <2> QED
    BY <2>1, <2>2
<1> HIDE DEF R
<1>6. Matching(t, Hidden(R, 0)) /\ Aligned(t, Hidden(R, 0))
  BY <1>4, <1>5, HiddenMatches
<1> QED
  BY <1>6 DEF R, y

\* A suffix, byte by byte.
LEMMA SuffixIs ==
    ASSUME NEW A, NEW p \in Seq(A), NEW B, NEW y \in Seq(B)
    PROVE  IsSuffix(p, y) <=> /\ Len(p) <= Len(y)
                              /\ \A i \in 1 .. Len(p) : y[(Len(y) - Len(p)) + i] = p[i]
<1> DEFINE n == Len(p)
           m == Len(y)
           u == Reverse(p)
           v == Reverse(y)
<1>1. n \in Nat /\ m \in Nat
  OBVIOUS
<1>2. u \in Seq(A) /\ Len(u) = n /\ \A i \in 1 .. n : u[i] = p[(n - i) + 1]
  <2>1. \A i \in 1 .. n : (n - i) + 1 \in 1 .. n
    BY <1>1
  <2> QED
    BY <1>1, <2>1 DEF Reverse
<1>3. v \in Seq(B) /\ Len(v) = m /\ \A i \in 1 .. m : v[i] = y[(m - i) + 1]
  <2>1. \A i \in 1 .. m : (m - i) + 1 \in 1 .. m
    BY <1>1
  <2> QED
    BY <1>1, <2>1 DEF Reverse
<1>4. IsSuffix(p, y) <=> Len(u) <= Len(v) /\ SubSeq(u, 1, Len(u)) = SubSeq(v, 1, Len(u))
  BY DEF IsSuffix, IsPrefix
<1> HIDE DEF n, m, u, v
<1>5. IsSuffix(p, y) <=> n <= m /\ \A i \in 1 .. n : u[i] = v[i]
  <2>1. IsSuffix(p, y) <=> n <= m /\ SubSeq(u, 1, n) = SubSeq(v, 1, n)
    BY <1>2, <1>3, <1>4
  <2>2. ASSUME n <= m PROVE SubSeq(u, 1, n) = SubSeq(v, 1, n) <=> \A i \in 1 .. n : u[i] = v[i]
    <3>1. /\ SubSeq(u, 1, n) = [ i \in 1 .. n |-> u[i] ]
          /\ SubSeq(v, 1, n) = [ i \in 1 .. n |-> v[i] ]
      BY <1>1, <1>2, <1>3, <2>2
    <3> QED
      BY <3>1
  <2> QED
    BY <2>1, <2>2
<1>6. ASSUME n <= m
      PROVE  (\A i \in 1 .. n : u[i] = v[i]) <=> \A i \in 1 .. n : y[(m - n) + i] = p[i]
  <2>1. ASSUME NEW i \in 1 .. n
        PROVE  (n - i) + 1 \in 1 .. n /\ (n - ((n - i) + 1)) + 1 = i /\ (m - n) + i = (m - ((n - i) + 1)) + 1 /\ i \in 1 .. m
    BY <1>1, <1>6
  <2>2. ASSUME NEW i \in 1 .. n, u[(n - i) + 1] = v[(n - i) + 1] PROVE y[(m - n) + i] = p[i]
    <3> DEFINE j == (n - i) + 1
    <3>1. j \in 1 .. n /\ j \in 1 .. m /\ (n - j) + 1 = i /\ (m - n) + i = (m - j) + 1
      BY <1>1, <1>6, <2>1
    <3> HIDE DEF j
    <3>2. u[j] = p[(n - j) + 1] /\ v[j] = y[(m - j) + 1]
      BY <1>2, <1>3, <3>1
    <3>3. u[j] = v[j]
      BY <2>2 DEF j
    <3> QED
      BY <3>1, <3>2, <3>3
  <2>3. ASSUME NEW i \in 1 .. n, y[(m - n) + ((n - i) + 1)] = p[(n - i) + 1] PROVE u[i] = v[i]
    <3>1. u[i] = p[(n - i) + 1] /\ v[i] = y[(m - i) + 1]
      BY <1>2, <1>3, <2>1
    <3>2. (m - n) + ((n - i) + 1) = (m - i) + 1
      BY <1>1
    <3> QED
      BY <2>3, <3>1, <3>2
  <2>4. ASSUME \A i \in 1 .. n : u[i] = v[i], NEW i \in 1 .. n PROVE y[(m - n) + i] = p[i]
    BY <2>1, <2>2, <2>4
  <2>5. ASSUME \A i \in 1 .. n : y[(m - n) + i] = p[i], NEW i \in 1 .. n PROVE u[i] = v[i]
    BY <2>1, <2>3, <2>5
  <2> QED
    BY <2>4, <2>5
<1>7. IsSuffix(p, y) <=> n <= m /\ \A i \in 1 .. n : y[(m - n) + i] = p[i]
  BY <1>5, <1>6
<1> QED
  BY <1>7 DEF n, m

\* Bytes of the input at the end of a sound text are the last bytes of the input.
LEMMA SoundTail ==
    ASSUME NEW x \in Seq(Byte), NEW t, Sound(t, x), NEW o \in 1 .. Len(t), \A k \in o .. Len(t) : t[k].c \in Byte
    PROVE  \A k \in o .. Len(t) : t[k].n \in Nat /\ t[k].n = Len(x) - (Len(t) - k)
<1> DEFINE n == Len(t)
           m == Len(x)
           S == { d \in Nat : d <= n - o => t[n - d].n = m - d }
<1>1. n \in Nat /\ m \in Nat /\ o \in Nat /\ o >= 1 /\ o <= n /\ n > 0
  BY DEF Sound
<1>2. ASSUME NEW k \in o .. n
      PROVE  t[k].n \in Nat /\ k \in 1 .. n /\ t[k].c \in Byte
  <2>1. k \in 1 .. n /\ t[k].c \in Byte
    BY <1>1
  <2>2. Origin(t[k], x)
    BY <2>1 DEF Sound
  <2>3. t[k].n \in 1 .. Len(x)
    BY <2>1, <2>2 DEF Origin
  <2> HIDE DEF n
  <2> QED
    BY <2>1, <2>3
<1>3. 0 \in S
  <2>1. t[n].n = m
    BY <1>1, <1>2 DEF Sound
  <2>2. n - 0 = n /\ m - 0 = m
    BY <1>1
  <2> QED
    BY <2>1, <2>2
<1>4. ASSUME NEW d \in Nat, d \in S PROVE d + 1 \in S
  <2> SUFFICES ASSUME d + 1 <= n - o PROVE t[n - (d + 1)].n = m - (d + 1)
    OBVIOUS
  <2> DEFINE k == n - (d + 1)
  <2>1. k \in o .. n /\ k \in 1 .. n - 1 /\ k + 1 = n - d /\ k + 1 \in o .. n /\ d <= n - o
    BY <1>1
  <2>2. t[k + 1].n = m - d
    BY <1>4, <2>1
  <2> HIDE DEF k
  <2>3. Follows(t[k], t[k + 1])
    BY <2>1 DEF Sound
  <2>4. t[k].n \in Nat /\ t[k + 1].n = t[k].n + 1
    BY <1>2, <2>1, <2>3 DEF Follows
  <2> DEFINE e == t[k].n
  <2>5. e \in Nat /\ e + 1 = m - d
    BY <2>2, <2>4
  <2> HIDE DEF e
  <2>6. e = m - (d + 1)
    BY <1>1, <2>5
  <2> QED
    BY <2>6 DEF e, k
<1>5. Nat \subseteq S
  <2> HIDE DEF S
  <2> QED
    BY <1>3, <1>4, SetInduction
<1>6. ASSUME NEW k \in o .. n PROVE t[k].n = m - (n - k)
  <2> DEFINE d == n - k
  <2>1. d \in Nat /\ d <= n - o /\ n - d = k
    BY <1>1
  <2> HIDE DEF d
  <2>2. t[n - d].n = m - d
    BY <1>5, <2>1
  <2> QED
    BY <2>1, <2>2 DEF d
<1> QED
  BY <1>2, <1>6

\* The part p of the input x that redactInspected takes from a scheme or from behind one up
\* to the limit.
Trailing(p, x) ==
    /\ p \in Seq(Byte) /\ Len(p) >= 1 /\ Len(p) <= Len(x)
    /\ \A i \in 1 .. Len(p) : p[i] = x[(Len(x) - Len(p)) + i]
    /\ p[1] = "S" \/ (Len(p) < Len(x) /\ x[Len(x) - Len(p)] = "S")

\* Its place at the end of a sound text.
LEMMA TrailingMatches ==
    ASSUME NEW x \in Seq(Byte), NEW t, Sound(t, x), NEW p, Trailing(p, x), IsSuffix(p, Bytes(t))
    PROVE  LET M == {[ from |-> Len(t) - Len(p) + 1, to |-> Len(t) ]} IN Matching(t, M) /\ Aligned(t, M)
<1> DEFINE n == Len(t)
           o == (Len(t) - Len(p)) + 1
           w == [ from |-> Len(t) - Len(p) + 1, to |-> Len(t) ]
<1>1. t \in Seq(Elems) /\ n \in Nat /\ Len(p) \in Nat /\ p \in Seq(Byte) /\ Len(x) \in Nat /\ Len(p) >= 1 /\ Len(p) <= Len(x)
  BY DEF Sound, Trailing
<1>2. Bytes(t) \in Seq(Symbols) /\ Len(Bytes(t)) = n /\ \A i \in 1 .. n : Bytes(t)[i] = t[i].c
  BY <1>1, BytesIs
<1>3. Len(p) <= n /\ \A i \in 1 .. Len(p) : Bytes(t)[(n - Len(p)) + i] = p[i]
  <2>1. /\ Len(p) <= Len(Bytes(t))
        /\ \A i \in 1 .. Len(p) : Bytes(t)[(Len(Bytes(t)) - Len(p)) + i] = p[i]
    BY <1>1, <1>2, SuffixIs
  <2> QED
    BY <1>2, <2>1
<1>4. ASSUME NEW k \in o .. n PROVE t[k].c \in Byte /\ t[k].c = p[k - (o - 1)]
  <2> DEFINE i == k - (o - 1)
  <2>1. i \in 1 .. Len(p) /\ (n - Len(p)) + i = k /\ k \in 1 .. n
    BY <1>1, <1>3
  <2> HIDE DEF i
  <2>2. Bytes(t)[k] = p[i]
    BY <1>3, <2>1
  <2>3. p[i] \in Byte /\ Bytes(t)[k] = t[k].c
    BY <1>1, <1>2, <2>1
  <2> QED
    BY <2>2, <2>3 DEF i
<1>5. o \in 1 .. n /\ o = n - Len(p) + 1 /\ o - (o - 1) = 1 /\ o \in o .. n
  BY <1>1, <1>3
<1>6. w.from = o /\ w.to = n
  BY <1>5
<1>7. t[n].c \notin Open
  BY <1>1, <1>5 DEF Sound
<1> HIDE DEF o, n
<1>8. ASSUME o > 1 PROVE t[o - 1].c \notin Open
  <2> SUFFICES ASSUME t[o - 1].c \in Open PROVE FALSE
    OBVIOUS
  <2> DEFINE k == o - 1
  <2>1. k \in 1 .. n - 1 /\ k + 1 = o /\ k \in 1 .. n
    BY <1>1, <1>5, <1>8
  <2> HIDE DEF k
  <2>2. Joint(t[k], t[o])
    BY <2>1 DEF Sound, n
  <2>3. t[o].c \in Byte /\ t[o].c = p[1]
    BY <1>4, <1>5
  <2>4. t[o].c = "t"
    BY <2>2, <2>3 DEF Joint, Open, Byte, k
  <2>5. t[o].n \in Nat /\ t[o].n = Len(x) - (n - o)
    BY <1>4, <1>5, SoundTail DEF n
  <2>6. Origin(t[o], x)
    BY <1>5 DEF Sound, n
  <2> DEFINE e == t[o].n
  <2>7. e \in 1 .. Len(x) /\ x[e] = "t" /\ ~Invalid(x, e)
    BY <2>3, <2>4, <2>6 DEF Origin
  <2>8. e > 1 /\ x[e - 1] = "l"
    BY <2>7 DEF Invalid
  <2>9. e = Len(x) - (n - o)
    BY <2>5
  <2> HIDE DEF e
  <2>10. e - 1 = Len(x) - Len(p)
    BY <1>1, <1>3, <2>9 DEF o, n
  <2>11. p[1] = "t"
    BY <2>3, <2>4
  <2> QED
    BY <2>8, <2>10, <2>11 DEF Trailing
<1> HIDE DEF w
<1>9. Matching(t, {w}) /\ Aligned(t, {w})
  <2>1. w.from \in 1 .. Len(t) /\ w.to \in w.from .. Len(t)
    BY <1>1, <1>5, <1>6 DEF n
  <2>2. Matching(t, {w})
    BY <2>1 DEF Matching
  <2>3. Aligned(t, {w})
    BY <1>6, <1>7, <1>8 DEF Aligned
  <2> QED
    BY <2>2, <2>3
<1> QED
  BY <1>9 DEF w

\* The entries of replacements.
Replacement == [ category : Categories, active : BOOLEAN ]

\* The placeholders of t inside of the intervals M.
Consumed(t, M) == { t[i].n : i \in { j \in DOMAIN t : t[j].c = "#" /\ Covers(M, j) } }

\* protect adds one entry for each interval, and deactivates what is inside of them.
LEMMA ProtectReplaces ==
    ASSUME NEW s, s.replacements \in Seq(Replacement), NEW M, Cardinality(M) \in Nat, NEW category \in Categories
    PROVE  LET r == Protect(s, M, category).replacements
               d == Len(s.replacements)
           IN  /\ r \in Seq(Replacement) /\ d \in Nat /\ Len(r) = d + Cardinality(M)
               /\ \A k \in 1 .. d : /\ r[k].category = s.replacements[k].category
                                    /\ r[k].active <=> s.replacements[k].active /\ k \notin Consumed(s.text, M)
               /\ \A k \in d + 1 .. d + Cardinality(M) : r[k].category = category /\ r[k].active
<1> DEFINE p == s.replacements
           d == Len(p)
           c == Cardinality(M)
           C == Consumed(s.text, M)
           old == [ k \in DOMAIN p |-> [ p[k] EXCEPT !.active = p[k].active /\ k \notin C ] ]
           entry == [ category |-> category, active |-> TRUE ]
           new == [ k \in 1 .. c |-> entry ]
           r == Protect(s, M, category).replacements
<1>1. r = old \o new
  BY ZenonT(30) DEF Protect, Consumed, Covers
<1>2. p \in Seq(Replacement) /\ d \in Nat /\ DOMAIN p = 1 .. d /\ c \in Nat
  OBVIOUS
<1> HIDE DEF p, d, c, C, r
<1>3. \A k \in 1 .. d : p[k] \in Replacement
  BY <1>2 DEF d
<1>4. ASSUME NEW k \in 1 .. d
      PROVE  LET e == [ p[k] EXCEPT !.active = p[k].active /\ k \notin C ] IN
             e \in Replacement /\ e.category = p[k].category /\ (e.active <=> p[k].active /\ k \notin C)
  <2>1. p[k] \in Replacement
    BY <1>3
  <2> DEFINE z == p[k]
  <2>2. z \in Replacement
    BY <2>1
  <2> HIDE DEF z
  <2> DEFINE b == (z.active /\ k \notin C)
             e == [ z EXCEPT !.active = b ]
  <2>3. b \in BOOLEAN
    BY <2>2 DEF Replacement
  <2>4. z.category \in Categories /\ DOMAIN z = {"category", "active"} /\ z = [ category |-> z.category, active |-> z.active ]
    BY <2>2 DEF Replacement
  <2>5. e = [ category |-> z.category, active |-> b ]
    <3> HIDE DEF b
    <3> QED
      BY <2>4
  <2>6. e \in Replacement /\ e.category = z.category /\ e.active = b
    <3> HIDE DEF b
    <3> QED
      BY <2>3, <2>4, <2>5 DEF Replacement
  <2> QED
    BY <2>6 DEF z
<1>5. old \in Seq(Replacement) /\ Len(old) = d /\ \A k \in 1 .. d : old[k] = [ p[k] EXCEPT !.active = p[k].active /\ k \notin C ]
  <2>1. old \in [ 1 .. d -> Replacement ]
    BY <1>2, <1>4
  <2>2. \A k \in 1 .. d : old[k] = [ p[k] EXCEPT !.active = p[k].active /\ k \notin C ]
    BY <1>2
  <2>3. DOMAIN old = 1 .. d
    BY <1>2
  <2> HIDE DEF old
  <2>4. old \in Seq(Replacement) /\ Len(old) = d
    BY <1>2, <2>1, <2>3
  <2> QED
    BY <2>2, <2>4
<1>6. entry \in Replacement /\ entry.category = category /\ entry.active
  BY DEF Replacement
<1> HIDE DEF entry
<1>7. new \in Seq(Replacement) /\ Len(new) = c /\ \A k \in 1 .. c : new[k] = entry
  BY <1>2, <1>6
<1> HIDE DEF old, new
<1>8. /\ r \in Seq(Replacement) /\ Len(r) = d + c
      /\ \A k \in 1 .. d : r[k] = old[k]
      /\ \A k \in d + 1 .. d + c : r[k] = new[k - d]
  <2> DEFINE R == Replacement
  <2>1. old \in Seq(R) /\ new \in Seq(R) /\ Len(old) = d /\ Len(new) = c
    BY <1>5, <1>7
  <2> HIDE DEF R
  <2>2. /\ old \o new \in Seq(R) /\ Len(old \o new) = d + c
        /\ \A k \in 1 .. d + c : (old \o new)[k] = IF k <= d THEN old[k] ELSE new[k - d]
    BY <2>1, ConcatProperties
  <2>3. r \in Seq(R) /\ Len(r) = d + c /\ \A k \in 1 .. d + c : r[k] = IF k <= d THEN old[k] ELSE new[k - d]
    BY <1>1, <2>2
  <2> QED
    BY <1>2, <2>3 DEF R
<1>9. ASSUME NEW k \in 1 .. d PROVE r[k].category = p[k].category /\ (r[k].active <=> p[k].active /\ k \notin C)
  <2>1. r[k] = [ p[k] EXCEPT !.active = p[k].active /\ k \notin C ]
    BY <1>5, <1>8
  <2> QED
    BY <1>4, <2>1
<1>10. ASSUME NEW k \in d + 1 .. d + c PROVE r[k].category = category /\ r[k].active
  <2>1. k - d \in 1 .. c
    BY <1>2
  <2> QED
    BY <1>6, <1>7, <1>8, <2>1
<1> QED
  BY <1>2, <1>8, <1>9, <1>10 DEF r, p, d, c, C

\* The placeholders of the intervals are numbered one by one.
LEMMA RankIs ==
    ASSUME NEW t \in Seq(Elems), NEW M, Matching(t, M), NEW d \in Nat, NEW m \in M
    PROVE  /\ Rank(M, d, m.from) \in d + 1 .. d + Cardinality(M)
           /\ \A o \in M : m.from < o.from => Rank(M, d, m.from) < Rank(M, d, o.from)
<1> DEFINE A(i) == { e \in M : e.from <= i }
<1>1. IsFiniteSet(M) /\ Cardinality(M) \in Nat
  BY MatchingIsFinite
<1>2. \A i : IsFiniteSet(A(i)) /\ Cardinality(A(i)) \in Nat /\ Cardinality(A(i)) <= Cardinality(M)
  <2>1. \A i : A(i) \subseteq M
    OBVIOUS
  <2> HIDE DEF A
  <2>2. \A i : IsFiniteSet(A(i)) /\ Cardinality(A(i)) <= Cardinality(M)
    BY <1>1, <2>1, FS_Subset
  <2> QED
    BY <2>2, FS_CardinalityType
<1>3. \A e \in M : e.from \in Nat
  BY DEF Matching
<1>4. ASSUME NEW o \in M, NEW B, B \subseteq A(o.from), o \notin B
      PROVE  Cardinality(B) + 1 <= Cardinality(A(o.from)) /\ Cardinality(B) \in Nat
  <2>1. o \in A(o.from)
    BY <1>3
  <2>2. IsFiniteSet(B) /\ Cardinality(B) \in Nat
    BY <1>2, <1>4, FS_Subset, FS_CardinalityType
  <2> HIDE DEF A
  <2>3. IsFiniteSet(B \cup {o}) /\ Cardinality(B \cup {o}) = Cardinality(B) + 1
    BY <1>4, <2>2, FS_AddElement
  <2>4. Cardinality(B \cup {o}) <= Cardinality(A(o.from))
    <3>1. B \cup {o} \subseteq A(o.from)
      BY <1>4, <2>1
    <3> QED
      BY <1>2, <3>1, FS_Subset
  <2> QED
    BY <2>2, <2>3, <2>4
<1>5. \A i : Rank(M, d, i) = d + Cardinality(A(i))
  BY DEF Rank
<1> HIDE DEF A
<1>6. Cardinality(A(m.from)) >= 1
  <2>1. Cardinality({}) = 0
    BY FS_EmptySet
  <2>2. Cardinality({}) + 1 <= Cardinality(A(m.from))
    BY <1>4
  <2> QED
    BY <1>2, <2>1, <2>2
<1>7. ASSUME NEW o \in M, m.from < o.from PROVE Cardinality(A(m.from)) + 1 <= Cardinality(A(o.from))
  <2>1. m.from \in Nat /\ o.from \in Nat
    BY <1>3
  <2>2. o \notin A(m.from)
    BY <1>7, <2>1 DEF A
  <2>3. A(m.from) \subseteq A(o.from)
    BY <1>3, <1>7, <2>1 DEF A
  <2> QED
    BY <1>4, <2>2, <2>3
<1>8. Rank(M, d, m.from) \in d + 1 .. d + Cardinality(M)
  BY <1>1, <1>2, <1>5, <1>6
<1>9. ASSUME NEW o \in M, m.from < o.from PROVE Rank(M, d, m.from) < Rank(M, d, o.from)
  <2>1. Cardinality(A(m.from)) + 1 <= Cardinality(A(o.from))
    BY <1>7, <1>9
  <2> QED
    BY <1>2, <1>5, <2>1
<1> QED
  BY <1>8, <1>9

\* So there are as many numbers as intervals.
LEMMA RanksCount ==
    ASSUME NEW t \in Seq(Elems), NEW M, Matching(t, M), NEW d \in Nat
    PROVE  LET N == { Rank(M, d, m.from) : m \in M } IN
           IsFiniteSet(N) /\ Cardinality(N) = Cardinality(M) /\ N \subseteq d + 1 .. d + Cardinality(M)
<1> DEFINE N == { Rank(M, d, m.from) : m \in M }
           f == [ m \in M |-> Rank(M, d, m.from) ]
<1>1. IsFiniteSet(M)
  BY MatchingIsFinite
<1>2. N \subseteq d + 1 .. d + Cardinality(M)
  BY RankIs
<1>3. \A m \in M : m.from \in Nat
  BY DEF Matching
<1>4. ASSUME NEW m \in M, NEW o \in M, Rank(M, d, m.from) = Rank(M, d, o.from) PROVE m = o
  <2>1. Rank(M, d, m.from) \in Nat /\ Rank(M, d, o.from) \in Nat
    <3>1. Rank(M, d, m.from) \in d + 1 .. d + Cardinality(M) /\ Rank(M, d, o.from) \in d + 1 .. d + Cardinality(M)
      BY RankIs
    <3>2. Cardinality(M) \in Nat
      BY MatchingIsFinite
    <3> QED
      BY <3>1, <3>2
  <2>2. ~(m.from < o.from) /\ ~(o.from < m.from)
    <3>1. m.from < o.from => Rank(M, d, m.from) < Rank(M, d, o.from)
      BY RankIs
    <3>2. o.from < m.from => Rank(M, d, o.from) < Rank(M, d, m.from)
      BY RankIs
    <3> QED
      BY <1>4, <2>1, <3>1, <3>2
  <2>3. m.from = o.from
    BY <1>3, <2>2
  <2> QED
    BY <2>3 DEF Matching
<1>5. /\ f \in [ M -> N ] /\ (\A y \in N : \E m \in M : f[m] = y)
      /\ \A m \in M, o \in M : f[m] = f[o] => m = o
  BY <1>4
<1>6. IsFiniteSet(N) /\ Cardinality(N) = Cardinality(M)
  <2> HIDE DEF N, f
  <2>1. f \in Surjection(M, N) /\ f \in Injection(M, N)
    <3>1. f \in Surjection(M, N)
      BY <1>5 DEF Surjection
    <3>2. f \in Injection(M, N)
      BY <1>5 DEF Injection, IsInjective
    <3> QED
      BY <3>1, <3>2
  <2> QED
    BY <1>1, <2>1, FS_Surjection
<1> QED
  BY <1>2, <1>6

\* The numbers of the placeholders of a text, and those of a category that are shown.
Marks(t) == { t[i].n : i \in { j \in 1 .. Len(t) : t[j].c = "#" } }
Alive(s, k) == { r \in Marks(s.text) : s.replacements[r].active /\ s.replacements[r].category = k }

\* What protect leaves is a placeholder or a byte outside of the intervals.
LEMMA PieceFrom ==
    ASSUME NEW t \in Seq(Elems), NEW M, NEW d, NEW q, Pieces(t, M, d, q), NEW k \in 1 .. Len(FlattenSeq(q))
    PROVE  \E i \in 1 .. Len(t) : \/ Heads(M, i) /\ FlattenSeq(q)[k].c = "#" /\ FlattenSeq(q)[k].n = Rank(M, d, i)
                                  \/ FlattenSeq(q)[k] = t[i] /\ ~Covers(M, i)
<1> DEFINE r == FlattenSeq(q)
<1>1. Len(t) \in Nat
  OBVIOUS
<1>2. /\ q \in Seq(Seq(Elems)) /\ Len(q) = Len(t)
      /\ \A i \in 1 .. Len(t) :
          /\ Heads(M, i) => Len(q[i]) = 1 /\ q[i][1].c = "#" /\ q[i][1].n = Rank(M, d, i)
          /\ Covers(M, i) /\ ~Heads(M, i) => Len(q[i]) = 0
          /\ ~Covers(M, i) => Len(q[i]) = 1 /\ q[i][1] = t[i] /\ ~Heads(M, i)
  BY DEF Pieces
<1>3. q \in Seq(Seq(Elems)) /\ k \in 1 .. Len(FlattenSeq(q))
  BY <1>2
<1>4. \E i \in 1 .. Len(q) : \E j \in 1 .. Len(q[i]) : r[k] = q[i][j]
  BY <1>3, FlattenFrom
<1>5. PICK i \in 1 .. Len(q) : \E j \in 1 .. Len(q[i]) : r[k] = q[i][j]
  BY <1>4
<1>6. PICK j \in 1 .. Len(q[i]) : r[k] = q[i][j]
  BY <1>5
<1>7. i \in 1 .. Len(t)
  BY <1>2
<1>8. Len(q[i]) # 0 /\ (Len(q[i]) = 1 => j = 1)
  <2> DEFINE h == Len(q[i])
  <2>1. h \in Nat /\ j \in 1 .. h
    BY <1>2
  <2> HIDE DEF h
  <2>2. h # 0 /\ (h = 1 => j = 1)
    BY <2>1
  <2> QED
    BY <2>2 DEF h
<1>9. Len(q[i]) = 1 /\ (Heads(M, i) \/ ~Covers(M, i))
  BY <1>2, <1>7, <1>8
<1>10. r[k] = q[i][1]
  BY <1>6, <1>8, <1>9
<1> HIDE DEF r
<1>11. (Heads(M, i) /\ r[k].c = "#" /\ r[k].n = Rank(M, d, i)) \/ (r[k] = t[i] /\ ~Covers(M, i))
  BY <1>2, <1>7, <1>9, <1>10
<1>12. \E h \in 1 .. Len(t) : (Heads(M, h) /\ r[k].c = "#" /\ r[k].n = Rank(M, d, h)) \/ (r[k] = t[h] /\ ~Covers(M, h))
  BY <1>7, <1>11
<1> QED
  BY <1>12 DEF r

\* The placeholders after protect: the ones outside of the intervals, and one for each.
LEMMA ProtectMarks ==
    ASSUME NEW t \in Seq(Elems), NEW M, Matching(t, M), NEW d, NEW q, Pieces(t, M, d, q)
    PROVE  LET r == FlattenSeq(q)
               N == { Rank(M, d, m.from) : m \in M }
           IN  /\ N \subseteq Marks(r)
               /\ Marks(t) \ Consumed(t, M) \subseteq Marks(r)
               /\ Marks(r) \subseteq N \cup Marks(t)
               /\ (\A i \in 1 .. Len(t) : t[i].c # "*") => \A k \in 1 .. Len(r) : r[k].c # "*"
<1> DEFINE r == FlattenSeq(q)
           N == { Rank(M, d, m.from) : m \in M }
<1>1. Len(t) \in Nat /\ DOMAIN t = 1 .. Len(t)
  OBVIOUS
<1>2. /\ q \in Seq(Seq(Elems)) /\ Len(q) = Len(t)
      /\ \A i \in 1 .. Len(t) :
          /\ Heads(M, i) => Len(q[i]) = 1 /\ q[i][1].c = "#" /\ q[i][1].n = Rank(M, d, i)
          /\ Covers(M, i) /\ ~Heads(M, i) => Len(q[i]) = 0
          /\ ~Covers(M, i) => Len(q[i]) = 1 /\ q[i][1] = t[i] /\ ~Heads(M, i)
  BY DEF Pieces
<1>3. ASSUME NEW i \in 1 .. Len(t), Len(q[i]) = 1 PROVE \E k \in 1 .. Len(r) : r[k] = q[i][1]
  <2>1. i \in 1 .. Len(q) /\ 1 \in 1 .. Len(q[i])
    BY <1>2, <1>3
  <2> QED
    BY <1>2, <2>1, FlattenTo
<1>4. ASSUME NEW k \in 1 .. Len(r)
      PROVE  \E i \in 1 .. Len(t) : (Heads(M, i) /\ r[k].c = "#" /\ r[k].n = Rank(M, d, i)) \/ r[k] = t[i]
  BY PieceFrom
<1> HIDE DEF r
<1>5. ASSUME NEW m \in M PROVE Rank(M, d, m.from) \in Marks(r)
  <2> DEFINE i == m.from
  <2>1. i \in 1 .. Len(t) /\ Heads(M, i)
    BY DEF Matching, Heads
  <2> HIDE DEF i
  <2>2. Len(q[i]) = 1 /\ q[i][1].c = "#" /\ q[i][1].n = Rank(M, d, i)
    BY <1>2, <2>1
  <2>3. PICK k \in 1 .. Len(r) : r[k] = q[i][1]
    BY <1>3, <2>1, <2>2
  <2>4. Rank(M, d, i) \in Marks(r)
    BY <2>2, <2>3 DEF Marks
  <2> QED
    BY <2>4 DEF i
<1>6. ASSUME NEW e \in Marks(t), e \notin Consumed(t, M) PROVE e \in Marks(r)
  <2>1. PICK i \in 1 .. Len(t) : t[i].c = "#" /\ t[i].n = e
    BY DEF Marks
  <2>2. ~Covers(M, i)
    BY <1>1, <1>6, <2>1 DEF Consumed
  <2>3. Len(q[i]) = 1 /\ q[i][1] = t[i]
    BY <1>2, <2>2
  <2>4. PICK k \in 1 .. Len(r) : r[k] = q[i][1]
    BY <1>3, <2>3
  <2> QED
    BY <2>1, <2>3, <2>4 DEF Marks
<1>7. ASSUME NEW e \in Marks(r) PROVE e \in N \/ e \in Marks(t)
  <2>1. PICK k \in 1 .. Len(r) : r[k].c = "#" /\ r[k].n = e
    BY DEF Marks
  <2>2. PICK i \in 1 .. Len(t) : (Heads(M, i) /\ r[k].c = "#" /\ r[k].n = Rank(M, d, i)) \/ r[k] = t[i]
    BY <1>4
  <2>3. CASE Heads(M, i) /\ r[k].c = "#" /\ r[k].n = Rank(M, d, i)
    BY <2>1, <2>3 DEF Heads
  <2>4. CASE r[k] = t[i]
    BY <2>1, <2>4 DEF Marks
  <2> QED
    BY <2>2, <2>3, <2>4
<1>8. ASSUME \A i \in 1 .. Len(t) : t[i].c # "*", NEW k \in 1 .. Len(r) PROVE r[k].c # "*"
  <2>1. PICK i \in 1 .. Len(t) : (Heads(M, i) /\ r[k].c = "#" /\ r[k].n = Rank(M, d, i)) \/ r[k] = t[i]
    BY <1>4
  <2> QED
    BY <1>8, <2>1
<1>9. N \subseteq Marks(r)
  BY <1>5
<1>10. Marks(t) \ Consumed(t, M) \subseteq Marks(r) /\ Marks(r) \subseteq N \cup Marks(t)
  <2> HIDE DEF N
  <2> QED
    BY <1>6, <1>7
<1> QED
  BY <1>8, <1>9, <1>10 DEF r

\* A state of the redactor of x: its text is sound, placeholders have entries, and the counts
\* are those of the placeholders that are shown.
Redacting(s, x) ==
    /\ Sound(s.text, x) /\ \A i \in 1 .. Len(s.text) : s.text[i].c # "*"
    /\ s.replacements \in Seq(Replacement)
    /\ Marks(s.text) \subseteq 1 .. Len(s.replacements)
    /\ s.counts = [ k \in Categories |-> Cardinality(Alive(s, k)) ]

\* The entries and the placeholders of r are those of s after protect: C is consumed, N is
\* new, one for each of M.
Succeeds(s, r, M, N, C, category) ==
    /\ s.replacements \in Seq(Replacement) /\ Marks(s.text) \subseteq 1 .. Len(s.replacements)
    /\ C \subseteq Marks(s.text) /\ IsFiniteSet(N) /\ Cardinality(N) = Cardinality(M) /\ Cardinality(M) \in Nat
    /\ N \subseteq Len(s.replacements) + 1 .. Len(s.replacements) + Cardinality(M)
    /\ N \subseteq Marks(r.text) /\ Marks(s.text) \ C \subseteq Marks(r.text) /\ Marks(r.text) \subseteq N \cup Marks(s.text)
    /\ \A k \in 1 .. Len(s.replacements) :
          /\ r.replacements[k].category = s.replacements[k].category
          /\ r.replacements[k].active <=> s.replacements[k].active /\ k \notin C
    /\ \A k \in N : r.replacements[k].category = category /\ r.replacements[k].active

\* Then the placeholders that are shown change as the counts do.
LEMMA AliveAfter ==
    ASSUME NEW s, NEW r, NEW M, NEW N, NEW C, NEW category, Succeeds(s, r, M, N, C, category), NEW k
    PROVE  Cardinality(Alive(r, k)) =
             Cardinality(Alive(s, k)) - Cardinality({ e \in C : s.replacements[e].active /\ s.replacements[e].category = k })
                                      + IF k = category THEN Cardinality(M) ELSE 0
<1> USE DEF Succeeds
<1> DEFINE d == Len(s.replacements)
           A == Alive(s, k)
           B == Alive(r, k)
           D == { e \in C : s.replacements[e].active /\ s.replacements[e].category = k }
           E == IF k = category THEN N ELSE {}
<1>1. d \in Nat
  OBVIOUS
<1>2. \A e : e \in A <=> e \in Marks(s.text) /\ s.replacements[e].active /\ s.replacements[e].category = k
  BY DEF Alive
<1>3. \A e : e \in B <=> e \in Marks(r.text) /\ r.replacements[e].active /\ r.replacements[e].category = k
  BY DEF Alive
<1>4. \A e \in Marks(s.text) : e \in 1 .. d
  OBVIOUS
<1>5. \A e \in N : e \notin 1 .. d
  <2>1. \A e \in d + 1 .. d + Cardinality(M) : e \notin 1 .. d
    BY <1>1
  <2> QED
    BY <2>1
<1> HIDE DEF A, B, d
<1>6. A \cap C = D
  BY <1>2
<1>7. ASSUME NEW e \in B PROVE e \in (A \ C) \cup E
  <2>1. CASE e \in N
    BY <1>3, <1>7, <2>1
  <2>2. CASE e \notin N
    <3>1. e \in Marks(s.text) /\ e \in 1 .. d
      BY <1>3, <1>4, <2>2
    <3> QED
      BY <1>2, <1>3, <1>7, <3>1 DEF d
  <2> QED
    BY <2>1, <2>2
<1>8. ASSUME NEW e \in (A \ C) \cup E PROVE e \in B
  <2>1. CASE e \in E
    <3>1. e \in N /\ k = category
      BY <2>1
    <3> QED
      BY <1>3, <3>1
  <2>2. CASE e \in A \ C
    <3>1. e \in Marks(s.text) /\ e \in 1 .. d /\ e \notin C /\ s.replacements[e].active /\ s.replacements[e].category = k
      BY <1>2, <1>4, <2>2
    <3>2. e \in Marks(r.text)
      BY <3>1
    <3> QED
      BY <1>3, <3>1, <3>2 DEF d
  <2> QED
    BY <1>8, <2>1, <2>2
<1>9. B = (A \ C) \cup E
  BY <1>7, <1>8
<1>10. IsFiniteSet(A)
  <2>1. IsFiniteSet(1 .. d)
    BY <1>1, FS_Interval
  <2>2. A \subseteq 1 .. d
    BY <1>2, <1>4
  <2> QED
    BY <2>1, <2>2, FS_Subset
<1>11. IsFiniteSet(E) /\ Cardinality(E) = IF k = category THEN Cardinality(M) ELSE 0
  <2>1. IsFiniteSet({}) /\ Cardinality({}) = 0
    BY FS_EmptySet
  <2> QED
    BY <2>1
<1>12. (A \ C) \cap E = {}
  BY <1>2, <1>4, <1>5
<1> HIDE DEF E, D
<1>13. IsFiniteSet(A \ C) /\ Cardinality(A \ C) = Cardinality(A) - Cardinality(D)
  BY <1>6, <1>10, FS_Difference
<1>14. Cardinality(B) = Cardinality(A \ C) + Cardinality(E) - Cardinality({})
  <2> DEFINE F == A \ C
  <2>1. IsFiniteSet(F) /\ IsFiniteSet(E) /\ F \cap E = {} /\ B = F \cup E
    BY <1>9, <1>11, <1>12, <1>13
  <2> HIDE DEF F
  <2>2. Cardinality(F \cup E) = Cardinality(F) + Cardinality(E) - Cardinality(F \cap E)
    BY <2>1, FS_Union
  <2> QED
    BY <2>1, <2>2 DEF F
<1>15. Cardinality({}) = 0 /\ Cardinality(A \ C) \in Nat /\ Cardinality(E) \in Nat
  BY <1>11, <1>13, FS_EmptySet, FS_CardinalityType
<1>16. Cardinality(B) = Cardinality(A \ C) + Cardinality(E)
  BY <1>14, <1>15
<1> QED
  BY <1>11, <1>13, <1>16 DEF A, B, D

\* protect makes a state of another one.
LEMMA ProtectKeeps ==
    ASSUME NEW x \in Seq(Byte), NEW s, Redacting(s, x), NEW M, Matching(s.text, M), Aligned(s.text, M),
           NEW category \in Categories
    PROVE  Redacting(Protect(s, M, category), x)
<1> DEFINE t == s.text
           d == Len(s.replacements)
           c == Cardinality(M)
           r == Protect(s, M, category)
           N == { Rank(M, d, m.from) : m \in M }
           C == Consumed(t, M)
<1>1. /\ Sound(t, x) /\ t \in Seq(Elems) /\ (\A i \in 1 .. Len(t) : t[i].c # "*")
      /\ s.replacements \in Seq(Replacement) /\ d \in Nat /\ Marks(t) \subseteq 1 .. d
      /\ s.counts = [ k \in Categories |-> Cardinality(Alive(s, k)) ]
  <2>1. /\ Sound(t, x) /\ (\A i \in 1 .. Len(t) : t[i].c # "*")
        /\ s.replacements \in Seq(Replacement) /\ Marks(t) \subseteq 1 .. d
        /\ s.counts = [ k \in Categories |-> Cardinality(Alive(s, k)) ]
    BY DEF Redacting
  <2>2. t \in Seq(Elems)
    BY <2>1 DEF Sound
  <2>3. d \in Nat
    BY <2>1
  <2> QED
    BY <2>1, <2>2, <2>3
<1>2. IsFiniteSet(M) /\ c \in Nat
  BY <1>1, MatchingIsFinite
<1>3. PICK q : Pieces(t, M, d, q) /\ r.text = FlattenSeq(q)
  BY <1>1, ProtectIs, SMTT(30)
<1>4. Sound(r.text, x)
  <2> HIDE DEF t, d, r
  <2>1. Matching(t, M) /\ Aligned(t, M)
    BY DEF t
  <2> QED
    BY <1>1, <1>3, <2>1, ProtectIsSound
<1>5. /\ N \subseteq Marks(r.text) /\ Marks(t) \ C \subseteq Marks(r.text) /\ Marks(r.text) \subseteq N \cup Marks(t)
      /\ \A k \in 1 .. Len(r.text) : r.text[k].c # "*"
  <2>1. Matching(t, M)
    OBVIOUS
  <2> HIDE DEF t, d, r
  <2> QED
    BY <1>1, <1>3, <2>1, ProtectMarks
<1>6. /\ r.replacements \in Seq(Replacement) /\ Len(r.replacements) = d + c
      /\ \A k \in 1 .. d : /\ r.replacements[k].category = s.replacements[k].category
                           /\ r.replacements[k].active <=> s.replacements[k].active /\ k \notin C
      /\ \A k \in d + 1 .. d + c : r.replacements[k].category = category /\ r.replacements[k].active
  BY <1>1, <1>2, ProtectReplaces
<1>7. IsFiniteSet(N) /\ Cardinality(N) = c /\ N \subseteq d + 1 .. d + c
  <2>1. Matching(t, M)
    OBVIOUS
  <2> HIDE DEF t, d
  <2> QED
    BY <1>1, <2>1, RanksCount
<1>8. C \subseteq Marks(t)
  <2>1. DOMAIN t = 1 .. Len(t)
    BY <1>1
  <2> HIDE DEF t
  <2> QED
    BY <2>1 DEF Consumed, Marks
<1>9. r.counts = [ k \in Categories |->
                     s.counts[k] - Cardinality({ e \in C : s.replacements[e].active /\ s.replacements[e].category = k })
                                 + IF k = category THEN c ELSE 0 ]
  BY ZenonT(30) DEF Protect, Consumed, Covers
<1> HIDE DEF t, d, c, r, N, C
<1>10. ASSUME NEW k \in Categories
       PROVE  Cardinality(Alive(r, k)) =
                s.counts[k] - Cardinality({ e \in C : s.replacements[e].active /\ s.replacements[e].category = k })
                            + IF k = category THEN c ELSE 0
  <2>1. s.counts[k] = Cardinality(Alive(s, k))
    BY <1>1
  <2>2. \A e \in N : r.replacements[e].category = category /\ r.replacements[e].active
    BY <1>6, <1>7
  <2>3. Cardinality(Alive(r, k)) =
             Cardinality(Alive(s, k)) - Cardinality({ e \in C : s.replacements[e].active /\ s.replacements[e].category = k })
                                      + IF k = category THEN c ELSE 0
    <3>1. /\ s.replacements \in Seq(Replacement) /\ Marks(s.text) \subseteq 1 .. Len(s.replacements)
          /\ r.replacements \in Seq(Replacement) /\ C \subseteq Marks(s.text)
      BY <1>1, <1>6, <1>8 DEF t, d
    <3>2. /\ IsFiniteSet(N) /\ Cardinality(N) = Cardinality(M) /\ Cardinality(M) \in Nat
          /\ N \subseteq Len(s.replacements) + 1 .. Len(s.replacements) + Cardinality(M)
      BY <1>2, <1>7 DEF d, c
    <3>3. N \subseteq Marks(r.text) /\ Marks(s.text) \ C \subseteq Marks(r.text) /\ Marks(r.text) \subseteq N \cup Marks(s.text)
      BY <1>5 DEF t
    <3>4. \A h \in 1 .. Len(s.replacements) :
                /\ r.replacements[h].category = s.replacements[h].category
                /\ r.replacements[h].active <=> s.replacements[h].active /\ h \notin C
      BY <1>6 DEF d
    <3> QED
      <4>1. Succeeds(s, r, M, N, C, category)
        BY <2>2, <3>1, <3>2, <3>3, <3>4 DEF Succeeds
      <4> QED
        BY <4>1, AliveAfter DEF c
  <2> QED
    BY <2>1, <2>3
<1>11. r.counts = [ k \in Categories |-> Cardinality(Alive(r, k)) ]
  BY <1>9, <1>10
<1>12. Marks(r.text) \subseteq 1 .. Len(r.replacements)
  <2>1. 1 .. d \subseteq 1 .. d + c /\ d + 1 .. d + c \subseteq 1 .. d + c
    BY <1>1, <1>2
  <2> QED
    BY <1>1, <1>5, <1>6, <1>7, <2>1
<1> QED
  BY <1>4, <1>5, <1>6, <1>11, <1>12 DEF Redacting, r

\* ToValidUTF8 makes no placeholders.
LEMMA ValidIsPlain ==
    ASSUME NEW x \in Seq(Byte), NEW k \in 1 .. Len(ToValidUTF8(x))
    PROVE  ToValidUTF8(x)[k].c \in Byte \cup {"r1", "r2", "r3"}
<1> DEFINE q == [ i \in DOMAIN x |-> Char(x, i) ]
<1>1. Len(x) \in Nat /\ DOMAIN x = 1 .. Len(x) /\ \A i \in 1 .. Len(x) : x[i] \in Byte
  OBVIOUS
<1>2. ToValidUTF8(x) = FlattenSeq(q)
  BY DEF ToValidUTF8, Char
<1>3. q \in Seq(Seq(Elems)) /\ Len(q) = Len(x) /\ \A i \in 1 .. Len(x) : q[i] = Char(x, i)
  <2>1. \A i \in 1 .. Len(x) : Char(x, i) \in Seq(Elems)
    BY CharIs
  <2>2. q \in [ 1 .. Len(x) -> Seq(Elems) ] /\ DOMAIN q = 1 .. Len(x)
    BY <1>1, <2>1
  <2>3. \A i \in 1 .. Len(x) : q[i] = Char(x, i)
    BY <1>1
  <2> DEFINE Z == Seq(Elems)
  <2> HIDE DEF q, Z
  <2>4. q \in Seq(Z) /\ Len(q) = Len(x)
    BY <1>1, <2>2 DEF Z
  <2> QED
    BY <2>3, <2>4 DEF Z
<1> HIDE DEF q
<1>4. k \in 1 .. Len(FlattenSeq(q))
  BY <1>2
<1>5. PICK i \in 1 .. Len(q) : \E j \in 1 .. Len(q[i]) : FlattenSeq(q)[k] = q[i][j]
  BY <1>3, <1>4, FlattenFrom
<1>6. PICK j \in 1 .. Len(q[i]) : FlattenSeq(q)[k] = q[i][j]
  BY <1>5
<1> DEFINE z == Char(x, i)
<1>7. i \in 1 .. Len(x) /\ q[i] = z /\ j \in 1 .. Len(z) /\ x[i] \in Byte
  BY <1>1, <1>3
<1>8. /\ ~Invalid(x, i) => Len(z) = 1 /\ z[1].c = x[i]
      /\ Invalid(x, i) /\ i > 1 /\ Invalid(x, i - 1) => Len(z) = 0
      /\ Invalid(x, i) /\ ~(i > 1 /\ Invalid(x, i - 1)) =>
            Len(z) = 3 /\ z[1].c = "r1" /\ z[2].c = "r2" /\ z[3].c = "r3"
  BY <1>7, CharIs
<1> HIDE DEF z
<1>9. z[j].c \in Byte \cup {"r1", "r2", "r3"}
  <2>1. CASE ~Invalid(x, i)
    <3>0. Len(z) = 1
      BY <1>8, <2>1
    <3>1. j = 1
      BY <1>7, <3>0
    <3> QED
      BY <1>7, <1>8, <2>1, <3>1
  <2>2. CASE Invalid(x, i) /\ i > 1 /\ Invalid(x, i - 1)
    <3>1. FALSE
      BY <1>7, <1>8, <2>2
    <3> QED
      BY <3>1
  <2>3. CASE Invalid(x, i) /\ ~(i > 1 /\ Invalid(x, i - 1))
    <3>0. Len(z) = 3
      BY <1>8, <2>3
    <3>1. j = 1 \/ j = 2 \/ j = 3
      BY <1>7, <3>0
    <3> QED
      BY <1>8, <2>3, <3>1
  <2> QED
    BY <2>1, <2>2, <2>3
<1> QED
  BY <1>2, <1>6, <1>7, <1>9

\* The first state.
LEMMA NewIsRedacting ==
    ASSUME NEW x \in Seq(Byte)
    PROVE  Redacting(NewState(x), x)
<1> DEFINE s == NewState(x)
<1>1. s.text = ToValidUTF8(x) /\ s.replacements = <<>> /\ s.counts = [ k \in Categories |-> 0 ]
  BY DEF NewState
<1> HIDE DEF s
<1>2. Sound(s.text, x)
  BY <1>1, ValidIsSound
<1>3. \A i \in 1 .. Len(s.text) : s.text[i].c # "*" /\ s.text[i].c # "#"
  <2>1. "*" \notin Byte \cup {"r1", "r2", "r3"} /\ "#" \notin Byte \cup {"r1", "r2", "r3"}
    BY DEF Byte
  <2> QED
    BY <1>1, <2>1, ValidIsPlain
<1>4. Marks(s.text) = {}
  BY <1>3 DEF Marks
<1>5. \A k : Alive(s, k) = {}
  BY <1>4 DEF Alive
<1>6. s.counts = [ k \in Categories |-> Cardinality(Alive(s, k)) ]
  BY <1>1, <1>5, FS_EmptySet
<1>7. s.replacements \in Seq(Replacement)
  BY <1>1
<1> QED
  BY <1>2, <1>3, <1>4, <1>6, <1>7 DEF Redacting, s

\* protectTrailingCredentialPrefix.
LEMMA TrailingKeeps ==
    ASSUME NEW x \in Seq(Byte), NEW s, Redacting(s, x), NEW p, p = <<>> \/ Trailing(p, x)
    PROVE  Redacting(ProtectTrailing(s, p), x)
<1>1. CASE p = <<>> \/ ~IsSuffix(p, Bytes(s.text))
  BY <1>1 DEF ProtectTrailing
<1>2. CASE ~(p = <<>> \/ ~IsSuffix(p, Bytes(s.text)))
  <2> DEFINE t == s.text
             M == {[ from |-> Len(t) - Len(p) + 1, to |-> Len(t) ]}
  <2>1. Sound(t, x)
    BY DEF Redacting
  <2>2. Trailing(p, x) /\ IsSuffix(p, Bytes(t))
    BY <1>2
  <2>3. Matching(t, M) /\ Aligned(t, M)
    <3> HIDE DEF t
    <3> QED
      BY <2>1, <2>2, TrailingMatches
  <2>4. ProtectTrailing(s, p) = Protect(s, M, "url")
    BY <1>2 DEF ProtectTrailing
  <2>5. "url" \in Categories
    BY DEF Categories
  <2> HIDE DEF M
  <2> QED
    BY <2>3, <2>4, <2>5, ProtectKeeps
<1> QED
  BY <1>1, <1>2

\* Render shows a marker for every placeholder that is active, and no other.
LEMMA RenderMarks ==
    ASSUME NEW x, NEW s, Redacting(s, x), NEW k
    PROVE  LET text == Render(s) IN
           { text[i].n : i \in { j \in DOMAIN text : text[j].c = "*" /\ s.replacements[text[j].n].category = k } } = Alive(s, k)
<1> DEFINE t == s.text
           r == Render(s)
           A == { r[i].n : i \in { j \in DOMAIN r : r[j].c = "*" /\ s.replacements[r[j].n].category = k } }
<1>1. t \in Seq(Elems) /\ (\A i \in 1 .. Len(t) : t[i].c # "*")
  BY DEF Redacting, Sound
<1>2. PICK q : Shown(s, t, q) /\ r = FlattenSeq(q)
  BY <1>1, RenderIs
<1> HIDE DEF r
<1>3. q \in Seq(Seq(Elems)) /\ Len(q) = Len(t)
  BY <1>2 DEF Shown
<1>4. r \in Seq(Elems) /\ DOMAIN r = 1 .. Len(r)
  <2>1. r \in Seq(Elems)
    BY <1>2, <1>3, FlattenLays
  <2> QED
    BY <2>1
<1>5. ASSUME NEW j \in 1 .. Len(r), r[j].c = "*", s.replacements[r[j].n].category = k
      PROVE  r[j].n \in Alive(s, k)
  <2>1. j \in 1 .. Len(FlattenSeq(q))
    BY <1>2
  <2>2. PICK i \in 1 .. Len(q) : \E a \in 1 .. Len(q[i]) : FlattenSeq(q)[j] = q[i][a]
    BY <1>3, <2>1, FlattenFrom
  <2>3. PICK a \in 1 .. Len(q[i]) : FlattenSeq(q)[j] = q[i][a]
    BY <2>2
  <2>4. r[j] = q[i][a] /\ i \in 1 .. Len(t)
    BY <1>2, <1>3, <2>3
  <2> DEFINE h == Len(q[i])
  <2>5. h # 0 /\ (h = 1 => a = 1)
    <3>1. h \in Nat /\ a \in 1 .. h
      BY <1>3
    <3> HIDE DEF h
    <3> QED
      BY <3>1
  <2>6. /\ t[i].c # "#" => h = 1 /\ q[i][1] = t[i]
        /\ t[i].c = "#" => /\ h # 0 <=> s.replacements[t[i].n].active
                           /\ q[i][a].n = t[i].n
    BY <1>2, <2>4 DEF Shown
  <2> HIDE DEF h
  <2>7. t[i].c = "#"
    <3> SUFFICES ASSUME t[i].c # "#" PROVE FALSE
      OBVIOUS
    <3>1. r[j] = t[i]
      BY <2>4, <2>5, <2>6
    <3> QED
      BY <1>1, <1>5, <2>4, <3>1
  <2>8. s.replacements[t[i].n].active /\ r[j].n = t[i].n
    BY <2>4, <2>5, <2>6, <2>7
  <2>9. t[i].n \in Marks(t)
    BY <2>4, <2>7 DEF Marks
  <2> QED
    BY <1>5, <2>8, <2>9 DEF Alive
<1>6. ASSUME NEW e \in Alive(s, k)
      PROVE  \E j \in 1 .. Len(r) : r[j].c = "*" /\ r[j].n = e /\ s.replacements[r[j].n].category = k
  <2>1. e \in Marks(t) /\ s.replacements[e].active /\ s.replacements[e].category = k
    BY DEF Alive
  <2>2. PICK i \in 1 .. Len(t) : t[i].c = "#" /\ t[i].n = e
    BY <2>1 DEF Marks
  <2>3. /\ Len(q[i]) # 0 <=> s.replacements[t[i].n].active
        /\ \A a \in 1 .. Len(q[i]) : q[i][a].c = "*" /\ q[i][a].n = t[i].n
    BY <1>2, <2>2 DEF Shown
  <2>4. Len(q[i]) # 0 /\ i \in 1 .. Len(q)
    BY <1>3, <2>1, <2>2, <2>3
  <2>5. 1 \in 1 .. Len(q[i])
    <3> DEFINE h == Len(q[i])
    <3>1. h \in Nat /\ h # 0
      BY <1>3, <2>4
    <3> HIDE DEF h
    <3>2. 1 \in 1 .. h
      BY <3>1
    <3> QED
      BY <3>2 DEF h
  <2>6. \E j \in 1 .. Len(FlattenSeq(q)) : FlattenSeq(q)[j] = q[i][1]
    BY <1>3, <2>4, <2>5, FlattenTo
  <2>7. PICK j \in 1 .. Len(r) : r[j] = q[i][1]
    BY <1>2, <2>6
  <2> QED
    BY <2>1, <2>2, <2>3, <2>5, <2>7
<1>7. A = Alive(s, k)
  <2>1. ASSUME NEW e \in A PROVE e \in Alive(s, k)
    BY <1>4, <1>5, <2>1
  <2>2. ASSUME NEW e \in Alive(s, k) PROVE e \in A
    BY <1>4, <1>6, <2>2
  <2> QED
    BY <2>1, <2>2
<1> QED
  BY <1>7 DEF r

\* The state before Render, of redactBoundedWithBoundary.
Urls(x) == LET s == NewState(x) IN Protect(s, Hidden(UrlCredentials(Bytes(s.text)), 1), "url")
Cut(x, cut) == LET s == Urls(x) IN IF cut THEN Protect(s, Hidden(IncompleteUrls(Bytes(s.text)), 0), "url") ELSE s
Final(x, cut, prefix) ==
    LET s == ProtectTrailing(Cut(x, cut), prefix) IN Protect(s, Hidden(Assignments(Bytes(s.text)), 0), "assignment")

\* Every pass makes a state of the one before: the passes that look for URLs, ...
LEMMA UrlsAreRedacting ==
    ASSUME NEW x \in Seq(Byte)
    PROVE  Redacting(Urls(x), x)
<1> DEFINE s == NewState(x)
           M == Hidden(UrlCredentials(Bytes(s.text)), 1)
<1>1. Redacting(s, x) /\ Sound(s.text, x)
  BY NewIsRedacting DEF Redacting
<1>2. Urls(x) = Protect(s, M, "url") /\ "url" \in Categories
  BY DEF Urls, Categories
<1> HIDE DEF s
<1>3. Matching(s.text, M) /\ Aligned(s.text, M)
  BY <1>1, UrlsMatch
<1> HIDE DEF M
<1> QED
  BY <1>1, <1>2, <1>3, ProtectKeeps

\* ... for URLs that the limit cuts, ...
LEMMA CutIsRedacting ==
    ASSUME NEW x \in Seq(Byte), NEW cut
    PROVE  Redacting(Cut(x, cut), x)
<1> DEFINE s == Urls(x)
           M == Hidden(IncompleteUrls(Bytes(s.text)), 0)
<1>1. Redacting(s, x) /\ Sound(s.text, x)
  BY UrlsAreRedacting DEF Redacting
<1>2. Cut(x, cut) = (IF cut THEN Protect(s, M, "url") ELSE s) /\ "url" \in Categories
  BY DEF Cut, Categories
<1> HIDE DEF s
<1>3. Matching(s.text, M) /\ Aligned(s.text, M)
  BY <1>1, IncompleteMatch
<1> HIDE DEF M
<1>4. Redacting(Protect(s, M, "url"), x)
  BY <1>1, <1>2, <1>3, ProtectKeeps
<1> QED
  BY <1>1, <1>2, <1>4

\* ... and for what is left.
LEMMA FinalIsRedacting ==
    ASSUME NEW x \in Seq(Byte), NEW cut, NEW prefix, prefix = <<>> \/ Trailing(prefix, x)
    PROVE  Redacting(Final(x, cut, prefix), x)
<1> DEFINE s == ProtectTrailing(Cut(x, cut), prefix)
           M == Hidden(Assignments(Bytes(s.text)), 0)
<1>1. Redacting(s, x) /\ Sound(s.text, x)
  <2>1. Redacting(Cut(x, cut), x)
    BY CutIsRedacting
  <2>2. Redacting(s, x)
    BY <2>1, TrailingKeeps
  <2> QED
    BY <2>2 DEF Redacting
<1>2. Final(x, cut, prefix) = Protect(s, M, "assignment") /\ "assignment" \in Categories
  BY DEF Final, Categories
<1> HIDE DEF s
<1>3. Matching(s.text, M) /\ Aligned(s.text, M)
  BY <1>1, AssignmentsMatch
<1> HIDE DEF M
<1> QED
  BY <1>1, <1>2, <1>3, ProtectKeeps

\* redactBoundedWithBoundary: whole characters, and as many markers as it counts.
LEMMA BoundedIs ==
    ASSUME NEW x \in Seq(Byte), NEW cut, NEW prefix, prefix = <<>> \/ Trailing(prefix, x), NEW max \in Nat
    PROVE  LET r == RedactBounded(x, cut, prefix, max) IN Tidy(r.text) /\ r.counts = r.markers
<1> DEFINE s == Final(x, cut, prefix)
           t == Render(s)
           r == RedactBounded(x, cut, prefix, max)
<1>1. /\ r.text = Truncate(t, max) /\ r.counts = s.counts
      /\ r.markers = [ k \in Categories |->
            Cardinality({ t[i].n : i \in { j \in DOMAIN t : t[j].c = "*" /\ s.replacements[t[j].n].category = k } }) ]
  BY DEF RedactBounded, Urls, Cut, Final
<1>2. Redacting(s, x)
  BY FinalIsRedacting
<1> HIDE DEF s, r
<1>3. Sound(s.text, x) /\ s.text \in Seq(Elems) /\ s.counts = [ k \in Categories |-> Cardinality(Alive(s, k)) ]
  BY <1>2 DEF Redacting, Sound
<1>4. r.counts = r.markers
  BY <1>1, <1>2, <1>3, RenderMarks
<1>5. Tidy(t)
  <2>1. PICK q : Shown(s, s.text, q) /\ t = FlattenSeq(q)
    BY <1>3, RenderIs
  <2>2. Tidy(FlattenSeq(q))
    BY <1>3, <2>1, RenderIsTidy
  <2> QED
    BY <2>1, <2>2
<1>6. Tidy(r.text)
  <2> HIDE DEF t
  <2> QED
    BY <1>1, <1>5, TruncateIsTidy
<1> QED
  BY <1>4, <1>6 DEF r

\* Where the authority across the limit starts: behind a scheme, with nothing between it and
\* the limit that ends it.
LEMMA AuthorityStarts ==
    ASSUME NEW x \in Seq(Byte), NEW public \in 0 .. Len(x)
    PROVE  LET start == UrlAuthorityAtBoundary(x, public) IN
           /\ start \in 0 .. public
           /\ start > 0 => /\ start > 1 /\ x[start - 1] = "S"
                           /\ \A j \in start .. public : x[j] \notin Terminators
           /\ \A i \in 1 .. public - 1 :
                 x[i] = "S" /\ (\A j \in i + 1 .. public : x[j] \notin Terminators) => start = i + 1
<1> DEFINE z == SubSeq(x, 1, public)
           A == { i \in 1 .. public - 1 : x[i] = "S" /\ First(z, i + 1, Terminators) > public }
           B == { i + 1 : i \in A } \cup {0}
           start == UrlAuthorityAtBoundary(x, public)
<1>1. Len(x) \in Nat /\ public \in Nat /\ public <= Len(x) /\ ~(public > Len(x))
  OBVIOUS
<1>2. start = Max(B)
  BY <1>1 DEF UrlAuthorityAtBoundary
<1>3. z \in Seq(Byte) /\ Len(z) = public /\ \A j \in 1 .. public : z[j] = x[j]
  BY <1>1
<1> HIDE DEF z
<1>4. ASSUME NEW i \in 1 .. public - 1
      PROVE  First(z, i + 1, Terminators) > public <=> \A j \in i + 1 .. public : x[j] \notin Terminators
  <2> DEFINE f == First(z, i + 1, Terminators)
  <2>1. i + 1 \in Nat /\ i + 1 <= public /\ \A j \in i + 1 .. public : j \in 1 .. public
    BY <1>1
  <2>2. /\ f \in Nat /\ f <= public + 1
        /\ f <= public => f \in i + 1 .. public /\ z[f] \in Terminators
        /\ \A j \in i + 1 .. public : z[j] \in Terminators => f <= j
    BY <1>3, <2>1, FirstIs
  <2> HIDE DEF f
  <2>3. ASSUME f > public, NEW j \in i + 1 .. public PROVE x[j] \notin Terminators
    <3>1. ~(f <= j)
      BY <1>1, <2>2, <2>3
    <3> QED
      BY <1>3, <2>1, <2>2, <3>1
  <2>4. ASSUME \A j \in i + 1 .. public : x[j] \notin Terminators PROVE f > public
    <3> SUFFICES ASSUME f <= public PROVE FALSE
      BY <1>1, <2>2
    <3>1. f \in i + 1 .. public /\ z[f] \in Terminators
      BY <2>2
    <3> QED
      BY <1>3, <2>1, <2>4, <3>1
  <2> QED
    BY <2>3, <2>4 DEF f
<1>5. \A i : i \in A <=> i \in 1 .. public - 1 /\ x[i] = "S" /\ \A j \in i + 1 .. public : x[j] \notin Terminators
  BY <1>4
<1> HIDE DEF A
<1>6. B \subseteq 0 .. public /\ B # {}
  BY <1>1, <1>5
<1>7. \A b : b \in B <=> b = 0 \/ \E i \in A : b = i + 1
  OBVIOUS
<1> HIDE DEF B, start
<1>8. start \in B /\ \A b \in B : b <= start
  BY <1>1, <1>2, <1>6, MaxIs
<1>9. start \in 0 .. public
  BY <1>6, <1>8
<1>10. ASSUME start > 0
       PROVE  start > 1 /\ x[start - 1] = "S" /\ \A j \in start .. public : x[j] \notin Terminators
  <2>1. PICK i \in A : start = i + 1
    BY <1>7, <1>8, <1>10
  <2>2. i \in Nat /\ i >= 1 /\ start - 1 = i
    BY <1>1, <1>5, <2>1
  <2> QED
    BY <1>5, <2>1, <2>2
<1>11. ASSUME NEW i \in 1 .. public - 1, x[i] = "S", \A j \in i + 1 .. public : x[j] \notin Terminators
       PROVE  start = i + 1
  <2>1. i + 1 \in B
    BY <1>5, <1>7, <1>11
  <2>2. start \in Nat /\ i + 1 <= start /\ start <= public /\ i \in Nat
    BY <1>1, <1>8, <1>9, <2>1
  <2> SUFFICES ASSUME start # i + 1 PROVE FALSE
    OBVIOUS
  <2>3. start - 1 \in i + 1 .. public /\ start > 0
    BY <1>1, <2>2
  <2>4. x[start - 1] = "S"
    BY <1>10, <2>3
  <2> QED
    BY <1>11, <2>3, <2>4 DEF Terminators
<1> QED
  BY <1>9, <1>10, <1>11 DEF start

\* What is cut from the input from a scheme, or from behind one, up to the limit.
LEMMA TrailingIs ==
    ASSUME NEW x \in Seq(Byte), NEW public \in 0 .. Len(x), NEW a \in 1 .. public,
           x[a] = "S" \/ (a > 1 /\ x[a - 1] = "S")
    PROVE  Trailing(SubSeq(x, a, public), SubSeq(x, 1, public))
<1> DEFINE p == SubSeq(x, a, public)
           z == SubSeq(x, 1, public)
           n == (public - a) + 1
<1>1. Len(x) \in Nat /\ public \in Nat /\ public <= Len(x) /\ a \in Nat /\ a >= 1 /\ a <= public
  OBVIOUS
<1>2. z \in Seq(Byte) /\ Len(z) = public /\ \A j \in 1 .. public : z[j] = x[j]
  BY <1>1
<1>3. p \in Seq(Byte) /\ Len(p) = n /\ \A i \in 1 .. n : p[i] = x[(a - 1) + i]
  <2>1. p \in Seq(Byte) /\ Len(p) = n
    BY <1>1
  <2>2. ASSUME NEW i \in 1 .. n PROVE p[i] = x[(a - 1) + i]
    <3>1. p[i] = x[a + i - 1] /\ a + i - 1 = (a - 1) + i
      BY <1>1
    <3> QED
      BY <3>1
  <2> QED
    BY <2>1, <2>2
<1>4. n \in Nat /\ n >= 1 /\ n <= public /\ public - n = a - 1 /\ 1 \in 1 .. n /\ (a - 1) + 1 = a
  BY <1>1
<1> HIDE DEF p, z, n
<1>5. ASSUME NEW i \in 1 .. n PROVE p[i] = z[(public - n) + i]
  <2>1. (a - 1) + i \in 1 .. public
    BY <1>1, <1>4 DEF n
  <2> QED
    BY <1>2, <1>3, <1>4, <2>1
<1>6. p[1] = "S" \/ (n < public /\ z[public - n] = "S")
  <2>1. p[1] = x[a]
    BY <1>3, <1>4
  <2>2. CASE x[a] = "S"
    BY <2>1, <2>2
  <2>3. CASE a > 1 /\ x[a - 1] = "S"
    <3>1. a - 1 \in 1 .. public /\ n < public
      BY <1>1, <1>4, <2>3
    <3> QED
      BY <1>2, <1>4, <2>3, <3>1
  <2> QED
    BY <2>2, <2>3
<1>7. Trailing(p, z)
  BY <1>2, <1>3, <1>4, <1>5, <1>6 DEF Trailing
<1> QED
  BY <1>7 DEF p, z

\* The prefix that redactInspected has hidden.
Prefix(x, cut, across, public) ==
    LET match == IF public < Len(x) THEN CrossingUrlCredentialPrefix(x, public) ELSE <<>>
        start == UrlAuthorityAtBoundary(x, public)
    IN  IF cut /\ across /\ match = <<>> /\ start > 0 THEN SubSeq(x, start, public) ELSE match

LEMMA PrefixTrails ==
    ASSUME NEW x \in Seq(Byte), NEW cut, NEW across, NEW public \in 0 .. Len(x)
    PROVE  LET p == Prefix(x, cut, across, public) IN p = <<>> \/ Trailing(p, SubSeq(x, 1, public))
<1> DEFINE crossing == { m \in UrlCredentials(x) : m.from <= public /\ public < m.to }
           match == IF public < Len(x) THEN CrossingUrlCredentialPrefix(x, public) ELSE <<>>
           start == UrlAuthorityAtBoundary(x, public)
           prefix == IF cut /\ across /\ match = <<>> /\ start > 0 THEN SubSeq(x, start, public) ELSE match
           z == SubSeq(x, 1, public)
<1>1. Prefix(x, cut, across, public) = prefix
  BY DEF Prefix
<1>2. Len(x) \in Nat /\ public \in 0 .. Len(x)
  OBVIOUS
<1>4. match = <<>> \/ Trailing(match, z)
  <2>1. CASE public < Len(x) /\ ~(public = 0 \/ crossing = {})
    <3> DEFINE F == { m.from : m \in crossing }
               a == Min(F)
    <3>1. match = SubSeq(x, a, public)
      BY <2>1 DEF CrossingUrlCredentialPrefix
    <3>2. DOMAIN x = 1 .. Len(x)
      OBVIOUS
    <3>3. ASSUME NEW m \in crossing PROVE m.from \in 1 .. Len(x) /\ m.from <= public /\ x[m.from] = "S"
      <4>1. m \in [ from : { i \in DOMAIN x : x[i] = "S" }, to : { j \in DOMAIN x : x[j] = "@" } ] /\ m.from <= public
        BY DEF UrlCredentials
      <4> QED
        BY <3>2, <4>1
    <3> HIDE DEF crossing
    <3>4. F \subseteq Nat /\ F # {}
      BY <2>1, <3>3
    <3>5. a \in F
      <4> HIDE DEF F
      <4> QED
        BY <3>4, MinIs
    <3> HIDE DEF a
    <3>6. a \in 1 .. public /\ x[a] = "S"
      BY <1>2, <3>3, <3>5
    <3> QED
      BY <1>2, <3>1, <3>6, TrailingIs
  <2>2. CASE ~(public < Len(x) /\ ~(public = 0 \/ crossing = {}))
    BY <2>2 DEF CrossingUrlCredentialPrefix
  <2> QED
    BY <2>1, <2>2
<1>5. start > 0 => start \in 1 .. public /\ start > 1 /\ x[start - 1] = "S"
  <2>1. start \in 0 .. public /\ (start > 0 => start > 1 /\ x[start - 1] = "S")
    BY <1>2, AuthorityStarts
  <2> HIDE DEF start
  <2> QED
    BY <1>2, <2>1
<1> HIDE DEF match, start
<1>6. prefix = <<>> \/ Trailing(prefix, z)
  <2>1. CASE cut /\ across /\ match = <<>> /\ start > 0
    BY <1>2, <1>5, <2>1, TrailingIs
  <2>2. CASE ~(cut /\ across /\ match = <<>> /\ start > 0)
    BY <1>4, <2>2
  <2> QED
    BY <2>1, <2>2
<1> HIDE DEF prefix, z
<1> QED
  BY <1>1, <1>6 DEF z

\* redactInspected.
LEMMA InspectedIs ==
    ASSUME NEW x \in Seq(Byte), NEW cut, NEW across, NEW max \in Nat
    PROVE  LET r == RedactInspected(x, cut, across, max) IN Tidy(r.text) /\ r.counts = r.markers
<1> DEFINE public == Min({Len(x), max})
           prefix == Prefix(x, cut, across, public)
           z == SubSeq(x, 1, public)
<1>1. RedactInspected(x, cut, across, max) = RedactBounded(z, cut, prefix, max)
  BY DEF RedactInspected, Prefix
<1>2. Len(x) \in Nat /\ public \in 0 .. Len(x)
  BY MinOfTwo
<1> HIDE DEF public
<1>3. z \in Seq(Byte)
  BY <1>2
<1>4. prefix = <<>> \/ Trailing(prefix, z)
  BY <1>2, PrefixTrails
<1> HIDE DEF prefix, z
<1> QED
  BY <1>1, <1>3, <1>4, BoundedIs

\* RedactString and Close.
LEMMA StringIs ==
    ASSUME NEW x \in Seq(Byte), NEW max \in Nat
    PROVE  LET r == RedactString(x, max) IN Tidy(r.text) /\ r.counts = r.markers
<1> DEFINE m == Min({Len(x), max + Lookahead})
           z == SubSeq(x, 1, m)
<1>1. Len(x) \in Nat /\ m \in 0 .. Len(x)
  BY RedactorAssumption, MinOfTwo
<1> HIDE DEF m
<1>2. z \in Seq(Byte)
  BY <1>1
<1> HIDE DEF z
<1> QED
  BY <1>2, InspectedIs DEF RedactString, z, m

-----------------------------------------------------------------------------
(* Counts and shares in every reachable state. *)

\* What a stream shows is what RedactString makes of bytes.
LEMMA RedactedIs ==
    ASSUME BufferInv, RedactedInv, StreamInv, redacted # Pending, NEW s \in DOMAIN redacted
    PROVE  LET x == IF job.kind = "stream" THEN job.stdout ELSE buffer[s] IN
           x \in Seq(Byte) /\ job.limit \in Nat /\ redacted[s] = RedactString(x, job.limit) /\ s \in Streams
<1>1. job \in Jobs /\ job.limit \in Nat /\ job.kind \in {"command", "stream"} /\ job.stdout \in Seq(Byte)
  BY OutputAssumption DEF BufferInv, Streams
<1>2. CASE job.kind = "stream"
  <2>1. redacted = [z \in {"stdout"} |-> RedactString(job.stdout, job.limit)]
    BY <1>2 DEF StreamInv
  <2>2. s = "stdout"
    BY <2>1
  <2> QED
    BY <1>1, <1>2, <2>1, <2>2 DEF Streams
<1>3. CASE job.kind = "command"
  <2>1. redacted = [ z \in Streams |-> RedactString(buffer[z], job.limit) ]
    BY <1>3 DEF RedactedInv
  <2>2. s \in Streams /\ redacted[s] = RedactString(buffer[s], job.limit)
    BY <2>1
  <2>3. buffer[s] \in Seq(Byte)
    BY <2>2 DEF BufferInv
  <2> QED
    BY <1>1, <1>3, <2>2, <2>3
<1> QED
  BY <1>1, <1>2, <1>3

\* The counts of a result are the markers in its text, however the passes of the redactor
\* hide what earlier ones have marked: every placeholder that is consumed was counted, once.
THEOREM CountsAreRight == Spec => []CountsMatch
<1>1. IInv /\ StreamInv => CountsMatch
  <2> SUFFICES ASSUME IInv, StreamInv, redacted # Pending, NEW s \in DOMAIN redacted
               PROVE  redacted[s].counts = redacted[s].markers
    BY DEF CountsMatch
  <2> DEFINE x == IF job.kind = "stream" THEN job.stdout ELSE buffer[s]
  <2>1. x \in Seq(Byte) /\ job.limit \in Nat /\ redacted[s] = RedactString(x, job.limit)
    BY RedactedIs DEF IInv
  <2> HIDE DEF x
  <2> QED
    BY <2>1, StringIs
<1> QED
  BY <1>1, Invariance, StreamInvariance, PTL

\* How many streams there are, by their names.
LEMMA StreamCount ==
    ASSUME NEW r, NEW available \in Int
    PROVE  available - FieldBytes * Cardinality({ s \in Streams : r[s] # <<>> })
              = Room(r.stdout, r.stderr, available)
<1> DEFINE F == { s \in Streams : r[s] # <<>> }
           n == Cardinality(F)
           a == "stdout"
           b == "stderr"
<1>1. \A i : i \in F <=> (i = a /\ r.stdout # <<>>) \/ (i = b /\ r.stderr # <<>>)
  BY DEF Streams
<1>2. Cardinality({}) = 0 /\ Cardinality({a}) = 1 /\ Cardinality({b}) = 1 /\ Cardinality({a, b}) = 2
  <2>1. Cardinality({}) = 0 /\ Cardinality({a}) = 1 /\ Cardinality({b}) = 1
    BY FS_EmptySet, FS_Singleton
  <2>2. IsFiniteSet({a})
    BY FS_Singleton
  <2>3. b \notin {a} /\ {a} \cup {b} = {a, b}
    OBVIOUS
  <2> HIDE DEF a, b
  <2>4. Cardinality({a} \cup {b}) = Cardinality({a}) + 1
    BY <2>2, <2>3, FS_AddElement
  <2> QED
    BY <2>1, <2>3, <2>4
<1> HIDE DEF F, a, b
<1>3. n = (IF r.stdout = <<>> THEN 0 ELSE 1) + (IF r.stderr = <<>> THEN 0 ELSE 1)
  <2>1. CASE r.stdout = <<>> /\ r.stderr = <<>>
    <3>1. F = {}
      BY <1>1, <2>1
    <3> QED
      BY <1>2, <2>1, <3>1
  <2>2. CASE r.stdout # <<>> /\ r.stderr = <<>>
    <3>1. F = {a}
      BY <1>1, <2>2
    <3> QED
      BY <1>2, <2>2, <3>1
  <2>3. CASE r.stdout = <<>> /\ r.stderr # <<>>
    <3>1. F = {b}
      BY <1>1, <2>3
    <3> QED
      BY <1>2, <2>3, <3>1
  <2>4. CASE r.stdout # <<>> /\ r.stderr # <<>>
    <3>1. F = {a, b}
      BY <1>1, <2>4
    <3> QED
      BY <1>2, <2>4, <3>1
  <2> QED
    BY <2>1, <2>2, <2>3, <2>4
<1> HIDE DEF n
<1>4. available - FieldBytes * n = Room(r.stdout, r.stderr, available)
  BY <1>3 DEF Room, FieldBytes
<1> QED
  BY <1>4 DEF n, F

\* The answer to execute is shared fairly.
LEMMA RespondIsFair ==
    ASSUME BufferInv, RedactedInv, StreamInv, Respond
    PROVE  FairShare'
<1> DEFINE r == ExecuteResult
           m == WriteResponse(MarshalExecuteResult(r))
           room == Room(r.stdout, r.stderr, MaxFrame - (SingleBytes + 4))
<1>1. job.kind = "command" /\ redacted # Pending /\ results' = <<r>> /\ response' = m
  BY DEF Respond
<1>2. PICK S : r \in Results(S)
  BY <1>1, ResultIs
<1>3. Whole(r.stdout) /\ Whole(r.stderr)
  <2>1. DOMAIN redacted = Streams
    BY <1>1 DEF RedactedInv
  <2>2. ASSUME NEW s \in Streams PROVE Whole(redacted[s].text)
    <3> DEFINE x == IF job.kind = "stream" THEN job.stdout ELSE buffer[s]
    <3>1. x \in Seq(Byte) /\ job.limit \in Nat /\ redacted[s] = RedactString(x, job.limit)
      BY <1>1, <2>1, RedactedIs
    <3> HIDE DEF x
    <3>2. Tidy(redacted[s].text)
      BY <3>1, StringIs
    <3> QED
      BY <3>2, TidyIsWhole
  <2>3. Whole(redacted.stdout.text) /\ Whole(redacted.stderr.text)
    BY <2>2 DEF Streams
  <2> QED
    BY <2>3 DEF ExecuteResult
<1>4. MaxFrame - (SingleBytes + 4) \in Int
  BY FramingAssumption
<1> HIDE DEF r
<1>5. ASSUME m.ok, room > 0
      PROVE  Uncut(r.stdout, m.results[1].stdout, r.stderr, room) /\ Uncut(r.stderr, m.results[1].stderr, r.stdout, room)
  BY <1>2, <1>3, <1>5, SingleShares
<1>6. MaxFrame - (SingleBytes + 4) - FieldBytes * Cardinality({ s \in Streams : r[s] # <<>> }) = room
  BY <1>4, StreamCount
<1> HIDE DEF m, room
<1>7. results'[1] = r /\ response'.results[1] = m.results[1] /\ response'.ok = m.ok
  BY <1>1
<1> SUFFICES ASSUME response'.ok, room > 0
             PROVE  /\ Uncut(r.stdout, response'.results[1].stdout, r.stderr, room)
                    /\ Uncut(r.stderr, response'.results[1].stderr, r.stdout, room)
  BY <1>6, <1>7 DEF FairShare, Uncut, NextSize
<1> QED
  BY <1>5, <1>7

\* However much the two streams of a command have, and of whatever characters: one is cut
\* only by what the other one takes, and of the other one only the larger half counts.
THEOREM SharesAreFair == Spec => []FairShare
<1>1. Init => FairShare
  BY DEF Init, FairShare
<1>2. IInv /\ StreamInv /\ FairShare /\ [Next]_vars => FairShare'
  <2> SUFFICES ASSUME IInv, StreamInv, FairShare, [Next]_vars PROVE FairShare'
    OBVIOUS
  <2>1. CASE Respond
    BY <2>1, RespondIsFair DEF IInv
  <2>2. CASE \E other \in Others : RespondBatch(other)
    <3>1. PICK other \in Others : RespondBatch(other)
      BY <2>2
    <3>2. Len(results') = 2
      BY <3>1 DEF RespondBatch
    <3>3. ~(Len(results)' = 1)
      BY <3>2
    <3> QED
      BY <3>3, Zenon DEF FairShare
  <2>3. CASE \/ \E s \in Streams : \E k \in 1 .. Len(job[s]) : Write(s, k)
             \/ \E k \in 1 .. Len(job.stdout) : StreamChunk(k)
             \/ Collect \/ CloseStream \/ UNCHANGED vars
    <3>1. results' = results /\ response' = response
      BY <2>3 DEF Write, StreamChunk, Collect, CloseStream, vars
    <3> QED
      BY <3>1 DEF FairShare
  <2> QED
    BY <2>1, <2>2, <2>3 DEF Next
<1> QED
  BY <1>1, <1>2, Invariance, StreamInvariance, PTL DEF Spec

-----------------------------------------------------------------------------
(* What is hidden of a URL. *)

\* Nothing from the positions I of the input is in the text t.
Hides(t, I) == \A k \in 1 .. Len(t) : t[k].c # "#" => t[k].n \notin I

\* The text t ends with the bytes of z from o on, and has only earlier ones before them.
Tailed(t, z, o) ==
    LET d == Len(t) - Len(z) IN
    /\ d + o >= 1
    /\ \A g \in o .. Len(z) : t[d + g].c = z[g] /\ t[d + g].n = g
    /\ \A k \in 1 .. (d + o) - 1 : t[k].c # "#" => t[k].n < o

\* protect brings nothing back.
LEMMA HidesKept ==
    ASSUME NEW t \in Seq(Elems), NEW M, NEW d, NEW q, Pieces(t, M, d, q), NEW I, Hides(t, I)
    PROVE  Hides(FlattenSeq(q), I)
<1> DEFINE r == FlattenSeq(q)
<1> SUFFICES ASSUME NEW k \in 1 .. Len(r), r[k].c # "#" PROVE r[k].n \notin I
  BY DEF Hides
<1>1. PICK i \in 1 .. Len(t) : (Heads(M, i) /\ r[k].c = "#" /\ r[k].n = Rank(M, d, i)) \/ (r[k] = t[i] /\ ~Covers(M, i))
  BY PieceFrom
<1> HIDE DEF r
<1>2. r[k] = t[i]
  BY <1>1
<1> QED
  BY <1>2 DEF Hides

\* Intervals before the tail leave it where it is.
LEMMA TailKept ==
    ASSUME NEW z \in Seq(Byte), NEW t \in Seq(Elems), NEW o \in 1 .. Len(z), Tailed(t, z, o),
           NEW M, Matching(t, M), \A m \in M : m.to < (Len(t) - Len(z)) + o,
           NEW d, NEW q, Pieces(t, M, d, q)
    PROVE  FlattenSeq(q) \in Seq(Elems) /\ Tailed(FlattenSeq(q), z, o)
<1> DEFINE r == FlattenSeq(q)
           n == Len(t)
           l == Len(z)
           p == (n - l) + o
           e == Len(r)
<1>1. n \in Nat /\ l \in Nat /\ o \in Nat /\ o >= 1 /\ o <= l
  OBVIOUS
<1>2. q \in Seq(Seq(Elems)) /\ Len(q) = n
  BY DEF Pieces
<1>3. /\ p >= 1
      /\ \A g \in o .. l : t[(n - l) + g].c = z[g] /\ t[(n - l) + g].n = g
      /\ \A k \in 1 .. p - 1 : t[k].c # "#" => t[k].n < o
  BY DEF Tailed
<1>4. p \in 1 .. Len(q) + 1 /\ p <= n /\ p \in Nat
  BY <1>1, <1>2, <1>3
<1>5. ASSUME NEW g \in p .. n PROVE Len(q[g]) = 1 /\ q[g][1] = t[g]
  <2>1. g \in 1 .. n
    BY <1>1, <1>4
  <2>2. ~Covers(M, g)
    <3> SUFFICES ASSUME NEW m \in M, g \in m.from .. m.to PROVE FALSE
      BY DEF Covers
    <3>1. m.to < p /\ m.from \in 1 .. n /\ m.to \in m.from .. n
      BY DEF Matching
    <3> DEFINE u == m.from
               v == m.to
    <3>2. u \in Nat /\ v \in Nat /\ v < p /\ g \in u .. v
      BY <1>1, <3>1
    <3> HIDE DEF u, v, p
    <3> QED
      BY <1>4, <2>1, <3>2
  <2> QED
    BY <2>1, <2>2 DEF Pieces
<1> HIDE DEF p, n, l
<1>6. /\ r \in Seq(Elems) /\ e \in Nat /\ e >= Len(q) - p + 1
      /\ \A g \in p .. Len(q) : r[e - Len(q) + g] = q[g][1]
      /\ \A k \in 1 .. e - (Len(q) - p + 1) : \E i \in 1 .. p - 1 : \E j \in 1 .. Len(q[i]) : r[k] = q[i][j]
  <2>1. \A g \in p .. Len(q) : Len(q[g]) = 1
    BY <1>2, <1>5
  <2> QED
    BY <1>2, <1>4, <2>1, FlattenTail, ZenonT(30)
<1> HIDE DEF r, e
<1>7. (e - l) + o >= 1
  BY <1>1, <1>2, <1>6 DEF p
<1>8. ASSUME NEW g \in o .. l PROVE r[(e - l) + g].c = z[g] /\ r[(e - l) + g].n = g
  <2> DEFINE h == (n - l) + g
  <2>1. h \in p .. n /\ e - n + h = (e - l) + g
    BY <1>1, <1>6 DEF p
  <2>2. t[h].c = z[g] /\ t[h].n = g
    BY <1>3
  <2> HIDE DEF h
  <2>3. r[e - n + h] = t[h]
    BY <1>2, <1>5, <1>6, <2>1
  <2> QED
    BY <2>1, <2>2, <2>3
<1>9. ASSUME NEW k \in 1 .. ((e - l) + o) - 1, r[k].c # "#" PROVE r[k].n < o
  <2>1. k \in 1 .. e - (Len(q) - p + 1)
    <3>1. e - (n - p + 1) = ((e - l) + o) - 1
      BY <1>1, <1>6 DEF p
    <3> QED
      BY <1>2, <3>1
  <2>2. PICK i \in 1 .. p - 1 : \E j \in 1 .. Len(q[i]) : r[k] = q[i][j]
    BY <1>6, <2>1
  <2>3. PICK j \in 1 .. Len(q[i]) : r[k] = q[i][j]
    BY <2>2
  <2>4. i \in 1 .. n
    BY <1>1, <1>4
  <2> DEFINE h == Len(q[i])
  <2>5. h # 0 /\ (h = 1 => j = 1)
    <3>1. h \in Nat /\ j \in 1 .. h
      BY <1>2, <2>4
    <3> HIDE DEF h
    <3> QED
      BY <3>1
  <2>6. /\ Heads(M, i) => h = 1 /\ q[i][1].c = "#"
        /\ Covers(M, i) /\ ~Heads(M, i) => h = 0
        /\ ~Covers(M, i) => h = 1 /\ q[i][1] = t[i]
    BY <2>4 DEF Pieces, n
  <2> HIDE DEF h
  <2>7. r[k] = t[i]
    BY <1>9, <2>3, <2>5, <2>6
  <2> QED
    BY <1>3, <1>9, <2>7
<1>10. Tailed(r, z, o)
  BY <1>7, <1>8, <1>9 DEF Tailed, e, l
<1> QED
  BY <1>6, <1>10 DEF r

\* Intervals over the end of the tail hide it.
LEMMA TailHidden ==
    ASSUME NEW z \in Seq(Byte), NEW t \in Seq(Elems), NEW o \in 1 .. Len(z), Tailed(t, z, o),
           NEW a \in o .. Len(z), NEW M, \A g \in a .. Len(z) : Covers(M, (Len(t) - Len(z)) + g),
           NEW d, NEW q, Pieces(t, M, d, q)
    PROVE  Hides(FlattenSeq(q), a .. Len(z))
<1> DEFINE r == FlattenSeq(q)
           n == Len(t)
           l == Len(z)
           f == n - l
<1>1. n \in Nat /\ l \in Nat /\ o \in Nat /\ o >= 1 /\ o <= l /\ a \in Nat /\ o <= a
  OBVIOUS
<1>2. /\ f + o >= 1 /\ f \in Int
      /\ \A g \in o .. l : t[f + g].n = g
      /\ \A k \in 1 .. (f + o) - 1 : t[k].c # "#" => t[k].n < o
  BY <1>1 DEF Tailed
<1> SUFFICES ASSUME NEW k \in 1 .. Len(r), r[k].c # "#", r[k].n \in a .. l PROVE FALSE
  BY DEF Hides
<1>3. PICK i \in 1 .. Len(t) : (Heads(M, i) /\ r[k].c = "#" /\ r[k].n = Rank(M, d, i)) \/ (r[k] = t[i] /\ ~Covers(M, i))
  BY PieceFrom
<1> HIDE DEF r
<1>5. r[k] = t[i] /\ ~Covers(M, i)
  BY <1>3
<1>6. i \in 1 .. n /\ t[i].c # "#" /\ t[i].n \in a .. l
  BY <1>5
<1>7. \A g \in a .. l : Covers(M, f + g)
  OBVIOUS
<1> HIDE DEF f, n, l
<1>8. ~(i < f + o)
  <2> SUFFICES ASSUME i < f + o PROVE FALSE
    OBVIOUS
  <2>1. i \in 1 .. (f + o) - 1
    BY <1>1, <1>2, <1>6
  <2>2. t[i].n < o
    BY <1>2, <1>6, <2>1
  <2> DEFINE e == t[i].n
  <2>3. e \in a .. l /\ e < o
    BY <1>6, <2>2
  <2> HIDE DEF e
  <2> QED
    BY <1>1, <2>3
<1> DEFINE g == i - f
<1>9. g \in o .. l /\ f + g = i
  <2>1. f = n - l /\ f \in Int /\ i \in Int /\ i <= n /\ ~(i < f + o) /\ n \in Int /\ l \in Int /\ o \in Int
    BY <1>1, <1>2, <1>6, <1>8 DEF f
  <2> HIDE DEF f
  <2> QED
    BY <2>1
<1> HIDE DEF g
<1>10. t[i].n = g
  BY <1>2, <1>9
<1> QED
  BY <1>5, <1>6, <1>7, <1>9, <1>10

\* Every byte of z is a character of its own.
Ascii(z) == \A k \in 1 .. Len(z) : z[k] \notin {"l", "t"}

\* ToValidUTF8 leaves such a text alone.
LEMMA ValidIsInput ==
    ASSUME NEW z \in Seq(Byte), Ascii(z)
    PROVE  LET t == ToValidUTF8(z) IN
           /\ t \in Seq(Elems) /\ Len(t) = Len(z) /\ Len(t) \in Nat
           /\ \A k \in 1 .. Len(z) : t[k].c = z[k] /\ t[k].n = k
           /\ Bytes(t) = z
<1> DEFINE q == [ i \in DOMAIN z |-> Char(z, i) ]
           t == ToValidUTF8(z)
<1>1. Len(z) \in Nat /\ DOMAIN z = 1 .. Len(z)
  OBVIOUS
<1>2. t = FlattenSeq(q)
  BY DEF ToValidUTF8, Char
<1>3. q \in Seq(Seq(Elems)) /\ Len(q) = Len(z) /\ \A i \in 1 .. Len(z) : q[i] = Char(z, i)
  <2>1. \A i \in 1 .. Len(z) : Char(z, i) \in Seq(Elems)
    BY CharIs
  <2>2. q \in [ 1 .. Len(z) -> Seq(Elems) ] /\ DOMAIN q = 1 .. Len(z)
    BY <1>1, <2>1
  <2>3. \A i \in 1 .. Len(z) : q[i] = Char(z, i)
    BY <1>1
  <2> DEFINE Z == Seq(Elems)
  <2> HIDE DEF q, Z
  <2>4. q \in Seq(Z) /\ Len(q) = Len(z)
    BY <1>1, <2>2 DEF Z
  <2> QED
    BY <2>3, <2>4 DEF Z
<1> HIDE DEF q, t
<1>4. ASSUME NEW i \in 1 .. Len(z) PROVE Len(q[i]) = 1 /\ q[i][1].c = z[i] /\ q[i][1].n = i
  <2>1. ~Invalid(z, i)
    BY DEF Ascii, Invalid
  <2>2. Len(Char(z, i)) = 1 /\ Char(z, i)[1].c = z[i] /\ Char(z, i)[1].n = i
    BY <2>1, CharIs
  <2> QED
    BY <1>3, <2>2
<1> DEFINE o == 1
<1>5. o \in 1 .. Len(q) + 1 /\ \A g \in o .. Len(q) : Len(q[g]) = 1
  BY <1>1, <1>3, <1>4
<1> HIDE DEF o
<1>6. /\ t \in Seq(Elems) /\ Len(t) \in Nat /\ Len(t) >= Len(q) - o + 1
      /\ \A g \in o .. Len(q) : t[Len(t) - Len(q) + g] = q[g][1]
      /\ \A k \in 1 .. Len(t) - (Len(q) - o + 1) : \E i \in 1 .. o - 1 : \E j \in 1 .. Len(q[i]) : t[k] = q[i][j]
  <2> DEFINE r == FlattenSeq(q)
  <2>1. /\ r \in Seq(Elems) /\ Len(r) \in Nat /\ Len(r) >= Len(q) - o + 1
        /\ \A g \in o .. Len(q) : r[Len(r) - Len(q) + g] = q[g][1]
        /\ \A k \in 1 .. Len(r) - (Len(q) - o + 1) : \E i \in 1 .. o - 1 : \E j \in 1 .. Len(q[i]) : r[k] = q[i][j]
    BY <1>3, <1>5, FlattenTail, ZenonT(30)
  <2> HIDE DEF r
  <2>2. t = r
    BY <1>2 DEF r
  <2> QED
    BY <2>1, <2>2
<1>7. Len(t) = Len(z)
  <2> SUFFICES ASSUME Len(t) # Len(z) PROVE FALSE
    OBVIOUS
  <2>1. Len(q) - o + 1 = Len(q) /\ Len(q) = Len(z)
    BY <1>1, <1>3 DEF o
  <2>2. 1 \in 1 .. Len(t) - (Len(q) - o + 1)
    BY <1>1, <1>6, <2>1
  <2>3. \E i \in 1 .. o - 1 : TRUE
    BY <1>6, <2>2
  <2> QED
    BY <2>3 DEF o
<1>8. ASSUME NEW k \in 1 .. Len(z) PROVE t[k].c = z[k] /\ t[k].n = k
  <2>1. Len(t) - Len(q) + k = k
    BY <1>1, <1>3, <1>7
  <2>2. t[k] = q[k][1]
    BY <1>3, <1>6, <2>1 DEF o
  <2> QED
    BY <1>4, <2>2
<1>9. Bytes(t) = z
  <2>1. Bytes(t) \in Seq(Symbols) /\ Len(Bytes(t)) = Len(z) /\ \A i \in 1 .. Len(z) : Bytes(t)[i] = t[i].c
    BY <1>6, <1>7, BytesIs
  <2>2. \A i \in 1 .. Len(z) : Bytes(t)[i] = z[i]
    BY <1>8, <2>1
  <2> DEFINE y == Bytes(t)
  <2>3. y \in Seq(Symbols) /\ Len(y) = Len(z) /\ \A i \in 1 .. Len(z) : y[i] = z[i]
    BY <2>1, <2>2
  <2> HIDE DEF y
  <2>4. y = z
    BY <2>3
  <2> QED
    BY <2>4 DEF y
<1> QED
  BY <1>6, <1>7, <1>8, <1>9 DEF t

\* The scheme at i, followed by user, colon at c, and password, with "@" at end.
Credential(x, i, c, end) ==
    /\ i \in 1 .. Len(x) /\ x[i] = "S" /\ end \in i + 1 .. Len(x) /\ x[end] = "@"
    /\ \A j \in i + 1 .. end - 1 : x[j] \notin Ends
    /\ c \in i + 2 .. end - 2 /\ x[c] = ":" /\ \A j \in i + 1 .. c - 1 : x[j] # ":"

\* What has to be hidden.
LEMMA UserinfoIs ==
    ASSUME NEW x \in Seq(Byte), NEW e \in Userinfo(x)
    PROVE  \E i \in Nat, c \in Nat, end \in Nat : Credential(x, i, c, end) /\ e \in i + 1 .. end - 1
<1>1. Len(x) \in Nat /\ DOMAIN x = 1 .. Len(x)
  OBVIOUS
<1> DEFINE E(j) == First(x, j + 1, Ends)
           C(j) == First(x, j + 1, {":"})
<1>2. PICK i \in DOMAIN x : /\ x[i] = "S" /\ E(i) <= Len(x) /\ x[E(i)] = "@" /\ i + 1 < C(i) /\ C(i) < E(i) - 1
                            /\ e \in i + 1 .. E(i) - 1
  BY DEF Userinfo, Ends
<1> DEFINE end == E(i)
           c == C(i)
<1>3. i \in 1 .. Len(x) /\ i \in Nat /\ i + 1 \in Nat
  BY <1>1
<1>4. /\ end \in Nat /\ end <= Len(x) + 1 /\ (end <= Len(x) => end \in i + 1 .. Len(x))
      /\ \A j \in i + 1 .. Len(x) : x[j] \in Ends => end <= j
  BY <1>3, FirstIs
<1>5. /\ c \in Nat /\ (c <= Len(x) => c \in i + 1 .. Len(x) /\ x[c] \in {":"})
      /\ \A j \in i + 1 .. Len(x) : x[j] \in {":"} => c <= j
  BY <1>3, FirstIs
<1>6. x[i] = "S" /\ end <= Len(x) /\ x[end] = "@" /\ i + 1 < c /\ c < end - 1 /\ e \in i + 1 .. end - 1
  BY <1>2
<1> HIDE DEF end, c
<1>7. end \in i + 1 .. Len(x) /\ c \in i + 2 .. end - 2 /\ c <= Len(x)
  BY <1>1, <1>3, <1>4, <1>5, <1>6
<1>8. ASSUME NEW j \in i + 1 .. end - 1 PROVE x[j] \notin Ends
  <2>1. j \in i + 1 .. Len(x) /\ ~(end <= j)
    BY <1>1, <1>3, <1>4, <1>6
  <2> QED
    BY <1>4, <2>1
<1>9. ASSUME NEW j \in i + 1 .. c - 1 PROVE x[j] # ":"
  <2>1. j \in i + 1 .. Len(x) /\ ~(c <= j)
    BY <1>1, <1>3, <1>5, <1>7
  <2> QED
    BY <1>5, <2>1
<1>10. Credential(x, i, c, end)
  BY <1>3, <1>5, <1>6, <1>7, <1>8, <1>9 DEF Credential
<1> QED
  BY <1>3, <1>4, <1>5, <1>6, <1>10

\* urlCredentialRE finds it when it is all there.
LEMMA CredentialMatches ==
    ASSUME NEW z \in Seq(Byte), NEW i \in Nat, NEW c \in Nat, NEW end \in Nat, Credential(z, i, c, end)
    PROVE  [ from |-> i, to |-> end ] \in UrlCredentials(z)
<1>1. Len(z) \in Nat /\ DOMAIN z = 1 .. Len(z)
  OBVIOUS
<1>2. /\ i \in 1 .. Len(z) /\ z[i] = "S" /\ end \in i + 1 .. Len(z) /\ z[end] = "@"
      /\ \A j \in i + 1 .. end - 1 : z[j] \notin Ends
      /\ c \in i + 2 .. end - 2 /\ z[c] = ":" /\ \A j \in i + 1 .. c - 1 : z[j] # ":"
  BY DEF Credential
<1>3. Stops \subseteq Ends /\ "@" \in Stops
  BY DEF Stops, Ends, White, Terminators
<1>4. First(z, i + 1, Stops \cup {":"}) = c
  <2>1. i + 1 \in Nat /\ c \in i + 1 .. Len(z) + 1 /\ c <= Len(z) /\ \A j \in i + 1 .. c - 1 : j \in i + 1 .. end - 1
    BY <1>1, <1>2
  <2>2. \A j \in i + 1 .. c - 1 : z[j] \notin Stops \cup {":"}
    BY <1>2, <1>3, <2>1
  <2>3. z[c] \in Stops \cup {":"}
    BY <1>2
  <2> QED
    BY <2>1, <2>2, <2>3, FirstEquals
<1>5. First(z, c + 1, Stops) = end
  <2>1. c + 1 \in Nat /\ end \in c + 1 .. Len(z) + 1 /\ \A j \in c + 1 .. end - 1 : j \in i + 1 .. end - 1
    BY <1>1, <1>2
  <2>2. \A j \in c + 1 .. end - 1 : z[j] \notin Stops
    BY <1>2, <1>3, <2>1
  <2>3. z[end] \in Stops
    BY <1>2, <1>3
  <2> QED
    BY <2>1, <2>2, <2>3, FirstEquals
<1>6. c <= Len(z) /\ i + 1 < c /\ c + 1 < end /\ end \in 1 .. Len(z)
  BY <1>1, <1>2
<1> DEFINE m == [ from |-> i, to |-> end ]
<1>7. m \in [ from : { k \in DOMAIN z : z[k] = "S" }, to : { j \in DOMAIN z : z[j] = "@" } ] /\ m.from = i /\ m.to = end
  BY <1>1, <1>2, <1>6
<1> HIDE DEF m
<1>8. m \in UrlCredentials(z)
  BY <1>2, <1>4, <1>5, <1>6, <1>7 DEF UrlCredentials
<1> QED
  BY <1>8 DEF m

\* protect brings nothing back, ...
LEMMA ProtectHides ==
    ASSUME NEW x, NEW s, Redacting(s, x), NEW M, Matching(s.text, M), NEW category, NEW I, Hides(s.text, I)
    PROVE  Hides(Protect(s, M, category).text, I)
<1> DEFINE t == s.text
           d == Len(s.replacements)
<1>1. t \in Seq(Elems)
  BY DEF Redacting, Sound
<1>2. d \in Nat
  <2>1. s.replacements \in Seq(Replacement)
    BY DEF Redacting
  <2> QED
    BY <2>1
<1>3. PICK q : Pieces(t, M, d, q) /\ Protect(s, M, category).text = FlattenSeq(q)
  BY <1>1, <1>2, ProtectIs
<1>4. Hides(t, I)
  OBVIOUS
<1> HIDE DEF t, d
<1>5. Hides(FlattenSeq(q), I)
  BY <1>1, <1>3, <1>4, HidesKept
<1> QED
  BY <1>3, <1>5

\* ... so what a pass hides the later ones hide too: ...
LEMMA CutHides ==
    ASSUME NEW x \in Seq(Byte), NEW cut, NEW I, Hides(Urls(x).text, I)
    PROVE  Hides(Cut(x, cut).text, I)
<1> DEFINE s == Urls(x)
           M == Hidden(IncompleteUrls(Bytes(s.text)), 0)
<1>1. Redacting(s, x) /\ Sound(s.text, x)
  BY UrlsAreRedacting DEF Redacting
<1>2. Cut(x, cut) = IF cut THEN Protect(s, M, "url") ELSE s
  BY DEF Cut
<1>3. Hides(s.text, I)
  OBVIOUS
<1> HIDE DEF s
<1>4. Matching(s.text, M)
  BY <1>1, IncompleteMatch
<1> HIDE DEF M
<1>5. Hides(Protect(s, M, "url").text, I)
  BY <1>1, <1>3, <1>4, ProtectHides
<1> QED
  BY <1>2, <1>3, <1>5

\* ... protectTrailingCredentialPrefix, ...
LEMMA TrailingHides ==
    ASSUME NEW x \in Seq(Byte), NEW s, Redacting(s, x), NEW p, p = <<>> \/ Trailing(p, x), NEW I, Hides(s.text, I)
    PROVE  Hides(ProtectTrailing(s, p).text, I)
<1>1. CASE p = <<>> \/ ~IsSuffix(p, Bytes(s.text))
  BY <1>1 DEF ProtectTrailing
<1>2. CASE ~(p = <<>> \/ ~IsSuffix(p, Bytes(s.text)))
  <2> DEFINE t == s.text
             M == {[ from |-> Len(t) - Len(p) + 1, to |-> Len(t) ]}
  <2>1. Sound(t, x)
    BY DEF Redacting
  <2>2. Trailing(p, x) /\ IsSuffix(p, Bytes(t))
    BY <1>2
  <2>3. Matching(t, M)
    <3> HIDE DEF t
    <3> QED
      BY <2>1, <2>2, TrailingMatches
  <2>4. ProtectTrailing(s, p) = Protect(s, M, "url")
    BY <1>2 DEF ProtectTrailing
  <2> HIDE DEF M
  <2> QED
    BY <2>3, <2>4, ProtectHides
<1> QED
  BY <1>1, <1>2

\* ... and the pass over assignments.
LEMMA FinalHides ==
    ASSUME NEW x \in Seq(Byte), NEW cut, NEW prefix, prefix = <<>> \/ Trailing(prefix, x), NEW I,
           Hides(ProtectTrailing(Cut(x, cut), prefix).text, I)
    PROVE  Hides(Final(x, cut, prefix).text, I)
<1> DEFINE s == ProtectTrailing(Cut(x, cut), prefix)
           M == Hidden(Assignments(Bytes(s.text)), 0)
<1>1. Redacting(s, x) /\ Sound(s.text, x)
  <2>1. Redacting(Cut(x, cut), x)
    BY CutIsRedacting
  <2>2. Redacting(s, x)
    BY <2>1, TrailingKeeps
  <2> QED
    BY <2>2 DEF Redacting
<1>2. Final(x, cut, prefix) = Protect(s, M, "assignment")
  BY DEF Final
<1>3. Hides(s.text, I)
  OBVIOUS
<1> HIDE DEF s
<1>4. Matching(s.text, M)
  BY <1>1, AssignmentsMatch
<1> HIDE DEF M
<1> QED
  BY <1>1, <1>2, <1>3, <1>4, ProtectHides

\* The first pass hides credentials that end before the limit.
LEMMA UrlsHide ==
    ASSUME NEW z \in Seq(Byte), Ascii(z), NEW i \in Nat, NEW c \in Nat, NEW end \in Nat, Credential(z, i, c, end)
    PROVE  Hides(Urls(z).text, i + 1 .. end - 1)
<1> DEFINE s == NewState(z)
           t == s.text
           M == Hidden(UrlCredentials(Bytes(t)), 1)
           d == Len(s.replacements)
<1>1. t = ToValidUTF8(z) /\ s.replacements = <<>> /\ Urls(z) = Protect(s, M, "url")
  BY DEF NewState, Urls
<1>2. t \in Seq(Elems) /\ Len(t) = Len(z) /\ (\A k \in 1 .. Len(z) : t[k].n = k) /\ Bytes(t) = z
  BY <1>1, ValidIsInput
<1>3. Sound(t, z)
  BY NewIsRedacting DEF Redacting
<1>4. Matching(t, M)
  <2> HIDE DEF t
  <2> QED
    BY <1>3, UrlsMatch
<1>5. d = 0
  BY <1>1
<1>6. PICK q : Pieces(t, M, d, q) /\ Urls(z).text = FlattenSeq(q)
  <2> HIDE DEF M
  <2>1. Len(s.replacements) \in Nat
    BY <1>5
  <2> QED
    BY <1>1, <1>2, <1>4, <2>1, ProtectIs
<1>7. [ from |-> i + 1, to |-> end - 1 ] \in M
  <2>1. [ from |-> i, to |-> end ] \in UrlCredentials(z)
    BY CredentialMatches
  <2> DEFINE w == [ from |-> i, to |-> end ]
  <2>2. w.from = i /\ w.to = end /\ w \in UrlCredentials(Bytes(t))
    BY <1>2, <2>1
  <2> HIDE DEF w, t
  <2>3. [ from |-> w.from + 1, to |-> w.to - 1 ] \in M
    BY <2>2 DEF Hidden
  <2> QED
    BY <2>2, <2>3
<1> HIDE DEF s, t, M, d
<1>8. \A g \in i + 1 .. end - 1 : Covers(M, g)
  BY <1>7 DEF Covers
<1> DEFINE r == FlattenSeq(q)
<1>9. Hides(r, i + 1 .. end - 1)
  <2> SUFFICES ASSUME NEW k \in 1 .. Len(r), r[k].c # "#", r[k].n \in i + 1 .. end - 1 PROVE FALSE
    BY DEF Hides
  <2>1. PICK j \in 1 .. Len(t) : (Heads(M, j) /\ r[k].c = "#" /\ r[k].n = Rank(M, d, j)) \/ (r[k] = t[j] /\ ~Covers(M, j))
    BY <1>2, <1>6, PieceFrom
  <2> HIDE DEF r
  <2>2. r[k] = t[j] /\ ~Covers(M, j) /\ t[j].n = j
    BY <1>2, <2>1
  <2> QED
    BY <1>8, <2>2
<1> QED
  BY <1>6, <1>9

\* The text z ends within the authority of the URL whose scheme is at i.
Clear(z, i) == i \in 1 .. Len(z) - 1 /\ z[i] = "S" /\ \A j \in i + 1 .. Len(z) : z[j] \notin Ends

\* The first pass does not touch that authority.
LEMMA UrlsKeepTail ==
    ASSUME NEW z \in Seq(Byte), Ascii(z), NEW i \in Nat, Clear(z, i)
    PROVE  Tailed(Urls(z).text, z, i)
<1> DEFINE s == NewState(z)
           t == s.text
           M == Hidden(UrlCredentials(Bytes(t)), 1)
           d == Len(s.replacements)
<1>1. t = ToValidUTF8(z) /\ s.replacements = <<>> /\ Urls(z) = Protect(s, M, "url")
  BY DEF NewState, Urls
<1>2. /\ t \in Seq(Elems) /\ Len(t) = Len(z) /\ Bytes(t) = z
      /\ \A k \in 1 .. Len(z) : t[k].c = z[k] /\ t[k].n = k
  BY <1>1, ValidIsInput
<1>3. Sound(t, z)
  BY NewIsRedacting DEF Redacting
<1>4. Matching(t, M)
  <2> HIDE DEF t
  <2> QED
    BY <1>3, UrlsMatch
<1>5. d = 0
  BY <1>1
<1>6. PICK q : Pieces(t, M, d, q) /\ Urls(z).text = FlattenSeq(q)
  <2> HIDE DEF M
  <2>1. Len(s.replacements) \in Nat
    BY <1>5
  <2> QED
    BY <1>1, <1>2, <1>4, <2>1, ProtectIs
<1>7. i \in 1 .. Len(z) - 1 /\ Len(z) \in Nat /\ z[i] = "S" /\ \A j \in i + 1 .. Len(z) : z[j] \notin Ends
  BY DEF Clear
<1>8. ASSUME NEW m \in M PROVE m.to < i
  <2> HIDE DEF t
  <2>1. PICK w \in UrlCredentials(z) : m = [ from |-> w.from + 1, to |-> w.to - 1 ]
    BY <1>2 DEF Hidden
  <2>2. w \in [ from : { k \in DOMAIN z : z[k] = "S" }, to : { j \in DOMAIN z : z[j] = "@" } ]
    BY DEF UrlCredentials
  <2> DEFINE e == w.to
  <2>3. e \in 1 .. Len(z) /\ z[e] = "@" /\ m.to = e - 1
    BY <2>1, <2>2
  <2> HIDE DEF e
  <2>4. e # i /\ e \notin i + 1 .. Len(z)
    BY <1>7, <2>3 DEF Ends
  <2> QED
    BY <1>7, <2>3, <2>4
<1> HIDE DEF s, t, M, d
<1>9. Tailed(t, z, i)
  <2>1. Len(t) - Len(z) = 0
    BY <1>2, <1>7
  <2>2. \A g \in i .. Len(z) : 0 + g \in 1 .. Len(z) /\ 0 + g = g
    BY <1>7
  <2>3. \A k \in 1 .. (0 + i) - 1 : k \in 1 .. Len(z) /\ k < i
    BY <1>7
  <2> QED
    BY <1>2, <1>7, <2>1, <2>2, <2>3 DEF Tailed
<1>10. i \in 1 .. Len(z) /\ (Len(t) - Len(z)) + i = i
  BY <1>2, <1>7
<1>11. Tailed(FlattenSeq(q), z, i)
  BY <1>2, <1>4, <1>6, <1>8, <1>9, <1>10, TailKept
<1> QED
  BY <1>6, <1>11

\* The bytes of a text with such a tail.
LEMMA TailBytes ==
    ASSUME NEW z \in Seq(Byte), NEW i \in Nat, Clear(z, i), NEW t \in Seq(Elems), Tailed(t, z, i)
    PROVE  LET y == Bytes(t)
               f == Len(t) - Len(z)
           IN  /\ y \in Seq(Symbols) /\ Len(y) = Len(t) /\ Len(t) \in Nat /\ Len(z) \in Nat
               /\ f \in Int /\ f + i >= 1 /\ i \in 1 .. Len(z) - 1
               /\ \A g \in i .. Len(z) : y[f + g] = z[g]
               /\ \A j \in (f + i) + 1 .. Len(y) : y[j] = z[j - f] /\ y[j] \notin Ends
<1> DEFINE y == Bytes(t)
           f == Len(t) - Len(z)
<1>1. /\ y \in Seq(Symbols) /\ Len(y) = Len(t) /\ Len(t) \in Nat
      /\ \A k \in 1 .. Len(t) : y[k] = t[k].c
  BY BytesIs
<1>2. Len(z) \in Nat /\ i \in 1 .. Len(z) - 1 /\ \A j \in i + 1 .. Len(z) : z[j] \notin Ends
  BY DEF Clear
<1>3. f + i >= 1 /\ \A g \in i .. Len(z) : t[f + g].c = z[g]
  BY DEF Tailed
<1> HIDE DEF y
<1>4. f = Len(t) - Len(z) /\ f \in Int
  BY <1>1, <1>2
<1> HIDE DEF f
<1>5. ASSUME NEW g \in i .. Len(z) PROVE y[f + g] = z[g]
  <2>1. f + g \in 1 .. Len(t)
    BY <1>1, <1>2, <1>3, <1>4
  <2> QED
    BY <1>1, <1>3, <2>1
<1>6. ASSUME NEW j \in (f + i) + 1 .. Len(y) PROVE y[j] = z[j - f] /\ y[j] \notin Ends
  <2>1. j - f \in i + 1 .. Len(z) /\ j - f \in i .. Len(z) /\ f + (j - f) = j
    BY <1>1, <1>2, <1>3, <1>4
  <2> QED
    BY <1>2, <1>5, <2>1
<1> QED
  BY <1>1, <1>2, <1>3, <1>4, <1>5, <1>6 DEF y, f

\* incompleteURLRE finds the authority if it has a colon before the limit, ...
LEMMA IncompleteFound ==
    ASSUME NEW z \in Seq(Byte), NEW i \in Nat, Clear(z, i), NEW t \in Seq(Elems), Tailed(t, z, i),
           NEW c \in i + 2 .. Len(z), z[c] = ":", \A j \in i + 1 .. c - 1 : z[j] # ":"
    PROVE  [ from |-> (Len(t) - Len(z)) + i, to |-> Len(t) ] \in IncompleteUrls(Bytes(t))
<1> DEFINE y == Bytes(t)
           f == Len(t) - Len(z)
           l == Len(z)
           n == Len(t)
           p == f + i
           e == f + c
<1>1. /\ y \in Seq(Symbols) /\ Len(y) = n /\ n \in Nat /\ l \in Nat
      /\ f \in Int /\ f + i >= 1 /\ i \in 1 .. l - 1
      /\ \A g \in i .. l : y[f + g] = z[g]
      /\ \A j \in (f + i) + 1 .. Len(y) : y[j] = z[j - f] /\ y[j] \notin Ends
  BY TailBytes
<1>2. z[i] = "S" /\ c \in i + 2 .. l /\ f + l = n
  BY <1>1 DEF Clear
<1> HIDE DEF y, f, l, n
<1>3. p \in 1 .. n /\ p \in Nat /\ p + 1 \in Nat /\ e \in p + 2 .. n /\ e \in Nat /\ e + 1 \in Nat /\ e \in p + 1 .. n + 1 /\ n + 1 \in e + 1 .. n + 1
  BY <1>1, <1>2
<1>4. y[p] = "S" /\ y[e] = ":"
  <2>1. i \in i .. l /\ c \in i .. l
    BY <1>1, <1>2
  <2> QED
    BY <1>1, <1>2, <2>1
<1>5. Stops \subseteq Ends /\ ":" \notin Stops
  BY DEF Stops, Ends, White, Terminators
<1>6. First(y, p + 1, Stops \cup {":"}) = e
  <2>1. ASSUME NEW j \in p + 1 .. e - 1 PROVE y[j] \notin Stops \cup {":"}
    <3>1. j \in (f + i) + 1 .. Len(y) /\ j - f \in i + 1 .. c - 1
      BY <1>1, <1>2, <1>3
    <3> QED
      BY <1>1, <1>5, <3>1
  <2>2. y[e] \in Stops \cup {":"}
    BY <1>4
  <2> HIDE DEF p, e
  <2> QED
    BY <1>1, <1>3, <2>1, <2>2, FirstEquals, ZenonT(30)
<1>7. First(y, e + 1, Stops) = n + 1
  <2>1. ASSUME NEW j \in e + 1 .. (n + 1) - 1 PROVE y[j] \notin Stops
    <3>1. j \in (f + i) + 1 .. Len(y)
      BY <1>1, <1>2, <1>3
    <3> QED
      BY <1>1, <1>5, <3>1
  <2>2. ~(n + 1 <= Len(y))
    BY <1>1
  <2> HIDE DEF p, e
  <2> QED
    BY <1>1, <1>3, <2>1, <2>2, FirstEquals
<1> DEFINE m == [ from |-> p, to |-> n ]
<1> HIDE DEF p, e
<1>8. DOMAIN y = 1 .. n
  BY <1>1
<1>9. m \in [ from : { k \in DOMAIN y : y[k] = "S" }, to : {Len(y)} ] /\ m.from = p /\ m.to = n
  BY <1>1, <1>3, <1>4, <1>8
<1> HIDE DEF m
<1>10. e <= Len(y) /\ p + 1 < e /\ n + 1 > Len(y)
  BY <1>1, <1>3
<1>11. m \in IncompleteUrls(y)
  BY <1>4, <1>6, <1>7, <1>9, <1>10 DEF IncompleteUrls
<1> QED
  BY <1>11 DEF m, p, f, n, y, l

\* ... and nothing otherwise.
LEMMA IncompleteNone ==
    ASSUME NEW z \in Seq(Byte), NEW i \in Nat, Clear(z, i), NEW t \in Seq(Elems), Tailed(t, z, i),
           \A j \in i + 1 .. Len(z) : z[j] # ":"
    PROVE  IncompleteUrls(Bytes(t)) = {}
<1> DEFINE y == Bytes(t)
           f == Len(t) - Len(z)
           l == Len(z)
           n == Len(t)
           p == f + i
<1>1. /\ y \in Seq(Symbols) /\ Len(y) = n /\ n \in Nat /\ l \in Nat
      /\ f \in Int /\ f + i >= 1 /\ i \in 1 .. l - 1
      /\ \A g \in i .. l : y[f + g] = z[g]
      /\ \A j \in (f + i) + 1 .. Len(y) : y[j] = z[j - f] /\ y[j] \notin Ends
  BY TailBytes
<1>2. z[i] = "S" /\ f + l = n
  BY <1>1 DEF Clear
<1> SUFFICES ASSUME NEW m \in IncompleteUrls(y) PROVE FALSE
  OBVIOUS
<1> HIDE DEF y, f, l, n
<1>3. p \in 1 .. n /\ p \in Nat
  BY <1>1, <1>2
<1>4. y[p] = "S"
  <2>1. i \in i .. l
    BY <1>1
  <2> QED
    BY <1>1, <1>2, <2>1
<1>5. ASSUME NEW j \in p + 1 .. n PROVE y[j] \notin Ends \cup {":"}
  <2>1. j \in (f + i) + 1 .. Len(y) /\ j - f \in i + 1 .. l
    BY <1>1, <1>2, <1>3
  <2>2. z[j - f] # ":"
    BY <2>1 DEF l
  <2> QED
    BY <1>1, <2>1, <2>2
<1> HIDE DEF p
<1> DEFINE a == m.from
           e == First(y, a + 1, Stops \cup {":"})
           g == First(y, e + 1, Stops)
<1>6. DOMAIN y = 1 .. n
  BY <1>1
<1>7. a \in 1 .. n /\ y[a] = "S" /\ e <= n /\ y[e] = ":" /\ g > n
  <2>1. /\ m \in [ from : { k \in DOMAIN y : y[k] = "S" }, to : {Len(y)} ]
        /\ e <= Len(y) /\ y[e] = ":" /\ g > Len(y)
    BY DEF IncompleteUrls
  <2> HIDE DEF e, g
  <2> QED
    BY <1>1, <1>6, <2>1
<1>8. a \in Nat /\ a + 1 \in Nat
  BY <1>1, <1>7
<1> HIDE DEF a
<1>9. /\ e \in Nat /\ e \in a + 1 .. n
      /\ \A j \in a + 1 .. n : y[j] \in Stops \cup {":"} => e <= j
  BY <1>1, <1>7, <1>8, FirstIs
<1>10. e + 1 \in Nat
  BY <1>9
<1> HIDE DEF e
<1>11. g \in Nat /\ \A j \in e + 1 .. n : y[j] \in Stops => g <= j
  BY <1>1, <1>10, FirstIs
<1> HIDE DEF g
<1>12. "S" \in Ends /\ "S" \in Stops
  BY DEF Ends, Stops, Terminators
<1>13. a <= p
  BY <1>1, <1>3, <1>5, <1>7, <1>12
<1>14. CASE a = p
  BY <1>1, <1>5, <1>7, <1>9, <1>14
<1>15. CASE a < p
  <2>1. p \in a + 1 .. n
    BY <1>1, <1>3, <1>8, <1>15
  <2>2. e <= p /\ e # p
    BY <1>4, <1>7, <1>9, <1>12, <2>1
  <2>3. p \in e + 1 .. n
    BY <1>1, <1>3, <1>9, <2>2
  <2>4. g <= p
    BY <1>4, <1>11, <1>12, <2>3
  <2> QED
    BY <1>1, <1>3, <1>7, <1>11, <2>4
<1> QED
  BY <1>3, <1>8, <1>13, <1>14, <1>15

\* So what is left of the authority is hidden by the second pass if it has a colon, ...
LEMMA CutHidesTail ==
    ASSUME NEW z \in Seq(Byte), Ascii(z), NEW i \in Nat, Clear(z, i),
           NEW c \in i + 2 .. Len(z), z[c] = ":", \A j \in i + 1 .. c - 1 : z[j] # ":"
    PROVE  Hides(Cut(z, TRUE).text, i + 1 .. Len(z))
<1> DEFINE s == Urls(z)
           t == s.text
           M == Hidden(IncompleteUrls(Bytes(t)), 0)
           d == Len(s.replacements)
           f == Len(t) - Len(z)
<1>1. Redacting(s, z) /\ Sound(t, z) /\ t \in Seq(Elems) /\ Tailed(t, z, i)
  BY UrlsAreRedacting, UrlsKeepTail DEF Redacting, Sound
<1>2. Cut(z, TRUE) = Protect(s, M, "url")
  BY DEF Cut
<1>3. d \in Nat
  <2>1. s.replacements \in Seq(Replacement)
    BY <1>1 DEF Redacting
  <2> QED
    BY <2>1
<1>4. Matching(t, M)
  <2> HIDE DEF t
  <2> QED
    BY <1>1, IncompleteMatch
<1>5. PICK q : Pieces(t, M, d, q) /\ Cut(z, TRUE).text = FlattenSeq(q)
  <2> HIDE DEF M, s
  <2> QED
    BY <1>1, <1>2, <1>3, <1>4, ProtectIs
<1> HIDE DEF t, d, s
<1>6. Len(t) \in Nat /\ Len(z) \in Nat /\ f \in Int /\ f + i >= 1 /\ i \in 1 .. Len(z) - 1
  BY <1>1, TailBytes
<1>7. [ from |-> (f + i) + 1, to |-> Len(t) ] \in M
  <2> DEFINE w == [ from |-> f + i, to |-> Len(t) ]
  <2>1. w \in IncompleteUrls(Bytes(t)) /\ w.from = f + i /\ w.to = Len(t)
    BY <1>1, IncompleteFound
  <2> HIDE DEF w, f
  <2>2. [ from |-> w.from + 1, to |-> w.to - 0 ] \in M
    BY <2>1 DEF Hidden
  <2>3. w.to - 0 = Len(t)
    BY <1>6, <2>1
  <2> QED
    BY <2>1, <2>2, <2>3
<1> HIDE DEF M
<1>8. ASSUME NEW g \in i + 1 .. Len(z) PROVE Covers(M, f + g)
  <2>1. f + g \in (f + i) + 1 .. Len(t)
    BY <1>6
  <2> HIDE DEF f
  <2> QED
    BY <1>7, <2>1 DEF Covers
<1>9. i + 1 \in i .. Len(z) /\ i \in 1 .. Len(z)
  BY <1>6
<1>10. \A g \in i + 1 .. Len(z) : Covers(M, (Len(t) - Len(z)) + g)
  BY <1>8
<1>11. Hides(FlattenSeq(q), i + 1 .. Len(z))
  BY <1>1, <1>5, <1>9, <1>10, TailHidden
<1> QED
  BY <1>5, <1>11

\* ... left alone if it has none, ...
LEMMA CutKeepsTail ==
    ASSUME NEW z \in Seq(Byte), Ascii(z), NEW i \in Nat, Clear(z, i), \A j \in i + 1 .. Len(z) : z[j] # ":"
    PROVE  Tailed(Cut(z, TRUE).text, z, i)
<1> DEFINE s == Urls(z)
           t == s.text
           M == Hidden(IncompleteUrls(Bytes(t)), 0)
           d == Len(s.replacements)
<1>1. Redacting(s, z) /\ Sound(t, z) /\ t \in Seq(Elems) /\ Tailed(t, z, i)
  BY UrlsAreRedacting, UrlsKeepTail DEF Redacting, Sound
<1>2. Cut(z, TRUE) = Protect(s, M, "url")
  BY DEF Cut
<1>3. d \in Nat
  <2>1. s.replacements \in Seq(Replacement)
    BY <1>1 DEF Redacting
  <2> QED
    BY <2>1
<1>4. Matching(t, M)
  <2> HIDE DEF t
  <2> QED
    BY <1>1, IncompleteMatch
<1>5. PICK q : Pieces(t, M, d, q) /\ Cut(z, TRUE).text = FlattenSeq(q)
  <2> HIDE DEF M, s
  <2> QED
    BY <1>1, <1>2, <1>3, <1>4, ProtectIs
<1> HIDE DEF t, d, s
<1>6. M = {}
  <2>1. IncompleteUrls(Bytes(t)) = {}
    BY <1>1, IncompleteNone
  <2> QED
    BY <2>1 DEF Hidden
<1> HIDE DEF M
<1>7. i \in 1 .. Len(z)
  BY DEF Clear
<1>8. \A m \in M : m.to < (Len(t) - Len(z)) + i
  BY <1>6
<1>9. Tailed(FlattenSeq(q), z, i)
  BY <1>1, <1>4, <1>5, <1>7, <1>8, TailKept
<1> QED
  BY <1>5, <1>9

\* ... and then hidden by protectTrailingCredentialPrefix.
LEMMA TrailingHidesTail ==
    ASSUME NEW z \in Seq(Byte), NEW i \in Nat, Clear(z, i), NEW s, Redacting(s, z), Tailed(s.text, z, i),
           NEW a \in {i, i + 1}, NEW p, p = SubSeq(z, a, Len(z)), Trailing(p, z)
    PROVE  Hides(ProtectTrailing(s, p).text, i + 1 .. Len(z))
<1> DEFINE t == s.text
           M == {[ from |-> Len(t) - Len(p) + 1, to |-> Len(t) ]}
           d == Len(s.replacements)
           f == Len(t) - Len(z)
           y == Bytes(t)
<1>1. Sound(t, z) /\ t \in Seq(Elems) /\ Tailed(t, z, i) /\ s.replacements \in Seq(Replacement)
  BY DEF Redacting, Sound
<1>2. d \in Nat
  BY <1>1
<1> HIDE DEF t, d
<1>3. /\ y \in Seq(Symbols) /\ Len(y) = Len(t) /\ Len(t) \in Nat /\ Len(z) \in Nat
      /\ f \in Int /\ f + i >= 1 /\ i \in 1 .. Len(z) - 1
      /\ \A g \in i .. Len(z) : y[f + g] = z[g]
  BY <1>1, TailBytes
<1> HIDE DEF y
<1>4. a \in 1 .. Len(z) /\ a >= i /\ a <= i + 1
  BY <1>3
<1>5. p \in Seq(Byte) /\ Len(p) = Len(z) - a + 1 /\ Len(p) \in Nat /\ \A k \in 1 .. Len(p) : p[k] = z[a + k - 1]
  BY <1>3, <1>4
<1> DEFINE l == Len(z)
           n == Len(t)
           h == Len(p)
<1>6. f = n - l /\ l \in Nat /\ n \in Nat /\ h \in Nat /\ h = l - a + 1
  BY <1>3, <1>5
<1>7. f \in Int /\ f + i >= 1 /\ i \in 1 .. l - 1 /\ a \in 1 .. l /\ a >= i /\ a <= i + 1 /\ Len(y) = n
  BY <1>3, <1>4
<1> HIDE DEF l, n, h, f
<1>8. h <= n /\ n - h + 1 = f + a
  BY <1>6, <1>7
<1>9. IsSuffix(p, y)
  <2>1. ASSUME NEW k \in 1 .. h PROVE y[(n - h) + k] = p[k]
    <3>1. a + k - 1 \in i .. l /\ f + (a + k - 1) = (n - h) + k
      BY <1>6, <1>7
    <3>2. y[f + (a + k - 1)] = z[a + k - 1]
      BY <1>3, <3>1 DEF l
    <3>3. p[k] = z[a + k - 1]
      BY <1>5 DEF h
    <3> QED
      BY <3>1, <3>2, <3>3
  <2> QED
    BY <1>3, <1>5, <1>7, <1>8, <2>1, SuffixIs DEF n, h
<1>10. p # <<>>
  <2>1. h # 0
    BY <1>6, <1>7
  <2> QED
    BY <2>1 DEF h
<1>11. ProtectTrailing(s, p) = Protect(s, M, "url")
  BY <1>9, <1>10 DEF ProtectTrailing, y, t
<1>12. Matching(t, M)
  BY <1>1, <1>9, TrailingMatches DEF y
<1>13. PICK q : Pieces(t, M, d, q) /\ ProtectTrailing(s, p).text = FlattenSeq(q)
  <2> HIDE DEF M
  <2> QED
    BY <1>1, <1>2, <1>11, <1>12, ProtectIs DEF t, d
<1>14. ASSUME NEW g \in i + 1 .. l PROVE Covers(M, f + g)
  <2>1. f + g \in n - h + 1 .. n
    BY <1>6, <1>7, <1>8
  <2> DEFINE m == [ from |-> Len(t) - Len(p) + 1, to |-> Len(t) ]
  <2>2. m \in M /\ m.from = n - h + 1 /\ m.to = n
    BY DEF n, h
  <2> HIDE DEF m, M
  <2> QED
    BY <2>1, <2>2 DEF Covers
<1> HIDE DEF M
<1>15. i + 1 \in i .. l /\ i \in 1 .. l
  BY <1>6, <1>7
<1>16. \A g \in i + 1 .. Len(z) : Covers(M, (Len(t) - Len(z)) + g)
  BY <1>6, <1>14 DEF l, n
<1>17. Hides(FlattenSeq(q), i + 1 .. Len(z))
  BY <1>1, <1>13, <1>15, <1>16, TailHidden DEF l
<1> QED
  BY <1>13, <1>17

\* No match across the limit starts elsewhere than at the scheme.
LEMMA CrossingStarts ==
    ASSUME NEW b \in Seq(Byte), NEW public \in 0 .. Len(b), NEW i \in 1 .. public - 1, b[i] = "S",
           \A j \in i + 1 .. public : b[j] \notin Ends, NEW m \in UrlCredentials(b), m.from <= public, public < m.to
    PROVE  m.from = i
<1> DEFINE l == Len(b)
           a == m.from
           z == m.to
           e == First(b, a + 1, Stops \cup {":"})
<1>1. l \in Nat /\ DOMAIN b = 1 .. l /\ public \in 0 .. l
  OBVIOUS
<1>2. /\ a \in 1 .. l /\ b[a] = "S" /\ z \in 1 .. l /\ b[z] = "@" /\ e <= l /\ b[e] = ":"
      /\ z = First(b, e + 1, Stops) /\ e + 1 < z
  <2>1. /\ m \in [ from : { k \in DOMAIN b : b[k] = "S" }, to : { j \in DOMAIN b : b[j] = "@" } ]
        /\ e <= l /\ b[e] = ":" /\ z = First(b, e + 1, Stops) /\ e + 1 < z
    BY DEF UrlCredentials
  <2> HIDE DEF e
  <2> QED
    BY <1>1, <2>1
<1>3. a <= public /\ public < z /\ a \in Nat /\ a + 1 \in Nat
  BY <1>1, <1>2
<1> HIDE DEF a, z
<1>4. /\ e \in Nat /\ e \in a + 1 .. l
      /\ \A j \in a + 1 .. l : b[j] \in Stops \cup {":"} => e <= j
  BY <1>1, <1>2, <1>3, FirstIs
<1>5. e + 1 \in Nat
  BY <1>4
<1> HIDE DEF e
<1>6. \A j \in e + 1 .. l : b[j] \in Stops => z <= j
  BY <1>1, <1>2, <1>5, FirstIs
<1> HIDE DEF l
<1>7. "S" \in Ends /\ "S" \in Stops
  BY DEF Ends, Stops, Terminators
<1>8. ~(i < a)
  BY <1>1, <1>2, <1>3, <1>7
<1>9. ~(a < i)
  <2> SUFFICES ASSUME a < i PROVE FALSE
    OBVIOUS
  <2>1. i \in a + 1 .. l /\ i \in Nat
    BY <1>1, <1>3
  <2>2. e <= i /\ e # i
    BY <1>2, <1>4, <1>7, <2>1
  <2>3. i \in e + 1 .. l
    BY <1>4, <2>1, <2>2
  <2>4. z <= i
    BY <1>6, <1>7, <2>3
  <2> QED
    BY <1>1, <1>2, <1>3, <2>1, <2>4
<1> QED
  BY <1>3, <1>8, <1>9 DEF a

\* The prefix is the authority, with or without its scheme.
LEMMA PrefixHolds ==
    ASSUME NEW b \in Seq(Byte), NEW public \in 0 .. Len(b), NEW i \in 1 .. public - 1, b[i] = "S",
           \A j \in i + 1 .. public : b[j] \notin Ends
    PROVE  \E a \in {i, i + 1} : Prefix(b, TRUE, TRUE, public) = SubSeq(b, a, public)
<1> DEFINE crossing == { m \in UrlCredentials(b) : m.from <= public /\ public < m.to }
           match == IF public < Len(b) THEN CrossingUrlCredentialPrefix(b, public) ELSE <<>>
           start == UrlAuthorityAtBoundary(b, public)
<1>1. Prefix(b, TRUE, TRUE, public) = IF match = <<>> /\ start > 0 THEN SubSeq(b, start, public) ELSE match
  BY DEF Prefix
<1>2. Len(b) \in Nat /\ public \in 0 .. Len(b) /\ i \in 1 .. Len(b) /\ i <= public /\ public # 0
  OBVIOUS
<1>3. start = i + 1
  <2>1. \A j \in i + 1 .. public : b[j] \notin Terminators
    BY DEF Ends
  <2> QED
    BY <2>1, AuthorityStarts
<1>4. CASE public < Len(b) /\ crossing # {}
  <2> DEFINE F == { m.from : m \in crossing }
  <2>1. match = SubSeq(b, Min(F), public)
    BY <1>2, <1>4 DEF CrossingUrlCredentialPrefix
  <2>2. \A m \in crossing : m.from = i
    BY CrossingStarts
  <2> HIDE DEF crossing
  <2>3. F = {i}
    BY <1>4, <2>2
  <2> HIDE DEF F
  <2>4. Min(F) = i
    <3>1. F \subseteq Nat /\ F # {}
      BY <2>3
    <3>2. Min(F) \in F
      BY <3>1, MinIs
    <3> QED
      BY <2>3, <3>2
  <2>5. match = SubSeq(b, i, public)
    BY <2>1, <2>4
  <2>6. SubSeq(b, i, public) # <<>>
    <3>1. Len(SubSeq(b, i, public)) = public - i + 1 /\ public - i + 1 # 0
      BY <1>2
    <3> QED
      BY <3>1
  <2> HIDE DEF match, start
  <2> QED
    BY <1>1, <2>5, <2>6
<1>5. CASE ~(public < Len(b) /\ crossing # {})
  <2>1. match = <<>>
    BY <1>5 DEF CrossingUrlCredentialPrefix
  <2>2. start > 0
    BY <1>2, <1>3
  <2> HIDE DEF match, start
  <2> QED
    BY <1>1, <1>3, <2>1, <2>2
<1> QED
  BY <1>4, <1>5

\* urlCredentialAfterBoundary sees a credential that the limit cuts.
LEMMA AcrossSeen ==
    ASSUME NEW x \in Seq(Byte), NEW i \in Nat, NEW c \in Nat, NEW end \in Nat, Credential(x, i, c, end),
           NEW max \in Nat, i < max, max < end
    PROVE  UrlCredentialAfterBoundary(x, max) = TRUE
<1>1. /\ i \in 1 .. Len(x) /\ x[i] = "S" /\ end \in i + 1 .. Len(x) /\ x[end] = "@"
      /\ \A j \in i + 1 .. end - 1 : x[j] \notin Ends
      /\ c \in i + 2 .. end - 2 /\ x[c] = ":" /\ Len(x) \in Nat
  BY DEF Credential
<1> DEFINE start == UrlAuthorityAtBoundary(x, max)
<1>2. max \in 0 .. Len(x) /\ i \in 1 .. max - 1 /\ max < Len(x)
  BY <1>1
<1>3. start = i + 1
  <2>1. \A j \in i + 1 .. max : j \in i + 1 .. end - 1
    BY <1>1, <1>2
  <2>2. \A j \in i + 1 .. max : x[j] \notin Terminators
    BY <1>1, <2>1 DEF Ends
  <2> QED
    BY <1>1, <1>2, <2>2, AuthorityStarts
<1> HIDE DEF start
<1>4. First(x, i + 1, Terminators \cup {"@"}) = end
  <2>1. i + 1 \in Nat /\ end \in i + 1 .. Len(x) + 1
    BY <1>1
  <2>2. x[end] \in Terminators \cup {"@"} /\ \A j \in i + 1 .. end - 1 : x[j] \notin Terminators \cup {"@"}
    BY <1>1 DEF Ends
  <2> QED
    BY <2>1, <2>2, FirstEquals
<1>5. c \in i + 1 .. end - 1 /\ i + 1 > 0 /\ end <= Len(x)
  BY <1>1
<1> QED
  BY <1>1, <1>2, <1>3, <1>4, <1>5 DEF UrlCredentialAfterBoundary, start

\* Of the input, render and truncateValidUTF8 show nothing that is not in the text.
LEMMA BoundedHides ==
    ASSUME NEW x \in Seq(Byte), NEW cut, NEW prefix, prefix = <<>> \/ Trailing(prefix, x), NEW max \in Nat, NEW I,
           Hides(Final(x, cut, prefix).text, I)
    PROVE  LET r == RedactBounded(x, cut, prefix, max) IN
           \A k \in DOMAIN r.text : r.text[k].c # "*" => r.text[k].n \notin I
<1> DEFINE s == Final(x, cut, prefix)
           t == s.text
           r == Render(s)
           o == RedactBounded(x, cut, prefix, max).text
<1>1. o = Truncate(r, max)
  BY DEF RedactBounded, Urls, Cut, Final
<1>2. Sound(t, x) /\ t \in Seq(Elems) /\ Hides(t, I)
  <2>1. Redacting(s, x) /\ Hides(s.text, I)
    BY FinalIsRedacting
  <2> HIDE DEF s
  <2>2. Sound(t, x)
    BY <2>1 DEF Redacting
  <2> QED
    BY <2>1, <2>2 DEF Sound
<1> HIDE DEF s
<1>3. PICK q : Shown(s, t, q) /\ r = FlattenSeq(q)
  BY <1>2, RenderIs
<1>4. Tidy(r)
  <2> HIDE DEF t, r
  <2>1. Tidy(FlattenSeq(q))
    BY <1>2, <1>3, RenderIsTidy
  <2> QED
    BY <1>3, <2>1
<1>5. q \in Seq(Seq(Elems)) /\ Len(q) = Len(t)
  BY <1>3 DEF Shown
<1> HIDE DEF t, r
<1>6. ASSUME NEW k \in 1 .. Len(r), r[k].c # "*" PROVE r[k].n \notin I
  <2>1. k \in 1 .. Len(FlattenSeq(q))
    BY <1>3
  <2>2. PICK i \in 1 .. Len(q) : \E a \in 1 .. Len(q[i]) : FlattenSeq(q)[k] = q[i][a]
    BY <1>5, <2>1, FlattenFrom
  <2>3. PICK a \in 1 .. Len(q[i]) : FlattenSeq(q)[k] = q[i][a]
    BY <2>2
  <2>4. r[k] = q[i][a] /\ i \in 1 .. Len(t)
    BY <1>3, <1>5, <2>3
  <2> DEFINE h == Len(q[i])
  <2>5. h # 0 /\ (h = 1 => a = 1)
    <3>1. h \in Nat /\ a \in 1 .. h
      BY <1>5
    <3> HIDE DEF h
    <3> QED
      BY <3>1
  <2>6. /\ t[i].c # "#" => h = 1 /\ q[i][1] = t[i]
        /\ t[i].c = "#" => q[i][a].c = "*"
    BY <1>3, <2>4 DEF Shown
  <2> HIDE DEF h
  <2>7. t[i].c # "#" /\ r[k] = t[i]
    BY <1>6, <2>4, <2>5, <2>6
  <2> QED
    BY <1>2, <2>4, <2>7 DEF Hides
<1>7. Tidy(o) /\ Len(o) <= Len(r) /\ \A k \in 1 .. Len(o) : o[k] = r[k]
  BY <1>1, <1>4, TruncateIsTidy
<1>8. o \in Seq(Elems) /\ r \in Seq(Elems)
  BY <1>4, <1>7 DEF Tidy
<1> HIDE DEF o
<1>9. DOMAIN o = 1 .. Len(o) /\ \A k \in 1 .. Len(o) : k \in 1 .. Len(r)
  BY <1>7, <1>8
<1>10. \A k \in DOMAIN o : o[k].c # "*" => o[k].n \notin I
  BY <1>6, <1>7, <1>9
<1> QED
  BY <1>10 DEF o

\* What the first pass hides stays hidden.
LEMMA UrlsToFinal ==
    ASSUME NEW z \in Seq(Byte), NEW cut, NEW prefix, prefix = <<>> \/ Trailing(prefix, z), NEW I, Hides(Urls(z).text, I)
    PROVE  Hides(Final(z, cut, prefix).text, I)
<1>1. Hides(Cut(z, cut).text, I) /\ Redacting(Cut(z, cut), z)
  BY CutHides, CutIsRedacting
<1>2. Hides(ProtectTrailing(Cut(z, cut), prefix).text, I)
  BY <1>1, TrailingHides
<1> QED
  BY <1>2, FinalHides

\* The text has nothing from behind the limit.
LEMMA BeyondIsHidden ==
    ASSUME NEW z \in Seq(Byte), Ascii(z), NEW I, I \cap 1 .. Len(z) = {}
    PROVE  Hides(Urls(z).text, I)
<1> DEFINE s == NewState(z)
           M == Hidden(UrlCredentials(Bytes(s.text)), 1)
<1>1. s.text = ToValidUTF8(z) /\ Urls(z) = Protect(s, M, "url")
  BY DEF NewState, Urls
<1>2. Hides(s.text, I)
  BY <1>1, ValidIsInput DEF Hides
<1>3. Redacting(s, z) /\ Sound(s.text, z)
  BY NewIsRedacting DEF Redacting
<1> HIDE DEF s
<1>4. Matching(s.text, M)
  BY <1>3, UrlsMatch
<1> HIDE DEF M
<1> QED
  BY <1>1, <1>2, <1>3, <1>4, ProtectHides

\* What is before the limit of a credential that it cuts is hidden.
LEMMA CutCredential ==
    ASSUME NEW z \in Seq(Byte), Ascii(z), NEW i \in Nat, Clear(z, i),
           NEW c \in Nat, c >= i + 2, c <= Len(z) => z[c] = ":", \A j \in i + 1 .. Len(z) : j < c => z[j] # ":",
           NEW a \in {i, i + 1}, NEW prefix, prefix = SubSeq(z, a, Len(z)), Trailing(prefix, z)
    PROVE  Hides(Final(z, TRUE, prefix).text, i + 1 .. Len(z))
<1> DEFINE s == Cut(z, TRUE)
<1>1. Redacting(s, z)
  BY CutIsRedacting
<1>2. Len(z) \in Nat
  OBVIOUS
<1>3. Hides(ProtectTrailing(s, prefix).text, i + 1 .. Len(z))
  <2>1. CASE c <= Len(z)
    <3>1. c \in i + 2 .. Len(z) /\ \A j \in i + 1 .. c - 1 : j \in i + 1 .. Len(z) /\ j < c
      BY <1>2, <2>1
    <3>2. z[c] = ":" /\ \A j \in i + 1 .. c - 1 : z[j] # ":"
      BY <2>1, <3>1
    <3>3. Hides(s.text, i + 1 .. Len(z))
      BY <3>1, <3>2, CutHidesTail
    <3> HIDE DEF s
    <3> QED
      BY <1>1, <3>3, TrailingHides
  <2>2. CASE ~(c <= Len(z))
    <3>1. \A j \in i + 1 .. Len(z) : j < c
      BY <1>2, <2>2
    <3>2. \A j \in i + 1 .. Len(z) : z[j] # ":"
      BY <3>1
    <3>3. Tailed(s.text, z, i)
      BY <3>2, CutKeepsTail
    <3> HIDE DEF s
    <3> QED
      BY <1>1, <3>3, TrailingHidesTail
  <2> QED
    BY <2>1, <2>2
<1> QED
  BY <1>3, FinalHides

\* RedactString hides every credential, wherever the limit is.
LEMMA StringHides ==
    ASSUME NEW x \in Seq(Byte), Ascii(x), NEW max \in Nat,
           NEW i \in Nat, NEW c \in Nat, NEW end \in Nat, Credential(x, i, c, end)
    PROVE  LET r == RedactString(x, max) IN
           \A k \in DOMAIN r.text : r.text[k].c # "*" => r.text[k].n \notin i + 1 .. end - 1
<1> DEFINE n == Len(x)
           w == Min({n, max + Lookahead})
           b == SubSeq(x, 1, w)
           public == Min({Len(b), max})
           cut == n > max
           across == UrlCredentialAfterBoundary(x, max)
           prefix == Prefix(b, cut, across, public)
           z == SubSeq(b, 1, public)
           I == i + 1 .. end - 1
<1>1. RedactString(x, max) = RedactBounded(z, cut, prefix, max)
  BY DEF RedactString, RedactInspected, Prefix
<1>2. n \in Nat /\ w \in 0 .. n /\ (w = n \/ w >= max)
  <2>1. Lookahead \in Nat /\ n \in Nat
    BY RedactorAssumption
  <2> HIDE DEF n
  <2> QED
    BY <2>1, MinOfTwo
<1> HIDE DEF w
<1>3. b \in Seq(Byte) /\ Len(b) = w /\ \A k \in 1 .. w : b[k] = x[k]
  BY <1>2
<1> HIDE DEF b
<1>4. public \in 0 .. w /\ public \in Nat /\ public <= n /\ public = IF n <= max THEN n ELSE max
  <2>1. public = IF w <= max THEN w ELSE max
    BY <1>2, <1>3, MinOfTwo
  <2> HIDE DEF n, public
  <2> QED
    BY <1>2, <2>1
<1> HIDE DEF public
<1>5. z \in Seq(Byte) /\ Len(z) = public /\ \A k \in 1 .. public : z[k] = x[k]
  <2>1. z \in Seq(Byte) /\ Len(z) = public /\ \A k \in 1 .. public : z[k] = b[k]
    BY <1>2, <1>3, <1>4
  <2>2. \A k \in 1 .. public : k \in 1 .. w
    BY <1>2, <1>4
  <2> HIDE DEF z
  <2> QED
    BY <1>3, <2>1, <2>2
<1>6. prefix = <<>> \/ Trailing(prefix, z)
  BY <1>3, <1>4, PrefixTrails
<1>7. Ascii(z)
  <2>1. \A k \in 1 .. public : k \in 1 .. n
    BY <1>2, <1>4
  <2> HIDE DEF z
  <2> QED
    BY <1>5, <2>1 DEF Ascii
<1>8. /\ i \in 1 .. n /\ x[i] = "S" /\ end \in i + 1 .. n /\ x[end] = "@"
      /\ \A j \in i + 1 .. end - 1 : x[j] \notin Ends
      /\ c \in i + 2 .. end - 2 /\ x[c] = ":" /\ \A j \in i + 1 .. c - 1 : x[j] # ":"
  BY DEF Credential
<1>9. Hides(Final(z, cut, prefix).text, I)
  <2>1. CASE end <= public
    <3> HIDE DEF z, cut, prefix
    <3>1. Credential(z, i, c, end)
      <4>1. /\ i \in 1 .. public /\ end \in i + 1 .. public
            /\ \A j \in i + 1 .. end - 1 : j \in 1 .. public
            /\ c \in 1 .. public /\ end \in 1 .. public /\ \A j \in i + 1 .. c - 1 : j \in 1 .. public
        BY <1>2, <1>4, <1>8, <2>1
      <4> QED
        BY <1>5, <1>8, <4>1 DEF Credential
    <3>2. Hides(Urls(z).text, I)
      BY <1>5, <1>7, <3>1, UrlsHide
    <3> QED
      BY <1>5, <1>6, <3>2, UrlsToFinal
  <2>2. CASE public <= i
    <3> HIDE DEF z, cut, prefix
    <3>1. I \cap 1 .. Len(z) = {}
      BY <1>4, <1>5, <2>2
    <3>2. Hides(Urls(z).text, I)
      BY <1>5, <1>7, <3>1, BeyondIsHidden
    <3> QED
      BY <1>5, <1>6, <3>2, UrlsToFinal
  <2>3. CASE i < public /\ public < end
    <3> DEFINE J == public + 1 .. end - 1
               H == i + 1 .. public
    <3>1. public = max /\ cut
      BY <1>2, <1>4, <1>8, <2>3
    <3>2. across = TRUE
      BY <2>3, <3>1, AcrossSeen
    <3>3. i \in 1 .. public - 1 /\ b[i] = "S" /\ \A j \in i + 1 .. public : b[j] = x[j] /\ j \in i + 1 .. end - 1
      <4>1. i \in 1 .. w /\ i \in 1 .. public - 1 /\ \A j \in i + 1 .. public : j \in 1 .. w /\ j \in i + 1 .. end - 1
        BY <1>2, <1>4, <1>8, <2>3
      <4> QED
        BY <1>3, <1>8, <4>1
    <3>4. \A j \in i + 1 .. public : b[j] \notin Ends
      BY <1>8, <3>3
    <3>5. PICK a \in {i, i + 1} : prefix = SubSeq(b, a, public)
      <4>1. cut = TRUE
        BY <3>1
      <4>2. prefix = Prefix(b, TRUE, TRUE, public)
        BY <3>2, <4>1
      <4> QED
        BY <1>3, <1>4, <3>3, <3>4, <4>2, PrefixHolds
    <3>6. SubSeq(b, a, public) = SubSeq(z, a, public)
      <4> DEFINE u == SubSeq(b, a, public)
                 v == SubSeq(z, a, public)
      <4>1. a \in 1 .. public /\ public <= Len(b) /\ public = Len(z) /\ Len(b) \in Nat
        BY <1>2, <1>3, <1>4, <1>5, <3>3
      <4> HIDE DEF z
      <4>2. /\ u \in Seq(Byte) /\ Len(u) = public - a + 1 /\ \A k \in 1 .. public - a + 1 : u[k] = b[a + k - 1]
            /\ v \in Seq(Byte) /\ Len(v) = public - a + 1 /\ \A k \in 1 .. public - a + 1 : v[k] = z[a + k - 1]
        BY <1>3, <1>5, <4>1
      <4>3. ASSUME NEW k \in 1 .. public - a + 1 PROVE u[k] = v[k]
        <5>1. a + k - 1 \in 1 .. public /\ a + k - 1 \in 1 .. w
          BY <1>2, <1>3, <4>1
        <5> QED
          BY <1>3, <1>5, <4>2, <5>1
      <4> HIDE DEF u, v
      <4>4. u = v
        BY <4>2, <4>3
      <4> QED
        BY <4>4 DEF u, v
    <3>7. cut = TRUE
      BY <3>1
    <3> HIDE DEF z, cut, prefix
    <3>8. Clear(z, i)
      <4>1. i \in 1 .. public /\ \A j \in i + 1 .. public : j \in 1 .. public
        BY <1>4, <3>3
      <4> QED
        BY <1>5, <1>8, <3>3, <4>1 DEF Clear
    <3>9. prefix = SubSeq(z, a, Len(z)) /\ Trailing(prefix, z)
      <4>1. prefix = SubSeq(z, a, Len(z))
        BY <1>5, <3>5, <3>6
      <4>2. prefix # <<>>
        <5>1. a \in 1 .. public
          BY <1>4, <3>3
        <5>2. Len(prefix) = public - a + 1 /\ public - a + 1 # 0
          BY <1>4, <1>5, <4>1, <5>1
        <5> QED
          BY <5>2
      <4> QED
        BY <1>6, <4>1, <4>2
    <3>10. /\ c >= i + 2 /\ (c <= Len(z) => z[c] = ":")
           /\ \A j \in i + 1 .. Len(z) : j < c => z[j] # ":"
      <4>1. c >= i + 2 /\ (c <= public => c \in 1 .. public)
        BY <1>4, <1>8
      <4>2. \A j \in i + 1 .. public : j \in 1 .. public /\ (j < c => j \in i + 1 .. c - 1)
        BY <1>4, <1>8
      <4> QED
        BY <1>5, <1>8, <4>1, <4>2
    <3>11. Hides(Final(z, TRUE, prefix).text, H)
      BY <1>5, <1>7, <3>8, <3>9, <3>10, CutCredential
    <3>12. J \cap 1 .. Len(z) = {}
      BY <1>4, <1>5
    <3>13. Hides(Final(z, TRUE, prefix).text, J)
      <4> HIDE DEF J
      <4> QED
        BY <1>5, <1>6, <1>7, <3>12, BeyondIsHidden, UrlsToFinal
    <3>14. \A e \in I : e \in H \/ e \in J
      BY <1>4
    <3> HIDE DEF I, J, H
    <3> QED
      BY <3>7, <3>11, <3>13, <3>14 DEF Hides
  <2>4. end <= public \/ public <= i \/ (i < public /\ public < end)
    BY <1>4
  <2> QED
    BY <2>1, <2>2, <2>3, <2>4
<1> DEFINE o == RedactBounded(z, cut, prefix, max)
<1>10. \A k \in DOMAIN o.text : o.text[k].c # "*" => o.text[k].n \notin I
  <2> HIDE DEF z, cut, prefix, I
  <2> QED
    BY <1>5, <1>6, <1>9, BoundedHides
<1> HIDE DEF o
<1>11. RedactString(x, max) = o
  BY <1>1 DEF o
<1> QED
  BY <1>10, <1>11

\* The user and the password of a URL never appear in what the redactor returns, for every
\* limit, every lookahead and every text in ASCII: not when the limit falls into the user, where
\* only the bytes behind it tell that a password follows, nor when they come in chunks.
THEOREM CredentialsAreHidden == Spec => []CredentialHidden
<1>1. IInv /\ StreamInv => CredentialHidden
  <2> SUFFICES ASSUME IInv, StreamInv, redacted # Pending, NEW s \in DOMAIN redacted
               PROVE  LET x == IF job.kind = "stream" THEN job.stdout ELSE buffer[s] IN
                      {"l", "t"} \cap ToSet(x) = {} =>
                         \A k \in DOMAIN redacted[s].text :
                            redacted[s].text[k].c # "*" => redacted[s].text[k].n \notin Userinfo(x)
    BY DEF CredentialHidden
  <2> DEFINE x == IF job.kind = "stream" THEN job.stdout ELSE buffer[s]
             r == RedactString(x, job.limit)
  <2>1. x \in Seq(Byte) /\ job.limit \in Nat /\ redacted[s] = r
    BY RedactedIs DEF IInv
  <2> HIDE DEF x
  <2> SUFFICES ASSUME {"l", "t"} \cap ToSet(x) = {}, NEW k \in DOMAIN r.text, r.text[k].c # "*",
                      r.text[k].n \in Userinfo(x)
               PROVE  FALSE
    BY <2>1 DEF x
  <2>2. Ascii(x)
    <3>1. ToSet(x) = { x[j] : j \in DOMAIN x } /\ DOMAIN x = 1 .. Len(x)
      BY <2>1 DEF ToSet
    <3> QED
      BY <3>1 DEF Ascii
  <2> DEFINE e == r.text[k].n
  <2>3. PICK i \in Nat, c \in Nat, end \in Nat : Credential(x, i, c, end) /\ e \in i + 1 .. end - 1
    <3>1. e \in Userinfo(x)
      OBVIOUS
    <3> HIDE DEF e
    <3> QED
      BY <2>1, <3>1, UserinfoIs
  <2>4. r.text[k].n \notin i + 1 .. end - 1
    BY <2>1, <2>2, <2>3, StringHides
  <2> QED
    BY <2>3, <2>4
<1> QED
  BY <1>1, Invariance, StreamInvariance, PTL

=============================================================================
