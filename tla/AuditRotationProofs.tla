------------------------ MODULE AuditRotationProofs -------------------------
(***************************************************************************)
(* Proofs about the audit logger, for any number of backups, any file size *)
(* and any number of writes, failures, crashes and power losses: recovery  *)
(* never refuses what a rotation left behind and removes all of it, no     *)
(* record is written behind a torn one, and the logger implements the      *)
(* atomic log of AuditLog.                                                 *)
(***************************************************************************)
EXTENDS AuditRotation, WellFoundedInduction, SequenceTheorems, FiniteSetTheorems, TLAPS

-----------------------------------------------------------------------------
(* The inductive invariant: the directories. *)

Logs   == { Log(i) : i \in 0..Backups }
Swept  == UNION { {Work(i), Source(i), Missing(i)} : i \in 0..Backups }
Staged == Swept \cup {New, Proof, Marker}

\* A directory that recovery can deal with: nothing is staged without the marker, and a
\* proof is the new file while that is staged and the log after that.
Good(d) ==
    /\ DOMAIN d \subseteq Names
    /\ DOMAIN d \cap Staged # {} => Marker \in DOMAIN d
    /\ Proof \in DOMAIN d /\ New \in DOMAIN d => d[Proof] = d[New]
    /\ Proof \in DOMAIN d /\ New \notin DOMAIN d => Log(0) \in DOMAIN d /\ d[Log(0)] = d[Proof]

\* The operations of each phase but for its last ones.
StageOps   == UNION { {Link(Log(i), Source(i)), Create(Missing(i))} : i \in 0..Backups }
ShiftOps   == UNION { {Link(Source(i - 1), Work(i)), Rename(Work(i), Log(i)), Unlink(Log(i))} : i \in 1..Backups }
RestoreOps == UNION { {Unlink(Work(i)), Link(Source(i), Work(i)), Rename(Work(i), Log(i)), Unlink(Log(i))} : i \in 0..Backups }
SweepOps   == { Unlink(n) : n \in Swept }
AllOps     == StageOps \cup ShiftOps \cup RestoreOps \cup SweepOps
              \cup {Create(Marker), CreateNew, Link(New, Proof), Publish, Unlink(Proof), Unlink(New), Unlink(Marker)}

\* The list s is any number of operations of the set S, and then t.
Ends(s, S, t) == \E y \in Seq(S) : s = y \o t

StageEnd == <<CreateNew, Link(New, Proof)>>
SweepEnd == <<Unlink(Proof), Unlink(New), Unlink(Marker)>>

\* What is left to do in the directory d to prepare a rotation ...
Prepares(d, s) ==
    /\ Log(0) \in DOMAIN d
    /\ \/ /\ DOMAIN d \cap Staged = {}
          /\ s # <<>> /\ Head(s) = Create(Marker) /\ Ends(Tail(s), StageOps, StageEnd)
       \/ Marker \in DOMAIN d /\ New \notin DOMAIN d /\ Proof \notin DOMAIN d /\ Ends(s, StageOps, StageEnd)
       \/ Marker \in DOMAIN d /\ New \in DOMAIN d /\ Proof \notin DOMAIN d /\ s = <<Link(New, Proof)>>
       \/ Marker \in DOMAIN d /\ New \in DOMAIN d /\ Proof \in DOMAIN d /\ s = <<>>

\* ... to apply it ...
Applies(d, s) ==
    \/ Marker \in DOMAIN d /\ New \in DOMAIN d /\ Proof \in DOMAIN d /\ Ends(s, ShiftOps, <<Publish>>)
    \/ s = <<>>

\* ... and to remove what it has staged, or to take it back first.
Removes(d, s) ==
    /\ \A n \in DOMAIN d \cap Staged : Unlink(n) \in Range(s)
    /\ \/ Ends(s, SweepOps, SweepEnd)
       \/ s \in {<<Unlink(New), Unlink(Marker)>>, <<Unlink(Marker)>>, <<>>}

Undoes(d, s) ==
    \/ New \in DOMAIN d /\ Ends(s, RestoreOps, CleanupOps)
    \/ Removes(d, s)

DirInv == Good(dir) /\ \A d \in unsynced : Good(d)

\* The operations that are not done yet: one that is done stays in todo until its sync.
Rest == IF pc = "sync" /\ todo # <<>> THEN Tail(todo) ELSE todo

Undoing == {"recover", "abort", "cleanup"}

PhaseInv ==
    /\ pc \in {"sync", "ops"} =>
          /\ todo \in Seq(AllOps)
          /\ phase \in Undoing \cup {"begin", "created", "settle", "prepare", "apply"}
          /\ phase \in {"begin", "created", "settle"} => todo = <<>>
          /\ phase = "begin" => pc = "sync"
          /\ phase \notin {"begin", "created", "settle"} /\ pc = "sync" => todo # <<>>
          /\ phase = "created" => Log(0) \in DOMAIN dir /\ DOMAIN dir \cap Staged = {}
          /\ phase = "prepare" => Prepares(dir, Rest)
          /\ phase = "apply" => Applies(dir, Rest) /\ (pc = "sync" /\ Rest = <<>> => Head(todo) = Publish)
          /\ phase \in Undoing => Undoes(dir, Rest)
    /\ pc \in {"open", "write"} => DOMAIN dir \cap Staged = {}
    /\ pc = "write" => Log(0) \in DOMAIN dir

-----------------------------------------------------------------------------
(* The inductive invariant: the files. *)

Files == [ lines : Seq(Nat \cup {Torn}), synced : Nat ]

\* A torn line is the last one of its file.
Tidy(lines) == \A k \in 1..Len(lines) : lines[k] = Torn => k = Len(lines)

\* What is about to be written to does not end with one.
Repaired == dir[Log(0)] \in Inodes => ~IsTorn(Current.lines)

FilesOK == data \in [Inodes -> Files] /\ \A i \in Inodes : Tidy(data[i].lines)

RepairInv ==
    /\ pc = "write" => Repaired
    /\ pc \in {"sync", "ops"} /\ phase = "created" => todo = <<>> /\ Log(0) \in DOMAIN dir /\ Repaired

FileInv == FilesOK /\ RepairInv /\ event \in Nat /\ written \in Nat

IInv == DirInv /\ PhaseInv /\ FileInv

-----------------------------------------------------------------------------
(* Lists of operations. *)

\* Induction over the natural numbers, for a set of them.
LEMMA SetInduction ==
    ASSUME NEW S, 0 \in S, \A n \in Nat : n \in S => n + 1 \in S
    PROVE  Nat \subseteq S
<1> SUFFICES ASSUME NEW m \in Nat, m \notin S PROVE FALSE
  OBVIOUS
<1> DEFINE T == Nat \ S
           R == OpToRel(<, Nat)
<1>1. T \subseteq Nat /\ T # {}
  OBVIOUS
<1>2. \E x \in T : \A y \in T : ~ (<<y, x>> \in R)
  <2> HIDE DEF T
  <2> QED
    BY <1>1, WFMin, NatLessThanWellFounded
<1>3. PICK x \in T : \A y \in T : ~ (<<y, x>> \in R)
  BY <1>2
<1>4. \A y \in T : ~ (y < x)
  BY <1>3 DEF OpToRel
<1>5. x # 0 /\ x - 1 \in Nat /\ (x - 1) + 1 = x
  OBVIOUS
<1>6. x - 1 \in S
  BY <1>4, <1>5
<1> QED
  BY <1>5, <1>6

\* A set of numbers that is bounded and not empty has a greatest element.
LEMMA Greatest ==
    ASSUME NEW n \in Nat, NEW S, S \subseteq 0..n, S # {}
    PROVE  \E m \in S : \A j \in S : j <= m
<1> DEFINE T == { k \in Nat : \A m \in S : m <= k => \E g \in S : g <= k /\ \A j \in S : j <= k => j <= g }
<1>1. 0 \in T
  OBVIOUS
<1>2. ASSUME NEW k \in Nat, k \in T PROVE k + 1 \in T
  <2>1. CASE k + 1 \in S
    BY <2>1
  <2>2. CASE k + 1 \notin S
    <3>1. \A j \in S : j <= k + 1 <=> j <= k
      BY <2>2
    <3> QED
      BY <1>2, <3>1
  <2> QED
    BY <2>1, <2>2
<1>3. n \in T
  <2> HIDE DEF T
  <2> QED
    BY <1>1, <1>2, SetInduction
<1>4. \A j \in S : j <= n
  OBVIOUS
<1>5. PICK m \in S : m <= n
  BY <1>4
<1>6. PICK g \in S : \A j \in S : j <= n => j <= g
  BY <1>3, <1>5
<1> QED
  BY <1>4, <1>6

\* The function by which FlattenSeq is defined.
Flattens(seqs, f) == f = [ i \in 1..Len(seqs) |-> IF i = 1 THEN seqs[i] ELSE f[i - 1] \o seqs[i] ]

\* There is such a function, so that FlattenSeq is its last value.
LEMMA FlattenIs ==
    ASSUME NEW seqs, Len(seqs) \in Nat \ {0}
    PROVE  \E f : Flattens(seqs, f) /\ FlattenSeq(seqs) = f[Len(seqs)]
<1> DEFINE F(f, n) == f = [ i \in 1..n |-> IF i = 1 THEN seqs[i] ELSE f[i - 1] \o seqs[i] ]
           S == { n \in Nat : \E f : F(f, n) }
<1>1. 0 \in S
  <2>1. F(<<>>, 0)
    OBVIOUS
  <2> QED
    BY <2>1
<1>2. ASSUME NEW n \in Nat, n \in S PROVE n + 1 \in S
  <2>1. PICK f : F(f, n)
    BY <1>2
  <2> DEFINE g == [ i \in 1..(n + 1) |-> IF i = n + 1 THEN IF i = 1 THEN seqs[i] ELSE f[i - 1] \o seqs[i] ELSE f[i] ]
  <2>2. \A i \in 1..n : f[i] = IF i = 1 THEN seqs[i] ELSE f[i - 1] \o seqs[i]
    BY <2>1
  <2>3. \A i \in 1..n : i \in 1..(n + 1) /\ i # n + 1
    OBVIOUS
  <2>4. \A i \in 1..n : g[i] = f[i]
    BY <2>3
  <2>5. ASSUME NEW i \in 1..(n + 1) PROVE g[i] = IF i = 1 THEN seqs[i] ELSE g[i - 1] \o seqs[i]
    <3>1. i # 1 => i - 1 \in 1..n
      OBVIOUS
    <3>2. CASE i \in 1..n
      <4> HIDE DEF g
      <4> QED
        BY <2>2, <2>4, <3>1, <3>2
    <3>3. CASE i = n + 1
      <4>1. g[i] = IF i = 1 THEN seqs[i] ELSE f[i - 1] \o seqs[i]
        BY <3>3
      <4> HIDE DEF g
      <4> QED
        BY <2>4, <3>1, <4>1
    <3> QED
      BY <3>2, <3>3
  <2>6. F(g, n + 1)
    BY <2>5
  <2>7. \E h : F(h, n + 1)
    BY <2>6
  <2> HIDE DEF F
  <2> QED
    BY <2>7
<1>3. Nat \subseteq S
  <2> HIDE DEF S
  <2> QED
    BY <1>1, <1>2, SetInduction
<1>4. \E f : Flattens(seqs, f)
  BY <1>3 DEF Flattens
<1> DEFINE f == CHOOSE f : f = [ i \in 1..Len(seqs) |-> IF i = 1 THEN seqs[i] ELSE f[i - 1] \o seqs[i] ]
<1>5. Flattens(seqs, f)
  BY <1>4 DEF Flattens
<1>6. FlattenSeq(seqs) = f[Len(seqs)]
  BY DEF FlattenSeq
<1> QED
  BY <1>5, <1>6

\* The flattened list has the elements of its parts.
LEMMA FlattenRange ==
    ASSUME NEW T, NEW seqs \in Seq(Seq(T))
    PROVE  /\ FlattenSeq(seqs) \in Seq(T)
           /\ \A x : x \in Range(FlattenSeq(seqs)) <=> \E j \in 1..Len(seqs) : x \in Range(seqs[j])
<1>1. CASE Len(seqs) = 0
  <2>1. FlattenSeq(seqs) = seqs /\ seqs = <<>>
    BY <1>1 DEF FlattenSeq
  <2> QED
    BY <1>1, <2>1 DEF Range
<1>2. CASE Len(seqs) # 0
  <2>1. Len(seqs) \in Nat \ {0} /\ \A j \in 1..Len(seqs) : seqs[j] \in Seq(T)
    BY <1>2
  <2>2. PICK f : Flattens(seqs, f) /\ FlattenSeq(seqs) = f[Len(seqs)]
    BY <2>1, FlattenIs
  <2>3. \A i \in 1..Len(seqs) : f[i] = IF i = 1 THEN seqs[i] ELSE f[i - 1] \o seqs[i]
    BY <2>2 DEF Flattens
  <2> DEFINE P(i) == /\ f[i] \in Seq(T)
                     /\ \A x : x \in Range(f[i]) <=> \E j \in 1..i : x \in Range(seqs[j])
             S == { n \in Nat : n \in 1..Len(seqs) => P(n) }
  <2>4. 0 \in S
    OBVIOUS
  <2>5. ASSUME NEW n \in Nat, n \in S PROVE n + 1 \in S
    <3> SUFFICES ASSUME n + 1 \in 1..Len(seqs) PROVE P(n + 1)
      OBVIOUS
    <3>1. CASE n = 0
      <4>1. f[1] = seqs[1] /\ 1 \in 1..Len(seqs)
        BY <2>1, <2>3
      <4>2. \A j : j \in 1..1 <=> j = 1
        OBVIOUS
      <4>3. P(1)
        BY <2>1, <4>1, <4>2
      <4> QED
        BY <3>1, <4>3
    <3>2. CASE n # 0
      <4>1. n \in 1..Len(seqs) /\ n + 1 # 1 /\ (n + 1) - 1 = n
        BY <2>1, <3>2
      <4>2. P(n)
        BY <2>5, <4>1
      <4>3. f[n + 1] = f[n] \o seqs[n + 1] /\ seqs[n + 1] \in Seq(T)
        BY <2>1, <2>3, <4>1
      <4>4. f[n + 1] \in Seq(T)
        BY <4>2, <4>3
      <4>5. \A x : x \in Range(f[n + 1]) <=> x \in Range(f[n]) \/ x \in Range(seqs[n + 1])
        BY <4>2, <4>3, RangeConcatenation
      <4>6. \A j : j \in 1..(n + 1) <=> j \in 1..n \/ j = n + 1
        OBVIOUS
      <4> QED
        BY <4>2, <4>4, <4>5, <4>6
    <3> QED
      BY <3>1, <3>2
  <2>6. Nat \subseteq S
    <3> HIDE DEF S
    <3> QED
      BY <2>4, <2>5, SetInduction
  <2>7. P(Len(seqs))
    <3> HIDE DEF P
    <3> QED
      BY <2>1, <2>6
  <2> QED
    BY <2>2, <2>7
<1> QED
  BY <1>1, <1>2

\* The kinds of operations are operations.
LEMMA OpsAreOps ==
    /\ StageOps \subseteq AllOps /\ ShiftOps \subseteq AllOps /\ RestoreOps \subseteq AllOps /\ SweepOps \subseteq AllOps
    /\ StageEnd \in Seq(AllOps) /\ SweepEnd \in Seq(AllOps) /\ <<Publish>> \in Seq(AllOps)
BY DEF AllOps, StageEnd, SweepEnd

\* A list that ends with t is t or has one operation more.
LEMMA EndsStep ==
    ASSUME NEW S, S \subseteq AllOps, NEW t \in Seq(AllOps), NEW s, Ends(s, S, t)
    PROVE  /\ s \in Seq(AllOps)
           /\ s = t \/ (s # <<>> /\ Head(s) \in S /\ Ends(Tail(s), S, t))
<1>1. PICK y \in Seq(S) : s = y \o t
  BY DEF Ends
<1>2. y \in Seq(AllOps)
  BY SeqMonotonic
<1>3. s \in Seq(AllOps)
  BY <1>1, <1>2
<1>4. CASE y = <<>>
  BY <1>1, <1>3, <1>4
<1>5. CASE y # <<>>
  <2>1. Head(y) \in S /\ Tail(y) \in Seq(S)
    BY <1>5
  <2>2. s # <<>> /\ Head(s) = Head(y)
    BY <1>1, <1>2, <1>5
  <2>3. Tail(s) = Tail(y) \o t
    BY <1>1, <1>2, <1>5
  <2> QED
    BY <1>3, <2>1, <2>2, <2>3 DEF Ends
<1> QED
  BY <1>4, <1>5

\* The lists that the phases go through are made of their operations.
LEMMA PartsRange ==
    ASSUME NEW T, NEW n \in Nat, NEW parts \in [1..n -> Seq(T)]
    PROVE  /\ FlattenSeq(parts) \in Seq(T)
           /\ \A k \in 1..n : \A x \in Range(parts[k]) : x \in Range(FlattenSeq(parts))
<1>1. parts \in Seq(Seq(T)) /\ Len(parts) = n
  OBVIOUS
<1> QED
  BY <1>1, FlattenRange

\* cleanupRotationStaging removes everything that is staged.
LEMMA CleanupIs ==
    /\ CleanupOps \in Seq(AllOps)
    /\ Ends(CleanupOps, SweepOps, SweepEnd)
    /\ \A n \in Staged : Unlink(n) \in Range(CleanupOps)
<1> DEFINE parts == [ k \in 1..(Backups + 1) |-> <<Unlink(Work(k - 1)), Unlink(Source(k - 1)), Unlink(Missing(k - 1))>> ]
<1>1. CleanupOps = FlattenSeq(parts) \o SweepEnd
  BY DEF CleanupOps, PerIndex, SweepEnd
<1>2. Backups + 1 \in Nat /\ (\A k \in 1..(Backups + 1) : k - 1 \in 0..Backups)
      /\ (\A i \in 0..Backups : i + 1 \in 1..(Backups + 1) /\ (i + 1) - 1 = i)
  BY AuditAssumption
<1>3. parts \in [1..(Backups + 1) -> Seq(SweepOps)]
  BY <1>2 DEF SweepOps, Swept
<1>4. \A k \in 1..(Backups + 1) : {Unlink(Work(k - 1)), Unlink(Source(k - 1)), Unlink(Missing(k - 1))} \subseteq Range(parts[k])
  <2> SUFFICES ASSUME NEW k \in 1..(Backups + 1)
               PROVE  {Unlink(Work(k - 1)), Unlink(Source(k - 1)), Unlink(Missing(k - 1))} \subseteq Range(parts[k])
    OBVIOUS
  <2>1. parts[k] = <<Unlink(Work(k - 1)), Unlink(Source(k - 1)), Unlink(Missing(k - 1))>>
    OBVIOUS
  <2> QED
    BY <2>1 DEF Range
<1> HIDE DEF parts
<1>5. FlattenSeq(parts) \in Seq(SweepOps) /\ FlattenSeq(parts) \in Seq(AllOps) /\ SweepEnd \in Seq(AllOps)
  BY <1>2, <1>3, PartsRange, OpsAreOps, SeqMonotonic
<1>6. Range(CleanupOps) = Range(FlattenSeq(parts)) \cup Range(SweepEnd)
  BY <1>1, <1>5, RangeConcatenation
<1>7. ASSUME NEW i \in 0..Backups PROVE {Unlink(Work(i)), Unlink(Source(i)), Unlink(Missing(i))} \subseteq Range(FlattenSeq(parts))
  <2>1. i + 1 \in 1..(Backups + 1) /\ (i + 1) - 1 = i
    BY <1>2
  <2>2. {Unlink(Work(i)), Unlink(Source(i)), Unlink(Missing(i))} \subseteq Range(parts[i + 1])
    BY <1>4, <2>1
  <2> QED
    BY <1>2, <1>3, <2>1, <2>2, PartsRange
<1>8. {Unlink(Proof), Unlink(New), Unlink(Marker)} \subseteq Range(SweepEnd)
  BY DEF SweepEnd, Range
<1>9. \A n \in Staged : Unlink(n) \in Range(CleanupOps)
  BY <1>6, <1>7, <1>8 DEF Staged, Swept
<1>10. CleanupOps \in Seq(AllOps)
  BY <1>1, <1>5, ConcatProperties
<1>11. Ends(CleanupOps, SweepOps, SweepEnd)
  BY <1>1, <1>5 DEF Ends
<1> QED
  BY <1>9, <1>10, <1>11

\* rollbackRotation takes the backups back and then removes what is staged.
LEMMA RollbackIs ==
    ASSUME NEW d
    PROVE  RollbackOps(d) \in Seq(AllOps) /\ Ends(RollbackOps(d), RestoreOps, CleanupOps)
<1> DEFINE part(i) == IF Source(i) \in DOMAIN d
                      THEN <<Unlink(Work(i)), Link(Source(i), Work(i)), Rename(Work(i), Log(i))>>
                      ELSE IF Missing(i) \in DOMAIN d THEN <<Unlink(Log(i))>> ELSE <<>>
           parts == [ k \in 1..(Backups + 1) |-> part(k - 1) ]
<1>1. RollbackOps(d) = FlattenSeq(parts) \o CleanupOps
  BY DEF RollbackOps, PerIndex
<1>2. Backups + 1 \in Nat /\ (\A k \in 1..(Backups + 1) : k - 1 \in 0..Backups)
  BY AuditAssumption
<1>3. ASSUME NEW i \in 0..Backups PROVE part(i) \in Seq(RestoreOps)
  <2>1. {Unlink(Work(i)), Link(Source(i), Work(i)), Rename(Work(i), Log(i)), Unlink(Log(i))} \subseteq RestoreOps
    BY DEF RestoreOps
  <2>2. /\ <<Unlink(Work(i)), Link(Source(i), Work(i)), Rename(Work(i), Log(i))>> \in Seq(RestoreOps)
        /\ <<Unlink(Log(i))>> \in Seq(RestoreOps) /\ <<>> \in Seq(RestoreOps)
    BY <2>1
  <2> QED
    BY <2>2
<1> HIDE DEF part
<1>4. parts \in [1..(Backups + 1) -> Seq(RestoreOps)]
  BY <1>2, <1>3
<1> HIDE DEF parts
<1>5. FlattenSeq(parts) \in Seq(RestoreOps) /\ FlattenSeq(parts) \in Seq(AllOps)
  BY <1>2, <1>4, PartsRange, OpsAreOps, SeqMonotonic
<1>6. FlattenSeq(parts) \o CleanupOps \in Seq(AllOps)
  BY <1>5, CleanupIs, ConcatProperties
<1>7. Ends(RollbackOps(d), RestoreOps, CleanupOps)
  BY <1>1, <1>5 DEF Ends
<1> QED
  BY <1>1, <1>6, <1>7

\* The highest index of a rotation is the index of a file.
LEMMA LimitIs ==
    ASSUME NEW d, Log(0) \in DOMAIN d
    PROVE  Limit(d) \in 0..Backups
<1> DEFINE present == { i \in 0..Backups : Log(i) \in DOMAIN d }
           highest == CHOOSE i \in present : \A j \in present : j <= i
<1>1. Backups \in Nat /\ 0 \in present /\ present \subseteq 0..Backups
  BY AuditAssumption
<1>2. highest \in present
  <2> HIDE DEF present
  <2>1. \E i \in present : \A j \in present : j <= i
    BY <1>1, Greatest
  <2> QED
    BY <2>1
<1>3. Limit(d) = IF highest + 1 < Backups THEN highest + 1 ELSE Backups
  BY DEF Limit
<1>4. highest \in 0..Backups
  BY <1>1, <1>2
<1> HIDE DEF highest
<1> QED
  BY <1>1, <1>3, <1>4

\* prepareRotation begins with the marker and ends with the new file and its proof.
LEMMA PrepareIs ==
    ASSUME NEW d, Log(0) \in DOMAIN d
    PROVE  /\ PrepareOps(d) \in Seq(AllOps) /\ PrepareOps(d) # <<>> /\ Head(PrepareOps(d)) = Create(Marker)
           /\ Ends(Tail(PrepareOps(d)), StageOps, StageEnd)
<1> DEFINE part(i) == IF Log(i) \in DOMAIN d THEN <<Link(Log(i), Source(i))>> ELSE <<Create(Missing(i))>>
           parts == [ k \in 1..(Limit(d) + 1) |-> part(k - 1) ]
<1>1. PrepareOps(d) = (<<Create(Marker)>> \o FlattenSeq(parts)) \o StageEnd
  BY DEF PrepareOps, PerIndex, StageEnd
<1>2. Limit(d) + 1 \in Nat /\ \A k \in 1..(Limit(d) + 1) : k - 1 \in 0..Backups
  BY LimitIs, AuditAssumption
<1>3. ASSUME NEW i \in 0..Backups PROVE part(i) \in Seq(StageOps)
  <2>1. {Link(Log(i), Source(i)), Create(Missing(i))} \subseteq StageOps
    BY DEF StageOps
  <2>2. <<Link(Log(i), Source(i))>> \in Seq(StageOps) /\ <<Create(Missing(i))>> \in Seq(StageOps)
    BY <2>1
  <2> QED
    BY <2>2
<1> HIDE DEF part
<1>4. parts \in [1..(Limit(d) + 1) -> Seq(StageOps)]
  BY <1>2, <1>3
<1> HIDE DEF parts
<1>5. FlattenSeq(parts) \in Seq(StageOps) /\ FlattenSeq(parts) \in Seq(AllOps)
  BY <1>2, <1>4, PartsRange, OpsAreOps, SeqMonotonic
<1>6. Create(Marker) \in AllOps /\ StageEnd \in Seq(AllOps)
  BY OpsAreOps DEF AllOps
<1>7. /\ PrepareOps(d) \in Seq(AllOps) /\ PrepareOps(d) # <<>> /\ Head(PrepareOps(d)) = Create(Marker)
      /\ Tail(PrepareOps(d)) = FlattenSeq(parts) \o StageEnd
  <2> SUFFICES ASSUME NEW y \in Seq(AllOps), NEW t \in Seq(AllOps), NEW e \in AllOps
               PROVE  /\ (<<e>> \o y) \o t \in Seq(AllOps) /\ (<<e>> \o y) \o t # <<>>
                      /\ Head((<<e>> \o y) \o t) = e
                      /\ Tail((<<e>> \o y) \o t) = y \o t
    BY <1>1, <1>5, <1>6
  <2>1. (<<e>> \o y) \o t = <<e>> \o (y \o t)
    BY ConcatAssociative
  <2>2. Tail(<<e>> \o (y \o t)) = y \o t
    OBVIOUS
  <2> QED
    BY <2>1, <2>2
<1> QED
  BY <1>5, <1>7 DEF Ends

\* applyRotation replaces the backups and ends with the commit.
LEMMA ApplyIs ==
    ASSUME NEW d, Log(0) \in DOMAIN d
    PROVE  ApplyOps(d) \in Seq(AllOps) /\ Ends(ApplyOps(d), ShiftOps, <<Publish>>)
<1> DEFINE part(i) == IF Source(i - 1) \in DOMAIN d
                      THEN <<Link(Source(i - 1), Work(i)), Rename(Work(i), Log(i))>>
                      ELSE <<Unlink(Log(i))>>
           parts == [ k \in 1..((Limit(d) - 1) + 1) |-> part(Limit(d) - (k - 1)) ]
<1>1. ApplyOps(d) = FlattenSeq(parts) \o <<Publish>>
  BY DEF ApplyOps, PerIndex
<1>2. (Limit(d) - 1) + 1 \in Nat /\ \A k \in 1..((Limit(d) - 1) + 1) : Limit(d) - (k - 1) \in 1..Backups
  BY LimitIs, AuditAssumption
<1>3. ASSUME NEW i \in 1..Backups PROVE part(i) \in Seq(ShiftOps)
  <2>1. {Link(Source(i - 1), Work(i)), Rename(Work(i), Log(i)), Unlink(Log(i))} \subseteq ShiftOps
    BY DEF ShiftOps
  <2>2. /\ <<Link(Source(i - 1), Work(i)), Rename(Work(i), Log(i))>> \in Seq(ShiftOps)
        /\ <<Unlink(Log(i))>> \in Seq(ShiftOps)
    BY <2>1
  <2> QED
    BY <2>2
<1> HIDE DEF part
<1>4. parts \in [1..((Limit(d) - 1) + 1) -> Seq(ShiftOps)]
  BY <1>2, <1>3
<1> HIDE DEF parts
<1>5. FlattenSeq(parts) \in Seq(ShiftOps) /\ FlattenSeq(parts) \in Seq(AllOps)
  BY <1>2, <1>4, PartsRange, OpsAreOps, SeqMonotonic
<1>6. FlattenSeq(parts) \o <<Publish>> \in Seq(AllOps)
  BY <1>5, OpsAreOps, ConcatProperties
<1>7. Ends(ApplyOps(d), ShiftOps, <<Publish>>)
  BY <1>1, <1>5 DEF Ends
<1> QED
  BY <1>1, <1>6, <1>7

-----------------------------------------------------------------------------
(* One directory operation. *)

\* The names of the files and of what a rotation stages.
LEMMA NameFacts ==
    /\ \A n \in Names : n \in Logs \/ n \in Staged
    /\ \A n \in Logs : n \in Names /\ n \notin Staged /\ n[1] = "log"
    /\ \A n \in Staged : n \in Names /\ n[1] # "log"
    /\ Log(0) \in Logs
    /\ New \notin Swept /\ Proof \notin Swept /\ Marker \notin Swept
    /\ New # Proof /\ New # Marker /\ Proof # Marker
    /\ \A i \in 0..Backups : /\ Log(i) \in Logs /\ Source(i) \in Swept /\ Missing(i) \in Swept /\ Work(i) \in Swept
                             /\ Work(i) \notin Logs /\ Source(i) \notin Logs
<1>1. \A i \in 0..Backups : Log(i) \in Logs /\ Source(i) \in Swept /\ Missing(i) \in Swept /\ Work(i) \in Swept
  BY DEF Logs, Swept
<1>2. 0 \in 0..Backups
  BY AuditAssumption
<1>3. \A n \in Logs : n \in Names /\ n[1] = "log"
  BY DEF Logs, Names, Log
<1>4. \A n \in Swept : n \in Names /\ n[1] \in {"work", "source", "missing"}
  BY DEF Swept, Names, Work, Source, Missing
<1>5. /\ New \in Names /\ Proof \in Names /\ Marker \in Names
      /\ New[1] = "new" /\ Proof[1] = "proof" /\ Marker[1] = "marker"
  BY DEF Names, New, Proof, Marker
<1>6. \A n \in Names : n \in Logs \/ n \in Staged
  <2> SUFFICES ASSUME NEW n \in Names PROVE n \in Logs \/ n \in Staged
    OBVIOUS
  <2>1. CASE n \in {New, Proof, Marker}
    BY <2>1 DEF Staged
  <2>2. CASE n \in {"log", "source", "missing", "work"} \X (0..Backups)
    <3>1. PICK s \in {"log", "source", "missing", "work"}, i \in 0..Backups : n = <<s, i>>
      BY <2>2
    <3> QED
      BY <1>1, <3>1 DEF Staged, Log, Source, Missing, Work
  <2> QED
    BY <2>1, <2>2 DEF Names
<1> QED
  BY <1>1, <1>2, <1>3, <1>4, <1>5, <1>6 DEF Staged

\* The operations on one backup: which names they touch.
LEMMA OpFacts ==
    /\ \A op \in StageOps : \/ op.do = "create" /\ op.to \in Swept
                            \/ op.do = "link" /\ op.to \in Swept /\ op.from \in Logs
    /\ \A op \in ShiftOps \cup RestoreOps :
          \/ op.do = "link" /\ op.to \in Swept /\ op.from \in Swept
          \/ op.do = "rename" /\ op.to \in Logs /\ op.from \in Swept
          \/ op.do = "remove" /\ op.to \in Logs \cup Swept
    /\ \A op \in SweepOps : \E n \in Swept : op = Unlink(n)
    /\ \A n : Unlink(n).do = "remove" /\ Unlink(n).to = n
<1>1. \A i \in 1..Backups : i \in 0..Backups /\ i - 1 \in 0..Backups
  BY AuditAssumption
<1>2. \A op \in StageOps : \/ op.do = "create" /\ op.to \in Swept
                           \/ op.do = "link" /\ op.to \in Swept /\ op.from \in Logs
  BY NameFacts DEF StageOps, Create, Link
<1>3. \A op \in ShiftOps :
          \/ op.do = "link" /\ op.to \in Swept /\ op.from \in Swept
          \/ op.do = "rename" /\ op.to \in Logs /\ op.from \in Swept
          \/ op.do = "remove" /\ op.to \in Logs \cup Swept
  BY <1>1, NameFacts DEF ShiftOps, Rename, Link, Unlink
<1>4. \A op \in RestoreOps :
          \/ op.do = "link" /\ op.to \in Swept /\ op.from \in Swept
          \/ op.do = "rename" /\ op.to \in Logs /\ op.from \in Swept
          \/ op.do = "remove" /\ op.to \in Logs \cup Swept
  BY NameFacts DEF RestoreOps, Rename, Link, Unlink
<1> QED
  BY <1>2, <1>3, <1>4 DEF SweepOps, Unlink

\* An operation on one backup leaves the new file, its proof and the marker alone.
LEMMA BackupOp ==
    ASSUME NEW d, Good(d), Marker \in DOMAIN d, New \in DOMAIN d \/ Proof \notin DOMAIN d,
           NEW op \in StageOps \cup ShiftOps \cup RestoreOps, Applicable(d, op)
    PROVE  /\ Good(Effect(d, op))
           /\ \A n \in {New, Proof, Marker} : n \in DOMAIN Effect(d, op) <=> n \in DOMAIN d
           /\ op \in StageOps /\ Log(0) \in DOMAIN d => Log(0) \in DOMAIN Effect(d, op)
<1> DEFINE e == Effect(d, op)
<1>1. /\ DOMAIN e \subseteq Names
      /\ \A n \in {New, Proof, Marker} : (n \in DOMAIN e <=> n \in DOMAIN d) /\ (n \in DOMAIN d => e[n] = d[n])
      /\ op \in StageOps /\ Log(0) \in DOMAIN d => Log(0) \in DOMAIN e
  <2>1. DOMAIN d \subseteq Names
    BY DEF Good
  <2>2. {New, Proof, Marker} \cap (Logs \cup Swept) = {} /\ Logs \cup Swept \subseteq Names
    BY NameFacts DEF Staged
  <2>3. CASE op.do = "create" /\ op.to \in Swept
    <3>1. e = Put(d, op.to, Metadata)
      BY <2>3 DEF Effect
    <3> HIDE DEF e
    <3> QED
      BY <2>1, <2>2, <2>3, <3>1 DEF Put
  <2>4. CASE op.do = "link" /\ op.to \in Swept
    <3>1. e = Put(d, op.to, d[op.from])
      BY <2>4 DEF Effect
    <3> HIDE DEF e
    <3> QED
      BY <2>1, <2>2, <2>4, <3>1 DEF Put
  <2>5. CASE op.do = "remove" /\ op.to \in Logs \cup Swept /\ op \notin StageOps
    <3>1. e = Drop(d, op.to)
      BY <2>5 DEF Effect
    <3> HIDE DEF e
    <3> QED
      BY <2>1, <2>2, <2>5, <3>1 DEF Drop
  <2>6. CASE op.do = "rename" /\ op.to \in Logs /\ op.from \in Swept /\ op \notin StageOps
    <3>1. e = d \/ e = Put(Drop(d, op.from), op.to, d[op.from])
      BY <2>6 DEF Effect
    <3> HIDE DEF e
    <3>2. CASE e = d
      BY <2>1, <2>6, <3>2
    <3>3. CASE e = Put(Drop(d, op.from), op.to, d[op.from])
      <4> DEFINE c == Drop(d, op.from)
      <4>1. DOMAIN c = DOMAIN d \ {op.from} /\ \A x \in DOMAIN c : c[x] = d[x]
        BY DEF Drop
      <4>2. e = Put(c, op.to, d[op.from])
        BY <3>3
      <4> HIDE DEF c
      <4>3. DOMAIN e = DOMAIN c \cup {op.to} /\ \A x \in DOMAIN c : x # op.to => e[x] = c[x]
        BY <4>2 DEF Put
      <4> QED
        BY <2>1, <2>2, <2>6, <4>1, <4>3
    <3> QED
      BY <3>1, <3>2, <3>3
  <2>7. op \in StageOps => op.do \in {"create", "link"}
    BY OpFacts
  <2> QED
    BY <2>3, <2>4, <2>5, <2>6, <2>7, OpFacts
<1>2. Good(e)
  <2> HIDE DEF e
  <2> QED
    BY <1>1 DEF Good
<1> QED
  BY <1>1, <1>2

\* An operation of prepareRotation.
LEMMA PrepareStep ==
    ASSUME NEW d, Good(d), NEW s, Prepares(d, s), s # <<>>
    PROVE  /\ Head(s).do # "remove"
           /\ Applicable(d, Head(s)) => Good(Effect(d, Head(s))) /\ Prepares(Effect(d, Head(s)), Tail(s))
<1> DEFINE e == Effect(d, Head(s))
<1>1. /\ DOMAIN d \subseteq Names /\ Log(0) \in DOMAIN d /\ Log(0) \notin Staged
      /\ New # Proof /\ New # Marker /\ Proof # Marker
      /\ New \in Staged /\ Proof \in Staged /\ Marker \in Staged /\ Staged \subseteq Names
  BY NameFacts DEF Good, Prepares, Staged
<1>2. CASE /\ DOMAIN d \cap Staged = {}
           /\ Head(s) = Create(Marker) /\ Ends(Tail(s), StageOps, StageEnd)
  <2>1. e = Put(d, Marker, Metadata)
    BY <1>2 DEF Effect, Create
  <2> HIDE DEF e
  <2>2. DOMAIN e = DOMAIN d \cup {Marker}
    BY <2>1 DEF Put
  <2>3. New \notin DOMAIN e /\ Proof \notin DOMAIN e /\ Marker \in DOMAIN e /\ Log(0) \in DOMAIN e
    BY <1>1, <1>2, <2>2
  <2>4. Good(e)
    BY <1>1, <2>2, <2>3 DEF Good
  <2> QED
    BY <1>2, <2>3, <2>4 DEF Prepares, e, Create
<1>3. CASE Marker \in DOMAIN d /\ New \notin DOMAIN d /\ Proof \notin DOMAIN d /\ Ends(s, StageOps, StageEnd)
  <2>1. CASE s = StageEnd
    <3>1. Head(s) = CreateNew /\ Tail(s) = <<Link(New, Proof)>>
      BY <2>1 DEF StageEnd
    <3>2. e = Put(d, New, Fresh)
      BY <3>1 DEF Effect, CreateNew
    <3> HIDE DEF e
    <3>3. DOMAIN e = DOMAIN d \cup {New}
      BY <3>2 DEF Put
    <3>4. New \in DOMAIN e /\ Proof \notin DOMAIN e /\ Marker \in DOMAIN e /\ Log(0) \in DOMAIN e
      BY <1>1, <1>3, <3>3
    <3>5. Good(e)
      BY <1>1, <3>3, <3>4 DEF Good
    <3> QED
      BY <3>1, <3>4, <3>5 DEF Prepares, e, CreateNew
  <2>2. CASE Head(s) \in StageOps /\ Ends(Tail(s), StageOps, StageEnd)
    <3>1. Head(s).do # "remove"
      BY <2>2, OpFacts
    <3> QED
      BY <1>1, <1>3, <2>2, <3>1, BackupOp DEF Prepares
  <2> QED
    BY <1>3, <2>1, <2>2, EndsStep, OpsAreOps
<1>4. CASE Marker \in DOMAIN d /\ New \in DOMAIN d /\ Proof \notin DOMAIN d /\ s = <<Link(New, Proof)>>
  <2>1. Head(s) = Link(New, Proof) /\ Tail(s) = <<>>
    BY <1>4
  <2>2. e = Put(d, Proof, d[New])
    BY <2>1 DEF Effect, Link
  <2> HIDE DEF e
  <2>3. DOMAIN e = DOMAIN d \cup {Proof} /\ e[Proof] = d[New] /\ e[New] = d[New]
    BY <1>1, <1>4, <2>2 DEF Put
  <2>4. Good(e)
    BY <1>1, <1>4, <2>3 DEF Good
  <2> QED
    BY <1>1, <1>4, <2>1, <2>3, <2>4 DEF Prepares, e, Link
<1> QED
  BY <1>2, <1>3, <1>4 DEF Prepares

\* An operation of applyRotation.
LEMMA ApplyStep ==
    ASSUME NEW d, Good(d), NEW s, Applies(d, s), s # <<>>
    PROVE  /\ Marker \in DOMAIN d /\ New \in DOMAIN d /\ Proof \in DOMAIN d
           /\ Head(s).do # "new"
           /\ Head(s).do = "remove" => Applies(d, Tail(s))
           /\ Applicable(d, Head(s)) =>
                 /\ Good(Effect(d, Head(s))) /\ Applies(Effect(d, Head(s)), Tail(s))
                 /\ Tail(s) = <<>> => Head(s) = Publish
<1> DEFINE e == Effect(d, Head(s))
<1>1. Marker \in DOMAIN d /\ New \in DOMAIN d /\ Proof \in DOMAIN d /\ Ends(s, ShiftOps, <<Publish>>)
  BY DEF Applies
<1>2. CASE s = <<Publish>>
  <2>1. Head(s) = Publish /\ Tail(s) = <<>> /\ Publish.do = "rename" /\ Publish.from = New /\ Publish.to = Log(0)
    BY <1>2 DEF Publish, Rename
  <2>2. Good(e)
    <3>1. e = d \/ e = Put(Drop(d, New), Log(0), d[New])
      BY <2>1 DEF Effect
    <3> HIDE DEF e
    <3>2. CASE e = Put(Drop(d, New), Log(0), d[New])
      <4> DEFINE c == Drop(d, New)
      <4>1. DOMAIN c = DOMAIN d \ {New} /\ \A x \in DOMAIN c : c[x] = d[x]
        BY DEF Drop
      <4>2. e = Put(c, Log(0), d[New])
        BY <3>2
      <4> HIDE DEF c
      <4>3. DOMAIN e = DOMAIN c \cup {Log(0)} /\ e[Log(0)] = d[New] /\ \A x \in DOMAIN c : x # Log(0) => e[x] = c[x]
        BY <4>2 DEF Put
      <4>4. New # Log(0) /\ Proof # Log(0) /\ New # Proof /\ New # Marker /\ Log(0) \in Names
        BY NameFacts DEF Staged
      <4>5. New \notin DOMAIN e /\ Proof \in DOMAIN e /\ Marker \in DOMAIN e /\ e[Proof] = d[Proof]
        BY <1>1, <4>1, <4>3, <4>4
      <4>6. DOMAIN e \subseteq Names /\ d[Proof] = d[New]
        BY <1>1, <4>1, <4>3, <4>4 DEF Good
      <4> QED
        BY <4>3, <4>5, <4>6 DEF Good
    <3> QED
      BY <3>1, <3>2
  <2> QED
    BY <1>1, <2>1, <2>2 DEF Applies
<1>3. CASE Head(s) \in ShiftOps /\ Ends(Tail(s), ShiftOps, <<Publish>>)
  <2>1. Head(s).do # "new"
    BY <1>3, OpFacts
  <2>2. Tail(s) # <<>>
    <3>1. PICK y \in Seq(ShiftOps) : Tail(s) = y \o <<Publish>>
      BY <1>3 DEF Ends
    <3>2. y \in Seq(AllOps) /\ <<Publish>> \in Seq(AllOps)
      BY OpsAreOps, SeqMonotonic
    <3>3. Len(y \o <<Publish>>) # 0
      BY <3>2
    <3> QED
      BY <3>1, <3>3
  <2>3. Applicable(d, Head(s)) => Good(e) /\ \A n \in {New, Proof, Marker} : n \in DOMAIN e <=> n \in DOMAIN d
    BY <1>1, <1>3, BackupOp
  <2> HIDE DEF e
  <2>4. Applies(d, Tail(s)) /\ (Applicable(d, Head(s)) => Applies(e, Tail(s)))
    BY <1>1, <1>3, <2>3 DEF Applies
  <2> QED
    BY <1>1, <2>1, <2>2, <2>3, <2>4 DEF e
<1> QED
  BY <1>1, <1>2, <1>3, EndsStep, OpsAreOps

\* The next name that is removed, and what is still there then.
LEMMA RemoveShape ==
    ASSUME NEW d, NEW s, Removes(d, s), s # <<>>
    PROVE  \E m \in Staged :
              /\ Head(s) = Unlink(m)
              /\ Ends(Tail(s), SweepOps, SweepEnd) \/ Tail(s) \in {<<Unlink(New), Unlink(Marker)>>, <<Unlink(Marker)>>, <<>>}
              /\ \A n \in DOMAIN d \cap Staged : n # m => Unlink(n) \in Range(Tail(s))
              /\ m = New => Proof \notin DOMAIN d
              /\ m = Marker => DOMAIN d \cap Staged \subseteq {Marker}
<1>1. /\ New # Proof /\ New # Marker /\ Proof # Marker /\ New \in Staged /\ Proof \in Staged /\ Marker \in Staged
      /\ \A m, n : Unlink(m) = Unlink(n) => m = n
  BY NameFacts DEF Staged, Unlink
<1>2. s \in Seq(AllOps)
  <2>1. {<<Unlink(New), Unlink(Marker)>>, <<Unlink(Marker)>>, <<>>} \subseteq Seq(AllOps)
    BY DEF AllOps
  <2>2. Ends(s, SweepOps, SweepEnd) => s \in Seq(AllOps)
    BY EndsStep, OpsAreOps
  <2> QED
    BY <2>1, <2>2 DEF Removes
<1>3. \A x \in Range(s) : x = Head(s) \/ x \in Range(Tail(s))
  <2> SUFFICES ASSUME NEW k \in 1..Len(s), k # 1 PROVE s[k] \in Range(Tail(s))
    BY <1>2 DEF Range
  <2>1. k - 1 \in DOMAIN Tail(s) /\ Tail(s)[k - 1] = s[k]
    BY <1>2
  <2> QED
    BY <2>1 DEF Range
<1>4. \A n \in DOMAIN d \cap Staged : Unlink(n) = Head(s) \/ Unlink(n) \in Range(Tail(s))
  BY <1>3 DEF Removes
<1>5. CASE s = SweepEnd
  <2>1. Head(s) = Unlink(Proof) /\ Tail(s) = <<Unlink(New), Unlink(Marker)>>
    BY <1>5 DEF SweepEnd
  <2> QED
    BY <1>1, <1>4, <2>1
<1>6. CASE Head(s) \in SweepOps /\ Ends(Tail(s), SweepOps, SweepEnd)
  <2>1. PICK m \in Swept : Head(s) = Unlink(m)
    BY <1>6, OpFacts
  <2>2. m \in Staged /\ m # New /\ m # Marker
    BY NameFacts DEF Staged
  <2> QED
    BY <1>1, <1>4, <1>6, <2>1, <2>2
<1>7. CASE s = <<Unlink(New), Unlink(Marker)>>
  <2>1. Head(s) = Unlink(New) /\ Tail(s) = <<Unlink(Marker)>> /\ Range(s) = {Unlink(New), Unlink(Marker)}
    BY <1>7 DEF Range
  <2>2. Proof \notin DOMAIN d
    BY <1>1, <2>1 DEF Removes
  <2> QED
    BY <1>1, <1>4, <2>1, <2>2
<1>8. CASE s = <<Unlink(Marker)>>
  <2>1. Head(s) = Unlink(Marker) /\ Tail(s) = <<>> /\ Range(s) = {Unlink(Marker)}
    BY <1>8 DEF Range
  <2>2. DOMAIN d \cap Staged \subseteq {Marker}
    BY <1>1, <2>1 DEF Removes
  <2> QED
    BY <1>1, <1>4, <2>1, <2>2
<1> QED
  BY <1>5, <1>6, <1>7, <1>8, EndsStep, OpsAreOps DEF Removes

\* An operation that takes back or removes what is staged.
LEMMA UndoStep ==
    ASSUME NEW d, Good(d), NEW s, Undoes(d, s), s # <<>>
    PROVE  /\ Head(s).do # "new"
           /\ Head(s).do = "remove" /\ Head(s).to \notin DOMAIN d => Undoes(d, Tail(s))
           /\ Applicable(d, Head(s)) => Good(Effect(d, Head(s))) /\ Undoes(Effect(d, Head(s)), Tail(s))
<1> DEFINE e == Effect(d, Head(s))
<1>1. CASE New \in DOMAIN d /\ Head(s) \in RestoreOps /\ Ends(Tail(s), RestoreOps, CleanupOps)
  <2>1. Marker \in DOMAIN d
    BY <1>1 DEF Good, Staged
  <2>2. Head(s).do # "new"
    BY <1>1, OpFacts
  <2> QED
    BY <1>1, <2>1, <2>2, BackupOp DEF Undoes
<1>2. CASE Removes(d, s)
  <2>1. PICK m \in Staged :
              /\ Head(s) = Unlink(m)
              /\ Ends(Tail(s), SweepOps, SweepEnd) \/ Tail(s) \in {<<Unlink(New), Unlink(Marker)>>, <<Unlink(Marker)>>, <<>>}
              /\ \A n \in DOMAIN d \cap Staged : n # m => Unlink(n) \in Range(Tail(s))
              /\ m = New => Proof \notin DOMAIN d
              /\ m = Marker => DOMAIN d \cap Staged \subseteq {Marker}
    BY <1>2, RemoveShape
  <2>2. Head(s).do = "remove" /\ Head(s).to = m
    BY <2>1, OpFacts
  <2>3. e = Drop(d, m)
    BY <2>2 DEF Effect
  <2> HIDE DEF e
  <2>4. DOMAIN e = DOMAIN d \ {m} /\ \A x \in DOMAIN e : e[x] = d[x]
    BY <2>3 DEF Drop
  <2>5. m # Log(0) /\ Marker \in Staged
    BY NameFacts DEF Staged
  <2>6. Good(e)
    BY <2>1, <2>4, <2>5 DEF Good
  <2>7. Removes(e, Tail(s)) /\ (m \notin DOMAIN d => Removes(d, Tail(s)))
    BY <2>1, <2>4 DEF Removes
  <2> QED
    BY <2>2, <2>6, <2>7 DEF Undoes, e
<1>3. New \in DOMAIN d /\ s = CleanupOps => Removes(d, s)
  BY CleanupIs DEF Removes
<1> QED
  BY <1>1, <1>2, <1>3, EndsStep, OpsAreOps, CleanupIs DEF Undoes

\* The lists that recovery goes through undo what there is.
LEMMA RecoverUndoes ==
    ASSUME NEW d, Good(d)
    PROVE  /\ RecoverOps(d) \in Seq(AllOps) /\ Undoes(d, RecoverOps(d)) /\ Undoes(d, CleanupOps)
           /\ New \in DOMAIN d => Undoes(d, RollbackOps(d))
           /\ ~Stuck(d)
<1>1. Undoes(d, CleanupOps)
  BY CleanupIs DEF Undoes, Removes
<1>2. New \in DOMAIN d => Undoes(d, RollbackOps(d))
  BY RollbackIs DEF Undoes
<1>3. Marker \notin DOMAIN d => Undoes(d, <<>>)
  BY DEF Undoes, Removes, Good
<1> QED
  BY <1>1, <1>2, <1>3, CleanupIs, RollbackIs DEF RecoverOps, Stuck, Good

\* Nothing is staged any more when nothing is left to undo.
LEMMA Undone ==
    ASSUME NEW d, Undoes(d, <<>>)
    PROVE  DOMAIN d \cap Staged = {}
<1>1. ~Ends(<<>>, RestoreOps, CleanupOps)
  <2>1. CleanupOps # <<>>
    BY CleanupIs DEF Staged, Range
  <2>2. ASSUME NEW y \in Seq(RestoreOps) PROVE y \o CleanupOps # <<>>
    <3>1. y \in Seq(AllOps) /\ CleanupOps \in Seq(AllOps)
      BY OpsAreOps, SeqMonotonic, CleanupIs
    <3>2. Len(y \o CleanupOps) # 0
      BY <2>1, <3>1
    <3> QED
      BY <3>2
  <2> QED
    BY <2>2 DEF Ends
<1>2. Range(<<>>) = {}
  BY DEF Range
<1> QED
  BY <1>1, <1>2 DEF Undoes, Removes

\* A rotation is prepared when its list is done.
LEMMA Prepared ==
    ASSUME NEW d, Prepares(d, <<>>)
    PROVE  Log(0) \in DOMAIN d /\ Marker \in DOMAIN d /\ New \in DOMAIN d /\ Proof \in DOMAIN d
<1>1. ~Ends(<<>>, StageOps, StageEnd)
  <2>1. ASSUME NEW y \in Seq(StageOps) PROVE y \o StageEnd # <<>>
    <3>1. y \in Seq(AllOps) /\ StageEnd \in Seq(AllOps) /\ Len(StageEnd) = 2
      BY OpsAreOps, SeqMonotonic DEF StageEnd
    <3>2. \A u, v \in Seq(AllOps) : Len(u) \in Nat /\ Len(u \o v) = Len(u) + Len(v)
      OBVIOUS
    <3>3. Len(y) \in Nat /\ Len(y \o StageEnd) = Len(y) + 2
      BY <3>1, <3>2
    <3> QED
      BY <3>3
  <2> QED
    BY <2>1 DEF Ends
<1> QED
  BY <1>1 DEF Prepares

-----------------------------------------------------------------------------
(* The steps of the logger keep the directories good. *)

\* An operation that has ended leaves nothing to do.
LEMMA Ended ==
    ASSUME pc' \in {"down", "idle"}
    PROVE  PhaseInv'
BY DEF PhaseInv

\* An error is followed by the removal of what is staged, or by the end.
LEMMA Retreats ==
    ASSUME NEW committed \in BOOLEAN, Failed(committed), Good(dir'),
           phase = "apply" /\ ~committed => New \in DOMAIN dir'
    PROVE  PhaseInv'
<1>1. CASE phase = "prepare" /\ ~Stuck(dir')
  <2>1. pc' = "ops" /\ phase' = "abort" /\ todo' = RecoverOps(dir')
    BY <1>1 DEF Failed, Goto
  <2>2. RecoverOps(dir') \in Seq(AllOps) /\ Undoes(dir', RecoverOps(dir'))
    BY RecoverUndoes
  <2> QED
    BY <2>1, <2>2 DEF PhaseInv, Rest, Undoing
<1>2. CASE phase = "apply" /\ ~committed
  <2>1. pc' = "ops" /\ phase' = "abort" /\ todo' = RollbackOps(dir')
    BY <1>2 DEF Failed, Goto
  <2>2. RollbackOps(dir') \in Seq(AllOps) /\ Undoes(dir', RollbackOps(dir'))
    BY <1>2, RecoverUndoes, RollbackIs
  <2> QED
    BY <2>1, <2>2 DEF PhaseInv, Rest, Undoing
<1>3. CASE ~(phase = "prepare" /\ ~Stuck(dir')) /\ ~(phase = "apply" /\ ~committed)
  <2>1. pc' \in {"down", "idle"}
    BY <1>3 DEF Failed, ReplyError, Goto
  <2> QED
    BY <2>1, Ended
<1> QED
  BY <1>1, <1>2, <1>3

\* Recovery begins.
LEMMA Recovers ==
    ASSUME Good(dir'), Goto("ops", "recover", RecoverOps(dir'))
    PROVE  PhaseInv'
<1>1. pc' = "ops" /\ phase' = "recover" /\ todo' = RecoverOps(dir')
  BY DEF Goto
<1>2. RecoverOps(dir') \in Seq(AllOps) /\ Undoes(dir', RecoverOps(dir'))
  BY RecoverUndoes
<1> QED
  BY <1>1, <1>2 DEF PhaseInv, Rest, Undoing

\* What is known of an operation on the directory.
LEMMA OpKnown ==
    ASSUME DirInv, PhaseInv, pc = "ops", todo # <<>>
    PROVE  /\ todo \in Seq(AllOps) /\ Good(dir) /\ Rest = todo
           /\ phase \in Undoing \cup {"prepare", "apply"}
           /\ phase = "prepare" => Prepares(dir, todo)
           /\ phase = "apply" => Applies(dir, todo)
           /\ phase \in Undoing => Undoes(dir, todo)
BY DEF DirInv, PhaseInv, Rest

\* A name that is not there is not removed.
LEMMA SkipOpDirs ==
    ASSUME DirInv, PhaseInv, SkipOp
    PROVE  DirInv' /\ PhaseInv'
<1>1. /\ pc = "ops" /\ todo # <<>> /\ Head(todo).do = "remove" /\ Head(todo).to \notin DOMAIN dir
      /\ todo' = Tail(todo) /\ pc' = "ops" /\ phase' = phase /\ dir' = dir /\ unsynced' = unsynced
  BY DEF SkipOp, disk
<1>2. todo' \in Seq(AllOps) /\ Rest' = todo'
  BY <1>1, OpKnown DEF Rest
<1>3. /\ phase \in Undoing \cup {"apply"}
      /\ phase = "apply" => Applies(dir, Tail(todo))
      /\ phase \in Undoing => Undoes(dir, Tail(todo))
  BY <1>1, OpKnown, PrepareStep, ApplyStep, UndoStep
<1>4. phase' \notin {"begin", "created", "settle", "prepare"}
  BY <1>1, <1>3 DEF Undoing
<1> QED
  BY <1>1, <1>2, <1>3, <1>4 DEF DirInv, PhaseInv

\* The operation is done and waits for its sync.
LEMMA DoOpDirs ==
    ASSUME DirInv, PhaseInv, DoOp
    PROVE  DirInv' /\ PhaseInv'
<1>1. /\ pc = "ops" /\ todo # <<>> /\ Applicable(dir, Head(todo)) /\ dir' = Effect(dir, Head(todo))
      /\ unsynced' = unsynced \cup {dir'} /\ pc' = "sync" /\ phase' = phase /\ todo' = todo
  BY DEF DoOp
<1>2. todo \in Seq(AllOps) /\ Rest' = Tail(todo) /\ phase \in Undoing \cup {"prepare", "apply"}
  BY <1>1, OpKnown DEF Rest
<1>3. CASE phase = "prepare"
  <2>1. Good(dir') /\ Prepares(dir', Tail(todo))
    BY <1>1, <1>3, OpKnown, PrepareStep
  <2> QED
    BY <1>1, <1>2, <1>3, <2>1 DEF DirInv, PhaseInv, Undoing
<1>4. CASE phase = "apply"
  <2>1. Good(dir') /\ Applies(dir', Tail(todo)) /\ (Tail(todo) = <<>> => Head(todo) = Publish)
    BY <1>1, <1>4, OpKnown, ApplyStep
  <2> QED
    BY <1>1, <1>2, <1>4, <2>1 DEF DirInv, PhaseInv, Undoing
<1>5. CASE phase \in Undoing
  <2>1. Good(dir') /\ Undoes(dir', Tail(todo))
    BY <1>1, <1>5, OpKnown, UndoStep
  <2> QED
    BY <1>1, <1>2, <1>5, <2>1 DEF DirInv, PhaseInv, Undoing
<1> QED
  BY <1>2, <1>3, <1>4, <1>5

\* The operation fails and changes nothing, or leaves an incomplete new file.
LEMMA OpFailsDirs ==
    ASSUME DirInv, PhaseInv, OpFails \/ NewFails
    PROVE  DirInv' /\ PhaseInv'
<1>1. pc = "ops" /\ todo # <<>> /\ Failed(FALSE)
  BY DEF OpFails, NewFails
<1>2. phase = "apply" => New \in DOMAIN dir
  BY <1>1, OpKnown, ApplyStep
<1>3. CASE OpFails
  <2>1. dir' = dir /\ unsynced' = unsynced
    BY <1>3 DEF OpFails, disk
  <2> QED
    BY <1>1, <1>2, <2>1, Retreats DEF DirInv
<1>4. CASE NewFails
  <2>1. /\ Head(todo).do = "new" /\ Applicable(dir, Head(todo)) /\ dir' = Effect(dir, Head(todo))
        /\ unsynced' = unsynced \cup {dir'}
    BY <1>4 DEF NewFails
  <2>2. phase = "prepare"
    BY <1>1, <2>1, OpKnown, ApplyStep, UndoStep
  <2>3. Good(dir')
    BY <1>1, <2>1, <2>2, OpKnown, PrepareStep
  <2> QED
    BY <1>1, <2>1, <2>2, <2>3, Retreats DEF DirInv
<1> QED
  BY <1>3, <1>4

\* The directory is synced.
LEMMA SyncDirs ==
    ASSUME DirInv, PhaseInv, Sync
    PROVE  DirInv' /\ PhaseInv'
<1>1. pc = "sync" /\ unsynced' = {dir} /\ dir' = dir /\ Good(dir)
  BY DEF Sync, DirInv
<1>2. DirInv'
  BY <1>1 DEF DirInv
<1>3. CASE phase = "begin"
  <2>1. Goto("ops", "recover", RecoverOps(dir'))
    BY <1>1, <1>3, RecoverUndoes DEF Sync
  <2> QED
    BY <1>1, <1>2, <2>1, Recovers
<1>4. CASE phase # "begin"
  <2>1. pc' = "ops" /\ phase' = phase /\ todo' = IF todo = <<>> THEN <<>> ELSE Tail(todo)
    BY <1>4 DEF Sync, Goto
  <2>2. todo \in Seq(AllOps) /\ todo' \in Seq(AllOps)
    BY <1>1, <2>1 DEF PhaseInv
  <2>3. Rest' = Rest
    BY <1>1, <2>1 DEF Rest
  <2>4. CASE phase \in {"created", "settle"}
    BY <1>1, <1>2, <2>1, <2>2, <2>4 DEF PhaseInv, Undoing
  <2>5. CASE phase \notin {"created", "settle"}
    <3>1. Rest = Tail(todo)
      BY <1>1, <1>4, <2>5 DEF PhaseInv, Rest
    <3> QED
      BY <1>1, <1>2, <1>4, <2>1, <2>2, <2>3, <2>5, <3>1 DEF PhaseInv, Undoing
  <2> QED
    BY <2>4, <2>5
<1> QED
  BY <1>3, <1>4

\* The sync fails: the commit, if that was it, may or may not be on disk.
LEMMA SyncFailsDirs ==
    ASSUME DirInv, PhaseInv, SyncFails
    PROVE  DirInv' /\ PhaseInv'
<1> DEFINE committed == todo # <<>> /\ Head(todo) = Publish
<1>1. pc = "sync" /\ dir' = dir /\ unsynced' = unsynced /\ Failed(committed) /\ Good(dir) /\ committed \in BOOLEAN
  BY DEF SyncFails, DirInv
<1>2. phase = "apply" /\ ~committed => New \in DOMAIN dir
  <2> SUFFICES ASSUME phase = "apply", ~committed PROVE New \in DOMAIN dir
    OBVIOUS
  <2>1. todo # <<>> /\ Applies(dir, Rest) /\ Rest # <<>>
    BY <1>1 DEF PhaseInv, Undoing
  <2> QED
    BY <1>1, <2>1, ApplyStep
<1> HIDE DEF committed
<1> QED
  BY <1>1, <1>2, Retreats DEF DirInv

\* The list of a phase is done.
LEMMA PhaseDoneDirs ==
    ASSUME DirInv, PhaseInv, PhaseDone
    PROVE  DirInv' /\ PhaseInv'
<1>1. /\ pc = "ops" /\ todo = <<>> /\ dir' = dir /\ unsynced' = unsynced /\ Good(dir) /\ Rest = <<>>
      /\ phase \in {"recover", "abort", "cleanup", "created", "settle", "prepare", "apply"}
  BY DEF PhaseDone, disk, DirInv, PhaseInv, Rest, Undoing
<1>2. DirInv'
  BY <1>1 DEF DirInv
<1>3. CASE phase = "recover"
  <2>1. pc' = "open"
    BY <1>3 DEF PhaseDone, Goto
  <2>2. DOMAIN dir \cap Staged = {}
    BY <1>1, <1>3, Undone DEF PhaseInv, Undoing
  <2> QED
    BY <1>1, <1>2, <2>1, <2>2 DEF PhaseInv
<1>4. CASE phase = "created"
  <2>1. pc' = "write"
    BY <1>4 DEF PhaseDone, Goto
  <2> QED
    BY <1>1, <1>2, <1>4, <2>1 DEF PhaseInv
<1>5. CASE phase = "prepare"
  <2>1. pc' = "ops" /\ phase' = "apply" /\ todo' = ApplyOps(dir)
    BY <1>5 DEF PhaseDone, Goto
  <2>2. Log(0) \in DOMAIN dir /\ Marker \in DOMAIN dir /\ New \in DOMAIN dir /\ Proof \in DOMAIN dir
    BY <1>1, <1>5, Prepared DEF PhaseInv
  <2>3. todo' \in Seq(AllOps) /\ Applies(dir', todo') /\ Rest' = todo'
    BY <1>1, <2>1, <2>2, ApplyIs DEF Applies, Rest
  <2> QED
    BY <1>2, <2>1, <2>3 DEF PhaseInv, Undoing
<1>6. CASE phase = "apply"
  <2>1. pc' = "ops" /\ phase' = "cleanup" /\ todo' = CleanupOps
    BY <1>6 DEF PhaseDone, Goto
  <2>2. todo' \in Seq(AllOps) /\ Undoes(dir', todo') /\ Rest' = todo'
    BY <1>1, <2>1, CleanupIs, RecoverUndoes DEF Rest
  <2> QED
    BY <1>2, <2>1, <2>2 DEF PhaseInv, Undoing
<1>7. CASE phase \in {"settle", "cleanup", "abort"}
  <2>1. pc' \in {"down", "idle"}
    BY <1>7 DEF PhaseDone, ReplyOK, ReplyError, Goto
  <2> QED
    BY <1>2, <2>1, Ended
<1> QED
  BY <1>1, <1>3, <1>4, <1>5, <1>6, <1>7

\* initializeLocked and Write begin: the directory is synced or recovered.
LEMMA BeginDirs ==
    ASSUME DirInv, PhaseInv, Start \/ Write
    PROVE  DirInv' /\ PhaseInv'
<1>1. PICK e : Begin(e)
  BY DEF Start, Write
<1>2. dir' = dir /\ unsynced' = unsynced /\ Good(dir)
  BY <1>1 DEF Begin, disk, DirInv
<1>3. DirInv'
  BY <1>2 DEF DirInv
<1>4. CASE Goto("idle", "none", <<>>)
  <2>1. pc' = "idle"
    BY <1>4 DEF Goto
  <2> QED
    BY <1>3, <2>1, Ended
<1>5. CASE Goto("ops", "recover", RecoverOps(dir))
  BY <1>2, <1>3, <1>5, Recovers
<1>6. CASE Goto("sync", "begin", <<>>)
  <2>1. pc' = "sync" /\ phase' = "begin" /\ todo' = <<>>
    BY <1>6 DEF Goto
  <2> QED
    BY <1>3, <2>1 DEF PhaseInv, Undoing
<1> QED
  BY <1>1, <1>4, <1>5, <1>6 DEF Begin

\* audit.jsonl is opened, and created if it is missing.
LEMMA OpenDirs ==
    ASSUME DirInv, PhaseInv, Open
    PROVE  DirInv' /\ PhaseInv'
<1>1. pc = "open" /\ DOMAIN dir \cap Staged = {} /\ Good(dir)
  BY DEF Open, PhaseInv, DirInv
<1>2. CASE Log(0) \in DOMAIN dir
  <2>1. /\ dir' = dir /\ unsynced' = unsynced
        /\ \/ pc' = "sync" /\ phase' = "settle" /\ todo' = <<>>
           \/ pc' = "write"
    BY <1>2 DEF Open, Goto
  <2>2. CASE pc' = "write"
    BY <1>1, <1>2, <2>1, <2>2 DEF DirInv, PhaseInv
  <2>3. CASE pc' = "sync" /\ phase' = "settle" /\ todo' = <<>>
    <3>1. todo' \in Seq(AllOps)
      BY <2>3
    <3> QED
      BY <1>1, <2>1, <2>3, <3>1 DEF DirInv, PhaseInv, Undoing
  <2> QED
    BY <2>1, <2>2, <2>3
<1>3. CASE Log(0) \notin DOMAIN dir
  <2>1. /\ dir' = Put(dir, Log(0), Fresh) /\ unsynced' = unsynced \cup {dir'}
        /\ pc' = "sync" /\ phase' \in {"settle", "created"} /\ todo' = <<>>
    BY <1>3 DEF Open, Goto
  <2>2. DOMAIN dir' = DOMAIN dir \cup {Log(0)}
    BY <2>1 DEF Put
  <2>3. Log(0) \in Names /\ Log(0) \notin Staged /\ Proof \in Staged
    BY NameFacts DEF Staged
  <2>4. DOMAIN dir' \cap Staged = {} /\ Proof \notin DOMAIN dir' /\ DOMAIN dir' \subseteq Names
    BY <1>1, <2>2, <2>3 DEF Good
  <2>5. Good(dir')
    BY <2>4 DEF Good
  <2> QED
    BY <2>1, <2>2, <2>4, <2>5 DEF DirInv, PhaseInv, Undoing
<1> QED
  BY <1>2, <1>3

\* The event goes to a new file.
LEMMA RotateDirs ==
    ASSUME DirInv, PhaseInv, WriteRotates
    PROVE  DirInv' /\ PhaseInv'
<1>1. /\ pc = "write" /\ pc' = "ops" /\ phase' = "prepare" /\ todo' = PrepareOps(dir)
      /\ dir' = dir /\ unsynced' = unsynced
  BY DEF WriteRotates, Goto, disk
<1>2. Log(0) \in DOMAIN dir /\ DOMAIN dir \cap Staged = {}
  BY <1>1 DEF PhaseInv
<1>3. todo' \in Seq(AllOps) /\ Prepares(dir', todo') /\ Rest' = todo'
  BY <1>1, <1>2, PrepareIs DEF Prepares, Rest
<1> QED
  BY <1>1, <1>3 DEF DirInv, PhaseInv, Undoing

\* What does not touch the directory and ends the operation, and a power loss, which
\* leaves one of the directories since the last sync.
LEMMA EndDirs ==
    ASSUME DirInv, PhaseInv, OpenFails \/ WriteAppends \/ AppendFails \/ Crash \/ PowerLoss
    PROVE  DirInv' /\ PhaseInv'
<1>1. pc' \in {"down", "idle"}
  BY DEF OpenFails, WriteAppends, AppendFails, Crash, PowerLoss, ReplyError, ReplyOK, Goto
<1>2. CASE OpenFails \/ WriteAppends \/ AppendFails \/ Crash
  <2>1. dir' = dir /\ unsynced' = unsynced
    BY <1>2 DEF OpenFails, WriteAppends, AppendFails, Crash
  <2> QED
    BY <1>1, <2>1, Ended DEF DirInv
<1>3. CASE PowerLoss
  <2>1. dir' \in unsynced /\ unsynced' = {dir'}
    BY <1>3 DEF PowerLoss
  <2> QED
    BY <1>1, <2>1, Ended DEF DirInv
<1> QED
  BY <1>2, <1>3

\* Every step keeps the directories good.
LEMMA NextDirs ==
    ASSUME DirInv, PhaseInv, [Next]_vars
    PROVE  DirInv' /\ PhaseInv'
<1>1. CASE Next
  BY <1>1, BeginDirs, SkipOpDirs, DoOpDirs, OpFailsDirs, SyncDirs, SyncFailsDirs, PhaseDoneDirs, OpenDirs, RotateDirs,
     EndDirs DEF Next
<1>2. CASE UNCHANGED vars
  BY <1>2 DEF vars, DirInv, PhaseInv, Rest
<1> QED
  BY <1>1, <1>2

\* An earlier daemon has left files and nothing that is staged.
LEMMA InitDirs ==
    ASSUME Init
    PROVE  DirInv /\ PhaseInv
<1>1. PICK n \in 0..Backups : dir = [ name \in { Log(i) : i \in 0..(n - 1) } |-> name[2] + 1 ]
  BY DEF Init
<1>2. unsynced = {dir} /\ pc = "down"
  BY DEF Init
<1>3. DOMAIN dir \subseteq Logs
  <2>1. \A i \in 0..(n - 1) : i \in 0..Backups
    BY AuditAssumption
  <2> QED
    BY <1>1, <2>1 DEF Logs
<1>4. DOMAIN dir \subseteq Names /\ DOMAIN dir \cap Staged = {} /\ Proof \in Staged
  BY <1>3, NameFacts DEF Staged
<1>5. Good(dir)
  BY <1>4 DEF Good
<1> QED
  BY <1>2, <1>5 DEF DirInv, PhaseInv

-----------------------------------------------------------------------------
(* The files. *)

\* What a file may contain after a write to one that does not end with a torn line.
LEMMA Appended ==
    ASSUME NEW lines \in Seq(Nat \cup {Torn}), Tidy(lines), ~IsTorn(lines), NEW e \in Nat,
           NEW rest \in {<<>>, <<Torn>>, <<e>>}
    PROVE  lines \o rest \in Seq(Nat \cup {Torn}) /\ Tidy(lines \o rest)
<1>1. \A k \in 1..Len(lines) : lines[k] # Torn
  BY DEF Tidy, IsTorn, Last
<1>2. CASE rest = <<>>
  <2>1. lines \o rest = lines
    BY <1>2
  <2> QED
    BY <2>1
<1>3. CASE rest \in {<<Torn>>, <<e>>}
  <2>1. rest \in Seq(Nat \cup {Torn}) /\ Len(rest) = 1
    <3>1. PICK x \in Nat \cup {Torn} : rest = <<x>>
      BY <1>3
    <3> QED
      BY <3>1
  <2> DEFINE w == lines \o rest
  <2>2. w \in Seq(Nat \cup {Torn}) /\ Len(w) = Len(lines) + 1 /\ \A k \in 1..Len(lines) : w[k] = lines[k]
    BY <2>1, ConcatProperties
  <2> HIDE DEF w
  <2>3. \A k \in 1..Len(w) : k # Len(w) => k \in 1..Len(lines)
    BY <2>2
  <2>4. Tidy(w)
    BY <1>1, <2>2, <2>3 DEF Tidy
  <2> QED
    BY <2>2, <2>4 DEF w
<1> QED
  BY <1>2, <1>3

\* repairTrailingPartialLine removes the torn line.
LEMMA FrontIsTidy ==
    ASSUME NEW lines \in Seq(Nat \cup {Torn}), Tidy(lines), IsTorn(lines)
    PROVE  /\ Front(lines) \in Seq(Nat \cup {Torn}) /\ Tidy(Front(lines)) /\ ~IsTorn(Front(lines))
           /\ Len(lines) - 1 \in Nat
<1> DEFINE w == Front(lines)
<1>1. Len(lines) - 1 \in Nat /\ Len(lines) \in Nat
  BY DEF IsTorn
<1>2. w \in Seq(Nat \cup {Torn}) /\ Len(w) = Len(lines) - 1 /\ \A k \in 1..Len(w) : w[k] = lines[k]
  <2>1. \A n \in Nat : n <= Len(lines) =>
           /\ SubSeq(lines, 1, n) \in Seq(Nat \cup {Torn}) /\ Len(SubSeq(lines, 1, n)) = n
           /\ \A k \in 1..n : SubSeq(lines, 1, n)[k] = lines[k]
    BY <1>1
  <2>2. Len(lines) - 1 <= Len(lines) /\ w = SubSeq(lines, 1, Len(lines) - 1)
    BY <1>1 DEF Front
  <2> HIDE DEF w
  <2> QED
    BY <1>1, <2>1, <2>2
<1> HIDE DEF w
<1>3. \A k \in 1..Len(w) : k \in 1..Len(lines) /\ k # Len(lines)
  BY <1>1, <1>2
<1>4. \A k \in 1..Len(w) : w[k] # Torn
  BY <1>2, <1>3 DEF Tidy
<1>5. w # <<>> => Len(w) \in 1..Len(w)
  BY <1>2
<1> QED
  BY <1>1, <1>2, <1>4, <1>5 DEF Tidy, IsTorn, Last, w

\* What a power loss leaves of a file is one, too.
LEMMA RemainsAreFiles ==
    ASSUME NEW file \in Files, Tidy(file.lines), NEW rest \in Remains(file)
    PROVE  rest \in Files /\ Tidy(rest.lines)
<1> DEFINE lines == file.lines
           kept(n) == SubSeq(lines, 1, n)
           whole   == IF IsTorn(lines) THEN Len(lines) - 1 ELSE Len(lines)
<1>1. lines \in Seq(Nat \cup {Torn}) /\ file.synced \in Nat /\ Len(lines) \in Nat
  BY DEF Files
<1>2. ASSUME NEW n \in Nat, n <= Len(lines)
      PROVE  kept(n) \in Seq(Nat \cup {Torn}) /\ Len(kept(n)) = n /\ \A k \in 1..n : kept(n)[k] = lines[k]
  <2> HIDE DEF lines
  <2> QED
    BY <1>1, <1>2
<1>3. CASE \E n \in file.synced..whole : rest = [ lines |-> kept(n), synced |-> n ]
  <2>1. PICK n \in file.synced..whole : rest = [ lines |-> kept(n), synced |-> n ]
    BY <1>3
  <2>2. n \in Nat /\ n <= Len(lines)
    BY <1>1, <2>1
  <2>3. kept(n) \in Seq(Nat \cup {Torn}) /\ Len(kept(n)) = n /\ \A k \in 1..n : kept(n)[k] = lines[k]
    BY <1>2, <2>2
  <2>4. Tidy(kept(n))
    <3>1. \A k \in 1..n : k \in 1..Len(lines) /\ (k = Len(lines) => k = n)
      BY <1>1, <2>2
    <3> HIDE DEF kept
    <3> QED
      BY <2>3, <3>1 DEF Tidy
  <2> HIDE DEF kept
  <2> QED
    BY <2>1, <2>2, <2>3, <2>4 DEF Files
<1>4. CASE \E n \in file.synced..(Len(lines) - 1) : rest = [ lines |-> Append(kept(n), Torn), synced |-> n ]
  <2>1. PICK n \in file.synced..(Len(lines) - 1) : rest = [ lines |-> Append(kept(n), Torn), synced |-> n ]
    BY <1>4
  <2>2. n \in Nat /\ n <= Len(lines) /\ n < Len(lines)
    BY <1>1, <2>1
  <2>3. kept(n) \in Seq(Nat \cup {Torn}) /\ Len(kept(n)) = n /\ \A k \in 1..n : kept(n)[k] = lines[k]
    BY <1>2, <2>2
  <2>4. \A k \in 1..n : lines[k] # Torn
    <3>1. \A k \in 1..n : k \in 1..Len(lines) /\ k # Len(lines)
      BY <1>1, <2>2
    <3> QED
      BY <3>1 DEF Tidy
  <2> DEFINE w == Append(kept(n), Torn)
  <2>5. w \in Seq(Nat \cup {Torn}) /\ Len(w) = n + 1 /\ \A k \in 1..n : w[k] = lines[k]
    <3> HIDE DEF kept
    <3> QED
      BY <2>2, <2>3
  <2>6. rest = [ lines |-> w, synced |-> n ]
    BY <2>1
  <2> HIDE DEF w
  <2>7. \A k \in 1..Len(w) : k # Len(w) => k \in 1..n
    BY <2>2, <2>5
  <2> QED
    BY <2>2, <2>4, <2>5, <2>6, <2>7 DEF Files, Tidy
<1> QED
  BY <1>3, <1>4 DEF Remains

\* One file is written to.
LEMMA Rewritten ==
    ASSUME FilesOK, NEW x, NEW file, x \in Inodes => file \in Files /\ Tidy(file.lines),
           data' = [data EXCEPT ![x] = file]
    PROVE  FilesOK'
<1>1. data \in [Inodes -> Files]
  BY DEF FilesOK
<1>2. \A i \in Inodes : data'[i] = IF i = x THEN file ELSE data[i]
  BY <1>1
<1>3. data' \in [Inodes -> Files]
  BY <1>1, <1>2
<1>4. \A i \in Inodes : Tidy(data'[i].lines)
  BY <1>2 DEF FilesOK
<1> QED
  BY <1>3, <1>4 DEF FilesOK

\* What is not in a directory is freed.
LEMMA FreedFiles ==
    ASSUME NEW d, NEW f \in [Inodes -> Files], \A i \in Inodes : Tidy(f[i].lines), data' = Freed(d, f)
    PROVE  /\ FilesOK'
           /\ \A n \in DOMAIN d : d[n] \in Inodes => data'[d[n]] = f[d[n]]
<1>1. Empty \in Files /\ Tidy(Empty.lines)
  <2>1. <<>> \in Seq(Nat \cup {Torn}) /\ Tidy(<<>>)
    BY DEF Tidy
  <2> QED
    BY <2>1 DEF Empty, Files
<1>2. data' = [ i \in Inodes |-> IF \E n \in DOMAIN d : d[n] = i THEN f[i] ELSE Empty ]
  BY DEF Freed
<1>3. \A i \in Inodes : data'[i] \in {f[i], Empty}
  BY <1>2
<1>4. data' \in [Inodes -> Files]
  BY <1>1, <1>2
<1>5. \A i \in Inodes : Tidy(data'[i].lines)
  BY <1>1, <1>3
<1> QED
  BY <1>2, <1>4, <1>5 DEF FilesOK

\* A file that a rotation creates, whole or in part.
LEMMA StagedFile ==
    ASSUME NEW e \in Nat, NEW lines \in {<<>>, <<Torn>>, <<e>>}, NEW n \in Nat
    PROVE  /\ [ lines |-> lines, synced |-> n ] \in Files
           /\ Tidy([ lines |-> lines, synced |-> n ].lines)
<1>1. <<>> \in Seq(Nat \cup {Torn}) /\ Tidy(<<>>) /\ ~IsTorn(<<>>) /\ <<>> \o lines = lines
  BY DEF Tidy, IsTorn
<1>2. lines \in Seq(Nat \cup {Torn}) /\ Tidy(lines)
  BY <1>1, Appended
<1> QED
  BY <1>2 DEF Files

\* Every step of an operation keeps the numbers in their ranges.
LEMMA NextNumbers ==
    ASSUME FileInv, Next
    PROVE  event' \in Nat /\ written' \in Nat
<1>1. CASE Start \/ Write
  BY <1>1 DEF FileInv, Start, Write, Begin, Starting
<1>2. CASE SkipOp \/ DoOp \/ OpFails \/ NewFails \/ Sync \/ SyncFails \/ PhaseDone
  <2>1. event' = event /\ written' = written
    BY <1>2 DEF SkipOp, DoOp, OpFails, NewFails, Sync, SyncFails, PhaseDone, Failed
  <2> QED
    BY <2>1 DEF FileInv
<1>3. CASE Open \/ OpenFails \/ WriteRotates \/ WriteAppends \/ AppendFails
  <2>1. event' = event /\ written' = written
    BY <1>3 DEF Open, OpenFails, WriteRotates, WriteAppends, AppendFails
  <2> QED
    BY <2>1 DEF FileInv
<1>4. CASE Crash \/ PowerLoss
  BY <1>4 DEF FileInv, Crash, PowerLoss, Starting
<1> QED
  BY <1>1, <1>2, <1>3, <1>4 DEF Next

\* Every step keeps the torn lines at the ends of their files.
LEMMA NextFiles ==
    ASSUME FileInv, Next
    PROVE  FilesOK'
<1>1. FilesOK /\ event \in Nat /\ data \in [Inodes -> Files]
  BY DEF FileInv, FilesOK
<1>2. CASE data' = data
  BY <1>1, <1>2 DEF FilesOK
<1>3. CASE DoOp /\ Head(todo).do = "new"
  <2> DEFINE n == IF event \in Durable THEN 1 ELSE 0
  <2>1. data' = [data EXCEPT ![Fresh] = [ lines |-> <<event>>, synced |-> n ]]
    BY <1>3 DEF DoOp
  <2>2. n \in Nat
    OBVIOUS
  <2> HIDE DEF n
  <2> QED
    BY <1>1, <2>1, <2>2, StagedFile, Rewritten
<1>4. CASE NewFails
  <2>1. PICK lines \in {<<>>, <<Torn>>, <<event>>} : data' = [data EXCEPT ![Fresh] = [ lines |-> lines, synced |-> 0 ]]
    BY <1>4 DEF NewFails
  <2> QED
    BY <1>1, <2>1, StagedFile, Rewritten
<1>5. CASE Sync
  <2>1. data' = Freed(dir, data)
    BY <1>5 DEF Sync
  <2> QED
    BY <1>1, <2>1, FreedFiles DEF FilesOK
<1>6. CASE Open
  <2>1. CASE data' = [data EXCEPT ![Fresh] = Empty]
    <3>1. Empty \in Files /\ Tidy(Empty.lines)
      BY <1>1, StagedFile DEF Empty
    <3> QED
      BY <1>1, <2>1, <3>1, Rewritten
  <2>2. CASE /\ IsTorn(Current.lines)
             /\ data' = [data EXCEPT ![dir[Log(0)]] =
                           [ lines |-> Front(Current.lines), synced |-> Len(Current.lines) - 1 ]]
    <3> DEFINE file == [ lines |-> Front(Current.lines), synced |-> Len(Current.lines) - 1 ]
    <3>1. ASSUME dir[Log(0)] \in Inodes PROVE file \in Files /\ Tidy(file.lines)
      <4>1. Current.lines \in Seq(Nat \cup {Torn}) /\ Tidy(Current.lines)
        BY <1>1, <3>1 DEF FilesOK, Files, Current
      <4> QED
        BY <2>2, <4>1, FrontIsTidy DEF Files
    <3> HIDE DEF file
    <3> QED
      BY <1>1, <2>2, <3>1, Rewritten DEF file
  <2> QED
    BY <1>2, <1>6, <2>1, <2>2 DEF Open
<1>7. CASE OpenFails
  <2>1. CASE IsTorn(Current.lines) /\ data' = [data EXCEPT ![dir[Log(0)]].lines = Front(@)]
    <3> DEFINE x == dir[Log(0)]
               file == [data[x] EXCEPT !.lines = Front(@)]
    <3>1. data' = [data EXCEPT ![x] = file]
      BY <2>1
    <3>2. ASSUME x \in Inodes PROVE file \in Files /\ Tidy(file.lines)
      <4>1. data[x] \in Files /\ Tidy(data[x].lines)
        BY <1>1, <3>2 DEF FilesOK
      <4>2. Front(data[x].lines) \in Seq(Nat \cup {Torn}) /\ Tidy(Front(data[x].lines))
        BY <2>1, <4>1, FrontIsTidy DEF Current, Files
      <4>3. file.lines = Front(data[x].lines)
        BY <4>1 DEF Files
      <4> QED
        BY <4>1, <4>2, <4>3 DEF Files
    <3> HIDE DEF file, x
    <3> QED
      BY <1>1, <3>1, <3>2, Rewritten
  <2> QED
    BY <1>2, <1>7, <2>1 DEF OpenFails
<1>8. CASE WriteAppends
  <2> DEFINE x == dir[Log(0)]
             lines == Append(data[x].lines, event)
             n == IF event \in Durable THEN Len(lines) ELSE data[x].synced
             file == [ lines |-> lines, synced |-> n ]
  <2>1. data' = [data EXCEPT ![x] = file] /\ Repaired
    BY <1>8 DEF WriteAppends, Current, FileInv, RepairInv
  <2>2. ASSUME x \in Inodes PROVE file \in Files /\ Tidy(file.lines)
    <3>1. data[x] \in Files /\ Tidy(data[x].lines) /\ ~IsTorn(data[x].lines)
      BY <1>1, <2>1, <2>2 DEF FilesOK, Repaired, Current
    <3>2. data[x].lines \in Seq(Nat \cup {Torn}) /\ data[x].synced \in Nat
      BY <3>1 DEF Files
    <3>3. lines = data[x].lines \o <<event>>
      <4>1. event \in Nat \cup {Torn}
        BY <1>1
      <4>2. \A l \in Seq(Nat \cup {Torn}) : Append(l, event) = l \o <<event>>
        BY <4>1, AppendIsConcat
      <4> HIDE DEF x
      <4> QED
        BY <3>2, <4>2
    <3>4. lines \in Seq(Nat \cup {Torn}) /\ Tidy(lines)
      BY <1>1, <3>1, <3>2, <3>3, Appended
    <3>5. n \in Nat
      BY <3>2, <3>4
    <3> HIDE DEF lines, n, x
    <3> QED
      BY <3>4, <3>5 DEF Files
  <2> HIDE DEF file, x
  <2> QED
    BY <1>1, <2>1, <2>2, Rewritten
<1>9. CASE AppendFails
  <2>1. PICK rest \in {<<>>, <<Torn>>, <<event>>} : data' = [data EXCEPT ![dir[Log(0)]].lines = @ \o rest]
    BY <1>9 DEF AppendFails
  <2> DEFINE x == dir[Log(0)]
             file == [data[x] EXCEPT !.lines = @ \o rest]
  <2>2. data' = [data EXCEPT ![x] = file] /\ Repaired
    BY <1>9, <2>1 DEF AppendFails, FileInv, RepairInv
  <2>3. ASSUME x \in Inodes PROVE file \in Files /\ Tidy(file.lines)
    <3>1. data[x] \in Files /\ Tidy(data[x].lines) /\ ~IsTorn(data[x].lines)
      BY <1>1, <2>2, <2>3 DEF FilesOK, Repaired, Current
    <3>2. data[x].lines \in Seq(Nat \cup {Torn})
      BY <3>1 DEF Files
    <3>3. data[x].lines \o rest \in Seq(Nat \cup {Torn}) /\ Tidy(data[x].lines \o rest)
      BY <1>1, <3>1, <3>2, Appended
    <3>4. file.lines = data[x].lines \o rest
      BY <3>1 DEF Files
    <3> QED
      BY <3>1, <3>3, <3>4 DEF Files
  <2> HIDE DEF file, x
  <2> QED
    BY <1>1, <2>2, <2>3, Rewritten
<1>10. CASE PowerLoss
  <2>1. PICK d \in unsynced, lost \in [Volatile -> UNION { Remains(data[i]) : i \in Volatile }] :
          /\ \A i \in Volatile : lost[i] \in Remains(data[i])
          /\ data' = Freed(d, [ i \in Inodes |-> IF i \in Volatile THEN lost[i] ELSE data[i] ])
    BY <1>10 DEF PowerLoss
  <2> DEFINE f == [ i \in Inodes |-> IF i \in Volatile THEN lost[i] ELSE data[i] ]
  <2>2. ASSUME NEW i \in Inodes PROVE f[i] \in Files /\ Tidy(f[i].lines)
    <3>1. data[i] \in Files /\ Tidy(data[i].lines)
      BY <1>1 DEF FilesOK
    <3> QED
      BY <2>1, <3>1, RemainsAreFiles
  <2>3. f \in [Inodes -> Files]
    BY <2>2
  <2>4. data' = Freed(d, f)
    BY <2>1
  <2> HIDE DEF f
  <2> QED
    BY <2>2, <2>3, <2>4, FreedFiles
<1> QED
  <2>1. CASE DoOp /\ Head(todo).do # "new"
    BY <1>2, <2>1 DEF DoOp
  <2>2. CASE Start \/ Write \/ SkipOp \/ OpFails \/ SyncFails \/ PhaseDone \/ WriteRotates \/ Crash
    BY <1>2, <2>2 DEF Start, Write, Begin, SkipOp, OpFails, SyncFails, PhaseDone, WriteRotates, Crash, disk
  <2> QED
    BY <1>3, <1>4, <1>5, <1>6, <1>7, <1>8, <1>9, <1>10, <2>1, <2>2 DEF Next

\* Every step keeps what is about to be written to repaired.
LEMMA NextRepair ==
    ASSUME PhaseInv, FileInv, Next
    PROVE  RepairInv'
<1>1. FilesOK /\ RepairInv /\ data \in [Inodes -> Files]
  BY DEF FileInv, FilesOK
<1>2. CASE pc' \notin {"write", "sync", "ops"} \/ (pc' \in {"sync", "ops"} /\ phase' # "created")
  BY <1>2 DEF RepairInv
<1>3. CASE Start \/ Write
  <2>1. pc' \in {"idle", "sync", "ops"} /\ phase' # "created"
    BY <1>3 DEF Start, Write, Begin, Goto
  <2> QED
    BY <1>2, <2>1
<1>4. CASE SkipOp \/ DoOp
  <2>1. pc = "ops" /\ todo # <<>> /\ phase' = phase /\ pc' \in {"sync", "ops"}
    BY <1>4 DEF SkipOp, DoOp
  <2> QED
    BY <1>1, <1>2, <2>1 DEF RepairInv
<1>5. CASE OpFails \/ NewFails \/ SyncFails
  <2>1. PICK committed : Failed(committed)
    BY <1>5 DEF OpFails, NewFails, SyncFails
  <2>2. pc' \in {"down", "idle", "ops"} /\ phase' # "created"
    BY <2>1 DEF Failed, ReplyError, Goto
  <2> QED
    BY <1>2, <2>2
<1>6. CASE Sync
  <2>1. CASE phase = "created"
    <3>1. pc = "sync" /\ todo = <<>> /\ Log(0) \in DOMAIN dir /\ Repaired
      BY <1>1, <1>6, <2>1 DEF Sync, RepairInv
    <3>2. pc' = "ops" /\ todo' = <<>> /\ dir' = dir /\ data' = Freed(dir, data)
      BY <1>6, <2>1, <3>1 DEF Sync, Goto
    <3>3. dir[Log(0)] \in Inodes => data'[dir[Log(0)]] = data[dir[Log(0)]]
      BY <1>1, <3>1, <3>2, FreedFiles DEF FilesOK
    <3>4. Repaired'
      BY <3>1, <3>2, <3>3 DEF Repaired, Current
    <3> QED
      BY <3>1, <3>2, <3>4 DEF RepairInv
  <2>2. CASE phase # "created"
    <3>1. pc' \in {"down", "idle", "ops"} /\ phase' # "created"
      BY <1>6, <2>2 DEF Sync, ReplyError, Goto
    <3> QED
      BY <1>2, <3>1
  <2> QED
    BY <2>1, <2>2
<1>7. CASE PhaseDone
  <2>1. CASE phase = "created"
    <3>1. pc = "ops" /\ pc' = "write" /\ dir' = dir /\ data' = data
      BY <1>7, <2>1 DEF PhaseDone, Goto, disk
    <3>2. Repaired
      BY <1>1, <2>1, <3>1 DEF RepairInv
    <3> QED
      BY <3>1, <3>2 DEF RepairInv, Repaired, Current
  <2>2. CASE phase \in {"recover", "prepare", "apply", "settle", "cleanup", "abort"}
    <3>1. pc' \in {"down", "idle", "open", "ops"} /\ phase' # "created"
      BY <1>7, <2>2 DEF PhaseDone, Goto, ReplyOK, ReplyError
    <3> QED
      BY <1>2, <3>1
  <2>3. phase \in {"created", "recover", "prepare", "apply", "settle", "cleanup", "abort"}
    BY <1>7 DEF PhaseDone, PhaseInv, Undoing
  <2> QED
    BY <2>1, <2>2, <2>3
<1>8. CASE Open
  <2>1. CASE Log(0) \in DOMAIN dir
    <3>1. pc' = "write" \/ (pc' = "sync" /\ phase' = "settle")
      BY <1>8, <2>1 DEF Open, Goto
    <3>2. Repaired'
      <4> DEFINE x == dir[Log(0)]
      <4>1. dir' = dir
        BY <1>8, <2>1 DEF Open
      <4>2. SUFFICES ASSUME x \in Inodes PROVE ~IsTorn(data'[x].lines)
        BY <4>1 DEF Repaired, Current
      <4>3. CASE ~IsTorn(data[x].lines)
        <5>1. data' = data
          BY <1>8, <2>1, <4>3 DEF Open, Current
        <5> QED
          BY <4>3, <5>1
      <4>4. CASE IsTorn(data[x].lines)
        <5>1. data' = [data EXCEPT ![x] = [ lines |-> Front(data[x].lines), synced |-> Len(data[x].lines) - 1 ]]
          BY <1>8, <2>1, <4>4 DEF Open, Current
        <5>2. data'[x].lines = Front(data[x].lines)
          BY <1>1, <4>2, <5>1
        <5>3. data[x].lines \in Seq(Nat \cup {Torn}) /\ Tidy(data[x].lines)
          BY <1>1, <4>2 DEF FilesOK, Files
        <5> QED
          BY <4>4, <5>2, <5>3, FrontIsTidy
      <4> QED
        BY <4>3, <4>4
    <3> QED
      BY <3>1, <3>2 DEF RepairInv
  <2>2. CASE Log(0) \notin DOMAIN dir
    <3>1. /\ dir' = Put(dir, Log(0), Fresh) /\ data' = [data EXCEPT ![Fresh] = Empty]
          /\ pc' = "sync" /\ todo' = <<>>
      BY <1>8, <2>2 DEF Open, Goto
    <3>2. Log(0) \in DOMAIN dir' /\ dir'[Log(0)] = Fresh
      BY <3>1 DEF Put
    <3>3. Fresh \in Inodes => data'[Fresh] = Empty
      BY <1>1, <3>1
    <3>4. Repaired'
      BY <3>2, <3>3 DEF Repaired, Current, IsTorn, Empty
    <3> QED
      BY <3>1, <3>2, <3>4 DEF RepairInv
  <2> QED
    BY <2>1, <2>2
<1>9. CASE WriteRotates
  <2>1. pc' = "ops" /\ phase' = "prepare"
    BY <1>9 DEF WriteRotates, Goto
  <2> QED
    BY <1>2, <2>1
<1>10. CASE OpenFails \/ WriteAppends \/ AppendFails \/ Crash \/ PowerLoss
  <2>1. pc' \in {"down", "idle"}
    BY <1>10 DEF OpenFails, WriteAppends, AppendFails, Crash, PowerLoss, ReplyError, ReplyOK, Goto
  <2> QED
    BY <1>2, <2>1
<1> QED
  BY <1>3, <1>4, <1>5, <1>6, <1>7, <1>8, <1>9, <1>10 DEF Next

\* The files of an earlier daemon are whole.
LEMMA InitFiles ==
    ASSUME Init
    PROVE  FileInv
<1>1. PICK n \in 0..Backups : data = [ i \in Inodes |-> IF i <= n THEN OldFile(i - 1) ELSE Empty ]
  BY DEF Init
<1>2. Old \in Nat
  BY AuditAssumption DEF Old
<1>3. ASSUME NEW i \in Inodes, i <= n PROVE OldFile(i - 1) \in Files /\ Tidy(OldFile(i - 1).lines)
  <2> DEFINE line(k) == Old - ((i - 1) + 1) * MaxLines + k
  <2>1. n \in Nat /\ i \in Nat /\ i <= Backups /\ Backups \in Nat /\ MaxLines \in Nat
    BY <1>3, AuditAssumption DEF Inodes
  <2>2. Backups - i \in Nat /\ (Backups - i) * MaxLines = Old - ((i - 1) + 1) * MaxLines
    BY <2>1 DEF Old
  <2>3. \A a, b \in Nat : a * b \in Nat
    OBVIOUS
  <2>4. Old - ((i - 1) + 1) * MaxLines \in Nat
    BY <2>1, <2>2, <2>3
  <2>5. \A k \in 1..MaxLines : line(k) \in Nat
    <3> DEFINE base == Old - ((i - 1) + 1) * MaxLines
    <3>1. base \in Nat
      BY <2>4
    <3> HIDE DEF base
    <3>2. \A k \in 1..MaxLines : base + k \in Nat
      BY <2>1, <3>1
    <3> QED
      BY <3>2 DEF base
  <2>6. OldFile(i - 1) = [ lines |-> [ k \in 1..MaxLines |-> line(k) ], synced |-> MaxLines ]
    BY DEF OldFile
  <2> HIDE DEF line
  <2> DEFINE ls == [ k \in 1..MaxLines |-> line(k) ]
  <2>7. ls \in Seq(Nat) /\ Len(ls) = MaxLines
    BY <2>1, <2>5
  <2>8. ls \in Seq(Nat \cup {Torn})
    BY <2>1, <2>5
  <2>9. Tidy(ls)
    BY <2>5, <2>7, AuditAssumption DEF Tidy
  <2>10. OldFile(i - 1) = [ lines |-> ls, synced |-> MaxLines ]
    BY <2>6
  <2> HIDE DEF ls
  <2> QED
    BY <2>1, <2>8, <2>9, <2>10 DEF Files
<1>4. Empty \in Files /\ Tidy(Empty.lines)
  BY StagedFile DEF Empty
<1>5. FilesOK
  <2>1. \A i \in Inodes : data[i] \in Files /\ Tidy(data[i].lines)
    BY <1>1, <1>3, <1>4
  <2>2. data \in [Inodes -> Files]
    BY <1>1, <2>1
  <2> QED
    BY <2>1, <2>2 DEF FilesOK
<1>6. pc = "down" /\ event \in Nat /\ written \in Nat
  BY <1>2 DEF Init, Starting
<1> QED
  BY <1>5, <1>6 DEF FileInv, RepairInv

-----------------------------------------------------------------------------
(* The theorems about recovery. *)

\* The inductive invariant holds of every reachable state.
THEOREM Invariance == Spec => []IInv
<1>1. Init => IInv
  BY InitDirs, InitFiles DEF IInv
<1>2. IInv /\ [Next]_vars => IInv'
  <2> SUFFICES ASSUME IInv, [Next]_vars PROVE IInv'
    OBVIOUS
  <2>1. DirInv' /\ PhaseInv'
    BY NextDirs DEF IInv
  <2>2. CASE Next
    BY <2>1, <2>2, NextNumbers, NextFiles, NextRepair DEF IInv, FileInv
  <2>3. CASE UNCHANGED vars
    <3>1. FileInv'
      BY <2>3 DEF vars, IInv, FileInv, FilesOK, RepairInv, Repaired, Current
    <3> QED
      BY <2>1, <3>1 DEF IInv
  <2> QED
    BY <2>2, <2>3
<1> QED
  BY <1>1, <1>2, PTL DEF Spec

\* Neither a failure at any call of a rotation, of its rollback or of its cleanup, nor a
\* crash or a power loss between any two of them leaves a directory that recoverRotation
\* refuses, however many backups there are.
THEOREM RecoveryIsPossible == Spec => []RecoveryPossible
<1>1. IInv => RecoveryPossible
  BY RecoverUndoes DEF IInv, DirInv, RecoveryPossible
<1> QED
  BY <1>1, Invariance, PTL

\* When recoverRotation has succeeded no link, no new file, no proof and no marker of an
\* interrupted rotation is left: openAuditFile and the write see the log files alone.
THEOREM NothingIsLeft == Spec => []NoLeftover
<1>1. IInv => NoLeftover
  <2> SUFFICES ASSUME IInv, pc \in {"open", "write"}, NEW n \in DOMAIN dir PROVE n[1] = "log"
    BY DEF NoLeftover
  <2>1. n \in Names /\ n \notin Staged
    BY DEF IInv, DirInv, PhaseInv, Good
  <2>2. n \in Logs
    BY <2>1, NameFacts
  <2> QED
    BY <2>2 DEF Logs, Log
<1> QED
  BY <1>1, Invariance, PTL

\* repairTrailingPartialLine runs before every write: no event is ever written behind an
\* incomplete line, whichever write failed and whatever a power loss cut off.
THEOREM NoRecordIsGlued == Spec => []NoGluedRecord
<1>1. IInv => NoGluedRecord
  BY DEF IInv, FileInv, FilesOK, Tidy, NoGluedRecord
<1> QED
  BY <1>1, Invariance, PTL

-----------------------------------------------------------------------------
(* The inductive invariant of the refinement: the directories. *)

Index == 0..Backups

\* An empty marker file is no inode; every other name has one.
Typed(d) == \A n \in DOMAIN d : IF n[1] \in {"missing", "marker"} THEN d[n] = Metadata ELSE d[n] \in Inodes

\* No two files are one, and a file is not both there and not there.
Distinct(d) ==
    /\ \A i, j \in Index : i # j /\ Slot(d, i) = Slot(d, j) => Slot(d, i) = Metadata
    /\ \A i \in Index : ~(Source(i) \in DOMAIN d /\ Missing(i) \in DOMAIN d)

SlotInv == dir \in unsynced /\ \A d \in unsynced : Typed(d) /\ Distinct(d)

\* What is synced: only a call that has failed, and the operation that is about to be
\* synced, leave another directory behind.
Working == {"prepare", "apply", "cleanup", "created", "settle"}
SyncInv ==
    /\ unsynced = {dir} \/ syncPending \/ Marker \in DOMAIN dir \/ pc \in {"down", "sync"}
    /\ syncPending => pc \in {"idle", "down"} \/ (pc \in {"sync", "ops"} /\ phase \in {"abort", "begin"})
    /\ pc = "ops" /\ phase \in Working => unsynced = {dir}
    /\ pc \in {"open", "write"} => unsynced = {dir}

\* While a rotation is prepared, what is staged is what is there.
Mirrors(d, s) ==
    \A i \in Index :
        /\ Work(i) \notin DOMAIN d
        /\ Source(i) \in DOMAIN d => Log(i) \in DOMAIN d /\ d[Source(i)] = d[Log(i)]
        /\ Missing(i) \in DOMAIN d \/ Create(Missing(i)) \in Range(s) => Log(i) \notin DOMAIN d
        /\ Log(i) \in DOMAIN d => Source(i) \in DOMAIN d \/ Link(Log(i), Source(i)) \in Range(s)
        /\ i # 0 /\ Log(i - 1) \in DOMAIN d /\ Log(i) \notin DOMAIN d =>
              Missing(i) \in DOMAIN d \/ Create(Missing(i)) \in Range(s)

\* While it is applied, each file that is staged takes the place of the next one.
Saved(d, i)   == Source(i) \in DOMAIN d \/ Missing(i) \in DOMAIN d
Shifted(d, i) == IF Source(i - 1) \in DOMAIN d
                 THEN Log(i) \in DOMAIN d /\ d[Log(i)] = d[Source(i - 1)]
                 ELSE Log(i) \notin DOMAIN d
ShiftOf(d, i) == IF Source(i - 1) \in DOMAIN d
                 THEN {Link(Source(i - 1), Work(i)), Rename(Work(i), Log(i))}
                 ELSE {Unlink(Log(i))}
Shifts(d, s) ==
    /\ \A i \in Index : Log(i) \in DOMAIN d => Saved(d, i)
    /\ Work(0) \notin DOMAIN d
    /\ \A i \in 1..Backups :
          /\ Work(i) \in DOMAIN d => Source(i - 1) \in DOMAIN d /\ d[Work(i)] = d[Source(i - 1)]
          /\ Source(i - 1) \in DOMAIN d => Saved(d, i)
          /\ Shifted(d, i) \/ \E op \in ShiftOf(d, i) : op.to = Log(i) /\ op \in Range(s)
    /\ \A op \in Range(s) : op = Publish \/ \E i \in 1..Backups : op \in ShiftOf(d, i)

\* While it is undone, each file that is staged returns to its place.
Restored(d, i) == IF Source(i) \in DOMAIN d
                  THEN Log(i) \in DOMAIN d /\ d[Log(i)] = d[Source(i)]
                  ELSE Missing(i) \in DOMAIN d => Log(i) \notin DOMAIN d
RestoreOf(d, i) == IF Source(i) \in DOMAIN d THEN {Link(Source(i), Work(i)), Rename(Work(i), Log(i))}
                   ELSE IF Missing(i) \in DOMAIN d THEN {Unlink(Log(i))} ELSE {}
Restores(d, s) ==
    /\ \A i \in Index : Restored(d, i) \/ \E op \in RestoreOf(d, i) : op.to = Log(i) /\ op \in Range(s)
    /\ \A op \in Range(s) : op \in SweepOps \cup Range(SweepEnd) \/ \E i \in Index : op \in RestoreOf(d, i)
    /\ \A i \in Index, k \in 1..Len(s) :
          s[k] = Rename(Work(i), Log(i)) =>
              IF k = 1 THEN Work(i) \in DOMAIN d /\ d[Work(i)] = d[Source(i)]
              ELSE s[k - 1] = Link(Source(i), Work(i))

StageInv ==
    pc \in {"sync", "ops"} =>
        /\ phase = "prepare" => Mirrors(dir, Rest)
        /\ phase = "apply" /\ New \in DOMAIN dir => Shifts(dir, Rest)
        /\ phase \in Undoing /\ New \in DOMAIN dir => Restores(dir, Rest)

\* The rotation is committed, and the inode that is meant for the event, once it is
\* created.
Committed == phase = "cleanup" \/ (phase = "apply" /\ Rest = <<>>)
Meant == IF Committed THEN {dir[Log(0)]} ELSE IF New \in DOMAIN dir THEN {dir[New]} ELSE {}

Rotating == pc \in {"sync", "ops"} /\ phase \in {"prepare", "apply", "cleanup"}

\* Before the commit the new file is none of the files, after it the log is there.
CommitInv ==
    Rotating =>
        /\ Committed => New \notin DOMAIN dir /\ Log(0) \in DOMAIN dir
        /\ New \in DOMAIN dir => /\ \A i \in Index : Slot(dir, i) # dir[New]
                                 /\ Log(0) \in DOMAIN dir => dir[Log(0)] # dir[New]

StagingInv == SlotInv /\ SyncInv /\ StageInv /\ CommitInv

-----------------------------------------------------------------------------
(* The inductive invariant of the refinement: the events. *)

\* A complete line is one of the w events that were written, what is synced is complete,
\* and that includes the events of S.
WellFormed(file, w, S) ==
    /\ \A k \in 1..Len(file.lines) : file.lines[k] \in (1..w) \cup {Torn}
    /\ file.synced \in 0..Len(file.lines)
    /\ IsTorn(file.lines) => file.synced < Len(file.lines)
    /\ \A k \in 1..Len(file.lines) : file.lines[k] \in S => k <= file.synced

\* A file is older than the event e, or holds just that and is on disk if it must be.
Older(file, e) == \A k \in 1..Len(file.lines) : file.lines[k] # e
HoldsEvent(file, e) == file.lines = <<e>> /\ file.synced \in 0..1 /\ (e \in Durable => file.synced = 1)

Running == pc \in {"sync", "ops", "open", "write"}

Created == pc \in {"sync", "ops"} /\ phase = "created"

FormInv ==
    /\ \A i \in Inodes : WellFormed(data[i], written, safe)
    /\ safe \subseteq Durable \cap (1..written)
    /\ written \in 0..MaxEvents /\ event \in 0..MaxEvents

TurnInv ==
    /\ Running /\ event # Starting => event = written /\ event \notin safe
    /\ Running /\ event # Starting /\ phase \in {"none", "begin", "recover", "created"} => \A i \in Inodes : Older(data[i], event)
    /\ pc = "write" \/ Rotating \/ Created => event # Starting
    /\ pc \in {"down", "idle", "open", "write"} => phase = "none"

RotationInv == Rotating => \A i \in Inodes : IF i \in Meant THEN HoldsEvent(data[i], event) ELSE Older(data[i], event)

RInv == StagingInv /\ FormInv /\ TurnInv /\ RotationInv

-----------------------------------------------------------------------------
(* Names, operations and their effects. *)

\* Names are equal only to themselves.
LEMMA NamesDiffer ==
    ASSUME NEW i, NEW j
    PROVE  /\ Log(i) = Log(j) <=> i = j
           /\ Source(i) = Source(j) <=> i = j
           /\ Missing(i) = Missing(j) <=> i = j
           /\ Work(i) = Work(j) <=> i = j
           /\ Log(i) \notin {Source(j), Missing(j), Work(j), New, Proof, Marker}
           /\ Source(i) \notin {Log(j), Missing(j), Work(j), New, Proof, Marker}
           /\ Missing(i) \notin {Log(j), Source(j), Work(j), New, Proof, Marker}
           /\ Work(i) \notin {Log(j), Source(j), Missing(j), New, Proof, Marker}
           /\ New \notin {Proof, Marker} /\ Proof # Marker
BY DEF Log, Source, Missing, Work, New, Proof, Marker

\* What kind of name a name is.
LEMMA NameKinds ==
    ASSUME NEW i
    PROVE  /\ Log(i)[1] = "log" /\ Source(i)[1] = "source" /\ Missing(i)[1] = "missing" /\ Work(i)[1] = "work"
           /\ New[1] = "new" /\ Proof[1] = "proof" /\ Marker[1] = "marker"
BY DEF Log, Source, Missing, Work, New, Proof, Marker

\* The fields of the operations.
LEMMA OpFields ==
    ASSUME NEW m, NEW n
    PROVE  /\ Create(n).do = "create" /\ Create(n).to = n
           /\ CreateNew.do = "new" /\ CreateNew.to = New
           /\ Link(m, n).do = "link" /\ Link(m, n).from = m /\ Link(m, n).to = n
           /\ Rename(m, n).do = "rename" /\ Rename(m, n).from = m /\ Rename(m, n).to = n
           /\ Unlink(n).do = "remove" /\ Unlink(n).to = n
BY DEF Create, CreateNew, Link, Rename, Unlink

\* Effect, one operation at a time: a name is added, taken away, or replaces another.
Adds(d, e, n, x) == DOMAIN e = DOMAIN d \cup {n} /\ e[n] = x /\ \A m \in DOMAIN d : m # n => e[m] = d[m]
Takes(d, e, n)   == DOMAIN e = DOMAIN d \ {n} /\ \A m \in DOMAIN e : e[m] = d[m]
Moves(d, e, l, n) ==
    /\ n \in DOMAIN e /\ e[n] = d[l]
    /\ DOMAIN e \subseteq DOMAIN d \cup {n} /\ DOMAIN d \ {l} \subseteq DOMAIN e
    /\ \A m \in DOMAIN e : m # n => e[m] = d[m]
    /\ l \in DOMAIN e => n \in DOMAIN d /\ d[n] = d[l]

\* What each operation does to a directory: it adds a name ...
LEMMA PutIs ==
    ASSUME NEW d, NEW n, NEW x
    PROVE  Adds(d, Put(d, n, x), n, x)
BY DEF Put, Adds

\* ... of an empty file (createEmptyMetadataFile) ...
LEMMA CreateIs ==
    ASSUME NEW d, NEW n
    PROVE  Adds(d, Effect(d, Create(n)), n, Metadata)
<1>1. Effect(d, Create(n)) = Put(d, n, Metadata)
  BY OpFields DEF Effect
<1> QED
  BY <1>1, PutIs

\* ... of a file with an inode of its own (createRotationNewFile) ...
LEMMA CreateNewIs ==
    ASSUME NEW d
    PROVE  Adds(d, Effect(d, CreateNew), New, Fresh)
<1>1. Effect(d, CreateNew) = Put(d, New, Fresh)
  BY OpFields DEF Effect
<1> QED
  BY <1>1, PutIs

\* ... of a file that has another name already (linkMetadata) ...
LEMMA LinkIs ==
    ASSUME NEW d, NEW l, NEW n
    PROVE  Adds(d, Effect(d, Link(l, n)), n, d[l])
<1>1. Effect(d, Link(l, n)) = Put(d, n, d[l])
  BY OpFields DEF Effect
<1> QED
  BY <1>1, PutIs

\* ... or it takes a name away (removeMetadataIfExists).
LEMMA UnlinkIs ==
    ASSUME NEW d, NEW n
    PROVE  Takes(d, Effect(d, Unlink(n)), n)
<1>1. Effect(d, Unlink(n)) = Drop(d, n)
  BY OpFields DEF Effect
<1> QED
  BY <1>1 DEF Drop, Takes

\* The old name is gone unless both are names of one file.
LEMMA RenameIs ==
    ASSUME NEW d, NEW l, NEW n, l # n, l \in DOMAIN d
    PROVE  Moves(d, Effect(d, Rename(l, n)), l, n)
<1>1. CASE n \in DOMAIN d /\ d[n] = d[l]
  <2>1. Effect(d, Rename(l, n)) = d
    BY <1>1, OpFields DEF Effect
  <2> QED
    BY <1>1, <2>1 DEF Moves
<1>2. CASE ~(n \in DOMAIN d /\ d[n] = d[l])
  <2> DEFINE c == Drop(d, l)
             e == Effect(d, Rename(l, n))
  <2>1. e = Put(c, n, d[l])
    BY <1>2, OpFields DEF Effect
  <2>2. DOMAIN c = DOMAIN d \ {l} /\ \A m \in DOMAIN c : c[m] = d[m]
    BY DEF Drop
  <2>3. Adds(c, e, n, d[l])
    BY <2>1, PutIs
  <2> HIDE DEF c, e
  <2>4. Moves(d, e, l, n)
    BY <2>2, <2>3 DEF Adds, Moves
  <2> QED
    BY <2>4 DEF e
<1> QED
  BY <1>1, <1>2

\* What remains of a list when its head is done.
LEMMA RangeTail ==
    ASSUME NEW s \in Seq(AllOps), s # <<>>
    PROVE  /\ Head(s) \in Range(s) /\ Range(Tail(s)) \subseteq Range(s)
           /\ \A x \in Range(s) : x = Head(s) \/ x \in Range(Tail(s))
<1>1. Head(s) = s[1] /\ 1 \in DOMAIN s
  OBVIOUS
<1>2. ASSUME NEW k \in DOMAIN Tail(s) PROVE k + 1 \in DOMAIN s /\ Tail(s)[k] = s[k + 1]
  OBVIOUS
<1>3. ASSUME NEW k \in DOMAIN s, k # 1 PROVE k - 1 \in DOMAIN Tail(s) /\ Tail(s)[k - 1] = s[k]
  BY <1>3
<1> QED
  BY <1>1, <1>2, <1>3 DEF Range

-----------------------------------------------------------------------------
(* Fresh inodes. *)

\* While the only names are those of the files and of their links there is an inode left
\* for a new file.
LEMMA FreshIs ==
    ASSUME unsynced = {dir},
           \A n \in DOMAIN dir : dir[n] = Metadata \/ \E i \in Index : Log(i) \in DOMAIN dir /\ dir[n] = dir[Log(i)]
    PROVE  Fresh \in Inodes /\ \A n \in DOMAIN dir : dir[n] # Fresh
<1> DEFINE taken(i) == \E n \in DOMAIN dir : dir[n] = i
<1>1. \E i \in Inodes : ~taken(i)
  <2> SUFFICES ASSUME \A i \in Inodes : taken(i) PROVE FALSE
    OBVIOUS
  <2>1. \A i \in Inodes : \E j \in Index : dir[Log(j)] = i
    <3>1. \A i \in Inodes : i # Metadata
      BY AuditAssumption DEF Inodes, Metadata
    <3> QED
      BY <3>1
  <2> DEFINE f == [ i \in Inodes |-> CHOOSE j \in Index : dir[Log(j)] = i ]
  <2>2. \A i \in Inodes : f[i] \in Index /\ dir[Log(f[i])] = i
    BY <2>1
  <2>3. f \in [Inodes -> Index]
    BY <2>2
  <2>4. /\ IsFiniteSet(Inodes) /\ Cardinality(Inodes) = Backups + 4
        /\ IsFiniteSet(Index) /\ Cardinality(Index) = Backups + 1
    <3>1. Backups \in Nat
      BY AuditAssumption
    <3>2. IsFiniteSet(1..(Backups + 4)) /\ Cardinality(1..(Backups + 4)) = Backups + 4
      <4>1. Backups + 4 \in Int /\ 1 \in Int /\ ~(1 > Backups + 4) /\ (Backups + 4) - 1 + 1 = Backups + 4
        BY <3>1
      <4> QED
        BY <4>1, FS_Interval
    <3>3. IsFiniteSet(0..Backups) /\ Cardinality(0..Backups) = Backups + 1
      <4>1. Backups \in Int /\ 0 \in Int /\ ~(0 > Backups) /\ Backups - 0 + 1 = Backups + 1
        BY <3>1
      <4> QED
        BY <4>1, FS_Interval
    <3> QED
      BY <3>2, <3>3 DEF Inodes, Index
  <2>5. Cardinality(Index) < Cardinality(Inodes)
    BY <2>4, AuditAssumption
  <2> HIDE DEF f
  <2>6. \E x, y \in Inodes : x # y /\ f[x] = f[y]
    BY <2>3, <2>4, <2>5, FS_PigeonHole
  <2> QED
    BY <2>2, <2>6
<1>2. \E i \in Inodes : \A d \in unsynced \cup {dir} : \A n \in DOMAIN d : d[n] # i
  BY <1>1
<1>3. Fresh \in Inodes /\ \A d \in unsynced \cup {dir} : \A n \in DOMAIN d : d[n] # Fresh
  BY <1>2 DEF Fresh
<1> QED
  BY <1>3

-----------------------------------------------------------------------------
(* What an operation does to the files as recovery would find them. *)

\* A directory from which recovery takes the same files.
SameSlots(d, e) == \A i \in Index : Slot(e, i) = Slot(d, i)

\* The i-th file is not both there and not there.
Sorted(d) == \A i \in Index : ~(Source(i) \in DOMAIN d /\ Missing(i) \in DOMAIN d)

\* Two directories with the same files have them under distinct inodes, or neither has.
LEMMA SameDistinct ==
    ASSUME NEW d, NEW e, Distinct(d), SameSlots(d, e), Sorted(e)
    PROVE  Distinct(e)
BY DEF Distinct, SameSlots, Sorted

\* While a rotation is prepared, recovery finds the files that are there.
LEMMA MirrorSlot ==
    ASSUME NEW d, NEW s, Mirrors(d, s), NEW i \in Index
    PROVE  /\ Slot(d, i) = IF Log(i) \in DOMAIN d THEN d[Log(i)] ELSE Metadata
           /\ ~(Source(i) \in DOMAIN d /\ Missing(i) \in DOMAIN d)
BY DEF Mirrors, Slot

\* The next operation of prepareRotation.
LEMMA PrepareHead ==
    ASSUME NEW d, NEW s, Prepares(d, s), s # <<>>
    PROVE  \/ Head(s) \in {Create(Marker), CreateNew, Link(New, Proof)}
           \/ \E j \in Index : Head(s) = Link(Log(j), Source(j))
           \/ \E j \in Index : Head(s) = Create(Missing(j))
<1>1. CASE Ends(s, StageOps, StageEnd)
  <2>1. s = StageEnd => Head(s) = CreateNew
    BY DEF StageEnd
  <2>2. s = StageEnd \/ Head(s) \in StageOps
    BY <1>1, EndsStep, OpsAreOps
  <2> QED
    BY <2>1, <2>2 DEF StageOps, Index
<1>2. CASE s = <<Link(New, Proof)>>
  BY <1>2
<1> QED
  BY <1>1, <1>2 DEF Prepares

\* It leaves the files alone, and what is staged is still what is there.
LEMMA PrepareSlots ==
    ASSUME NEW d, Typed(d), NEW s \in Seq(AllOps), Prepares(d, s), Mirrors(d, s), s # <<>>,
           Applicable(d, Head(s)), NEW e, e = Effect(d, Head(s)), Head(s) = CreateNew => Fresh \in Inodes
    PROVE  /\ Mirrors(e, Tail(s)) /\ Typed(e) /\ SameSlots(d, e) /\ Sorted(e)
           /\ \A i \in Index : (Log(i) \in DOMAIN e <=> Log(i) \in DOMAIN d) /\ (Log(i) \in DOMAIN d => e[Log(i)] = d[Log(i)])
           /\ New \in DOMAIN e => IF Head(s) = CreateNew THEN e[New] = Fresh
                                  ELSE New \in DOMAIN d /\ e[New] = d[New]
           /\ DOMAIN d \subseteq DOMAIN e
<1>1. /\ \A x \in Range(s) : x = Head(s) \/ x \in Range(Tail(s))
      /\ Range(Tail(s)) \subseteq Range(s) /\ Head(s) \in Range(s)
  BY RangeTail
<1>2. SUFFICES /\ Mirrors(e, Tail(s)) /\ Typed(e)
               /\ \A i \in Index : (Log(i) \in DOMAIN e <=> Log(i) \in DOMAIN d) /\ (Log(i) \in DOMAIN d => e[Log(i)] = d[Log(i)])
               /\ New \in DOMAIN e => IF Head(s) = CreateNew THEN e[New] = Fresh
                                      ELSE New \in DOMAIN d /\ e[New] = d[New]
               /\ DOMAIN d \subseteq DOMAIN e
  BY MirrorSlot DEF SameSlots, Sorted
<1>3. ASSUME NEW i \in Index, i # 0 PROVE i - 1 \in Index
  BY <1>3, AuditAssumption DEF Index
<1>4. CASE Head(s) \in {Create(Marker), CreateNew, Link(New, Proof)}
  <2>1. PICK n \in {Marker, New, Proof} :
           /\ DOMAIN e = DOMAIN d \cup {n} /\ \A m \in DOMAIN d : m # n => e[m] = d[m]
           /\ n = Marker => e[n] = Metadata
           /\ n = New => Head(s) = CreateNew /\ e[n] = Fresh
           /\ n = Proof => Head(s) = Link(New, Proof) /\ e[n] = d[New] /\ New \in DOMAIN d
    <3>1. CASE Head(s) = Create(Marker)
      <4>1. e = Effect(d, Create(Marker)) /\ Marker # New /\ Marker # Proof
        BY <3>1, NamesDiffer
      <4>2. Adds(d, e, Marker, Metadata)
        BY <4>1, CreateIs
      <4> QED
        BY <4>1, <4>2 DEF Adds
    <3>2. CASE Head(s) = CreateNew
      <4>1. e = Effect(d, CreateNew) /\ New # Marker /\ New # Proof
        BY <3>2, NamesDiffer
      <4>2. Adds(d, e, New, Fresh)
        BY <4>1, CreateNewIs
      <4> QED
        BY <3>2, <4>1, <4>2 DEF Adds
    <3>3. CASE Head(s) = Link(New, Proof)
      <4>1. e = Effect(d, Link(New, Proof)) /\ Proof # Marker /\ Proof # New
        BY <3>3, NamesDiffer
      <4>2. New \in DOMAIN d
        BY <3>3, OpFields DEF Applicable
      <4>3. Adds(d, e, Proof, d[New])
        BY <4>1, LinkIs
      <4> QED
        BY <3>3, <4>1, <4>2, <4>3 DEF Adds
    <3> QED
      BY <1>4, <3>1, <3>2, <3>3
  <2>2. \A i \in Index : Create(Missing(i)) # Head(s) /\ Link(Log(i), Source(i)) # Head(s)
    <3> SUFFICES ASSUME NEW i \in Index PROVE Create(Missing(i)) # Head(s) /\ Link(Log(i), Source(i)) # Head(s)
      OBVIOUS
    <3>1. Head(s).to \in {Marker, New, Proof}
      BY <1>4, OpFields
    <3>2. Create(Missing(i)).to = Missing(i) /\ Link(Log(i), Source(i)).to = Source(i)
      BY OpFields
    <3> QED
      BY <3>1, <3>2, NamesDiffer
  <2>3. \A i \in Index : \A m \in {Log(i), Source(i), Missing(i), Work(i)} :
           (m \in DOMAIN e <=> m \in DOMAIN d) /\ (m \in DOMAIN d => e[m] = d[m])
    BY <2>1, NamesDiffer
  <2>4. Mirrors(e, Tail(s))
    <3> SUFFICES ASSUME NEW i \in Index
                 PROVE  /\ Work(i) \notin DOMAIN e
                        /\ Source(i) \in DOMAIN e => Log(i) \in DOMAIN e /\ e[Source(i)] = e[Log(i)]
                        /\ Missing(i) \in DOMAIN e \/ Create(Missing(i)) \in Range(Tail(s)) => Log(i) \notin DOMAIN e
                        /\ Log(i) \in DOMAIN e => Source(i) \in DOMAIN e \/ Link(Log(i), Source(i)) \in Range(Tail(s))
                        /\ i # 0 /\ Log(i - 1) \in DOMAIN e /\ Log(i) \notin DOMAIN e =>
                              Missing(i) \in DOMAIN e \/ Create(Missing(i)) \in Range(Tail(s))
      BY DEF Mirrors
    <3>1. i # 0 => (Log(i - 1) \in DOMAIN e <=> Log(i - 1) \in DOMAIN d)
      BY <1>3, <2>3
    <3> QED
      BY <1>1, <2>2, <2>3, <3>1 DEF Mirrors
  <2>5. Typed(e)
    <3>1. n = Proof => d[New] \in Inodes
      BY <2>1, NameKinds DEF Typed
    <3>2. Marker[1] = "marker" /\ New[1] = "new" /\ Proof[1] = "proof"
      BY NameKinds
    <3>3. n \in {Marker, New, Proof} /\ (n = New => e[n] \in Inodes)
      BY <2>1
    <3>4. \/ e[n] = Metadata /\ n[1] = "marker"
          \/ e[n] \in Inodes /\ n[1] \notin {"marker", "missing"}
      <4>1. CASE n = Marker
        BY <2>1, <3>2, <4>1
      <4>2. CASE n = New
        BY <3>2, <3>3, <4>2
      <4>3. CASE n = Proof
        BY <2>1, <3>1, <3>2, <4>3
      <4> QED
        BY <4>1, <4>2, <4>3
    <3> QED
      BY <2>1, <3>4 DEF Typed
  <2>6. New \in DOMAIN e => IF Head(s) = CreateNew THEN e[New] = Fresh ELSE New \in DOMAIN d /\ e[New] = d[New]
    <3>1. Head(s) = CreateNew => e[New] = Fresh
      BY CreateNewIs DEF Adds
    <3>2. Head(s) # CreateNew => n # New
      BY <2>1
    <3> QED
      BY <2>1, <3>1, <3>2
  <2> QED
    BY <2>1, <2>3, <2>4, <2>5, <2>6
<1>5. CASE \E j \in Index : Head(s) = Link(Log(j), Source(j))
  <2>1. PICK j \in Index : Head(s) = Link(Log(j), Source(j))
    BY <1>5
  <2>2. Log(j) \in DOMAIN d /\ Source(j) \notin DOMAIN d
    BY <2>1, OpFields DEF Applicable
  <2>3. DOMAIN e = DOMAIN d \cup {Source(j)} /\ e[Source(j)] = d[Log(j)] /\ \A m \in DOMAIN d : m # Source(j) => e[m] = d[m]
    <3>1. Adds(d, e, Source(j), d[Log(j)])
      BY <2>1, LinkIs
    <3> QED
      BY <3>1 DEF Adds
  <2>4. \A i \in Index : Create(Missing(i)) # Head(s) /\ (Link(Log(i), Source(i)) = Head(s) => i = j)
    <3> SUFFICES ASSUME NEW i \in Index PROVE Create(Missing(i)) # Head(s) /\ (Link(Log(i), Source(i)) = Head(s) => i = j)
      OBVIOUS
    <3>1. Create(Missing(i)).to = Missing(i) /\ Link(Log(i), Source(i)).to = Source(i) /\ Head(s).to = Source(j)
      BY <2>1, OpFields
    <3> QED
      BY <3>1, NamesDiffer
  <2>5. \A i \in Index : /\ \A m \in {Log(i), Missing(i), Work(i)} : (m \in DOMAIN e <=> m \in DOMAIN d) /\ (m \in DOMAIN d => e[m] = d[m])
                         /\ Source(i) \in DOMAIN e <=> Source(i) \in DOMAIN d \/ i = j
                         /\ i # j /\ Source(i) \in DOMAIN d => e[Source(i)] = d[Source(i)]
    BY <2>3, NamesDiffer
  <2>6. Mirrors(e, Tail(s))
    <3> SUFFICES ASSUME NEW i \in Index
                 PROVE  /\ Work(i) \notin DOMAIN e
                        /\ Source(i) \in DOMAIN e => Log(i) \in DOMAIN e /\ e[Source(i)] = e[Log(i)]
                        /\ Missing(i) \in DOMAIN e \/ Create(Missing(i)) \in Range(Tail(s)) => Log(i) \notin DOMAIN e
                        /\ Log(i) \in DOMAIN e => Source(i) \in DOMAIN e \/ Link(Log(i), Source(i)) \in Range(Tail(s))
                        /\ i # 0 /\ Log(i - 1) \in DOMAIN e /\ Log(i) \notin DOMAIN e =>
                              Missing(i) \in DOMAIN e \/ Create(Missing(i)) \in Range(Tail(s))
      BY DEF Mirrors
    <3>1. i # 0 => (Log(i - 1) \in DOMAIN e <=> Log(i - 1) \in DOMAIN d)
      BY <1>3, <2>5
    <3>2. Source(i) \in DOMAIN e => Log(i) \in DOMAIN e /\ e[Source(i)] = e[Log(i)]
      BY <2>2, <2>3, <2>5 DEF Mirrors
    <3> QED
      BY <1>1, <2>4, <2>5, <3>1, <3>2 DEF Mirrors
  <2>7. Typed(e)
    <3>1. d[Log(j)] \in Inodes /\ Source(j)[1] \notin {"marker", "missing"}
      BY <2>2, NameKinds DEF Typed
    <3> QED
      BY <2>3, <3>1 DEF Typed
  <2>8. Head(s) # CreateNew /\ Source(j) # New
    BY <2>1, OpFields, NamesDiffer
  <2> QED
    BY <2>3, <2>5, <2>6, <2>7, <2>8
<1>6. CASE \E j \in Index : Head(s) = Create(Missing(j))
  <2>1. PICK j \in Index : Head(s) = Create(Missing(j))
    BY <1>6
  <2>2. Log(j) \notin DOMAIN d
    BY <1>1, <2>1 DEF Mirrors
  <2>3. DOMAIN e = DOMAIN d \cup {Missing(j)} /\ e[Missing(j)] = Metadata /\ \A m \in DOMAIN d : m # Missing(j) => e[m] = d[m]
    <3>1. Adds(d, e, Missing(j), Metadata)
      BY <2>1, CreateIs
    <3> QED
      BY <3>1 DEF Adds
  <2>4. \A i \in Index : Link(Log(i), Source(i)) # Head(s) /\ (Create(Missing(i)) = Head(s) => i = j)
    <3> SUFFICES ASSUME NEW i \in Index PROVE Link(Log(i), Source(i)) # Head(s) /\ (Create(Missing(i)) = Head(s) => i = j)
      OBVIOUS
    <3>1. Create(Missing(i)).to = Missing(i) /\ Link(Log(i), Source(i)).to = Source(i) /\ Head(s).to = Missing(j)
      <4>1. \A m, n : Create(n).to = n /\ Link(m, n).to = n
        BY OpFields
      <4> QED
        BY <2>1, <4>1
    <3> QED
      BY <3>1, NamesDiffer
  <2>5. \A i \in Index : /\ \A m \in {Log(i), Source(i), Work(i)} : (m \in DOMAIN e <=> m \in DOMAIN d) /\ (m \in DOMAIN d => e[m] = d[m])
                         /\ Missing(i) \in DOMAIN e <=> Missing(i) \in DOMAIN d \/ i = j
    BY <2>3, NamesDiffer
  <2>6. Mirrors(e, Tail(s))
    <3> SUFFICES ASSUME NEW i \in Index
                 PROVE  /\ Work(i) \notin DOMAIN e
                        /\ Source(i) \in DOMAIN e => Log(i) \in DOMAIN e /\ e[Source(i)] = e[Log(i)]
                        /\ Missing(i) \in DOMAIN e \/ Create(Missing(i)) \in Range(Tail(s)) => Log(i) \notin DOMAIN e
                        /\ Log(i) \in DOMAIN e => Source(i) \in DOMAIN e \/ Link(Log(i), Source(i)) \in Range(Tail(s))
                        /\ i # 0 /\ Log(i - 1) \in DOMAIN e /\ Log(i) \notin DOMAIN e =>
                              Missing(i) \in DOMAIN e \/ Create(Missing(i)) \in Range(Tail(s))
      BY DEF Mirrors
    <3>1. i # 0 => (Log(i - 1) \in DOMAIN e <=> Log(i - 1) \in DOMAIN d)
      BY <1>3, <2>5
    <3> QED
      BY <1>1, <2>2, <2>4, <2>5, <3>1 DEF Mirrors
  <2>7. Typed(e)
    <3>1. Missing(j)[1] = "missing"
      BY NameKinds
    <3> QED
      BY <2>3, <3>1 DEF Typed
  <2>8. Head(s) # CreateNew /\ Missing(j) # New
    BY <2>1, OpFields, NamesDiffer
  <2> QED
    BY <2>3, <2>5, <2>6, <2>7, <2>8
<1> QED
  BY <1>4, <1>5, <1>6, PrepareHead

\* The name n is the same in both directories.
Agree(d, e, n) == (n \in DOMAIN e <=> n \in DOMAIN d) /\ (n \in DOMAIN d => e[n] = d[n])

\* Recovery takes the i-th file from what is staged, or from the log.
LEMMA StagedSlot ==
    ASSUME NEW d, NEW e, NEW i \in Index,
           Agree(d, e, Marker), Agree(d, e, New), Agree(d, e, Source(i)), Agree(d, e, Missing(i)),
           Agree(d, e, Log(i)) \/ (Marker \in DOMAIN d /\ New \in DOMAIN d /\ Saved(d, i))
    PROVE  Slot(e, i) = Slot(d, i)
BY DEF Agree, Slot, Saved

\* An operation on the j-th file keeps the rest of applyRotation what it is.
LEMMA ShiftKeeps ==
    ASSUME NEW d, NEW e, NEW s \in Seq(AllOps), s # <<>>, Shifts(d, s), NEW j \in 1..Backups,
           \A i \in Index : Agree(d, e, Source(i)) /\ Agree(d, e, Missing(i)),
           \A i \in Index : i # j => Agree(d, e, Log(i)) /\ Agree(d, e, Work(i)),
           Work(j) \in DOMAIN e => Source(j - 1) \in DOMAIN d /\ e[Work(j)] = d[Source(j - 1)],
           Log(j) \in DOMAIN e => Saved(d, j),
           \/ Head(s).to = Work(j) /\ Agree(d, e, Log(j))
           \/ Head(s).to = Log(j) /\ Shifted(e, j)
    PROVE  Shifts(e, Tail(s))
<1>1. /\ \A x \in Range(s) : x = Head(s) \/ x \in Range(Tail(s))
      /\ Range(Tail(s)) \subseteq Range(s) /\ Head(s) \in Range(s)
  BY RangeTail
<1>2. /\ 0 \in Index /\ j # 0 /\ j \in Index
      /\ \A i \in 1..Backups : i \in Index /\ i - 1 \in Index
  BY AuditAssumption DEF Index
<1>3. /\ \A i \in Index : Saved(e, i) <=> Saved(d, i)
      /\ \A i \in 1..Backups : ShiftOf(e, i) = ShiftOf(d, i)
  BY <1>2 DEF Agree, Saved, ShiftOf
<1>4. \A i \in Index : Log(i) \in DOMAIN e => Saved(e, i)
  <2> SUFFICES ASSUME NEW i \in Index, Log(i) \in DOMAIN e PROVE Saved(d, i)
    BY <1>3
  <2>1. CASE i = j
    BY <2>1
  <2>2. CASE i # j
    BY <2>2 DEF Agree, Shifts
  <2> QED
    BY <2>1, <2>2
<1>5. Work(0) \notin DOMAIN e
  BY <1>2 DEF Agree, Shifts
<1>6. ASSUME NEW i \in 1..Backups
      PROVE  /\ Work(i) \in DOMAIN e => Source(i - 1) \in DOMAIN e /\ e[Work(i)] = e[Source(i - 1)]
             /\ Source(i - 1) \in DOMAIN e => Saved(e, i)
  <2>1. Agree(d, e, Source(i - 1)) /\ i \in Index
    BY <1>2
  <2>2. Source(i - 1) \in DOMAIN e => Saved(e, i)
    BY <1>3, <2>1 DEF Agree, Shifts
  <2>3. CASE i = j
    BY <2>1, <2>2, <2>3 DEF Agree
  <2>4. CASE i # j
    BY <2>1, <2>2, <2>4 DEF Agree, Shifts
  <2> QED
    BY <2>3, <2>4
<1>7. ASSUME NEW i \in 1..Backups
      PROVE  Shifted(e, i) \/ \E op \in ShiftOf(e, i) : op.to = Log(i) /\ op \in Range(Tail(s))
  <2>1. Agree(d, e, Source(i - 1)) /\ i \in Index
    BY <1>2
  <2>2. Agree(d, e, Log(i)) => (Shifted(e, i) <=> Shifted(d, i))
    BY <2>1 DEF Agree, Shifted
  <2>3. CASE i = j /\ Head(s).to = Log(j) /\ Shifted(e, j)
    BY <2>3
  <2>4. CASE Head(s).to # Log(i) /\ Agree(d, e, Log(i))
    <3>1. CASE Shifted(d, i)
      BY <2>2, <2>4, <3>1
    <3>2. CASE \E op \in ShiftOf(d, i) : op.to = Log(i) /\ op \in Range(s)
      BY <1>1, <1>3, <2>4, <3>2
    <3> QED
      BY <3>1, <3>2 DEF Shifts
  <2>5. Log(i) # Work(j) /\ (i # j => Log(i) # Log(j))
    BY NamesDiffer
  <2> QED
    BY <2>1, <2>3, <2>4, <2>5
<1>8. \A op \in Range(Tail(s)) : op = Publish \/ \E i \in 1..Backups : op \in ShiftOf(e, i)
  BY <1>1, <1>2, <1>3 DEF Shifts
<1> QED
  BY <1>4, <1>5, <1>6, <1>7, <1>8 DEF Shifts

\* The next operation of applyRotation before its commit.
LEMMA ShiftHead ==
    ASSUME NEW d, NEW s \in Seq(AllOps), s # <<>>, Shifts(d, s), Head(s) # Publish
    PROVE  \E j \in 1..Backups :
              /\ Log(j) \in DOMAIN d \/ Source(j - 1) \in DOMAIN d => Saved(d, j)
              /\ \/ Source(j - 1) \in DOMAIN d /\ Head(s) = Link(Source(j - 1), Work(j))
                 \/ Source(j - 1) \in DOMAIN d /\ Head(s) = Rename(Work(j), Log(j))
                 \/ Source(j - 1) \notin DOMAIN d /\ Head(s) = Unlink(Log(j))
<1>1. Head(s) \in Range(s)
  BY RangeTail
<1>2. PICK j \in 1..Backups : Head(s) \in ShiftOf(d, j)
  BY <1>1 DEF Shifts
<1>3. j \in Index
  BY AuditAssumption DEF Index
<1> QED
  BY <1>2, <1>3 DEF Shifts, ShiftOf

\* It leaves the files alone as recovery would find them.
LEMMA ShiftSlots ==
    ASSUME NEW d, Typed(d), Sorted(d), NEW s \in Seq(AllOps), s # <<>>, Shifts(d, s), Head(s) # Publish,
           Marker \in DOMAIN d, New \in DOMAIN d, Applicable(d, Head(s)),
           ~(Head(s).do = "remove" /\ Head(s).to \notin DOMAIN d), NEW e, e = Effect(d, Head(s))
    PROVE  /\ Shifts(e, Tail(s)) /\ Typed(e) /\ SameSlots(d, e) /\ Sorted(e)
           /\ Agree(d, e, New) /\ Agree(d, e, Log(0))
<1>1. PICK j \in 1..Backups :
              /\ Saved(d, j)
              /\ \/ Source(j - 1) \in DOMAIN d /\ Head(s) = Link(Source(j - 1), Work(j))
                 \/ Source(j - 1) \in DOMAIN d /\ Head(s) = Rename(Work(j), Log(j))
                 \/ Source(j - 1) \notin DOMAIN d /\ Head(s) = Unlink(Log(j))
  BY ShiftHead, OpFields
<1>2. j \in Index /\ j - 1 \in Index /\ j # 0 /\ 0 \in Index
  BY AuditAssumption DEF Index
<1>3. SUFFICES /\ \A i \in Index : Agree(d, e, Source(i)) /\ Agree(d, e, Missing(i))
               /\ \A i \in Index : i # j => Agree(d, e, Log(i)) /\ Agree(d, e, Work(i))
               /\ Agree(d, e, Marker) /\ Agree(d, e, New)
               /\ Work(j) \in DOMAIN e => Source(j - 1) \in DOMAIN d /\ e[Work(j)] = d[Source(j - 1)]
               /\ \/ Head(s).to = Work(j) /\ Agree(d, e, Log(j))
                  \/ Head(s).to = Log(j) /\ Shifted(e, j)
               /\ Typed(e)
  <2>1. Shifts(e, Tail(s))
    BY <1>1, <1>3, ShiftKeeps
  <2>2. SameSlots(d, e)
    BY <1>1, <1>3, StagedSlot DEF SameSlots
  <2>3. Sorted(e)
    BY <1>3 DEF Sorted, Agree
  <2> QED
    BY <1>2, <1>3, <2>1, <2>2, <2>3
<1>4. CASE Source(j - 1) \in DOMAIN d /\ Head(s) = Link(Source(j - 1), Work(j))
  <2>1. Adds(d, e, Work(j), d[Source(j - 1)]) /\ Head(s).to = Work(j) /\ Work(j) \notin DOMAIN d
    BY <1>4, LinkIs, OpFields DEF Applicable
  <2>2. /\ \A i \in Index : Agree(d, e, Source(i)) /\ Agree(d, e, Missing(i)) /\ Agree(d, e, Log(i))
        /\ \A i \in Index : i # j => Agree(d, e, Work(i))
        /\ Agree(d, e, Marker) /\ Agree(d, e, New)
    <3>1. \A m : m # Work(j) => Agree(d, e, m)
      BY <2>1 DEF Adds, Agree
    <3>2. ASSUME NEW i \in Index
          PROVE  /\ Source(i) # Work(j) /\ Missing(i) # Work(j) /\ Log(i) # Work(j)
                 /\ i # j => Work(i) # Work(j)
      BY NamesDiffer
    <3>3. Marker # Work(j) /\ New # Work(j)
      BY NamesDiffer
    <3> QED
      BY <3>1, <3>2, <3>3
  <2>3. e[Work(j)] = d[Source(j - 1)]
    BY <2>1 DEF Adds
  <2>4. d[Source(j - 1)] \in Inodes /\ Work(j)[1] \notin {"missing", "marker"}
    BY <1>4, NameKinds DEF Typed
  <2>5. Typed(e)
    BY <2>1, <2>4 DEF Typed, Adds
  <2> QED
    BY <1>2, <1>4, <2>1, <2>2, <2>3, <2>5
<1>5. CASE Source(j - 1) \in DOMAIN d /\ Head(s) = Rename(Work(j), Log(j))
  <2>1. Work(j) \in DOMAIN d /\ Work(j) # Log(j) /\ Head(s).to = Log(j)
    BY <1>5, OpFields, NamesDiffer DEF Applicable
  <2>2. Moves(d, e, Work(j), Log(j))
    BY <1>5, <2>1, RenameIs
  <2>3. /\ \A i \in Index : Agree(d, e, Source(i)) /\ Agree(d, e, Missing(i))
        /\ \A i \in Index : i # j => Agree(d, e, Log(i)) /\ Agree(d, e, Work(i))
        /\ Agree(d, e, Marker) /\ Agree(d, e, New)
    BY <2>2, NamesDiffer DEF Moves, Agree
  <2>4. d[Work(j)] = d[Source(j - 1)]
    BY <2>1 DEF Shifts
  <2>5. Work(j) \in DOMAIN e => e[Work(j)] = d[Source(j - 1)]
    BY <2>1, <2>2, <2>4 DEF Moves
  <2>6. Shifted(e, j)
    BY <1>2, <1>5, <2>2, <2>3, <2>4 DEF Shifted, Moves, Agree
  <2>7. d[Work(j)] \in Inodes /\ Log(j)[1] \notin {"missing", "marker"}
    BY <2>1, NameKinds DEF Typed
  <2>8. Typed(e)
    BY <2>2, <2>7 DEF Typed, Moves
  <2> QED
    BY <1>5, <2>1, <2>3, <2>5, <2>6, <2>8
<1>6. CASE Source(j - 1) \notin DOMAIN d /\ Head(s) = Unlink(Log(j))
  <2>1. Takes(d, e, Log(j)) /\ Head(s).to = Log(j)
    BY <1>6, UnlinkIs, OpFields
  <2>2. /\ \A i \in Index : Agree(d, e, Source(i)) /\ Agree(d, e, Missing(i)) /\ Agree(d, e, Work(i))
        /\ \A i \in Index : i # j => Agree(d, e, Log(i))
        /\ Agree(d, e, Marker) /\ Agree(d, e, New)
    BY <2>1, NamesDiffer DEF Takes, Agree
  <2>3. Shifted(e, j)
    BY <1>2, <1>6, <2>1, <2>2 DEF Shifted, Takes, Agree
  <2>4. Typed(e)
    BY <2>1 DEF Typed, Takes
  <2>5. Work(j) \notin DOMAIN e
    BY <1>2, <1>6, <2>2 DEF Agree, Shifts
  <2> QED
    BY <2>1, <2>2, <2>3, <2>4, <2>5
<1> QED
  BY <1>1, <1>4, <1>5, <1>6

\* A backup that is not there need not be removed.
LEMMA ShiftSkip ==
    ASSUME NEW d, NEW s \in Seq(AllOps), s # <<>>, Shifts(d, s),
           Head(s).do = "remove", Head(s).to \notin DOMAIN d
    PROVE  Shifts(d, Tail(s))
<1>1. Head(s) # Publish
  BY OpFields DEF Publish
<1>2. PICK j \in 1..Backups :
              /\ Log(j) \in DOMAIN d \/ Source(j - 1) \in DOMAIN d => Saved(d, j)
              /\ \/ Source(j - 1) \in DOMAIN d /\ Head(s) = Link(Source(j - 1), Work(j))
                 \/ Source(j - 1) \in DOMAIN d /\ Head(s) = Rename(Work(j), Log(j))
                 \/ Source(j - 1) \notin DOMAIN d /\ Head(s) = Unlink(Log(j))
  BY <1>1, ShiftHead
<1>3. Source(j - 1) \notin DOMAIN d /\ Head(s) = Unlink(Log(j)) /\ Head(s).to = Log(j)
  BY <1>2, OpFields
<1>4. Shifted(d, j) /\ Work(j) \notin DOMAIN d
  BY <1>3 DEF Shifted, Shifts
<1>5. \A n : Agree(d, d, n)
  BY DEF Agree
<1> QED
  BY <1>2, <1>3, <1>4, <1>5, ShiftKeeps

\* The commit: the new file is the log, and each other file is one older.
LEMMA PublishSlots ==
    ASSUME NEW d, Typed(d), Distinct(d), NEW s \in Seq(AllOps), Shifts(d, s), s # <<>>, Tail(s) = <<>>,
           Head(s) = Publish, Marker \in DOMAIN d, New \in DOMAIN d,
           \A i \in Index : Slot(d, i) # d[New], Log(0) \in DOMAIN d => d[Log(0)] # d[New],
           NEW e, e = Effect(d, Publish)
    PROVE  /\ Typed(e) /\ Distinct(e) /\ New \notin DOMAIN e
           /\ Log(0) \in DOMAIN e /\ e[Log(0)] = d[New] /\ Slot(e, 0) = d[New]
           /\ \A i \in 1..Backups : Slot(e, i) = Slot(d, i - 1)
<1>1. Moves(d, e, New, Log(0))
  BY NamesDiffer, RenameIs DEF Publish
<1>2. New \notin DOMAIN e /\ Log(0) \in DOMAIN e /\ e[Log(0)] = d[New]
  BY <1>1 DEF Moves
<1>3. Slot(e, 0) = d[New]
  BY <1>2 DEF Slot
<1>4. ASSUME NEW i \in 1..Backups PROVE Slot(e, i) = Slot(d, i - 1)
  <2>1. i # 0 /\ Log(i) # Log(0) /\ Log(i) # New /\ i - 1 \in Index /\ i \in Index
    BY NamesDiffer, AuditAssumption DEF Index
  <2>2. Agree(d, e, Log(i))
    BY <1>1, <2>1 DEF Moves, Agree
  <2>3. ~ \E op \in ShiftOf(d, i) : op.to = Log(i) /\ op \in Range(s)
    <3>1. \A op \in Range(s) : op = Publish
      <4>1. Range(Tail(s)) = {}
        BY DEF Range
      <4> QED
        BY <4>1, RangeTail
    <3>2. Publish.to # Log(i)
      BY <2>1, OpFields DEF Publish
    <3> QED
      BY <3>1, <3>2
  <2>4. Shifted(d, i)
    BY <2>3 DEF Shifts
  <2>5. Slot(e, i) = IF Log(i) \in DOMAIN d THEN d[Log(i)] ELSE Metadata
    BY <1>2, <2>2 DEF Slot, Agree
  <2>6. CASE Source(i - 1) \in DOMAIN d
    BY <2>4, <2>5, <2>6 DEF Shifted, Slot
  <2>7. CASE Source(i - 1) \notin DOMAIN d
    <3>1. Log(i - 1) \in DOMAIN d => Missing(i - 1) \in DOMAIN d
      BY <2>1, <2>7 DEF Shifts, Saved
    <3> QED
      BY <2>4, <2>5, <2>7, <3>1 DEF Shifted, Slot
  <2> QED
    BY <2>6, <2>7
<1>5. Typed(e)
  <2>1. d[New] \in Inodes /\ Log(0)[1] \notin {"missing", "marker"}
    BY NameKinds DEF Typed
  <2> QED
    BY <1>1, <2>1 DEF Typed, Moves
<1>6. Distinct(e)
  <2>1. ASSUME NEW i \in Index, NEW j \in Index, i # j, Slot(e, i) = Slot(e, j) PROVE Slot(e, i) = Metadata
    <3>1. \A k \in Index : k = 0 \/ (k \in 1..Backups /\ k - 1 \in Index)
      BY AuditAssumption DEF Index
    <3>2. CASE i = 0
      BY <1>3, <1>4, <2>1, <3>1, <3>2
    <3>3. CASE j = 0
      BY <1>3, <1>4, <2>1, <3>1, <3>3
    <3>4. CASE i # 0 /\ j # 0
      <4>1. i - 1 # j - 1
        BY <2>1 DEF Index
      <4> QED
        BY <1>4, <2>1, <3>1, <3>4, <4>1 DEF Distinct
    <3> QED
      BY <3>2, <3>3, <3>4
  <2>2. ASSUME NEW i \in Index PROVE ~(Source(i) \in DOMAIN e /\ Missing(i) \in DOMAIN e)
    BY <1>1, NamesDiffer DEF Moves, Distinct
  <2> QED
    BY <2>1, <2>2 DEF Distinct
<1> QED
  BY <1>2, <1>3, <1>4, <1>5, <1>6

-----------------------------------------------------------------------------
(* The lists the phases begin with. *)

\* The operations of a list that is made of parts are those of the parts.
LEMMA PartsAre ==
    ASSUME NEW T, NEW n \in Nat, NEW parts \in [1..n -> Seq(T)]
    PROVE  \A x : x \in Range(FlattenSeq(parts)) <=> \E k \in 1..n : x \in Range(parts[k])
<1>1. parts \in Seq(Seq(T)) /\ Len(parts) = n
  OBVIOUS
<1> QED
  BY <1>1, FlattenRange

\* The operations of two lists behind each other are those of both.
LEMMA RangeBoth ==
    ASSUME NEW s \in Seq(AllOps), NEW t \in Seq(AllOps)
    PROVE  s \o t \in Seq(AllOps) /\ Range(s \o t) = Range(s) \cup Range(t)
BY RangeConcatenation, ConcatProperties

\* One operation before or behind a list.
LEMMA RangeAdds ==
    ASSUME NEW s \in Seq(AllOps), NEW x, NEW t \in Seq(AllOps), t = <<x>>
    PROVE  /\ s \o t \in Seq(AllOps) /\ Range(s \o t) = Range(s) \cup {x}
           /\ t \o s \in Seq(AllOps) /\ Range(t \o s) = {x} \cup Range(s)
<1>1. Range(t) = {x}
  BY DEF Range
<1>2. /\ s \o t \in Seq(AllOps) /\ Range(s \o t) = Range(s) \cup Range(t)
      /\ t \o s \in Seq(AllOps) /\ Range(t \o s) = Range(t) \cup Range(s)
  BY RangeBoth
<1> QED
  BY <1>1, <1>2

\* A rotation reaches every file that is there, and the one behind it.
LEMMA LimitCovers ==
    ASSUME NEW d, Log(0) \in DOMAIN d, NEW i \in Index
    PROVE  Log(i) \in DOMAIN d \/ (i # 0 /\ Log(i - 1) \in DOMAIN d) => i <= Limit(d)
<1> DEFINE present == { j \in 0..Backups : Log(j) \in DOMAIN d }
           highest == CHOOSE j \in present : \A k \in present : k <= j
<1>1. Backups \in Nat /\ 0 \in present /\ present \subseteq 0..Backups
  BY AuditAssumption
<1>2. highest \in present /\ \A k \in present : k <= highest
  <2> HIDE DEF present
  <2>1. \E j \in present : \A k \in present : k <= j
    BY <1>1, Greatest
  <2> QED
    BY <2>1
<1>3. Limit(d) = IF highest + 1 < Backups THEN highest + 1 ELSE Backups
  BY DEF Limit
<1>4. highest \in 0..Backups
  BY <1>1, <1>2
<1>5. /\ Log(i) \in DOMAIN d => i \in present
      /\ i # 0 /\ Log(i - 1) \in DOMAIN d => i - 1 \in present
  BY <1>1 DEF Index
<1> HIDE DEF highest, present
<1>6. i \in 0..Backups
  BY DEF Index
<1> QED
  BY <1>1, <1>2, <1>3, <1>4, <1>5, <1>6

\* prepareRotation stages each file that is there, and the next one as missing.
LEMMA PrepareMirrors ==
    ASSUME NEW d, Log(0) \in DOMAIN d, DOMAIN d \cap Staged = {}
    PROVE  Mirrors(d, PrepareOps(d))
<1> DEFINE part(i) == IF Log(i) \in DOMAIN d THEN <<Link(Log(i), Source(i))>> ELSE <<Create(Missing(i))>>
           parts == [ k \in 1..(Limit(d) + 1) |-> part(k - 1) ]
<1>1. PrepareOps(d) = (<<Create(Marker)>> \o FlattenSeq(parts)) \o StageEnd
  BY DEF PrepareOps, PerIndex, StageEnd
<1>2. /\ Limit(d) + 1 \in Nat /\ \A k \in 1..(Limit(d) + 1) : k - 1 \in Index
      /\ \A i \in Index : i <= Limit(d) => i + 1 \in 1..(Limit(d) + 1) /\ (i + 1) - 1 = i
  BY LimitIs, AuditAssumption DEF Index
<1>3. ASSUME NEW i \in Index
      PROVE  /\ part(i) \in Seq(AllOps)
             /\ Range(part(i)) = IF Log(i) \in DOMAIN d THEN {Link(Log(i), Source(i))} ELSE {Create(Missing(i))}
  <2>1. {Link(Log(i), Source(i)), Create(Missing(i))} \subseteq AllOps
    BY DEF StageOps, AllOps, Index
  <2>2. \A x : Range(<<x>>) = {x}
    BY DEF Range
  <2> QED
    BY <2>1, <2>2
<1> HIDE DEF part
<1>4. parts \in [1..(Limit(d) + 1) -> Seq(AllOps)] /\ \A k \in 1..(Limit(d) + 1) : parts[k] = part(k - 1)
  BY <1>2, <1>3
<1> HIDE DEF parts
<1>5. FlattenSeq(parts) \in Seq(AllOps) /\ <<Create(Marker)>> \in Seq(AllOps) /\ StageEnd \in Seq(AllOps)
  <2>1. FlattenSeq(parts) \in Seq(AllOps)
    BY <1>2, <1>4, PartsRange
  <2>2. <<Create(Marker)>> \in Seq(AllOps)
    BY DEF AllOps
  <2> QED
    BY <2>1, <2>2, OpsAreOps
<1>6. Range(PrepareOps(d)) = {Create(Marker)} \cup Range(FlattenSeq(parts)) \cup Range(StageEnd)
  <2>2. /\ <<Create(Marker)>> \o FlattenSeq(parts) \in Seq(AllOps)
        /\ Range(<<Create(Marker)>> \o FlattenSeq(parts)) = {Create(Marker)} \cup Range(FlattenSeq(parts))
    BY <1>5, RangeAdds
  <2> DEFINE t == <<Create(Marker)>> \o FlattenSeq(parts)
  <2>3. t \in Seq(AllOps) /\ PrepareOps(d) = t \o StageEnd /\ Range(t) = {Create(Marker)} \cup Range(FlattenSeq(parts))
    BY <1>1, <2>2
  <2> HIDE DEF t
  <2> QED
    BY <1>5, <2>3, RangeBoth
<1>7. ASSUME NEW i \in Index, i <= Limit(d)
      PROVE  /\ Log(i) \in DOMAIN d => Link(Log(i), Source(i)) \in Range(PrepareOps(d))
             /\ Log(i) \notin DOMAIN d => Create(Missing(i)) \in Range(PrepareOps(d))
  <2>1. i + 1 \in 1..(Limit(d) + 1) /\ parts[i + 1] = part(i)
    BY <1>2, <1>4, <1>7
  <2>2. Range(part(i)) \subseteq Range(FlattenSeq(parts))
    BY <1>2, <1>4, <2>1, PartsRange
  <2> QED
    BY <1>3, <1>6, <2>2
<1>8. ASSUME NEW i \in Index, Create(Missing(i)) \in Range(PrepareOps(d)) PROVE Log(i) \notin DOMAIN d
  <2>1. Create(Missing(i)).do = "create" /\ Create(Missing(i)).to = Missing(i)
    BY OpFields
  <2>2. Create(Missing(i)) # Create(Marker)
    BY <2>1, OpFields, NamesDiffer
  <2>3. Create(Missing(i)) \notin Range(StageEnd)
    <3>1. Range(StageEnd) = {CreateNew, Link(New, Proof)}
      BY DEF StageEnd, Range
    <3> QED
      BY <2>1, <3>1, OpFields
  <2>4. PICK k \in 1..(Limit(d) + 1) : Create(Missing(i)) \in Range(parts[k])
    BY <1>2, <1>4, <1>6, <1>8, <2>2, <2>3, PartsAre
  <2>5. Create(Missing(i)) \in Range(part(k - 1)) /\ k - 1 \in Index
    BY <1>2, <1>4, <2>4
  <2>6. Create(Missing(i)) # Link(Log(k - 1), Source(k - 1)) /\ (Create(Missing(i)) = Create(Missing(k - 1)) => i = k - 1)
    <3>1. Create(Missing(k - 1)).to = Missing(k - 1) /\ Link(Log(k - 1), Source(k - 1)).do = "link"
      BY OpFields
    <3> QED
      BY <2>1, <3>1, NamesDiffer
  <2> QED
    BY <1>3, <2>5, <2>6
<1>9. ASSUME NEW i \in Index PROVE Work(i) \notin DOMAIN d /\ Source(i) \notin DOMAIN d /\ Missing(i) \notin DOMAIN d
  BY NameFacts DEF Staged, Index
<1>10. ASSUME NEW i \in Index, Log(i) \in DOMAIN d \/ (i # 0 /\ Log(i - 1) \in DOMAIN d) PROVE i <= Limit(d)
  BY <1>10, LimitCovers
<1> QED
  BY <1>7, <1>8, <1>9, <1>10 DEF Mirrors

\* applyRotation replaces each file behind one that is staged.
LEMMA ApplyShifts ==
    ASSUME NEW d, Log(0) \in DOMAIN d, Mirrors(d, <<>>)
    PROVE  Shifts(d, ApplyOps(d))
<1> DEFINE part(i) == IF Source(i - 1) \in DOMAIN d
                      THEN <<Link(Source(i - 1), Work(i)), Rename(Work(i), Log(i))>>
                      ELSE <<Unlink(Log(i))>>
           parts == [ k \in 1..((Limit(d) - 1) + 1) |-> part(Limit(d) - (k - 1)) ]
<1>1. ApplyOps(d) = FlattenSeq(parts) \o <<Publish>>
  BY DEF ApplyOps, PerIndex
<1>2. /\ (Limit(d) - 1) + 1 = Limit(d) /\ Limit(d) \in Nat
      /\ \A k \in 1..Limit(d) : Limit(d) - (k - 1) \in 1..Backups
      /\ \A i \in 1..Backups : i <= Limit(d) => (Limit(d) - i) + 1 \in 1..Limit(d) /\ Limit(d) - (((Limit(d) - i) + 1) - 1) = i
  BY LimitIs, AuditAssumption
<1>3. ASSUME NEW i \in 1..Backups PROVE part(i) \in Seq(AllOps) /\ Range(part(i)) = ShiftOf(d, i)
  <2>1. {Link(Source(i - 1), Work(i)), Rename(Work(i), Log(i)), Unlink(Log(i))} \subseteq AllOps
    BY DEF ShiftOps, AllOps
  <2>2. /\ \A x : Range(<<x>>) = {x}
        /\ \A x, y : Range(<<x, y>>) = {x, y}
    BY DEF Range
  <2>3. CASE Source(i - 1) \in DOMAIN d
    <3>1. part(i) = <<Link(Source(i - 1), Work(i)), Rename(Work(i), Log(i))>> /\ ShiftOf(d, i) = {Link(Source(i - 1), Work(i)), Rename(Work(i), Log(i))}
      BY <2>3 DEF ShiftOf
    <3> QED
      BY <2>1, <2>2, <3>1
  <2>4. CASE Source(i - 1) \notin DOMAIN d
    <3>1. part(i) = <<Unlink(Log(i))>> /\ ShiftOf(d, i) = {Unlink(Log(i))}
      BY <2>4 DEF ShiftOf
    <3> QED
      BY <2>1, <2>2, <3>1
  <2> QED
    BY <2>3, <2>4
<1> HIDE DEF part
<1>4. parts \in [1..Limit(d) -> Seq(AllOps)] /\ \A k \in 1..Limit(d) : parts[k] = part(Limit(d) - (k - 1))
  BY <1>2, <1>3
<1> HIDE DEF parts
<1>5. FlattenSeq(parts) \in Seq(AllOps) /\ <<Publish>> \in Seq(AllOps)
  <2>1. FlattenSeq(parts) \in Seq(AllOps)
    BY <1>2, <1>4, PartsRange
  <2> QED
    BY <2>1, OpsAreOps
<1>6. Range(ApplyOps(d)) = Range(FlattenSeq(parts)) \cup {Publish}
  <2> DEFINE t == <<Publish>>
  <2>1. t \in Seq(AllOps) /\ t = <<Publish>> /\ ApplyOps(d) = FlattenSeq(parts) \o t
    BY <1>1, <1>5
  <2>2. Range(t) = {Publish}
    BY DEF Range
  <2> HIDE DEF t
  <2>3. Range(FlattenSeq(parts) \o t) = Range(FlattenSeq(parts)) \cup Range(t)
    BY <1>5, <2>1, RangeBoth
  <2> QED
    BY <2>1, <2>2, <2>3
<1>7. ASSUME NEW i \in 1..Backups, i <= Limit(d) PROVE ShiftOf(d, i) \subseteq Range(ApplyOps(d))
  <2> DEFINE k == (Limit(d) - i) + 1
  <2>1. k \in 1..Limit(d) /\ parts[k] = part(i)
    BY <1>2, <1>4, <1>7
  <2> HIDE DEF k
  <2>2. Range(part(i)) \subseteq Range(FlattenSeq(parts))
    BY <1>2, <1>4, <2>1, PartsRange
  <2> QED
    BY <1>3, <1>6, <2>2
<1>8. ASSUME NEW op \in Range(ApplyOps(d)), op # Publish PROVE \E i \in 1..Backups : op \in ShiftOf(d, i)
  <2>1. PICK k \in 1..Limit(d) : op \in Range(parts[k])
    BY <1>2, <1>4, <1>6, <1>8, PartsAre
  <2> QED
    BY <1>2, <1>3, <1>4, <2>1
<1>9. Range(<<>>) = {}
  BY DEF Range
<1>10. ASSUME NEW i \in Index
       PROVE  /\ Work(i) \notin DOMAIN d
              /\ Source(i) \in DOMAIN d <=> Log(i) \in DOMAIN d
              /\ i # 0 /\ Log(i - 1) \in DOMAIN d /\ Log(i) \notin DOMAIN d => Missing(i) \in DOMAIN d
  BY <1>9 DEF Mirrors
<1>11. /\ 0 \in Index
       /\ \A i \in 1..Backups : i \in Index /\ i - 1 \in Index /\ i # 0
  BY AuditAssumption DEF Index
<1>12. ASSUME NEW i \in 1..Backups
       PROVE  /\ Source(i - 1) \in DOMAIN d => Saved(d, i)
              /\ Shifted(d, i) \/ \E op \in ShiftOf(d, i) : op.to = Log(i) /\ op \in Range(ApplyOps(d))
  <2>1. Source(i - 1) \in DOMAIN d => Saved(d, i)
    BY <1>10, <1>11 DEF Saved
  <2>2. Source(i - 1) \in DOMAIN d \/ Log(i) \in DOMAIN d => i <= Limit(d)
    BY <1>10, <1>11, LimitCovers
  <2>3. CASE Source(i - 1) \in DOMAIN d
    <3>1. Rename(Work(i), Log(i)) \in ShiftOf(d, i) /\ Rename(Work(i), Log(i)).to = Log(i)
      BY <2>3, OpFields DEF ShiftOf
    <3> QED
      BY <1>7, <2>1, <2>2, <2>3, <3>1
  <2>4. CASE Source(i - 1) \notin DOMAIN d /\ Log(i) \in DOMAIN d
    <3>1. Unlink(Log(i)) \in ShiftOf(d, i) /\ Unlink(Log(i)).to = Log(i)
      BY <2>4, OpFields DEF ShiftOf
    <3> QED
      BY <1>7, <2>1, <2>2, <2>4, <3>1
  <2>5. CASE Source(i - 1) \notin DOMAIN d /\ Log(i) \notin DOMAIN d
    BY <2>1, <2>5 DEF Shifted
  <2> QED
    BY <2>3, <2>4, <2>5
<1>13. \A i \in Index : Log(i) \in DOMAIN d => Saved(d, i)
  BY <1>10 DEF Saved
<1> QED
  BY <1>8, <1>10, <1>11, <1>12, <1>13 DEF Shifts

-----------------------------------------------------------------------------
(* Taking a rotation back. *)

\* A file that is restored is the one recovery would take.
LEMMA RestoredSlot ==
    ASSUME NEW d, NEW i \in Index, Restored(d, i)
    PROVE  Slot(d, i) = IF Log(i) \in DOMAIN d THEN d[Log(i)] ELSE Metadata
BY DEF Restored, Slot

\* An operation on the j-th file keeps the rest of rollbackRotation what it is.
LEMMA RestoreKeeps ==
    ASSUME NEW d, NEW e, NEW s \in Seq(AllOps), s # <<>>, Restores(d, s), NEW j \in Index,
           \A i \in Index : Agree(d, e, Source(i)) /\ Agree(d, e, Missing(i)),
           \A i \in Index : i # j => Agree(d, e, Log(i)) /\ Head(s).to # Log(i),
           Restored(e, j) \/ (Agree(d, e, Log(j)) /\ Head(s).to # Log(j)),
           \A i \in Index : Head(s) = Link(Source(i), Work(i)) => Work(i) \in DOMAIN e /\ e[Work(i)] = e[Source(i)]
    PROVE  Restores(e, Tail(s))
<1>1. /\ \A x \in Range(s) : x = Head(s) \/ x \in Range(Tail(s))
      /\ Range(Tail(s)) \subseteq Range(s)
  BY RangeTail
<1>2. \A i \in Index : RestoreOf(e, i) = RestoreOf(d, i)
  BY DEF Agree, RestoreOf
<1>3. ASSUME NEW i \in Index
      PROVE  Restored(e, i) \/ \E op \in RestoreOf(e, i) : op.to = Log(i) /\ op \in Range(Tail(s))
  <2>1. Agree(d, e, Log(i)) => (Restored(e, i) <=> Restored(d, i))
    BY DEF Agree, Restored
  <2>2. CASE Agree(d, e, Log(i)) /\ Head(s).to # Log(i)
    <3>1. CASE Restored(d, i)
      BY <2>1, <2>2, <3>1
    <3>2. CASE \E op \in RestoreOf(d, i) : op.to = Log(i) /\ op \in Range(s)
      BY <1>1, <1>2, <2>2, <3>2
    <3> QED
      BY <3>1, <3>2 DEF Restores
  <2> QED
    BY <2>2
<1>4. \A op \in Range(Tail(s)) : op \in SweepOps \cup Range(SweepEnd) \/ \E i \in Index : op \in RestoreOf(e, i)
  BY <1>1, <1>2 DEF Restores
<1>5. ASSUME NEW i \in Index, NEW k \in 1..Len(Tail(s)), Tail(s)[k] = Rename(Work(i), Log(i))
      PROVE  IF k = 1 THEN Work(i) \in DOMAIN e /\ e[Work(i)] = e[Source(i)]
             ELSE Tail(s)[k - 1] = Link(Source(i), Work(i))
  <2>1. k + 1 \in 1..Len(s) /\ k + 1 # 1 /\ (k + 1) - 1 = k /\ Tail(s)[k] = s[k + 1] /\ Head(s) = s[1]
    OBVIOUS
  <2>2. s[k] = Link(Source(i), Work(i))
    BY <1>5, <2>1 DEF Restores
  <2>3. CASE k = 1
    BY <2>1, <2>2, <2>3
  <2>4. CASE k # 1
    <3>1. Tail(s)[k - 1] = s[k]
      BY <2>4
    <3> QED
      BY <2>2, <2>4, <3>1
  <2> QED
    BY <2>3, <2>4
<1> QED
  BY <1>3, <1>4, <1>5 DEF Restores

\* What is only removed was restored before.
LEMMA RemovesRange ==
    ASSUME NEW d, NEW s, Removes(d, s)
    PROVE  s \in Seq(AllOps) /\ Range(s) \subseteq SweepOps \cup Range(SweepEnd)
<1>1. Range(SweepEnd) = {Unlink(Proof), Unlink(New), Unlink(Marker)}
  BY DEF SweepEnd, Range
<1>2. CASE Ends(s, SweepOps, SweepEnd)
  <2>1. PICK y \in Seq(SweepOps) : s = y \o SweepEnd
    BY <1>2 DEF Ends
  <2>2. y \in Seq(AllOps) /\ Range(y) \subseteq SweepOps /\ SweepEnd \in Seq(AllOps)
    BY OpsAreOps, SeqMonotonic DEF Range
  <2> QED
    BY <2>1, <2>2, RangeBoth
<1>3. CASE s \in {<<Unlink(New), Unlink(Marker)>>, <<Unlink(Marker)>>, <<>>}
  <2>1. Range(s) \subseteq {Unlink(Proof), Unlink(New), Unlink(Marker)}
    BY <1>3 DEF Range
  <2>2. s \in Seq(AllOps)
    <3>1. {<<Unlink(New), Unlink(Marker)>>, <<Unlink(Marker)>>, <<>>} \subseteq Seq(AllOps)
      BY DEF AllOps
    <3> QED
      BY <1>3, <3>1
  <2> QED
    BY <1>1, <2>1, <2>2
<1> QED
  BY <1>2, <1>3 DEF Removes

\* cleanupRotationStaging only removes what was staged.
LEMMA SweepTo ==
    ASSUME NEW op \in SweepOps \cup Range(SweepEnd)
    PROVE  op.do = "remove" /\ op.to \in Staged /\ op = Unlink(op.to)
<1>1. Range(SweepEnd) = {Unlink(Proof), Unlink(New), Unlink(Marker)}
  BY DEF SweepEnd, Range
<1>2. PICK n \in Staged : op = Unlink(n)
  BY <1>1 DEF SweepOps, Staged
<1> QED
  BY <1>2, OpFields

\* When there are only removals left, each file is restored.
LEMMA AllRestored ==
    ASSUME NEW d, NEW s, Restores(d, s), Range(s) \subseteq SweepOps \cup Range(SweepEnd), NEW i \in Index
    PROVE  Restored(d, i)
<1>1. Log(i) \notin Staged
  BY NameFacts DEF Index
<1> QED
  BY <1>1, SweepTo DEF Restores

\* Removing what is staged leaves the files alone.
LEMMA SweepSlots ==
    ASSUME NEW d, Typed(d), Sorted(d), NEW m \in Staged, NEW e, e = Effect(d, Unlink(m)),
           New \in DOMAIN d => \A i \in Index : Restored(d, i)
    PROVE  /\ Typed(e) /\ SameSlots(d, e) /\ Sorted(e)
           /\ \A i \in Index : Agree(d, e, Log(i))
           /\ New \in DOMAIN e => New \in DOMAIN d /\ e[New] = d[New] /\ \A i \in Index : Restored(e, i)
<1>1. Takes(d, e, m)
  BY UnlinkIs
<1>2. /\ DOMAIN e \subseteq DOMAIN d /\ \A n \in DOMAIN e : e[n] = d[n]
      /\ \A n \in DOMAIN d : n \in DOMAIN e \/ n = m
  BY <1>1 DEF Takes
<1>3. ASSUME NEW i \in Index PROVE Agree(d, e, Log(i))
  <2>1. Log(i) # m
    BY NameFacts DEF Index
  <2> QED
    BY <1>2, <2>1 DEF Agree
<1>4. Typed(e) /\ Sorted(e)
  BY <1>2 DEF Typed, Sorted
<1>5. ASSUME NEW i \in Index, New \in DOMAIN d PROVE Restored(e, i)
  <2>1. Restored(d, i)
    BY <1>5
  <2> QED
    BY <1>2, <1>3, <2>1 DEF Restored, Agree, Sorted
<1>6. ASSUME NEW i \in Index PROVE Slot(e, i) = Slot(d, i)
  <2>1. CASE New \in DOMAIN d
    <3>1. Restored(d, i) /\ Restored(e, i)
      BY <1>5, <2>1
    <3> QED
      BY <1>3, <3>1, RestoredSlot DEF Agree
  <2>2. CASE New \notin DOMAIN d
    <3>1. New \notin DOMAIN e
      BY <1>2, <2>2
    <3> QED
      BY <1>3, <2>2, <3>1 DEF Slot, Agree
  <2> QED
    BY <2>1, <2>2
<1> QED
  BY <1>2, <1>3, <1>4, <1>5, <1>6 DEF SameSlots

\* The next operation of a rotation that is taken back.
LEMMA UndoHead ==
    ASSUME NEW d, NEW s, Undoes(d, s), s # <<>>, New \in DOMAIN d => Restores(d, s)
    PROVE  /\ s \in Seq(AllOps)
           /\ \/ Removes(d, s) /\ (New \in DOMAIN d => \A i \in Index : Restored(d, i))
                 /\ \E m \in Staged : Head(s) = Unlink(m)
              \/ /\ New \in DOMAIN d
                 /\ \E j \in Index :
                      \/ Head(s) = Unlink(Work(j))
                      \/ Head(s) = Link(Source(j), Work(j)) /\ Source(j) \in DOMAIN d
                      \/ Head(s) = Rename(Work(j), Log(j)) /\ Source(j) \in DOMAIN d
                      \/ Head(s) = Unlink(Log(j)) /\ Source(j) \notin DOMAIN d /\ Missing(j) \in DOMAIN d
<1>1. CASE Removes(d, s)
  <2>1. s \in Seq(AllOps) /\ Range(s) \subseteq SweepOps \cup Range(SweepEnd)
    BY <1>1, RemovesRange
  <2>2. New \in DOMAIN d => \A i \in Index : Restored(d, i)
    BY <2>1, AllRestored
  <2> QED
    BY <1>1, <2>1, <2>2, RemoveShape
<1>2. CASE New \in DOMAIN d /\ Ends(s, RestoreOps, CleanupOps) /\ ~Removes(d, s)
  <2>1. s # CleanupOps
    BY <1>2, CleanupIs DEF Removes
  <2>2. s \in Seq(AllOps) /\ Head(s) \in RestoreOps
    BY <1>2, <2>1, EndsStep, OpsAreOps, CleanupIs
  <2>3. PICK j \in Index : Head(s) \in {Unlink(Work(j)), Link(Source(j), Work(j)), Rename(Work(j), Log(j)), Unlink(Log(j))}
    BY <2>2 DEF RestoreOps, Index
  <2>4. CASE Head(s) = Unlink(Work(j))
    BY <1>2, <2>2, <2>4
  <2>5. CASE Head(s) # Unlink(Work(j))
    <3>1. Head(s).to \in {Work(j), Log(j)} /\ (Head(s).do = "remove" => Head(s).to = Log(j))
      BY <2>3, <2>5, OpFields
    <3>2. Head(s) \notin SweepOps \cup Range(SweepEnd)
      <4>1. Log(j) \notin Staged
        BY NameFacts DEF Index
      <4> QED
        BY <3>1, <4>1, SweepTo
    <3>3. PICK i \in Index : Head(s) \in RestoreOf(d, i)
      BY <1>2, <2>2, <3>2, RangeTail DEF Restores
    <3>4. Head(s) \in {Link(Source(i), Work(i)), Rename(Work(i), Log(i)), Unlink(Log(i))}
      BY <3>3 DEF RestoreOf
    <3>5. Head(s).to \in {Work(i), Log(i)}
      BY <3>4, OpFields
    <3>6. i = j
      BY <3>1, <3>5, NamesDiffer
    <3> QED
      BY <1>2, <2>2, <3>3, <3>6 DEF RestoreOf
  <2> QED
    BY <2>4, <2>5
<1> QED
  BY <1>1, <1>2 DEF Undoes

\* It leaves the files alone as recovery would find them.
LEMMA UndoSlots ==
    ASSUME NEW d, Good(d), Typed(d), Sorted(d), NEW s, Undoes(d, s), s # <<>>, New \in DOMAIN d => Restores(d, s),
           Applicable(d, Head(s)), NEW e, e = Effect(d, Head(s))
    PROVE  /\ Typed(e) /\ SameSlots(d, e) /\ Sorted(e)
           /\ New \in DOMAIN e => New \in DOMAIN d /\ e[New] = d[New] /\ Restores(e, Tail(s))
           /\ New \notin DOMAIN d => \A i \in Index : Agree(d, e, Log(i))
<1>1. s \in Seq(AllOps)
  BY UndoHead
<1>2. CASE Removes(d, s) /\ (New \in DOMAIN d => \A i \in Index : Restored(d, i)) /\ \E m \in Staged : Head(s) = Unlink(m)
  <2>1. PICK m \in Staged : Head(s) = Unlink(m)
    BY <1>2
  <2>2. /\ Typed(e) /\ SameSlots(d, e) /\ Sorted(e)
        /\ \A i \in Index : Agree(d, e, Log(i))
        /\ New \in DOMAIN e => New \in DOMAIN d /\ e[New] = d[New] /\ \A i \in Index : Restored(e, i)
    BY <1>2, <2>1, SweepSlots
  <2>3. Tail(s) \in Seq(AllOps) /\ Range(Tail(s)) \subseteq SweepOps \cup Range(SweepEnd)
    BY <1>1, <1>2, RemovesRange, RangeTail
  <2>4. ASSUME NEW k \in 1..Len(Tail(s)), NEW i \in Index PROVE Tail(s)[k] # Rename(Work(i), Log(i))
    <3> DEFINE t == Tail(s)
    <3>1. t[k] \in Range(t)
      <4>1. t \in Seq(AllOps) /\ k \in 1..Len(t)
        BY <2>3
      <4> HIDE DEF t
      <4> QED
        BY <4>1 DEF Range
    <3>2. Tail(s)[k].do = "remove"
      BY <2>3, <3>1, SweepTo
    <3> QED
      BY <3>2, OpFields
  <2>5. New \in DOMAIN e => Restores(e, Tail(s))
    BY <2>2, <2>3, <2>4 DEF Restores
  <2> QED
    BY <2>2, <2>5
<1>3. ASSUME NEW j \in Index, New \in DOMAIN d,
                      \/ Head(s) = Unlink(Work(j))
                      \/ Head(s) = Link(Source(j), Work(j)) /\ Source(j) \in DOMAIN d
                      \/ Head(s) = Rename(Work(j), Log(j)) /\ Source(j) \in DOMAIN d
                      \/ Head(s) = Unlink(Log(j)) /\ Source(j) \notin DOMAIN d /\ Missing(j) \in DOMAIN d
      PROVE  /\ Typed(e) /\ SameSlots(d, e) /\ Sorted(e)
             /\ New \in DOMAIN e => New \in DOMAIN d /\ e[New] = d[New] /\ Restores(e, Tail(s))
  <2>1. Marker \in DOMAIN d
    BY <1>3 DEF Good, Staged
  <2>2. SUFFICES /\ \A i \in Index : Agree(d, e, Source(i)) /\ Agree(d, e, Missing(i))
                 /\ \A i \in Index : i # j => Agree(d, e, Log(i)) /\ Head(s).to # Log(i)
                 /\ \/ Agree(d, e, Log(j)) /\ Head(s).to # Log(j)
                    \/ Saved(d, j) /\ Restored(e, j)
                 /\ Agree(d, e, Marker) /\ Agree(d, e, New)
                 /\ \A i \in Index : Head(s) = Link(Source(i), Work(i)) => Work(i) \in DOMAIN e /\ e[Work(i)] = e[Source(i)]
                 /\ Typed(e)
    <3>1. Restores(e, Tail(s))
      BY <1>1, <1>3, <2>2, RestoreKeeps
    <3>2. SameSlots(d, e)
      BY <1>3, <2>1, <2>2, StagedSlot DEF SameSlots
    <3>3. Sorted(e)
      BY <2>2 DEF Sorted, Agree
    <3> QED
      BY <2>2, <3>1, <3>2, <3>3 DEF Agree
  <2>3. ASSUME NEW i \in Index
        PROVE  /\ {Source(i), Missing(i), Marker, New} \cap {Work(j), Log(j)} = {} /\ Log(i) # Work(j)
               /\ i # j => Log(i) # Log(j)
    BY NamesDiffer
  <2>4. CASE Head(s) = Unlink(Work(j))
    <3>1. Takes(d, e, Work(j)) /\ Head(s).to = Work(j) /\ Head(s).do = "remove"
      BY <2>4, UnlinkIs, OpFields
    <3>2. /\ \A n : n # Work(j) => Agree(d, e, n)
          /\ Typed(e)
      BY <3>1 DEF Takes, Agree, Typed
    <3>3. \A i \in Index : Head(s) # Link(Source(i), Work(i))
      BY <3>1, OpFields
    <3> QED
      BY <2>3, <3>1, <3>2, <3>3
  <2>5. CASE Head(s) = Link(Source(j), Work(j)) /\ Source(j) \in DOMAIN d
    <3>1. Adds(d, e, Work(j), d[Source(j)]) /\ Head(s).to = Work(j) /\ Work(j) \notin DOMAIN d
      BY <2>5, LinkIs, OpFields DEF Applicable
    <3>2. \A n : n # Work(j) => Agree(d, e, n)
      BY <3>1 DEF Adds, Agree
    <3>3. d[Source(j)] \in Inodes /\ Work(j)[1] \notin {"missing", "marker"}
      BY <2>5, NameKinds DEF Typed
    <3>4. Typed(e)
      BY <3>1, <3>3 DEF Adds, Typed
    <3>5. ASSUME NEW i \in Index, Head(s) = Link(Source(i), Work(i)) PROVE Work(i) \in DOMAIN e /\ e[Work(i)] = e[Source(i)]
      <4>1. Work(i) = Work(j)
        BY <3>1, <3>5, OpFields
      <4>2. i = j
        BY <4>1, NamesDiffer
      <4>3. e[Source(j)] = d[Source(j)] /\ Work(j) \in DOMAIN e /\ e[Work(j)] = d[Source(j)]
        BY <2>3, <2>5, <3>1, <3>2 DEF Agree, Adds
      <4> QED
        BY <4>2, <4>3
    <3> QED
      BY <2>3, <3>1, <3>2, <3>4, <3>5
  <2>6. CASE Head(s) = Rename(Work(j), Log(j)) /\ Source(j) \in DOMAIN d
    <3>1. Work(j) \in DOMAIN d /\ Work(j) # Log(j) /\ Head(s).to = Log(j) /\ Head(s).do = "rename"
      BY <2>6, OpFields, NamesDiffer DEF Applicable
    <3>2. Moves(d, e, Work(j), Log(j))
      BY <2>6, <3>1, RenameIs
    <3>3. \A n : n # Work(j) /\ n # Log(j) => Agree(d, e, n)
      BY <3>2 DEF Moves, Agree
    <3>4. d[Work(j)] = d[Source(j)]
      <4>1. 1 \in 1..Len(s) /\ s[1] = Rename(Work(j), Log(j))
        BY <1>1, <2>6
      <4> QED
        BY <1>3, <4>1 DEF Restores
    <3>5. Restored(e, j) /\ Saved(d, j)
      <4>1. Agree(d, e, Source(j))
        BY <2>3, <3>3
      <4> QED
        BY <2>6, <3>2, <3>4, <4>1 DEF Restored, Moves, Agree, Saved
    <3>6. d[Work(j)] \in Inodes /\ Log(j)[1] \notin {"missing", "marker"}
      BY <3>1, NameKinds DEF Typed
    <3>7. Typed(e)
      BY <3>2, <3>6 DEF Typed, Moves
    <3>8. \A i \in Index : Head(s) # Link(Source(i), Work(i))
      BY <3>1, OpFields
    <3> QED
      BY <2>3, <3>1, <3>3, <3>5, <3>7, <3>8
  <2>7. CASE Head(s) = Unlink(Log(j)) /\ Source(j) \notin DOMAIN d /\ Missing(j) \in DOMAIN d
    <3>1. Takes(d, e, Log(j)) /\ Head(s).to = Log(j) /\ Head(s).do = "remove"
      BY <2>7, UnlinkIs, OpFields
    <3>2. /\ \A n : n # Log(j) => Agree(d, e, n)
          /\ Typed(e) /\ Log(j) \notin DOMAIN e
      BY <3>1 DEF Takes, Agree, Typed
    <3>3. Restored(e, j) /\ Saved(d, j)
      <4>1. Agree(d, e, Source(j))
        BY <2>3, <3>2
      <4> QED
        BY <2>7, <3>2, <4>1 DEF Restored, Agree, Saved
    <3>4. \A i \in Index : Head(s) # Link(Source(i), Work(i))
      BY <3>1, OpFields
    <3> QED
      BY <2>3, <3>1, <3>2, <3>3, <3>4
  <2> QED
    BY <1>3, <2>4, <2>5, <2>6, <2>7
<1> QED
  BY <1>2, <1>3, UndoHead

\* What is not there need not be removed.
LEMMA UndoSkip ==
    ASSUME NEW d, NEW s, Undoes(d, s), s # <<>>, New \in DOMAIN d, Restores(d, s),
           Head(s).do = "remove", Head(s).to \notin DOMAIN d
    PROVE  Restores(d, Tail(s))
<1>1. s \in Seq(AllOps)
  BY UndoHead
<1>2. \A n : Agree(d, d, n)
  BY DEF Agree
<1>3. \A i \in Index : Head(s) # Link(Source(i), Work(i))
  BY OpFields
<1>4. CASE \E m \in Staged : Head(s) = Unlink(m)
  <2>1. \A i \in Index : Head(s).to # Log(i)
    BY <1>4, OpFields, NameFacts DEF Index
  <2>2. 0 \in Index
    BY AuditAssumption DEF Index
  <2> QED
    BY <1>1, <1>2, <1>3, <2>1, <2>2, RestoreKeeps
<1>5. ASSUME NEW j \in Index, Head(s) = Unlink(Log(j)), Source(j) \notin DOMAIN d PROVE Restores(d, Tail(s))
  <2>1. Head(s).to = Log(j)
    BY <1>5, OpFields
  <2>2. Restored(d, j)
    BY <1>5, <2>1 DEF Restored
  <2>3. \A i \in Index : i # j => Head(s).to # Log(i)
    BY <2>1, NamesDiffer
  <2> QED
    BY <1>1, <1>2, <1>3, <2>2, <2>3, RestoreKeeps
<1>6. ASSUME NEW j \in Index PROVE Work(j) \in Staged
  BY NameFacts DEF Index, Staged
<1>7. ASSUME NEW j \in Index PROVE Head(s) # Link(Source(j), Work(j)) /\ Head(s) # Rename(Work(j), Log(j))
  BY OpFields
<1> QED
  BY <1>4, <1>5, <1>6, <1>7, UndoHead

\* Where an operation of a concatenation comes from, and the one before it.
Comes(s, seqs, n) ==
    \A k \in 1..Len(s) : \E m \in 1..n : \E q \in 1..Len(seqs[m]) :
        s[k] = seqs[m][q] /\ (q # 1 => k # 1 /\ s[k - 1] = seqs[m][q - 1])

\* Each element of a flattened list comes behind the one before it in its part.
LEMMA FlattenPlace ==
    ASSUME NEW T, NEW n \in Nat \ {0}, NEW seqs \in [1..n -> Seq(T)]
    PROVE  Comes(FlattenSeq(seqs), seqs, n)
<1>1. seqs \in Seq(Seq(T)) /\ Len(seqs) = n /\ \A j \in 1..n : seqs[j] \in Seq(T)
  OBVIOUS
<1>2. PICK f : Flattens(seqs, f) /\ FlattenSeq(seqs) = f[Len(seqs)]
  BY <1>1, FlattenIs
<1>3. \A i \in 1..n : f[i] = IF i = 1 THEN seqs[i] ELSE f[i - 1] \o seqs[i]
  BY <1>1, <1>2 DEF Flattens
<1> DEFINE P(i) == f[i] \in Seq(T) /\ Comes(f[i], seqs, i)
           S == { i \in Nat : i \in 1..n => P(i) }
<1>4. 0 \in S
  OBVIOUS
<1>5. ASSUME NEW i \in Nat, i \in S PROVE i + 1 \in S
  <2> SUFFICES ASSUME i + 1 \in 1..n PROVE P(i + 1)
    OBVIOUS
  <2>1. CASE i = 0
    <3>1. f[1] = seqs[1] /\ seqs[1] \in Seq(T) /\ 1 \in 1..1
      BY <1>1, <1>3
    <3>2. ASSUME NEW t \in Seq(T), t = seqs[1] PROVE Comes(t, seqs, 1)
      <4> SUFFICES ASSUME NEW k \in 1..Len(t)
                   PROVE  \E q \in 1..Len(t) : t[k] = t[q] /\ (q # 1 => k # 1 /\ t[k - 1] = t[q - 1])
        BY <3>1, <3>2 DEF Comes
      <4> QED
        OBVIOUS
    <3> QED
      BY <2>1, <3>1, <3>2
  <2>2. CASE i # 0
    <3>1. i \in 1..n /\ i + 1 # 1 /\ (i + 1) - 1 = i
      BY <2>2
    <3>2. P(i)
      BY <1>5, <3>1
    <3>3. f[i + 1] = f[i] \o seqs[i + 1] /\ seqs[i + 1] \in Seq(T)
      BY <1>1, <1>3, <3>1
    <3> DEFINE a == f[i]
               b == seqs[i + 1]
               c == f[i + 1]
    <3>4. a \in Seq(T) /\ b \in Seq(T) /\ c = a \o b /\ c \in Seq(T) /\ Len(c) = Len(a) + Len(b) /\ Comes(a, seqs, i)
      BY <3>2, <3>3
    <3>5. ASSUME NEW k \in 1..Len(c)
          PROVE  \E m \in 1..(i + 1) : \E q \in 1..Len(seqs[m]) :
                    c[k] = seqs[m][q] /\ (q # 1 => k # 1 /\ c[k - 1] = seqs[m][q - 1])
      <4>1. CASE k <= Len(a)
        <5> HIDE DEF a, b, c
        <5>1. k \in 1..Len(a) /\ c[k] = a[k] /\ (k # 1 => c[k - 1] = a[k - 1])
          BY <3>4, <4>1
        <5>2. PICK m \in 1..i : \E q \in 1..Len(seqs[m]) : a[k] = seqs[m][q] /\ (q # 1 => k # 1 /\ a[k - 1] = seqs[m][q - 1])
          BY <3>4, <5>1 DEF Comes
        <5>3. m \in 1..(i + 1)
          OBVIOUS
        <5> QED
          BY <5>1, <5>2, <5>3
      <4>2. CASE k > Len(a)
        <5> DEFINE q == k - Len(a)
        <5>1. q \in 1..Len(b) /\ c[k] = b[q] /\ (q # 1 => k # 1 /\ c[k - 1] = b[q - 1])
          <6> HIDE DEF a, b, c
          <6>1. q \in 1..Len(b) /\ c[k] = b[q]
            BY <3>4, <4>2
          <6>2. q # 1 => k # 1 /\ k - 1 \in 1..Len(c) /\ k - 1 > Len(a) /\ (k - 1) - Len(a) = q - 1
            BY <3>4, <4>2
          <6>3. q # 1 => c[k - 1] = b[q - 1]
            BY <3>4, <6>2
          <6> QED
            BY <6>1, <6>2, <6>3
        <5>2. i + 1 \in 1..(i + 1)
          OBVIOUS
        <5> HIDE DEF q
        <5> QED
          BY <5>1, <5>2
      <4>3. k <= Len(a) \/ k > Len(a)
        BY <3>4
      <4> HIDE DEF a, b, c
      <4> QED
        BY <4>1, <4>2, <4>3
    <3> QED
      BY <3>4, <3>5 DEF Comes
  <2> QED
    BY <2>1, <2>2
<1>6. Nat \subseteq S
  <2> HIDE DEF S
  <2> QED
    BY <1>4, <1>5, SetInduction
<1>7. P(n)
  <2> HIDE DEF P
  <2> QED
    BY <1>6
<1> QED
  BY <1>1, <1>2, <1>7

\* rollbackRotation restores each file that is staged.
LEMMA RollbackRestores ==
    ASSUME NEW d
    PROVE  Restores(d, RollbackOps(d))
<1> DEFINE part(i) == IF Source(i) \in DOMAIN d
                      THEN <<Unlink(Work(i)), Link(Source(i), Work(i)), Rename(Work(i), Log(i))>>
                      ELSE IF Missing(i) \in DOMAIN d THEN <<Unlink(Log(i))>> ELSE <<>>
           parts == [ k \in 1..(Backups + 1) |-> part(k - 1) ]
<1>1. RollbackOps(d) = FlattenSeq(parts) \o CleanupOps
  BY DEF RollbackOps, PerIndex
<1>2. /\ Backups + 1 \in Nat \ {0} /\ \A k \in 1..(Backups + 1) : k - 1 \in Index
      /\ \A i \in Index : i + 1 \in 1..(Backups + 1) /\ (i + 1) - 1 = i
  BY AuditAssumption DEF Index
<1>3. ASSUME NEW i \in Index
      PROVE  /\ part(i) \in Seq(AllOps)
             /\ RestoreOf(d, i) \subseteq Range(part(i))
             /\ Range(part(i)) \subseteq RestoreOf(d, i) \cup {Unlink(Work(i))}
             /\ \A q \in 1..Len(part(i)) : part(i)[q].do = "rename" =>
                   q # 1 /\ part(i)[q - 1] = Link(Source(i), Work(i)) /\ part(i)[q] = Rename(Work(i), Log(i))
  <2>1. {Unlink(Work(i)), Link(Source(i), Work(i)), Rename(Work(i), Log(i)), Unlink(Log(i))} \subseteq AllOps
    BY DEF RestoreOps, AllOps, Index
  <2>2. Unlink(Work(i)).do = "remove" /\ Link(Source(i), Work(i)).do = "link" /\ Unlink(Log(i)).do = "remove"
    BY OpFields
  <2>3. CASE Source(i) \in DOMAIN d
    <3>1. part(i) = <<Unlink(Work(i)), Link(Source(i), Work(i)), Rename(Work(i), Log(i))>>
      BY <2>3
    <3>2. RestoreOf(d, i) = {Link(Source(i), Work(i)), Rename(Work(i), Log(i))}
      BY <2>3 DEF RestoreOf
    <3> HIDE DEF part
    <3>3. part(i) \in Seq(AllOps)
      BY <2>1, <3>1
    <3>4. Range(part(i)) = {Unlink(Work(i)), Link(Source(i), Work(i)), Rename(Work(i), Log(i))}
      BY <3>1 DEF Range
    <3>5. \A q \in 1..Len(part(i)) : q = 1 \/ q = 2 \/ q = 3
      BY <3>1
    <3>6. part(i)[1].do # "rename" /\ part(i)[2].do # "rename" /\ part(i)[2] = Link(Source(i), Work(i)) /\ part(i)[3] = Rename(Work(i), Log(i))
      BY <2>2, <3>1
    <3> QED
      BY <3>2, <3>3, <3>4, <3>5, <3>6
  <2>4. CASE Source(i) \notin DOMAIN d /\ Missing(i) \in DOMAIN d
    <3>1. part(i) = <<Unlink(Log(i))>> /\ RestoreOf(d, i) = {Unlink(Log(i))}
      BY <2>4 DEF RestoreOf
    <3> HIDE DEF part
    <3>2. part(i) \in Seq(AllOps)
      BY <2>1, <3>1
    <3>3. Range(part(i)) = {Unlink(Log(i))} /\ \A q \in 1..Len(part(i)) : part(i)[q] = Unlink(Log(i))
      BY <3>1 DEF Range
    <3> QED
      BY <2>2, <3>1, <3>2, <3>3
  <2>5. CASE Source(i) \notin DOMAIN d /\ Missing(i) \notin DOMAIN d
    <3>1. part(i) = <<>> /\ RestoreOf(d, i) = {}
      BY <2>5 DEF RestoreOf
    <3> HIDE DEF part
    <3> QED
      BY <3>1 DEF Range
  <2> QED
    BY <2>3, <2>4, <2>5
<1> HIDE DEF part
<1>4. parts \in [1..(Backups + 1) -> Seq(AllOps)] /\ \A k \in 1..(Backups + 1) : parts[k] = part(k - 1)
  BY <1>2, <1>3
<1> HIDE DEF parts
<1> DEFINE flat == FlattenSeq(parts)
           s == RollbackOps(d)
<1>5. flat \in Seq(AllOps) /\ \A x : x \in Range(flat) <=> \E k \in 1..(Backups + 1) : x \in Range(parts[k])
  BY <1>2, <1>4, PartsRange, PartsAre
<1>6. CleanupOps \in Seq(AllOps) /\ Range(CleanupOps) \subseteq SweepOps \cup Range(SweepEnd)
  <2>1. Removes(d, CleanupOps)
    BY CleanupIs DEF Removes
  <2> QED
    BY <2>1, RemovesRange
<1>7. Comes(flat, parts, Backups + 1)
  BY <1>2, <1>4, FlattenPlace
<1>8. s = flat \o CleanupOps
  BY <1>1
<1> HIDE DEF flat, s
<1>9. s \in Seq(AllOps) /\ Range(s) = Range(flat) \cup Range(CleanupOps)
  BY <1>5, <1>6, <1>8, RangeBoth
<1>10. ASSUME NEW i \in Index PROVE RestoreOf(d, i) \subseteq Range(s)
  <2>1. i + 1 \in 1..(Backups + 1) /\ parts[i + 1] = part(i)
    BY <1>2, <1>4
  <2> QED
    BY <1>3, <1>5, <1>9, <2>1
<1>11. ASSUME NEW i \in Index PROVE Restored(d, i) \/ \E op \in RestoreOf(d, i) : op.to = Log(i) /\ op \in Range(s)
  <2>1. CASE Source(i) \in DOMAIN d
    <3>1. Rename(Work(i), Log(i)) \in RestoreOf(d, i) /\ Rename(Work(i), Log(i)).to = Log(i)
      BY <2>1, OpFields DEF RestoreOf
    <3> QED
      BY <1>10, <3>1
  <2>2. CASE Source(i) \notin DOMAIN d /\ Missing(i) \in DOMAIN d
    <3>1. Unlink(Log(i)) \in RestoreOf(d, i) /\ Unlink(Log(i)).to = Log(i)
      BY <2>2, OpFields DEF RestoreOf
    <3> QED
      BY <1>10, <3>1
  <2>3. CASE Source(i) \notin DOMAIN d /\ Missing(i) \notin DOMAIN d
    BY <2>3 DEF Restored
  <2> QED
    BY <2>1, <2>2, <2>3
<1>12. ASSUME NEW op \in Range(s) PROVE op \in SweepOps \cup Range(SweepEnd) \/ \E i \in Index : op \in RestoreOf(d, i)
  <2>1. CASE op \in Range(CleanupOps)
    BY <1>6, <2>1
  <2>2. CASE op \in Range(flat)
    <3>1. PICK k \in 1..(Backups + 1) : op \in Range(parts[k])
      BY <1>5, <2>2
    <3>2. k - 1 \in Index /\ op \in RestoreOf(d, k - 1) \cup {Unlink(Work(k - 1))}
      BY <1>2, <1>3, <1>4, <3>1
    <3>3. Unlink(Work(k - 1)) \in SweepOps
      BY <3>2, NameFacts DEF SweepOps, Index
    <3> QED
      BY <3>2, <3>3
  <2> QED
    BY <1>9, <2>1, <2>2
<1>13. ASSUME NEW i \in Index, NEW k \in 1..Len(s), s[k] = Rename(Work(i), Log(i))
       PROVE  k # 1 /\ s[k - 1] = Link(Source(i), Work(i))
  <2>1. Rename(Work(i), Log(i)).do = "rename" /\ Rename(Work(i), Log(i)).to = Log(i)
    BY OpFields
  <2>2. k \in 1..Len(flat) /\ s[k] = flat[k] /\ (k # 1 => s[k - 1] = flat[k - 1])
    <3>1. CASE k > Len(flat)
      <4>1. k - Len(flat) \in 1..Len(CleanupOps) /\ s[k] = CleanupOps[k - Len(flat)]
        BY <1>5, <1>6, <1>8, <3>1
      <4>2. s[k] \in Range(CleanupOps)
        BY <1>6, <4>1 DEF Range
      <4> QED
        BY <1>6, <1>13, <2>1, <4>2, SweepTo
    <3>2. CASE k <= Len(flat)
      BY <1>5, <1>6, <1>8, <3>2
    <3>3. k \in Nat /\ Len(flat) \in Nat
      BY <1>5
    <3> QED
      BY <3>1, <3>2, <3>3
  <2>3. PICK m \in 1..(Backups + 1) : \E q \in 1..Len(parts[m]) :
           flat[k] = parts[m][q] /\ (q # 1 => k # 1 /\ flat[k - 1] = parts[m][q - 1])
    BY <1>7, <2>2 DEF Comes
  <2>4. PICK q \in 1..Len(parts[m]) : flat[k] = parts[m][q] /\ (q # 1 => k # 1 /\ flat[k - 1] = parts[m][q - 1])
    BY <2>3
  <2>5. m - 1 \in Index /\ parts[m] = part(m - 1)
    BY <1>2, <1>4
  <2>6. q # 1 /\ parts[m][q - 1] = Link(Source(m - 1), Work(m - 1)) /\ parts[m][q] = Rename(Work(m - 1), Log(m - 1))
    <3>1. parts[m][q].do = "rename" /\ q \in 1..Len(part(m - 1))
      BY <1>13, <2>1, <2>2, <2>4, <2>5
    <3> QED
      BY <1>3, <2>5, <3>1
  <2>7. Log(m - 1) = Log(i)
    BY <1>13, <2>1, <2>2, <2>4, <2>6, OpFields
  <2>8. m - 1 = i
    BY <2>7, NamesDiffer
  <2> QED
    BY <2>2, <2>4, <2>6, <2>8
<1>14. Restores(d, s)
  BY <1>11, <1>12, <1>13 DEF Restores
<1> QED
  BY <1>14 DEF s

-----------------------------------------------------------------------------
(* One directory operation of the logger. *)

\* The directory that is synced and the others refer to files by other names only.
LEMMA DirKnown ==
    ASSUME StagingInv
    PROVE  dir \in unsynced /\ Typed(dir) /\ Distinct(dir) /\ Sorted(dir)
BY DEF StagingInv, SlotInv, Distinct, Sorted

\* The new file of a rotation, and a log that is created, have an inode of their own.
LEMMA LogsOnly ==
    ASSUME IInv, StagingInv, unsynced = {dir},
           \A n \in DOMAIN dir : n \in Staged =>
               dir[n] = Metadata \/ \E i \in Index : Log(i) \in DOMAIN dir /\ dir[n] = dir[Log(i)]
    PROVE  Fresh \in Inodes /\ \A n \in DOMAIN dir : dir[n] # Fresh
<1>1. ASSUME NEW n \in DOMAIN dir
      PROVE  dir[n] = Metadata \/ \E i \in Index : Log(i) \in DOMAIN dir /\ dir[n] = dir[Log(i)]
  <2>1. n \in Logs \/ n \in Staged
    BY NameFacts DEF IInv, DirInv, Good
  <2>2. CASE n \in Logs
    BY <2>2 DEF Logs, Index
  <2> QED
    BY <2>1, <2>2
<1> QED
  BY <1>1, FreshIs

\* The new file of a rotation gets an inode that no name leads to: every other staged name
\* is a second name of a log file.
LEMMA FreshWhilePreparing ==
    ASSUME IInv, StagingInv, pc = "ops", phase = "prepare", New \notin DOMAIN dir
    PROVE  Fresh \in Inodes /\ \A n \in DOMAIN dir : dir[n] # Fresh
<1>1. unsynced = {dir}
  BY DEF StagingInv, SyncInv, Working
<1>2. Mirrors(dir, Rest)
  BY DEF StagingInv, StageInv
<1>3. ASSUME NEW n \in DOMAIN dir, n \in Staged
      PROVE  dir[n] = Metadata \/ \E i \in Index : Log(i) \in DOMAIN dir /\ dir[n] = dir[Log(i)]
  <2>1. CASE n \in Swept
    <3>1. PICK i \in Index : n \in {Work(i), Source(i), Missing(i)}
      BY <2>1 DEF Swept, Index
    <3>2. n # Work(i)
      BY <1>2, <1>3 DEF Mirrors
    <3>3. CASE n = Source(i)
      BY <1>2, <1>3, <3>3 DEF Mirrors
    <3>4. CASE n = Missing(i)
      <4>1. n[1] = "missing"
        BY <3>4, NameKinds
      <4> QED
        BY <1>3, <4>1, DirKnown DEF Typed
    <3> QED
      BY <3>1, <3>2, <3>3, <3>4
  <2>2. CASE n = Proof
    <3>1. Log(0) \in DOMAIN dir /\ dir[Log(0)] = dir[Proof]
      BY <1>3, <2>2 DEF IInv, DirInv, Good
    <3>2. 0 \in Index
      BY AuditAssumption DEF Index
    <3> QED
      BY <2>2, <3>1, <3>2
  <2>3. CASE n = Marker
    <3>1. n[1] = "marker"
      BY <2>3, NameKinds
    <3> QED
      BY <1>3, <3>1, DirKnown DEF Typed
  <2> QED
    BY <1>3, <2>1, <2>2, <2>3 DEF Staged
<1> QED
  BY <1>1, <1>3, LogsOnly

\* The inode of a file is one that a name refers to.
LEMMA SlotTaken ==
    ASSUME NEW d, Typed(d), NEW i \in Index
    PROVE  /\ Slot(d, i) = Metadata \/ (Slot(d, i) \in Inodes /\ \E n \in DOMAIN d : d[n] = Slot(d, i))
           /\ Slot(d, i) \in Inodes \cup {Metadata}
<1>1. Source(i)[1] = "source" /\ Log(i)[1] = "log"
  BY NameKinds
<1>2. /\ Source(i) \in DOMAIN d => d[Source(i)] \in Inodes
      /\ Log(i) \in DOMAIN d => d[Log(i)] \in Inodes
  BY <1>1 DEF Typed
<1> QED
  BY <1>2 DEF Slot

\* An empty marker file is none of the inodes that hold lines.
LEMMA MetadataIsNone == Metadata \notin Inodes
BY AuditAssumption DEF Metadata, Inodes

\* Preparing.
LEMMA PrepareOp ==
    ASSUME IInv, StagingInv, pc = "ops", phase = "prepare", todo # <<>>,
           Applicable(dir, Head(todo)), dir' = Effect(dir, Head(todo))
    PROVE  /\ Typed(dir') /\ Distinct(dir') /\ SameSlots(dir, dir') /\ Mirrors(dir', Tail(todo)) /\ Head(todo) # Publish
           /\ New \in DOMAIN dir' => /\ \A i \in Index : Slot(dir', i) # dir'[New]
                                     /\ Log(0) \in DOMAIN dir' => dir'[Log(0)] # dir'[New]
           /\ Head(todo) = CreateNew => /\ Fresh \in Inodes /\ \A n \in DOMAIN dir : dir[n] # Fresh
                                        /\ New \notin DOMAIN dir /\ New \in DOMAIN dir' /\ dir'[New] = Fresh
           /\ Head(todo) # CreateNew => Agree(dir, dir', New)
<1>1. todo \in Seq(AllOps) /\ Good(dir) /\ Prepares(dir, todo) /\ Mirrors(dir, todo) /\ Rest = todo
  BY OpKnown DEF IInv, StagingInv, StageInv
<1>2. Typed(dir) /\ Distinct(dir) /\ Sorted(dir)
  BY DirKnown
<1>3. Head(todo) = CreateNew => /\ Fresh \in Inodes /\ \A n \in DOMAIN dir : dir[n] # Fresh
                                /\ New \notin DOMAIN dir /\ New \in DOMAIN dir' /\ dir'[New] = Fresh
  <2> SUFFICES ASSUME Head(todo) = CreateNew
               PROVE  /\ Fresh \in Inodes /\ \A n \in DOMAIN dir : dir[n] # Fresh
                      /\ New \notin DOMAIN dir /\ New \in DOMAIN dir' /\ dir'[New] = Fresh
    OBVIOUS
  <2>1. New \notin DOMAIN dir
    BY OpFields DEF Applicable
  <2>2. Adds(dir, dir', New, Fresh)
    BY CreateNewIs
  <2> QED
    BY <2>1, <2>2, FreshWhilePreparing DEF Adds
<1>4. /\ Mirrors(dir', Tail(todo)) /\ Typed(dir') /\ SameSlots(dir, dir') /\ Sorted(dir')
      /\ \A i \in Index : (Log(i) \in DOMAIN dir' <=> Log(i) \in DOMAIN dir) /\ (Log(i) \in DOMAIN dir => dir'[Log(i)] = dir[Log(i)])
      /\ New \in DOMAIN dir' => IF Head(todo) = CreateNew THEN dir'[New] = Fresh
                                ELSE New \in DOMAIN dir /\ dir'[New] = dir[New]
      /\ DOMAIN dir \subseteq DOMAIN dir'
  BY <1>1, <1>2, <1>3, PrepareSlots
<1>5. Distinct(dir')
  BY <1>2, <1>4, SameDistinct
<1>6. Head(todo) # Publish
  <2>1. Head(todo).do # "rename"
    <3>1. \/ Head(todo) \in {Create(Marker), CreateNew, Link(New, Proof)}
          \/ \E j \in Index : Head(todo) = Link(Log(j), Source(j))
          \/ \E j \in Index : Head(todo) = Create(Missing(j))
      BY <1>1, PrepareHead
    <3>2. \A m, n : Create(n).do # "rename" /\ CreateNew.do # "rename" /\ Link(m, n).do # "rename"
      BY OpFields
    <3> QED
      BY <3>1, <3>2
  <2> QED
    BY <2>1, OpFields DEF Publish
<1>7. 0 \in Index
  BY AuditAssumption DEF Index
<1>8. New \in DOMAIN dir' => /\ \A i \in Index : Slot(dir', i) # dir'[New]
                             /\ Log(0) \in DOMAIN dir' => dir'[Log(0)] # dir'[New]
  <2>1. CASE Head(todo) = CreateNew
    <3>1. \A i \in Index : Slot(dir, i) # Fresh
      BY <1>2, <1>3, <2>1, SlotTaken, MetadataIsNone
    <3> QED
      BY <1>3, <1>4, <1>7, <2>1, <3>1 DEF SameSlots
  <2>2. CASE Head(todo) # CreateNew
    <3>1. New \in DOMAIN dir => /\ \A i \in Index : Slot(dir, i) # dir[New]
                                /\ Log(0) \in DOMAIN dir => dir[Log(0)] # dir[New]
      BY DEF StagingInv, CommitInv, Rotating
    <3> QED
      BY <1>4, <1>7, <2>2, <3>1 DEF SameSlots
  <2> QED
    BY <2>1, <2>2
<1>9. Head(todo) # CreateNew => Agree(dir, dir', New)
  BY <1>4 DEF Agree
<1> QED
  BY <1>3, <1>4, <1>5, <1>6, <1>8, <1>9

\* The list of applyRotation ends with the commit.
LEMMA ApplyEnds ==
    ASSUME NEW d, NEW s, Applies(d, s), s # <<>>
    PROVE  IF Head(s) = Publish THEN Tail(s) = <<>> ELSE Tail(s) # <<>>
<1>1. Ends(s, ShiftOps, <<Publish>>)
  BY DEF Applies
<1>2. CASE s = <<Publish>>
  BY <1>2
<1>3. CASE Head(s) \in ShiftOps /\ Ends(Tail(s), ShiftOps, <<Publish>>)
  <2>1. Head(s) # Publish
    <3>1. \A op \in ShiftOps : op.do = "rename" => op.to \in Logs /\ op.from \in Swept
      BY OpFacts
    <3>2. Publish.do = "rename" /\ Publish.from = New
      BY OpFields DEF Publish
    <3> QED
      BY <1>3, <3>1, <3>2, NameFacts
  <2>2. PICK y \in Seq(ShiftOps) : Tail(s) = y \o <<Publish>>
    BY <1>3 DEF Ends
  <2>3. Tail(s) # <<>>
    <3>1. y \in Seq(AllOps) /\ Publish \in AllOps
      BY OpsAreOps, SeqMonotonic DEF AllOps
    <3>2. Len(y \o <<Publish>>) = Len(y) + 1
      BY <3>1
    <3> QED
      BY <2>2, <3>2, <3>1
  <2> QED
    BY <2>1, <2>3
<1> QED
  BY <1>1, <1>2, <1>3, EndsStep, OpsAreOps

\* Applying.
LEMMA ApplyOp ==
    ASSUME IInv, StagingInv, pc = "ops", phase = "apply", todo # <<>>,
           ~(Head(todo).do = "remove" /\ Head(todo).to \notin DOMAIN dir),
           Applicable(dir, Head(todo)), dir' = Effect(dir, Head(todo))
    PROVE  /\ Typed(dir') /\ Distinct(dir') /\ New \in DOMAIN dir
           /\ Head(todo) # Publish =>
                 /\ SameSlots(dir, dir') /\ Shifts(dir', Tail(todo)) /\ Tail(todo) # <<>>
                 /\ Agree(dir, dir', New) /\ Agree(dir, dir', Log(0))
           /\ Head(todo) = Publish =>
                 /\ Tail(todo) = <<>> /\ New \notin DOMAIN dir' /\ Log(0) \in DOMAIN dir'
                 /\ dir'[Log(0)] = dir[New] /\ Slot(dir', 0) = dir[New]
                 /\ \A i \in 1..Backups : Slot(dir', i) = Slot(dir, i - 1)
<1>1. todo \in Seq(AllOps) /\ Good(dir) /\ Applies(dir, todo) /\ Rest = todo
  BY OpKnown DEF IInv
<1>2. New \in DOMAIN dir /\ Marker \in DOMAIN dir
  BY <1>1, ApplyStep
<1>3. Shifts(dir, todo)
  BY <1>1, <1>2 DEF StagingInv, StageInv
<1>4. Typed(dir) /\ Distinct(dir) /\ Sorted(dir)
  BY DirKnown
<1>5. CASE Head(todo) = Publish
  <2>1. /\ \A i \in Index : Slot(dir, i) # dir[New]
        /\ Log(0) \in DOMAIN dir => dir[Log(0)] # dir[New]
    BY <1>2 DEF StagingInv, CommitInv, Rotating
  <2>2. Tail(todo) = <<>>
    BY <1>1, <1>5, ApplyEnds
  <2>3. /\ Typed(dir') /\ Distinct(dir') /\ New \notin DOMAIN dir'
        /\ Log(0) \in DOMAIN dir' /\ dir'[Log(0)] = dir[New] /\ Slot(dir', 0) = dir[New]
        /\ \A i \in 1..Backups : Slot(dir', i) = Slot(dir, i - 1)
    BY <1>1, <1>2, <1>3, <1>4, <1>5, <2>1, <2>2, PublishSlots
  <2> QED
    BY <1>2, <1>5, <2>2, <2>3
<1>6. CASE Head(todo) # Publish
  <2>1. /\ Shifts(dir', Tail(todo)) /\ Typed(dir') /\ SameSlots(dir, dir') /\ Sorted(dir')
        /\ Agree(dir, dir', New) /\ Agree(dir, dir', Log(0))
    BY <1>1, <1>2, <1>3, <1>4, <1>6, ShiftSlots
  <2>2. Distinct(dir')
    BY <1>4, <2>1, SameDistinct
  <2> QED
    BY <1>1, <1>2, <1>6, <2>1, <2>2, ApplyEnds
<1> QED
  BY <1>5, <1>6

\* Taking back and removing.
LEMMA UndoOp ==
    ASSUME IInv, StagingInv, pc = "ops", phase \in Undoing, todo # <<>>,
           Applicable(dir, Head(todo)), dir' = Effect(dir, Head(todo))
    PROVE  /\ Typed(dir') /\ Distinct(dir') /\ SameSlots(dir, dir') /\ Head(todo) # Publish /\ Head(todo) # CreateNew
           /\ New \in DOMAIN dir' => New \in DOMAIN dir /\ Restores(dir', Tail(todo))
           /\ New \notin DOMAIN dir => Agree(dir, dir', Log(0))
<1>1. todo \in Seq(AllOps) /\ Good(dir) /\ Undoes(dir, todo) /\ Rest = todo
  BY OpKnown DEF IInv
<1>2. New \in DOMAIN dir => Restores(dir, todo)
  BY <1>1 DEF StagingInv, StageInv
<1>3. Typed(dir) /\ Distinct(dir) /\ Sorted(dir)
  BY DirKnown
<1>4. /\ Typed(dir') /\ SameSlots(dir, dir') /\ Sorted(dir')
      /\ New \in DOMAIN dir' => New \in DOMAIN dir /\ dir'[New] = dir[New] /\ Restores(dir', Tail(todo))
      /\ New \notin DOMAIN dir => \A i \in Index : Agree(dir, dir', Log(i))
  BY <1>1, <1>2, <1>3, UndoSlots
<1>5. Distinct(dir')
  BY <1>3, <1>4, SameDistinct
<1>6. Head(todo) # Publish /\ Head(todo) # CreateNew
  <2>1. Publish.do = "rename" /\ Publish.from = New /\ CreateNew.do = "new"
    BY OpFields DEF Publish
  <2>2. \A j : Work(j) # New
    BY NamesDiffer
  <2>3. Head(todo).do # "new" /\ (Head(todo).do = "rename" => \E j : Head(todo).from = Work(j))
    <3>1. \/ \E m \in Staged : Head(todo) = Unlink(m)
          \/ \E j \in Index : \/ Head(todo) = Unlink(Work(j)) \/ Head(todo) = Link(Source(j), Work(j))
                              \/ Head(todo) = Rename(Work(j), Log(j)) \/ Head(todo) = Unlink(Log(j))
      BY <1>1, <1>2, UndoHead
    <3>2. \A m, n : /\ Unlink(n).do = "remove" /\ Link(m, n).do = "link"
                    /\ Rename(m, n).do = "rename" /\ Rename(m, n).from = m
      BY OpFields
    <3> QED
      BY <3>1, <3>2
  <2> QED
    BY <2>1, <2>2, <2>3
<1>7. 0 \in Index
  BY AuditAssumption DEF Index
<1> QED
  BY <1>4, <1>5, <1>6, <1>7

-----------------------------------------------------------------------------
(* The steps of the logger keep what is staged. *)

\* An operation on the directory is done.
LEMMA DoOpStaging ==
    ASSUME IInv, StagingInv, DoOp
    PROVE  StagingInv'
<1>1. /\ pc = "ops" /\ todo # <<>> /\ Applicable(dir, Head(todo)) /\ dir' = Effect(dir, Head(todo))
      /\ ~(Head(todo).do = "remove" /\ Head(todo).to \notin DOMAIN dir)
      /\ unsynced' = unsynced \cup {dir'} /\ pc' = "sync" /\ phase' = phase /\ todo' = todo /\ syncPending' = syncPending
  BY DEF DoOp
<1>2. phase \in Undoing \cup {"prepare", "apply"} /\ Rest' = Tail(todo)
  BY <1>1, OpKnown DEF IInv, Rest
<1>3. SyncInv'
  BY <1>1 DEF StagingInv, SyncInv
<1>4. Typed(dir') /\ Distinct(dir') => SlotInv'
  BY <1>1 DEF StagingInv, SlotInv
<1>5. CASE phase = "prepare"
  <2>1. /\ Typed(dir') /\ Distinct(dir') /\ Mirrors(dir', Tail(todo))
        /\ New \in DOMAIN dir' => /\ \A i \in Index : Slot(dir', i) # dir'[New]
                                  /\ Log(0) \in DOMAIN dir' => dir'[Log(0)] # dir'[New]
    BY <1>1, <1>5, PrepareOp
  <2>2. StageInv'
    BY <1>1, <1>2, <1>5, <2>1 DEF StageInv, Undoing
  <2>3. CommitInv'
    BY <1>1, <1>5, <2>1 DEF CommitInv, Committed
  <2> QED
    BY <1>3, <1>4, <2>1, <2>2, <2>3 DEF StagingInv
<1>6. CASE phase = "apply"
  <2>1. /\ Typed(dir') /\ Distinct(dir') /\ New \in DOMAIN dir
        /\ Head(todo) # Publish =>
                 /\ SameSlots(dir, dir') /\ Shifts(dir', Tail(todo)) /\ Tail(todo) # <<>>
                 /\ Agree(dir, dir', New) /\ Agree(dir, dir', Log(0))
        /\ Head(todo) = Publish => New \notin DOMAIN dir' /\ Log(0) \in DOMAIN dir'
    BY <1>1, <1>6, ApplyOp
  <2>2. StageInv'
    BY <1>1, <1>2, <1>6, <2>1 DEF StageInv, Undoing
  <2>3. CommitInv'
    <3>1. CASE Head(todo) = Publish
      BY <2>1, <3>1 DEF CommitInv
    <3>2. CASE Head(todo) # Publish
      <4>1. ~Committed'
        BY <1>1, <1>2, <1>6, <2>1, <3>2 DEF Committed
      <4>2. /\ \A i \in Index : Slot(dir, i) # dir[New]
            /\ Log(0) \in DOMAIN dir => dir[Log(0)] # dir[New]
        BY <1>1, <1>6, <2>1 DEF StagingInv, CommitInv, Rotating
      <4> QED
        BY <2>1, <3>2, <4>1, <4>2 DEF CommitInv, Agree, SameSlots
    <3> QED
      BY <3>1, <3>2
  <2> QED
    BY <1>3, <1>4, <2>1, <2>2, <2>3 DEF StagingInv
<1>7. CASE phase \in Undoing
  <2>1. /\ Typed(dir') /\ Distinct(dir')
        /\ New \in DOMAIN dir' => New \in DOMAIN dir /\ Restores(dir', Tail(todo))
        /\ New \notin DOMAIN dir => Agree(dir, dir', Log(0))
    BY <1>1, <1>7, UndoOp
  <2>2. StageInv'
    BY <1>1, <1>2, <1>7, <2>1 DEF StageInv, Undoing
  <2>3. CommitInv'
    <3>1. CASE phase = "cleanup"
      <4>1. New \notin DOMAIN dir /\ Log(0) \in DOMAIN dir
        BY <1>1, <3>1 DEF StagingInv, CommitInv, Rotating, Committed
      <4> QED
        BY <2>1, <4>1 DEF CommitInv, Agree
    <3>2. CASE phase # "cleanup"
      BY <1>1, <1>7, <3>2 DEF CommitInv, Rotating, Undoing
    <3> QED
      BY <3>1, <3>2
  <2> QED
    BY <1>3, <1>4, <2>1, <2>2, <2>3 DEF StagingInv
<1> QED
  BY <1>2, <1>5, <1>6, <1>7

\* A name that is not there is not removed.
LEMMA SkipOpStaging ==
    ASSUME IInv, StagingInv, SkipOp
    PROVE  StagingInv'
<1>1. /\ pc = "ops" /\ todo # <<>> /\ Head(todo).do = "remove" /\ Head(todo).to \notin DOMAIN dir
      /\ todo' = Tail(todo) /\ pc' = "ops" /\ phase' = phase /\ dir' = dir /\ unsynced' = unsynced /\ syncPending' = syncPending
  BY DEF SkipOp, disk
<1>2. /\ Rest = todo /\ Rest' = Tail(todo) /\ todo \in Seq(AllOps) /\ Good(dir)
      /\ phase \in Undoing \cup {"prepare", "apply"}
      /\ phase = "prepare" => Prepares(dir, todo)
      /\ phase = "apply" => Applies(dir, todo)
      /\ phase \in Undoing => Undoes(dir, todo)
  BY <1>1, OpKnown DEF IInv, Rest
<1>3. phase # "prepare"
  BY <1>1, <1>2, PrepareStep
<1>4. SlotInv' /\ SyncInv'
  BY <1>1 DEF StagingInv, SlotInv, SyncInv
<1>5. CASE phase = "apply"
  <2>1. Shifts(dir, todo) /\ New \in DOMAIN dir
    BY <1>1, <1>2, <1>5, ApplyStep DEF StagingInv, StageInv
  <2>2. Shifts(dir, Tail(todo))
    BY <1>1, <1>2, <2>1, ShiftSkip
  <2>3. StageInv'
    BY <1>1, <1>2, <1>5, <2>2 DEF StageInv, Undoing
  <2>4. ~Committed' /\ ~Committed
    <3>1. Head(todo) # Publish
      BY <1>1, OpFields DEF Publish
    <3>2. Tail(todo) # <<>>
      BY <1>1, <1>2, <1>5, <3>1, ApplyEnds
    <3> QED
      BY <1>1, <1>2, <1>5, <3>2 DEF Committed
  <2>5. CommitInv'
    BY <1>1, <1>5, <2>4 DEF StagingInv, CommitInv, Rotating
  <2> QED
    BY <1>4, <2>3, <2>5 DEF StagingInv
<1>6. CASE phase \in Undoing
  <2>1. New \in DOMAIN dir => Restores(dir, Tail(todo))
    BY <1>1, <1>2, <1>6, UndoSkip DEF StagingInv, StageInv
  <2>2. StageInv'
    BY <1>1, <1>2, <1>6, <2>1 DEF StageInv, Undoing
  <2>3. CommitInv'
    BY <1>1, <1>6 DEF StagingInv, CommitInv, Rotating, Committed, Undoing
  <2> QED
    BY <1>4, <2>2, <2>3 DEF StagingInv
<1> QED
  BY <1>2, <1>3, <1>5, <1>6

\* Recovery begins with a rotation that it can take back.
LEMMA RecoverStages ==
    ASSUME Good(dir'), pc' = "ops", phase' \in {"recover", "abort"}, todo' \in {RecoverOps(dir'), RollbackOps(dir')}
    PROVE  StageInv' /\ CommitInv'
<1>1. Rest' = todo' /\ ~Rotating'
  BY DEF Rest, Rotating
<1>2. New \in DOMAIN dir' => RecoverOps(dir') = RollbackOps(dir')
  BY DEF Good, Staged, RecoverOps
<1>3. Restores(dir', RollbackOps(dir'))
  BY RollbackRestores
<1> QED
  BY <1>1, <1>2, <1>3 DEF StageInv, CommitInv

\* When an operation has ended nothing is staged or taken back.
LEMMA EndStages ==
    ASSUME pc' \notin {"sync", "ops"} \/ (pc' = "sync" /\ phase' \in {"begin", "settle", "created"})
    PROVE  StageInv' /\ CommitInv'
BY DEF StageInv, CommitInv, Rotating, Undoing

\* What an error leaves.
LEMMA FailedStages ==
    ASSUME NEW committed \in BOOLEAN, Failed(committed), Good(dir')
    PROVE  /\ StageInv' /\ CommitInv'
           /\ pc' \in {"down", "idle"} \/ (pc' = "ops" /\ phase' = "abort" /\ phase \in {"prepare", "apply"})
<1>1. \/ pc' \in {"down", "idle"}
      \/ /\ pc' = "ops" /\ phase' = "abort" /\ todo' \in {RecoverOps(dir'), RollbackOps(dir')}
         /\ phase \in {"prepare", "apply"}
  BY DEF Failed, ReplyError, Goto
<1> QED
  BY <1>1, RecoverStages, EndStages

\* A call that fails starts the rollback with everything still staged.
LEMMA OpFailsStaging ==
    ASSUME IInv, StagingInv, OpFails, IInv'
    PROVE  StagingInv'
<1>1. pc = "ops" /\ Failed(FALSE) /\ dir' = dir /\ unsynced' = unsynced /\ syncPending' = syncPending
  BY DEF OpFails, disk
<1>2. /\ StageInv' /\ CommitInv'
      /\ pc' \in {"down", "idle"} \/ (pc' = "ops" /\ phase' = "abort" /\ phase \in {"prepare", "apply"})
  BY <1>1, FailedStages DEF IInv, DirInv
<1>3. SlotInv'
  BY <1>1 DEF StagingInv, SlotInv
<1>4. SyncInv'
  BY <1>1, <1>2 DEF StagingInv, SyncInv, Working
<1> QED
  BY <1>2, <1>3, <1>4 DEF StagingInv

\* The new file is only created while a rotation is prepared.
LEMMA NewOp ==
    ASSUME IInv, pc = "ops", todo # <<>>, Head(todo).do = "new"
    PROVE  phase = "prepare" /\ Head(todo) = CreateNew
<1>1. phase = "prepare" /\ Prepares(dir, todo)
  BY OpKnown, ApplyStep, UndoStep DEF IInv
<1>2. \/ Head(todo) \in {Create(Marker), CreateNew, Link(New, Proof)}
      \/ \E j \in Index : Head(todo) = Link(Log(j), Source(j))
      \/ \E j \in Index : Head(todo) = Create(Missing(j))
  BY <1>1, PrepareHead
<1>3. \A m, n : Create(n).do = "create" /\ Link(m, n).do = "link"
  BY OpFields
<1> QED
  BY <1>1, <1>2, <1>3

\* createRotationNewFile fails with the new file there.
LEMMA NewFailsStaging ==
    ASSUME IInv, StagingInv, NewFails, IInv'
    PROVE  StagingInv'
<1>1. /\ pc = "ops" /\ todo # <<>> /\ Head(todo).do = "new" /\ Applicable(dir, Head(todo)) /\ dir' = Effect(dir, Head(todo))
      /\ unsynced' = unsynced \cup {dir'} /\ syncPending' = syncPending /\ Failed(FALSE)
  BY DEF NewFails
<1>2. phase = "prepare" /\ Head(todo) = CreateNew
  BY <1>1, NewOp
<1>3. Typed(dir') /\ Distinct(dir') /\ New \in DOMAIN dir'
  BY <1>1, <1>2, PrepareOp
<1>4. /\ StageInv' /\ CommitInv'
      /\ pc' \in {"down", "idle"} \/ (pc' = "ops" /\ phase' = "abort")
  BY <1>1, FailedStages DEF IInv, DirInv
<1>5. SlotInv'
  BY <1>1, <1>3 DEF StagingInv, SlotInv
<1>6. Marker \in DOMAIN dir'
  BY <1>3 DEF IInv, DirInv, Good, Staged
<1>7. ~syncPending
  BY <1>1, <1>2 DEF StagingInv, SyncInv
<1>8. SyncInv'
  BY <1>1, <1>4, <1>6, <1>7 DEF SyncInv, Working
<1> QED
  BY <1>4, <1>5, <1>8 DEF StagingInv

\* The sync of the directory leaves one directory that a power loss can leave.
LEMMA SyncStaging ==
    ASSUME IInv, StagingInv, Sync, IInv'
    PROVE  StagingInv'
<1>1. pc = "sync" /\ unsynced' = {dir} /\ syncPending' = FALSE /\ dir' = dir
  BY DEF Sync
<1>2. SlotInv' /\ SyncInv'
  BY <1>1 DEF StagingInv, SlotInv, SyncInv
<1>3. CASE phase = "begin"
  <2>1. \/ pc' \in {"down", "idle"}
        \/ pc' = "ops" /\ phase' = "recover" /\ todo' = RecoverOps(dir')
    BY <1>1, <1>3 DEF Sync, ReplyError, Goto
  <2> QED
    BY <1>2, <2>1, RecoverStages, EndStages DEF StagingInv, IInv, DirInv
<1>4. CASE phase # "begin"
  <2>1. pc' = "ops" /\ phase' = phase /\ todo' = IF todo = <<>> THEN <<>> ELSE Tail(todo)
    BY <1>4 DEF Sync, Goto
  <2>2. Rest' = Rest
    BY <1>1, <2>1 DEF Rest
  <2>3. StageInv'
    BY <1>1, <2>1, <2>2 DEF StagingInv, StageInv
  <2>4. CommitInv'
    BY <1>1, <2>1, <2>2 DEF StagingInv, CommitInv, Rotating, Committed
  <2> QED
    BY <1>2, <2>3, <2>4 DEF StagingInv
<1> QED
  BY <1>3, <1>4

\* A sync that fails starts the rollback, or leaves it to the next recovery.
LEMMA SyncFailsStaging ==
    ASSUME IInv, StagingInv, SyncFails, IInv'
    PROVE  StagingInv'
<1> DEFINE committed == todo # <<>> /\ Head(todo) = Publish
<1>1. pc = "sync" /\ unsynced' = unsynced /\ syncPending' = TRUE /\ dir' = dir /\ Failed(committed)
  BY DEF SyncFails
<1>2. committed \in BOOLEAN
  OBVIOUS
<1> HIDE DEF committed
<1>3. /\ StageInv' /\ CommitInv'
      /\ pc' \in {"down", "idle"} \/ (pc' = "ops" /\ phase' = "abort")
  BY <1>1, <1>2, FailedStages DEF IInv, DirInv
<1>4. SlotInv' /\ SyncInv'
  BY <1>1, <1>3 DEF StagingInv, SlotInv, SyncInv, Working
<1> QED
  BY <1>3, <1>4 DEF StagingInv

\* A phase begins with what the one before it has left.
LEMMA PhaseDoneStaging ==
    ASSUME IInv, StagingInv, PhaseDone, IInv'
    PROVE  StagingInv'
<1>1. /\ pc = "ops" /\ todo = <<>> /\ dir' = dir /\ unsynced' = unsynced /\ syncPending' = syncPending
      /\ phase \in {"recover", "abort", "cleanup", "created", "settle", "prepare", "apply"}
  BY DEF PhaseDone, disk, IInv, PhaseInv, Undoing
<1>2. Rest = <<>>
  BY <1>1 DEF Rest
<1>3. SlotInv'
  BY <1>1 DEF StagingInv, SlotInv
<1>4. CASE phase = "recover"
  <2>1. pc' = "open"
    BY <1>4 DEF PhaseDone, Goto
  <2>2. DOMAIN dir \cap Staged = {}
    BY <1>1, <1>2, <1>4, Undone DEF IInv, PhaseInv, Undoing
  <2>3. unsynced = {dir} /\ ~syncPending
    BY <1>1, <1>4, <2>2 DEF StagingInv, SyncInv, Staged
  <2>4. SyncInv'
    BY <1>1, <2>1, <2>3 DEF SyncInv
  <2> QED
    BY <1>3, <2>1, <2>4, EndStages DEF StagingInv
<1>5. CASE phase = "created"
  <2>1. pc' = "write"
    BY <1>5 DEF PhaseDone, Goto
  <2>2. unsynced = {dir} /\ ~syncPending
    BY <1>1, <1>5 DEF StagingInv, SyncInv, Working
  <2>3. SyncInv'
    BY <1>1, <2>1, <2>2 DEF SyncInv
  <2> QED
    BY <1>3, <2>1, <2>3, EndStages DEF StagingInv
<1>6. CASE phase = "prepare"
  <2>1. pc' = "ops" /\ phase' = "apply" /\ todo' = ApplyOps(dir)
    BY <1>6 DEF PhaseDone, Goto
  <2>2. Prepares(dir, <<>>) /\ Mirrors(dir, <<>>)
    BY <1>1, <1>2, <1>6 DEF IInv, PhaseInv, StagingInv, StageInv
  <2>3. Log(0) \in DOMAIN dir
    BY <2>2, Prepared
  <2>4. Shifts(dir, ApplyOps(dir))
    BY <2>2, <2>3, ApplyShifts
  <2>5. Rest' = ApplyOps(dir)
    BY <2>1 DEF Rest
  <2>6. ApplyOps(dir) # <<>>
    <3>1. PICK y \in Seq(ShiftOps) : ApplyOps(dir) = y \o <<Publish>>
      BY <2>3, ApplyIs DEF Ends
    <3>2. y \in Seq(AllOps) /\ Publish \in AllOps
      BY OpsAreOps, SeqMonotonic DEF AllOps
    <3>3. Len(y \o <<Publish>>) = Len(y) + 1
      BY <3>2
    <3> QED
      BY <3>1, <3>2, <3>3
  <2>7. StageInv'
    BY <1>1, <2>1, <2>4, <2>5 DEF StageInv, Undoing
  <2>8. ~Committed'
    BY <2>1, <2>5, <2>6 DEF Committed
  <2>9. CommitInv'
    BY <1>1, <1>6, <2>8 DEF StagingInv, CommitInv, Rotating
  <2>10. SyncInv'
    BY <1>1, <1>6, <2>1 DEF StagingInv, SyncInv, Working
  <2> QED
    BY <1>3, <2>7, <2>9, <2>10 DEF StagingInv
<1>7. CASE phase = "apply"
  <2>1. pc' = "ops" /\ phase' = "cleanup" /\ todo' = CleanupOps
    BY <1>7 DEF PhaseDone, Goto
  <2>2. New \notin DOMAIN dir /\ Log(0) \in DOMAIN dir
    BY <1>1, <1>2, <1>7 DEF StagingInv, CommitInv, Rotating, Committed
  <2>3. StageInv' /\ CommitInv'
    BY <1>1, <2>1, <2>2 DEF StageInv, CommitInv
  <2>4. SyncInv'
    BY <1>1, <1>7, <2>1 DEF StagingInv, SyncInv, Working
  <2> QED
    BY <1>3, <2>3, <2>4 DEF StagingInv
<1>8. CASE phase \in {"settle", "cleanup", "abort"}
  <2>1. pc' \in {"idle", "down"}
    BY <1>8 DEF PhaseDone, ReplyOK, ReplyError, Goto
  <2>2. SyncInv'
    BY <1>1, <2>1 DEF StagingInv, SyncInv
  <2> QED
    BY <1>3, <2>1, <2>2, EndStages DEF StagingInv
<1> QED
  BY <1>1, <1>4, <1>5, <1>6, <1>7, <1>8

\* A call begins with the recovery of what is staged.
LEMMA BeginStaging ==
    ASSUME IInv, StagingInv, Start \/ Write, IInv'
    PROVE  StagingInv'
<1>1. pc \in {"down", "idle"} /\ dir' = dir /\ unsynced' = unsynced /\ syncPending' = syncPending
  BY DEF Start, Write, Begin, disk
<1>2. SlotInv'
  BY <1>1 DEF StagingInv, SlotInv
<1>3. \/ pc' = "sync" /\ phase' = "begin"
      \/ pc = "idle" /\ pc' = "idle"
      \/ pc = "idle" /\ ~syncPending /\ pc' = "ops" /\ phase' = "recover" /\ todo' = RecoverOps(dir')
  BY <1>1 DEF Start, Write, Begin, Goto
<1>4. SyncInv'
  BY <1>1, <1>3 DEF StagingInv, SyncInv, Working
<1> QED
  BY <1>2, <1>3, <1>4, RecoverStages, EndStages DEF StagingInv, IInv, DirInv

\* The log is created.
LEMMA CreatesLog ==
    ASSUME IInv, StagingInv, pc = "open", Log(0) \notin DOMAIN dir, dir' = Put(dir, Log(0), Fresh)
    PROVE  /\ Fresh \in Inodes /\ \A n \in DOMAIN dir : dir[n] # Fresh
           /\ Typed(dir') /\ Distinct(dir') /\ Adds(dir, dir', Log(0), Fresh)
           /\ Slot(dir, 0) = Metadata /\ Slot(dir', 0) = Fresh
           /\ \A i \in 1..Backups : Slot(dir', i) = Slot(dir, i)
<1>1. unsynced = {dir} /\ DOMAIN dir \cap Staged = {}
  BY DEF StagingInv, SyncInv, IInv, PhaseInv
<1>2. Fresh \in Inodes /\ \A n \in DOMAIN dir : dir[n] # Fresh
  BY <1>1, LogsOnly
<1>3. Adds(dir, dir', Log(0), Fresh)
  BY PutIs
<1>4. Typed(dir) /\ Distinct(dir)
  BY DirKnown
<1>5. Log(0)[1] \notin {"missing", "marker"}
  BY NameKinds
<1>6. Typed(dir')
  BY <1>2, <1>3, <1>4, <1>5 DEF Typed, Adds
<1>7. Marker \notin DOMAIN dir /\ Marker \notin DOMAIN dir'
  BY <1>1, <1>3, NamesDiffer DEF Staged, Adds
<1>8. Slot(dir, 0) = Metadata /\ Slot(dir', 0) = Fresh
  BY <1>3, <1>7 DEF Slot, Adds
<1>9. ASSUME NEW i \in 1..Backups PROVE Slot(dir', i) = Slot(dir, i) /\ Slot(dir', i) # Fresh
  <2>1. i # 0 /\ Log(i) # Log(0) /\ i \in Index
    BY NamesDiffer DEF Index
  <2>2. Slot(dir', i) = Slot(dir, i)
    BY <1>3, <1>7, <2>1 DEF Slot, Adds
  <2>3. Slot(dir, i) # Fresh
    BY <1>2, <1>4, <2>1, SlotTaken, MetadataIsNone
  <2> QED
    BY <2>2, <2>3
<1>10. Distinct(dir')
  <2>1. ASSUME NEW i \in Index, NEW j \in Index, i # j, Slot(dir', i) = Slot(dir', j) PROVE Slot(dir', i) = Metadata
    <3>1. \A k \in Index : k = 0 \/ k \in 1..Backups
      BY AuditAssumption DEF Index
    <3>2. CASE i = 0 \/ j = 0
      BY <1>8, <1>9, <2>1, <3>1, <3>2
    <3>3. CASE i # 0 /\ j # 0
      BY <1>4, <1>9, <2>1, <3>1, <3>3 DEF Distinct
    <3> QED
      BY <3>2, <3>3
  <2>2. ASSUME NEW i \in Index PROVE ~(Source(i) \in DOMAIN dir' /\ Missing(i) \in DOMAIN dir')
    BY <1>3, <1>4, NamesDiffer DEF Adds, Distinct
  <2> QED
    BY <2>1, <2>2 DEF Distinct
<1> QED
  BY <1>2, <1>3, <1>6, <1>8, <1>9, <1>10

\* A log that is created is a file of its own.
LEMMA OpenStaging ==
    ASSUME IInv, StagingInv, Open, IInv'
    PROVE  StagingInv'
<1>1. pc = "open" /\ syncPending' = syncPending
  BY DEF Open
<1>2. unsynced = {dir} /\ ~syncPending
  BY <1>1 DEF StagingInv, SyncInv
<1>3. CASE Log(0) \in DOMAIN dir
  <2>1. dir' = dir /\ unsynced' = unsynced /\ (pc' = "write" \/ (pc' = "sync" /\ phase' = "settle"))
    BY <1>3 DEF Open, Goto
  <2>2. SlotInv' /\ SyncInv'
    BY <1>1, <1>2, <2>1 DEF StagingInv, SlotInv, SyncInv
  <2> QED
    BY <2>1, <2>2, EndStages DEF StagingInv
<1>4. CASE Log(0) \notin DOMAIN dir
  <2>1. dir' = Put(dir, Log(0), Fresh) /\ unsynced' = unsynced \cup {dir'} /\ pc' = "sync" /\ phase' \in {"settle", "created"}
    BY <1>4 DEF Open, Goto
  <2>2. Typed(dir') /\ Distinct(dir')
    BY <1>1, <1>4, <2>1, CreatesLog
  <2>3. SlotInv' /\ SyncInv'
    BY <1>1, <1>2, <2>1, <2>2 DEF StagingInv, SlotInv, SyncInv
  <2> QED
    BY <2>1, <2>3, EndStages DEF StagingInv
<1> QED
  BY <1>3, <1>4

\* A rotation begins with nothing staged.
LEMMA RotateStaging ==
    ASSUME IInv, StagingInv, WriteRotates
    PROVE  StagingInv'
<1>1. /\ pc = "write" /\ pc' = "ops" /\ phase' = "prepare" /\ todo' = PrepareOps(dir)
      /\ dir' = dir /\ unsynced' = unsynced /\ syncPending' = syncPending
  BY DEF WriteRotates, Goto, disk
<1>2. unsynced = {dir} /\ ~syncPending /\ Log(0) \in DOMAIN dir /\ DOMAIN dir \cap Staged = {}
  BY <1>1 DEF StagingInv, SyncInv, IInv, PhaseInv
<1>3. Mirrors(dir, PrepareOps(dir))
  BY <1>2, PrepareMirrors
<1>4. Rest' = PrepareOps(dir)
  BY <1>1 DEF Rest
<1>5. StageInv'
  BY <1>1, <1>3, <1>4 DEF StageInv, Undoing
<1>6. CommitInv'
  BY <1>1, <1>2 DEF CommitInv, Committed, Staged
<1>7. SlotInv' /\ SyncInv'
  BY <1>1, <1>2 DEF StagingInv, SlotInv, SyncInv
<1> QED
  BY <1>5, <1>6, <1>7 DEF StagingInv

\* The end of a call, a crash and a power loss leave nothing in progress.
LEMMA EndStaging ==
    ASSUME IInv, StagingInv, OpenFails \/ WriteAppends \/ AppendFails \/ Crash \/ PowerLoss
    PROVE  StagingInv'
<1>1. pc' \in {"down", "idle"}
  BY DEF OpenFails, WriteAppends, AppendFails, Crash, PowerLoss, ReplyError, ReplyOK, Goto
<1>2. CASE OpenFails \/ WriteAppends \/ AppendFails
  <2>1. dir' = dir /\ unsynced' = unsynced /\ syncPending' = syncPending /\ pc \in {"open", "write"}
    BY <1>2 DEF OpenFails, WriteAppends, AppendFails
  <2>2. SlotInv' /\ SyncInv'
    BY <1>1, <2>1 DEF StagingInv, SlotInv, SyncInv
  <2> QED
    BY <1>1, <2>2, EndStages DEF StagingInv
<1>3. CASE Crash
  <2>1. dir' = dir /\ unsynced' = unsynced /\ syncPending' = FALSE /\ pc' = "down"
    BY <1>3 DEF Crash, Goto
  <2>2. SlotInv' /\ SyncInv'
    BY <2>1 DEF StagingInv, SlotInv, SyncInv
  <2> QED
    BY <1>1, <2>2, EndStages DEF StagingInv
<1>4. CASE PowerLoss
  <2>1. dir' \in unsynced /\ unsynced' = {dir'} /\ syncPending' = FALSE /\ pc' = "down"
    BY <1>4 DEF PowerLoss, Goto
  <2>2. SlotInv' /\ SyncInv'
    BY <2>1 DEF StagingInv, SlotInv, SyncInv
  <2> QED
    BY <1>1, <2>2, EndStages DEF StagingInv
<1> QED
  BY <1>2, <1>3, <1>4

\* Every step keeps what is staged and what the files are in agreement.
LEMMA NextStaging ==
    ASSUME IInv, StagingInv, Next, IInv'
    PROVE  StagingInv'
BY DoOpStaging, SkipOpStaging, OpFailsStaging, NewFailsStaging, SyncStaging, SyncFailsStaging, PhaseDoneStaging,
   BeginStaging, OpenStaging, RotateStaging, EndStaging DEF Next

\* The files of an earlier daemon are distinct, and nothing is staged.
LEMMA InitStaging ==
    ASSUME Init
    PROVE  StagingInv
<1>1. PICK n \in 0..Backups : dir = [ name \in { Log(i) : i \in 0..(n - 1) } |-> name[2] + 1 ]
  BY DEF Init
<1>2. /\ \A m \in DOMAIN dir : \E i \in 0..(n - 1) : m = Log(i)
      /\ \A i \in 0..(n - 1) : Log(i) \in DOMAIN dir /\ dir[Log(i)] = i + 1
  <2>1. \A i : Log(i)[2] = i
    BY DEF Log
  <2> QED
    BY <1>1, <2>1
<1>3. unsynced = {dir} /\ pc = "down" /\ syncPending = FALSE
  BY DEF Init
<1>4. Typed(dir)
  <2> SUFFICES ASSUME NEW m \in DOMAIN dir PROVE dir[m] \in Inodes /\ m[1] \notin {"missing", "marker"}
    BY DEF Typed
  <2>1. PICK i \in 0..(n - 1) : m = Log(i)
    BY <1>2
  <2> QED
    BY <1>2, <2>1, NameKinds, AuditAssumption DEF Inodes
<1>5. /\ Marker \notin DOMAIN dir
      /\ \A i \in Index : Source(i) \notin DOMAIN dir
  BY <1>2, NamesDiffer
<1>6. ASSUME NEW i \in Index PROVE Slot(dir, i) = Metadata \/ (Slot(dir, i) = i + 1)
  <2>1. CASE Log(i) \in DOMAIN dir
    <3>1. PICK j \in 0..(n - 1) : Log(i) = Log(j)
      BY <1>2, <2>1
    <3>2. i = j
      BY <3>1, NamesDiffer
    <3> QED
      BY <1>2, <1>5, <2>1, <3>2 DEF Slot
  <2>2. CASE Log(i) \notin DOMAIN dir
    BY <1>5, <2>2 DEF Slot
  <2> QED
    BY <2>1, <2>2
<1>7. Distinct(dir)
  BY <1>5, <1>6, AuditAssumption DEF Distinct, Index
<1> QED
  BY <1>3, <1>4, <1>7 DEF StagingInv, SlotInv, SyncInv, StageInv, CommitInv, Rotating

-----------------------------------------------------------------------------
(* The lines of a file. *)

\* A torn line is no event.
LEMMA NumbersAre ==
    /\ Torn \notin Nat
    /\ MaxEvents \in Nat /\ Starting = 0
    /\ \A w \in Nat : \A x \in 1..w : x # Torn
BY AuditAssumption DEF Starting

\* A new file, an empty one and one that a later event is written behind.
LEMMA FormedEmpty ==
    ASSUME NEW w, NEW S
    PROVE  WellFormed(Empty, w, S) /\ \A e : Older(Empty, e)
BY DEF WellFormed, Older, Empty, IsTorn

\* Every file is older than the next event.
LEMMA FormedLater ==
    ASSUME NEW w \in Nat, NEW S, NEW file, WellFormed(file, w, S)
    PROVE  WellFormed(file, w + 1, S) /\ Older(file, w + 1)
<1>1. 1..w \subseteq 1..(w + 1) /\ w + 1 \notin (1..w) \cup {Torn}
  BY NumbersAre
<1> QED
  BY <1>1 DEF WellFormed, Older

\* A file that createRotationNewFile leaves, whole or in part.
LEMMA FormedNew ==
    ASSUME NEW w \in Nat, NEW e \in 1..w, NEW S, e \notin S, Torn \notin S, NEW file,
           \/ file.lines \in {<<>>, <<Torn>>, <<e>>} /\ file.synced = 0
           \/ file.lines = <<e>> /\ file.synced = 1
    PROVE  WellFormed(file, w, S)
<1>1. e # Torn
  BY NumbersAre
<1>2. CASE file.lines = <<>> /\ file.synced = 0
  BY <1>2 DEF WellFormed, IsTorn
<1>3. CASE file.lines = <<Torn>> /\ file.synced = 0
  BY <1>3 DEF WellFormed, IsTorn
<1>4. CASE file.lines = <<e>> /\ file.synced \in 0..1
  <2>1. ~IsTorn(<<e>>)
    BY <1>1 DEF IsTorn, Last
  <2> QED
    BY <1>4, <2>1 DEF WellFormed
<1> QED
  BY <1>2, <1>3, <1>4

\* The last line of what is written behind a file.
LEMMA AppendedIs ==
    ASSUME NEW lines \in Seq(Nat \cup {Torn}), NEW x \in Nat \cup {Torn}
    PROVE  /\ Append(lines, x) = lines \o <<x>> /\ Len(Append(lines, x)) = Len(lines) + 1
           /\ \A k \in 1..(Len(lines) + 1) : Append(lines, x)[k] = IF k <= Len(lines) THEN lines[k] ELSE x
           /\ IsTorn(Append(lines, x)) <=> x = Torn
           /\ Append(lines, x) \in Seq(Nat \cup {Torn})
<1>1. /\ Append(lines, x) \in Seq(Nat \cup {Torn}) /\ Len(Append(lines, x)) = Len(lines) + 1 /\ Append(lines, x) # <<>>
      /\ Append(lines, x)[Len(lines) + 1] = x /\ Append(lines, x) = lines \o <<x>>
  OBVIOUS
<1>2. \A k \in 1..(Len(lines) + 1) : Append(lines, x)[k] = IF k <= Len(lines) THEN lines[k] ELSE x
  OBVIOUS
<1>3. IsTorn(Append(lines, x)) <=> x = Torn
  BY <1>1 DEF IsTorn, Last
<1> QED
  BY <1>1, <1>2, <1>3

\* All but the last line.
LEMMA FrontIs ==
    ASSUME NEW lines \in Seq(Nat \cup {Torn}), lines # <<>>
    PROVE  /\ Front(lines) \in Seq(Nat \cup {Torn}) /\ Len(Front(lines)) = Len(lines) - 1
           /\ \A k \in 1..(Len(lines) - 1) : Front(lines)[k] = lines[k] /\ k \in 1..Len(lines)
<1>1. Len(lines) \in Nat /\ Len(lines) - 1 \in Nat /\ Len(lines) - 1 <= Len(lines)
  OBVIOUS
<1>2. \A n \in Nat : n <= Len(lines) =>
         /\ SubSeq(lines, 1, n) \in Seq(Nat \cup {Torn}) /\ Len(SubSeq(lines, 1, n)) = n
         /\ \A k \in 1..n : SubSeq(lines, 1, n)[k] = lines[k] /\ k \in 1..Len(lines)
  BY <1>1
<1>3. Front(lines) = SubSeq(lines, 1, Len(lines) - 1)
  BY DEF Front
<1> QED
  BY <1>1, <1>2, <1>3

\* The line that was written last is what Front cuts off.
LEMMA FrontAppended ==
    ASSUME NEW lines \in Seq(Nat \cup {Torn}), NEW x \in Nat \cup {Torn}
    PROVE  Front(Append(lines, x)) = lines
<1> DEFINE more == Append(lines, x)
<1>1. /\ more \in Seq(Nat \cup {Torn}) /\ Len(more) = Len(lines) + 1 /\ more # <<>> /\ Len(lines) \in Nat
      /\ \A k \in 1..Len(lines) : more[k] = lines[k]
  OBVIOUS
<1> HIDE DEF more
<1> DEFINE z == Front(more)
<1>2. z \in Seq(Nat \cup {Torn}) /\ Len(z) = Len(lines) /\ \A k \in 1..Len(z) : z[k] = lines[k]
  <2>1. Len(more) - 1 = Len(lines)
    BY <1>1
  <2> QED
    BY <1>1, <2>1, FrontIs
<1> HIDE DEF z
<1>3. z = lines
  BY <1>2, SeqEqual
<1> QED
  BY <1>3 DEF z, more

\* An event, or part of its line, is written behind a file that is older.
LEMMA FormedAppend ==
    ASSUME NEW w \in Nat, NEW e \in 1..w, NEW S, NEW file \in Files, WellFormed(file, w, S), Older(file, e), e \notin S,
           Torn \notin S, ~IsTorn(file.lines), NEW x \in {e, Torn}, NEW n \in Nat,
           \/ n = file.synced
           \/ x = e /\ n = Len(file.lines) + 1
    PROVE  WellFormed([ lines |-> Append(file.lines, x), synced |-> n ], w, S)
<1> DEFINE lines == file.lines
           more == Append(lines, x)
<1>1. lines \in Seq(Nat \cup {Torn}) /\ x \in Nat \cup {Torn} /\ x \in (1..w) \cup {Torn}
  BY DEF Files
<1>2. /\ Len(more) = Len(lines) + 1
      /\ \A k \in 1..(Len(lines) + 1) : more[k] = IF k <= Len(lines) THEN lines[k] ELSE x
      /\ IsTorn(more) <=> x = Torn
  BY <1>1, AppendedIs
<1>3. /\ file.synced \in 0..Len(lines) /\ Len(lines) \in Nat
      /\ \A k \in 1..Len(lines) : lines[k] \in (1..w) \cup {Torn} /\ (lines[k] \in S => k <= file.synced)
  BY <1>1 DEF WellFormed
<1> HIDE DEF lines, more
<1>4. ASSUME NEW k \in 1..(Len(lines) + 1)
      PROVE  more[k] \in (1..w) \cup {Torn} /\ (more[k] \in S => k <= n)
  <2>1. CASE k <= Len(lines)
    <3>1. k \in 1..Len(lines) /\ more[k] = lines[k]
      BY <1>2, <1>3, <2>1
    <3>2. file.synced <= n
      BY <1>3 DEF lines
    <3> QED
      BY <1>3, <3>1, <3>2
  <2>2. CASE ~(k <= Len(lines))
    BY <1>1, <1>2, <2>2
  <2> QED
    BY <2>1, <2>2
<1>5. n \in 0..(Len(lines) + 1) /\ (x = Torn => n < Len(lines) + 1)
  <2>1. e # Torn
    BY NumbersAre
  <2> QED
    BY <1>3, <2>1 DEF lines
<1>6. WellFormed([ lines |-> more, synced |-> n ], w, S)
  BY <1>2, <1>4, <1>5 DEF WellFormed
<1> QED
  BY <1>6 DEF more, lines

\* The event of a file is confirmed: it is on disk there, and in no other file.
LEMMA FormedConfirmed ==
    ASSUME NEW w, NEW e, NEW S, NEW file, WellFormed(file, w, S),
           e \in Durable => \A k \in 1..Len(file.lines) : file.lines[k] = e => k <= file.synced
    PROVE  WellFormed(file, w, S \cup ({e} \cap Durable))
BY DEF WellFormed

\* The torn line is cut off.
LEMMA FormedFront ==
    ASSUME NEW w, NEW S, NEW file \in Files, Tidy(file.lines), WellFormed(file, w, S), IsTorn(file.lines),
           NEW n \in {file.synced, Len(file.lines) - 1}
    PROVE  /\ WellFormed([ lines |-> Front(file.lines), synced |-> n ], w, S)
           /\ \A e : Older(file, e) => Older([ lines |-> Front(file.lines), synced |-> n ], e)
           /\ Whole(Front(file.lines)) = Whole(file.lines)
<1> DEFINE lines == file.lines
           less == Front(lines)
<1>1. lines \in Seq(Nat \cup {Torn}) /\ lines # <<>>
  BY DEF Files, IsTorn
<1>2. Len(less) = Len(lines) - 1 /\ \A k \in 1..Len(less) : k \in 1..Len(lines) /\ less[k] = lines[k]
  BY <1>1, FrontIs
<1>3. ~IsTorn(less)
  BY <1>1, FrontIsTidy
<1>4. /\ file.synced \in 0..Len(lines) /\ file.synced < Len(lines) /\ Len(lines) \in Nat
      /\ \A k \in 1..Len(lines) : lines[k] \in (1..w) \cup {Torn} /\ (lines[k] \in S => k <= file.synced)
  BY <1>1 DEF WellFormed
<1>5. n \in 0..Len(less) /\ file.synced <= n
  BY <1>2, <1>4
<1>6. Whole(less) = Whole(lines)
  BY <1>3 DEF Whole
<1> HIDE DEF lines, less
<1>7. WellFormed([ lines |-> less, synced |-> n ], w, S)
  <2>1. ASSUME NEW k \in 1..Len(less), less[k] \in S PROVE k <= n
    <3>1. k <= file.synced
      BY <1>2, <1>4, <2>1
    <3> QED
      BY <1>2, <1>4, <1>5, <3>1
  <2> QED
    BY <1>2, <1>3, <1>4, <1>5, <2>1 DEF WellFormed
<1>8. \A e : Older(file, e) => Older([ lines |-> less, synced |-> n ], e)
  BY <1>2 DEF Older, lines
<1> QED
  BY <1>6, <1>7, <1>8 DEF less, lines

\* What is left of a file after a power loss is a part of it that has every confirmed event.
LEMMA FormedRemains ==
    ASSUME NEW w \in Nat, NEW S, Torn \notin S, NEW file \in Files, Tidy(file.lines), WellFormed(file, w, S),
           NEW rest \in Remains(file)
    PROVE  /\ WellFormed(rest, w, S)
           /\ \E n \in 0..Len(Whole(file.lines)) :
                 /\ Whole(rest.lines) = SubSeq(Whole(file.lines), 1, n)
                 /\ \A k \in (n + 1)..Len(Whole(file.lines)) : Whole(file.lines)[k] \notin S
<1> DEFINE lines == file.lines
           kept(n) == SubSeq(lines, 1, n)
           whole   == IF IsTorn(lines) THEN Len(lines) - 1 ELSE Len(lines)
<1>1. lines \in Seq(Nat \cup {Torn}) /\ Len(lines) \in Nat
  BY DEF Files
<1>2. /\ file.synced \in 0..Len(lines) /\ (IsTorn(lines) => file.synced < Len(lines))
      /\ \A k \in 1..Len(lines) : lines[k] \in (1..w) \cup {Torn} /\ (lines[k] \in S => k <= file.synced)
  BY <1>1 DEF WellFormed
<1>3. PICK n \in file.synced..whole :
          \/ rest = [ lines |-> kept(n), synced |-> n ]
          \/ n <= Len(lines) - 1 /\ rest = [ lines |-> Append(kept(n), Torn), synced |-> n ]
  <2>1. \/ \E n \in file.synced..whole : rest = [ lines |-> kept(n), synced |-> n ]
        \/ \E n \in file.synced..(Len(lines) - 1) : rest = [ lines |-> Append(kept(n), Torn), synced |-> n ]
    BY DEF Remains
  <2>2. \A n \in file.synced..(Len(lines) - 1) : n \in file.synced..whole /\ n <= Len(lines) - 1
    BY <1>1, <1>2
  <2> QED
    BY <2>1, <2>2
<1>4. /\ whole \in 0..Len(lines) /\ n \in 0..whole /\ n \in 0..Len(lines) /\ file.synced <= n
      /\ IsTorn(lines) => whole = Len(lines) - 1
      /\ ~IsTorn(lines) => whole = Len(lines)
      /\ IsTorn(lines) => Len(lines) # 0
  <2>1. IsTorn(lines) => Len(lines) # 0
    BY <1>1 DEF IsTorn
  <2> QED
    BY <1>1, <1>2, <1>3, <2>1
<1>5. kept(n) \in Seq(Nat \cup {Torn}) /\ Len(kept(n)) = n /\ \A k \in 1..n : kept(n)[k] = lines[k] /\ k \in 1..Len(lines)
  BY <1>1, <1>4
<1>6. Len(Whole(lines)) = whole /\ Whole(lines) \in Seq(Nat \cup {Torn}) /\ \A k \in 1..whole : Whole(lines)[k] = lines[k]
  <2>1. CASE IsTorn(lines)
    <3>1. lines # <<>> /\ Whole(lines) = Front(lines) /\ whole = Len(lines) - 1
      BY <2>1 DEF Whole, IsTorn
    <3> QED
      BY <1>1, <3>1, FrontIs
  <2>2. CASE ~IsTorn(lines)
    <3>1. Whole(lines) = lines /\ whole = Len(lines)
      BY <2>2 DEF Whole
    <3> QED
      BY <1>1, <3>1
  <2> QED
    BY <2>1, <2>2
<1>7. ~IsTorn(kept(n))
  <2> SUFFICES ASSUME IsTorn(kept(n)) PROVE FALSE
    OBVIOUS
  <2>1. n # 0 /\ kept(n)[n] = Torn
    BY <1>5 DEF IsTorn, Last
  <2>2. lines[n] = Torn /\ n \in 1..Len(lines)
    BY <1>4, <1>5, <2>1
  <2>3. n = Len(lines)
    BY <2>2 DEF Tidy
  <2>4. IsTorn(lines)
    BY <1>1, <2>2, <2>3 DEF IsTorn, Last
  <2> QED
    BY <1>1, <1>4, <2>3, <2>4
<1> HIDE DEF lines, whole, kept
<1>8. SubSeq(Whole(lines), 1, n) = kept(n)
  <2> DEFINE y == Whole(lines)
  <2>1. y \in Seq(Nat \cup {Torn}) /\ Len(y) = whole /\ \A k \in 1..n : y[k] = lines[k]
    BY <1>4, <1>6
  <2> HIDE DEF y
  <2>2. SubSeq(y, 1, n) \in Seq(Nat \cup {Torn}) /\ Len(SubSeq(y, 1, n)) = n /\ \A k \in 1..n : SubSeq(y, 1, n)[k] = y[k]
    BY <1>4, <2>1
  <2>3. SubSeq(y, 1, n) = kept(n)
    <3> DEFINE z == SubSeq(y, 1, n)
    <3>1. z \in Seq(Nat \cup {Torn}) /\ Len(z) = Len(kept(n)) /\ \A k \in 1..Len(z) : z[k] = kept(n)[k]
      BY <1>5, <2>1, <2>2
    <3> HIDE DEF z
    <3>2. z = kept(n)
      BY <1>5, <3>1, SeqEqual
    <3> QED
      BY <3>2 DEF z
  <2> QED
    BY <2>3 DEF y
<1>9. ASSUME NEW k \in (n + 1)..whole PROVE Whole(lines)[k] \notin S
  <2>1. k \in 1..whole /\ k \in 1..Len(lines) /\ ~(k <= file.synced)
    BY <1>1, <1>2, <1>4
  <2> QED
    BY <1>2, <1>6, <2>1
<1>10. Whole(rest.lines) = kept(n) /\ WellFormed(rest, w, S)
  <2>1. ASSUME NEW k \in 1..n PROVE kept(n)[k] \in (1..w) \cup {Torn} /\ (kept(n)[k] \in S => k <= n)
    BY <1>2, <1>5
  <2>2. CASE rest = [ lines |-> kept(n), synced |-> n ]
    <3>1. rest.lines = kept(n) /\ rest.synced = n
      BY <2>2
    <3> QED
      BY <1>4, <1>5, <1>7, <2>1, <3>1 DEF WellFormed, Whole
  <2>3. CASE rest = [ lines |-> Append(kept(n), Torn), synced |-> n ]
    <3> DEFINE more == Append(kept(n), Torn)
    <3>1. /\ Len(more) = n + 1 /\ IsTorn(more)
          /\ \A k \in 1..(n + 1) : more[k] = IF k <= n THEN kept(n)[k] ELSE Torn
      <4> DEFINE y == kept(n)
      <4>1. y \in Seq(Nat \cup {Torn}) /\ Len(y) = n
        BY <1>5
      <4> HIDE DEF y
      <4>2. /\ Len(Append(y, Torn)) = Len(y) + 1 /\ IsTorn(Append(y, Torn))
            /\ \A k \in 1..(Len(y) + 1) : Append(y, Torn)[k] = IF k <= Len(y) THEN y[k] ELSE Torn
        BY <4>1, AppendedIs
      <4> QED
        BY <4>1, <4>2 DEF y
    <3>2. Front(more) = kept(n)
      BY <1>5, FrontAppended
    <3>3. rest.lines = more /\ rest.synced = n
      BY <2>3
    <3> HIDE DEF more
    <3>4. ASSUME NEW k \in 1..(n + 1) PROVE more[k] \in (1..w) \cup {Torn} /\ (more[k] \in S => k <= n)
      <4>1. CASE k <= n
        BY <1>4, <2>1, <3>1, <4>1
      <4>2. CASE ~(k <= n)
        BY <3>1, <4>2
      <4> QED
        BY <4>1, <4>2
    <3>5. WellFormed(rest, w, S)
      BY <1>4, <3>1, <3>3, <3>4 DEF WellFormed
    <3> QED
      BY <3>1, <3>2, <3>3, <3>5 DEF Whole
  <2> QED
    BY <1>3, <2>2, <2>3
<1> QED
  BY <1>4, <1>6, <1>8, <1>9, <1>10 DEF lines

-----------------------------------------------------------------------------
(* The steps of the logger keep the files. *)

\* What is known of the event in progress and of the files.
LEMMA EventKnown ==
    ASSUME IInv, RInv
    PROVE  /\ written \in Nat /\ event \in Nat /\ Torn \notin safe /\ safe \subseteq 1..written
           /\ Running /\ event # Starting => event \in 1..written /\ event = written /\ event \notin safe
           /\ data \in [Inodes -> Files]
           /\ \A i \in Inodes : data[i] \in Files /\ Tidy(data[i].lines) /\ WellFormed(data[i], written, safe)
<1>1. written \in Nat /\ event \in Nat /\ safe \subseteq 1..written
  BY DEF IInv, FileInv, RInv, FormInv
<1>2. Torn \notin safe
  BY <1>1, NumbersAre
<1>3. Running /\ event # Starting => event \in 1..written /\ event = written /\ event \notin safe
  BY <1>1 DEF RInv, TurnInv, Starting
<1>4. data \in [Inodes -> Files] /\ \A i \in Inodes : Tidy(data[i].lines)
  BY DEF IInv, FileInv, FilesOK
<1> QED
  BY <1>1, <1>2, <1>3, <1>4 DEF RInv, FormInv

\* The inode of the event does not change but when the new file is created.
LEMMA MeantIs ==
    ASSUME IInv, StagingInv, DoOp, phase \in {"prepare", "apply", "cleanup"}
    PROVE  IF Head(todo) = CreateNew
           THEN Meant = {} /\ Meant' = {Fresh} /\ Fresh \in Inodes /\ phase = "prepare" /\ \A n \in DOMAIN dir : dir[n] # Fresh
           ELSE Meant' = Meant
<1>1. /\ pc = "ops" /\ todo # <<>> /\ Applicable(dir, Head(todo)) /\ dir' = Effect(dir, Head(todo))
      /\ ~(Head(todo).do = "remove" /\ Head(todo).to \notin DOMAIN dir)
      /\ pc' = "sync" /\ phase' = phase /\ todo' = todo
  BY DEF DoOp
<1>2. Rest = todo /\ Rest' = Tail(todo)
  BY <1>1 DEF Rest
<1>3. CASE phase = "prepare"
  <2>1. ~Committed /\ ~Committed'
    BY <1>1, <1>3 DEF Committed
  <2>2. /\ Head(todo) = CreateNew => /\ Fresh \in Inodes /\ \A n \in DOMAIN dir : dir[n] # Fresh
                                     /\ New \notin DOMAIN dir /\ New \in DOMAIN dir' /\ dir'[New] = Fresh
        /\ Head(todo) # CreateNew => Agree(dir, dir', New)
    BY <1>1, <1>3, PrepareOp
  <2> QED
    BY <1>3, <2>1, <2>2 DEF Meant, Agree
<1>4. CASE phase = "apply"
  <2>1. /\ New \in DOMAIN dir
        /\ Head(todo) # Publish => Tail(todo) # <<>> /\ Agree(dir, dir', New)
        /\ Head(todo) = Publish => Tail(todo) = <<>> /\ dir'[Log(0)] = dir[New]
    BY <1>1, <1>4, ApplyOp
  <2>2. ~Committed /\ (Committed' <=> Head(todo) = Publish)
    BY <1>1, <1>2, <1>4, <2>1 DEF Committed
  <2>3. Head(todo) # CreateNew
    BY <1>1, <1>4, OpKnown, ApplyStep, OpFields DEF IInv
  <2> QED
    BY <2>1, <2>2, <2>3 DEF Meant, Agree
<1>5. CASE phase = "cleanup"
  <2>1. Committed /\ Committed'
    BY <1>1, <1>5 DEF Committed
  <2>2. New \notin DOMAIN dir /\ Log(0) \in DOMAIN dir
    BY <1>1, <1>5, <2>1 DEF StagingInv, CommitInv, Rotating
  <2>3. Agree(dir, dir', Log(0)) /\ Head(todo) # CreateNew
    BY <1>1, <1>5, <2>2, UndoOp DEF Undoing
  <2> QED
    BY <2>1, <2>2, <2>3 DEF Meant, Agree
<1> QED
  BY <1>3, <1>4, <1>5

\* One file is written anew.
LEMMA FormOne ==
    ASSUME IInv, RInv, NEW x \in Inodes, NEW file, WellFormed(file, written, safe),
           data' = [data EXCEPT ![x] = file], UNCHANGED <<written, safe, event>>
    PROVE  FormInv' /\ data'[x] = file /\ \A i \in Inodes : i # x => data'[i] = data[i]
<1>1. data'[x] = file /\ \A i \in Inodes : i # x => data'[i] = data[i]
  BY EventKnown
<1>2. ASSUME NEW i \in Inodes PROVE WellFormed(data'[i], written', safe')
  BY <1>1, EventKnown
<1> QED
  BY <1>1, <1>2 DEF RInv, FormInv

\* No file is written to.
LEMMA FormSame ==
    ASSUME RInv, UNCHANGED <<data, written, safe>>, event' \in 0..MaxEvents
    PROVE  FormInv'
BY DEF RInv, FormInv

\* The new file holds the event and is on disk if it must be.
LEMMA DoOpFiles ==
    ASSUME IInv, RInv, DoOp
    PROVE  FormInv' /\ TurnInv' /\ RotationInv'
<1>1. /\ pc = "ops" /\ todo # <<>> /\ pc' = "sync" /\ phase' = phase /\ todo' = todo
      /\ UNCHANGED <<written, safe, event>>
      /\ data' = IF Head(todo).do = "new"
                 THEN [data EXCEPT ![Fresh] = [ lines |-> <<event>>, synced |-> IF event \in Durable THEN 1 ELSE 0 ]]
                 ELSE data
  BY DEF DoOp
<1>2. phase \in Undoing \cup {"prepare", "apply"}
  BY <1>1, OpKnown DEF IInv
<1>3. Running /\ Running' /\ (Rotating' <=> Rotating) /\ ~Created' /\ (Rotating <=> phase \in {"prepare", "apply", "cleanup"})
  BY <1>1, <1>2 DEF Running, Rotating, Created, Undoing
<1>4. Rotating => event # Starting /\ \A i \in Inodes : IF i \in Meant THEN HoldsEvent(data[i], event) ELSE Older(data[i], event)
  BY DEF RInv, TurnInv, RotationInv
<1>5. CASE Head(todo).do = "new"
  <2>1. phase = "prepare" /\ Head(todo) = CreateNew
    BY <1>1, <1>5, NewOp
  <2>2. Meant = {} /\ Meant' = {Fresh} /\ Fresh \in Inodes
    BY <2>1, MeantIs DEF RInv
  <2> DEFINE file == [ lines |-> <<event>>, synced |-> IF event \in Durable THEN 1 ELSE 0 ]
  <2>3. event # Starting /\ Rotating
    BY <1>3, <1>4, <2>1
  <2>4. file.lines = <<event>> /\ file.synced \in {0, 1} /\ (event \in Durable => file.synced = 1)
    OBVIOUS
  <2>5. data' = [data EXCEPT ![Fresh] = file]
    BY <1>1, <1>5
  <2> HIDE DEF file
  <2>6. WellFormed(file, written, safe)
    BY <1>3, <2>3, <2>4, EventKnown, FormedNew
  <2>7. FormInv' /\ data'[Fresh] = file /\ \A i \in Inodes : i # Fresh => data'[i] = data[i]
    BY <1>1, <2>2, <2>5, <2>6, FormOne
  <2>8. RotationInv'
    <3> SUFFICES ASSUME NEW i \in Inodes
                 PROVE  IF i \in Meant' THEN HoldsEvent(data'[i], event') ELSE Older(data'[i], event')
      BY DEF RotationInv
    <3>1. CASE i = Fresh
      BY <1>1, <2>2, <2>4, <2>7, <3>1 DEF HoldsEvent
    <3>2. CASE i # Fresh
      BY <1>1, <1>4, <2>2, <2>3, <2>7, <3>2
    <3> QED
      BY <3>1, <3>2
  <2>9. TurnInv'
    BY <1>1, <1>3, <2>1, <2>3 DEF RInv, TurnInv
  <2> QED
    BY <2>7, <2>8, <2>9
<1>6. CASE Head(todo).do # "new"
  <2>1. data' = data
    BY <1>1, <1>6
  <2>2. FormInv'
    BY <1>1, <2>1, FormSame DEF RInv, FormInv
  <2>3. Rotating => Meant' = Meant
    BY <1>3, <1>6, MeantIs, OpFields DEF RInv
  <2>4. RotationInv'
    BY <1>1, <1>3, <1>4, <2>1, <2>3 DEF RotationInv
  <2>5. TurnInv'
    BY <1>1, <1>3, <2>1 DEF RInv, TurnInv
  <2> QED
    BY <2>2, <2>4, <2>5
<1> QED
  BY <1>5, <1>6

\* A name that is not there is not removed.
LEMMA SkipOpFiles ==
    ASSUME IInv, RInv, SkipOp
    PROVE  FormInv' /\ TurnInv' /\ RotationInv'
<1>1. /\ pc = "ops" /\ todo # <<>> /\ Head(todo).do = "remove" /\ Head(todo).to \notin DOMAIN dir
      /\ todo' = Tail(todo) /\ pc' = pc /\ phase' = phase /\ dir' = dir
      /\ UNCHANGED <<data, written, safe, event>>
  BY DEF SkipOp, disk
<1>2. FormInv'
  BY <1>1, FormSame DEF RInv, FormInv
<1>3. (Running' <=> Running) /\ (Rotating' <=> Rotating) /\ (Created' <=> Created)
  BY <1>1 DEF Running, Rotating, Created
<1>4. TurnInv'
  BY <1>1, <1>3 DEF RInv, TurnInv
<1>5. Committed' <=> Committed
  <2>1. phase = "apply" => Tail(todo) # <<>>
    BY <1>1, OpKnown, ApplyEnds, OpFields DEF IInv, Publish
  <2> QED
    BY <1>1, <2>1 DEF Committed, Rest
<1>6. RotationInv'
  BY <1>1, <1>3, <1>5 DEF RInv, RotationInv, Meant
<1> QED
  BY <1>2, <1>4, <1>6

\* An error: the operation ends, or the rotation is taken back.
LEMMA FailedTurn ==
    ASSUME IInv, RInv, NEW committed \in BOOLEAN, Failed(committed), pc \in {"sync", "ops"}
    PROVE  TurnInv' /\ RotationInv' /\ UNCHANGED <<written, safe, event>>
<1>1. /\ \/ pc' \in {"down", "idle"} /\ phase' = "none"
         \/ pc' = "ops" /\ phase' = "abort"
      /\ UNCHANGED <<written, safe, event>>
  BY DEF Failed, ReplyError, Goto
<1>2. ~Rotating' /\ ~Created' /\ pc' # "write" /\ (Running' => phase' = "abort") /\ Running
  BY <1>1 DEF Rotating, Created, Running
<1> QED
  BY <1>1, <1>2 DEF RInv, TurnInv, RotationInv

\* A call or a sync that fails writes to no file.
LEMMA FailsFiles ==
    ASSUME IInv, RInv, OpFails \/ SyncFails
    PROVE  FormInv' /\ TurnInv' /\ RotationInv'
<1>1. data' = data /\ pc \in {"sync", "ops"} /\ \E committed \in BOOLEAN : Failed(committed)
  BY DEF OpFails, SyncFails, disk
<1>2. TurnInv' /\ RotationInv' /\ UNCHANGED <<written, safe, event>>
  BY <1>1, FailedTurn
<1> QED
  BY <1>1, <1>2, FormSame DEF RInv, FormInv

\* A new file that is written in part is none of the log.
LEMMA NewFailsFiles ==
    ASSUME IInv, RInv, NewFails
    PROVE  FormInv' /\ TurnInv' /\ RotationInv'
<1>1. /\ pc = "ops" /\ todo # <<>> /\ Head(todo).do = "new" /\ Applicable(dir, Head(todo)) /\ dir' = Effect(dir, Head(todo))
      /\ Failed(FALSE)
  BY DEF NewFails
<1>2. PICK lines \in {<<>>, <<Torn>>, <<event>>} : data' = [data EXCEPT ![Fresh] = [ lines |-> lines, synced |-> 0 ]]
  BY DEF NewFails
<1>3. TurnInv' /\ RotationInv' /\ UNCHANGED <<written, safe, event>>
  BY <1>1, FailedTurn
<1>4. phase = "prepare" /\ Head(todo) = CreateNew
  BY <1>1, NewOp
<1>5. Fresh \in Inodes
  BY <1>1, <1>4, PrepareOp DEF RInv
<1>6. Running /\ event # Starting
  BY <1>1, <1>4 DEF Running, Rotating, RInv, TurnInv
<1>7. WellFormed([ lines |-> lines, synced |-> 0 ], written, safe)
  <2> DEFINE file == [ lines |-> lines, synced |-> 0 ]
  <2>1. file.lines \in {<<>>, <<Torn>>, <<event>>} /\ file.synced = 0
    OBVIOUS
  <2> HIDE DEF file
  <2>2. WellFormed(file, written, safe)
    BY <1>6, <2>1, EventKnown, FormedNew
  <2> QED
    BY <2>2 DEF file
<1>8. FormInv'
  BY <1>2, <1>3, <1>5, <1>7, FormOne
<1> QED
  BY <1>3, <1>8

\* A file that is freed is empty.
LEMMA FreedIs ==
    ASSUME NEW d, NEW f, NEW i \in Inodes
    PROVE  /\ Freed(d, f)[i] = f[i] \/ Freed(d, f)[i] = Empty
           /\ (\E n \in DOMAIN d : d[n] = i) => Freed(d, f)[i] = f[i]
BY DEF Freed

\* The sync frees only files that have no name, never the one that is meant for the event.
LEMMA SyncFiles ==
    ASSUME IInv, RInv, Sync
    PROVE  FormInv' /\ TurnInv' /\ RotationInv'
<1>1. pc = "sync" /\ data' = Freed(dir, data) /\ dir' = dir /\ UNCHANGED <<event, written, safe>>
  BY DEF Sync, ReplyError
<1>2. \/ phase = "begin" /\ pc' \in {"down", "idle"} /\ phase' = "none"
      \/ phase = "begin" /\ pc' = "ops" /\ phase' = "recover"
      \/ phase # "begin" /\ pc' = "ops" /\ phase' = phase /\ todo' = IF todo = <<>> THEN <<>> ELSE Tail(todo)
  BY DEF Sync, ReplyError, Goto
<1>3. ASSUME NEW i \in Inodes
      PROVE  /\ WellFormed(data'[i], written', safe')
             /\ \A e : Older(data[i], e) => Older(data'[i], e)
             /\ (\E n \in DOMAIN dir : dir[n] = i) => data'[i] = data[i]
  BY <1>1, EventKnown, FormedEmpty, FreedIs
<1>4. FormInv'
  BY <1>1, <1>3 DEF RInv, FormInv
<1>5. TurnInv'
  <2>1. Running
    BY <1>1 DEF Running
  <2>2. (Rotating' => Rotating) /\ (Created' => Created) /\ pc' # "write" /\ pc' # "open"
    BY <1>1, <1>2 DEF Rotating, Created
  <2>3. Running' /\ phase' \in {"none", "begin", "recover", "created"} => phase \in {"none", "begin", "recover", "created"}
    BY <1>2 DEF Running
  <2> QED
    BY <1>1, <1>2, <1>3, <2>1, <2>2, <2>3 DEF RInv, TurnInv
<1>6. RotationInv'
  <2> SUFFICES ASSUME Rotating', NEW i \in Inodes
               PROVE  IF i \in Meant' THEN HoldsEvent(data'[i], event') ELSE Older(data'[i], event')
    BY DEF RotationInv
  <2>1. Rotating /\ phase' = phase /\ pc' = "ops" /\ Rest' = Rest
    BY <1>1, <1>2 DEF Rotating, Rest
  <2>2. Meant' = Meant
    BY <1>1, <2>1 DEF Meant, Committed
  <2>3. IF i \in Meant THEN HoldsEvent(data[i], event) ELSE Older(data[i], event)
    BY <2>1 DEF RInv, RotationInv
  <2>4. i \in Meant => \E n \in DOMAIN dir : dir[n] = i
    BY <2>1 DEF Meant, RInv, StagingInv, CommitInv
  <2> QED
    BY <1>1, <1>3, <2>2, <2>3, <2>4
<1> QED
  BY <1>4, <1>5, <1>6

\* The end of the cleanup confirms the event: it is on disk, once.
LEMMA PhaseDoneFiles ==
    ASSUME IInv, RInv, PhaseDone
    PROVE  FormInv' /\ TurnInv' /\ RotationInv'
<1>1. /\ pc = "ops" /\ todo = <<>> /\ dir' = dir /\ data' = data /\ event' = event /\ written' = written
      /\ phase \in {"recover", "abort", "cleanup", "created", "settle", "prepare", "apply"}
  BY DEF PhaseDone, disk, IInv, PhaseInv, Undoing
<1>2. Rest = <<>> /\ Running
  BY <1>1 DEF Rest, Running
<1>3. phase # "cleanup" => safe' = safe
  BY <1>1 DEF PhaseDone, ReplyError
<1>4. phase # "cleanup" => FormInv'
  BY <1>1, <1>3, FormSame DEF RInv, FormInv
<1>5. CASE phase \in {"recover", "created"}
  <2>1. pc' = (IF phase = "recover" THEN "open" ELSE "write") /\ phase' = "none"
    BY <1>1, <1>5 DEF PhaseDone, Goto
  <2>2. ~Rotating' /\ ~Created'
    BY <2>1 DEF Rotating, Created
  <2>3. phase = "created" => event # Starting
    BY <1>1 DEF RInv, TurnInv, Created
  <2>4. TurnInv'
    BY <1>1, <1>2, <1>5, <1>3, <2>1, <2>2, <2>3 DEF RInv, TurnInv
  <2> QED
    BY <1>4, <1>5, <2>2, <2>4 DEF RotationInv
<1>6. CASE phase \in {"prepare", "apply"}
  <2>1. pc' = "ops" /\ phase' = (IF phase = "prepare" THEN "apply" ELSE "cleanup") /\ Rotating /\ Rotating' /\ ~Created'
    BY <1>1, <1>6 DEF PhaseDone, Goto, Rotating, Created
  <2>2. phase = "prepare" => Rest' # <<>>
    <3> SUFFICES ASSUME phase = "prepare" PROVE Rest' # <<>>
      OBVIOUS
    <3>1. Log(0) \in DOMAIN dir
      BY <1>1, <1>2, Prepared DEF IInv, PhaseInv
    <3>2. PICK y \in Seq(ShiftOps) : ApplyOps(dir) = y \o <<Publish>>
      BY <3>1, ApplyIs DEF Ends
    <3>3. y \in Seq(AllOps) /\ Publish \in AllOps
      BY OpsAreOps, SeqMonotonic DEF AllOps
    <3>4. Len(y \o <<Publish>>) = Len(y) + 1
      BY <3>3
    <3>5. todo' = ApplyOps(dir)
      BY <1>1 DEF PhaseDone, Goto
    <3> QED
      BY <2>1, <3>2, <3>3, <3>4, <3>5 DEF Rest
  <2>3. Committed' <=> Committed
    BY <1>2, <1>6, <2>1, <2>2 DEF Committed
  <2>4. Meant' = Meant
    BY <1>1, <2>3 DEF Meant
  <2>5. RotationInv'
    BY <1>1, <2>1, <2>4 DEF RInv, RotationInv
  <2>6. TurnInv'
    BY <1>1, <1>2, <1>6, <1>3, <2>1 DEF RInv, TurnInv
  <2> QED
    BY <1>4, <1>6, <2>5, <2>6
<1>7. CASE phase \in {"settle", "abort", "cleanup"}
  <2>1. pc' \in {"idle", "down"} /\ phase' = "none"
    BY <1>1, <1>7 DEF PhaseDone, Goto, ReplyError, ReplyOK
  <2>2. ~Rotating' /\ ~Created' /\ ~Running' /\ pc' # "write"
    BY <2>1 DEF Rotating, Created, Running
  <2>3. TurnInv' /\ RotationInv'
    BY <2>1, <2>2 DEF TurnInv, RotationInv
  <2>4. CASE phase = "cleanup"
    <3>1. safe' = safe \cup ({event} \cap Durable) /\ Rotating
      BY <1>1, <2>4 DEF PhaseDone, ReplyOK, Rotating
    <3>2. event \in 1..written /\ \A i \in Inodes : HoldsEvent(data[i], event) \/ Older(data[i], event)
      BY <1>2, <3>1, EventKnown DEF RInv, TurnInv, RotationInv
    <3>3. ASSUME NEW i \in Inodes PROVE WellFormed(data[i], written, safe \cup ({event} \cap Durable))
      <4>1. event \in Durable => \A k \in 1..Len(data[i].lines) : data[i].lines[k] = event => k <= data[i].synced
        BY <3>2 DEF HoldsEvent, Older
      <4> QED
        BY <4>1, EventKnown, FormedConfirmed
    <3>4. FormInv'
      BY <1>1, <3>1, <3>2, <3>3 DEF RInv, FormInv
    <3> QED
      BY <2>3, <3>4
  <2> QED
    BY <1>4, <2>3, <2>4
<1> QED
  BY <1>1, <1>5, <1>6, <1>7

\* The next event is newer than everything that was written.
LEMMA BeginFiles ==
    ASSUME IInv, RInv, Start \/ Write
    PROVE  FormInv' /\ TurnInv' /\ RotationInv'
<1>1. data' = data /\ safe' = safe
  BY DEF Start, Write, Begin, disk
<1>2. \/ pc' = "idle" /\ phase' = "none"
      \/ pc' = "ops" /\ phase' = "recover"
      \/ pc' = "sync" /\ phase' = "begin"
  BY DEF Start, Write, Begin, Goto
<1>3. ~Rotating' /\ ~Created' /\ pc' # "write"
  BY <1>2 DEF Rotating, Created
<1>4. CASE Start
  <2>1. event' = Starting /\ written' = written
    BY <1>4 DEF Start, Begin
  <2>2. FormInv'
    BY <1>1, <2>1, FormSame, NumbersAre
  <2>3. TurnInv'
    BY <1>2, <1>3, <2>1 DEF TurnInv, Running
  <2> QED
    BY <1>3, <2>2, <2>3 DEF RotationInv
<1>5. CASE Write
  <2>1. event' = written + 1 /\ written' = written + 1 /\ written < MaxEvents
    BY <1>5 DEF Write, Begin
  <2>2. written \in Nat /\ safe \subseteq 1..written /\ MaxEvents \in Nat
    BY EventKnown, NumbersAre
  <2>3. ASSUME NEW i \in Inodes PROVE WellFormed(data[i], written + 1, safe) /\ Older(data[i], written + 1)
    BY <2>2, EventKnown, FormedLater
  <2>4. FormInv'
    <3>1. safe \subseteq 1..(written + 1) /\ written + 1 \in 0..MaxEvents
      BY <2>1, <2>2
    <3> QED
      BY <1>1, <2>1, <2>3, <3>1 DEF RInv, FormInv
  <2>5. written + 1 \notin safe
    BY <2>2
  <2>6. TurnInv'
    BY <1>1, <1>2, <1>3, <2>1, <2>3, <2>5 DEF TurnInv, Running
  <2> QED
    BY <1>3, <2>4, <2>6 DEF RotationInv
<1> QED
  BY <1>4, <1>5

\* The file that is open.
LEMMA CurrentIs ==
    ASSUME IInv, StagingInv, Log(0) \in DOMAIN dir
    PROVE  dir[Log(0)] \in Inodes
BY DirKnown, NameKinds DEF Typed

\* repairTrailingPartialLine changes no complete line, whether it succeeds or fails.
LEMMA RepairIs ==
    ASSUME IInv, RInv, Log(0) \in DOMAIN dir, Open \/ OpenFails, NEW i \in Inodes
    PROVE  /\ WellFormed(data'[i], written, safe)
           /\ Whole(data'[i].lines) = Whole(data[i].lines)
           /\ \A e : Older(data[i], e) => Older(data'[i], e)
<1> DEFINE x == dir[Log(0)]
<1>1. data[i] \in Files /\ Tidy(data[i].lines) /\ WellFormed(data[i], written, safe) /\ data \in [Inodes -> Files]
  BY EventKnown
<1>2. x \in Inodes
  BY CurrentIs DEF RInv
<1>3. CASE data' = data
  BY <1>1, <1>3
<1>4. CASE IsTorn(data[x].lines) /\ data' = [data EXCEPT ![x] = [ lines |-> Front(data[x].lines), synced |-> Len(data[x].lines) - 1 ]]
  <2>1. CASE i = x
    <3>1. data'[i] = [ lines |-> Front(data[i].lines), synced |-> Len(data[i].lines) - 1 ]
      BY <1>1, <1>4, <2>1
    <3>2. data'[i].lines = Front(data[i].lines)
      BY <3>1
    <3> QED
      BY <1>1, <1>4, <2>1, <3>1, <3>2, FormedFront
  <2>2. CASE i # x
    BY <1>1, <1>4, <2>2
  <2> QED
    BY <2>1, <2>2
<1>5. CASE IsTorn(data[x].lines) /\ data' = [data EXCEPT ![x].lines = Front(@)]
  <2>1. CASE i = x
    <3>1. data'[i] = [ lines |-> Front(data[i].lines), synced |-> data[i].synced ]
      BY <1>1, <1>5, <2>1 DEF Files
    <3>2. data'[i].lines = Front(data[i].lines)
      BY <3>1
    <3>3. data[i].synced \in {data[i].synced, Len(data[i].lines) - 1} /\ IsTorn(data[i].lines)
      BY <1>5, <2>1
    <3> HIDE DEF x
    <3> QED
      BY <1>1, <3>1, <3>2, <3>3, FormedFront
  <2>2. CASE i # x
    BY <1>1, <1>5, <2>2
  <2> QED
    BY <2>1, <2>2
<1> QED
  <2>1. CASE Open
    BY <1>3, <1>4, <2>1 DEF Open, Current
  <2>2. CASE OpenFails
    BY <1>3, <1>5, <2>2 DEF OpenFails, Current
  <2> QED
    BY <2>1, <2>2

\* The repair of the log and the creation of one keep every event.
LEMMA OpenFiles ==
    ASSUME IInv, RInv, Open
    PROVE  FormInv' /\ TurnInv' /\ RotationInv'
<1>1. pc = "open" /\ UNCHANGED <<event, written, safe>>
  BY DEF Open
<1>2. \/ pc' = "write" /\ phase' = "none" /\ event # Starting
      \/ pc' = "sync" /\ phase' = "settle"
      \/ pc' = "sync" /\ phase' = "created" /\ event # Starting
  BY DEF Open, Goto
<1>3. Running /\ phase = "none" /\ ~Rotating' /\ (Created' => phase' = "created")
  BY <1>1, <1>2 DEF Running, Rotating, Created, RInv, TurnInv
<1>4. ASSUME NEW i \in Inodes
      PROVE  WellFormed(data'[i], written', safe') /\ (Older(data[i], event) => Older(data'[i], event))
  <2>1. CASE Log(0) \in DOMAIN dir
    BY <1>1, <2>1, RepairIs
  <2>2. CASE Log(0) \notin DOMAIN dir
    <3>1. data' = [data EXCEPT ![Fresh] = Empty]
      BY <2>2 DEF Open
    <3>2. data'[i] = data[i] \/ data'[i] = Empty
      BY <3>1, EventKnown
    <3> QED
      BY <1>1, <3>2, FormedEmpty, EventKnown
  <2> QED
    BY <2>1, <2>2
<1>5. FormInv'
  BY <1>1, <1>4 DEF RInv, FormInv
<1>6. TurnInv'
  BY <1>1, <1>2, <1>3, <1>4 DEF RInv, TurnInv
<1> QED
  BY <1>3, <1>5, <1>6 DEF RotationInv

\* What a write leaves in the file it appends to: the event, part of its line or nothing.
LEMMA AppendIs ==
    ASSUME IInv, RInv, WriteAppends \/ AppendFails
    PROVE  /\ dir[Log(0)] \in Inodes /\ Log(0) \in DOMAIN dir
           /\ \A i \in Inodes : i # dir[Log(0)] => data'[i] = data[i]
           /\ Whole(data[dir[Log(0)]].lines) = data[dir[Log(0)]].lines
           /\ WellFormed(data'[dir[Log(0)]], written, safe)
           /\ WriteAppends =>
                 /\ data'[dir[Log(0)]].lines = Append(data[dir[Log(0)]].lines, event)
                 /\ event \in Durable => data'[dir[Log(0)]].synced = Len(data[dir[Log(0)]].lines) + 1
           /\ \/ Whole(data'[dir[Log(0)]].lines) = Append(data[dir[Log(0)]].lines, event)
              \/ AppendFails /\ Whole(data'[dir[Log(0)]].lines) = data[dir[Log(0)]].lines
<1> DEFINE x == dir[Log(0)]
<1>1. pc = "write" /\ Log(0) \in DOMAIN dir
  BY DEF WriteAppends, AppendFails, IInv, PhaseInv
<1>2. x \in Inodes
  BY <1>1, CurrentIs DEF RInv
<1>3. /\ data \in [Inodes -> Files] /\ data[x] \in Files /\ Tidy(data[x].lines) /\ WellFormed(data[x], written, safe)
      /\ written \in Nat /\ Torn \notin safe
  BY <1>2, EventKnown
<1>4. ~IsTorn(data[x].lines)
  BY <1>1, <1>2 DEF IInv, FileInv, RepairInv, Repaired, Current
<1>5. event \in 1..written /\ event \notin safe /\ Older(data[x], event) /\ event # Torn
  <2>1. Running /\ event # Starting /\ phase = "none"
    BY <1>1 DEF Running, RInv, TurnInv
  <2> QED
    BY <1>2, <1>3, <2>1, EventKnown, NumbersAre DEF RInv, TurnInv
<1> DEFINE lines == data[x].lines
           n == data[x].synced
<1>6. lines \in Seq(Nat \cup {Torn}) /\ n \in Nat /\ Whole(lines) = lines /\ Len(lines) + 1 \in Nat
  BY <1>3, <1>4 DEF Files, Whole
<1>7. event \in Nat \cup {Torn} /\ Torn \in Nat \cup {Torn} /\ event \in {event, Torn} /\ Torn \in {event, Torn}
  BY <1>3, <1>5
<1>8. /\ Len(Append(lines, event)) = Len(lines) + 1 /\ ~IsTorn(Append(lines, event)) /\ Append(lines, event) = lines \o <<event>>
      /\ IsTorn(Append(lines, Torn)) /\ Append(lines, Torn) = lines \o <<Torn>> /\ Front(Append(lines, Torn)) = lines
  <2> HIDE DEF lines
  <2> QED
    BY <1>5, <1>6, <1>7, AppendedIs, FrontAppended
<1>9. \A m \in Nat : m = n \/ m = Len(lines) + 1 => WellFormed([ lines |-> Append(lines, event), synced |-> m ], written, safe)
  <2> HIDE DEF x
  <2> QED
    BY <1>3, <1>4, <1>5, <1>7, FormedAppend
<1>10. WellFormed([ lines |-> Append(lines, Torn), synced |-> n ], written, safe)
  <2> HIDE DEF x
  <2> QED
    BY <1>3, <1>4, <1>5, <1>6, <1>7, FormedAppend
<1>11. CASE WriteAppends
  <2> DEFINE m == IF event \in Durable THEN Len(lines) + 1 ELSE n
  <2>1. data' = [data EXCEPT ![x] = [ lines |-> Append(lines, event), synced |-> m ]]
    BY <1>8, <1>11 DEF WriteAppends, Current
  <2>2. m \in Nat /\ (m = n \/ m = Len(lines) + 1) /\ (event \in Durable => m = Len(lines) + 1)
    BY <1>6
  <2> HIDE DEF m
  <2>3. data'[x] = [ lines |-> Append(lines, event), synced |-> m ] /\ \A i \in Inodes : i # x => data'[i] = data[i]
    BY <1>2, <1>3, <2>1
  <2>4. data'[x].lines = Append(lines, event) /\ data'[x].synced = m
    BY <2>3
  <2>5. Whole(data'[x].lines) = Append(lines, event)
    BY <1>8, <2>4 DEF Whole
  <2>6. WellFormed(data'[x], written, safe)
    BY <1>9, <2>2, <2>3
  <2> QED
    BY <1>1, <1>2, <1>6, <2>2, <2>3, <2>4, <2>5, <2>6
<1>12. CASE AppendFails /\ ~WriteAppends
  <2>1. PICK rest \in {<<>>, <<Torn>>, <<event>>} : data' = [data EXCEPT ![x].lines = @ \o rest]
    BY <1>12 DEF AppendFails
  <2>2. data'[x] = [ lines |-> lines \o rest, synced |-> n ] /\ \A i \in Inodes : i # x => data'[i] = data[i]
    BY <1>2, <1>3, <2>1 DEF Files
  <2>3. data'[x].lines = lines \o rest
    BY <2>2
  <2>4. CASE rest = <<>>
    <3>1. lines \o rest = lines
      BY <1>6, <2>4
    <3>2. data'[x] = data[x]
      BY <1>3, <2>2, <3>1 DEF Files
    <3> QED
      BY <1>1, <1>2, <1>3, <1>6, <1>12, <2>2, <3>2
  <2>5. CASE rest = <<Torn>>
    <3>1. data'[x] = [ lines |-> Append(lines, Torn), synced |-> n ] /\ data'[x].lines = Append(lines, Torn)
      BY <1>8, <2>2, <2>3, <2>5
    <3>2. Whole(data'[x].lines) = lines
      BY <1>8, <3>1 DEF Whole
    <3> QED
      BY <1>1, <1>2, <1>6, <1>10, <1>12, <2>2, <3>1, <3>2
  <2>6. CASE rest = <<event>>
    <3>1. data'[x] = [ lines |-> Append(lines, event), synced |-> n ] /\ data'[x].lines = Append(lines, event)
      BY <1>8, <2>2, <2>3, <2>6
    <3>2. Whole(data'[x].lines) = Append(lines, event)
      BY <1>8, <3>1 DEF Whole
    <3> QED
      BY <1>1, <1>2, <1>6, <1>9, <1>12, <2>2, <3>1, <3>2
  <2> QED
    BY <2>1, <2>4, <2>5, <2>6
<1> QED
  BY <1>11, <1>12

\* After the end of a call only the files count.
LEMMA EndTurn ==
    ASSUME pc' \in {"down", "idle"}, phase' = "none"
    PROVE  TurnInv' /\ RotationInv'
<1>1. ~Running' /\ ~Rotating' /\ ~Created' /\ pc' # "write"
  BY DEF Running, Rotating, Created
<1> QED
  BY <1>1 DEF TurnInv, RotationInv

\* The event is written once, and is on disk when it is confirmed and must be.
LEMMA AppendFiles ==
    ASSUME IInv, RInv, WriteAppends \/ AppendFails
    PROVE  FormInv' /\ TurnInv' /\ RotationInv'
<1> DEFINE x == dir[Log(0)]
<1>1. pc' \in {"down", "idle"} /\ phase' = "none" /\ pc = "write" /\ UNCHANGED <<event, written>>
  BY DEF WriteAppends, AppendFails, ReplyError, ReplyOK, Goto
<1>2. x \in Inodes /\ (\A i \in Inodes : i # x => data'[i] = data[i]) /\ WellFormed(data'[x], written, safe)
  BY AppendIs
<1>3. ASSUME NEW i \in Inodes PROVE WellFormed(data'[i], written, safe)
  BY <1>2, EventKnown
<1>4. CASE AppendFails
  <2>1. safe' = safe
    BY <1>4 DEF AppendFails, ReplyError
  <2> QED
    BY <1>1, <1>3, <2>1, EndTurn DEF RInv, FormInv
<1>5. CASE WriteAppends
  <2>1. safe' = safe \cup ({event} \cap Durable)
    BY <1>5 DEF WriteAppends, ReplyOK
  <2>2. Running /\ event # Starting /\ phase = "none"
    BY <1>1 DEF Running, RInv, TurnInv
  <2>3. event \in 1..written /\ \A i \in Inodes : Older(data[i], event)
    BY <2>2, EventKnown DEF RInv, TurnInv
  <2>4. ASSUME NEW i \in Inodes PROVE WellFormed(data'[i], written, safe \cup ({event} \cap Durable))
    <3>1. CASE i = x
      <4>1. data'[x].lines = Append(data[x].lines, event) /\ (event \in Durable => data'[x].synced = Len(data[x].lines) + 1)
        BY <1>5, AppendIs
      <4>2. Len(Append(data[x].lines, event)) = Len(data[x].lines) + 1
        BY <1>2, EventKnown DEF Files
      <4>3. event \in Durable => \A k \in 1..Len(data'[x].lines) : k <= data'[x].synced
        <5>1. Len(data[x].lines) \in Nat
          BY <1>2, EventKnown DEF Files
        <5> QED
          BY <4>1, <4>2, <5>1
      <4> QED
        BY <1>3, <3>1, <4>3, FormedConfirmed
    <3>2. CASE i # x
      BY <1>2, <1>3, <2>3, <3>2, FormedConfirmed DEF Older
    <3> QED
      BY <3>1, <3>2
  <2>5. FormInv'
    BY <1>1, <2>1, <2>3, <2>4 DEF RInv, FormInv
  <2> QED
    BY <1>1, <2>5, EndTurn
<1> QED
  BY <1>4, <1>5

\* When a rotation begins the event is in no file.
LEMMA RotateFiles ==
    ASSUME IInv, RInv, WriteRotates
    PROVE  FormInv' /\ TurnInv' /\ RotationInv'
<1>1. pc = "write" /\ pc' = "ops" /\ phase' = "prepare" /\ dir' = dir /\ UNCHANGED <<data, event, written, safe>>
  BY DEF WriteRotates, Goto, disk
<1>2. FormInv'
  BY <1>1, FormSame DEF RInv, FormInv
<1>3. Running /\ event # Starting /\ phase = "none" /\ Running' /\ Rotating' /\ ~Created'
  BY <1>1 DEF Running, Rotating, Created, RInv, TurnInv
<1>4. TurnInv'
  BY <1>1, <1>3 DEF RInv, TurnInv
<1>5. Meant' = {}
  BY <1>1 DEF Meant, Committed, IInv, PhaseInv, Staged
<1>6. RotationInv'
  BY <1>1, <1>3, <1>5 DEF RInv, TurnInv, RotationInv
<1> QED
  BY <1>2, <1>4, <1>6

\* Each file keeps a part of it over a power loss.
LEMMA LossIs ==
    ASSUME IInv, RInv, PowerLoss
    PROVE  /\ dir' \in unsynced
           /\ \A i \in Inodes :
                 /\ WellFormed(data'[i], written, safe)
                 /\ (\E n \in DOMAIN dir' : dir'[n] = i) =>
                      \E n \in 0..Len(Whole(data[i].lines)) :
                         /\ Whole(data'[i].lines) = SubSeq(Whole(data[i].lines), 1, n)
                         /\ \A k \in (n + 1)..Len(Whole(data[i].lines)) : Whole(data[i].lines)[k] \notin safe
<1>1. PICK d \in unsynced, lost \in [Volatile -> UNION { Remains(data[i]) : i \in Volatile }] :
          /\ \A i \in Volatile : lost[i] \in Remains(data[i])
          /\ dir' = d
          /\ data' = Freed(d, [ i \in Inodes |-> IF i \in Volatile THEN lost[i] ELSE data[i] ])
  BY DEF PowerLoss
<1> DEFINE f == [ i \in Inodes |-> IF i \in Volatile THEN lost[i] ELSE data[i] ]
<1>2. ASSUME NEW i \in Inodes
      PROVE  /\ WellFormed(f[i], written, safe)
             /\ \E n \in 0..Len(Whole(data[i].lines)) :
                   /\ Whole(f[i].lines) = SubSeq(Whole(data[i].lines), 1, n)
                   /\ \A k \in (n + 1)..Len(Whole(data[i].lines)) : Whole(data[i].lines)[k] \notin safe
  <2>1. data[i] \in Files /\ Tidy(data[i].lines) /\ WellFormed(data[i], written, safe) /\ written \in Nat /\ Torn \notin safe
    BY EventKnown
  <2>2. CASE i \in Volatile
    <3>1. f[i] \in Remains(data[i])
      BY <1>1, <2>2
    <3> HIDE DEF f
    <3> QED
      BY <2>1, <3>1, FormedRemains
  <2>3. CASE i \notin Volatile
    <3>1. f[i] = data[i]
      BY <2>3
    <3>2. Whole(data[i].lines) \in Seq(Nat \cup {Torn})
      <4>1. data[i].lines \in Seq(Nat \cup {Torn})
        BY <2>1 DEF Files
      <4> QED
        BY <4>1, FrontIs DEF Whole, IsTorn
    <3> DEFINE y == Whole(data[i].lines)
    <3> HIDE DEF y
    <3>3. /\ Len(y) \in 0..Len(y) /\ SubSeq(y, 1, Len(y)) = y
          /\ \A k \in (Len(y) + 1)..Len(y) : y[k] \notin safe
      <4>1. y \in Seq(Nat \cup {Torn})
        BY <3>2 DEF y
      <4> QED
        BY <4>1
    <3> HIDE DEF f
    <3> QED
      BY <2>1, <3>1, <3>3 DEF y
  <2> QED
    BY <2>2, <2>3
<1>3. data' = Freed(d, f)
  BY <1>1
<1> HIDE DEF f
<1>4. ASSUME NEW i \in Inodes
      PROVE  /\ WellFormed(data'[i], written, safe)
             /\ (\E n \in DOMAIN dir' : dir'[n] = i) => data'[i] = f[i]
  <2>1. /\ data'[i] = f[i] \/ data'[i] = Empty
        /\ (\E n \in DOMAIN dir' : dir'[n] = i) => data'[i] = f[i]
    BY <1>1, <1>3, FreedIs
  <2> QED
    BY <1>2, <2>1, FormedEmpty
<1> QED
  BY <1>1, <1>2, <1>4

\* A failed repair, a crash and a power loss keep every confirmed event.
LEMMA EndFiles ==
    ASSUME IInv, RInv, OpenFails \/ Crash \/ PowerLoss
    PROVE  FormInv' /\ TurnInv' /\ RotationInv'
<1>1. pc' \in {"down", "idle"} /\ phase' = "none" /\ UNCHANGED <<written, safe>> /\ event' \in {event, Starting}
  BY DEF OpenFails, Crash, PowerLoss, ReplyError, Goto
<1>2. event' \in 0..MaxEvents
  BY <1>1, NumbersAre DEF RInv, FormInv
<1>3. CASE data' = data
  BY <1>1, <1>2, <1>3, FormSame, EndTurn
<1>4. CASE OpenFails /\ Log(0) \in DOMAIN dir
  BY <1>1, <1>2, <1>4, RepairIs, EndTurn DEF RInv, FormInv
<1>5. CASE PowerLoss
  BY <1>1, <1>2, <1>5, LossIs, EndTurn DEF RInv, FormInv
<1> QED
  BY <1>3, <1>4, <1>5 DEF OpenFails, Crash

\* Every step keeps the events where they belong.
LEMMA NextEvents ==
    ASSUME IInv, RInv, Next
    PROVE  FormInv' /\ TurnInv' /\ RotationInv'
BY DoOpFiles, SkipOpFiles, FailsFiles, NewFailsFiles, SyncFiles, PhaseDoneFiles, BeginFiles, OpenFiles, RotateFiles,
   AppendFiles, EndFiles DEF Next

\* The events of an earlier daemon are on disk.
LEMMA OldIs ==
    ASSUME NEW i \in 1..Backups, NEW S
    PROVE  WellFormed(OldFile(i - 1), Old, S) /\ ~IsTorn(OldFile(i - 1).lines) /\ OldFile(i - 1).lines \in Seq(1..Old)
<1> DEFINE base == Old - ((i - 1) + 1) * MaxLines
           lines == [ k \in 1..MaxLines |-> base + k ]
<1>1. Backups \in Nat /\ MaxLines \in Nat /\ i \in Nat /\ i - 1 \in Nat /\ Backups - i \in Nat
  BY AuditAssumption
<1>2. \A a, b \in Nat : a * b \in Nat
  OBVIOUS
<1>3. Old \in Nat /\ base \in Nat /\ base + MaxLines <= Old
  <2>1. base = (Backups - i) * MaxLines
    BY <1>1 DEF Old
  <2>2. Old = (base + MaxLines) + (i - 1) * MaxLines
    BY <1>1 DEF Old
  <2>3. (Backups - i) * MaxLines \in Nat /\ (i - 1) * MaxLines \in Nat /\ Backups * MaxLines \in Nat
    BY <1>1, <1>2
  <2> DEFINE rest == (i - 1) * MaxLines
  <2>4. base \in Nat /\ rest \in Nat /\ Old = (base + MaxLines) + rest /\ Old \in Nat
    BY <2>1, <2>2, <2>3 DEF Old
  <2> HIDE DEF base, rest
  <2> QED
    BY <1>1, <2>4
<1>4. OldFile(i - 1) = [ lines |-> lines, synced |-> MaxLines ]
  BY DEF OldFile
<1> HIDE DEF base
<1>5. \A k \in 1..MaxLines : base + k \in 1..Old
  BY <1>1, <1>3
<1>6. lines \in Seq(1..Old) /\ Len(lines) = MaxLines /\ \A k \in 1..MaxLines : lines[k] \in 1..Old
  BY <1>1, <1>5
<1> HIDE DEF lines
<1>7. OldFile(i - 1).lines = lines /\ OldFile(i - 1).synced = MaxLines
  BY <1>4
<1>8. ~IsTorn(lines)
  <2> SUFFICES ASSUME IsTorn(lines) PROVE FALSE
    OBVIOUS
  <2>1. lines # <<>> /\ lines[Len(lines)] = Torn
    BY DEF IsTorn, Last
  <2>2. MaxLines \in 1..MaxLines
    BY AuditAssumption
  <2> QED
    BY <1>3, <1>6, <2>1, <2>2, NumbersAre
<1>9. WellFormed(OldFile(i - 1), Old, S)
  BY <1>1, <1>6, <1>7, <1>8 DEF WellFormed
<1> QED
  BY <1>6, <1>7, <1>8, <1>9

\* The files at the start.
LEMMA InitIs ==
    ASSUME Init
    PROVE  /\ written = Old /\ Old \in 0..MaxEvents
           /\ \A i \in Inodes : /\ WellFormed(data[i], Old, safe)
                                /\ ~IsTorn(data[i].lines) /\ data[i].lines \in Seq(1..Old)
<1>1. PICK n \in 0..Backups : data = [ i \in Inodes |-> IF i <= n THEN OldFile(i - 1) ELSE Empty ]
  BY DEF Init
<1>2. Old \in 0..MaxEvents
  BY AuditAssumption DEF Old
<1>3. ASSUME NEW i \in Inodes
      PROVE  WellFormed(data[i], Old, safe) /\ ~IsTorn(data[i].lines) /\ data[i].lines \in Seq(1..Old)
  <2>1. CASE i <= n
    <3>1. i \in 1..Backups
      BY <2>1, AuditAssumption DEF Inodes
    <3>2. data[i] = OldFile(i - 1)
      BY <1>1, <2>1
    <3> QED
      BY <3>1, <3>2, OldIs
  <2>2. CASE ~(i <= n)
    <3>1. data[i] = Empty
      BY <1>1, <2>2
    <3>2. Empty.lines = <<>>
      BY DEF Empty
    <3> QED
      BY <3>1, <3>2, FormedEmpty DEF IsTorn
  <2> QED
    BY <2>1, <2>2
<1> QED
  BY <1>2, <1>3 DEF Init

\* The files of an earlier daemon hold events that are on disk.
LEMMA InitEvents ==
    ASSUME Init
    PROVE  FormInv /\ TurnInv /\ RotationInv
<1>1. written \in 0..MaxEvents /\ \A i \in Inodes : WellFormed(data[i], written, safe) /\ data[i].lines \in Seq(1..written)
  BY InitIs
<1>2. safe \subseteq Durable \cap (1..written)
  <2>1. \A i \in Inodes : Range(data[i].lines) \subseteq 1..written
    BY <1>1 DEF Range
  <2> QED
    BY <2>1 DEF Init
<1>3. event = Starting /\ pc = "down" /\ phase = "none"
  BY DEF Init
<1>4. ~Running /\ ~Rotating /\ ~Created
  BY <1>3 DEF Running, Rotating, Created
<1> QED
  BY <1>1, <1>2, <1>3, <1>4, NumbersAre DEF FormInv, TurnInv, RotationInv

-----------------------------------------------------------------------------
(* The refinement: what each step of the logger does to the log. *)

\* A stuttering step changes none of it.
LEMMA SameState ==
    ASSUME RInv, UNCHANGED vars
    PROVE  RInv'
<1>1. UNCHANGED <<dir, data, unsynced, syncPending, pc, phase, todo, event, written, safe>>
  BY DEF vars
<1>2. /\ Rest' = Rest /\ Running' = Running /\ Rotating' = Rotating /\ Created' = Created
  BY <1>1 DEF Rest, Running, Rotating, Created
<1>3. Meant' = Meant /\ Committed' = Committed
  BY <1>1, <1>2 DEF Meant, Committed
<1>4. FormInv' /\ TurnInv' /\ RotationInv'
  BY <1>1, <1>2, <1>3 DEF RInv, FormInv, TurnInv, RotationInv
<1>5. SlotInv' /\ SyncInv'
  BY <1>1 DEF RInv, StagingInv, SlotInv, SyncInv
<1>6. StageInv' /\ CommitInv'
  BY <1>1, <1>2, <1>3 DEF RInv, StagingInv, StageInv, CommitInv
<1> QED
  BY <1>4, <1>5, <1>6 DEF RInv, StagingInv

\* The inductive invariant of the refinement holds of every reachable state.
THEOREM RotationInvariance == Spec => []RInv
<1>1. Init => RInv
  BY InitStaging, InitEvents DEF RInv
<1>2. IInv /\ IInv' /\ RInv /\ [Next]_vars => RInv'
  <2> SUFFICES ASSUME IInv, IInv', RInv, [Next]_vars PROVE RInv'
    OBVIOUS
  <2>1. CASE Next
    BY <2>1, NextStaging, NextEvents DEF RInv
  <2>2. CASE UNCHANGED vars
    BY <2>2, SameState
  <2> QED
    BY <2>1, <2>2
<1> QED
  BY <1>1, <1>2, Invariance, PTL DEF Spec

\* The log that the directory d shows when the files hold f.
Content(d, f) == [ i \in Index |-> IF Slot(d, i) = Metadata THEN <<>> ELSE Whole(f[Slot(d, i)].lines) ]
Contents(u, f) == { Content(d, f) : d \in u }

\* The log that the refinement maps to.
LEMMA ViewIs ==
    /\ \A d : View(d) = Content(d, data)
    /\ View(dir)' = Content(dir', data')
    /\ { View(d) : d \in unsynced } = Contents(unsynced, data)
    /\ { View(d) : d \in unsynced }' = Contents(unsynced', data')
BY DEF View, Content, Contents, Index

\* A step that the log does not notice.
Unseen == /\ Content(dir', data') = Content(dir, data)
          /\ Contents(unsynced', data') = Contents(unsynced, data)
          /\ safe' = safe

\* A file that no name of a directory leads to is not part of its log.
LEMMA ContentSame ==
    ASSUME NEW d, Typed(d), NEW f, NEW g,
           \A i \in Inodes : (\E n \in DOMAIN d : d[n] = i) => Whole(g[i].lines) = Whole(f[i].lines)
    PROVE  Content(d, g) = Content(d, f)
<1>1. ASSUME NEW i \in Index, Slot(d, i) # Metadata PROVE Whole(g[Slot(d, i)].lines) = Whole(f[Slot(d, i)].lines)
  BY <1>1, SlotTaken
<1> QED
  BY <1>1 DEF Content

\* Directories with the same files show the same log.
LEMMA ContentSlots ==
    ASSUME NEW d, NEW e, SameSlots(d, e), NEW f
    PROVE  Content(e, f) = Content(d, f)
BY DEF Content, SameSlots

\* The files of every directory that may be left are what they were.
LEMMA ContentsSame ==
    ASSUME NEW u, \A d \in u : Content(d, data') = Content(d, data)
    PROVE  Contents(u, data') = Contents(u, data)
BY DEF Contents

\* The staging: a directory with the same files may be left, too.
LEMMA UnseenOp ==
    ASSUME StagingInv, SameSlots(dir, dir'), unsynced' = unsynced \cup {dir'}, safe' = safe,
           \A d \in unsynced : Content(d, data') = Content(d, data)
    PROVE  Unseen
<1>1. dir \in unsynced
  BY DirKnown
<1>2. Content(dir', data') = Content(dir, data') /\ Content(dir, data') = Content(dir, data)
  BY <1>1, ContentSlots
<1>3. Contents(unsynced', data') = Contents(unsynced, data') \cup {Content(dir', data')}
  BY DEF Contents
<1>4. Contents(unsynced, data') = Contents(unsynced, data) /\ Content(dir, data) \in Contents(unsynced, data)
  BY <1>1, ContentsSame DEF Contents
<1> QED
  BY <1>2, <1>3, <1>4 DEF Unseen

\* A step that changes neither directory nor files is not seen.
LEMMA UnseenSame ==
    ASSUME UNCHANGED <<dir, data, unsynced, safe>>
    PROVE  Unseen
BY DEF Unseen

\* The staging of the new file, whether it succeeds or fails.
LEMMA NewUnseen ==
    ASSUME IInv, RInv, pc = "ops", todo # <<>>, Head(todo).do = "new", Applicable(dir, Head(todo)),
           dir' = Effect(dir, Head(todo)), unsynced' = unsynced \cup {dir'}, safe' = safe,
           NEW file, data' = [data EXCEPT ![Fresh] = file]
    PROVE  Unseen
<1>1. phase = "prepare" /\ Head(todo) = CreateNew
  BY NewOp
<1>2. Fresh \in Inodes /\ (\A n \in DOMAIN dir : dir[n] # Fresh) /\ SameSlots(dir, dir')
  BY <1>1, PrepareOp DEF RInv
<1>3. unsynced = {dir} /\ Typed(dir)
  BY <1>1, DirKnown DEF RInv, StagingInv, SyncInv, Working
<1>4. \A i \in Inodes : (\E n \in DOMAIN dir : dir[n] = i) => data'[i] = data[i]
  BY <1>2, EventKnown
<1>5. Content(dir, data') = Content(dir, data)
  BY <1>3, <1>4, ContentSame
<1> QED
  BY <1>2, <1>3, <1>5, UnseenOp DEF RInv

\* The lines of a log: events that were written, and not the one that is being written.
LEMMA LinesAre ==
    ASSUME IInv, RInv, NEW i \in Index,
           Slot(dir, i) \in Inodes => Older(data[Slot(dir, i)], event), Running, event # Starting,
           NEW k \in 1..Len(Content(dir, data)[i])
    PROVE  Content(dir, data)[i][k] < event
<1> DEFINE x == Slot(dir, i)
           lines == data[x].lines
<1>1. x \in Inodes \cup {Metadata}
  BY DirKnown, SlotTaken DEF RInv
<1>2. Content(dir, data)[i] = IF x = Metadata THEN <<>> ELSE Whole(lines)
  BY DEF Content
<1>3. CASE x = Metadata
  BY <1>2, <1>3
<1>4. CASE x # Metadata
  <2>1. /\ x \in Inodes /\ Content(dir, data)[i] = Whole(lines)
        /\ data[x] \in Files /\ Tidy(lines) /\ WellFormed(data[x], written, safe) /\ Older(data[x], event)
        /\ event \in 1..written /\ event = written /\ written \in Nat
    BY <1>1, <1>2, <1>4, EventKnown
  <2>2. lines \in Seq(Nat \cup {Torn})
    BY <2>1 DEF Files
  <2>3. k \in 1..Len(lines) /\ Whole(lines)[k] = lines[k] /\ lines[k] # Torn
    <3>1. CASE IsTorn(lines)
      <4>1. lines # <<>> /\ Whole(lines) = Front(lines)
        BY <3>1 DEF Whole, IsTorn
      <4>2. Len(Whole(lines)) = Len(lines) - 1 /\ \A m \in 1..(Len(lines) - 1) : Whole(lines)[m] = lines[m] /\ m \in 1..Len(lines)
        BY <2>2, <4>1, FrontIs
      <4>3. k \in 1..(Len(lines) - 1)
        BY <2>1, <4>2
      <4>4. k # Len(lines)
        BY <2>2, <4>3
      <4> QED
        BY <2>1, <4>2, <4>3, <4>4 DEF Tidy
    <3>2. CASE ~IsTorn(lines)
      <4>1. Whole(lines) = lines /\ k \in 1..Len(lines)
        BY <2>1, <3>2 DEF Whole
      <4>2. lines # <<>> /\ (k = Len(lines) => Last(lines) = lines[k])
        BY <2>2, <4>1 DEF Last
      <4> QED
        BY <2>1, <3>2, <4>1, <4>2 DEF Tidy, IsTorn
    <3> QED
      BY <3>1, <3>2
  <2>4. lines[k] \in 1..written /\ lines[k] # event
    BY <2>1, <2>3 DEF WellFormed, Older
  <2> QED
    BY <2>1, <2>3, <2>4
<1> QED
  BY <1>3, <1>4

\* The event that is written is newer than every other event of the log.
LEMMA NewerIs ==
    ASSUME IInv, RInv, Running, event # Starting,
           \A i \in Index : Slot(dir, i) \in Inodes => Older(data[Slot(dir, i)], event)
    PROVE  Abstract!Newer(event) /\ event \in Events
<1>1. View(dir) = Content(dir, data)
  BY ViewIs
<1>2. ASSUME NEW i \in 0..Backups, NEW x \in Abstract!In(View(dir)[i]) PROVE x < event
  <2>1. PICK k \in 1..Len(Content(dir, data)[i]) : x = Content(dir, data)[i][k]
    BY <1>1 DEF Abstract!In
  <2> QED
    BY <2>1, LinesAre DEF Index
<1>3. Abstract!Newer(event)
  BY <1>2 DEF Abstract!Newer, Abstract!Present
<1>4. event \in Events
  BY EventKnown, NumbersAre DEF RInv, FormInv, Events
<1> QED
  BY <1>3, <1>4

\* The rename that commits a rotation is the rotation of the log.
LEMMA PublishRotates ==
    ASSUME IInv, RInv, DoOp, Head(todo) = Publish
    PROVE  \E e \in Events : Abstract!Rotate(e)
<1>1. /\ pc = "ops" /\ todo # <<>> /\ Applicable(dir, Head(todo)) /\ dir' = Effect(dir, Head(todo))
      /\ ~(Head(todo).do = "remove" /\ Head(todo).to \notin DOMAIN dir)
      /\ unsynced' = unsynced \cup {dir'} /\ safe' = safe
  BY DEF DoOp
<1>2. phase = "apply" /\ Head(todo).do # "new"
  <2>1. Publish.do = "rename"
    BY OpFields DEF Publish
  <2>2. phase \in Undoing \cup {"prepare", "apply"}
    BY <1>1, OpKnown DEF IInv
  <2> QED
    BY <1>1, <2>1, <2>2, PrepareOp, UndoOp DEF RInv
<1>3. /\ New \in DOMAIN dir /\ Tail(todo) = <<>> /\ Slot(dir', 0) = dir[New]
      /\ \A i \in 1..Backups : Slot(dir', i) = Slot(dir, i - 1)
  BY <1>1, <1>2, ApplyOp DEF RInv
<1>4. data' = data
  BY <1>2 DEF DoOp
<1>5. Rotating /\ Running /\ event # Starting /\ Meant = {dir[New]}
  <2>1. Rotating /\ ~Committed
    BY <1>1, <1>2 DEF Rotating, Committed, Rest
  <2> QED
    BY <1>1, <1>3, <2>1 DEF RInv, TurnInv, Running, Meant
<1>6. dir[New] \in Inodes /\ dir[New] # Metadata
  BY <1>3, DirKnown, NameKinds, MetadataIsNone DEF RInv, Typed
<1>7. data[dir[New]].lines = <<event>>
  BY <1>5, <1>6 DEF RInv, RotationInv, HoldsEvent
<1>8. Whole(<<event>>) = <<event>>
  <2>1. event # Torn
    BY EventKnown, NumbersAre
  <2> QED
    BY <2>1 DEF Whole, IsTorn, Last
<1>9. Abstract!Newer(event) /\ event \in Events
  <2>1. ASSUME NEW i \in Index, Slot(dir, i) \in Inodes PROVE Older(data[Slot(dir, i)], event)
    <3>1. Slot(dir, i) # dir[New]
      BY <1>3, <1>5 DEF RInv, StagingInv, CommitInv
    <3> QED
      BY <1>5, <2>1, <3>1 DEF RInv, RotationInv
  <2> QED
    BY <1>5, <2>1, NewerIs
<1>10. Content(dir', data') = [ i \in 0..Backups |-> IF i = 0 THEN <<event>> ELSE Content(dir, data)[i - 1] ]
  <2>1. ASSUME NEW i \in 0..Backups
        PROVE  (IF Slot(dir', i) = Metadata THEN <<>> ELSE Whole(data'[Slot(dir', i)].lines))
               = IF i = 0 THEN <<event>> ELSE Content(dir, data)[i - 1]
    <3>1. CASE i = 0
      BY <1>3, <1>4, <1>6, <1>7, <1>8, <3>1
    <3>2. CASE i # 0
      <4>1. i \in 1..Backups /\ i - 1 \in Index
        BY <3>2, AuditAssumption DEF Index
      <4>2. Content(dir, data)[i - 1] = IF Slot(dir, i - 1) = Metadata THEN <<>> ELSE Whole(data[Slot(dir, i - 1)].lines)
        BY <4>1 DEF Content
      <4> QED
        BY <1>3, <1>4, <3>2, <4>1, <4>2
    <3> QED
      BY <3>1, <3>2
  <2> QED
    BY <2>1 DEF Content, Index
<1>11. Contents(unsynced', data') = Contents(unsynced, data) \cup {Content(dir', data')}
  BY <1>1, <1>4 DEF Contents
<1>12. Abstract!Rotate(event)
  BY <1>1, <1>9, <1>10, <1>11, ViewIs DEF Abstract!Rotate
<1> QED
  BY <1>9, <1>12

\* Every other call of a rotation, of its rollback or its cleanup is not seen.
LEMMA OpUnseen ==
    ASSUME IInv, RInv, DoOp, Head(todo) # Publish
    PROVE  Unseen
<1>1. /\ pc = "ops" /\ todo # <<>> /\ Applicable(dir, Head(todo)) /\ dir' = Effect(dir, Head(todo))
      /\ ~(Head(todo).do = "remove" /\ Head(todo).to \notin DOMAIN dir)
      /\ unsynced' = unsynced \cup {dir'} /\ safe' = safe
  BY DEF DoOp
<1>2. CASE Head(todo).do = "new"
  <2>1. data' = [data EXCEPT ![Fresh] = [ lines |-> <<event>>, synced |-> IF event \in Durable THEN 1 ELSE 0 ]]
    BY <1>2 DEF DoOp
  <2> QED
    BY <1>1, <1>2, <2>1, NewUnseen
<1>3. CASE Head(todo).do # "new"
  <2>1. data' = data
    BY <1>3 DEF DoOp
  <2>2. phase \in Undoing \cup {"prepare", "apply"}
    BY <1>1, OpKnown DEF IInv
  <2>3. SameSlots(dir, dir')
    BY <1>1, <2>2, PrepareOp, ApplyOp, UndoOp DEF RInv
  <2> QED
    BY <1>1, <2>1, <2>3, UnseenOp DEF RInv
<1> QED
  BY <1>2, <1>3

\* createRotationNewFile fails: the log does not have the new file yet.
LEMMA NewFailsUnseen ==
    ASSUME IInv, RInv, NewFails
    PROVE  Unseen
<1>1. /\ pc = "ops" /\ todo # <<>> /\ Head(todo).do = "new" /\ Applicable(dir, Head(todo)) /\ dir' = Effect(dir, Head(todo))
      /\ unsynced' = unsynced \cup {dir'}
  BY DEF NewFails
<1>2. safe' = safe
  BY DEF NewFails, Failed, ReplyError
<1>3. PICK lines \in {<<>>, <<Torn>>, <<event>>} : data' = [data EXCEPT ![Fresh] = [ lines |-> lines, synced |-> 0 ]]
  BY DEF NewFails
<1> QED
  BY <1>1, <1>2, <1>3, NewUnseen

\* The sync of the directory settles what was done.
LEMMA SyncSettles ==
    ASSUME IInv, RInv, Sync
    PROVE  Abstract!Settle
<1>1. dir' = dir /\ unsynced' = {dir} /\ data' = Freed(dir, data) /\ safe' = safe
  BY DEF Sync, ReplyError
<1>2. \A i \in Inodes : (\E n \in DOMAIN dir : dir[n] = i) => data'[i] = data[i]
  BY <1>1, FreedIs
<1>3. Content(dir, data') = Content(dir, data)
  BY <1>2, DirKnown, ContentSame DEF RInv
<1>4. Contents(unsynced', data') = {Content(dir, data)}
  BY <1>1, <1>3 DEF Contents
<1> QED
  BY <1>1, <1>3, <1>4, ViewIs DEF Abstract!Settle

\* The end of the cleanup confirms the event, which the log begins with.
LEMMA CleanupConfirms ==
    ASSUME IInv, RInv, PhaseDone, phase = "cleanup"
    PROVE  \E e \in Events : Abstract!Confirm(e)
<1>1. pc = "ops" /\ UNCHANGED <<dir, data, unsynced>> /\ safe' = safe \cup ({event} \cap Durable)
  BY DEF PhaseDone, ReplyOK, disk
<1>2. Rotating /\ Committed /\ Running /\ event # Starting
  BY <1>1 DEF Rotating, Committed, Running, RInv, TurnInv
<1>3. New \notin DOMAIN dir /\ Log(0) \in DOMAIN dir /\ unsynced = {dir}
  BY <1>1, <1>2 DEF RInv, StagingInv, CommitInv, SyncInv, Working
<1>4. dir[Log(0)] \in Inodes /\ Slot(dir, 0) = dir[Log(0)] /\ dir[Log(0)] # Metadata
  BY <1>3, CurrentIs, MetadataIsNone DEF RInv, Slot
<1>5. data[dir[Log(0)]].lines = <<event>>
  BY <1>2, <1>4 DEF RInv, RotationInv, Meant, HoldsEvent
<1>6. Whole(<<event>>) = <<event>> /\ event \in Events
  <2>1. event # Torn /\ event \in 1..written /\ written \in 0..MaxEvents
    BY <1>2, EventKnown, NumbersAre DEF RInv, FormInv
  <2> QED
    BY <2>1, NumbersAre DEF Whole, IsTorn, Last, Events
<1>7. Content(dir, data)[0] = <<event>>
  <2>1. 0 \in Index
    BY AuditAssumption DEF Index
  <2> QED
    BY <1>4, <1>5, <1>6, <2>1 DEF Content
<1>8. event \in Abstract!In(View(dir)[0])
  BY <1>7, ViewIs DEF Abstract!In
<1>9. Contents(unsynced, data) = {Content(dir, data)}
  BY <1>3 DEF Contents
<1>10. Abstract!Confirm(event)
  BY <1>1, <1>8, <1>9, ViewIs DEF Abstract!Confirm
<1> QED
  BY <1>6, <1>10

\* Opening the log is not seen: the torn line that is cut off was no event, and a log that
\* is created has none.
LEMMA OpenUnseen ==
    ASSUME IInv, RInv, Open \/ OpenFails
    PROVE  Unseen
<1>1. safe' = safe /\ pc = "open"
  BY DEF Open, OpenFails, ReplyError
<1>2. unsynced = {dir} /\ Typed(dir)
  BY <1>1, DirKnown DEF RInv, StagingInv, SyncInv
<1>3. CASE Log(0) \in DOMAIN dir
  <2>1. dir' = dir /\ unsynced' = unsynced
    BY <1>3 DEF Open, OpenFails
  <2>2. Content(dir, data') = Content(dir, data)
    BY <1>2, <1>3, RepairIs, ContentSame
  <2> QED
    BY <1>1, <1>2, <2>1, <2>2 DEF Unseen, Contents
<1>4. CASE Open /\ Log(0) \notin DOMAIN dir
  <2>1. dir' = Put(dir, Log(0), Fresh) /\ data' = [data EXCEPT ![Fresh] = Empty] /\ unsynced' = unsynced \cup {dir'}
    BY <1>4 DEF Open
  <2>2. /\ Fresh \in Inodes /\ \A n \in DOMAIN dir : dir[n] # Fresh
        /\ Slot(dir, 0) = Metadata /\ Slot(dir', 0) = Fresh
        /\ \A i \in 1..Backups : Slot(dir', i) = Slot(dir, i)
    BY <1>1, <1>4, <2>1, CreatesLog DEF RInv
  <2>3. data'[Fresh] = Empty /\ \A i \in Inodes : (\E n \in DOMAIN dir : dir[n] = i) => data'[i] = data[i]
    BY <2>1, <2>2, EventKnown
  <2>4. Content(dir, data') = Content(dir, data)
    BY <1>2, <2>3, ContentSame
  <2>5. Whole(Empty.lines) = <<>>
    BY DEF Empty, Whole, IsTorn
  <2>6. Content(dir', data') = Content(dir, data')
    <3>1. ASSUME NEW i \in Index
          PROVE  (IF Slot(dir', i) = Metadata THEN <<>> ELSE Whole(data'[Slot(dir', i)].lines))
                 = IF Slot(dir, i) = Metadata THEN <<>> ELSE Whole(data'[Slot(dir, i)].lines)
      <4>1. CASE i = 0
        BY <2>2, <2>3, <2>5, <4>1
      <4>2. CASE i # 0
        <5>1. i \in 1..Backups
          BY <4>2, AuditAssumption DEF Index
        <5> QED
          BY <2>2, <5>1
      <4> QED
        BY <4>1, <4>2
    <3> QED
      BY <3>1 DEF Content
  <2> QED
    BY <1>1, <1>2, <2>1, <2>4, <2>6 DEF Unseen, Contents
<1>5. CASE OpenFails /\ Log(0) \notin DOMAIN dir
  BY <1>1, <1>5, UnseenSame DEF OpenFails
<1> QED
  BY <1>3, <1>4, <1>5

\* A write that appends, and one that fails with its line complete, append the event.
LEMMA AppendAppends ==
    ASSUME IInv, RInv, WriteAppends \/ AppendFails
    PROVE  Unseen \/ \E e \in Events : Abstract!AppendEvent(e)
<1> DEFINE x == dir[Log(0)]
<1>1. pc = "write" /\ UNCHANGED <<dir, unsynced>>
  BY DEF WriteAppends, AppendFails
<1>2. unsynced = {dir} /\ Typed(dir) /\ Distinct(dir) /\ Marker \notin DOMAIN dir
  BY <1>1, DirKnown DEF RInv, StagingInv, SyncInv, IInv, PhaseInv, Staged
<1>3. /\ x \in Inodes /\ Log(0) \in DOMAIN dir /\ (\A i \in Inodes : i # x => data'[i] = data[i])
      /\ Whole(data[x].lines) = data[x].lines
      /\ \/ Whole(data'[x].lines) = Append(data[x].lines, event)
         \/ AppendFails /\ Whole(data'[x].lines) = data[x].lines
  BY AppendIs
<1>4. Contents(unsynced, data) = {Content(dir, data)} /\ Contents(unsynced', data') = {Content(dir', data')}
  BY <1>1, <1>2 DEF Contents
<1>5. CASE AppendFails /\ Whole(data'[x].lines) = data[x].lines
  <2>1. \A i \in Inodes : Whole(data'[i].lines) = Whole(data[i].lines)
    BY <1>3, <1>5
  <2>2. Content(dir, data') = Content(dir, data)
    BY <1>2, <2>1, ContentSame
  <2>3. safe' = safe
    BY <1>5 DEF AppendFails, ReplyError
  <2> QED
    BY <1>1, <1>4, <2>2, <2>3 DEF Unseen
<1>6. CASE Whole(data'[x].lines) = Append(data[x].lines, event)
  <2>1. Slot(dir, 0) = x /\ x # Metadata /\ 0 \in Index
    BY <1>2, <1>3, MetadataIsNone, AuditAssumption DEF Slot, Index
  <2>2. ASSUME NEW i \in Index, i # 0, Slot(dir, i) # Metadata PROVE Slot(dir, i) \in Inodes /\ Slot(dir, i) # x
    BY <1>2, <2>1, <2>2, SlotTaken DEF Distinct
  <2>3. Content(dir', data') = [Content(dir, data) EXCEPT ![0] = Append(@, event)]
    <3>1. ASSUME NEW i \in Index
          PROVE  Content(dir', data')[i] = IF i = 0 THEN Append(Content(dir, data)[0], event) ELSE Content(dir, data)[i]
      <4>1. CASE i = 0
        BY <1>1, <1>3, <1>6, <2>1, <4>1 DEF Content
      <4>2. CASE i # 0
        BY <1>1, <1>3, <2>2, <4>2 DEF Content
      <4> QED
        BY <4>1, <4>2
    <3>2. DOMAIN Content(dir, data) = Index /\ DOMAIN Content(dir', data') = Index
      BY DEF Content
    <3>3. Content(dir', data') = [ i \in Index |-> Content(dir', data')[i] ]
      BY DEF Content
    <3> QED
      BY <2>1, <3>1, <3>2, <3>3
  <2>4. Running /\ event # Starting /\ phase = "none"
    BY <1>1 DEF Running, RInv, TurnInv
  <2>5. Abstract!Newer(event) /\ event \in Events
    BY <2>4, NewerIs DEF RInv, TurnInv
  <2>6. safe' \in {safe, safe \cup ({event} \cap Durable)}
    BY DEF WriteAppends, AppendFails, ReplyOK, ReplyError
  <2>7. Abstract!AppendEvent(event)
    BY <1>4, <2>3, <2>5, <2>6, ViewIs DEF Abstract!AppendEvent
  <2> QED
    BY <2>5, <2>7
<1> QED
  BY <1>3, <1>5, <1>6

\* A power loss leaves one of the logs that were possible, less the ends of its files that
\* were not confirmed.
LEMMA LossCuts ==
    ASSUME IInv, RInv, PowerLoss
    PROVE  Abstract!PowerLoss
<1>1. unsynced' = {dir'} /\ safe' = safe
  BY DEF PowerLoss
<1>2. dir' \in unsynced /\ Typed(dir')
  BY LossIs DEF RInv, StagingInv, SlotInv
<1>3. Content(dir', data) \in { View(d) : d \in unsynced }
  BY <1>2, ViewIs
<1>4. ASSUME NEW i \in 0..Backups PROVE Abstract!Cut(Content(dir', data)[i], Content(dir', data')[i])
  <2> DEFINE x == Slot(dir', i)
  <2>1. /\ Content(dir', data)[i] = IF x = Metadata THEN <<>> ELSE Whole(data[x].lines)
        /\ Content(dir', data')[i] = IF x = Metadata THEN <<>> ELSE Whole(data'[x].lines)
    BY DEF Content, Index
  <2>2. CASE x = Metadata
    <3>1. Abstract!Cut(<<>>, <<>>)
      <4>1. 0 \in 0..Len(<<>>) /\ SubSeq(<<>>, 1, 0) = <<>> /\ \A k \in (0 + 1)..Len(<<>>) : FALSE
        OBVIOUS
      <4> QED
        BY <4>1 DEF Abstract!Cut
    <3> QED
      BY <2>1, <2>2, <3>1
  <2>3. CASE x # Metadata
    <3>1. x \in Inodes /\ \E n \in DOMAIN dir' : dir'[n] = x
      BY <1>2, <2>3, SlotTaken DEF Index
    <3>2. \E n \in 0..Len(Whole(data[x].lines)) :
             /\ Whole(data'[x].lines) = SubSeq(Whole(data[x].lines), 1, n)
             /\ \A k \in (n + 1)..Len(Whole(data[x].lines)) : Whole(data[x].lines)[k] \notin safe
      BY <3>1, LossIs
    <3>3. Abstract!Cut(Whole(data[x].lines), Whole(data'[x].lines))
      BY <3>2 DEF Abstract!Cut
    <3> QED
      BY <2>1, <2>3, <3>3
  <2> QED
    BY <2>2, <2>3
<1>5. View(dir)' = Content(dir', data') /\ DOMAIN Content(dir', data') = 0..Backups
  BY ViewIs DEF Content, Index
<1>6. { View(d) : d \in unsynced }' = {View(dir)'}
  BY <1>1, ViewIs DEF Contents
<1> QED
  BY <1>1, <1>3, <1>4, <1>5, <1>6 DEF Abstract!PowerLoss

\* Every step of the logger is a step of the log, or is not seen.
LEMMA NextRefines ==
    ASSUME IInv, RInv, Next
    PROVE  Abstract!Next \/ Unseen
<1>1. CASE DoOp
  BY <1>1, PublishRotates, OpUnseen DEF Abstract!Next
<1>2. CASE Sync
  BY <1>2, SyncSettles DEF Abstract!Next
<1>3. CASE PhaseDone
  <2>1. CASE phase = "cleanup"
    BY <1>3, <2>1, CleanupConfirms DEF Abstract!Next
  <2>2. CASE phase # "cleanup"
    <3>1. UNCHANGED <<dir, data, unsynced>> /\ pc = "ops"
      BY <1>3 DEF PhaseDone, disk
    <3>2. phase \in {"recover", "abort", "created", "settle", "prepare", "apply"}
      BY <1>3, <2>2, <3>1 DEF PhaseDone, IInv, PhaseInv, Undoing
    <3>3. safe' = safe
      BY <1>3, <3>2 DEF PhaseDone, ReplyError
    <3> QED
      BY <3>1, <3>3, UnseenSame
  <2> QED
    BY <2>1, <2>2
<1>4. CASE WriteAppends \/ AppendFails
  BY <1>4, AppendAppends DEF Abstract!Next
<1>5. CASE PowerLoss
  BY <1>5, LossCuts DEF Abstract!Next
<1>6. CASE Open \/ OpenFails \/ NewFails
  BY <1>6, OpenUnseen, NewFailsUnseen
<1>7. CASE Start \/ Write \/ SkipOp \/ WriteRotates \/ Crash
  <2>1. UNCHANGED <<dir, data, unsynced, safe>>
    BY <1>7 DEF Start, Write, Begin, SkipOp, WriteRotates, Crash, disk
  <2> QED
    BY <2>1, UnseenSame
<1>8. CASE OpFails \/ SyncFails
  <2>1. UNCHANGED <<dir, data, unsynced, safe>>
    BY <1>8 DEF OpFails, SyncFails, Failed, ReplyError, disk
  <2> QED
    BY <2>1, UnseenSame
<1> QED
  BY <1>1, <1>2, <1>3, <1>4, <1>5, <1>6, <1>7, <1>8 DEF Next

\* The files of an earlier daemon are a log, and all its durable events are confirmed.
LEMMA InitRefines ==
    ASSUME Init
    PROVE  Abstract!Init
<1>1. PICK n \in 0..Backups :
          /\ dir = [ name \in { Log(i) : i \in 0..(n - 1) } |-> name[2] + 1 ]
          /\ data = [ i \in Inodes |-> IF i <= n THEN OldFile(i - 1) ELSE Empty ]
  BY DEF Init
<1>2. n \in Nat /\ n <= Backups /\ Backups \in Nat
  BY <1>1, AuditAssumption
<1>3. \A i : Log(i) \in DOMAIN dir <=> i \in 0..(n - 1)
  <2>1. \A i, j : Log(i) = Log(j) => i = j
    BY DEF Log
  <2> QED
    BY <1>1, <2>1
<1>4. \A i \in 0..(n - 1) : dir[Log(i)] = i + 1
  <2>1. \A i : Log(i)[2] = i
    BY DEF Log
  <2> QED
    BY <1>1, <2>1
<1>5. Marker \notin DOMAIN dir
  <2>1. \A i : Marker # Log(i)
    BY DEF Marker, Log
  <2> QED
    BY <1>1, <2>1
<1>6. ASSUME NEW i \in 0..Backups
      PROVE  Content(dir, data)[i] = IF i < n THEN data[i + 1].lines ELSE <<>>
  <2>1. Slot(dir, i) = IF i \in 0..(n - 1) THEN i + 1 ELSE Metadata
    BY <1>3, <1>4, <1>5 DEF Slot
  <2>2. i \in 0..(n - 1) <=> i < n
    BY <1>2
  <2>3. i < n => i + 1 \in Inodes /\ i + 1 # Metadata
    BY <1>2 DEF Inodes, Metadata
  <2>4. i < n => ~IsTorn(data[i + 1].lines)
    BY <2>3, InitIs
  <2> QED
    BY <2>1, <2>2, <2>3, <2>4 DEF Content, Index, Whole
<1>7. ASSUME NEW i \in Inodes PROVE data[i].lines \in Seq(Events)
  <2>1. data[i].lines \in Seq(1..Old) /\ 1..Old \subseteq Events
    BY InitIs, NumbersAre DEF Events
  <2> QED
    BY <2>1, SeqMonotonic
<1>8. Content(dir, data) \in [0..Backups -> Seq(Events)]
  <2>1. ASSUME NEW i \in 0..Backups PROVE Content(dir, data)[i] \in Seq(Events)
    <3>1. i < n => i + 1 \in Inodes
      BY <1>2 DEF Inodes
    <3>2. <<>> \in Seq(Events)
      OBVIOUS
    <3>3. CASE i < n
      BY <1>6, <1>7, <3>1, <3>3
    <3>4. CASE ~(i < n)
      BY <1>6, <3>2, <3>4
    <3> QED
      BY <3>3, <3>4
  <2>2. Content(dir, data) = [ i \in 0..Backups |-> Content(dir, data)[i] ]
    BY DEF Content, Index
  <2> QED
    BY <2>1, <2>2
<1>9. UNION { Range(data[i].lines) : i \in Inodes } = UNION { Abstract!In(View(dir)[i]) : i \in 0..Backups }
  <2>1. \A x : x \in UNION { Range(data[i].lines) : i \in Inodes } <=> \E i \in 1..n : x \in Range(data[i].lines)
    <3>1. ASSUME NEW i \in Inodes, i \notin 1..n PROVE Range(data[i].lines) = {}
      <4>1. data[i] = Empty
        BY <1>1, <1>2, <3>1 DEF Inodes
      <4> QED
        BY <4>1 DEF Empty, Range
    <3>2. 1..n \subseteq Inodes
      BY <1>2 DEF Inodes
    <3> QED
      BY <3>1, <3>2
  <2>2. \A x : x \in UNION { Abstract!In(View(dir)[i]) : i \in 0..Backups } <=> \E i \in 1..n : x \in Range(data[i].lines)
    <3>1. \A i \in 0..Backups : View(dir)[i] = IF i < n THEN data[i + 1].lines ELSE <<>>
      BY <1>6, ViewIs
    <3>2. Abstract!In(<<>>) = {}
      BY DEF Abstract!In
    <3>3. \A i \in Inodes : Abstract!In(data[i].lines) = Range(data[i].lines)
      BY <1>7 DEF Abstract!In, Range
    <3>4. \A i \in 0..Backups : i < n => i + 1 \in 1..n /\ i + 1 \in Inodes
      BY <1>2 DEF Inodes
    <3>5. \A i \in 1..n : i - 1 \in 0..Backups /\ i - 1 < n /\ (i - 1) + 1 = i /\ i \in Inodes
      BY <1>2 DEF Inodes
    <3>6. ASSUME NEW x, NEW i \in 0..Backups, x \in Abstract!In(View(dir)[i]) PROVE \E j \in 1..n : x \in Range(data[j].lines)
      BY <3>1, <3>2, <3>3, <3>4, <3>6
    <3>7. ASSUME NEW x, NEW j \in 1..n, x \in Range(data[j].lines) PROVE \E i \in 0..Backups : x \in Abstract!In(View(dir)[i])
      BY <3>1, <3>3, <3>5, <3>7
    <3> QED
      BY <3>6, <3>7
  <2> QED
    BY <2>1, <2>2
<1>10. safe = Abstract!Present \cap Durable
  BY <1>9 DEF Init, Abstract!Present
<1>11. { View(d) : d \in unsynced } = {View(dir)}
  BY DEF Init
<1> QED
  BY <1>8, <1>10, <1>11, ViewIs DEF Abstract!Init

\* The logger implements the atomic log: with any number of backups, whichever calls fail
\* and wherever the daemon dies or the power is lost, an event is in the log wholly or not
\* at all, a rotation moves all files at once, and no durable event that Write has
\* confirmed disappears but with the oldest backup.
THEOREM LogIsImplemented == Spec => ImplementsLog
<1>1. Init => Abstract!Init
  BY InitRefines
<1>2. IInv /\ RInv /\ [Next]_vars => [Abstract!Next]_<<View(dir), { View(d) : d \in unsynced }, safe>>
  <2> SUFFICES ASSUME IInv, RInv, [Next]_vars
               PROVE  Abstract!Next \/ UNCHANGED <<View(dir), { View(d) : d \in unsynced }, safe>>
    OBVIOUS
  <2>1. Unseen => UNCHANGED <<View(dir), { View(d) : d \in unsynced }, safe>>
    BY ViewIs DEF Unseen
  <2>2. CASE Next
    BY <2>1, <2>2, NextRefines
  <2>3. CASE UNCHANGED vars
    <3>1. Unseen
      BY <2>3, UnseenSame DEF vars
    <3> QED
      BY <2>1, <3>1
  <2> QED
    BY <2>2, <2>3
<1> QED
  BY <1>1, <1>2, Invariance, RotationInvariance, PTL DEF Spec, ImplementsLog, Abstract!Spec

\* What an operation makes of a directory is a directory.
LEMMA EffectIs ==
    ASSUME NEW d, d = [ n \in DOMAIN d |-> d[n] ], NEW op \in AllOps
    PROVE  Effect(d, op) = [ n \in DOMAIN Effect(d, op) |-> Effect(d, op)[n] ]
<1>1. op.do \in {"create", "new", "link", "rename", "remove"}
  BY OpFields DEF AllOps, StageOps, ShiftOps, RestoreOps, SweepOps, Publish
<1>2. \A e, n, x : Put(e, n, x) = [ m \in DOMAIN Put(e, n, x) |-> Put(e, n, x)[m] ]
  BY DEF Put
<1>3. \A n : Drop(d, n) = [ m \in DOMAIN Drop(d, n) |-> Drop(d, n)[m] ]
  BY DEF Drop
<1> DEFINE IsDir(e) == e = [ m \in DOMAIN e |-> e[m] ]
<1>4. IsDir(d) /\ (\A e, n, x : IsDir(Put(e, n, x))) /\ \A n : IsDir(Drop(d, n))
  BY <1>2, <1>3
<1> HIDE DEF IsDir
<1>5. IsDir(Effect(d, op))
  BY <1>1, <1>4 DEF Effect
<1> QED
  BY <1>5 DEF IsDir

\* The directories are functions, and the logger is at a known place.
KindInv ==
    /\ \A d \in unsynced : d = [ n \in DOMAIN d |-> d[n] ]
    /\ pc \in {"down", "idle", "sync", "ops", "open", "write"}

\* Every step makes a directory of a directory.
LEMMA NextKinds ==
    ASSUME IInv, StagingInv, KindInv, Next
    PROVE  KindInv'
<1>1. pc' \in {"down", "idle", "sync", "ops", "open", "write"}
  <2>1. CASE Start \/ Write \/ SkipOp \/ DoOp
    BY <2>1 DEF KindInv, Start, Write, Begin, SkipOp, DoOp, Goto
  <2>2. CASE OpFails \/ NewFails \/ SyncFails
    BY <2>2 DEF OpFails, NewFails, SyncFails, Failed, ReplyError, Goto
  <2>3. CASE Sync \/ Open \/ OpenFails \/ WriteRotates \/ WriteAppends \/ AppendFails
    BY <2>3 DEF Sync, Open, OpenFails, WriteRotates, WriteAppends, AppendFails, ReplyError, ReplyOK, Goto
  <2>4. CASE Crash \/ PowerLoss
    BY <2>4 DEF Crash, PowerLoss, Goto
  <2>5. CASE PhaseDone
    <3>1. phase \in {"created", "recover", "prepare", "apply", "settle", "cleanup", "abort"}
      BY <2>5 DEF PhaseDone, IInv, PhaseInv, Undoing
    <3> QED
      BY <2>5, <3>1 DEF PhaseDone, ReplyError, ReplyOK, Goto
  <2> QED
    BY <2>1, <2>2, <2>3, <2>4, <2>5 DEF Next
<1>2. dir \in unsynced
  BY DirKnown
<1>3. CASE unsynced' \subseteq unsynced
  BY <1>1, <1>3 DEF KindInv
<1>4. CASE DoOp \/ NewFails
  <2>1. pc = "ops" /\ todo # <<>> /\ dir' = Effect(dir, Head(todo)) /\ unsynced' = unsynced \cup {dir'}
    BY <1>4 DEF DoOp, NewFails
  <2>2. Head(todo) \in AllOps
    BY <2>1, OpKnown DEF IInv
  <2>3. dir' = [ n \in DOMAIN dir' |-> dir'[n] ]
    BY <1>2, <2>1, <2>2, EffectIs DEF KindInv
  <2> QED
    BY <1>1, <2>1, <2>3 DEF KindInv
<1>5. CASE Open
  <2>1. unsynced' = unsynced \/ (unsynced' = unsynced \cup {dir'} /\ dir' = Put(dir, Log(0), Fresh))
    BY <1>5 DEF Open
  <2>2. dir' = Put(dir, Log(0), Fresh) => dir' = [ n \in DOMAIN dir' |-> dir'[n] ]
    BY DEF Put
  <2> QED
    BY <1>1, <2>1, <2>2 DEF KindInv
<1>6. CASE Sync \/ PowerLoss
  <2>1. Sync => unsynced' = {dir}
    BY DEF Sync
  <2>2. PowerLoss => unsynced' = {dir'} /\ dir' \in unsynced
    BY DEF PowerLoss
  <2> QED
    BY <1>2, <1>3, <1>6, <2>1, <2>2
<1> QED
  <2>1. CASE Start \/ Write \/ SkipOp \/ OpFails \/ SyncFails \/ PhaseDone
    BY <1>3, <2>1 DEF Start, Write, Begin, SkipOp, OpFails, SyncFails, PhaseDone, disk
  <2>2. CASE OpenFails \/ WriteRotates \/ WriteAppends \/ AppendFails \/ Crash
    BY <1>3, <2>2 DEF OpenFails, WriteRotates, WriteAppends, AppendFails, Crash, disk
  <2> QED
    BY <1>4, <1>5, <1>6, <2>1, <2>2 DEF Next

\* Types: in particular there always is an inode left for a new file, and no line holds
\* anything but an event that was written or a torn end.
THEOREM TypeCorrect == Spec => []TypeOK
<1>1. Init => KindInv
  BY DEF Init, KindInv
<1>2. IInv /\ RInv /\ KindInv /\ [Next]_vars => KindInv'
  <2> SUFFICES ASSUME IInv, RInv, KindInv, [Next]_vars PROVE KindInv'
    OBVIOUS
  <2>1. CASE UNCHANGED vars
    BY <2>1 DEF vars, KindInv
  <2> QED
    BY <2>1, NextKinds DEF RInv
<1>3. IInv /\ RInv /\ KindInv => TypeOK
  <2> SUFFICES ASSUME IInv, RInv, KindInv PROVE TypeOK
    OBVIOUS
  <2>1. dir \in [DOMAIN dir -> Inodes \cup {Metadata}]
    <3>1. \A n \in DOMAIN dir : dir[n] \in Inodes \cup {Metadata}
      BY DirKnown DEF RInv, Typed
    <3>2. dir = [ n \in DOMAIN dir |-> dir[n] ]
      BY DirKnown DEF RInv, KindInv
    <3> QED
      BY <3>1, <3>2
  <2>2. ASSUME NEW i \in Inodes PROVE data[i].lines \in Seq(Events \cup {Torn}) /\ data[i].synced \in 0..Len(data[i].lines)
    <3>1. data[i].lines \in Seq(Nat \cup {Torn}) /\ WellFormed(data[i], written, safe)
      BY EventKnown DEF Files
    <3>2. (1..written) \cup {Torn} \subseteq Events \cup {Torn}
      BY NumbersAre DEF RInv, FormInv, Events
    <3> DEFINE lines == data[i].lines
    <3>3. lines \in Seq(Nat \cup {Torn}) /\ \A k \in 1..Len(lines) : lines[k] \in Events \cup {Torn}
      BY <3>1, <3>2 DEF WellFormed
    <3> HIDE DEF lines
    <3>4. lines \in Seq(Events \cup {Torn})
      BY <3>3
    <3> QED
      BY <3>1, <3>4 DEF WellFormed, lines
  <2>3. DOMAIN dir \subseteq Names /\ \A d \in unsynced : DOMAIN d \subseteq Names
    BY DEF IInv, DirInv, Good
  <2> QED
    BY <2>1, <2>2, <2>3 DEF TypeOK, KindInv, RInv, FormInv
<1> QED
  BY <1>1, <1>2, <1>3, Invariance, RotationInvariance, PTL DEF Spec

=============================================================================
