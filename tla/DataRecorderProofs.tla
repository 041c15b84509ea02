------------------------- MODULE DataRecorderProofs -------------------------
(***************************************************************************)
(* The data recorder for any number of samples, of samples per file and of *)
(* failing file operations.                                                *)
(***************************************************************************)
EXTENDS DataRecorder, SequenceTheorems, WellFoundedInduction, TLAPS

-----------------------------------------------------------------------------
(* FlattenSeq is defined by recursion.  Its equations follow by induction, *)
(* which is stated here by the least element of a set of numbers.          *)

LEMMA LeastNumber ==
    ASSUME NEW T \in SUBSET Nat, T # {}
    PROVE  \E x \in T : \A y \in T : x <= y
  <1> DEFINE R == OpToRel(<, Nat)
  <1>1. IsWellFoundedOn(R, Nat)  BY NatLessThanWellFounded
  <1>2. \A x \in Nat, y \in Nat : <<y, x>> \in R <=> y < x
        BY DEF OpToRel
  <1> HIDE DEF R
  <1>3. PICK x \in T : \A y \in T : ~(<<y, x>> \in R)
        BY <1>1, WFMin
  <1>4. ASSUME NEW y \in T PROVE x <= y
    <2>1. x \in Nat /\ y \in Nat  OBVIOUS
    <2>2. ~(y < x)  BY <1>2, <1>3, <2>1
    <2>3. QED  BY <2>1, <2>2
  <1>5. QED  BY <1>4

\* A set of numbers that has 0, and n + 1 with each n, has all numbers.
LEMMA Induction ==
    ASSUME NEW P, 0 \in P, \A n \in Nat : n \in P => n + 1 \in P
    PROVE  \A n \in Nat : n \in P
  <1> SUFFICES ASSUME NEW m \in Nat, m \notin P PROVE FALSE
      OBVIOUS
  <1> DEFINE T == {n \in Nat : n \notin P}
  <1>1. PICK x \in T : \A y \in T : x <= y
    <2>1. T \in SUBSET Nat /\ T # {}  OBVIOUS
    <2> HIDE DEF T
    <2>2. QED  BY <2>1, LeastNumber
  <1>2. x \in Nat /\ x # 0  OBVIOUS
  <1>3. x - 1 \in Nat /\ x - 1 \notin T  BY <1>1, <1>2
  <1>4. x - 1 \in P /\ (x - 1) + 1 = x  BY <1>2, <1>3
  <1>5. QED  BY <1>1, <1>3, <1>4

\* f holds the concatenations of the first m sequences.
Flattens(seqs, m, f) ==
    f = [i \in 1..m |-> IF i = 1 THEN seqs[i] ELSE f[i - 1] \o seqs[i]]

LEMMA FlattensAt ==
    ASSUME NEW seqs, NEW m \in Nat, NEW f, Flattens(seqs, m, f), NEW i \in 1..m
    PROVE  f[i] = IF i = 1 THEN seqs[i] ELSE f[i - 1] \o seqs[i]
  <1> DEFINE h == [j \in 1..m |-> IF j = 1 THEN seqs[j] ELSE f[j - 1] \o seqs[j]]
  <1>1. f = h  BY DEF Flattens
  <1>2. h[i] = IF i = 1 THEN seqs[i] ELSE f[i - 1] \o seqs[i]  OBVIOUS
  <1> HIDE DEF h
  <1>3. QED  BY <1>1, <1>2

LEMMA FlattensStep ==
    ASSUME NEW seqs, NEW m \in Nat, NEW f, Flattens(seqs, m, f)
    PROVE  \E g : Flattens(seqs, m + 1, g)
  <1> DEFINE g == [i \in 1..m + 1 |->
                      IF i <= m THEN f[i]
                      ELSE IF i = 1 THEN seqs[i] ELSE f[i - 1] \o seqs[i]]
             h == [i \in 1..m + 1 |-> IF i = 1 THEN seqs[i] ELSE g[i - 1] \o seqs[i]]
  <1>1. ASSUME NEW i \in 1..m + 1 PROVE g[i] = h[i]
    <2>1. CASE i <= m
      <3>1. g[i] = f[i] /\ i \in 1..m  BY <2>1
      <3>2. f[i] = IF i = 1 THEN seqs[i] ELSE f[i - 1] \o seqs[i]
            BY <3>1, FlattensAt
      <3>3. i # 1 => g[i - 1] = f[i - 1]  BY <2>1
      <3>4. QED  BY <3>1, <3>2, <3>3
    <2>2. CASE i = m + 1
      <3>1. i # 1 => g[i - 1] = f[i - 1]  BY <2>2
      <3>2. QED  BY <2>2, <3>1
    <2>3. QED  BY <2>1, <2>2
  <1>2. g = h  BY <1>1
  <1>3. Flattens(seqs, m + 1, g)  BY <1>2 DEF Flattens
  <1>4. QED  BY <1>3

LEMMA FlattensExists ==
    ASSUME NEW seqs
    PROVE  \A m \in Nat : \E f : Flattens(seqs, m, f)
  <1> DEFINE P == {m \in Nat : \E f : Flattens(seqs, m, f)}
  <1>1. 0 \in P
    <2>1. Flattens(seqs, 0, [i \in 1..0 |-> IF i = 1 THEN seqs[i] ELSE <<>>])
          BY DEF Flattens
    <2>2. QED  BY <2>1
  <1>2. ASSUME NEW n \in Nat, n \in P PROVE n + 1 \in P
    <2>1. PICK f : Flattens(seqs, n, f)  BY <1>2
    <2>2. \E g : Flattens(seqs, n + 1, g)  BY <2>1, FlattensStep
    <2>3. QED  BY <2>2
  <1> HIDE DEF P
  <1>3. \A n \in Nat : n \in P  BY <1>1, <1>2, Induction
  <1>4. QED  BY <1>3 DEF P

Agree(s, t, m) == \A i \in 1..m : s[i] = t[i]

LEMMA FlattensAgree ==
    ASSUME NEW s, NEW t, NEW m \in Nat, NEW n \in Nat, NEW f, NEW g,
           Flattens(s, m, f), Flattens(t, n, g), m <= n,
           Agree(s, t, m)
    PROVE  Agree(f, g, m)
  <1> DEFINE P == {i \in Nat : i \in 1..m => f[i] = g[i]}
  <1>1. 0 \in P  OBVIOUS
  <1>2. ASSUME NEW i \in Nat, i \in P PROVE i + 1 \in P
    <2> SUFFICES ASSUME i + 1 \in 1..m PROVE f[i + 1] = g[i + 1]
        OBVIOUS
    <2>1. i + 1 \in 1..n /\ i + 1 - 1 = i /\ s[i + 1] = t[i + 1]  BY DEF Agree
    <2>2. f[i + 1] = IF i + 1 = 1 THEN s[i + 1] ELSE f[i + 1 - 1] \o s[i + 1]
          BY FlattensAt
    <2>3. g[i + 1] = IF i + 1 = 1 THEN t[i + 1] ELSE g[i + 1 - 1] \o t[i + 1]
          BY <2>1, FlattensAt
    <2>4. i + 1 # 1 => f[i] = g[i]  BY <1>2
    <2>5. QED  BY <2>1, <2>2, <2>3, <2>4
  <1> HIDE DEF P
  <1>3. \A i \in Nat : i \in P  BY <1>1, <1>2, Induction
  <1>4. QED  BY <1>3 DEF P, Agree

\* FlattenSeq is the last of these concatenations.
LEMMA FlattenIsLast ==
    ASSUME NEW seqs, NEW n \in Nat \ {0}, n = Len(seqs)
    PROVE  \E f : Flattens(seqs, n, f) /\ FlattenSeq(seqs) = f[n]
  <1> DEFINE f == CHOOSE h : Flattens(seqs, n, h)
  <1>1. Flattens(seqs, n, f)  BY FlattensExists
  <1>2. FlattenSeq(seqs) = f[n]  BY DEF FlattenSeq, Flattens
  <1>3. QED  BY <1>1, <1>2

\* The equations of FlattenSeq.
LEMMA FlattenEmpty == FlattenSeq(<<>>) = <<>>
  BY DEF FlattenSeq

LEMMA FlattenAppend ==
    ASSUME NEW S, NEW seqs \in Seq(Seq(S)), NEW s \in Seq(S)
    PROVE  FlattenSeq(Append(seqs, s)) = FlattenSeq(seqs) \o s
  <1> DEFINE n == Len(seqs)
             t == Append(seqs, s)
  <1>1. n \in Nat /\ Len(t) = n + 1 /\ t[n + 1] = s /\ \A i \in 1..n : seqs[i] = t[i]
        OBVIOUS
  <1> HIDE DEF n, t
  <1>2. PICK k \in Nat \ {0} : k = n + 1  BY <1>1
  <1>3. k \in Nat /\ k = Len(t) /\ t[k] = s /\ k - 1 = n /\ k \in 1..k
        BY <1>1, <1>2
  <1>4. PICK g : Flattens(t, k, g) /\ FlattenSeq(t) = g[k]
        BY <1>3, FlattenIsLast
  <1>5. g[k] = IF k = 1 THEN t[k] ELSE g[k - 1] \o t[k]
        BY <1>3, <1>4, FlattensAt
  <1>6. CASE n = 0
    <2>1. seqs = <<>>  BY <1>6 DEF n
    <2>2. <<>> \o s = s  OBVIOUS
    <2>3. FlattenSeq(seqs) \o s = s  BY <2>1, <2>2, FlattenEmpty
    <2>4. FlattenSeq(t) = s  BY <1>2, <1>3, <1>4, <1>5, <1>6
    <2>5. QED  BY <2>3, <2>4 DEF t
  <1>7. CASE n # 0
    <2>1. PICK f : Flattens(seqs, n, f) /\ FlattenSeq(seqs) = f[n]
      <3>1. n = Len(seqs) /\ n \in Nat \ {0}  BY <1>1, <1>7 DEF n
      <3>2. QED  BY <3>1, FlattenIsLast
    <2>2. f[n] = g[n]
      <3>1. n \in Nat /\ n <= k /\ n \in 1..n  BY <1>1, <1>2, <1>7
      <3>2. \A i \in 1..n : f[i] = g[i]
        <4>1. Agree(seqs, t, n)  BY <1>1 DEF Agree
        <4>2. Agree(f, g, n)  BY <1>3, <1>4, <2>1, <3>1, <4>1, FlattensAgree
        <4>3. QED  BY <4>2 DEF Agree
      <3>3. QED  BY <3>1, <3>2
    <2>3. k # 1  BY <1>1, <1>2, <1>7
    <2>4. FlattenSeq(t) = FlattenSeq(seqs) \o s  BY <1>3, <1>4, <1>5, <2>1, <2>2, <2>3
    <2>5. QED  BY <2>4 DEF t
  <1>8. QED  BY <1>6, <1>7

LEMMA FlattenType ==
    ASSUME NEW S, NEW seqs \in Seq(Seq(S))
    PROVE  FlattenSeq(seqs) \in Seq(S)
  <1> DEFINE n == Len(seqs)
  <1>1. CASE n = 0
    <2>1. seqs = <<>>  BY <1>1
    <2>2. <<>> \in Seq(S)  OBVIOUS
    <2>3. QED  BY <2>1, <2>2, FlattenEmpty
  <1>2. CASE n # 0
    <2>0. n \in Nat /\ \A i \in 1..n : seqs[i] \in Seq(S)  OBVIOUS
    <2>1. PICK f : Flattens(seqs, n, f) /\ FlattenSeq(seqs) = f[n]
          BY <1>2, <2>0, FlattenIsLast
    <2> DEFINE P == {i \in Nat : i \in 1..n => f[i] \in Seq(S)}
    <2>2. 0 \in P  OBVIOUS
    <2>3. ASSUME NEW i \in Nat, i \in P PROVE i + 1 \in P
      <3> SUFFICES ASSUME i + 1 \in 1..n PROVE f[i + 1] \in Seq(S)
          OBVIOUS
      <3>1. f[i + 1] = IF i + 1 = 1 THEN seqs[i + 1] ELSE f[i + 1 - 1] \o seqs[i + 1]
            BY <2>0, <2>1, FlattensAt
      <3>2. seqs[i + 1] \in Seq(S) /\ i + 1 - 1 = i  BY <2>0
      <3>3. i + 1 # 1 => f[i] \in Seq(S)  BY <2>3
      <3>4. QED  BY <3>1, <3>2, <3>3
    <2> HIDE DEF P
    <2>4. \A i \in Nat : i \in P  BY <2>2, <2>3, Induction
    <2>5. QED  BY <1>2, <2>0, <2>1, <2>4 DEF P
  <1>3. QED  BY <1>1, <1>2

-----------------------------------------------------------------------------
(* The inductive invariant.                                                *)

\* A started file exists, and the number of the current file is that of the
\* started one or the next free one.
Books ==
    /\ m_currentFileStarted => files # <<>>
    /\ m_currentFileNumber = Len(files) - (IF m_currentFileStarted THEN 1 ELSE 0)

\* The files that are closed are full; the counter describes the started one.
Filling ==
    NumSamplesPerFile > 0 /\ ~torn =>
        IF m_currentFileStarted
        THEN /\ m_numSamplesWritten = Len(files[Len(files)])
             /\ m_numSamplesWritten < NumSamplesPerFile
        ELSE \A k \in 1..Len(files) : Len(files[k]) >= NumSamplesPerFile

\* The recorder's view of the disk, until Stop() resets it.
DiskInv == caller # "stopped" => Books /\ Filling

\* Who can hold samples: the local buffer is not empty when the thread writes
\* and empty once it has exited, and so is the buffer of a stopped recorder.
Stages ==
    /\ thread = "write" => localBuffer # <<>>
    /\ thread \in {"none", "exited"} => localBuffer = <<>>
    /\ caller \in {"new", "flushing", "stopped", "failed"} => thread = "none"
    /\ caller = "stopped" => m_buffer = <<>>

\* The files and the buffers, in this order, are the samples.
Order == ~torn /\ ~warned => Recorded \o localBuffer \o m_buffer = Samples

IInv == TypeOK /\ DiskInv /\ FilesAreFull /\ Stages /\ Order

-----------------------------------------------------------------------------
(* What a turn of the writing loop does to the disk.                       *)

LEMMA Prefix ==
    ASSUME NEW S, NEW s \in Seq(S), NEW k \in 0..Len(s)
    PROVE  /\ SubSeq(s, 1, k) \in Seq(S) /\ Len(SubSeq(s, 1, k)) = k
           /\ \A i \in 1..k : SubSeq(s, 1, k)[i] = s[i]
  <1>1. k \in Int /\ 1 \in Int /\ \A i \in 1..k : s[i] \in S
        OBVIOUS
  <1>2. /\ SubSeq(s, 1, k) \in Seq(S)
        /\ Len(SubSeq(s, 1, k)) = IF 1 <= k THEN k - 1 + 1 ELSE 0
        /\ \A i \in 1..k - 1 + 1 : SubSeq(s, 1, k)[i] = s[1 + i - 1]
        BY <1>1, SubSeqProperties
  <1>3. QED  BY <1>2

LEMMA Suffix ==
    ASSUME NEW S, NEW s \in Seq(S), NEW k \in 0..Len(s)
    PROVE  /\ SubSeq(s, k + 1, Len(s)) \in Seq(S)
           /\ SubSeq(s, 1, k) \o SubSeq(s, k + 1, Len(s)) = s
  <1>1. k + 1 \in Int /\ Len(s) \in Int /\ \A i \in k + 1..Len(s) : s[i] \in S
        OBVIOUS
  <1>2. 1 \in 1..Len(s) + 1 /\ k \in 1 - 1..Len(s) /\ Len(s) \in k..Len(s)
        OBVIOUS
  <1>3. SubSeq(s, 1, k) \o SubSeq(s, k + 1, Len(s)) = SubSeq(s, 1, Len(s))
        BY <1>2, ConcatAdjacentSubSeq
  <1>4. SubSeq(s, k + 1, Len(s)) \in Seq(S)  BY <1>1, SubSeqProperties
  <1>5. QED  BY <1>3, <1>4, SubSeqFull

LEMMA AppendedFile ==
    ASSUME NEW S, NEW fs \in Seq(Seq(S)), NEW c \in Seq(S)
    PROVE  LET gs == Append(fs, <<>> \o c) IN
           /\ gs \in Seq(Seq(S)) /\ Len(gs) = Len(fs) + 1
           /\ gs[Len(gs)] = c
           /\ \A k \in 1..Len(fs) : gs[k] = fs[k]
           /\ FlattenSeq(gs) = FlattenSeq(fs) \o c
  <1>1. <<>> \o c = c  OBVIOUS
  <1>2. FlattenSeq(Append(fs, c)) = FlattenSeq(fs) \o c  BY FlattenAppend
  <1>3. QED  BY <1>1, <1>2

LEMMA ContinuedFile ==
    ASSUME NEW S, NEW fs \in Seq(Seq(S)), fs # <<>>, NEW c \in Seq(S)
    PROVE  LET gs == Front(fs) \o <<Last(fs) \o c>> IN
           /\ gs \in Seq(Seq(S)) /\ Len(gs) = Len(fs)
           /\ gs[Len(gs)] = fs[Len(fs)] \o c
           /\ \A k \in 1..Len(fs) - 1 : gs[k] = fs[k]
           /\ FlattenSeq(gs) = FlattenSeq(fs) \o c
  <1> DEFINE front == Front(fs)
             last == Last(fs)
             gs == front \o <<last \o c>>
  <1>1. Len(fs) \in Nat \ {0}  OBVIOUS
  <1>2. /\ front \in Seq(Seq(S)) /\ Len(front) = Len(fs) - 1
        /\ \A k \in 1..Len(fs) - 1 : front[k] = fs[k]
    <2>1. PICK n \in 0..Len(fs) : n = Len(fs) - 1
      <3>1. Len(fs) - 1 \in 0..Len(fs)  BY <1>1
      <3>2. QED  BY <3>1
    <2>2. front = SubSeq(fs, 1, n)  BY <2>1 DEF Front
    <2>3. QED  BY <2>1, <2>2, Prefix
  <1>3. last \in Seq(S) /\ last = fs[Len(fs)]
        BY <1>1 DEF Last
  <1>4. fs = Append(front, last)
    <2> HIDE DEF front, last
    <2>1. Append(front, last) \in Seq(Seq(S)) /\ Len(Append(front, last)) = Len(fs)
          BY <1>1, <1>2, <1>3
    <2>2. \A k \in 1..Len(fs) : fs[k] = Append(front, last)[k]
          BY <1>1, <1>2, <1>3
    <2>3. QED  BY <2>1, <2>2, SeqEqual
  <1> HIDE DEF front, last
  <1>5. last \o c \in Seq(S)  BY <1>3
  <1>6. gs = Append(front, last \o c)  BY <1>2, <1>5
  <1>7. FlattenSeq(fs) = FlattenSeq(front) \o last
        BY <1>2, <1>3, <1>4, FlattenAppend
  <1>8. FlattenSeq(gs) = FlattenSeq(front) \o (last \o c)
        BY <1>2, <1>5, <1>6, FlattenAppend
  <1>9. FlattenSeq(gs) = FlattenSeq(fs) \o c
    <2>1. PICK flat \in Seq(S) : flat = FlattenSeq(front)  BY <1>2, FlattenType
    <2>2. (flat \o last) \o c = flat \o (last \o c)
      <3>1. c \in Seq(S) /\ flat \in Seq(S) /\ last \in Seq(S)  BY <1>3, <2>1
      <3> HIDE DEF gs
      <3>2. QED  BY <3>1
    <2>3. QED  BY <1>7, <1>8, <2>1, <2>2
  <1>10. /\ gs \in Seq(Seq(S)) /\ Len(gs) = Len(fs)
         /\ gs[Len(gs)] = last \o c
         /\ \A k \in 1..Len(fs) - 1 : gs[k] = fs[k]
         BY <1>1, <1>2, <1>5, <1>6
  <1>11. QED  BY <1>3, <1>9, <1>10 DEF front, last

Grown == Len(files') = Len(files) + (IF m_currentFileStarted THEN 0 ELSE 1)

LEMMA ContentAppended ==
    ASSUME TypeOK, Books, NEW c \in Seq(1..MaxSamples), CurrentBecomes(Current \o c)
    PROVE  /\ files' \in Seq(Seq(1..MaxSamples)) /\ files' # <<>> /\ Grown
           /\ Len(files'[Len(files')])
                = (IF m_currentFileStarted THEN Len(files[Len(files)]) ELSE 0) + Len(c)
           /\ \A k \in 1..Len(files') - 1 : k \in 1..Len(files) /\ files'[k] = files[k]
           /\ Recorded' = Recorded \o c
  <1> DEFINE S == 1..MaxSamples
  <1>1. files \in Seq(Seq(S))  BY DEF TypeOK
  <1> HIDE DEF S
  <1>2. c \in Seq(S)  BY DEF S
  <1>3. CASE m_currentFileStarted
    <2>1. files # <<>>  BY <1>3 DEF Books
    <2>2. files' = Front(files) \o <<Last(files) \o c>>
          BY <1>3 DEF CurrentBecomes, Current
    <2>3. /\ files' \in Seq(Seq(S)) /\ Len(files') = Len(files)
          /\ files'[Len(files')] = files[Len(files)] \o c
          /\ \A k \in 1..Len(files) - 1 : files'[k] = files[k]
          /\ FlattenSeq(files') = FlattenSeq(files) \o c
          BY <1>1, <1>2, <2>1, <2>2, ContinuedFile
    <2>4. Len(files) \in Nat \ {0} /\ files[Len(files)] \in Seq(S)
          BY <1>1, <2>1
    <2>5. Len(files[Len(files)] \o c) = Len(files[Len(files)]) + Len(c)
          BY <1>2, <2>4
    <2>6. Len(files') # 0  BY <2>3, <2>4
    <2>7. QED  BY <1>3, <2>3, <2>4, <2>5, <2>6 DEF Recorded, Grown, S
  <1>4. CASE ~m_currentFileStarted
    <2>1. files' = Append(files, <<>> \o c)
          BY <1>4 DEF CurrentBecomes, Current
    <2>2. /\ files' \in Seq(Seq(S)) /\ Len(files') = Len(files) + 1
          /\ files'[Len(files')] = c
          /\ \A k \in 1..Len(files) : files'[k] = files[k]
          /\ FlattenSeq(files') = FlattenSeq(files) \o c
          BY <1>1, <1>2, <2>1, AppendedFile
    <2>3. Len(files) \in Nat /\ Len(c) \in Nat  BY <1>1, <1>2
    <2>4. Len(files') # 0  BY <2>2, <2>3
    <2>5. QED  BY <1>4, <2>2, <2>3, <2>4 DEF Recorded, Grown, S
  <1>5. QED  BY <1>3, <1>4

\* A turn takes a part of the buffer that is not empty and no more than a file.
LEMMA TurnSize ==
    ASSUME NEW S, NEW buf \in Seq(S), buf # <<>>
    PROVE  /\ SamplesToWrite(Len(buf)) \in 1..Len(buf)
           /\ NumSamplesPerFile > 0 => SamplesToWrite(Len(buf)) <= NumSamplesPerFile
           /\ \A k \in 0..SamplesToWrite(Len(buf)) :
                SubSeq(buf, 1, k) \in Seq(S) /\ Len(SubSeq(buf, 1, k)) = k
           /\ Rest(buf) \in Seq(S)
           /\ SubSeq(buf, 1, SamplesToWrite(Len(buf))) \o Rest(buf) = buf
  <1>1. Len(buf) \in Nat \ {0}  OBVIOUS
  <1>2. /\ SamplesToWrite(Len(buf)) \in 1..Len(buf)
        /\ NumSamplesPerFile > 0 => SamplesToWrite(Len(buf)) <= NumSamplesPerFile
        BY <1>1, RecorderConstants DEF SamplesToWrite
  <1>3. PICK n \in 0..Len(buf) : n = SamplesToWrite(Len(buf))  BY <1>1, <1>2
  <1>4. \A k \in 0..n : SubSeq(buf, 1, k) \in Seq(S) /\ Len(SubSeq(buf, 1, k)) = k
    <2>1. \A k \in 0..n : k \in 0..Len(buf)  BY <1>1, <1>3
    <2>2. QED  BY <2>1, Prefix
  <1>5. /\ SubSeq(buf, n + 1, Len(buf)) \in Seq(S)
        /\ SubSeq(buf, 1, n) \o SubSeq(buf, n + 1, Len(buf)) = buf
        BY <1>3, Suffix
  <1>6. QED  BY <1>2, <1>3, <1>4, <1>5 DEF Rest

DiskTypes ==
    /\ m_currentFileNumber \in Nat /\ m_numSamplesWritten \in Nat
    /\ m_currentFileStarted \in BOOLEAN
    /\ files \in Seq(Seq(1..MaxSamples))
    /\ faults \in 0..MaxFaults /\ torn \in BOOLEAN

\* The files after c has been written to the current one: it holds what the
\* counter says and c, and the files before it are full.
LEMMA FilesAfter ==
    ASSUME TypeOK, Books, Filling, FilesAreFull, NumSamplesPerFile > 0, ~torn,
           NEW c \in Seq(1..MaxSamples), CurrentBecomes(Current \o c),
           Len(c) <= NumSamplesPerFile
    PROVE  /\ Len(files'[Len(files')]) = WrittenToCurrent + Len(c)
           /\ WrittenToCurrent < NumSamplesPerFile
           /\ \A k \in 1..Len(files') - 1 : Len(files'[k]) >= NumSamplesPerFile
           /\ FilesAreFull'
  <1>1. NumSamplesPerFile \in Nat /\ Len(c) \in Nat /\ Len(files) \in Nat
        /\ m_numSamplesWritten \in Nat
        BY RecorderConstants DEF TypeOK
  <1>2. /\ files' \in Seq(Seq(1..MaxSamples)) /\ files' # <<>> /\ Grown
        /\ Len(files'[Len(files')])
             = (IF m_currentFileStarted THEN Len(files[Len(files)]) ELSE 0) + Len(c)
        /\ \A k \in 1..Len(files') - 1 : k \in 1..Len(files) /\ files'[k] = files[k]
        BY ContentAppended
  <1>3. Len(files') \in Nat \ {0} /\ DOMAIN files' = 1..Len(files')
        /\ DOMAIN files = 1..Len(files)
        BY <1>2 DEF TypeOK
  <1>4. Len(files'[Len(files')]) = WrittenToCurrent + Len(c)
        /\ WrittenToCurrent < NumSamplesPerFile /\ WrittenToCurrent \in Nat
        BY <1>1, <1>2 DEF Filling, WrittenToCurrent
  <1>5. ASSUME NEW k \in 1..Len(files') - 1
        PROVE  Len(files'[k]) >= NumSamplesPerFile
               /\ Len(files'[k]) < 2 * NumSamplesPerFile
    <2>1. k \in 1..Len(files) /\ files'[k] = files[k]  BY <1>2
    <2>2. Len(files[k]) < 2 * NumSamplesPerFile  BY <1>3, <2>1 DEF FilesAreFull
    <2>3. m_currentFileStarted => k < Len(files)
          BY <1>1, <1>2, <1>3 DEF Grown
    <2>4. Len(files[k]) >= NumSamplesPerFile
          BY <1>3, <2>1, <2>3 DEF FilesAreFull, Filling
    <2>5. QED  BY <2>1, <2>2, <2>4
  <1>6. Len(files'[Len(files')]) < 2 * NumSamplesPerFile  BY <1>1, <1>4
  <1>7. FilesAreFull'
    <2>1. ASSUME NEW k \in DOMAIN files'
          PROVE  /\ k < Len(files') => Len(files'[k]) >= NumSamplesPerFile
                 /\ Len(files'[k]) < 2 * NumSamplesPerFile
      <3>1. k \in 1..Len(files')  BY <1>3, <2>1
      <3>2. CASE k = Len(files')
            BY <1>3, <1>6, <3>2
      <3>3. CASE k # Len(files')
        <4>1. k \in 1..Len(files') - 1  BY <1>3, <3>1, <3>3
        <4>2. QED  BY <1>5, <4>1
      <3>4. QED  BY <3>2, <3>3
    <2>2. QED  BY <2>1 DEF FilesAreFull
  <1>8. QED  BY <1>4, <1>5, <1>7

\* The three kinds of turn that change files, told apart by what they write
\* and by where the counters go.
LEMMA AdvancedDisk ==
    ASSUME TypeOK, Books, Filling, FilesAreFull,
           NEW c \in Seq(1..MaxSamples), CurrentBecomes(Current \o c),
           NEW n \in Nat, FileAdvances(WrittenToCurrent + n), torn' \in BOOLEAN,
           NumSamplesPerFile > 0 => n <= NumSamplesPerFile,
           ~torn' => ~torn /\ Len(c) = n
    PROVE  /\ m_currentFileNumber' \in Nat /\ m_numSamplesWritten' \in Nat
           /\ m_currentFileStarted' \in BOOLEAN
           /\ Books' /\ Filling' /\ FilesAreFull'
  <1>1. NumSamplesPerFile \in Nat /\ Len(files) \in Nat /\ WrittenToCurrent \in Nat
        /\ m_currentFileNumber \in Nat /\ m_currentFileStarted \in BOOLEAN
        BY RecorderConstants DEF TypeOK, WrittenToCurrent
  <1>2. files' \in Seq(Seq(1..MaxSamples)) /\ files' # <<>> /\ Grown
        BY ContentAppended
  <1> DEFINE full == NumSamplesPerFile > 0 /\ WrittenToCurrent + n >= NumSamplesPerFile
  <1>3. /\ m_numSamplesWritten' = WrittenToCurrent + n
        /\ m_currentFileStarted' = ~full
        /\ m_currentFileNumber' = m_currentFileNumber + (IF full THEN 1 ELSE 0)
        BY DEF FileAdvances
  <1>4. m_currentFileNumber' \in Nat /\ m_numSamplesWritten' \in Nat
        /\ m_currentFileStarted' \in BOOLEAN
        BY <1>1, <1>3
  <1>5. Books'
    <2>1. m_currentFileNumber = Len(files) - (IF m_currentFileStarted THEN 1 ELSE 0)
          BY DEF Books
    <2>2. Len(files') = Len(files) + (IF m_currentFileStarted THEN 0 ELSE 1)
          BY <1>2 DEF Grown
    <2> HIDE DEF full
    <2>3. m_currentFileNumber + (IF full THEN 1 ELSE 0)
            = Len(files') - (IF ~full THEN 1 ELSE 0)
      <3>1. m_currentFileNumber + 1 = Len(files')
            /\ m_currentFileNumber = Len(files') - 1
            BY <1>1, <2>1, <2>2
      <3>2. CASE full  BY <3>1, <3>2
      <3>3. CASE ~full  BY <1>1, <3>1, <3>3
      <3>4. QED  BY <3>2, <3>3
    <2>4. QED  BY <1>2, <1>3, <2>3 DEF Books
  <1>6. CASE NumSamplesPerFile > 0 /\ ~torn'
    <2>1. ~torn /\ Len(c) = n /\ n <= NumSamplesPerFile  BY <1>6
    <2>2. /\ Len(files'[Len(files')]) = WrittenToCurrent + n
          /\ \A k \in 1..Len(files') - 1 : Len(files'[k]) >= NumSamplesPerFile
          /\ FilesAreFull'
          BY <1>6, <2>1, FilesAfter
    <2>3. Filling'
      <3>1. CASE full
        <4>1. ~m_currentFileStarted'  BY <1>3, <3>1
        <4>2. Len(files'[Len(files')]) >= NumSamplesPerFile  BY <2>2, <3>1
        <4>3. \A k \in 1..Len(files') : k = Len(files') \/ k \in 1..Len(files') - 1
              BY <1>2
        <4>4. \A k \in 1..Len(files') : Len(files'[k]) >= NumSamplesPerFile
              BY <2>2, <4>2, <4>3
        <4>5. QED  BY <4>1, <4>4 DEF Filling
      <3>2. CASE ~full
        <4>1. m_currentFileStarted'  BY <1>3, <3>2
        <4>2. m_numSamplesWritten' < NumSamplesPerFile  BY <1>1, <1>3, <1>6, <3>2
        <4>3. QED  BY <1>3, <2>2, <4>1, <4>2 DEF Filling
      <3>3. QED  BY <3>1, <3>2
    <2>4. QED  BY <1>4, <1>5, <2>2, <2>3
  <1>7. CASE ~(NumSamplesPerFile > 0 /\ ~torn')
        BY <1>4, <1>5, <1>7 DEF Filling, FilesAreFull
  <1>8. QED  BY <1>6, <1>7

LEMMA StuckDisk ==
    ASSUME TypeOK, Books, Filling, FilesAreFull,
           NEW c \in Seq(1..MaxSamples), CurrentBecomes(Current \o c),
           m_numSamplesWritten' = WrittenToCurrent, m_currentFileStarted' = TRUE,
           UNCHANGED m_currentFileNumber, torn' \in BOOLEAN,
           ~torn' => ~torn /\ Len(c) = 0
    PROVE  /\ m_numSamplesWritten' \in Nat
           /\ Books' /\ Filling' /\ FilesAreFull'
  <1>1. NumSamplesPerFile \in Nat /\ Len(files) \in Nat /\ WrittenToCurrent \in Nat
        /\ m_currentFileStarted \in BOOLEAN
        BY RecorderConstants DEF TypeOK, WrittenToCurrent
  <1>2. files' \in Seq(Seq(1..MaxSamples)) /\ files' # <<>> /\ Grown
        BY ContentAppended
  <1>3. Books'  BY <1>1, <1>2 DEF Books, Grown
  <1>4. CASE NumSamplesPerFile > 0 /\ ~torn'
    <2>1. ~torn /\ Len(c) = 0 /\ Len(c) <= NumSamplesPerFile  BY <1>1, <1>4
    <2>2. /\ Len(files'[Len(files')]) = WrittenToCurrent + Len(c)
          /\ WrittenToCurrent < NumSamplesPerFile
          /\ FilesAreFull'
          BY <1>4, <2>1, FilesAfter
    <2>3. Len(files'[Len(files')]) = m_numSamplesWritten'  BY <1>1, <2>1, <2>2
    <2>4. Filling'  BY <2>2, <2>3 DEF Filling
    <2>5. QED  BY <1>1, <1>3, <2>2, <2>4
  <1>5. CASE ~(NumSamplesPerFile > 0 /\ ~torn')
        BY <1>1, <1>3, <1>5 DEF Filling, FilesAreFull
  <1>6. QED  BY <1>4, <1>5

\* A turn keeps the recorder's view of the disk, whatever fails.
LEMMA TurnKeeps ==
    ASSUME TypeOK, Books, Filling, FilesAreFull,
           NEW buf \in Seq(1..MaxSamples), buf # <<>>,
           TurnSucceeds(buf) \/ CloseFails(buf) \/ HeaderFails \/ WriteFails(buf)
    PROVE  DiskTypes' /\ Books' /\ Filling' /\ FilesAreFull'
  <1> DEFINE n == SamplesToWrite(Len(buf))
  <1>1. /\ n \in 1..Len(buf) /\ n \in Nat
        /\ NumSamplesPerFile > 0 => n <= NumSamplesPerFile
        /\ \A k \in 0..n : SubSeq(buf, 1, k) \in Seq(1..MaxSamples)
                           /\ Len(SubSeq(buf, 1, k)) = k
    <2>1. Len(buf) \in Nat  OBVIOUS
    <2>2. \A i \in 1..Len(buf) : i \in Nat  BY <2>1
    <2>3. n \in 1..Len(buf)  BY TurnSize
    <2>4. n \in Nat  BY <2>2, <2>3
    <2>5. QED  BY <2>3, <2>4, TurnSize
  <1>2. torn \in BOOLEAN /\ faults \in 0..MaxFaults /\ MaxFaults \in Nat
        BY RecorderConstants DEF TypeOK
  <1>3. Fault => faults' \in 0..MaxFaults  BY <1>2 DEF Fault
  <1>4. CASE TurnSucceeds(buf)
    <2>1. CurrentBecomes(Current \o SubSeq(buf, 1, n))
          /\ FileAdvances(WrittenToCurrent + n) /\ faults' = faults /\ torn' = torn
          BY <1>4 DEF TurnSucceeds
    <2> HIDE DEF n
    <2>2. n \in 0..n  BY <1>1
    <2>3. SubSeq(buf, 1, n) \in Seq(1..MaxSamples) /\ Len(SubSeq(buf, 1, n)) = n
          BY <1>1, <2>2
    <2>4. files' \in Seq(Seq(1..MaxSamples))  BY <2>1, <2>3, ContentAppended
    <2>5. QED  BY <1>1, <1>2, <2>1, <2>3, <2>4, AdvancedDisk DEF DiskTypes
  <1>5. CASE CloseFails(buf)
    <2>1. PICK k \in 0..(n - 1) : CurrentBecomes(Current \o SubSeq(buf, 1, k))
          BY <1>5 DEF CloseFails
    <2>2. Fault /\ torn' = TRUE /\ FileAdvances(WrittenToCurrent + n)
          BY <1>5 DEF CloseFails
    <2> HIDE DEF n
    <2>3. k \in 0..n  BY <1>1, <2>1
    <2>4. SubSeq(buf, 1, k) \in Seq(1..MaxSamples)  BY <1>1, <2>3
    <2>5. files' \in Seq(Seq(1..MaxSamples))  BY <2>1, <2>4, ContentAppended
    <2>6. QED  BY <1>1, <1>3, <2>1, <2>2, <2>4, <2>5, AdvancedDisk DEF DiskTypes
  <1>6. CASE HeaderFails
        BY <1>2, <1>3, <1>6
        DEF HeaderFails, fileState, TypeOK, DiskTypes, Books, Filling, FilesAreFull
  <1>7. CASE WriteFails(buf)
    <2>1. PICK k \in 0..n : /\ CurrentBecomes(Current \o SubSeq(buf, 1, k))
                            /\ torn' = (torn \/ k > 0)
          BY <1>7 DEF WriteFails
    <2>2. /\ Fault /\ m_numSamplesWritten' = WrittenToCurrent
          /\ m_currentFileStarted' = TRUE /\ UNCHANGED m_currentFileNumber
          BY <1>7 DEF WriteFails
    <2> HIDE DEF n
    <2>3. SubSeq(buf, 1, k) \in Seq(1..MaxSamples) /\ Len(SubSeq(buf, 1, k)) = k
          BY <1>1, <2>1
    <2>4. files' \in Seq(Seq(1..MaxSamples))  BY <2>1, <2>3, ContentAppended
    <2>5. torn' \in BOOLEAN /\ (~torn' => ~torn /\ k = 0)
      <3>1. (torn \/ k > 0) \in BOOLEAN  OBVIOUS
      <3>2. ~(k > 0) => k = 0  BY <1>1, <2>1
      <3>3. QED  BY <2>1, <3>1, <3>2, Zenon
    <2>6. m_currentFileNumber' \in Nat  BY <2>2 DEF TypeOK
    <2>7. QED  BY <1>3, <2>1, <2>2, <2>3, <2>4, <2>5, <2>6, StuckDisk DEF DiskTypes
  <1>8. QED  BY <1>4, <1>5, <1>6, <1>7

-----------------------------------------------------------------------------
(* What a turn does to the order of the samples.                           *)

LEMMA Assoc ==
    ASSUME NEW S, NEW s \in Seq(S), NEW t \in Seq(S), NEW u \in Seq(S)
    PROVE  (s \o t) \o u = s \o (t \o u)
  OBVIOUS

LEMMA RecordedType ==
    ASSUME TypeOK
    PROVE  Recorded \in Seq(1..MaxSamples)
  <1> DEFINE S == 1..MaxSamples
  <1>1. files \in Seq(Seq(S))  BY DEF TypeOK
  <1> HIDE DEF S
  <1>2. FlattenSeq(files) \in Seq(S)  BY <1>1, FlattenType
  <1>3. QED  BY <1>2 DEF Recorded, S

LEMMA TurnMoves ==
    ASSUME TypeOK, Books, NEW buf \in Seq(1..MaxSamples), buf # <<>>,
           TurnSucceeds(buf) \/ CloseFails(buf), ~torn'
    PROVE  ~torn /\ \E w \in Seq(1..MaxSamples) :
                        Recorded' = Recorded \o w /\ w \o Rest(buf) = buf
  <1> DEFINE n == SamplesToWrite(Len(buf))
             w == SubSeq(buf, 1, n)
  <1>1. TurnSucceeds(buf)  BY DEF CloseFails
  <1>2. CurrentBecomes(Current \o w) /\ torn' = torn  BY <1>1 DEF TurnSucceeds
  <1>3. w \in Seq(1..MaxSamples) /\ w \o Rest(buf) = buf
    <2>1. /\ n \in 1..Len(buf)
          /\ \A k \in 0..n : SubSeq(buf, 1, k) \in Seq(1..MaxSamples)
          /\ w \o Rest(buf) = buf
          BY TurnSize
    <2>2. n \in 0..n
      <3>1. Len(buf) \in Nat  OBVIOUS
      <3> HIDE DEF n
      <3>2. QED  BY <2>1, <3>1
    <2>3. QED  BY <2>1, <2>2
  <1> HIDE DEF w
  <1>4. Recorded' = Recorded \o w  BY <1>2, <1>3, ContentAppended
  <1>5. QED  BY <1>2, <1>3, <1>4

LEMMA FailureMovesNothing ==
    ASSUME TypeOK, Books, NEW buf \in Seq(1..MaxSamples), buf # <<>>,
           HeaderFails \/ WriteFails(buf), ~torn'
    PROVE  ~torn /\ Recorded' = Recorded
  <1>1. CASE HeaderFails
        BY <1>1 DEF HeaderFails, fileState, Recorded
  <1>2. CASE WriteFails(buf)
    <2>1. PICK k \in 0..SamplesToWrite(Len(buf)) :
              /\ CurrentBecomes(Current \o SubSeq(buf, 1, k))
              /\ torn' = (torn \/ k > 0)
          BY <1>2 DEF WriteFails
    <2>2. Len(buf) \in Nat /\ SamplesToWrite(Len(buf)) \in 1..Len(buf)
      <3>1. Len(buf) \in Nat  OBVIOUS
      <3>2. QED  BY <3>1, TurnSize
    <2>3. ~torn /\ k = 0
      <3>1. ~torn /\ ~(k > 0)  BY <2>1, Zenon
      <3>2. QED  BY <2>1, <2>2, <3>1
    <2>4. SubSeq(buf, 1, 0) = <<>>  BY SubSeqEmpty
    <2>5. CurrentBecomes(Current \o <<>>)  BY <2>1, <2>3, <2>4
    <2>6. <<>> \in Seq(1..MaxSamples)  OBVIOUS
    <2>7. Recorded' = Recorded \o <<>>  BY <2>5, <2>6, ContentAppended
    <2>8. QED  BY <2>3, <2>7, RecordedType, ConcatEmptySeq
  <1>3. QED  BY <1>1, <1>2

-----------------------------------------------------------------------------
(* The invariant holds initially and in every step.                        *)

LEMMA InitHolds == Init => IInv
  <1> SUFFICES ASSUME Init PROVE IInv  OBVIOUS
  <1> USE DEF Init
  <1>1. TypeOK
    <2>1. 0 \in 0..MaxSamples /\ 0 \in 0..MaxFaults  BY RecorderConstants
    <2>2. /\ m_buffer \in Seq(1..MaxSamples) /\ localBuffer \in Seq(1..MaxSamples)
          /\ files \in Seq(Seq(1..MaxSamples))
          OBVIOUS
    <2>3. /\ m_event \in BOOLEAN /\ m_started \in BOOLEAN /\ m_terminate \in BOOLEAN
          /\ m_currentFileStarted \in BOOLEAN /\ torn \in BOOLEAN /\ warned \in BOOLEAN
          BY Zenon
    <2>4. QED  BY <2>1, <2>2, <2>3 DEF TypeOK
  <1>2. DiskInv /\ FilesAreFull  BY DEF DiskInv, Books, Filling, FilesAreFull
  <1>3. Stages  BY DEF Stages
  <1>4. Order
    <2>1. Samples = <<>>  BY DEF Samples
    <2>2. Recorded = <<>>  BY FlattenEmpty DEF Recorded
    <2>3. QED  BY <2>1, <2>2 DEF Order
  <1>5. QED  BY <1>1, <1>2, <1>3, <1>4 DEF IInv

\* A step that leaves the disk alone.
LEMMA DiskFrame ==
    ASSUME DiskInv, FilesAreFull, UNCHANGED disk, caller # "stopped" \/ UNCHANGED caller
    PROVE  DiskInv' /\ FilesAreFull' /\ Recorded' = Recorded
  BY DEF DiskInv, FilesAreFull, Books, Filling, disk, fileState, Recorded

LEMMA WriteKeeps ==
    ASSUME IInv, WritePushes \/ WriteRejected \/ WriteNotifies
    PROVE  IInv'
  <1>1. TypeOK /\ DiskInv /\ FilesAreFull /\ Stages /\ Order  BY DEF IInv
  <1>2. UNCHANGED <<disk, caller, thread, localBuffer, warned>>
        BY DEF WritePushes, WriteRejected, WriteNotifies
  <1>3. DiskInv' /\ FilesAreFull' /\ Recorded' = Recorded  BY <1>1, <1>2, DiskFrame
  <1>4. CASE WritePushes
    <2>1. /\ caller # "stopped" /\ produced < MaxSamples
          /\ produced' = produced + 1 /\ m_buffer' = Append(m_buffer, produced + 1)
          BY <1>4 DEF WritePushes, Writable
    <2>2. produced + 1 \in 1..MaxSamples /\ produced \in Nat
          BY <1>1, <2>1, RecorderConstants DEF TypeOK
    <2>3. TypeOK'
      <3>1. m_buffer' \in Seq(1..MaxSamples) /\ produced' \in 0..MaxSamples
            BY <1>1, <2>1, <2>2 DEF TypeOK
      <3>2. QED  BY <1>1, <1>4, <3>1 DEF TypeOK, WritePushes, disk, fileState
    <2>4. Stages'  BY <1>1, <1>2, <2>1 DEF Stages
    <2>5. Order'
      <3> SUFFICES ASSUME ~torn', ~warned'
                   PROVE  Recorded' \o localBuffer' \o m_buffer' = Samples'
          BY DEF Order
      <3>1. Recorded \o localBuffer \o m_buffer = Samples
            BY <1>1, <1>2 DEF Order, disk
      <3> DEFINE S == 1..MaxSamples
                 held == Recorded \o localBuffer
      <3>2. held \in Seq(S) /\ m_buffer \in Seq(S)
            BY <1>1, RecordedType DEF TypeOK
      <3> HIDE DEF held, S
      <3>3. held \o Append(m_buffer, produced + 1) = Append(held \o m_buffer, produced + 1)
        <4>1. produced + 1 \in S  BY <2>2 DEF S
        <4>2. Append(m_buffer, produced + 1) = m_buffer \o <<produced + 1>>
              BY <3>2, <4>1, AppendIsConcat
        <4>3. held \o m_buffer \in Seq(S)  BY <3>2
        <4>4. Append(held \o m_buffer, produced + 1) = (held \o m_buffer) \o <<produced + 1>>
              BY <4>1, <4>3, AppendIsConcat
        <4>5. <<produced + 1>> \in Seq(S)  BY <4>1
        <4>6. QED  BY <3>2, <4>2, <4>4, <4>5, Assoc
      <3>4. Append(Samples, produced + 1) = [k \in 1..produced + 1 |-> k]
        <4>1. Len(Samples) = produced /\ Samples \in Seq(Nat)
              BY <2>2 DEF Samples
        <4>2. \A k \in 1..produced : Samples[k] = k  BY DEF Samples
        <4> HIDE DEF Samples
        <4> DEFINE t == [k \in 1..produced + 1 |-> k]
        <4>3. t \in Seq(Nat) /\ Len(t) = produced + 1  BY <2>2
        <4>4. \A k \in 1..produced + 1 : t[k] = k  OBVIOUS
        <4> HIDE DEF t
        <4>5. /\ Append(Samples, produced + 1) \in Seq(Nat)
              /\ Len(Append(Samples, produced + 1)) = produced + 1
              /\ \A k \in 1..produced + 1 : Append(Samples, produced + 1)[k] = k
              BY <2>2, <4>1, <4>2
        <4>6. Append(Samples, produced + 1) = t  BY <4>3, <4>4, <4>5, SeqEqual
        <4>7. QED  BY <4>6 DEF t
      <3>5. Recorded' \o localBuffer' = held  BY <1>2, <1>3 DEF held
      <3>6. held \o m_buffer = Samples  BY <3>1 DEF held
      <3>7. Samples' = [k \in 1..produced + 1 |-> k]  BY <2>1 DEF Samples
      <3>8. QED  BY <2>1, <3>3, <3>4, <3>5, <3>6, <3>7
    <2>6. QED  BY <1>3, <2>3, <2>4, <2>5 DEF IInv
  <1>5. CASE WriteRejected \/ WriteNotifies
    <2>1. UNCHANGED <<m_buffer, produced>>  BY <1>5 DEF WriteRejected, WriteNotifies
    <2>2. TypeOK'
      <3>1. writer' \in {"idle", "notify"} /\ m_event' \in BOOLEAN
            BY <1>1, <1>5, Zenon DEF TypeOK, WriteRejected, WriteNotifies
      <3>2. UNCHANGED <<m_started, m_terminate>>
            BY <1>5 DEF WriteRejected, WriteNotifies
      <3>3. QED  BY <1>1, <1>2, <2>1, <3>1, <3>2 DEF TypeOK, disk, fileState
    <2>3. Stages'  BY <1>1, <1>2, <2>1 DEF Stages
    <2>4. Order'  BY <1>1, <1>2, <1>3, <2>1 DEF Order, Samples, disk
    <2>5. QED  BY <1>3, <2>2, <2>3, <2>4 DEF IInv
  <1>6. QED  BY <1>4, <1>5

\* A turn of the writing loop of the thread, or of the loop of FlushBuffer.
LEMMA TurnKeepsDisk ==
    ASSUME TypeOK, DiskInv, FilesAreFull, caller # "stopped",
           NEW buf \in Seq(1..MaxSamples), buf # <<>>,
           TurnSucceeds(buf) \/ CloseFails(buf) \/ HeaderFails \/ WriteFails(buf)
    PROVE  DiskTypes' /\ DiskInv' /\ FilesAreFull'
  <1>1. Books /\ Filling  BY DEF DiskInv
  <1>2. DiskTypes' /\ Books' /\ Filling' /\ FilesAreFull'  BY <1>1, TurnKeeps
  <1>3. QED  BY <1>2 DEF DiskInv

LEMMA ThreadKeeps ==
    ASSUME IInv, Thread
    PROVE  IInv'
  <1>1. TypeOK /\ DiskInv /\ FilesAreFull /\ Stages /\ Order  BY DEF IInv
  <1> DEFINE S == 1..MaxSamples
  <1>2. localBuffer \in Seq(S) /\ m_buffer \in Seq(S) /\ Recorded \in Seq(S)
        BY <1>1, RecordedType DEF TypeOK
  <1>3. /\ UNCHANGED <<m_started, m_terminate, caller, writer, produced, warned>>
        /\ thread \notin {"none", "exited"} /\ thread' # "none"
        BY DEF Thread, ThreadTests, ThreadWaits, ThreadChecks, ThreadTakes, ThreadWrites,
               ThreadWriteFails, ThreadLeaves, ThreadGoes
  <1>4. caller \notin {"new", "flushing", "stopped", "failed"}  BY <1>1, <1>3 DEF Stages
  <1>5. thread' \in {"none", "test", "wait", "check", "take", "write", "leave", "exited"}
        BY DEF Thread, ThreadTests, ThreadWaits, ThreadChecks, ThreadTakes, ThreadWrites,
               ThreadWriteFails, ThreadLeaves, ThreadGoes
  <1>6. m_event' \in BOOLEAN
        BY <1>1 DEF TypeOK, Thread, ThreadTests, ThreadWaits, ThreadChecks, ThreadTakes,
               ThreadWrites, ThreadWriteFails, ThreadLeaves
  <1>7. ASSUME m_buffer' \in Seq(S), localBuffer' \in Seq(S), DiskTypes'  PROVE TypeOK'
        BY <1>1, <1>3, <1>5, <1>6, <1>7 DEF TypeOK, DiskTypes
  <1>8. UNCHANGED disk => DiskTypes'
        BY <1>1 DEF TypeOK, DiskTypes, disk, fileState
  <1> HIDE DEF S
  <1>9. CASE ThreadTests \/ ThreadWaits \/ ThreadChecks
    <2>1. UNCHANGED <<m_buffer, localBuffer, disk>> /\ thread' \notin {"exited", "write"}
          BY <1>9 DEF ThreadTests, ThreadWaits, ThreadChecks, ThreadGoes
    <2>2. DiskInv' /\ FilesAreFull' /\ Recorded' = Recorded
          BY <1>1, <1>4, <2>1, DiskFrame
    <2>3. Order'  BY <1>1, <1>3, <2>1, <2>2 DEF Order, Samples, disk
    <2>4. Stages'  BY <1>3, <1>4, <2>1 DEF Stages
    <2>5. QED  BY <1>2, <1>7, <1>8, <2>1, <2>2, <2>3, <2>4 DEF IInv
  <1>10. CASE ThreadTakes
    <2>1. /\ localBuffer' = localBuffer \o m_buffer /\ m_buffer' = <<>>
          /\ UNCHANGED disk /\ thread' = IF localBuffer' = <<>> THEN "test" ELSE "write"
          BY <1>10 DEF ThreadTakes, ThreadGoes
    <2>2. DiskInv' /\ FilesAreFull' /\ Recorded' = Recorded
          BY <1>1, <1>4, <2>1, DiskFrame
    <2>3. localBuffer' \in Seq(S) /\ m_buffer' \in Seq(S)  BY <1>2, <2>1
    <2>4. Recorded \o (localBuffer \o m_buffer) \o <<>> = Recorded \o localBuffer \o m_buffer
      <3>1. localBuffer \o m_buffer \in Seq(S)  BY <1>2
      <3>2. Recorded \o (localBuffer \o m_buffer) \in Seq(S)  BY <1>2, <3>1
      <3>3. QED  BY <1>2, <3>2, ConcatEmptySeq, Assoc
    <2>5. Order'  BY <1>1, <1>3, <2>1, <2>2, <2>4 DEF Order, Samples, disk
    <2>6. Stages'  BY <1>3, <1>4, <2>1 DEF Stages
    <2>7. QED  BY <1>7, <1>8, <2>1, <2>2, <2>3, <2>5, <2>6 DEF IInv
  <1>11. CASE ThreadWrites
    <2>1. /\ TurnSucceeds(localBuffer) \/ CloseFails(localBuffer)
          /\ localBuffer' = Rest(localBuffer) /\ m_buffer' = m_buffer
          /\ thread = "write"
          /\ thread' = IF localBuffer' = <<>> THEN "test" ELSE "write"
          BY <1>11 DEF ThreadWrites, ThreadGoes
    <2>2. localBuffer # <<>>  BY <1>1, <2>1 DEF Stages
    <2>3. localBuffer' \in Seq(S)  BY <1>2, <2>1, <2>2, TurnSize
    <2>4. DiskTypes' /\ DiskInv' /\ FilesAreFull'
          BY <1>1, <1>2, <1>4, <2>1, <2>2, TurnKeepsDisk DEF S
    <2>5. Order'
      <3> SUFFICES ASSUME ~torn', ~warned'
                   PROVE  Recorded' \o localBuffer' \o m_buffer' = Samples'
          BY DEF Order
      <3>1. Books  BY <1>1, <1>4 DEF DiskInv
      <3>2. ~torn /\ \E w \in Seq(S) :
                Recorded' = Recorded \o w /\ w \o Rest(localBuffer) = localBuffer
            BY <1>1, <1>2, <2>1, <2>2, <3>1, TurnMoves DEF S
      <3>3. PICK w \in Seq(S) :
                Recorded' = Recorded \o w /\ w \o localBuffer' = localBuffer
            BY <2>1, <3>2
      <3>4. (Recorded \o w) \o localBuffer' = Recorded \o (w \o localBuffer')
        <4>1. Recorded \in Seq(S) /\ w \in Seq(S) /\ localBuffer' \in Seq(S)
              BY <1>2, <2>3, <3>3
        <4>2. QED  BY <4>1
      <3>5. Recorded' \o localBuffer' = Recorded \o localBuffer  BY <3>3, <3>4
      <3>6. Recorded \o localBuffer \o m_buffer = Samples
            BY <1>1, <1>3, <3>2 DEF Order
      <3>7. QED  BY <1>3, <2>1, <3>5, <3>6 DEF Samples
    <2>6. Stages'  BY <1>3, <1>4, <2>1 DEF Stages
    <2>7. QED  BY <1>2, <1>7, <2>1, <2>3, <2>4, <2>5, <2>6 DEF IInv
  <1>12. CASE ThreadWriteFails
    <2>1. /\ HeaderFails \/ WriteFails(localBuffer)
          /\ UNCHANGED <<m_buffer, localBuffer>>
          /\ thread = "write" /\ thread' = "test" /\ localBuffer # <<>>
          BY <1>1, <1>12 DEF ThreadWriteFails, ThreadGoes, Stages
    <2>2. DiskTypes' /\ DiskInv' /\ FilesAreFull'
          BY <1>1, <1>2, <1>4, <2>1, TurnKeepsDisk DEF S
    <2>3. Books  BY <1>1, <1>4 DEF DiskInv
    <2>4. ~torn' => ~torn /\ Recorded' = Recorded
          BY <1>1, <1>2, <2>1, <2>3, FailureMovesNothing DEF S
    <2>5. Order'  BY <1>1, <1>3, <2>1, <2>4 DEF Order, Samples
    <2>6. Stages'  BY <1>3, <1>4, <2>1 DEF Stages
    <2>7. QED  BY <1>2, <1>7, <2>1, <2>2, <2>5, <2>6 DEF IInv
  <1>13. CASE ThreadLeaves
    <2>1. /\ m_buffer' = localBuffer \o m_buffer /\ localBuffer' = <<>>
          /\ UNCHANGED disk /\ thread' = "exited"
          BY <1>13 DEF ThreadLeaves, ThreadGoes
    <2>2. DiskInv' /\ FilesAreFull' /\ Recorded' = Recorded
          BY <1>1, <1>4, <2>1, DiskFrame
    <2>3. localBuffer' \in Seq(S) /\ m_buffer' \in Seq(S)  BY <1>2, <2>1
    <2>4. Recorded \o <<>> \o (localBuffer \o m_buffer) = Recorded \o localBuffer \o m_buffer
          BY <1>2, ConcatEmptySeq, Assoc
    <2>5. Order'  BY <1>1, <1>3, <2>1, <2>2, <2>4 DEF Order, Samples, disk
    <2>6. Stages'  BY <1>3, <1>4, <2>1 DEF Stages
    <2>7. QED  BY <1>7, <1>8, <2>1, <2>2, <2>3, <2>5, <2>6 DEF IInv
  <1>14. QED  BY <1>9, <1>10, <1>11, <1>12, <1>13 DEF Thread

LEMMA CallerKeeps ==
    ASSUME IInv, Start \/ StartReturns \/ StopBegins \/ StopNotifies \/ StopJoins
    PROVE  IInv'
  <1>1. TypeOK /\ DiskInv /\ FilesAreFull /\ Stages /\ Order  BY DEF IInv
  <1>2. /\ UNCHANGED <<m_buffer, localBuffer, disk, writer, produced, warned>>
        /\ caller \notin {"flushing", "stopped", "failed"}
        BY DEF Start, StartReturns, StopBegins, StopNotifies, StopJoins, CallerGoes
  <1>3. DiskInv' /\ FilesAreFull' /\ Recorded' = Recorded
        BY <1>1, <1>2, DiskFrame
  <1>4. Order'  BY <1>1, <1>2, <1>3 DEF Order, Samples, disk
  <1>5. TypeOK'
    <2>1. /\ caller' \in {"starting", "idle", "terminating", "joining", "flushing", "failed"}
          /\ thread' = thread \/ thread' = "test" \/ thread' = "none"
          BY DEF Start, StartReturns, StopBegins, StopNotifies, StopJoins, CallerGoes
    <2>2. m_event' \in BOOLEAN /\ m_started' \in BOOLEAN /\ m_terminate' \in BOOLEAN
          BY <1>1 DEF TypeOK, Start, StartReturns, StopBegins, StopNotifies, StopJoins
    <2>3. QED  BY <1>1, <1>2, <2>1, <2>2 DEF TypeOK, disk, fileState
  <1>6. Stages'
    <2>1. CASE Start
      <3>1. caller = "new" /\ caller' = "starting" /\ thread' = "test"
            BY <2>1 DEF Start, CallerGoes
      <3>2. QED  BY <1>1, <1>2, <3>1 DEF Stages
    <2>2. CASE StartReturns \/ StopBegins \/ StopNotifies
      <3>1. caller' \in {"idle", "terminating", "joining"} /\ thread' = thread
            BY <2>2 DEF StartReturns, StopBegins, StopNotifies, CallerGoes
      <3>2. QED  BY <1>1, <1>2, <3>1 DEF Stages
    <2>3. CASE StopJoins
      <3>1. thread = "exited" /\ thread' = "none" /\ caller' \in {"flushing", "failed"}
            BY <2>3 DEF StopJoins, CallerGoes
      <3>2. QED  BY <1>1, <1>2, <3>1 DEF Stages
    <2>4. QED  BY <2>1, <2>2, <2>3
  <1>7. QED  BY <1>3, <1>4, <1>5, <1>6 DEF IInv

LEMMA FlushKeeps ==
    ASSUME IInv, Flushes \/ FlushFails \/ StopReturns
    PROVE  IInv'
  <1>1. TypeOK /\ DiskInv /\ FilesAreFull /\ Stages /\ Order  BY DEF IInv
  <1> DEFINE S == 1..MaxSamples
  <1>2. localBuffer = <<>> /\ m_buffer \in Seq(S) /\ Recorded \in Seq(S)
    <2>1. caller = "flushing"  BY DEF Flushes, FlushFails, StopReturns
    <2>2. localBuffer = <<>>  BY <1>1, <2>1 DEF Stages
    <2>3. QED  BY <1>1, <2>2, RecordedType DEF TypeOK
  <1>3. /\ UNCHANGED <<localBuffer, m_event, m_terminate, thread, writer, produced>>
        /\ UNCHANGED m_started \/ m_started' = FALSE
        /\ caller = "flushing" /\ caller' \in {"flushing", "stopped"}
        BY DEF Flushes, FlushFails, StopReturns, CallerGoes
  <1>4. ASSUME m_buffer' \in Seq(S), DiskTypes', warned' \in BOOLEAN  PROVE TypeOK'
        BY <1>1, <1>3, <1>4 DEF TypeOK, DiskTypes
  <1> HIDE DEF S
  <1>5. CASE Flushes
    <2>1. /\ TurnSucceeds(m_buffer) \/ CloseFails(m_buffer)
          /\ m_buffer # <<>> /\ m_buffer' = Rest(m_buffer)
          /\ UNCHANGED warned /\ caller' = "flushing"
          BY <1>5 DEF Flushes, CallerGoes
    <2>2. m_buffer' \in Seq(S)  BY <1>2, <2>1, TurnSize
    <2>3. DiskTypes' /\ DiskInv' /\ FilesAreFull'
          BY <1>1, <1>2, <1>3, <2>1, TurnKeepsDisk DEF S
    <2>4. TypeOK'  BY <1>1, <1>4, <2>1, <2>2, <2>3 DEF TypeOK
    <2>5. Order'
      <3> SUFFICES ASSUME ~torn', ~warned'
                   PROVE  Recorded' \o localBuffer' \o m_buffer' = Samples'
          BY DEF Order
      <3>1. Books  BY <1>1, <1>3 DEF DiskInv
      <3>2. ~torn /\ \E w \in Seq(S) :
                Recorded' = Recorded \o w /\ w \o Rest(m_buffer) = m_buffer
            BY <1>1, <1>2, <2>1, <3>1, TurnMoves DEF S
      <3>3. PICK w \in Seq(S) :
                Recorded' = Recorded \o w /\ w \o m_buffer' = m_buffer
            BY <2>1, <3>2
      <3>4. (Recorded \o w) \o m_buffer' = Recorded \o (w \o m_buffer')
        <4>1. Recorded \in Seq(S) /\ w \in Seq(S) /\ m_buffer' \in Seq(S)
              BY <1>2, <2>2, <3>3
        <4>2. QED  BY <4>1
      <3>5. Recorded' \o m_buffer' = Recorded \o m_buffer  BY <3>3, <3>4
      <3>6. Recorded \o localBuffer \o m_buffer = Samples
            BY <1>1, <2>1, <3>2 DEF Order
      <3>7. Recorded \o localBuffer = Recorded /\ Recorded' \o localBuffer' = Recorded'
        <4>1. Recorded' \in Seq(S)  BY <1>2, <3>3
        <4>2. QED  BY <1>2, <1>3, <4>1, ConcatEmptySeq
      <3>8. QED  BY <1>3, <3>5, <3>6, <3>7 DEF Samples
    <2>6. Stages'  BY <1>1, <1>2, <1>3, <2>1 DEF Stages
    <2>7. QED  BY <2>3, <2>4, <2>5, <2>6 DEF IInv
  <1>6. CASE FlushFails
    <2>1. /\ HeaderFails \/ WriteFails(m_buffer)
          /\ m_buffer # <<>> /\ m_buffer' = <<>>
          /\ warned' = TRUE /\ caller' = "flushing"
          BY <1>6 DEF FlushFails, CallerGoes
    <2>2. DiskTypes' /\ DiskInv' /\ FilesAreFull'
          BY <1>1, <1>2, <1>3, <2>1, TurnKeepsDisk DEF S
    <2>3. m_buffer' \in Seq(S) /\ warned' \in BOOLEAN  BY <2>1
    <2>4. Order'  BY <2>1 DEF Order
    <2>5. Stages'  BY <1>1, <1>2, <1>3, <2>1 DEF Stages
    <2>6. QED  BY <1>4, <2>2, <2>3, <2>4, <2>5 DEF IInv
  <1>7. CASE StopReturns
    <2>1. /\ m_buffer = <<>> /\ UNCHANGED <<m_buffer, files, faults, torn, warned>>
          /\ m_currentFileNumber' = 0 /\ m_numSamplesWritten' = 0
          /\ m_currentFileStarted' = FALSE /\ caller' = "stopped"
          BY <1>7 DEF StopReturns, CallerGoes
    <2>2. DiskTypes'  BY <1>1, <2>1 DEF TypeOK, DiskTypes
    <2>3. m_buffer' \in Seq(S) /\ warned' \in BOOLEAN  BY <1>1, <1>2, <2>1 DEF TypeOK
    <2>4. DiskInv'  BY <2>1 DEF DiskInv
    <2>5. FilesAreFull'  BY <1>1, <2>1 DEF FilesAreFull
    <2>6. Order'  BY <1>1, <1>3, <2>1 DEF Order, Recorded, Samples
    <2>7. Stages'  BY <1>1, <1>2, <1>3, <2>1 DEF Stages
    <2>8. QED  BY <1>4, <2>2, <2>3, <2>4, <2>5, <2>6, <2>7 DEF IInv
  <1>8. QED  BY <1>5, <1>6, <1>7

LEMMA UnchangedKeeps ==
    ASSUME IInv, UNCHANGED vars
    PROVE  IInv'
  <1>1. TypeOK /\ DiskInv /\ FilesAreFull /\ Stages /\ Order  BY DEF IInv
  <1>2. TypeOK'  BY <1>1 DEF TypeOK, vars, disk, fileState
  <1>3. DiskInv' /\ FilesAreFull'  BY <1>1, DiskFrame DEF vars
  <1>4. Stages' /\ Order'
        BY <1>1 DEF Stages, Order, Recorded, Samples, vars, disk, fileState
  <1>5. QED  BY <1>2, <1>3, <1>4 DEF IInv

LEMMA NextKeeps == IInv /\ [Next]_vars => IInv'
  <1> SUFFICES ASSUME IInv, [Next]_vars PROVE IInv'  OBVIOUS
  <1>1. CASE WritePushes \/ WriteRejected \/ WriteNotifies  BY <1>1, WriteKeeps
  <1>2. CASE Thread  BY <1>2, ThreadKeeps
  <1>3. CASE Start \/ StartReturns \/ StopBegins \/ StopNotifies \/ StopJoins
        BY <1>3, CallerKeeps
  <1>4. CASE Flushes \/ FlushFails \/ StopReturns  BY <1>4, FlushKeeps
  <1>5. CASE Done  BY <1>5, UnchangedKeeps DEF Done
  <1>6. CASE UNCHANGED vars  BY <1>6, UnchangedKeeps
  <1>7. QED  BY <1>1, <1>2, <1>3, <1>4, <1>5, <1>6 DEF Next, Stopping

THEOREM Invariance == Spec => []IInv
  BY InitHolds, NextKeeps, PTL DEF Spec

-----------------------------------------------------------------------------
(* The properties the runs check.                                          *)

\* The recorder's state, its files included, is what the code's types allow.
THEOREM TypeCorrect == Spec => []TypeOK
  <1>1. IInv => TypeOK  BY DEF IInv
  <1>2. QED  BY <1>1, Invariance, PTL

\* No sample is lost, repeated or out of order between Write() and the data
\* files, whatever the threads' order and however often a file cannot be
\* created or opened; after Stop() all of them are in the files, or
\* FlushBuffer() has printed its warning.
THEOREM NothingLost == Spec => []NothingLostOnTheWay
  <1>1. IInv => NothingLostOnTheWay
    <2> SUFFICES ASSUME IInv, ~torn, ~warned
                 PROVE  /\ Recorded \o localBuffer \o m_buffer = Samples
                        /\ caller = "stopped" => Recorded = Samples
        BY DEF NothingLostOnTheWay
    <2>1. Recorded \o localBuffer \o m_buffer = Samples  BY DEF IInv, Order
    <2>2. ASSUME caller = "stopped" PROVE Recorded = Samples
      <3>1. localBuffer = <<>> /\ m_buffer = <<>>  BY <2>2 DEF IInv, Stages
      <3>2. Recorded \in Seq(1..MaxSamples)  BY RecordedType DEF IInv
      <3>3. QED  BY <2>1, <3>1, <3>2, ConcatEmptySeq
    <2>3. QED  BY <2>1, <2>2
  <1>2. QED  BY <1>1, Invariance, PTL

\* WriteBufferToDataFiles() leaves a file only when it has its number of
\* samples, and stops before it has twice as many.
THEOREM FilesFull == Spec => []FilesAreFull
  <1>1. IInv => FilesAreFull  BY DEF IInv
  <1>2. QED  BY <1>1, Invariance, PTL

\* The number in the name of the next data file is that of the started file
\* or a free one, so that no recorded file is truncated by a new header.
THEOREM NumbersFree == Spec => []NoFileOverwritten
  <1>1. IInv => NoFileOverwritten  BY DEF IInv, DiskInv, Books, NoFileOverwritten
  <1>2. QED  BY <1>1, Invariance, PTL
====
