-------------------------- MODULE StepOutputProofs --------------------------
(***************************************************************************)
(* Proofs about StepOutput: where the bytes of a step can be when Run has  *)
(* returned, what a log entry looks like, that no byte is dropped,         *)
(* repeated or overtaken on its way, and that the log of a step is the     *)
(* lines of its output, for any sizes of frames, reads and buffers and any *)
(* amount of output.                                                       *)
(***************************************************************************)
EXTENDS StepOutput, WellFoundedInduction, SequenceTheorems, TLAPS

(***************************************************************************)
(* The inductive invariant. Only the Write that Run waits for has bytes in *)
(* a pipe; a frame is finished before the next header, and before Run      *)
(* returns without an error.                                               *)
(***************************************************************************)
PipeInv ==
    /\ \A s \in Streams : pipe[s] # << >> => rpc = "write" /\ frame.s = s
    /\ rpc = "header" => frame.rest = << >>
    /\ rpc \in {"header", "data", "write", "panic"} => result = "none"
    /\ result = "ok" => frame.rest = << >>

CopierInv ==
    \A s \in Streams :
        /\ Len(buf[s]) <= BufSize
        /\ ~isOpen[s] <=> rpc = "done"
        /\ copier[s] = "ended" => rpc = "done" /\ buf[s] = << >>

\* A log entry is no longer than a copier's buffer and is within one line.
IsEntry(line) == Len(line) <= BufSize /\ NL \notin ToSet(line)

EntryInv == \A s \in Streams : \A i \in DOMAIN emitted[s] : IsEntry(emitted[s][i])

OutInv == TypeOK /\ PipeInv /\ CopierInv /\ EntryInv

-----------------------------------------------------------------------------
(* Sequences of bytes. *)

\* A sequence is what comes before a place in it and what comes after.
LEMMA SplitAt ==
    ASSUME NEW S, NEW c \in Seq(S), NEW n \in 0 .. Len(c)
    PROVE  /\ SubSeq(c, 1, n) \in Seq(S) /\ Len(SubSeq(c, 1, n)) = n
           /\ SubSeq(c, n + 1, Len(c)) \in Seq(S)
           /\ Len(SubSeq(c, n + 1, Len(c))) = Len(c) - n
           /\ SubSeq(c, 1, n) \o SubSeq(c, n + 1, Len(c)) = c
<1>1. n + 1 \in 1 .. Len(c) + 1 /\ n \in 0 .. Len(c) /\ Len(c) \in Nat
  OBVIOUS
<1>2. /\ SubSeq(c, 1, n) \in Seq(S) /\ Len(SubSeq(c, 1, n)) = n
      /\ SubSeq(c, n + 1, Len(c)) \in Seq(S)
      /\ Len(SubSeq(c, n + 1, Len(c))) = Len(c) - n
  BY <1>1
<1>3. SubSeq(c, 1, n) \o SubSeq(c, n + 1, Len(c)) = SubSeq(c, 1, Len(c))
  <2>1. 1 \in 1 .. Len(c) + 1 /\ n \in 1 - 1 .. Len(c) /\ Len(c) \in n .. Len(c)
    BY <1>1
  <2> QED
    BY <2>1, ConcatAdjacentSubSeq, Zenon
<1> QED
  BY <1>2, <1>3, SubSeqFull

\* A set of natural numbers that is not empty has a smallest member.
LEMMA MinOfNats ==
    ASSUME NEW I \in SUBSET Nat, I # {} PROVE Min(I) \in I /\ \A k \in I : Min(I) <= k
<1> DEFINE R == OpToRel(<, Nat)
<1>1. IsWellFoundedOn(R, Nat)
  BY NatLessThanWellFounded
<1>2. \A x, y \in Nat : <<y, x>> \in R <=> y < x
  BY DEF OpToRel
<1> HIDE DEF R
<1>3. PICK x \in I : \A y \in I : ~(<<y, x>> \in R)
  BY <1>1, WFMin
<1>4. \A y \in I : x <= y
  <2> SUFFICES ASSUME NEW y \in I PROVE x <= y
    OBVIOUS
  <2>1. x \in Nat /\ y \in Nat
    OBVIOUS
  <2>2. ~(y < x)
    BY <1>2, <1>3, <2>1, Zenon
  <2>3. \A a, b \in Nat : ~(b < a) => a <= b
    OBVIOUS
  <2> QED
    BY <2>1, <2>2, <2>3, Zenon
<1> QED
  BY <1>4, Zenon DEF Min

\* SelectInSeq finds the first end of a line.
LEMMA FirstEnd ==
    ASSUME NEW c \in Seq(Bytes), NL \in ToSet(c)
    PROVE  LET end == SelectInSeq(c, LAMBDA b : b = NL)
           IN  end \in 1 .. Len(c) /\ c[end] = NL /\ \A i \in 1 .. end - 1 : c[i] # NL
<1> DEFINE I == {i \in 1 .. Len(c) : c[i] = NL}
<1>1. I \in SUBSET Nat /\ I # {}
  BY DEF ToSet
<1>3. SelectInSeq(c, LAMBDA b : b = NL) = Min(I)
  BY <1>1 DEF SelectInSeq
<1>4. Min(I) \in I /\ \A k \in I : Min(I) <= k
  BY <1>1, MinOfNats
<1> HIDE DEF I
<1>5. Min(I) \in 1 .. Len(c) /\ c[Min(I)] = NL
  BY <1>4 DEF I
<1>6. \A i \in 1 .. Min(I) - 1 : c[i] # NL
  BY <1>4, <1>5 DEF I
<1> QED
  BY <1>3, <1>5, <1>6

\* A line, its end and the rest of the buffer.
LEMMA LineSplit ==
    ASSUME NEW c \in Seq(Bytes), NEW end \in 1 .. Len(c), c[end] = NL,
           \A i \in 1 .. end - 1 : c[i] # NL
    PROVE  /\ SubSeq(c, 1, end - 1) \in Seq(Bytes) /\ Len(SubSeq(c, 1, end - 1)) = end - 1
           /\ NL \notin ToSet(SubSeq(c, 1, end - 1))
           /\ SubSeq(c, end + 1, Len(c)) \in Seq(Bytes)
           /\ Len(SubSeq(c, end + 1, Len(c))) < Len(c)
           /\ (SubSeq(c, 1, end - 1) \o <<NL>>) \o SubSeq(c, end + 1, Len(c)) = c
<1>1. /\ SubSeq(c, 1, end - 1) \in Seq(Bytes) /\ Len(SubSeq(c, 1, end - 1)) = end - 1
      /\ SubSeq(c, end + 1, Len(c)) \in Seq(Bytes)
      /\ Len(SubSeq(c, end + 1, Len(c))) < Len(c)
  OBVIOUS
<1>2. NL \notin ToSet(SubSeq(c, 1, end - 1))
  BY <1>1 DEF ToSet
<1>3. SubSeq(c, 1, end - 1) \o <<NL>> = SubSeq(c, 1, end)
  BY BytesAssumption
<1>4. SubSeq(c, 1, end) \o SubSeq(c, end + 1, Len(c)) = c
  BY SplitAt
<1> QED
  BY <1>1, <1>2, <1>3, <1>4

\* What a reader with room for room - used bytes takes of those available.
LEMMA RoomFor ==
    ASSUME NEW used \in Nat, NEW room \in Nat, NEW available \in Nat, used < room
    PROVE  LET n == SmallerOf(room - used, available)
           IN  n \in 0 .. available /\ used + n <= room
BY DEF SmallerOf

\* Two sequences of bytes joined.
LEMMA Joined ==
    ASSUME NEW c \in Seq(Bytes), NEW d \in Seq(Bytes)
    PROVE  c \o d \in Seq(Bytes) /\ Len(c \o d) = Len(c) + Len(d)
OBVIOUS

\* The data of a frame.
LEMMA FrameData == ASSUME NEW data \in Frames PROVE data \in Seq(Bytes) /\ data # << >>
<1>1. PICK n \in 1 .. MaxFrame : data \in [1 .. n -> Bytes]
  BY DEF Frames
<1>2. n \in Nat /\ n > 0
  BY SizesAssumption
<1>3. data \in Seq(Bytes)
  BY <1>1, <1>2, SeqDef
<1> QED
  BY <1>1, <1>2, <1>3

-----------------------------------------------------------------------------
(* Induction over positions and sequences, and folds. *)

\* A set of numbers that has 0, and with every number the next, has all of them.
LEMMA NatsBySteps ==
    ASSUME NEW P \in SUBSET Nat, 0 \in P, \A n \in P : n + 1 \in P
    PROVE  P = Nat
<1> SUFFICES ASSUME Nat \ P # {} PROVE FALSE
  OBVIOUS
<1> DEFINE m == Min(Nat \ P)
<1>1. m \in Nat \ P /\ \A k \in Nat \ P : m <= k
  BY MinOfNats, Zenon
<1> HIDE DEF m
<1>2. m # 0 /\ m - 1 \in Nat
  BY <1>1
<1>3. m - 1 \in P
  BY <1>1, <1>2
<1>4. (m - 1) + 1 = m
  BY <1>1
<1> QED
  BY <1>1, <1>3, <1>4

\* The last element of a sequence, and what comes before it.
LEMMA LastApart ==
    ASSUME NEW S, NEW c \in Seq(S), NEW n \in Nat, Len(c) = n + 1
    PROVE  /\ SubSeq(c, 1, n) \in Seq(S) /\ Len(SubSeq(c, 1, n)) = n /\ c[n + 1] \in S
           /\ c = Append(SubSeq(c, 1, n), c[n + 1])
OBVIOUS

\* A set of sequences that has the empty one, and with every sequence all its
\* extensions by one element, has all of them.
LEMMA SeqsBySteps ==
    ASSUME NEW S, NEW P \in SUBSET Seq(S), << >> \in P,
           \A c \in P, b \in S : Append(c, b) \in P
    PROVE  P = Seq(S)
<1> DEFINE N == {n \in Nat : \A c \in Seq(S) : Len(c) = n => c \in P}
<1>1. 0 \in N
  <2>1. \A c \in Seq(S) : Len(c) = 0 => c = << >>
    OBVIOUS
  <2> QED
    BY <2>1
<1>2. ASSUME NEW n \in N PROVE n + 1 \in N
  <2> SUFFICES ASSUME NEW c \in Seq(S), Len(c) = n + 1 PROVE c \in P
    OBVIOUS
  <2> DEFINE front == SubSeq(c, 1, n)
  <2>1. n \in Nat
    OBVIOUS
  <2>2. front \in Seq(S) /\ Len(front) = n /\ c[n + 1] \in S /\ c = Append(front, c[n + 1])
    BY <2>1, LastApart
  <2>3. front \in P
    BY <2>2
  <2> QED
    BY <2>2, <2>3
<1>3. N = Nat
  <2> HIDE DEF N
  <2>1. N \in SUBSET Nat
    BY DEF N
  <2> QED
    BY <1>1, <1>2, <2>1, NatsBySteps
<1>4. \A c \in Seq(S) : Len(c) \in N
  BY <1>3
<1> QED
  BY <1>4

\* The largest member of a set of positions.
LEMMA LastOf ==
    ASSUME NEW n \in Nat, NEW s \in SUBSET (1 .. n), s # {}
    PROVE  Max(s) \in s /\ \A i \in s : i <= Max(s)
<1> DEFINE I == {n - i : i \in s}
<1>1. I \in SUBSET Nat /\ I # {}
  <2>1. \A i \in s : n - i \in Nat
    OBVIOUS
  <2> QED
    BY <2>1
<1>2. Min(I) \in I /\ \A k \in I : Min(I) <= k
  BY <1>1, MinOfNats
<1>3. PICK x \in s : Min(I) = n - x
  BY <1>2
<1>4. \A i \in s : n - i \in I
  OBVIOUS
<1> HIDE DEF I
<1>5. \A i \in s : x >= i
  BY <1>2, <1>3, <1>4
<1>6. Max(s) \in s /\ \A i \in s : Max(s) >= i
  BY <1>5, Zenon DEF Max
<1> QED
  BY <1>6

\* The positions of a sequence.
LEMMA LastOfRange == ASSUME NEW n \in Nat PROVE Max(1 .. n + 1) = n + 1 /\ (1 .. n + 1) \ {n + 1} = 1 .. n
<1>1. Max(1 .. n + 1) \in 1 .. n + 1 /\ \A i \in 1 .. n + 1 : i <= Max(1 .. n + 1)
  <2>1. n + 1 \in Nat /\ 1 .. n + 1 # {} /\ 1 .. n + 1 \in SUBSET (1 .. n + 1)
    OBVIOUS
  <2> QED
    BY <2>1, LastOf, Zenon
<1> QED
  BY <1>1

\* The positions before the last.
LEMMA BeforeLast ==
    ASSUME NEW m \in Nat, NEW s \in SUBSET (1 .. m + 1), NEW k \in s, \A i \in s : i <= k
    PROVE  /\ s \ {k} \in SUBSET (1 .. m)
           /\ m + 1 \in s => k = m + 1
           /\ m + 1 \notin s => s \in SUBSET (1 .. m)
OBVIOUS

\* Sets of positions, built from the empty one by adding larger positions.
LEMMA SetsBySteps ==
    ASSUME NEW n \in Nat, NEW P \in SUBSET SUBSET (1 .. n), {} \in P,
           \A s \in SUBSET (1 .. n) : s # {} /\ s \ {Max(s)} \in P => s \in P
    PROVE  P = SUBSET (1 .. n)
<1> DEFINE N == {m \in Nat : \A s \in SUBSET (1 .. n) : s \subseteq 1 .. m => s \in P}
<1>1. 0 \in N
  <2>1. \A s \in SUBSET (1 .. n) : s \subseteq 1 .. 0 => s = {}
    OBVIOUS
  <2> QED
    BY <2>1
<1>2. ASSUME NEW m \in N PROVE m + 1 \in N
  <2> SUFFICES ASSUME NEW s \in SUBSET (1 .. n), s \subseteq 1 .. m + 1, s # {} PROVE s \in P
    BY DEF N
  <2>1. m \in Nat
    OBVIOUS
  <2>2. Max(s) \in s /\ \A i \in s : i <= Max(s)
    BY LastOf
  <2>3. s \ {Max(s)} \subseteq 1 .. m
    BY <2>1, <2>2, BeforeLast
  <2>4. s \ {Max(s)} \in P
    BY <2>3
  <2> QED
    BY <2>4
<1>3. N = Nat
  <2> HIDE DEF N
  <2>1. N \in SUBSET Nat
    BY DEF N
  <2> QED
    BY <1>1, <1>2, <2>1, NatsBySteps
<1>4. n \in N
  BY <1>3
<1> QED
  BY <1>4

\* f is what adding the positions in their order with g comes to, from base.
AddsUp(T, base, n, g, f) ==
    /\ f \in [SUBSET (1 .. n) -> T]
    /\ \A s \in SUBSET (1 .. n) :
          f[s] = IF s = {} THEN base ELSE g[<<f[s \ {Max(s)}], Max(s)>>]

\* There is such a function for every base and every g.
LEMMA FoldExists ==
    ASSUME NEW T, NEW base \in T, NEW n \in Nat, NEW g \in [T \X (1 .. n) -> T]
    PROVE  \E f : AddsUp(T, base, n, g, f)
<1> DEFINE Works(m, f) ==
              /\ f \in [SUBSET (1 .. m) -> T]
              /\ \A s \in SUBSET (1 .. m) :
                    f[s] = IF s = {} THEN base ELSE g[<<f[s \ {Max(s)}], Max(s)>>]
           N == {m \in Nat : m <= n => \E f \in [SUBSET (1 .. m) -> T] : Works(m, f)}
<1>1. 0 \in N
  <2> DEFINE f == [s \in SUBSET (1 .. 0) |-> base]
  <2>1. \A s \in SUBSET (1 .. 0) : s = {}
    OBVIOUS
  <2>2. f \in [SUBSET (1 .. 0) -> T] /\ Works(0, f)
    BY <2>1
  <2> QED
    BY <2>2
<1>2. ASSUME NEW m \in N PROVE m + 1 \in N
  <2>0. m \in Nat
    BY Zenon
  <2>s. SUFFICES ASSUME m + 1 <= n PROVE \E f \in [SUBSET (1 .. m + 1) -> T] : Works(m + 1, f)
    <3>1. m + 1 \in Nat
      BY <2>0
    <3> QED
      BY <3>1, Zenon
  <2>1. m \in Nat /\ m <= n /\ m + 1 \in 1 .. n
    BY <2>0, <2>s
  <2>2. PICK f \in [SUBSET (1 .. m) -> T] : Works(m, f)
    BY <2>1
  <2> DEFINE h == [s \in SUBSET (1 .. m + 1) |->
                      IF m + 1 \in s THEN g[<<f[s \ {m + 1}], m + 1>>] ELSE f[s]]
  <2>3. \A s \in SUBSET (1 .. m + 1) : s \ {m + 1} \in SUBSET (1 .. m)
    BY <2>1
  <2>4. h \in [SUBSET (1 .. m + 1) -> T]
    <3>1. ASSUME NEW s \in SUBSET (1 .. m + 1) PROVE h[s] \in T
      <4>1. CASE m + 1 \in s
        <5>1. f[s \ {m + 1}] \in T
          BY <2>3
        <5>2. <<f[s \ {m + 1}], m + 1>> \in T \X (1 .. n)
          BY <2>1, <5>1
        <5> QED
          BY <4>1, <5>2
      <4>2. CASE m + 1 \notin s
        <5>1. s \in SUBSET (1 .. m)
          BY <2>1, <4>2
        <5> QED
          BY <4>2, <5>1
      <4> QED
        BY <4>1, <4>2
    <3> QED
      BY <3>1
  <2>5. ASSUME NEW s \in SUBSET (1 .. m + 1)
        PROVE  h[s] = IF s = {} THEN base ELSE g[<<h[s \ {Max(s)}], Max(s)>>]
    <3>1. CASE m + 1 \in s
      <4>1. Max(s) = m + 1
        <5>1. Max(s) \in s /\ \A i \in s : i <= Max(s)
          <6>1. m + 1 \in Nat /\ s # {}
            BY <2>1, <3>1
          <6> QED
            BY <6>1, LastOf, Zenon
        <5> QED
          BY <2>1, <3>1, <5>1, BeforeLast
      <4>2. h[s \ {m + 1}] = f[s \ {m + 1}]
        BY <2>3
      <4>3. s # {} /\ h[s] = g[<<f[s \ {m + 1}], m + 1>>]
        BY <3>1
      <4> QED
        BY <4>1, <4>2, <4>3, Zenon
    <3>2. CASE m + 1 \notin s
      <4>1. s \in SUBSET (1 .. m) /\ s \ {Max(s)} \in SUBSET (1 .. m)
        <5>1. s \in SUBSET (1 .. m)
          BY <2>1, <3>2
        <5> QED
          BY <5>1, Zenon
      <4>2. h[s] = f[s] /\ h[s \ {Max(s)}] = f[s \ {Max(s)}]
        BY <2>1, <3>2, <4>1
      <4>3. f[s] = IF s = {} THEN base ELSE g[<<f[s \ {Max(s)}], Max(s)>>]
        BY <2>2, <4>1
      <4> QED
        BY <4>2, <4>3, Zenon
    <3> QED
      BY <3>1, <3>2
  <2> HIDE DEF h
  <2>6. Works(m + 1, h)
    BY <2>4, <2>5
  <2> QED
    BY <2>4, <2>6
<1> HIDE DEF Works
<1>3. N = Nat
  <2> HIDE DEF N
  <2>1. N \in SUBSET Nat
    BY DEF N
  <2> QED
    BY <1>1, <1>2, <2>1, NatsBySteps
<1>4. \E f \in [SUBSET (1 .. n) -> T] : Works(n, f)
  <2>1. n \in N /\ n <= n
    <3> HIDE DEF N
    <3> QED
      BY <1>3
  <2> QED
    BY <2>1
<1> QED
  BY <1>4 DEF Works, AddsUp

(***************************************************************************)
(* The two folds of StepOutput, CutAll and Size, told apart by a name:     *)
(* no lemma can take the operator that is folded as a parameter.           *)
(***************************************************************************)
Folded == {"cut", "size"}

Cuts == [lines : Seq(Seq(Bytes)), part : Seq(Bytes)]

ElementsOf(k) == IF k = "cut" THEN Bytes ELSE Seq(Bytes)
ResultsOf(k)  == IF k = "cut" THEN Cuts ELSE Nat
BaseOf(k)     == IF k = "cut" THEN NothingYet ELSE 0
Join(k, acc, x) == IF k = "cut" THEN CutByte(acc, x) ELSE AddLen(acc, x)

\* The cut of one byte more.
LEMMA CutByteType ==
    /\ NothingYet \in Cuts
    /\ \A acc \in Cuts, b \in Bytes : CutByte(acc, b) \in Cuts
<1>1. NothingYet \in Cuts
  BY DEF NothingYet, Cuts
<1>2. ASSUME NEW acc \in Cuts, NEW b \in Bytes PROVE CutByte(acc, b) \in Cuts
  BY DEF Cuts, CutByte
<1> QED
  BY <1>1, <1>2

\* Results are joined to results.
LEMMA JoinType ==
    ASSUME NEW k \in Folded, NEW acc \in ResultsOf(k), NEW x \in ElementsOf(k)
    PROVE  Join(k, acc, x) \in ResultsOf(k)
<1>1. CASE k = "cut"
  <2>1. acc \in Cuts /\ x \in Bytes
    BY <1>1 DEF ResultsOf, ElementsOf
  <2>2. CutByte(acc, x) \in Cuts
    BY <2>1, CutByteType, Zenon
  <2> QED
    BY <1>1, <2>2 DEF ResultsOf, Join
<1>2. CASE k = "size"
  <2>1. acc \in Nat /\ x \in Seq(Bytes)
    BY <1>2 DEF ResultsOf, ElementsOf
  <2>2. AddLen(acc, x) \in Nat
    BY <2>1 DEF AddLen
  <2> QED
    BY <1>2, <2>2 DEF ResultsOf, Join
<1> QED
  BY <1>1, <1>2 DEF Folded

\* What FoldLeft computes on the way, for every set of positions of c.
Folding(k, c, I, f) ==
    f = [s \in SUBSET I |-> IF s = {} THEN BaseOf(k)
                            ELSE Join(k, f[s \ {Max(s)}], c[Max(s)])]

\* It exists.
LEMMA FoldingExists ==
    ASSUME NEW k \in Folded, NEW c \in Seq(ElementsOf(k))
    PROVE  \E f : Folding(k, c, DOMAIN c, f)
<1> DEFINE n == Len(c)
           T == ResultsOf(k)
           g == [x \in T \X (1 .. n) |-> Join(k, x[1], c[x[2]])]
<1>n. n \in Nat /\ DOMAIN c = 1 .. n /\ \A i \in 1 .. n : c[i] \in ElementsOf(k)
  OBVIOUS
<1> HIDE DEF n, T
<1>t. \A acc \in T, x \in ElementsOf(k) : Join(k, acc, x) \in T
  BY JoinType DEF T
<1>1. g \in [T \X (1 .. n) -> T]
  <2>1. ASSUME NEW x \in T \X (1 .. n) PROVE Join(k, x[1], c[x[2]]) \in T
    <3>1. x[1] \in T /\ x[2] \in 1 .. n
      OBVIOUS
    <3> QED
      BY <1>n, <1>t, <3>1, Zenon
  <2> QED
    BY <2>1, Zenon
<1>2. BaseOf(k) \in T
  BY CutByteType DEF T, ResultsOf, BaseOf
<1>3. \A a \in T, i \in 1 .. n : g[<<a, i>>] = Join(k, a, c[i])
  <2> SUFFICES ASSUME NEW a \in T, NEW i \in 1 .. n PROVE g[<<a, i>>] = Join(k, a, c[i])
    OBVIOUS
  <2>1. <<a, i>> \in T \X (1 .. n) /\ <<a, i>>[1] = a /\ <<a, i>>[2] = i
    OBVIOUS
  <2> QED
    BY <2>1, Zenon
<1> HIDE DEF g
<1>4. PICK f \in [SUBSET (1 .. n) -> T] :
              \A s \in SUBSET (1 .. n) :
                 f[s] = IF s = {} THEN BaseOf(k) ELSE g[<<f[s \ {Max(s)}], Max(s)>>]
  <2>1. \E f : AddsUp(T, BaseOf(k), n, g, f)
    BY <1>n, <1>1, <1>2, FoldExists, Zenon
  <2> QED
    BY <2>1, Zenon DEF AddsUp
<1>5. ASSUME NEW s \in SUBSET (1 .. n)
      PROVE  f[s] = IF s = {} THEN BaseOf(k) ELSE Join(k, f[s \ {Max(s)}], c[Max(s)])
  <2>1. s # {} => Max(s) \in 1 .. n
    BY <1>n, LastOf
  <2>2. f[s \ {Max(s)}] \in T
    OBVIOUS
  <2> QED
    BY <1>3, <1>4, <2>1, <2>2, Zenon
<1>6. f = [s \in SUBSET (1 .. n) |-> IF s = {} THEN BaseOf(k)
                                     ELSE Join(k, f[s \ {Max(s)}], c[Max(s)])]
  BY <1>5, Zenon
<1> QED
  BY <1>n, <1>6 DEF Folding

\* It depends on the elements at the positions folded, and on no others.
LEMMA FoldingsAgree ==
    ASSUME NEW k, NEW n \in Nat, NEW m \in Nat, n <= m, NEW c, NEW d, NEW f, NEW h,
           Folding(k, c, 1 .. n, f), Folding(k, d, 1 .. m, h), \A i \in 1 .. n : c[i] = d[i]
    PROVE  f[1 .. n] = h[1 .. n]
<1> DEFINE P == {s \in SUBSET (1 .. n) : f[s] = h[s]}
<1>0. SUBSET (1 .. n) \subseteq SUBSET (1 .. m)
  OBVIOUS
<1>1. \A s \in SUBSET (1 .. n) :
         f[s] = IF s = {} THEN BaseOf(k) ELSE Join(k, f[s \ {Max(s)}], c[Max(s)])
  BY Zenon DEF Folding
<1>2. \A s \in SUBSET (1 .. m) :
         h[s] = IF s = {} THEN BaseOf(k) ELSE Join(k, h[s \ {Max(s)}], d[Max(s)])
  BY Zenon DEF Folding
<1>3. {} \in P
  <2>1. {} \in SUBSET (1 .. n) /\ {} \in SUBSET (1 .. m)
    OBVIOUS
  <2> QED
    BY <1>1, <1>2, <2>1, Zenon
<1>4. ASSUME NEW s \in SUBSET (1 .. n), s # {}, s \ {Max(s)} \in P PROVE s \in P
  <2>1. Max(s) \in 1 .. n
    BY <1>4, LastOf
  <2>2. c[Max(s)] = d[Max(s)] /\ s \in SUBSET (1 .. m) /\ f[s \ {Max(s)}] = h[s \ {Max(s)}]
    BY <1>0, <1>4, <2>1, Zenon
  <2>3. f[s] = Join(k, f[s \ {Max(s)}], c[Max(s)]) /\ h[s] = Join(k, h[s \ {Max(s)}], d[Max(s)])
    BY <1>1, <1>2, <1>4, <2>2, Zenon
  <2>4. f[s] = h[s]
    BY <2>2, <2>3, Zenon
  <2> QED
    BY <2>4
<1>5. P = SUBSET (1 .. n)
  <2> HIDE DEF P
  <2>1. P \in SUBSET SUBSET (1 .. n)
    BY DEF P
  <2> QED
    BY <1>3, <1>4, <2>1, SetsBySteps, Zenon
<1>6. 1 .. n \in P
  BY <1>5, Zenon
<1> QED
  BY <1>6, Zenon

\* The value of the fold, and how it grows with the sequence.
LEMMA FoldingMore ==
    ASSUME NEW k \in Folded, NEW c \in Seq(ElementsOf(k)), NEW b \in ElementsOf(k),
           NEW f, Folding(k, c, DOMAIN c, f),
           NEW h, Folding(k, Append(c, b), DOMAIN Append(c, b), h)
    PROVE  h[DOMAIN Append(c, b)] = Join(k, f[DOMAIN c], b)
<1> DEFINE n == Len(c)
           d == Append(c, b)
<1>1. /\ n \in Nat /\ DOMAIN c = 1 .. n /\ DOMAIN d = 1 .. n + 1
      /\ d[n + 1] = b /\ \A i \in 1 .. n : c[i] = d[i]
  OBVIOUS
<1>2. Folding(k, d, DOMAIN d, h)
  BY Zenon
<1> HIDE DEF n, d
<1>3. Folding(k, c, 1 .. n, f) /\ Folding(k, d, 1 .. n + 1, h)
  BY <1>1, <1>2, Zenon
<1>4. f[1 .. n] = h[1 .. n]
  <2>1. n + 1 \in Nat /\ n <= n + 1
    BY <1>1
  <2> QED
    BY <1>1, <1>3, <2>1, FoldingsAgree, SMT
<1>5. Max(1 .. n + 1) = n + 1 /\ (1 .. n + 1) \ {n + 1} = 1 .. n
  BY <1>1, LastOfRange
<1>6. 1 .. n + 1 # {} /\ 1 .. n + 1 \in SUBSET (1 .. n + 1)
  <2>1. n + 1 \in 1 .. n + 1
    BY <1>1
  <2> QED
    BY <2>1, Zenon
<1>7. h[1 .. n + 1] = Join(k, h[(1 .. n + 1) \ {Max(1 .. n + 1)}], d[Max(1 .. n + 1)])
  BY <1>3, <1>6, Zenon DEF Folding
<1>8. h[DOMAIN d] = Join(k, f[DOMAIN c], b)
  BY <1>1, <1>4, <1>5, <1>7, Zenon
<1> QED
  BY <1>8, Zenon DEF d

\* CutAll is the fold named "cut".
LEMMA CutFolds ==
    ASSUME NEW c \in Seq(Bytes)
    PROVE  \E f : Folding("cut", c, DOMAIN c, f) /\ CutAll(c) = f[DOMAIN c]
<1> DEFINE Is(f) == f = [s \in SUBSET DOMAIN c |-> IF s = {} THEN NothingYet
                                      ELSE CutByte(f[s \ {Max(s)}], c[Max(s)])]
<1>1. CutAll(c) = (CHOOSE f : Is(f))[DOMAIN c]
  BY Zenon DEF CutAll, FoldLeft, MapThenFoldSet
<1>2. ASSUME NEW f PROVE Folding("cut", c, DOMAIN c, f) <=> Is(f)
  BY Zenon DEF Folding, BaseOf, Join
<1>3. \E f : Folding("cut", c, DOMAIN c, f)
  <2>1. "cut" \in Folded /\ c \in Seq(ElementsOf("cut"))
    BY DEF Folded, ElementsOf
  <2> QED
    BY <2>1, FoldingExists, Zenon
<1> HIDE DEF Is
<1> QED
  BY <1>1, <1>2, <1>3, Zenon

\* Size is the fold named "size".
LEMMA SizeFolds ==
    ASSUME NEW c \in Seq(Seq(Bytes))
    PROVE  \E f : Folding("size", c, DOMAIN c, f) /\ Size(c) = f[DOMAIN c]
<1> DEFINE Is(f) == f = [s \in SUBSET DOMAIN c |-> IF s = {} THEN 0
                                      ELSE AddLen(f[s \ {Max(s)}], c[Max(s)])]
<1>1. Size(c) = (CHOOSE f : Is(f))[DOMAIN c]
  BY Zenon DEF Size, FoldLeft, MapThenFoldSet
<1>2. ASSUME NEW f PROVE Folding("size", c, DOMAIN c, f) <=> Is(f)
  <2>1. BaseOf("size") = 0 /\ \A a, x : Join("size", a, x) = AddLen(a, x)
    BY DEF BaseOf, Join
  <2> QED
    BY <2>1, Zenon DEF Folding
<1>3. \E f : Folding("size", c, DOMAIN c, f)
  <2>1. "size" \in Folded /\ c \in Seq(ElementsOf("size"))
    BY DEF Folded, ElementsOf
  <2> QED
    BY <2>1, FoldingExists, Zenon
<1> HIDE DEF Is
<1> QED
  BY <1>1, <1>2, <1>3, Zenon

\* CutAll, byte by byte.
LEMMA CutMore ==
    /\ CutAll(<< >>) = NothingYet
    /\ \A c \in Seq(Bytes), b \in Bytes : CutAll(Append(c, b)) = CutByte(CutAll(c), b)
<1>1. CutAll(<< >>) = NothingYet
  <2>1. << >> \in Seq(Bytes) /\ DOMAIN << >> = {} /\ {} \in SUBSET {}
    OBVIOUS
  <2>2. PICK f : Folding("cut", << >>, {}, f) /\ CutAll(<< >>) = f[{}]
    BY <2>1, CutFolds
  <2> QED
    BY <2>1, <2>2, Zenon DEF Folding, BaseOf
<1>2. ASSUME NEW c \in Seq(Bytes), NEW b \in Bytes
      PROVE  CutAll(Append(c, b)) = CutByte(CutAll(c), b)
  <2> DEFINE d == Append(c, b)
  <2>1. d \in Seq(Bytes)
    OBVIOUS
  <2>2. "cut" \in Folded /\ ElementsOf("cut") = Bytes
    BY DEF Folded, ElementsOf
  <2>3. PICK f : Folding("cut", c, DOMAIN c, f) /\ CutAll(c) = f[DOMAIN c]
    BY CutFolds
  <2>4. PICK h : Folding("cut", d, DOMAIN d, h) /\ CutAll(d) = h[DOMAIN d]
    BY <2>1, CutFolds
  <2>5. h[DOMAIN d] = Join("cut", f[DOMAIN c], b)
    BY <2>2, <2>3, <2>4, FoldingMore, Zenon
  <2> QED
    BY <2>3, <2>4, <2>5, Zenon DEF Join
<1> QED
  BY <1>1, <1>2, Zenon

\* Size, entry by entry.
LEMMA SizeMore ==
    /\ Size(<< >>) = 0
    /\ \A c \in Seq(Seq(Bytes)), b \in Seq(Bytes) : Size(Append(c, b)) = Size(c) + Len(b)
<1>1. Size(<< >>) = 0
  <2>1. << >> \in Seq(Seq(Bytes)) /\ DOMAIN << >> = {} /\ {} \in SUBSET {}
    OBVIOUS
  <2>2. PICK f : Folding("size", << >>, {}, f) /\ Size(<< >>) = f[{}]
    BY <2>1, SizeFolds
  <2>3. BaseOf("size") = 0
    BY DEF BaseOf
  <2> QED
    BY <2>1, <2>2, <2>3, Zenon DEF Folding
<1>2. ASSUME NEW c \in Seq(Seq(Bytes)), NEW b \in Seq(Bytes)
      PROVE  Size(Append(c, b)) = Size(c) + Len(b)
  <2> DEFINE d == Append(c, b)
  <2>1. d \in Seq(Seq(Bytes))
    OBVIOUS
  <2>2. "size" \in Folded /\ ElementsOf("size") = Seq(Bytes)
    BY DEF Folded, ElementsOf
  <2>3. PICK f : Folding("size", c, DOMAIN c, f) /\ Size(c) = f[DOMAIN c]
    BY SizeFolds
  <2>4. PICK h : Folding("size", d, DOMAIN d, h) /\ Size(d) = h[DOMAIN d]
    BY <2>1, SizeFolds
  <2>5. h[DOMAIN d] = Join("size", f[DOMAIN c], b)
    <3>1. c \in Seq(ElementsOf("size")) /\ b \in ElementsOf("size")
      BY <2>2
    <3>2. "size" \in Folded
      BY DEF Folded
    <3> QED
      BY <2>3, <2>4, <3>1, <3>2, FoldingMore, Zenon
  <2>6. Join("size", f[DOMAIN c], b) = f[DOMAIN c] + Len(b)
    BY DEF Join, AddLen
  <2> QED
    BY <2>3, <2>4, <2>5, <2>6, Zenon
<1> QED
  BY <1>1, <1>2, Zenon

\* What the two folds come to.
LEMMA CutSizeTypes ==
    /\ \A c \in Seq(Bytes) : CutAll(c) \in Cuts
    /\ \A c \in Seq(Seq(Bytes)) : Size(c) \in Nat
<1>1. {c \in Seq(Bytes) : CutAll(c) \in Cuts} = Seq(Bytes)
  <2> DEFINE P == {c \in Seq(Bytes) : CutAll(c) \in Cuts}
  <2>1. << >> \in P
    <3>1. << >> \in Seq(Bytes)
      OBVIOUS
    <3> QED
      BY <3>1, CutMore, CutByteType, Zenon
  <2>2. ASSUME NEW c \in P, NEW b \in Bytes PROVE Append(c, b) \in P
    <3>1. c \in Seq(Bytes) /\ CutAll(c) \in Cuts
      OBVIOUS
    <3>2. CutByte(CutAll(c), b) \in Cuts
      BY <3>1, CutByteType, Zenon
    <3>3. Append(c, b) \in Seq(Bytes)
      BY <3>1
    <3> QED
      BY <3>1, <3>2, <3>3, CutMore
  <2>3. P \in SUBSET Seq(Bytes)
    OBVIOUS
  <2> HIDE DEF P
  <2>4. P = Seq(Bytes)
    BY <2>1, <2>2, <2>3, SeqsBySteps
  <2> QED
    BY <2>4 DEF P
<1>2. {c \in Seq(Seq(Bytes)) : Size(c) \in Nat} = Seq(Seq(Bytes))
  <2> DEFINE P == {c \in Seq(Seq(Bytes)) : Size(c) \in Nat}
  <2>1. << >> \in P
    BY SizeMore
  <2>2. ASSUME NEW c \in P, NEW b \in Seq(Bytes) PROVE Append(c, b) \in P
    <3>1. c \in Seq(Seq(Bytes)) /\ Size(c) \in Nat /\ Len(b) \in Nat
      OBVIOUS
    <3>2. Append(c, b) \in Seq(Seq(Bytes))
      BY <3>1
    <3>3. Size(Append(c, b)) = Size(c) + Len(b)
      BY <3>1, SizeMore
    <3> QED
      BY <3>1, <3>2, <3>3
  <2>3. P \in SUBSET Seq(Seq(Bytes))
    OBVIOUS
  <2> HIDE DEF P
  <2>4. P = Seq(Seq(Bytes))
    BY <2>1, <2>2, <2>3, SeqsBySteps
  <2> QED
    BY <2>4 DEF P
<1> QED
  BY <1>1, <1>2, Zenon

-----------------------------------------------------------------------------
(* Cutting a stream into entries. *)

\* The bytes of c come to these entries, and none is left over.
Whole(c, entries) == CutAll(c) = [lines |-> entries, part |-> << >>]

\* Sequences joined and one element more.
LEMMA JoinedAppend ==
    ASSUME NEW S, NEW c \in Seq(S), NEW d \in Seq(S), NEW b \in S
    PROVE  c \o d \in Seq(S) /\ Append(d, b) \in Seq(S)
           /\ c \o Append(d, b) = Append(c \o d, b)
OBVIOUS

\* The bytes of one more.
LEMMA BytesAppend ==
    ASSUME NEW c \in Seq(Bytes), NEW b \in Bytes, NL \notin ToSet(Append(c, b))
    PROVE  NL \notin ToSet(c) /\ b # NL /\ Len(Append(c, b)) = Len(c) + 1 /\ Len(c) \in Nat
<1>1. /\ Len(Append(c, b)) = Len(c) + 1 /\ Len(c) \in Nat
      /\ Append(c, b)[Len(c) + 1] = b /\ \A i \in 1 .. Len(c) : Append(c, b)[i] = c[i]
      /\ DOMAIN c = 1 .. Len(c) /\ DOMAIN Append(c, b) = 1 .. Len(c) + 1
  OBVIOUS
<1>2. Len(c) + 1 \in DOMAIN Append(c, b) /\ DOMAIN c \subseteq DOMAIN Append(c, b)
  BY <1>1
<1>3. b # NL /\ NL \notin ToSet(c)
  BY <1>1, <1>2, Zenon DEF ToSet
<1> QED
  BY <1>1, <1>3

\* One byte more of a line that is not over yet.
LEMMA PartGrows ==
    ASSUME NEW entries, NEW c \in Seq(Bytes), NEW b \in Bytes, b # NL, Len(c) + 1 < BufSize
    PROVE  CutByte([lines |-> entries, part |-> c], b)
              = [lines |-> entries, part |-> Append(c, b)]
<1>1. Len(c) + 1 # BufSize
  <2>1. Len(c) \in Nat
    OBVIOUS
  <2> QED
    BY <2>1, SizesAssumption
<1> QED
  BY <1>1 DEF CutByte

\* Bytes without a line end, fewer than a buffer, stay together.
LEMMA CutPart ==
    ASSUME NEW c \in Seq(Bytes), NEW entries, Whole(c, entries),
           NEW line \in Seq(Bytes), NL \notin ToSet(line), Len(line) < BufSize
    PROVE  CutAll(c \o line) = [lines |-> entries, part |-> line]
<1> DEFINE Q(d) == NL \notin ToSet(d) /\ Len(d) < BufSize
                     => CutAll(c \o d) = [lines |-> entries, part |-> d]
           P == {d \in Seq(Bytes) : Q(d)}
<1>1. << >> \in P
  <2>1. << >> \in Seq(Bytes) /\ c \o << >> = c
    OBVIOUS
  <2> QED
    BY <2>1 DEF Whole
<1>2. ASSUME NEW d \in P, NEW b \in Bytes PROVE Append(d, b) \in P
  <2>1. d \in Seq(Bytes) /\ Q(d)
    BY Zenon
  <2> HIDE DEF P, Q
  <2>2. /\ c \o d \in Seq(Bytes) /\ Append(d, b) \in Seq(Bytes)
        /\ c \o Append(d, b) = Append(c \o d, b)
    BY <2>1, JoinedAppend
  <2>3. Q(Append(d, b))
    <3> SUFFICES ASSUME NL \notin ToSet(Append(d, b)), Len(Append(d, b)) < BufSize
                 PROVE  CutAll(c \o Append(d, b)) = [lines |-> entries, part |-> Append(d, b)]
      BY Zenon DEF Q
    <3>1. /\ NL \notin ToSet(d) /\ b # NL
          /\ Len(Append(d, b)) = Len(d) + 1 /\ Len(d) \in Nat
      BY <2>1, BytesAppend
    <3>2. Len(d) + 1 < BufSize /\ Len(d) < BufSize
      BY <3>1, SizesAssumption
    <3>3. CutAll(c \o d) = [lines |-> entries, part |-> d]
      BY <2>1, <3>1, <3>2, Zenon DEF Q
    <3>4. CutAll(Append(c \o d, b)) = CutByte(CutAll(c \o d), b)
      BY <2>2, CutMore
    <3>5. CutByte([lines |-> entries, part |-> d], b)
             = [lines |-> entries, part |-> Append(d, b)]
      BY <2>1, <3>1, <3>2, PartGrows
    <3> QED
      BY <2>2, <3>3, <3>4, <3>5, Zenon
  <2> QED
    BY <2>2, <2>3 DEF P
<1>3. P \in SUBSET Seq(Bytes)
  OBVIOUS
<1>4. P = Seq(Bytes)
  <2> HIDE DEF P
  <2> QED
    BY <1>1, <1>2, <1>3, SeqsBySteps
<1>5. line \in P
  BY <1>4, Zenon
<1>6. Q(line)
  BY <1>5, Zenon
<1> QED
  BY <1>6

\* A line end makes an entry of what has come since the last entry.
LEMMA CutLine ==
    ASSUME NEW c \in Seq(Bytes), NEW entries, Whole(c, entries),
           NEW line \in Seq(Bytes), NL \notin ToSet(line), Len(line) < BufSize
    PROVE  Whole(c \o (line \o <<NL>>), Append(entries, line))
<1>1. CutAll(c \o line) = [lines |-> entries, part |-> line]
  BY CutPart
<1>2. c \o line \in Seq(Bytes) /\ c \o Append(line, NL) = Append(c \o line, NL)
  BY BytesAssumption, JoinedAppend
<1>3. line \o <<NL>> = Append(line, NL)
  BY BytesAssumption
<1>4. CutAll(Append(c \o line, NL)) = CutByte(CutAll(c \o line), NL)
  BY <1>2, BytesAssumption, CutMore
<1>5. CutByte([lines |-> entries, part |-> line], NL)
         = [lines |-> Append(entries, line), part |-> << >>]
  BY DEF CutByte
<1> QED
  BY <1>1, <1>2, <1>3, <1>4, <1>5, Zenon DEF Whole

\* A full buffer makes an entry too.
LEMMA CutFull ==
    ASSUME NEW c \in Seq(Bytes), NEW entries, Whole(c, entries),
           NEW line \in Seq(Bytes), NL \notin ToSet(line), Len(line) = BufSize
    PROVE  Whole(c \o line, Append(entries, line))
<1> DEFINE n == BufSize - 1
           front == SubSeq(line, 1, n)
           b == line[n + 1]
<1>1. n \in Nat /\ Len(line) = n + 1 /\ n + 1 = BufSize
  BY SizesAssumption
<1>2. front \in Seq(Bytes) /\ Len(front) = n /\ b \in Bytes /\ line = Append(front, b)
  <2> HIDE DEF n
  <2> QED
    BY <1>1, LastApart, Zenon
<1> HIDE DEF n, front, b
<1>3. NL \notin ToSet(front) /\ b # NL
  BY <1>2, BytesAppend
<1>4. Len(front) < BufSize
  BY <1>1, <1>2
<1>5. CutAll(c \o front) = [lines |-> entries, part |-> front]
  BY <1>2, <1>3, <1>4, CutPart
<1>6. c \o front \in Seq(Bytes) /\ c \o Append(front, b) = Append(c \o front, b)
  BY <1>2, JoinedAppend
<1>7. CutAll(Append(c \o front, b)) = CutByte(CutAll(c \o front), b)
  BY <1>2, <1>6, CutMore
<1>8. CutByte([lines |-> entries, part |-> front], b)
         = [lines |-> Append(entries, Append(front, b)), part |-> << >>]
  BY <1>1, <1>2, <1>3 DEF CutByte
<1> QED
  BY <1>2, <1>5, <1>6, <1>7, <1>8, Zenon DEF Whole

\* What is left at the end of the stream makes the last entry.
LEMMA CutEnd ==
    ASSUME NEW c \in Seq(Bytes), NEW entries, Whole(c, entries)
    PROVE  /\ Cut(c) = entries
           /\ \A line \in Seq(Bytes) :
                 NL \notin ToSet(line) /\ Len(line) < BufSize /\ line # << >>
                    => Cut(c \o line) = Append(entries, line)
<1>1. Cut(c) = entries
  BY DEF Cut, Whole
<1>2. ASSUME NEW line \in Seq(Bytes), NL \notin ToSet(line), Len(line) < BufSize, line # << >>
      PROVE  Cut(c \o line) = Append(entries, line)
  <2>1. CutAll(c \o line) = [lines |-> entries, part |-> line]
    BY <1>2, CutPart
  <2> QED
    BY <1>2, <2>1 DEF Cut
<1> QED
  BY <1>1, <1>2

\* One byte more after these entries and this part of a line: the entries go
\* on, and the bytes are one more at most.
OneByteMore(entries, more, part, b, n) ==
    \E more2 \in Seq(Seq(Bytes)), part2 \in Seq(Bytes) :
        /\ CutByte([lines |-> entries \o more, part |-> part], b)
              = [lines |-> entries \o more2, part |-> part2]
        /\ Size(more2) + Len(part2) <= n + 1

\* CutByte goes on from the entries there are.
LEMMA CutByteGoesOn ==
    ASSUME NEW entries \in Seq(Seq(Bytes)), NEW more \in Seq(Seq(Bytes)),
           NEW part \in Seq(Bytes), NEW b \in Bytes, NEW n \in Nat, Size(more) + Len(part) <= n
    PROVE  OneByteMore(entries, more, part, b, n)
<1>t. Size(more) \in Nat /\ Len(part) \in Nat /\ << >> \in Seq(Bytes) /\ Len(<< >>) = 0
  BY CutSizeTypes
<1>1. CASE b = NL
  <2>1. CutByte([lines |-> entries \o more, part |-> part], b)
           = [lines |-> Append(entries \o more, part), part |-> << >>]
    BY <1>1 DEF CutByte
  <2>2. /\ Append(more, part) \in Seq(Seq(Bytes))
        /\ entries \o Append(more, part) = Append(entries \o more, part)
    BY JoinedAppend
  <2>3. Size(Append(more, part)) = Size(more) + Len(part)
    BY SizeMore
  <2>4. Size(Append(more, part)) + Len(<< >>) <= n + 1
    BY <1>t, <2>3
  <2> QED
    BY <1>t, <2>1, <2>2, <2>4 DEF OneByteMore
<1>2. CASE b # NL /\ Len(part) + 1 = BufSize
  <2> DEFINE last == Append(part, b)
  <2>1. last \in Seq(Bytes) /\ Len(last) = Len(part) + 1
    OBVIOUS
  <2>2. CutByte([lines |-> entries \o more, part |-> part], b)
           = [lines |-> Append(entries \o more, last), part |-> << >>]
    BY <1>2 DEF CutByte
  <2> HIDE DEF last
  <2>3. /\ Append(more, last) \in Seq(Seq(Bytes))
        /\ entries \o Append(more, last) = Append(entries \o more, last)
    BY <2>1, JoinedAppend
  <2>4. Size(Append(more, last)) = Size(more) + Len(last)
    BY <2>1, SizeMore
  <2>5. Size(Append(more, last)) + Len(<< >>) <= n + 1
    BY <1>t, <2>1, <2>4
  <2> QED
    BY <1>t, <2>2, <2>3, <2>5 DEF OneByteMore
<1>3. CASE b # NL /\ Len(part) + 1 # BufSize
  <2>1. CutByte([lines |-> entries \o more, part |-> part], b)
           = [lines |-> entries \o more, part |-> Append(part, b)]
    BY <1>3 DEF CutByte
  <2>2. Append(part, b) \in Seq(Bytes) /\ Len(Append(part, b)) = Len(part) + 1
    OBVIOUS
  <2>3. Size(more) + Len(Append(part, b)) <= n + 1
    BY <1>t, <2>2
  <2> QED
    BY <2>1, <2>2, <2>3 DEF OneByteMore
<1> QED
  BY <1>1, <1>2, <1>3

\* What d adds to entries that c comes to: more of them, of no more bytes than d.
GoesOn(c, entries, d) ==
    \E more \in Seq(Seq(Bytes)), part \in Seq(Bytes) :
        /\ CutAll(c \o d) = [lines |-> entries \o more, part |-> part]
        /\ Size(more) + Len(part) <= Len(d)

\* More bytes never change the entries there are.
LEMMA CutGoesOn ==
    ASSUME NEW c \in Seq(Bytes), NEW entries \in Seq(Seq(Bytes)), Whole(c, entries),
           NEW rest \in Seq(Bytes)
    PROVE  GoesOn(c, entries, rest)
<1> DEFINE P == {d \in Seq(Bytes) : GoesOn(c, entries, d)}
<1>1. << >> \in P
  <2>1. << >> \in Seq(Bytes) /\ << >> \in Seq(Seq(Bytes)) /\ c \o << >> = c
        /\ entries \o << >> = entries /\ Len(<< >>) = 0
    OBVIOUS
  <2>2. CutAll(c \o << >>) = [lines |-> entries \o << >>, part |-> << >>]
    BY <2>1, Zenon DEF Whole
  <2>3. Size(<< >>) + Len(<< >>) <= Len(<< >>)
    BY <2>1, SizeMore
  <2> QED
    BY <2>1, <2>2, <2>3, Zenon DEF GoesOn
<1>2. ASSUME NEW d \in P, NEW b \in Bytes PROVE Append(d, b) \in P
  <2>1. d \in Seq(Bytes) /\ GoesOn(c, entries, d)
    BY Zenon
  <2> HIDE DEF P
  <2>2. PICK more \in Seq(Seq(Bytes)), part \in Seq(Bytes) :
            /\ CutAll(c \o d) = [lines |-> entries \o more, part |-> part]
            /\ Size(more) + Len(part) <= Len(d)
    BY <2>1 DEF GoesOn
  <2>3. /\ c \o d \in Seq(Bytes) /\ Append(d, b) \in Seq(Bytes)
        /\ c \o Append(d, b) = Append(c \o d, b)
    BY <2>1, JoinedAppend
  <2>4. Len(d) \in Nat /\ Len(Append(d, b)) = Len(d) + 1
    BY <2>1
  <2>5. PICK more2 \in Seq(Seq(Bytes)), part2 \in Seq(Bytes) :
              /\ CutByte([lines |-> entries \o more, part |-> part], b)
                    = [lines |-> entries \o more2, part |-> part2]
              /\ Size(more2) + Len(part2) <= Len(d) + 1
    <3>1. OneByteMore(entries, more, part, b, Len(d))
      BY <2>2, <2>4, CutByteGoesOn, Zenon
    <3> QED
      BY <3>1 DEF OneByteMore
  <2>6. CutAll(Append(c \o d, b)) = CutByte(CutAll(c \o d), b)
    BY <2>3, CutMore
  <2>7. CutAll(c \o Append(d, b)) = [lines |-> entries \o more2, part |-> part2]
    BY <2>2, <2>3, <2>5, <2>6, Zenon
  <2>8. Size(more2) + Len(part2) <= Len(Append(d, b))
    BY <2>4, <2>5
  <2>9. GoesOn(c, entries, Append(d, b))
    BY <2>7, <2>8 DEF GoesOn
  <2> QED
    BY <2>3, <2>9 DEF P
<1>3. P \in SUBSET Seq(Bytes)
  OBVIOUS
<1>4. P = Seq(Bytes)
  <2> HIDE DEF P
  <2> QED
    BY <1>1, <1>2, <1>3, SeqsBySteps
<1> QED
  BY <1>4, Zenon

\* The same of Cut, which makes an entry of what is left over.
LEMMA CutAfter ==
    ASSUME NEW c \in Seq(Bytes), NEW entries \in Seq(Seq(Bytes)), Whole(c, entries),
           NEW rest \in Seq(Bytes)
    PROVE  \E more \in Seq(Seq(Bytes)) : Cut(c \o rest) = entries \o more /\ Size(more) <= Len(rest)
<1>1. PICK more \in Seq(Seq(Bytes)), part \in Seq(Bytes) :
          /\ CutAll(c \o rest) = [lines |-> entries \o more, part |-> part]
          /\ Size(more) + Len(part) <= Len(rest)
  BY CutGoesOn DEF GoesOn
<1>t. Size(more) \in Nat /\ Len(part) \in Nat /\ Len(rest) \in Nat
  BY CutSizeTypes
<1>2. CASE part = << >>
  <2>1. Cut(c \o rest) = entries \o more
    BY <1>1, <1>2 DEF Cut
  <2>2. Size(more) <= Len(rest)
    BY <1>1, <1>t
  <2> QED
    BY <2>1, <2>2
<1>3. CASE part # << >>
  <2>1. Cut(c \o rest) = Append(entries \o more, part)
    BY <1>1, <1>3 DEF Cut
  <2>2. /\ Append(more, part) \in Seq(Seq(Bytes))
        /\ entries \o Append(more, part) = Append(entries \o more, part)
    BY JoinedAppend
  <2>3. Size(Append(more, part)) = Size(more) + Len(part)
    BY SizeMore
  <2>4. Size(Append(more, part)) <= Len(rest)
    BY <1>1, <2>3
  <2> QED
    BY <2>1, <2>2, <2>4
<1> QED
  BY <1>2, <1>3

-----------------------------------------------------------------------------
(***************************************************************************)
(* What the theorems are about.                                            *)
(***************************************************************************)

\* When Run has returned without an error nothing is left on its way to the
\* copiers: what is not in the log yet is in their buffers.
HandedOver ==
    result = "ok" => /\ frame.rest = << >>
                     /\ \A s \in Streams : pipe[s] = << >> /\ Len(buf[s]) <= BufSize

\* A copier ends with empty hands, and only after the pipes were closed.
EndsEmpty ==
    \A s \in Streams :
        copier[s] = "ended" => ~isOpen[s] /\ pipe[s] = << >> /\ buf[s] = << >>

\* The bytes of a stream that docker has sent and the log does not have yet,
\* in their order.
OnTheWay(s) == buf[s] \o pipe[s] \o (IF frame.s = s THEN frame.rest ELSE << >>)

\* What makes an entry: the end of a line, a full buffer without one, or the end
\* of the stream, which is the copier's too.
EntryEnds(s, line, end) ==
    \/ end = <<NL>> /\ Len(line) < BufSize /\ copier'[s] = "reading"
    \/ end = << >> /\ Len(line) = BufSize /\ copier'[s] = "reading"
    \/ /\ end = << >> /\ Len(line) < BufSize /\ line # << >>
       /\ ~isOpen[s] /\ copier'[s] = "ended"

\* Bytes move along, or new ones come in at the end, or an entry leaves at the
\* front, with the end of its line if it has one.
Flow(s) ==
    \/ sent'[s] = sent[s] /\ emitted'[s] = emitted[s] /\ OnTheWay(s)' = OnTheWay(s)
    \/ /\ emitted'[s] = emitted[s]
       /\ \E data \in Seq(Bytes) : /\ sent'[s] = sent[s] \o data
                                   /\ OnTheWay(s)' = OnTheWay(s) \o data
    \/ /\ sent'[s] = sent[s]
       /\ \E line \in Seq(Bytes), end \in {<< >>, <<NL>>} :
             /\ emitted'[s] = Append(emitted[s], line)
             /\ OnTheWay(s) = (line \o end) \o OnTheWay(s)'
             /\ copier[s] = "reading" /\ IsEntry(line) /\ EntryEnds(s, line, end)

\* No byte is dropped, repeated or overtaken between docker and the log.
BytesInOrder == [][\A s \in Streams : Flow(s)]_vars

-----------------------------------------------------------------------------
(* The inductive step. *)

\* Nothing has been sent yet.
LEMMA InitOutInv == Init => OutInv
<1> SUFFICES ASSUME Init PROVE OutInv
  OBVIOUS
<1>e. << >> \in Seq(Bytes) /\ << >> \in Seq(Seq(Bytes)) /\ Len(<< >>) = 0 /\ DOMAIN << >> = {}
  OBVIOUS
<1>1. TypeOK
  <2>1. frame \in [s : Streams, rest : Seq(Bytes)]
    BY <1>e DEF Init, Streams
  <2>2. /\ sent \in [Streams -> Seq(Bytes)] /\ pipe \in [Streams -> Seq(Bytes)]
        /\ buf \in [Streams -> Seq(Bytes)] /\ emitted \in [Streams -> Seq(Seq(Bytes))]
    BY <1>e DEF Init
  <2>3. isOpen \in [Streams -> BOOLEAN] /\ copier \in [Streams -> {"reading", "ended"}]
    BY DEF Init
  <2> QED
    BY <2>1, <2>2, <2>3 DEF Init, TypeOK
<1>2. PipeInv
  BY DEF Init, PipeInv
<1>3. CopierInv
  BY <1>e, SizesAssumption DEF Init, CopierInv
<1>4. EntryInv
  BY <1>e DEF Init, EntryInv
<1> QED
  BY <1>1, <1>2, <1>3, <1>4 DEF OutInv

\* The types, one by one.
LEMMA OutTypes ==
    ASSUME OutInv
    PROVE  /\ frame.s \in Streams /\ frame.rest \in Seq(Bytes)
           /\ frame = [s |-> frame.s, rest |-> frame.rest]
           /\ sent \in [Streams -> Seq(Bytes)] /\ pipe \in [Streams -> Seq(Bytes)]
           /\ buf \in [Streams -> Seq(Bytes)] /\ isOpen \in [Streams -> BOOLEAN]
           /\ copier \in [Streams -> {"reading", "ended"}]
           /\ emitted \in [Streams -> Seq(Seq(Bytes))]
BY DEF OutInv, TypeOK

\* Run goes on without touching a pipe.
LEMMA RunOutInv ==
    ASSUME OutInv,
           ReadOtherHeader \/ WriteReturns \/ ReadEOF \/ ReadFails
    PROVE  OutInv'
<1>same. UNCHANGED <<frame, sent, pipe, isOpen, buf, copier, emitted>>
  BY DEF ReadOtherHeader, WriteReturns, ReadEOF, ReadFails, copierVars
<1>pc. rpc' \in {"header", "data", "panic", "returned"} /\ result' \in {"none", "ok", "err"}
  BY DEF ReadOtherHeader, WriteReturns, ReadEOF, ReadFails, OutInv, TypeOK
<1>1. TypeOK'
  BY <1>same, <1>pc, Zenon DEF OutInv, TypeOK
<1>2. PipeInv'
  BY <1>same DEF OutInv, PipeInv, ReadOtherHeader, WriteReturns, ReadEOF, ReadFails
<1>3. CopierInv'
  <2>1. rpc # "done" /\ rpc' # "done"
    BY <1>pc DEF ReadOtherHeader, WriteReturns, ReadEOF, ReadFails
  <2> QED
    BY <1>same, <2>1 DEF OutInv, CopierInv
<1>4. EntryInv'
  BY <1>same DEF OutInv, EntryInv
<1> QED
  BY <1>1, <1>2, <1>3, <1>4 DEF OutInv

\* The next frame begins.
LEMMA HeaderOutInv == ASSUME OutInv, ReadHeader PROVE OutInv'
<1>1. PICK s \in Streams, data \in Frames :
          frame' = [s |-> s, rest |-> data] /\ sent' = [sent EXCEPT ![s] = sent[s] \o data]
  BY DEF ReadHeader
<1>2. data \in Seq(Bytes) /\ sent[s] \o data \in Seq(Bytes)
  BY OutTypes, FrameData
<1>same. /\ UNCHANGED <<result, pipe, isOpen, buf, copier, emitted>>
         /\ rpc = "header" /\ rpc' = "data"
  BY DEF ReadHeader, copierVars
<1>3. TypeOK'
  <2>1. frame' \in [s : Streams, rest : Seq(Bytes)] /\ sent' \in [Streams -> Seq(Bytes)]
    BY <1>1, <1>2, OutTypes
  <2>2. rpc' \in {"header", "data", "write", "returned", "done", "panic"}
    BY <1>same
  <2> QED
    BY <1>same, <2>1, <2>2, Zenon DEF OutInv, TypeOK
<1>4. PipeInv'
  BY <1>same DEF OutInv, PipeInv
<1>5. CopierInv'
  BY <1>same DEF OutInv, CopierInv
<1>6. EntryInv'
  BY <1>same DEF OutInv, EntryInv
<1> QED
  BY <1>3, <1>4, <1>5, <1>6 DEF OutInv

\* What ReadChunk takes off the frame.
LEMMA ChunkMoves ==
    ASSUME OutInv, ReadChunk
    PROVE  /\ ToRead \in 0 .. Len(frame.rest)
           /\ \A s \in Streams : pipe[s] = << >>
           /\ pipe' = [pipe EXCEPT ![frame.s] = SubSeq(frame.rest, 1, ToRead)]
           /\ frame' = [s |-> frame.s, rest |-> Left]
           /\ SubSeq(frame.rest, 1, ToRead) \in Seq(Bytes) /\ Left \in Seq(Bytes)
           /\ SubSeq(frame.rest, 1, ToRead) \o Left = frame.rest
           /\ UNCHANGED <<result, sent, isOpen, buf, copier, emitted>>
           /\ rpc = "data" /\ rpc' = "write"
<1>1. ToRead \in 0 .. Len(frame.rest)
  <2>1. Len(frame.rest) \in Nat
    BY OutTypes
  <2> QED
    BY <2>1, SizesAssumption DEF ToRead, SmallerOf
<1>2. /\ SubSeq(frame.rest, 1, ToRead) \in Seq(Bytes) /\ Left \in Seq(Bytes)
      /\ SubSeq(frame.rest, 1, ToRead) \o Left = frame.rest
  BY <1>1, OutTypes, SplitAt, Zenon DEF Left
<1>3. /\ pipe' = [pipe EXCEPT ![frame.s] = SubSeq(frame.rest, 1, ToRead)]
      /\ UNCHANGED <<result, sent, isOpen, buf, copier, emitted>>
      /\ rpc = "data" /\ rpc' = "write" /\ frame' = [frame EXCEPT !.rest = Left]
  BY DEF ReadChunk, copierVars
<1>4. frame' = [s |-> frame.s, rest |-> Left]
  <2> HIDE DEF Left
  <2> QED
    BY <1>3, OutTypes
<1>5. \A s \in Streams : pipe[s] = << >>
  BY <1>3 DEF OutInv, PipeInv
<1> QED
  BY <1>1, <1>2, <1>3, <1>4, <1>5

\* A piece of the frame goes into the pipe of its stream.
LEMMA ChunkOutInv == ASSUME OutInv, ReadChunk PROVE OutInv'
<1>typ. frame.s \in Streams /\ pipe \in [Streams -> Seq(Bytes)]
  BY OutTypes
<1>new. /\ pipe' = [pipe EXCEPT ![frame.s] = SubSeq(frame.rest, 1, ToRead)]
        /\ frame' = [s |-> frame.s, rest |-> Left]
        /\ SubSeq(frame.rest, 1, ToRead) \in Seq(Bytes) /\ Left \in Seq(Bytes)
        /\ UNCHANGED <<result, sent, isOpen, buf, copier, emitted>>
        /\ rpc = "data" /\ rpc' = "write"
  BY ChunkMoves
<1>empty. \A s \in Streams : pipe[s] = << >>
  BY ChunkMoves
<1> HIDE DEF ToRead, Left
<1>1. TypeOK'
  <2>1. frame' \in [s : Streams, rest : Seq(Bytes)] /\ pipe' \in [Streams -> Seq(Bytes)]
    BY <1>typ, <1>new
  <2>2. rpc' \in {"header", "data", "write", "returned", "done", "panic"}
    BY <1>new
  <2> QED
    BY <1>new, <2>1, <2>2, Zenon DEF OutInv, TypeOK
<1>2. PipeInv'
  <2>1. \A s \in Streams : pipe'[s] # << >> => s = frame.s
    BY <1>typ, <1>new, <1>empty
  <2>2. frame'.s = frame.s
    BY <1>new
  <2>3. result' = "none"
    BY <1>new DEF OutInv, PipeInv
  <2> QED
    BY <1>new, <2>1, <2>2, <2>3 DEF PipeInv
<1>3. CopierInv'
  BY <1>new DEF OutInv, CopierInv
<1>4. EntryInv'
  BY <1>new DEF OutInv, EntryInv
<1> QED
  BY <1>1, <1>2, <1>3, <1>4 DEF OutInv

\* The deferred calls of runStep close both pipes.
LEMMA CloseOutInv == ASSUME OutInv, ClosePipes PROVE OutInv'
<1>same. /\ UNCHANGED <<frame, result, sent, pipe, buf, copier, emitted>>
         /\ rpc = "returned" /\ rpc' = "done"
  BY DEF ClosePipes, copierVars
<1>open. isOpen' = [s \in Streams |-> FALSE]
  BY DEF ClosePipes
<1>1. TypeOK'
  <2>1. /\ isOpen' \in [Streams -> BOOLEAN]
        /\ rpc' \in {"header", "data", "write", "returned", "done", "panic"}
    BY <1>same, <1>open
  <2> QED
    BY <1>same, <2>1, Zenon DEF OutInv, TypeOK
<1>2. PipeInv'
  BY <1>same DEF OutInv, PipeInv
<1>3. CopierInv'
  BY <1>same, <1>open DEF OutInv, CopierInv
<1>4. EntryInv'
  BY <1>same DEF OutInv, EntryInv
<1> QED
  BY <1>1, <1>2, <1>3, <1>4 DEF OutInv

\* What Fill moves from the pipe into the buffer.
LEMMA FillMoves ==
    ASSUME OutInv, NEW s \in Streams, Fill(s)
    PROVE  \E p, q \in Seq(Bytes) :
              /\ pipe[s] = p \o q /\ pipe[s] # << >>
              /\ buf' = [buf EXCEPT ![s] = buf[s] \o p] /\ pipe' = [pipe EXCEPT ![s] = q]
              /\ buf[s] \o p \in Seq(Bytes) /\ Len(buf[s] \o p) <= BufSize
              /\ copier[s] = "reading"
              /\ UNCHANGED <<rpc, frame, result, sent, isOpen, copier, emitted>>
<1> DEFINE n == SmallerOf(BufSize - Len(buf[s]), Len(pipe[s]))
           p == SubSeq(pipe[s], 1, n)
           q == SubSeq(pipe[s], n + 1, Len(pipe[s]))
<1>typ. /\ buf[s] \in Seq(Bytes) /\ pipe[s] \in Seq(Bytes)
        /\ Len(buf[s]) \in Nat /\ Len(pipe[s]) \in Nat
  BY OutTypes
<1>1. n \in 0 .. Len(pipe[s]) /\ Len(buf[s]) + n <= BufSize
  <2>1. Len(buf[s]) < BufSize
    BY DEF Fill
  <2> QED
    BY <1>typ, <2>1, RoomFor, SizesAssumption
<1>2. /\ buf' = [buf EXCEPT ![s] = buf[s] \o p] /\ pipe' = [pipe EXCEPT ![s] = q]
      /\ UNCHANGED <<rpc, frame, result, sent, isOpen, copier, emitted>>
      /\ copier[s] = "reading" /\ pipe[s] # << >>
  BY DEF Fill, runVars
<1> HIDE DEF n
<1>3. p \in Seq(Bytes) /\ q \in Seq(Bytes) /\ Len(p) = n /\ p \o q = pipe[s]
  BY <1>typ, <1>1, SplitAt
<1> HIDE DEF p, q
<1>4. buf[s] \o p \in Seq(Bytes) /\ Len(buf[s] \o p) <= BufSize
  BY <1>typ, <1>1, <1>3, Joined
<1> QED
  BY <1>2, <1>3, <1>4

\* A copier reads.
LEMMA FillOutInv == ASSUME OutInv, NEW s \in Streams, Fill(s) PROVE OutInv'
<1>typ. buf \in [Streams -> Seq(Bytes)] /\ pipe \in [Streams -> Seq(Bytes)]
  BY OutTypes
<1>1. PICK p, q \in Seq(Bytes) :
              /\ pipe[s] = p \o q /\ pipe[s] # << >>
              /\ buf' = [buf EXCEPT ![s] = buf[s] \o p] /\ pipe' = [pipe EXCEPT ![s] = q]
              /\ buf[s] \o p \in Seq(Bytes) /\ Len(buf[s] \o p) <= BufSize
              /\ copier[s] = "reading"
              /\ UNCHANGED <<rpc, frame, result, sent, isOpen, copier, emitted>>
  BY FillMoves
<1>2. TypeOK'
  <2>1. buf' \in [Streams -> Seq(Bytes)] /\ pipe' \in [Streams -> Seq(Bytes)]
    BY <1>typ, <1>1
  <2> QED
    BY <1>1, <2>1, Zenon DEF OutInv, TypeOK
<1>3. PipeInv'
  BY <1>typ, <1>1 DEF OutInv, PipeInv
<1>4. CopierInv'
  BY <1>typ, <1>1 DEF OutInv, CopierInv
<1>5. EntryInv'
  BY <1>1 DEF OutInv, EntryInv
<1> QED
  BY <1>2, <1>3, <1>4, <1>5 DEF OutInv

\* An entry leaves the buffer for the log, and rest stays.
Leaves(s, line, end, rest) ==
    /\ copier[s] = "reading"
    /\ emitted' = [emitted EXCEPT ![s] = Append(emitted[s], line)]
    /\ buf' = [buf EXCEPT ![s] = rest]
    /\ buf[s] = (line \o end) \o rest
    /\ Len(rest) <= Len(buf[s]) /\ IsEntry(line) /\ EntryEnds(s, line, end)

\* What EmitLine, LongLine and LastLine take out of the buffer and log.
LEMMA EntryLeaves ==
    ASSUME OutInv, NEW s \in Streams, EmitLine(s) \/ LongLine(s) \/ LastLine(s)
    PROVE  /\ UNCHANGED <<rpc, frame, result, sent, pipe, isOpen>>
           /\ \/ copier' = copier
              \/ copier' = [copier EXCEPT ![s] = "ended"] /\ ~isOpen[s] /\ buf'[s] = << >>
           /\ \/ UNCHANGED <<buf, emitted>>
              \/ \E line \in Seq(Bytes), end \in {<< >>, <<NL>>}, rest \in Seq(Bytes) :
                    Leaves(s, line, end, rest)
<1>typ. /\ copier \in [Streams -> {"reading", "ended"}]
        /\ buf \in [Streams -> Seq(Bytes)] /\ buf[s] \in Seq(Bytes) /\ Len(buf[s]) \in Nat
        /\ Len(buf[s]) <= BufSize
  BY OutTypes DEF OutInv, CopierInv
<1>e. /\ << >> \in Seq(Bytes) /\ (buf[s] \o << >>) \o << >> = buf[s]
      /\ Len(<< >>) <= Len(buf[s])
  BY <1>typ
<1>1. CASE EmitLine(s)
  <2> DEFINE end == SelectInSeq(buf[s], LAMBDA b : b = NL)
             line == SubSeq(buf[s], 1, end - 1)
             rest == SubSeq(buf[s], end + 1, Len(buf[s]))
  <2>1. /\ NL \in ToSet(buf[s]) /\ copier[s] = "reading" /\ copier' = copier
        /\ UNCHANGED <<rpc, frame, result, sent, pipe, isOpen>>
        /\ emitted' = [emitted EXCEPT ![s] = Append(emitted[s], line)]
        /\ buf' = [buf EXCEPT ![s] = rest]
    BY <1>1, Zenon DEF EmitLine, Emit, HasLine, runVars
  <2>2. end \in 1 .. Len(buf[s]) /\ buf[s][end] = NL /\ \A i \in 1 .. end - 1 : buf[s][i] # NL
    BY <1>typ, <2>1, FirstEnd
  <2> HIDE DEF end
  <2>3. /\ line \in Seq(Bytes) /\ Len(line) = end - 1 /\ NL \notin ToSet(line)
        /\ rest \in Seq(Bytes) /\ Len(rest) < Len(buf[s])
        /\ (line \o <<NL>>) \o rest = buf[s]
    BY <1>typ, <2>2, LineSplit, Zenon
  <2> HIDE DEF line, rest
  <2>4. Len(rest) <= Len(buf[s]) /\ Len(line) <= BufSize /\ Len(line) < BufSize
    BY <1>typ, <2>2, <2>3, SizesAssumption
  <2>5. IsEntry(line) /\ EntryEnds(s, line, <<NL>>)
    BY <2>1, <2>3, <2>4 DEF IsEntry, EntryEnds
  <2>6. Leaves(s, line, <<NL>>, rest)
    BY <2>1, <2>3, <2>4, <2>5 DEF Leaves
  <2> QED
    BY <2>1, <2>3, <2>6
<1>2. CASE LongLine(s)
  <2>1. /\ NL \notin ToSet(buf[s]) /\ copier[s] = "reading" /\ copier' = copier
        /\ UNCHANGED <<rpc, frame, result, sent, pipe, isOpen>>
        /\ emitted' = [emitted EXCEPT ![s] = Append(emitted[s], buf[s])]
        /\ buf' = [buf EXCEPT ![s] = << >>] /\ Len(buf[s]) = BufSize
    BY <1>2 DEF LongLine, Emit, HasLine, runVars
  <2>2. IsEntry(buf[s]) /\ EntryEnds(s, buf[s], << >>)
    BY <1>typ, <2>1 DEF IsEntry, EntryEnds
  <2>3. Leaves(s, buf[s], << >>, << >>)
    BY <1>typ, <1>e, <2>1, <2>2 DEF Leaves
  <2> QED
    BY <1>typ, <1>e, <2>1, <2>3
<1>3. CASE LastLine(s)
  <2>1. /\ NL \notin ToSet(buf[s]) /\ copier[s] = "reading"
        /\ copier' = [copier EXCEPT ![s] = "ended"] /\ ~isOpen[s]
        /\ UNCHANGED <<rpc, frame, result, sent, pipe, isOpen>>
        /\ buf' = [buf EXCEPT ![s] = << >>]
        /\ \/ buf[s] = << >> /\ emitted' = emitted
           \/ /\ buf[s] # << >> /\ Len(buf[s]) < BufSize
              /\ emitted' = [emitted EXCEPT ![s] = Append(emitted[s], buf[s])]
    BY <1>3 DEF LastLine, Emit, HasLine, runVars
  <2>2. IsEntry(buf[s])
    BY <1>typ, <2>1 DEF IsEntry
  <2>3. buf'[s] = << >> /\ (buf[s] = << >> => buf' = buf)
    BY <1>typ, <2>1
  <2>4. buf[s] # << >> /\ Len(buf[s]) < BufSize => EntryEnds(s, buf[s], << >>)
    BY <1>typ, <2>1 DEF EntryEnds
  <2>5. buf[s] # << >> => Leaves(s, buf[s], << >>, << >>)
    BY <1>typ, <1>e, <2>1, <2>2, <2>4 DEF Leaves
  <2> QED
    BY <1>typ, <1>e, <2>1, <2>3, <2>5
<1> QED
  BY <1>1, <1>2, <1>3

\* An entry is appended to entries.
LEMMA EntriesAppended ==
    ASSUME NEW c \in Seq(Seq(Bytes)), NEW line \in Seq(Bytes), IsEntry(line),
           \A i \in DOMAIN c : IsEntry(c[i])
    PROVE  /\ Append(c, line) \in Seq(Seq(Bytes))
           /\ \A i \in DOMAIN Append(c, line) : IsEntry(Append(c, line)[i])
<1>1. /\ Append(c, line) \in Seq(Seq(Bytes))
      /\ \A i \in DOMAIN Append(c, line) :
            \/ i \in DOMAIN c /\ Append(c, line)[i] = c[i]
            \/ Append(c, line)[i] = line
  OBVIOUS
<1> QED
  BY <1>1

\* What an entry leaves behind: a shorter buffer and one more entry.
LEMMA EntryLogged ==
    ASSUME OutInv, NEW s \in Streams, NEW line \in Seq(Bytes), NEW rest \in Seq(Bytes),
           copier[s] = "reading", IsEntry(line), Len(rest) <= Len(buf[s]),
           emitted' = [emitted EXCEPT ![s] = Append(emitted[s], line)],
           buf' = [buf EXCEPT ![s] = rest]
    PROVE  /\ buf' \in [Streams -> Seq(Bytes)] /\ emitted' \in [Streams -> Seq(Seq(Bytes))]
           /\ \A t \in Streams : Len(buf'[t]) <= BufSize
           /\ \A t \in Streams : copier[t] = "ended" => buf'[t] = << >>
           /\ \A t \in Streams : \A i \in DOMAIN emitted'[t] : IsEntry(emitted'[t][i])
<1>typ. buf \in [Streams -> Seq(Bytes)] /\ emitted \in [Streams -> Seq(Seq(Bytes))]
  BY OutTypes
<1>1. /\ Append(emitted[s], line) \in Seq(Seq(Bytes))
      /\ \A i \in DOMAIN Append(emitted[s], line) : IsEntry(Append(emitted[s], line)[i])
  BY <1>typ, EntriesAppended DEF OutInv, EntryInv
<1>2. buf' \in [Streams -> Seq(Bytes)] /\ emitted' \in [Streams -> Seq(Seq(Bytes))]
  BY <1>typ, <1>1
<1>3. Len(rest) <= BufSize
  <2>1. Len(buf[s]) <= BufSize
    BY DEF OutInv, CopierInv
  <2>2. Len(rest) \in Nat /\ Len(buf[s]) \in Nat
    BY <1>typ
  <2> QED
    BY <2>1, <2>2, SizesAssumption
<1>4. /\ \A t \in Streams : Len(buf'[t]) <= BufSize
      /\ \A t \in Streams : copier[t] = "ended" => buf'[t] = << >>
  BY <1>typ, <1>3 DEF OutInv, CopierInv
<1>5. \A t \in Streams : \A i \in DOMAIN emitted'[t] : IsEntry(emitted'[t][i])
  BY <1>typ, <1>1 DEF OutInv, EntryInv
<1> QED
  BY <1>2, <1>4, <1>5

\* A copier logs an entry, or ends.
LEMMA EmitOutInv ==
    ASSUME OutInv, NEW s \in Streams, EmitLine(s) \/ LongLine(s) \/ LastLine(s)
    PROVE  OutInv'
<1>typ. /\ buf \in [Streams -> Seq(Bytes)] /\ copier \in [Streams -> {"reading", "ended"}]
        /\ emitted \in [Streams -> Seq(Seq(Bytes))] /\ isOpen \in [Streams -> BOOLEAN]
  BY OutTypes
<1>same. UNCHANGED <<rpc, frame, result, sent, pipe, isOpen>>
  BY EntryLeaves
<1>end. \/ copier' = copier
        \/ copier' = [copier EXCEPT ![s] = "ended"] /\ ~isOpen[s] /\ buf'[s] = << >>
  BY EntryLeaves
<1>buf. /\ buf' \in [Streams -> Seq(Bytes)] /\ emitted' \in [Streams -> Seq(Seq(Bytes))]
        /\ \A t \in Streams : Len(buf'[t]) <= BufSize
        /\ \A t \in Streams : copier[t] = "ended" => buf'[t] = << >>
        /\ \A t \in Streams : \A i \in DOMAIN emitted'[t] : IsEntry(emitted'[t][i])
  <2>1. CASE UNCHANGED <<buf, emitted>>
    BY <1>typ, <2>1 DEF OutInv, CopierInv, EntryInv
  <2>2. CASE ~ UNCHANGED <<buf, emitted>>
    <3>1. PICK line \in Seq(Bytes), rest \in Seq(Bytes) :
              /\ copier[s] = "reading" /\ IsEntry(line) /\ Len(rest) <= Len(buf[s])
              /\ emitted' = [emitted EXCEPT ![s] = Append(emitted[s], line)]
              /\ buf' = [buf EXCEPT ![s] = rest]
      <4>1. \E line \in Seq(Bytes), end \in {<< >>, <<NL>>}, rest \in Seq(Bytes) :
               Leaves(s, line, end, rest)
        BY <2>2, EntryLeaves, Zenon
      <4> QED
        BY <4>1, Zenon DEF Leaves
    <3> QED
      BY <3>1, EntryLogged
  <2> QED
    BY <2>1, <2>2
<1>1. TypeOK'
  <2>1. copier' \in [Streams -> {"reading", "ended"}]
    BY <1>typ, <1>end
  <2> QED
    BY <1>same, <1>buf, <2>1, Zenon DEF OutInv, TypeOK
<1>2. PipeInv'
  BY <1>same DEF OutInv, PipeInv
<1>3. CopierInv'
  BY <1>typ, <1>same, <1>end, <1>buf DEF OutInv, CopierInv
<1>4. EntryInv'
  BY <1>buf DEF EntryInv
<1> QED
  BY <1>1, <1>2, <1>3, <1>4 DEF OutInv

\* Every step preserves OutInv.
LEMMA NextOutInv == OutInv /\ [Next]_vars => OutInv'
<1> SUFFICES ASSUME OutInv, [Next]_vars PROVE OutInv'
  OBVIOUS
<1>1. CASE ReadOtherHeader \/ WriteReturns \/ ReadEOF \/ ReadFails
  BY <1>1, RunOutInv
<1>2. CASE ReadHeader \/ ReadChunk \/ ClosePipes
  BY <1>2, HeaderOutInv, ChunkOutInv, CloseOutInv
<1>3. ASSUME NEW s \in Streams, Copier(s) PROVE OutInv'
  BY <1>3, FillOutInv, EmitOutInv DEF Copier
<1>4. CASE Over \/ UNCHANGED vars
  <2>1. UNCHANGED <<rpc, frame, result, sent, pipe, isOpen, buf, copier, emitted>>
    BY <1>4 DEF Over, vars, runVars, copierVars
  <2>2. TypeOK'
    BY <2>1, Zenon DEF OutInv, TypeOK
  <2>3. PipeInv' /\ CopierInv' /\ EntryInv'
    BY <2>1 DEF OutInv, PipeInv, CopierInv, EntryInv
  <2> QED
    BY <2>2, <2>3 DEF OutInv
<1> QED
  BY <1>1, <1>2, <1>3, <1>4 DEF Next

-----------------------------------------------------------------------------
(* Every byte keeps its place. *)

\* Nothing of what is on its way, and nothing at either end, has changed.
LEMMA StillFlow ==
    ASSUME NEW s \in Streams, UNCHANGED <<sent, emitted, frame, pipe, buf>>
    PROVE  Flow(s)
BY DEF Flow, OnTheWay

\* Concatenating bytes: brackets make no difference.
LEMMA Brackets ==
    ASSUME NEW a \in Seq(Bytes), NEW b \in Seq(Bytes), NEW c \in Seq(Bytes)
    PROVE  (a \o b) \o c = a \o (b \o c)
BY ConcatAssociative

\* The same with four parts: a can be taken off the front.
FrontOf(a, b, c, d) == ((a \o b) \o c) \o d = a \o ((b \o c) \o d)

\* The first of four sequences of bytes comes off the others.
LEMMA FirstComesOff ==
    ASSUME NEW a \in Seq(Bytes), NEW b \in Seq(Bytes), NEW c \in Seq(Bytes),
           NEW d \in Seq(Bytes)
    PROVE  FrontOf(a, b, c, d)
<1>1. (a \o b) \o c = a \o (b \o c)
  BY Brackets
<1>2. b \o c \in Seq(Bytes)
  BY Joined
<1>3. \A x \in Seq(Bytes) : (a \o x) \o d = a \o (x \o d)
  BY Brackets
<1> QED
  BY <1>1, <1>2, <1>3 DEF FrontOf

\* Nor do empty sequences.
LEMMA NoBytes == << >> \in Seq(Bytes) /\ \A a \in Seq(Bytes) : a \o << >> = a
OBVIOUS

\* A header brings its frame's data in at the end of its stream.
LEMMA HeaderFlow == ASSUME OutInv, ReadHeader, NEW t \in Streams PROVE Flow(t)
<1>1. PICK s \in Streams, data \in Frames :
          frame' = [s |-> s, rest |-> data] /\ sent' = [sent EXCEPT ![s] = sent[s] \o data]
  BY DEF ReadHeader
<1>same. UNCHANGED <<pipe, buf, emitted>> /\ rpc = "header"
  BY DEF ReadHeader, copierVars
<1>typ. /\ data \in Seq(Bytes) /\ buf[t] \in Seq(Bytes) /\ pipe[t] \in Seq(Bytes)
        /\ frame.rest = << >> /\ sent \in [Streams -> Seq(Bytes)]
  BY <1>same, OutTypes, FrameData DEF OutInv, PipeInv
<1>2. OnTheWay(t) = buf[t] \o pipe[t]
  <2>1. OnTheWay(t) = buf[t] \o pipe[t] \o << >>
    BY <1>typ DEF OnTheWay
  <2> QED
    BY <1>typ, <2>1, Joined, NoBytes
<1>3. CASE t = s
  <2>1. sent'[t] = sent[t] \o data /\ emitted'[t] = emitted[t]
    BY <1>1, <1>3, <1>same, <1>typ
  <2>2. OnTheWay(t)' = (buf[t] \o pipe[t]) \o data
    BY <1>1, <1>3, <1>same DEF OnTheWay
  <2> QED
    BY <1>typ, <1>2, <2>1, <2>2 DEF Flow
<1>4. CASE t # s
  <2>1. sent'[t] = sent[t] /\ emitted'[t] = emitted[t]
    BY <1>1, <1>4, <1>same, <1>typ
  <2>2. OnTheWay(t)' = buf[t] \o pipe[t] \o << >>
    BY <1>1, <1>4, <1>same DEF OnTheWay
  <2>3. OnTheWay(t)' = OnTheWay(t)
    BY <1>typ, <1>2, <2>2, Joined, NoBytes
  <2> QED
    BY <2>1, <2>3 DEF Flow
<1> QED
  BY <1>3, <1>4

\* A chunk goes from the frame to the pipe.
LEMMA ChunkFlow == ASSUME OutInv, ReadChunk, NEW t \in Streams PROVE Flow(t)
<1> DEFINE p == SubSeq(frame.rest, 1, ToRead)
           q == Left
<1>1. /\ pipe[t] = << >> /\ UNCHANGED <<sent, buf, emitted>>
      /\ pipe' = [pipe EXCEPT ![frame.s] = p]
      /\ frame' = [s |-> frame.s, rest |-> q]
      /\ p \in Seq(Bytes) /\ q \in Seq(Bytes) /\ p \o q = frame.rest
  BY ChunkMoves
<1> HIDE DEF p, q
<1>typ. /\ frame.s \in Streams /\ pipe \in [Streams -> Seq(Bytes)]
        /\ buf[t] \in Seq(Bytes)
  BY OutTypes
<1>2. CASE t = frame.s
  <2>1. OnTheWay(t)' = (buf[t] \o p) \o q
    BY <1>1, <1>2, <1>typ DEF OnTheWay
  <2>2. OnTheWay(t) = (buf[t] \o << >>) \o (p \o q)
    BY <1>1, <1>2 DEF OnTheWay
  <2>3. OnTheWay(t)' = OnTheWay(t)
    <3>1. buf[t] \o << >> = buf[t] /\ (buf[t] \o p) \o q = buf[t] \o (p \o q)
      BY <1>1, <1>typ, Brackets, NoBytes, Zenon
    <3> QED
      BY <2>1, <2>2, <3>1
  <2> QED
    BY <1>1, <2>3 DEF Flow
<1>3. CASE t # frame.s
  <2>1. OnTheWay(t)' = OnTheWay(t)
    BY <1>1, <1>3, <1>typ DEF OnTheWay
  <2> QED
    BY <1>1, <2>1 DEF Flow
<1> QED
  BY <1>2, <1>3

\* A copier's read takes bytes from the pipe to its buffer.
LEMMA FillFlow ==
    ASSUME OutInv, NEW s \in Streams, Fill(s), NEW t \in Streams PROVE Flow(t)
<1>1. PICK p, q \in Seq(Bytes) :
              /\ pipe[s] = p \o q
              /\ buf' = [buf EXCEPT ![s] = buf[s] \o p] /\ pipe' = [pipe EXCEPT ![s] = q]
              /\ UNCHANGED <<frame, sent, emitted>>
  BY FillMoves
<1>typ. /\ buf \in [Streams -> Seq(Bytes)] /\ pipe \in [Streams -> Seq(Bytes)]
        /\ buf[s] \in Seq(Bytes)
  BY OutTypes
<1>2. CASE t = s
  <2>1. buf'[t] \o pipe'[t] = buf[t] \o pipe[t]
    <3>1. buf'[t] = buf[s] \o p /\ pipe'[t] = q
      BY <1>1, <1>2, <1>typ
    <3>2. (buf[s] \o p) \o q = buf[s] \o (p \o q)
      BY <1>typ, Brackets, Zenon
    <3> QED
      BY <1>1, <1>2, <3>1, <3>2
  <2>2. OnTheWay(t)' = OnTheWay(t)
    BY <1>1, <2>1 DEF OnTheWay
  <2> QED
    BY <1>1, <2>2 DEF Flow
<1>3. CASE t # s
  <2>1. OnTheWay(t)' = OnTheWay(t)
    BY <1>1, <1>3, <1>typ DEF OnTheWay
  <2> QED
    BY <1>1, <2>1 DEF Flow
<1> QED
  BY <1>2, <1>3

\* An entry leaves at the front of its stream.
LEMMA EmitFlow ==
    ASSUME OutInv, NEW s \in Streams, EmitLine(s) \/ LongLine(s) \/ LastLine(s),
           NEW t \in Streams
    PROVE  Flow(t)
<1>same. UNCHANGED <<frame, sent, pipe, isOpen>>
  BY EntryLeaves
<1>1. CASE UNCHANGED <<buf, emitted>>
  BY <1>same, <1>1, StillFlow
<1>2. CASE ~ UNCHANGED <<buf, emitted>>
  <2>1. PICK line \in Seq(Bytes), end \in {<< >>, <<NL>>}, rest \in Seq(Bytes) :
            /\ emitted' = [emitted EXCEPT ![s] = Append(emitted[s], line)]
            /\ buf' = [buf EXCEPT ![s] = rest]
            /\ buf[s] = (line \o end) \o rest
            /\ copier[s] = "reading" /\ IsEntry(line) /\ EntryEnds(s, line, end)
    <3>1. \E line \in Seq(Bytes), end \in {<< >>, <<NL>>}, rest \in Seq(Bytes) :
             Leaves(s, line, end, rest)
      BY <1>2, EntryLeaves, Zenon
    <3> QED
      BY <3>1, Zenon DEF Leaves
  <2> DEFINE far(u) == IF frame.s = u THEN frame.rest ELSE << >>
  <2>typ. /\ buf \in [Streams -> Seq(Bytes)] /\ emitted \in [Streams -> Seq(Seq(Bytes))]
          /\ pipe[s] \in Seq(Bytes) /\ far(s) \in Seq(Bytes) /\ line \o end \in Seq(Bytes)
    <3>1. /\ buf \in [Streams -> Seq(Bytes)] /\ emitted \in [Streams -> Seq(Seq(Bytes))]
          /\ pipe[s] \in Seq(Bytes) /\ far(s) \in Seq(Bytes)
      BY OutTypes
    <3>2. end \in Seq(Bytes)
      <4>1. << >> \in Seq(Bytes) /\ <<NL>> \in Seq(Bytes)
        BY BytesAssumption
      <4> QED
        BY <4>1, Zenon
    <3> QED
      BY <3>1, <3>2, Joined, Zenon
  <2>2. CASE t = s
    <3>1. OnTheWay(s) = ((line \o end) \o rest) \o pipe[s] \o far(s)
      BY <2>1 DEF OnTheWay
    <3>2. OnTheWay(s)' = rest \o pipe[s] \o far(s)
      BY <1>same, <2>1, <2>typ DEF OnTheWay
    <3>3. OnTheWay(s) = (line \o end) \o OnTheWay(s)'
      <4> DEFINE front == line \o end
                 queued == pipe[s]
                 left == far(s)
      <4>1. front \in Seq(Bytes) /\ queued \in Seq(Bytes) /\ left \in Seq(Bytes)
        BY <2>typ
      <4>2. OnTheWay(s) = ((front \o rest) \o queued) \o left
        BY <3>1
      <4>3. OnTheWay(s)' = (rest \o queued) \o left
        BY <3>2
      <4> HIDE DEF front, queued, left
      <4>4. FrontOf(front, rest, queued, left)
        BY <4>1, FirstComesOff, Zenon
      <4>5. OnTheWay(s) = front \o OnTheWay(s)'
        BY <4>2, <4>3, <4>4 DEF FrontOf
      <4> QED
        BY <4>5 DEF front
    <3>4. emitted'[s] = Append(emitted[s], line) /\ sent'[s] = sent[s]
      BY <1>same, <2>1, <2>typ
    <3> QED
      BY <2>1, <2>2, <3>3, <3>4 DEF Flow
  <2>3. CASE t # s
    <3>1. OnTheWay(t)' = OnTheWay(t) /\ emitted'[t] = emitted[t]
      BY <1>same, <2>1, <2>3, <2>typ DEF OnTheWay
    <3> QED
      BY <1>same, <3>1 DEF Flow
  <2> QED
    BY <2>2, <2>3
<1> QED
  BY <1>1, <1>2

\* Every step keeps every byte of both streams in its place.
LEMMA NextFlow == ASSUME OutInv, [Next]_vars, NEW t \in Streams PROVE Flow(t)
<1>1. CASE ReadOtherHeader \/ WriteReturns \/ ReadEOF \/ ReadFails \/ ClosePipes \/ Over
  <2>1. UNCHANGED <<sent, emitted, frame, pipe, buf>>
    BY <1>1 DEF ReadOtherHeader, WriteReturns, ReadEOF, ReadFails, ClosePipes, Over,
                copierVars, runVars, vars
  <2> QED
    BY <2>1, StillFlow
<1>2. CASE ReadHeader \/ ReadChunk
  BY <1>2, HeaderFlow, ChunkFlow
<1>3. ASSUME NEW s \in Streams, Copier(s) PROVE Flow(t)
  BY <1>3, FillFlow, EmitFlow DEF Copier
<1>4. CASE UNCHANGED vars
  BY <1>4, StillFlow DEF vars, runVars, copierVars
<1> QED
  BY <1>1, <1>2, <1>3, <1>4 DEF Next

-----------------------------------------------------------------------------
(* The log is what Cut makes of the bytes that are not on their way. *)

\* gone are the bytes of a stream that have left for the log: while the copier
\* reads they come to the entries of the log without a rest, and when it has
\* ended the rest has become an entry.
Logged(s, gone) ==
    /\ sent[s] = gone \o OnTheWay(s)
    /\ copier[s] = "reading" => Whole(gone, emitted[s])
    /\ copier[s] = "ended" => Cut(gone) = emitted[s]

LogInv == \A s \in Streams : \E gone \in Seq(Bytes) : Logged(s, gone)

\* What is on its way is bytes.
LEMMA OnTheWayType == ASSUME OutInv, NEW s \in Streams PROVE OnTheWay(s) \in Seq(Bytes)
<1> DEFINE far == IF frame.s = s THEN frame.rest ELSE << >>
<1>1. buf[s] \in Seq(Bytes) /\ pipe[s] \in Seq(Bytes) /\ far \in Seq(Bytes)
  BY OutTypes
<1> HIDE DEF far
<1>2. (buf[s] \o pipe[s]) \o far \in Seq(Bytes)
  BY <1>1, Joined
<1> QED
  BY <1>2 DEF OnTheWay, far

\* Nothing sent, nothing logged.
LEMMA InitLogInv == Init => LogInv
<1> SUFFICES ASSUME Init, NEW s \in Streams PROVE Logged(s, << >>) /\ << >> \in Seq(Bytes)
  BY DEF LogInv
<1>1. sent[s] = << >> /\ buf[s] = << >> /\ pipe[s] = << >> /\ frame.rest = << >>
      /\ emitted[s] = << >> /\ copier[s] = "reading"
  BY DEF Init
<1>2. << >> \in Seq(Bytes) /\ << >> \o << >> = << >>
  OBVIOUS
<1>3. OnTheWay(s) = << >>
  BY <1>1, <1>2 DEF OnTheWay
<1>4. Whole(<< >>, << >>)
  BY CutMore DEF Whole, NothingYet
<1> QED
  BY <1>1, <1>2, <1>3, <1>4 DEF Logged

\* A copier that has ended stays ended.
LEMMA CopierEnds ==
    ASSUME OutInv, [Next]_vars, NEW t \in Streams
    PROVE  copier'[t] = copier[t] \/ copier'[t] = "ended"
<1>1. CASE ReadHeader \/ ReadOtherHeader \/ ReadChunk \/ WriteReturns \/ ReadEOF \/ ReadFails
           \/ ClosePipes \/ Over
  <2>1. copier' = copier
    BY <1>1 DEF ReadHeader, ReadOtherHeader, ReadChunk, WriteReturns, ReadEOF, ReadFails,
                ClosePipes, Over, copierVars, vars
  <2> QED
    BY <2>1
<1>2. ASSUME NEW s \in Streams, Copier(s) PROVE copier'[t] = copier[t] \/ copier'[t] = "ended"
  <2>1. copier' = copier \/ copier' = [copier EXCEPT ![s] = "ended"]
    <3>1. CASE Fill(s)
      BY <3>1 DEF Fill
    <3>2. CASE EmitLine(s) \/ LongLine(s) \/ LastLine(s)
      BY <3>2, EntryLeaves
    <3> QED
      BY <1>2, <3>1, <3>2 DEF Copier
  <2> QED
    BY <2>1, OutTypes
<1>3. CASE UNCHANGED vars
  BY <1>3 DEF vars, copierVars
<1> QED
  BY <1>1, <1>2, <1>3 DEF Next

\* The copier goes on or ends without a new entry.
LEMMA NoEntry ==
    ASSUME OutInv, [Next]_vars, NEW s \in Streams, NEW gone \in Seq(Bytes), Logged(s, gone),
           emitted'[s] = emitted[s]
    PROVE  /\ copier'[s] = "reading" => Whole(gone, emitted'[s])
           /\ copier'[s] = "ended" => Cut(gone) = emitted'[s]
<1>1. copier'[s] = copier[s] \/ copier'[s] = "ended"
  BY CopierEnds
<1>2. copier[s] \in {"reading", "ended"}
  BY OutTypes
<1>3. copier[s] = "reading" => Cut(gone) = emitted[s]
  BY CutEnd DEF Logged
<1> QED
  BY <1>1, <1>2, <1>3 DEF Logged

\* An entry more: the bytes that are gone come to it too.
LEMMA OneEntry ==
    ASSUME NEW gone \in Seq(Bytes), NEW entries, Whole(gone, entries),
           NEW s \in Streams, NEW line \in Seq(Bytes), NEW end \in {<< >>, <<NL>>},
           IsEntry(line), EntryEnds(s, line, end)
    PROVE  /\ copier'[s] = "reading" => Whole(gone \o (line \o end), Append(entries, line))
           /\ copier'[s] = "ended" => Cut(gone \o (line \o end)) = Append(entries, line)
<1>1. NL \notin ToSet(line)
  BY DEF IsEntry
<1>2. line \o << >> = line
  OBVIOUS
<1>3. CASE end = <<NL>> /\ Len(line) < BufSize /\ copier'[s] = "reading"
  BY <1>1, <1>3, CutLine
<1>4. CASE end = << >> /\ Len(line) = BufSize /\ copier'[s] = "reading"
  BY <1>1, <1>2, <1>4, CutFull
<1>5. CASE /\ end = << >> /\ Len(line) < BufSize /\ line # << >>
           /\ ~isOpen[s] /\ copier'[s] = "ended"
  BY <1>1, <1>2, <1>5, CutEnd
<1> QED
  BY <1>3, <1>4, <1>5 DEF EntryEnds

\* Every step keeps the log what Cut makes of the bytes that are gone.
LEMMA NextLogInv == OutInv /\ OutInv' /\ LogInv /\ [Next]_vars => LogInv'
<1> SUFFICES ASSUME OutInv, OutInv', LogInv, [Next]_vars, NEW s \in Streams
             PROVE  \E gone \in Seq(Bytes) : Logged(s, gone)'
  BY DEF LogInv
<1>1. PICK gone \in Seq(Bytes) : Logged(s, gone)
  BY DEF LogInv
<1>2. sent[s] = gone \o OnTheWay(s)
  BY <1>1 DEF Logged
<1>3. Flow(s)
  BY NextFlow
<1>typ. OnTheWay(s) \in Seq(Bytes) /\ OnTheWay(s)' \in Seq(Bytes)
  <2>1. OutInv => OnTheWay(s) \in Seq(Bytes)
    BY OnTheWayType
  <2>2. OutInv' => OnTheWay(s)' \in Seq(Bytes)
    <3> SUFFICES ASSUME OutInv' PROVE OnTheWay(s)' \in Seq(Bytes)
      OBVIOUS
    <3> DEFINE far == IF frame'.s = s THEN frame'.rest ELSE << >>
    <3>1. buf'[s] \in Seq(Bytes) /\ pipe'[s] \in Seq(Bytes) /\ far \in Seq(Bytes)
      BY DEF OutInv, TypeOK
    <3> HIDE DEF far
    <3>2. (buf'[s] \o pipe'[s]) \o far \in Seq(Bytes)
      BY <3>1, Joined
    <3> QED
      BY <3>2 DEF OnTheWay, far
  <2> QED
    BY <2>1, <2>2
<1>4. CASE sent'[s] = sent[s] /\ emitted'[s] = emitted[s] /\ OnTheWay(s)' = OnTheWay(s)
  <2>1. sent'[s] = gone \o OnTheWay(s)'
    BY <1>2, <1>4
  <2>2. /\ copier'[s] = "reading" => Whole(gone, emitted'[s])
        /\ copier'[s] = "ended" => Cut(gone) = emitted'[s]
    BY <1>1, <1>4, NoEntry
  <2> QED
    BY <2>1, <2>2 DEF Logged
<1>5. CASE /\ emitted'[s] = emitted[s]
           /\ \E data \in Seq(Bytes) : /\ sent'[s] = sent[s] \o data
                                       /\ OnTheWay(s)' = OnTheWay(s) \o data
  <2>1. PICK data \in Seq(Bytes) : /\ sent'[s] = sent[s] \o data
                                   /\ OnTheWay(s)' = OnTheWay(s) \o data
    BY <1>5
  <2>2. sent'[s] = gone \o OnTheWay(s)'
    <3>1. (gone \o OnTheWay(s)) \o data = gone \o (OnTheWay(s) \o data)
      BY <1>typ, Brackets
    <3> QED
      BY <1>2, <2>1, <3>1
  <2>3. /\ copier'[s] = "reading" => Whole(gone, emitted'[s])
        /\ copier'[s] = "ended" => Cut(gone) = emitted'[s]
    BY <1>1, <1>5, NoEntry
  <2> QED
    BY <2>2, <2>3 DEF Logged
<1>6. CASE /\ sent'[s] = sent[s]
           /\ \E line \in Seq(Bytes), end \in {<< >>, <<NL>>} :
                 /\ emitted'[s] = Append(emitted[s], line)
                 /\ OnTheWay(s) = (line \o end) \o OnTheWay(s)'
                 /\ copier[s] = "reading" /\ IsEntry(line) /\ EntryEnds(s, line, end)
  <2>1. PICK line \in Seq(Bytes), end \in {<< >>, <<NL>>} :
                 /\ emitted'[s] = Append(emitted[s], line)
                 /\ OnTheWay(s) = (line \o end) \o OnTheWay(s)'
                 /\ copier[s] = "reading" /\ IsEntry(line) /\ EntryEnds(s, line, end)
    BY <1>6
  <2> DEFINE left == line \o end
  <2>2. left \in Seq(Bytes)
    <3>1. end \in Seq(Bytes)
      <4>1. << >> \in Seq(Bytes) /\ <<NL>> \in Seq(Bytes)
        BY BytesAssumption
      <4> QED
        BY <4>1, Zenon
    <3> QED
      BY <3>1, Joined
  <2>3. Whole(gone, emitted[s])
    BY <1>1, <2>1 DEF Logged
  <2>4. /\ copier'[s] = "reading" => Whole(gone \o left, emitted'[s])
        /\ copier'[s] = "ended" => Cut(gone \o left) = emitted'[s]
    BY <2>1, <2>3, OneEntry
  <2>5. OnTheWay(s) = left \o OnTheWay(s)'
    BY <2>1
  <2> HIDE DEF left
  <2>6. sent'[s] = (gone \o left) \o OnTheWay(s)' /\ gone \o left \in Seq(Bytes)
    <3>1. gone \o (left \o OnTheWay(s)') = (gone \o left) \o OnTheWay(s)'
      BY <1>typ, <2>2, Brackets
    <3>2. gone \o left \in Seq(Bytes)
      BY <2>2, Joined
    <3> QED
      BY <1>2, <1>6, <2>5, <3>1, <3>2
  <2>7. Logged(s, gone \o left)'
    BY <2>4, <2>6 DEF Logged
  <2> QED
    BY <2>6, <2>7
<1> QED
  BY <1>3, <1>4, <1>5, <1>6 DEF Flow

\* After Run has returned without an error only a buffer is on its way.
LEMMA OnlyBuffered ==
    ASSUME OutInv, result = "ok", NEW s \in Streams
    PROVE  OnTheWay(s) = buf[s] /\ Len(buf[s]) <= BufSize /\ (copier[s] = "ended" => buf[s] = << >>)
<1>1. rpc # "write"
  BY DEF OutInv, PipeInv
<1>2. pipe[s] = << >> /\ frame.rest = << >> /\ buf[s] \in Seq(Bytes)
  BY <1>1, OutTypes DEF OutInv, PipeInv
<1>3. (buf[s] \o << >>) \o << >> = buf[s]
  BY <1>2
<1>4. OnTheWay(s) = buf[s]
  BY <1>2, <1>3 DEF OnTheWay
<1> QED
  BY <1>4 DEF OutInv, CopierInv

\* Some entries and those that come after them.
LEMMA MoreEntries ==
    ASSUME NEW a \in Seq(Seq(Bytes)), NEW b \in Seq(Seq(Bytes))
    PROVE  IsPrefix(a, a \o b) /\ SubSeq(a \o b, Len(a) + 1, Len(a \o b)) = b
<1>1. /\ Len(a) \in Nat /\ Len(b) \in Nat /\ Len(a \o b) = Len(a) + Len(b)
      /\ a \o b \in Seq(Seq(Bytes))
  OBVIOUS
<1>2. SubSeq(a, 1, Len(a)) = a /\ SubSeq(a \o b, 1, Len(a)) = a
  OBVIOUS
<1>3. SubSeq(a \o b, Len(a) + 1, Len(a \o b)) = b
  OBVIOUS
<1> QED
  BY <1>1, <1>2, <1>3 DEF IsPrefix

\* The log so far begins what the stream comes to, and what it lacks is no
\* larger than what is on its way.
LEMMA LogBegins ==
    ASSUME OutInv, LogInv, NEW s \in Streams, copier[s] = "reading"
    PROVE  /\ IsPrefix(emitted[s], Cut(sent[s])) /\ Size(Missing(s)) <= Len(OnTheWay(s))
           /\ Size(Missing(s)) \in Nat
<1>1. PICK gone \in Seq(Bytes) : Logged(s, gone)
  BY DEF LogInv
<1>2. sent[s] = gone \o OnTheWay(s) /\ Whole(gone, emitted[s])
  BY <1>1 DEF Logged
<1>3. OnTheWay(s) \in Seq(Bytes) /\ emitted[s] \in Seq(Seq(Bytes))
  BY OnTheWayType, OutTypes
<1>4. PICK more \in Seq(Seq(Bytes)) :
          Cut(gone \o OnTheWay(s)) = emitted[s] \o more /\ Size(more) <= Len(OnTheWay(s))
  BY <1>2, <1>3, CutAfter
<1>5. Cut(sent[s]) = emitted[s] \o more
  BY <1>2, <1>4
<1>6. IsPrefix(emitted[s], emitted[s] \o more)
      /\ SubSeq(emitted[s] \o more, Len(emitted[s]) + 1, Len(emitted[s] \o more)) = more
  BY <1>3, MoreEntries
<1>7. Size(more) \in Nat
  BY CutSizeTypes
<1> QED
  BY <1>4, <1>5, <1>6, <1>7 DEF Missing

\* The log of a copier that has ended is what a whole stream comes to.
LEMMA LogEnds ==
    ASSUME OutInv, LogInv, result = "ok", NEW s \in Streams, copier[s] = "ended"
    PROVE  emitted[s] = Cut(sent[s]) /\ Size(Missing(s)) = 0
<1>1. PICK gone \in Seq(Bytes) : Logged(s, gone)
  BY DEF LogInv
<1>2. sent[s] = gone \o OnTheWay(s) /\ Cut(gone) = emitted[s]
  BY <1>1 DEF Logged
<1>3. OnTheWay(s) = << >>
  BY OnlyBuffered
<1>4. sent[s] = gone
  BY <1>2, <1>3
<1>5. emitted[s] \in Seq(Seq(Bytes)) /\ << >> \in Seq(Seq(Bytes)) /\ emitted[s] \o << >> = emitted[s]
  BY OutTypes
<1>6. SubSeq(emitted[s] \o << >>, Len(emitted[s]) + 1, Len(emitted[s] \o << >>)) = << >>
  BY <1>5, MoreEntries
<1>7. Missing(s) = << >>
  BY <1>2, <1>4, <1>5, <1>6 DEF Missing
<1> QED
  BY <1>2, <1>4, <1>7, SizeMore

-----------------------------------------------------------------------------
(* The theorems. *)

\* The invariant of a step's output: types, pipes, copiers and entries.
THEOREM Invariance == Spec => []OutInv
<1>1. Init => OutInv
  BY InitOutInv
<1>2. OutInv /\ [Next]_vars => OutInv'
  BY NextOutInv
<1> QED
  BY <1>1, <1>2, PTL DEF Spec

\* TypeOK always holds.
THEOREM TypeCorrect == Spec => []TypeOK
<1>1. OutInv => TypeOK
  BY DEF OutInv
<1> QED
  BY <1>1, Invariance, PTL

(***************************************************************************)
(* Run's result is not ahead of the output: once it has returned without   *)
(* an error no byte is left in a frame or a pipe, and what is not logged   *)
(* yet fits the copiers' buffers.                                          *)
(***************************************************************************)
THEOREM RunHandsOver == Spec => []HandedOver
<1>1. OutInv => HandedOver
  <2> SUFFICES ASSUME OutInv, result = "ok" PROVE HandedOver
    BY DEF HandedOver
  <2>1. rpc # "write"
    BY DEF OutInv, PipeInv
  <2> QED
    BY <2>1 DEF OutInv, PipeInv, CopierInv, HandedOver
<1> QED
  BY <1>1, Invariance, PTL

\* No copier ends before the pipes are closed, or with a byte it has not logged.
THEOREM CopiersEndEmpty == Spec => []EndsEmpty
<1>1. OutInv => EndsEmpty
  BY DEF OutInv, PipeInv, CopierInv, EndsEmpty
<1> QED
  BY <1>1, Invariance, PTL

\* Every log entry is part of one line and no longer than a copier's buffer.
THEOREM EntriesAreLines == Spec => []EntryInv
<1>1. OutInv => EntryInv
  BY DEF OutInv
<1> QED
  BY <1>1, Invariance, PTL

(***************************************************************************)
(* Whatever the sizes of docker's frames, Run's reads and the copiers'     *)
(* buffers, no byte of a stream is dropped, repeated or overtaken on its   *)
(* way into the log, and a line is broken only where a buffer is full or   *)
(* the stream ends.                                                        *)
(***************************************************************************)
THEOREM KeepsBytesInOrder == Spec => BytesInOrder
<1>1. OutInv /\ [Next]_vars => [\A s \in Streams : Flow(s)]_vars
  BY NextFlow
<1> QED
  BY <1>1, Invariance, PTL DEF Spec, BytesInOrder

\* The log of a stream is what Cut makes of the bytes that have left for it.
THEOREM LogInvariance == Spec => []LogInv
<1>1. Init => LogInv
  BY InitLogInv
<1>2. OutInv /\ OutInv' /\ LogInv /\ [Next]_vars => LogInv'
  BY NextLogInv
<1> QED
  BY <1>1, <1>2, Invariance, PTL DEF Spec

(***************************************************************************)
(* The log has the lines the container wrote, in the order of their        *)
(* stream, wherever docker's frames, Run's reads and the copier's buffer   *)
(* cut them, and all of them in the end if Run returned without an error,  *)
(* for any sizes of frames, reads and buffers and any amount of output.    *)
(***************************************************************************)
THEOREM LogIsFaithful == Spec => []LinesFaithful
<1>1. OutInv /\ LogInv => LinesFaithful
  BY LogBegins, LogEnds DEF LinesFaithful
<1> QED
  BY <1>1, Invariance, LogInvariance, PTL

(***************************************************************************)
(* When Run returns without an error no more than one buffer of a stream   *)
(* is still to be logged, whatever the container wrote.                    *)
(***************************************************************************)
THEOREM LateOutputIsBounded == Spec => []LateOutputBounded
<1>1. OutInv /\ LogInv => LateOutputBounded
  <2> SUFFICES ASSUME OutInv, LogInv, result = "ok", NEW s \in Streams
               PROVE  Size(Missing(s)) <= BufSize
    BY DEF LateOutputBounded
  <2>1. copier[s] \in {"reading", "ended"} /\ buf[s] \in Seq(Bytes)
    BY OutTypes
  <2>2. CASE copier[s] = "reading"
    <3>1. OnTheWay(s) = buf[s] /\ Len(buf[s]) <= BufSize
      BY OnlyBuffered
    <3>2. Size(Missing(s)) <= Len(buf[s])
      BY <2>2, <3>1, LogBegins
    <3>3. Size(Missing(s)) \in Nat
      BY <2>2, LogBegins
    <3> QED
      BY <2>1, <3>1, <3>2, <3>3, SizesAssumption
  <2>3. CASE copier[s] = "ended"
    <3>1. Size(Missing(s)) = 0
      BY <2>3, LogEnds
    <3> QED
      BY <3>1, SizesAssumption
  <2> QED
    BY <2>1, <2>2, <2>3
<1> QED
  BY <1>1, Invariance, LogInvariance, PTL

=============================================================================
