--------------------------- MODULE LogStreamProofs ---------------------------
(***************************************************************************)
(* The log panel shows what the server wrote, proved for logs of any       *)
(* length and every way the network can cut the bytes.                     *)
(***************************************************************************)
EXTENDS LogStream, WellFoundedInduction, TLAPS

-----------------------------------------------------------------------------
(* Induction and recursion, over sets and functions                        *)

\* A set of numbers with 0 that is closed under successor has them all.
LEMMA NatInSet ==
  ASSUME NEW S, 0 \in S, \A n \in Nat : n \in S => n + 1 \in S
  PROVE  \A n \in Nat : n \in S
<1>. DEFINE R == {ss \in Nat \X Nat : ss[1] < ss[2]}
            T == {n \in Nat : n \notin S}
<1>1. IsWellFoundedOn(R, Nat)
  BY NatLessThanWellFounded, Zenon DEF OpToRel
<1>2. \A x, y \in Nat : y < x => <<y, x>> \in R
  OBVIOUS
<1>. HIDE DEF R
<1>. SUFFICES ASSUME T # {} PROVE FALSE
  OBVIOUS
<1>3. PICK x \in T : \A y \in T : ~(<<y, x>> \in R)
  <2>1. T \subseteq Nat
    OBVIOUS
  <2>. HIDE DEF T
  <2>. QED
    BY <1>1, <2>1, WFMin, Zenon
<1>4. x \in Nat /\ x # 0 /\ x - 1 \in Nat /\ x - 1 < x
  OBVIOUS
<1>5. x - 1 \notin T
  BY <1>2, <1>3, <1>4
<1>. QED
  BY <1>4, <1>5

\* A set of sequences with the empty one that is closed under Append has them all.
LEMMA SeqInSet ==
  ASSUME NEW A, NEW S, <<>> \in S,
         \A s \in Seq(A) : \A b \in A : s \in S => Append(s, b) \in S
  PROVE  \A s \in Seq(A) : s \in S
<1>. SUFFICES ASSUME NEW s \in Seq(A) PROVE s \in S
  OBVIOUS
<1>. DEFINE P == {k \in Nat : k <= Len(s) => SubSeq(s, 1, k) \in S}
<1>1. 0 \in P
  <2>1. SubSeq(s, 1, 0) = <<>>
    OBVIOUS
  <2>. QED
    BY <2>1
<1>2. ASSUME NEW k \in Nat, k \in P PROVE k + 1 \in P
  <2>. SUFFICES ASSUME k + 1 <= Len(s) PROVE SubSeq(s, 1, k + 1) \in S
    OBVIOUS
  <2>1. SubSeq(s, 1, k) \in Seq(A) /\ s[k + 1] \in A /\ SubSeq(s, 1, k) \in S
    BY <1>2
  <2>2. SubSeq(s, 1, k + 1) = Append(SubSeq(s, 1, k), s[k + 1])
    OBVIOUS
  <2>. QED
    BY <2>1, <2>2
<1>3. Len(s) \in P
  <2>. HIDE DEF P
  <2>. QED
    BY <1>1, <1>2, NatInSet
<1>4. SubSeq(s, 1, Len(s)) = s /\ Len(s) \in Nat /\ Len(s) <= Len(s)
  OBVIOUS
<1>5. SubSeq(s, 1, Len(s)) \in S
  BY <1>3, <1>4
<1>. QED
  BY <1>4, <1>5

\* f starts with a and goes on by the table g.
Follows(T, n, a, g, f) ==
  f \in [0..n -> T] /\ f[0] = a /\ \A k \in 1..n : f[k] = g[k][f[k - 1]]

\* There is a function that starts with a and goes on by the table g.
LEMMA RecursionExists ==
  ASSUME NEW T, NEW n \in Nat, NEW a \in T, NEW g \in [1..n -> [T -> T]]
  PROVE  \E f : Follows(T, n, a, g, f)
<1>. DEFINE Good(m) == \E f \in [0..m -> T] : f[0] = a /\ \A k \in 1..m : f[k] = g[k][f[k - 1]]
            P == {m \in Nat : m <= n => Good(m)}
<1>1. 0 \in P
  <2>. DEFINE h == [k \in 0..0 |-> a]
  <2>1. h \in [0..0 -> T] /\ h[0] = a /\ \A k \in 1..0 : h[k] = g[k][h[k - 1]]
    OBVIOUS
  <2>. QED
    BY <2>1
<1>2. ASSUME NEW m \in Nat, m \in P PROVE m + 1 \in P
  <2>. SUFFICES ASSUME m + 1 <= n PROVE Good(m + 1)
    OBVIOUS
  <2>1. PICK f \in [0..m -> T] : f[0] = a /\ \A k \in 1..m : f[k] = g[k][f[k - 1]]
    BY <1>2
  <2>. DEFINE h == [k \in 0..(m + 1) |-> IF k = m + 1 THEN g[m + 1][f[m]] ELSE f[k]]
  <2>2. g[m + 1][f[m]] \in T
    BY <2>1
  <2>3. h \in [0..(m + 1) -> T]
    BY <2>1, <2>2
  <2>4. h[0] = a /\ h[m + 1] = g[m + 1][f[m]] /\ \A k \in 0..m : h[k] = f[k]
    BY <2>1
  <2>5. ASSUME NEW k \in 1..(m + 1) PROVE h[k] = g[k][h[k - 1]]
    <3>1. k - 1 \in 0..m /\ h[k - 1] = f[k - 1]
      BY <2>4
    <3>2. CASE k = m + 1
      BY <2>4, <3>1, <3>2
    <3>3. CASE k \in 1..m
      BY <2>1, <2>4, <3>1, <3>3
    <3>. QED
      BY <3>2, <3>3
  <2>. QED
    BY <2>3, <2>4, <2>5
<1>3. n \in P
  <2>. HIDE DEF P
  <2>. QED
    BY <1>1, <1>2, NatInSet
<1>. QED
  BY <1>3 DEF Follows

\* f and h have the same first value, and where they have the same value they have
\* the same next one.
GoAlike(n, f, h) == f[0] = h[0] /\ \A k \in 1..n : f[k - 1] = h[k - 1] => f[k] = h[k]

\* Two functions that start alike and go on alike are alike.
LEMMA RecursionAgrees ==
  ASSUME NEW n \in Nat, NEW f, NEW h, GoAlike(n, f, h)
  PROVE  \A k \in 0..n : f[k] = h[k]
<1>. DEFINE P == {k \in Nat : k <= n => f[k] = h[k]}
<1>1. 0 \in P
  BY DEF GoAlike
<1>2. ASSUME NEW k \in Nat, k \in P PROVE k + 1 \in P
  BY <1>2 DEF GoAlike
<1>3. \A k \in Nat : k \in P
  <2>. HIDE DEF P
  <2>. QED
    BY <1>1, <1>2, NatInSet
<1>. QED
  BY <1>3

\* A step takes a state in T and an element of A to a state: as a function, so that it
\* can be a parameter of a lemma.
Steps(T, A) == [T -> [A -> T]]

\* f runs through the n elements of s: it starts with a and takes one step of
\* st for each.
Runs(T, st, a, s, n, f) ==
  /\ f \in [0..n -> T]
  /\ f[0] = a
  /\ \A k \in 1..n : f[k] = st[f[k - 1]][s[k]]

\* Where the run through all of s ends.
Fold(T, st, a, s) == (CHOOSE f : Runs(T, st, a, s, Len(s), f))[Len(s)]

\* There is such a run.
LEMMA RunExists ==
  ASSUME NEW T, NEW A, NEW a \in T, NEW st \in Steps(T, A), NEW n \in Nat, NEW s,
         \A k \in 1..n : s[k] \in A
  PROVE  \E f : Runs(T, st, a, s, n, f)
<1>. DEFINE g == [k \in 1..n |-> [v \in T |-> st[v][s[k]]]]
<1>3. \A k \in 1..n : \A v \in T : st[v][s[k]] \in T
  BY DEF Steps
<1>4. g \in [1..n -> [T -> T]]
  BY <1>3
<1>5. \A k \in 1..n : \A v \in T : g[k][v] = st[v][s[k]]
  OBVIOUS
<1>. HIDE DEF g
<1>6. PICK f : Follows(T, n, a, g, f)
  BY <1>4, RecursionExists, Zenon
<1>7. ASSUME NEW k \in 1..n PROVE f[k] = st[f[k - 1]][s[k]]
  <2>1. k - 1 \in 0..n
    OBVIOUS
  <2>2. f[k - 1] \in T
    BY <1>6, <2>1 DEF Follows
  <2>. QED
    BY <1>5, <1>6, <2>2 DEF Follows
<1>. QED
  BY <1>6, <1>7 DEF Runs, Follows

\* f takes the steps of a run as long as it stays in T.
GoesOn(T, st, a, s, n, f) ==
  f[0] = a /\ \A k \in 1..n : f[k - 1] \in T => f[k] = st[f[k - 1]][s[k]]

\* A function that starts as a run does and goes on like it is like it.
LEMMA RunAgrees ==
  ASSUME NEW T, NEW a, NEW st, NEW n \in Nat, NEW s, NEW h, Runs(T, st, a, s, n, h), NEW f,
         GoesOn(T, st, a, s, n, f)
  PROVE  \A k \in 0..n : f[k] = h[k]
<1>3. f[0] = h[0]
  BY DEF Runs, GoesOn
<1>4. ASSUME NEW k \in 1..n, f[k - 1] = h[k - 1] PROVE f[k] = h[k]
  <2>1. k - 1 \in 0..n
    OBVIOUS
  <2>2. h[k - 1] \in T
    BY <2>1 DEF Runs
  <2>3. h[k] = st[h[k - 1]][s[k]]
    BY DEF Runs
  <2>4. f[k] = st[f[k - 1]][s[k]]
    BY <1>4, <2>2 DEF GoesOn
  <2>. QED
    BY <1>4, <2>3, <2>4
<1>5. GoAlike(n, f, h)
  BY <1>3, <1>4 DEF GoAlike
<1>. QED
  BY <1>5, RecursionAgrees

\* The fold is where a function ends that starts with a and goes on as st does.
LEMMA FoldIs ==
  ASSUME NEW T, NEW A, NEW a \in T, NEW st \in Steps(T, A), NEW s \in Seq(A), NEW f,
         GoesOn(T, st, a, s, Len(s), f)
  PROVE  f[Len(s)] = Fold(T, st, a, s)
<1>. DEFINE n == Len(s)
            h == CHOOSE h : Runs(T, st, a, s, n, h)
<1>1. n \in Nat /\ \A k \in 1..n : s[k] \in A
  OBVIOUS
<1>2. Fold(T, st, a, s) = h[n]
  BY DEF Fold
<1>3. GoesOn(T, st, a, s, n, f)
  OBVIOUS
<1>. HIDE DEF n
<1>4. \E g : Runs(T, st, a, s, n, g)
  BY <1>1, RunExists, Zenon
<1>5. Runs(T, st, a, s, n, h)
  BY <1>4, Zenon
<1>. HIDE DEF h
<1>6. \A k \in 0..n : f[k] = h[k]
  BY <1>1, <1>3, <1>5, RunAgrees, SMT
<1>7. n \in 0..n
  BY <1>1
<1>8. f[n] = Fold(T, st, a, s)
  BY <1>2, <1>6, <1>7
<1>. QED
  BY <1>8 DEF n

\* The fold of nothing, and of one more element.
LEMMA FoldLaws ==
  ASSUME NEW T, NEW A, NEW a \in T, NEW st \in Steps(T, A)
  PROVE  /\ Fold(T, st, a, <<>>) = a
         /\ \A s \in Seq(A) : Fold(T, st, a, s) \in T
         /\ \A s \in Seq(A) : \A b \in A : Fold(T, st, a, Append(s, b)) = st[Fold(T, st, a, s)][b]
<1>0. ASSUME NEW s \in Seq(A)
      PROVE  \E f : Runs(T, st, a, s, Len(s), f) /\ f[Len(s)] = Fold(T, st, a, s)
  <2>1. Len(s) \in Nat /\ \A k \in 1..Len(s) : s[k] \in A
    OBVIOUS
  <2>2. PICK f : Runs(T, st, a, s, Len(s), f)
    BY <2>1, RunExists, Zenon
  <2>3. GoesOn(T, st, a, s, Len(s), f)
    BY <2>2, Zenon DEF Runs, GoesOn
  <2>4. f[Len(s)] = Fold(T, st, a, s)
    BY <2>3, FoldIs, SMT
  <2>. QED
    BY <2>2, <2>4
<1>1. Fold(T, st, a, <<>>) = a
  <2>1. <<>> \in Seq(A) /\ Len(<<>>) = 0
    OBVIOUS
  <2>2. PICK f : Runs(T, st, a, <<>>, Len(<<>>), f) /\ f[Len(<<>>)] = Fold(T, st, a, <<>>)
    BY <1>0, <2>1, Zenon
  <2>3. f[0] = a
    BY <2>2, Zenon DEF Runs
  <2>. QED
    BY <2>1, <2>2, <2>3
<1>2. ASSUME NEW s \in Seq(A) PROVE Fold(T, st, a, s) \in T
  <2>1. PICK f : Runs(T, st, a, s, Len(s), f) /\ f[Len(s)] = Fold(T, st, a, s)
    BY <1>0
  <2>2. Len(s) \in Nat
    OBVIOUS
  <2>3. Len(s) \in 0..Len(s)
    BY <2>2
  <2>4. f[Len(s)] \in T
    BY <2>1, <2>3, Zenon DEF Runs
  <2>. QED
    BY <2>1, <2>4
<1>3. ASSUME NEW s \in Seq(A), NEW b \in A PROVE Fold(T, st, a, Append(s, b)) = st[Fold(T, st, a, s)][b]
  <2>. DEFINE u == Append(s, b)
              n == Len(s)
  <2>1. u \in Seq(A) /\ Len(u) = n + 1 /\ u[n + 1] = b /\ n \in Nat
    OBVIOUS
  <2>2. \A k \in 1..n : u[k] = s[k]
    OBVIOUS
  <2>. HIDE DEF u
  <2>3. PICK f : Runs(T, st, a, u, n + 1, f) /\ f[n + 1] = Fold(T, st, a, u)
    BY <1>0, <2>1
  <2>. HIDE DEF n
  <2>4. f[0] = a /\ \A k \in 1..(n + 1) : f[k] = st[f[k - 1]][u[k]]
    BY <2>3, Zenon DEF Runs
  <2>5. ASSUME NEW k \in 1..n PROVE f[k] = st[f[k - 1]][s[k]]
    <3>1. k \in 1..(n + 1)
      BY <2>1
    <3>. QED
      BY <2>2, <2>4, <3>1
  <2>6. GoesOn(T, st, a, s, Len(s), f)
    BY <2>4, <2>5, Zenon DEF n, GoesOn
  <2>7. f[n] = Fold(T, st, a, s)
    BY <2>6, FoldIs, SMT DEF n
  <2>8. n + 1 \in 1..(n + 1) /\ (n + 1) - 1 = n
    BY <2>1
  <2>9. f[n + 1] = st[f[n]][b]
    BY <2>1, <2>4, <2>8
  <2>. QED
    BY <2>3, <2>7, <2>9 DEF u
<1>. QED
  BY <1>1, <1>2, <1>3

-----------------------------------------------------------------------------
(* Types                                                                   *)

\* What streamRunLog writes and dispatchSSEBlock and drainSSEBuffer return.
Byte == {"K", "E", "F", "D", "t", "C", "N"}
Panel == [lines : Seq(Seq(Byte)), state : {"live", "done"}]
Frame == [name : {"message", "chunk", "done"}, data : Seq(Seq(Byte)), line : Seq(Byte)]
Drain == [rest : Seq(Byte), panel : Panel]

\* The frame of a block of which nothing has been read.
Start == [name |-> "message", data |-> <<>>, line |-> <<>>]

\* Reading a line or a byte of a block makes a frame of a frame.
LEMMA FrameTypes ==
  ASSUME NEW f \in Frame
  PROVE  EndLine(f) \in Frame /\ \A b \in Byte : FrameByte(f, b) \in Frame
<1>1. f.name \in {"message", "chunk", "done"} /\ f.data \in Seq(Seq(Byte)) /\ f.line \in Seq(Byte)
  BY DEF Frame
<1>2. f.line # <<>> => Tail(f.line) \in Seq(Byte)
  BY <1>1
<1>3. <<>> \in Seq(Byte)
  OBVIOUS
<1>4. f.line # <<>> => Append(f.data, Tail(f.line)) \in Seq(Seq(Byte))
  BY <1>1, <1>2
<1>5. EndLine(f) \in Frame
  BY <1>1, <1>3, <1>4 DEF EndLine, Frame
<1>6. ASSUME NEW b \in Byte PROVE FrameByte(f, b) \in Frame
  <2>1. Append(f.line, b) \in Seq(Byte)
    BY <1>1
  <2>. QED
    BY <1>1, <1>5, <2>1 DEF FrameByte, Frame
<1>. QED
  BY <1>5, <1>6

\* What an event does to a panel, field by field.
LEMMA OnEventIs ==
  ASSUME NEW p \in Panel, NEW f \in Frame
  PROVE  /\ OnEvent(p, f) \in Panel
         /\ OnEvent(p, f).lines = IF f.name = "chunk" THEN Joined(p.lines, f.data) ELSE p.lines
         /\ OnEvent(p, f).state = IF f.name = "done" THEN "done" ELSE p.state
<1>1. p.lines \in Seq(Seq(Byte)) /\ p.state \in {"live", "done"} /\ f.data \in Seq(Seq(Byte))
  BY DEF Panel, Frame
<1>2. p.lines # <<>> => SubSeq(p.lines, 1, Len(p.lines) - 1) \in Seq(Seq(Byte))
  BY <1>1
<1>3. Joined(p.lines, f.data) \in Seq(Seq(Byte))
  BY <1>1, <1>2 DEF Joined
<1>. HIDE DEF Joined
<1>. QED
  BY <1>1, <1>3 DEF OnEvent, Panel

\* The reading of a block in DispatchSSEBlock, as a fold.
ReadStep == [f \in Frame |-> [b \in Byte |-> FrameByte(f, b)]]
Read(block) == Fold(Frame, ReadStep, Start, block)

\* Reading is made of steps.
LEMMA ReadSteps ==
  /\ Start \in Frame
  /\ ReadStep \in Steps(Frame, Byte)
  /\ \A f \in Frame : \A b \in Byte : ReadStep[f][b] = FrameByte(f, b)
<1>1. Start \in Frame
  BY DEF Start, Frame
<1>2. ReadStep \in Steps(Frame, Byte)
  BY FrameTypes DEF ReadStep, Steps
<1>3. \A f \in Frame : \A b \in Byte : ReadStep[f][b] = FrameByte(f, b)
  BY DEF ReadStep
<1>. QED
  BY <1>1, <1>2, <1>3

\* How a block is read, byte by byte.
LEMMA ReadLaws ==
  /\ Read(<<>>) = Start
  /\ \A s \in Seq(Byte) : Read(s) \in Frame
  /\ \A s \in Seq(Byte) : \A b \in Byte : Read(Append(s, b)) = FrameByte(Read(s), b)
<1>1. /\ Read(<<>>) = Start
      /\ \A s \in Seq(Byte) : Read(s) \in Frame
      /\ \A s \in Seq(Byte) : \A b \in Byte : Read(Append(s, b)) = ReadStep[Read(s)][b]
  BY ReadSteps, FoldLaws, SMT DEF Read
<1>. QED
  BY <1>1, ReadSteps

\* Dispatching a block: the function it picks is that reading.
LEMMA DispatchIs ==
  ASSUME NEW s \in Seq(Byte), NEW p
  PROVE  DispatchSSEBlock(s, p) =
           IF EndLine(Read(s)).data = <<>> THEN p ELSE OnEvent(p, EndLine(Read(s)))
<1>. DEFINE Def(f) == [k \in 0..Len(s) |-> IF k = 0 THEN Start ELSE FrameByte(f[k - 1], s[k])]
            r == CHOOSE f : f = Def(f)
<1>1. DispatchSSEBlock(s, p) =
        IF EndLine(r[Len(s)]).data = <<>> THEN p ELSE OnEvent(p, EndLine(r[Len(s)]))
  BY DEF DispatchSSEBlock, Start
<1>2. Start \in Frame /\ ReadStep \in Steps(Frame, Byte)
  BY ReadSteps
<1>3. \A f \in Frame : \A b \in Byte : ReadStep[f][b] = FrameByte(f, b)
  BY ReadSteps
<1>4. Len(s) \in Nat /\ \A k \in 1..Len(s) : s[k] \in Byte
  OBVIOUS
<1>5. PICK F : Runs(Frame, ReadStep, Start, s, Len(s), F)
  BY <1>2, <1>4, RunExists
<1>6. F = Def(F)
  <2>1. ASSUME NEW k \in 1..Len(s) PROVE F[k] = FrameByte(F[k - 1], s[k])
    <3>1. k - 1 \in 0..Len(s)
      BY <1>4
    <3>2. F[k - 1] \in Frame
      BY <1>5, <3>1 DEF Runs
    <3>. QED
      BY <1>3, <1>4, <1>5, <3>2 DEF Runs
  <2>2. F[0] = Start /\ F \in [0..Len(s) -> Frame]
    BY <1>5 DEF Runs
  <2>. QED
    BY <1>4, <2>1, <2>2
<1>7. r = Def(r)
  BY <1>6
<1>. HIDE DEF r
<1>8. GoesOn(Frame, ReadStep, Start, s, Len(s), r)
  <2>1. r[0] = Start
    BY <1>4, <1>7
  <2>2. ASSUME NEW k \in 1..Len(s), r[k - 1] \in Frame PROVE r[k] = ReadStep[r[k - 1]][s[k]]
    <3>1. r[k] = FrameByte(r[k - 1], s[k])
      BY <1>4, <1>7
    <3>. QED
      BY <1>3, <1>4, <2>2, <3>1
  <2>. QED
    BY <2>1, <2>2 DEF GoesOn
<1>9. r[Len(s)] = Read(s)
  BY <1>2, <1>8, FoldIs DEF Read
<1>. QED
  BY <1>1, <1>9

-----------------------------------------------------------------------------
(* The recursive functions of the parser, by their laws                    *)

\* The function inside Normalized.
NormFcn(s) ==
  CHOOSE f : f = [k \in 0..Len(s) |->
                    IF k = 0 THEN <<>>
                    ELSE IF s[k] = "N" /\ k > 1 /\ s[k - 1] = "C" THEN f[k - 1]
                    ELSE Append(f[k - 1], IF s[k] = "C" THEN "N" ELSE s[k])]

\* The function that Normalized picks exists.
LEMMA NormFcnDef ==
  ASSUME NEW s \in Seq(Byte)
  PROVE  /\ NormFcn(s) \in [0..Len(s) -> Seq(Byte)]
         /\ NormFcn(s)[0] = <<>>
         /\ \A k \in 1..Len(s) :
              NormFcn(s)[k] = IF s[k] = "N" /\ k > 1 /\ s[k - 1] = "C" THEN NormFcn(s)[k - 1]
                              ELSE Append(NormFcn(s)[k - 1], IF s[k] = "C" THEN "N" ELSE s[k])
         /\ Normalized(s) = NormFcn(s)[Len(s)]
<1>. DEFINE T == Seq(Byte)
            Next1(k, v) == IF s[k] = "N" /\ k > 1 /\ s[k - 1] = "C" THEN v
                           ELSE Append(v, IF s[k] = "C" THEN "N" ELSE s[k])
            g == [k \in 1..Len(s) |-> [v \in T |-> Next1(k, v)]]
            Def(f) == [k \in 0..Len(s) |-> IF k = 0 THEN <<>> ELSE Next1(k, f[k - 1])]
<1>1. \A k \in 1..Len(s) : \A v \in T : Next1(k, v) \in T
  BY DEF Byte
<1>2. <<>> \in T /\ Len(s) \in Nat
  OBVIOUS
<1>5. NormFcn(s) = CHOOSE h : h = Def(h)
  BY DEF NormFcn
<1>a. Normalized(s) = NormFcn(s)[Len(s)]
  BY DEF NormFcn, Normalized
<1>. HIDE DEF T, Next1
<1>3. PICK f \in [0..Len(s) -> T] : f[0] = <<>> /\ \A k \in 1..Len(s) : f[k] = Next1(k, f[k - 1])
  <2>1. g \in [1..Len(s) -> [T -> T]]
    BY <1>1
  <2>2. \A k \in 1..Len(s) : \A v \in T : g[k][v] = Next1(k, v)
    OBVIOUS
  <2>. HIDE DEF g
  <2>3. PICK f : Follows(T, Len(s), <<>>, g, f)
    BY <1>2, <2>1, RecursionExists, Zenon
  <2>4. ASSUME NEW k \in 1..Len(s) PROVE f[k] = Next1(k, f[k - 1])
    <3>1. k - 1 \in 0..Len(s)
      BY <1>2
    <3>2. f[k - 1] \in T
      BY <2>3, <3>1 DEF Follows
    <3>. QED
      BY <2>2, <2>3, <3>2 DEF Follows
  <2>. QED
    BY <2>3, <2>4 DEF Follows
<1>4. f = Def(f)
  BY <1>2, <1>3
<1>6. NormFcn(s) = Def(NormFcn(s))
  BY <1>4, <1>5
<1>. DEFINE h == NormFcn(s)
<1>. HIDE DEF h
<1>7. h = [k \in 0..Len(s) |-> IF k = 0 THEN <<>> ELSE Next1(k, h[k - 1])]
  BY <1>6 DEF h
<1>8. h[0] = <<>> /\ \A k \in 1..Len(s) : h[k] = Next1(k, h[k - 1])
  BY <1>2, <1>7
<1>9. h \in [0..Len(s) -> T]
  <2>1. GoAlike(Len(s), f, h)
    BY <1>3, <1>8 DEF GoAlike
  <2>2. \A k \in 0..Len(s) : f[k] = h[k]
    BY <1>2, <2>1, RecursionAgrees
  <2>. QED
    BY <1>3, <1>7, <2>2
<1>. QED
  BY <1>8, <1>9, <1>a DEF T, Next1, h

\* Dispatching a block makes a panel of a panel.
LEMMA DispatchType ==
  ASSUME NEW s \in Seq(Byte), NEW p \in Panel
  PROVE  DispatchSSEBlock(s, p) \in Panel
<1>1. Read(s) \in Frame
  BY ReadLaws
<1>2. EndLine(Read(s)) \in Frame
  BY <1>1, FrameTypes
<1>3. OnEvent(p, EndLine(Read(s))) \in Panel
  BY <1>2, OnEventIs
<1>. QED
  BY <1>3, DispatchIs

\* The scan of DrainSSEBuffer, as a fold.
From(p) == [rest |-> <<>>, panel |-> p]
ScanStep == [d \in Drain |-> [b \in Byte |-> ScanByte(d, b)]]
Scan(s, p) == Fold(Drain, ScanStep, From(p), s)

\* The two cases of a scanned byte, with their types.
LEMMA ScanByteIs ==
  ASSUME NEW d \in Drain, NEW b \in Byte
  PROVE  /\ ScanByte(d, b) \in Drain
         /\ b = "N" /\ d.rest # <<>> /\ d.rest[Len(d.rest)] = "N" =>
              ScanByte(d, b) = From(DispatchSSEBlock(SubSeq(d.rest, 1, Len(d.rest) - 1), d.panel))
         /\ ~(b = "N" /\ d.rest # <<>> /\ d.rest[Len(d.rest)] = "N") =>
              ScanByte(d, b) = [rest |-> Append(d.rest, b), panel |-> d.panel]
<1>1. d.rest \in Seq(Byte) /\ d.panel \in Panel /\ d = [rest |-> d.rest, panel |-> d.panel]
  BY DEF Drain
<1>2. d.rest # <<>> => SubSeq(d.rest, 1, Len(d.rest) - 1) \in Seq(Byte)
  BY <1>1
<1>3. d.rest # <<>> => DispatchSSEBlock(SubSeq(d.rest, 1, Len(d.rest) - 1), d.panel) \in Panel
  BY <1>1, <1>2, DispatchType
<1>4. Append(d.rest, b) \in Seq(Byte) /\ <<>> \in Seq(Byte)
  BY <1>1
<1>5. b = "N" /\ d.rest # <<>> /\ d.rest[Len(d.rest)] = "N" =>
        ScanByte(d, b) = From(DispatchSSEBlock(SubSeq(d.rest, 1, Len(d.rest) - 1), d.panel))
  BY DEF ScanByte, From
<1>6. ~(b = "N" /\ d.rest # <<>> /\ d.rest[Len(d.rest)] = "N") =>
        ScanByte(d, b) = [rest |-> Append(d.rest, b), panel |-> d.panel]
  BY <1>1 DEF ScanByte
<1>7. \A p \in Panel : From(p) \in Drain
  BY <1>4 DEF From, Drain
<1>8. [rest |-> Append(d.rest, b), panel |-> d.panel] \in Drain
  BY <1>1, <1>4 DEF Drain
<1>. QED
  BY <1>3, <1>5, <1>6, <1>7, <1>8, Zenon

\* Scanning is made of steps.
LEMMA ScanSteps ==
  /\ \A p \in Panel : From(p) \in Drain
  /\ ScanStep \in Steps(Drain, Byte)
  /\ \A d \in Drain : \A b \in Byte : ScanStep[d][b] = ScanByte(d, b)
<1>1. \A p \in Panel : From(p) \in Drain
  BY DEF From, Drain
<1>2. ScanStep \in Steps(Drain, Byte)
  BY ScanByteIs DEF ScanStep, Steps
<1>3. \A d \in Drain : \A b \in Byte : ScanStep[d][b] = ScanByte(d, b)
  BY DEF ScanStep
<1>. QED
  BY <1>1, <1>2, <1>3

\* How normalized bytes are scanned, one by one.
LEMMA ScanLaws ==
  ASSUME NEW p \in Panel
  PROVE  /\ Scan(<<>>, p) = From(p)
         /\ \A s \in Seq(Byte) : Scan(s, p) \in Drain
         /\ \A s \in Seq(Byte) : \A b \in Byte : Scan(Append(s, b), p) = ScanByte(Scan(s, p), b)
<1>1. /\ Scan(<<>>, p) = From(p)
      /\ \A s \in Seq(Byte) : Scan(s, p) \in Drain
      /\ \A s \in Seq(Byte) : \A b \in Byte : Scan(Append(s, b), p) = ScanStep[Scan(s, p)][b]
  BY ScanSteps, FoldLaws, SMT DEF Scan
<1>. QED
  BY <1>1, ScanSteps

\* Draining the buffer: the function it picks is that scan.
LEMMA DrainIs ==
  ASSUME NEW u, NEW s \in Seq(Byte), s = Normalized(u), NEW p \in Panel
  PROVE  DrainSSEBuffer(u, p) = Scan(s, p)
<1>. DEFINE Def(f) == [k \in 0..Len(s) |-> IF k = 0 THEN From(p) ELSE ScanByte(f[k - 1], s[k])]
            r == CHOOSE f : f = Def(f)
<1>1. DrainSSEBuffer(u, p) = r[Len(s)]
  BY DEF DrainSSEBuffer, From
<1>2. From(p) \in Drain /\ ScanStep \in Steps(Drain, Byte)
  BY ScanSteps
<1>3. \A d \in Drain : \A b \in Byte : ScanStep[d][b] = ScanByte(d, b)
  BY ScanSteps
<1>4. Len(s) \in Nat /\ \A k \in 1..Len(s) : s[k] \in Byte
  OBVIOUS
<1>5. PICK F : Runs(Drain, ScanStep, From(p), s, Len(s), F)
  BY <1>2, <1>4, RunExists
<1>6. F = Def(F)
  <2>1. ASSUME NEW k \in 1..Len(s) PROVE F[k] = ScanByte(F[k - 1], s[k])
    <3>1. k - 1 \in 0..Len(s)
      BY <1>4
    <3>2. F[k - 1] \in Drain
      BY <1>5, <3>1 DEF Runs
    <3>. QED
      BY <1>3, <1>4, <1>5, <3>2 DEF Runs
  <2>2. F[0] = From(p) /\ F \in [0..Len(s) -> Drain]
    BY <1>5 DEF Runs
  <2>. QED
    BY <1>4, <2>1, <2>2
<1>7. r = Def(r)
  BY <1>6
<1>. HIDE DEF r
<1>8. GoesOn(Drain, ScanStep, From(p), s, Len(s), r)
  <2>1. r[0] = From(p)
    BY <1>4, <1>7
  <2>2. ASSUME NEW k \in 1..Len(s), r[k - 1] \in Drain PROVE r[k] = ScanStep[r[k - 1]][s[k]]
    <3>1. r[k] = ScanByte(r[k - 1], s[k])
      BY <1>4, <1>7
    <3>. QED
      BY <1>3, <1>4, <2>2, <3>1
  <2>. QED
    BY <2>1, <2>2 DEF GoesOn
<1>9. r[Len(s)] = Scan(s, p)
  BY <1>2, <1>8, FoldIs DEF Scan
<1>. QED
  BY <1>1, <1>9

\* A line of the log, as it is sent, and the fold of DataLines.
Line == Seq({"t", "C"})
WireLine(l) == <<"D">> \o l \o <<"N">>
WireStep == [v \in Seq(Byte) |-> [l \in Line |-> v \o WireLine(l)]]

\* A line with its prefix and its newline is bytes.
LEMMA WireLineType ==
  ASSUME NEW l \in Line
  PROVE  WireLine(l) \in Seq(Byte)
<1>1. \A i \in 1..Len(l) : l[i] \in Byte
  BY DEF Line, Byte
<1>2. l \in Seq(Byte)
  BY <1>1 DEF Line
<1>. QED
  BY <1>2 DEF WireLine, Byte

\* The data lines of a chunk, one by one.
LEMMA DataLinesLaws ==
  /\ DataLines(<<>>) = <<>>
  /\ \A c \in Seq(Line) : DataLines(c) \in Seq(Byte)
  /\ \A c \in Seq(Line) : \A l \in Line : DataLines(Append(c, l)) = DataLines(c) \o WireLine(l)
<1>. DEFINE W(c) == Fold(Seq(Byte), WireStep, <<>>, c)
<1>1. <<>> \in Seq(Byte)
  OBVIOUS
<1>2. WireStep \in Steps(Seq(Byte), Line)
  <2>1. \A v \in Seq(Byte) : \A l \in Line : v \o WireLine(l) \in Seq(Byte)
    BY WireLineType
  <2>. QED
    BY <2>1 DEF WireStep, Steps
<1>3. \A v \in Seq(Byte) : \A l \in Line : WireStep[v][l] = v \o WireLine(l)
  BY DEF WireStep
<1>4. ASSUME NEW c \in Seq(Line) PROVE DataLines(c) = W(c)
  <2>. DEFINE Def(f) == [k \in 0..Len(c) |-> IF k = 0 THEN <<>> ELSE f[k - 1] \o WireLine(c[k])]
              r == CHOOSE f : f = Def(f)
  <2>1. DataLines(c) = r[Len(c)]
    BY DEF DataLines, WireLine
  <2>4. Len(c) \in Nat /\ \A k \in 1..Len(c) : c[k] \in Line
    OBVIOUS
  <2>5. PICK F : Runs(Seq(Byte), WireStep, <<>>, c, Len(c), F)
    BY <1>1, <1>2, <2>4, RunExists
  <2>6. F = Def(F)
    <3>1. ASSUME NEW k \in 1..Len(c) PROVE F[k] = F[k - 1] \o WireLine(c[k])
      <4>1. k - 1 \in 0..Len(c)
        BY <2>4
      <4>2. F[k - 1] \in Seq(Byte)
        BY <2>5, <4>1 DEF Runs
      <4>. QED
        BY <1>3, <2>4, <2>5, <4>2 DEF Runs
    <3>2. F[0] = <<>> /\ F \in [0..Len(c) -> Seq(Byte)]
      BY <2>5 DEF Runs
    <3>. QED
      BY <2>4, <3>1, <3>2
  <2>7. r = Def(r)
    BY <2>6
  <2>. HIDE DEF r
  <2>8. GoesOn(Seq(Byte), WireStep, <<>>, c, Len(c), r)
    <3>1. r[0] = <<>>
      BY <2>4, <2>7
    <3>2. ASSUME NEW k \in 1..Len(c), r[k - 1] \in Seq(Byte) PROVE r[k] = WireStep[r[k - 1]][c[k]]
      <4>1. k \in 0..Len(c) /\ k # 0
        BY <2>4
      <4>2. r[k] = r[k - 1] \o WireLine(c[k])
        BY <2>7, <4>1, Zenon
      <4>. QED
        BY <1>3, <2>4, <3>2, <4>2
    <3>. QED
      BY <3>1, <3>2 DEF GoesOn
  <2>9. r[Len(c)] = W(c)
    BY <1>1, <1>2, <2>8, FoldIs
  <2>. QED
    BY <2>1, <2>9
<1>5. /\ W(<<>>) = <<>>
      /\ \A c \in Seq(Line) : W(c) \in Seq(Byte)
      /\ \A c \in Seq(Line) : \A l \in Line : W(Append(c, l)) = WireStep[W(c)][l]
  <2>. DEFINE T == Seq(Byte)
  <2>1. <<>> \in T /\ WireStep \in Steps(T, Line)
    BY <1>1, <1>2
  <2>2. \A c : W(c) = Fold(T, WireStep, <<>>, c)
    OBVIOUS
  <2>3. \A c \in Seq(Line) : W(c) \in T => W(c) \in Seq(Byte)
    OBVIOUS
  <2>. HIDE DEF T, W
  <2>. QED
    BY <2>1, <2>2, <2>3, FoldLaws, SMT
<1>. HIDE DEF W
<1>6. <<>> \in Seq(Line) /\ \A c \in Seq(Line) : \A l \in Line : Append(c, l) \in Seq(Line)
  OBVIOUS
<1>7. ASSUME NEW c \in Seq(Line), NEW l \in Line
      PROVE  DataLines(Append(c, l)) = DataLines(c) \o WireLine(l)
  <2>1. DataLines(Append(c, l)) = WireStep[W(c)][l] /\ W(c) \in Seq(Byte)
    BY <1>4, <1>5, <1>6
  <2>. QED
    BY <1>3, <1>4, <2>1
<1>8. DataLines(<<>>) = <<>> /\ \A c \in Seq(Line) : DataLines(c) \in Seq(Byte)
  BY <1>4, <1>5, <1>6
<1>. QED
  BY <1>7, <1>8

\* Data prefixes in a text.
CountStep == [v \in Nat |-> [b \in Byte |-> IF b = "D" THEN v + 1 ELSE v]]

\* The number of data lines a text of bytes begins.
Count(s) == Fold(Nat, CountStep, 0, s)

\* Counting byte by byte.
LEMMA CountLaws ==
  /\ Count(<<>>) = 0
  /\ \A s \in Seq(Byte) : Count(s) \in Nat
  /\ \A s \in Seq(Byte) : \A b \in Byte : Count(Append(s, b)) = IF b = "D" THEN Count(s) + 1 ELSE Count(s)
<1>1. CountStep \in Steps(Nat, Byte) /\ 0 \in Nat
  BY DEF CountStep, Steps
<1>2. \A v \in Nat : \A b \in Byte : CountStep[v][b] = IF b = "D" THEN v + 1 ELSE v
  BY DEF CountStep
<1>3. /\ Count(<<>>) = 0
      /\ \A s \in Seq(Byte) : Count(s) \in Nat
      /\ \A s \in Seq(Byte) : \A b \in Byte : Count(Append(s, b)) = CountStep[Count(s)][b]
  BY <1>1, FoldLaws, SMT DEF Count
<1>. QED
  BY <1>2, <1>3

\* Normalizing byte by byte.
LEMMA NormalizedLaws ==
  /\ Normalized(<<>>) = <<>>
  /\ \A s \in Seq(Byte) : Normalized(s) \in Seq(Byte)
  /\ \A s \in Seq(Byte) : \A b \in Byte :
       Normalized(Append(s, b)) =
         IF b = "N" /\ s # <<>> /\ s[Len(s)] = "C" THEN Normalized(s)
         ELSE Append(Normalized(s), IF b = "C" THEN "N" ELSE b)
<1>1. Normalized(<<>>) = <<>>
  <2>1. <<>> \in Seq(Byte) /\ Len(<<>>) = 0
    OBVIOUS
  <2>. QED
    BY <2>1, NormFcnDef
<1>2. ASSUME NEW s \in Seq(Byte) PROVE Normalized(s) \in Seq(Byte)
  <2>1. Len(s) \in 0..Len(s)
    OBVIOUS
  <2>. QED
    BY <2>1, NormFcnDef
<1>3. ASSUME NEW s \in Seq(Byte), NEW b \in Byte
      PROVE  Normalized(Append(s, b)) =
               IF b = "N" /\ s # <<>> /\ s[Len(s)] = "C" THEN Normalized(s)
               ELSE Append(Normalized(s), IF b = "C" THEN "N" ELSE b)
  <2>. DEFINE u == Append(s, b)
              n == Len(s)
              f == NormFcn(s)
              h == NormFcn(u)
  <2>1. u \in Seq(Byte) /\ Len(u) = n + 1 /\ u[n + 1] = b /\ n \in Nat
    OBVIOUS
  <2>2. \A k \in 1..n : u[k] = s[k]
    OBVIOUS
  <2>3. s # <<>> <=> n > 0
    OBVIOUS
  <2>. HIDE DEF u
  <2>4. /\ f[0] = <<>>
        /\ \A k \in 1..n : f[k] = IF s[k] = "N" /\ k > 1 /\ s[k - 1] = "C" THEN f[k - 1]
                                  ELSE Append(f[k - 1], IF s[k] = "C" THEN "N" ELSE s[k])
        /\ Normalized(s) = f[n]
    BY NormFcnDef, Zenon
  <2>5. /\ h[0] = <<>>
        /\ \A k \in 1..(n + 1) : h[k] = IF u[k] = "N" /\ k > 1 /\ u[k - 1] = "C" THEN h[k - 1]
                                        ELSE Append(h[k - 1], IF u[k] = "C" THEN "N" ELSE u[k])
        /\ Normalized(u) = h[n + 1]
    <3>1. Len(u) = n + 1
      BY <2>1
    <3>. HIDE DEF n
    <3>. QED
      BY <2>1, <3>1, NormFcnDef, Zenon
  <2>. HIDE DEF f, h, n
  <2>6. ASSUME NEW k \in 1..n, f[k - 1] = h[k - 1] PROVE f[k] = h[k]
    <3>1. k \in 1..(n + 1) /\ (k > 1 => k - 1 \in 1..n)
      BY <2>1
    <3>2. u[k] = s[k] /\ (k > 1 => u[k - 1] = s[k - 1])
      BY <2>2, <3>1
    <3>3. h[k] = IF u[k] = "N" /\ k > 1 /\ u[k - 1] = "C" THEN h[k - 1]
                 ELSE Append(h[k - 1], IF u[k] = "C" THEN "N" ELSE u[k])
      BY <2>5, <3>1, Zenon
    <3>4. f[k] = IF s[k] = "N" /\ k > 1 /\ s[k - 1] = "C" THEN f[k - 1]
                 ELSE Append(f[k - 1], IF s[k] = "C" THEN "N" ELSE s[k])
      BY <2>4, Zenon
    <3>. QED
      BY <2>6, <3>2, <3>3, <3>4
  <2>7. \A k \in 0..n : f[k] = h[k]
    <3>1. f[0] = h[0] /\ n \in Nat
      BY <2>1, <2>4, <2>5
    <3>2. GoAlike(n, f, h)
      BY <2>6, <3>1 DEF GoAlike
    <3>. QED
      BY <3>1, <3>2, RecursionAgrees
  <2>8. f[n] = h[n]
    BY <2>1, <2>7
  <2>9. n + 1 \in 1..(n + 1) /\ (n + 1) - 1 = n /\ (n + 1 > 1 <=> n > 0) /\ (n > 0 => n \in 1..n)
    BY <2>1
  <2>10. h[n + 1] = IF u[n + 1] = "N" /\ n + 1 > 1 /\ u[n] = "C" THEN h[n]
                    ELSE Append(h[n], IF u[n + 1] = "C" THEN "N" ELSE u[n + 1])
    BY <2>5, <2>9
  <2>11. n > 0 => u[n] = s[n]
    BY <2>2, <2>9
  <2>12. Normalized(u) = IF b = "N" /\ s # <<>> /\ s[n] = "C" THEN Normalized(s)
                         ELSE Append(Normalized(s), IF b = "C" THEN "N" ELSE b)
    BY <2>1, <2>3, <2>4, <2>5, <2>8, <2>9, <2>10, <2>11
  <2>. QED
    BY <2>12 DEF u, n
<1>. QED
  BY <1>1, <1>2, <1>3

\* Folding one text after the other.
LEMMA FoldConcat ==
  ASSUME NEW T, NEW A, NEW a \in T, NEW st \in Steps(T, A), NEW s \in Seq(A)
  PROVE  \A t \in Seq(A) : Fold(T, st, a, s \o t) = Fold(T, st, Fold(T, st, a, s), t)
<1>. DEFINE m == Fold(T, st, a, s)
            S == {t \in Seq(A) : Fold(T, st, a, s \o t) = Fold(T, st, m, t)}
<1>1. m \in T
  BY FoldLaws
<1>. HIDE DEF m
<1>2. <<>> \in S
  <2>1. s \o <<>> = s /\ <<>> \in Seq(A)
    OBVIOUS
  <2>2. Fold(T, st, m, <<>>) = m
    BY <1>1, FoldLaws
  <2>. QED
    BY <2>1, <2>2 DEF m
<1>3. ASSUME NEW t \in Seq(A), NEW b \in A, t \in S PROVE Append(t, b) \in S
  <2>1. s \o Append(t, b) = Append(s \o t, b) /\ Append(t, b) \in Seq(A) /\ s \o t \in Seq(A)
    OBVIOUS
  <2>2. Fold(T, st, a, Append(s \o t, b)) = st[Fold(T, st, a, s \o t)][b]
    <3>. DEFINE u == s \o t
    <3>1. u \in Seq(A)
      BY <2>1
    <3>. HIDE DEF u
    <3>2. Fold(T, st, a, Append(u, b)) = st[Fold(T, st, a, u)][b]
      BY <3>1, FoldLaws
    <3>. QED
      BY <3>2 DEF u
  <2>3. Fold(T, st, m, Append(t, b)) = st[Fold(T, st, m, t)][b]
    BY <1>1, FoldLaws
  <2>4. Fold(T, st, a, s \o t) = Fold(T, st, m, t)
    BY <1>3
  <2>. QED
    BY <2>1, <2>2, <2>3, <2>4
<1>4. \A t \in Seq(A) : t \in S
  <2>. HIDE DEF S
  <2>. QED
    BY <1>2, <1>3, SeqInSet
<1>. QED
  BY <1>4 DEF m

-----------------------------------------------------------------------------
(* The parser on raw bytes: it remembers the last one for CR LF            *)

\* rest and panel are those of a drain; last is the raw byte before.
State == [rest : Seq(Byte), panel : Panel, last : Byte]
St(r, p, b) == [rest |-> r, panel |-> p, last |-> b]
Begin(p) == St(<<>>, p, "N")

\* What a frame does to the panel.
Event(p, f) == IF f.data = <<>> THEN p ELSE OnEvent(p, f)
\* There is a newline at the end of s.
EndsWithN(s) == s # <<>> /\ s[Len(s)] = "N"
\* A byte as the normalised text has it.
Plain(b) == IF b = "C" THEN "N" ELSE b

\* A newline after a carriage return is skipped; a second line end ends a block.
ParseByte(x, b) ==
  IF b = "N" /\ x.last = "C" THEN St(x.rest, x.panel, b)
  ELSE IF Plain(b) = "N" /\ EndsWithN(x.rest) THEN St(<<>>, Event(x.panel, Read(x.rest)), b)
  ELSE St(Append(x.rest, Plain(b)), x.panel, b)

\* The parser after all of s, from x.
ParseStep == [x \in State |-> [b \in Byte |-> ParseByte(x, b)]]
Parse(x, s) == Fold(State, ParseStep, x, s)

\* A block that ends with a newline is dispatched as it has been read.
LEMMA DispatchFront ==
  ASSUME NEW s \in Seq(Byte), EndsWithN(s), NEW p
  PROVE  DispatchSSEBlock(SubSeq(s, 1, Len(s) - 1), p) = Event(p, Read(s))
<1>. DEFINE f == SubSeq(s, 1, Len(s) - 1)
<1>1. f \in Seq(Byte) /\ s = Append(f, "N") /\ "N" \in Byte
  BY DEF EndsWithN, Byte
<1>. HIDE DEF f
<1>2. Read(s) = EndLine(Read(f))
  <2>1. Read(Append(f, "N")) = FrameByte(Read(f), "N")
    BY <1>1, ReadLaws
  <2>. QED
    BY <1>1, <2>1 DEF FrameByte
<1>3. DispatchSSEBlock(f, p) = Event(p, Read(s))
  BY <1>1, <1>2, DispatchIs DEF Event
<1>. QED
  BY <1>3 DEF f

\* An event makes a panel of a panel.
LEMMA EventType ==
  ASSUME NEW p \in Panel, NEW s \in Seq(Byte)
  PROVE  Event(p, Read(s)) \in Panel
BY ReadLaws, OnEventIs DEF Event

\* The parts of a parser state.
LEMMA StParts ==
  /\ \A x \in State : x.rest \in Seq(Byte) /\ x.panel \in Panel /\ x.last \in Byte /\ x = St(x.rest, x.panel, x.last)
  /\ \A r \in Seq(Byte), p \in Panel, b \in Byte : St(r, p, b) \in State
  /\ \A r, p, b : St(r, p, b).rest = r /\ St(r, p, b).panel = p /\ St(r, p, b).last = b
  /\ \A p \in Panel : Begin(p) \in State /\ Begin(p).rest = <<>> /\ Begin(p).panel = p /\ Begin(p).last = "N"
<1>1. \A x \in State : x.rest \in Seq(Byte) /\ x.panel \in Panel /\ x.last \in Byte /\ x = St(x.rest, x.panel, x.last)
  BY DEF State, St
<1>2. \A r \in Seq(Byte), p \in Panel, b \in Byte : St(r, p, b) \in State
  BY DEF State, St
<1>3. \A r, p, b : St(r, p, b).rest = r /\ St(r, p, b).panel = p /\ St(r, p, b).last = b
  BY DEF St
<1>4. "N" \in Byte /\ <<>> \in Seq(Byte)
  BY DEF Byte
<1>5. \A p \in Panel : Begin(p) \in State
  BY <1>2, <1>4, Zenon DEF Begin
<1>6. \A p : Begin(p).rest = <<>> /\ Begin(p).panel = p /\ Begin(p).last = "N"
  BY DEF Begin, St
<1>7. \A p \in Panel : Begin(p) \in State /\ Begin(p).rest = <<>> /\ Begin(p).panel = p /\ Begin(p).last = "N"
  BY <1>5, <1>6
<1>. HIDE DEF Begin, St
<1>. QED
  BY <1>1, <1>2, <1>3, <1>7

\* One byte makes a parser state of a parser state.
LEMMA ParseByteType ==
  ASSUME NEW x \in State, NEW b \in Byte
  PROVE  ParseByte(x, b) \in State
<1>1. x.rest \in Seq(Byte) /\ x.panel \in Panel
  BY StParts
<1>2. Plain(b) \in Byte
  BY DEF Plain, Byte
<1>3. Append(x.rest, Plain(b)) \in Seq(Byte) /\ <<>> \in Seq(Byte)
  BY <1>1, <1>2
<1>4. Event(x.panel, Read(x.rest)) \in Panel
  BY <1>1, EventType
<1>. QED
  BY <1>1, <1>3, <1>4, StParts DEF ParseByte

\* Parsing byte by byte, and one text after the other.
LEMMA ParseLaws ==
  ASSUME NEW x \in State
  PROVE  /\ Parse(x, <<>>) = x
         /\ \A s \in Seq(Byte) : Parse(x, s) \in State
         /\ \A s \in Seq(Byte) : \A b \in Byte : Parse(x, Append(s, b)) = ParseByte(Parse(x, s), b)
         /\ \A s \in Seq(Byte) : \A t \in Seq(Byte) : Parse(x, s \o t) = Parse(Parse(x, s), t)
<1>1. ParseStep \in Steps(State, Byte)
  BY ParseByteType DEF ParseStep, Steps
<1>2. \A y \in State : \A b \in Byte : ParseStep[y][b] = ParseByte(y, b)
  BY DEF ParseStep
<1>3. /\ Parse(x, <<>>) = x
      /\ \A s \in Seq(Byte) : Parse(x, s) \in State
      /\ \A s \in Seq(Byte) : \A b \in Byte : Parse(x, Append(s, b)) = ParseStep[Parse(x, s)][b]
  BY <1>1, FoldLaws, SMT DEF Parse
<1>4. ASSUME NEW s \in Seq(Byte), NEW t \in Seq(Byte) PROVE Parse(x, s \o t) = Parse(Parse(x, s), t)
  BY <1>1, FoldConcat DEF Parse
<1>. QED
  BY <1>2, <1>3, <1>4

\* One byte: the parser of raw bytes does what normalizing and scanning do.
LEMMA ScanIsParse ==
  ASSUME NEW x \in State, NEW b \in Byte
  PROVE  LET d == [rest |-> x.rest, panel |-> x.panel]
             y == ParseByte(x, b)
         IN  [rest |-> y.rest, panel |-> y.panel] =
               IF b = "N" /\ x.last = "C" THEN d ELSE ScanByte(d, Plain(b))
<1>. DEFINE d == [rest |-> x.rest, panel |-> x.panel]
<1>1. x.rest \in Seq(Byte) /\ x.panel \in Panel
  BY StParts
<1>2. d \in Drain /\ d.rest = x.rest /\ d.panel = x.panel
  BY <1>1 DEF Drain
<1>3. Plain(b) \in Byte
  BY DEF Plain, Byte
<1>. HIDE DEF d
<1>4. CASE b = "N" /\ x.last = "C"
  BY <1>2, <1>4, StParts DEF ParseByte, d
<1>5. CASE ~(b = "N" /\ x.last = "C") /\ Plain(b) = "N" /\ EndsWithN(x.rest)
  <2>1. ScanByte(d, Plain(b)) = From(DispatchSSEBlock(SubSeq(x.rest, 1, Len(x.rest) - 1), x.panel))
    BY <1>2, <1>3, <1>5, ScanByteIs DEF EndsWithN
  <2>2. ScanByte(d, Plain(b)) = From(Event(x.panel, Read(x.rest)))
    BY <1>1, <1>5, <2>1, DispatchFront
  <2>3. ParseByte(x, b) = St(<<>>, Event(x.panel, Read(x.rest)), b)
    BY <1>5 DEF ParseByte
  <2>. QED
    BY <1>5, <2>2, <2>3, StParts DEF d, From
<1>6. CASE ~(b = "N" /\ x.last = "C") /\ ~(Plain(b) = "N" /\ EndsWithN(x.rest))
  <2>1. ScanByte(d, Plain(b)) = [rest |-> Append(x.rest, Plain(b)), panel |-> x.panel]
    BY <1>2, <1>3, <1>6, ScanByteIs DEF EndsWithN
  <2>2. ParseByte(x, b) = St(Append(x.rest, Plain(b)), x.panel, b)
    BY <1>6 DEF ParseByte
  <2>3. ParseByte(x, b).rest = Append(x.rest, Plain(b)) /\ ParseByte(x, b).panel = x.panel
    BY <2>2 DEF St
  <2>4. [rest |-> ParseByte(x, b).rest, panel |-> ParseByte(x, b).panel] = ScanByte(d, Plain(b))
    BY <2>1, <2>3, Zenon
  <2>. QED
    BY <1>6, <2>4, Zenon DEF d
<1>. QED
  BY <1>4, <1>5, <1>6 DEF d

\* A parser ends with the last byte in mind.
LEMMA ParseLast ==
  ASSUME NEW x \in State, NEW s \in Seq(Byte), s # <<>>
  PROVE  Parse(x, s).last = s[Len(s)]
<1>. DEFINE f == SubSeq(s, 1, Len(s) - 1)
            b == s[Len(s)]
<1>1. f \in Seq(Byte) /\ s = Append(f, b) /\ b \in Byte
  OBVIOUS
<1>. HIDE DEF f, b
<1>2. Parse(x, s) = ParseByte(Parse(x, f), b)
  BY <1>1, ParseLaws
<1>3. \A y : ParseByte(y, b).last = b
  BY StParts DEF ParseByte
<1>. QED
  BY <1>2, <1>3 DEF b

\* What the code drains is what the parser of raw bytes makes of it.
LEMMA DrainIsParse ==
  ASSUME NEW p \in Panel
  PROVE  \A s \in Seq(Byte) :
           DrainSSEBuffer(s, p) = [rest |-> Parse(Begin(p), s).rest, panel |-> Parse(Begin(p), s).panel]
<1>. DEFINE Y(s) == Parse(Begin(p), s)
            Both(s) == [rest |-> Y(s).rest, panel |-> Y(s).panel]
            S == {s \in Seq(Byte) : Scan(Normalized(s), p) = Both(s)}
<1>1. Begin(p) \in State
  BY StParts
<1>2. <<>> \in S
  <2>1. Normalized(<<>>) = <<>> /\ Scan(<<>>, p) = From(p) /\ Y(<<>>) = Begin(p) /\ <<>> \in Seq(Byte)
    BY <1>1, NormalizedLaws, ScanLaws, ParseLaws
  <2>2. Begin(p).rest = <<>> /\ Begin(p).panel = p
    BY StParts
  <2>. HIDE DEF Y
  <2>. QED
    BY <2>1, <2>2 DEF From
<1>3. ASSUME NEW s \in Seq(Byte), NEW b \in Byte, s \in S PROVE Append(s, b) \in S
  <2>. DEFINE n == Normalized(s)
  <2>1. n \in Seq(Byte) /\ Append(s, b) \in Seq(Byte) /\ Plain(b) \in Byte
    BY NormalizedLaws DEF Plain, Byte
  <2>2. Y(s) \in State /\ Y(Append(s, b)) = ParseByte(Y(s), b)
    BY <1>1, ParseLaws
  <2>3. Scan(n, p) = Both(s)
    BY <1>3
  <2>4. s # <<>> => Y(s).last = s[Len(s)]
    BY <1>1, ParseLast
  <2>5. s = <<>> => Y(s).last = "N"
    BY <1>1, ParseLaws, StParts
  <2>6. Both(Append(s, b)) = IF b = "N" /\ Y(s).last = "C" THEN Both(s) ELSE ScanByte(Both(s), Plain(b))
    <3>. HIDE DEF Y
    <3>. QED
      BY <2>2, ScanIsParse
  <2>7. Normalized(Append(s, b)) = IF b = "N" /\ s # <<>> /\ s[Len(s)] = "C" THEN n ELSE Append(n, Plain(b))
    BY NormalizedLaws DEF Plain
  <2>8. Scan(Append(n, Plain(b)), p) = ScanByte(Scan(n, p), Plain(b))
    BY <2>1, ScanLaws
  <2>9. (b = "N" /\ Y(s).last = "C") <=> (b = "N" /\ s # <<>> /\ s[Len(s)] = "C")
    BY <2>4, <2>5
  <2>. HIDE DEF n, Both, Y
  <2>10. Scan(Normalized(Append(s, b)), p) = Both(Append(s, b))
    BY <2>3, <2>6, <2>7, <2>8, <2>9
  <2>. QED
    BY <2>1, <2>10
<1>4. \A s \in Seq(Byte) : s \in S
  <2>. HIDE DEF S
  <2>. QED
    BY <1>2, <1>3, SeqInSet
<1>. HIDE DEF Y
<1>5. ASSUME NEW s \in Seq(Byte) PROVE DrainSSEBuffer(s, p) = Both(s)
  <2>1. Normalized(s) \in Seq(Byte)
    BY NormalizedLaws
  <2>2. DrainSSEBuffer(s, p) = Scan(Normalized(s), p)
    BY <2>1, DrainIs
  <2>. QED
    BY <1>4, <2>2
<1>. QED
  BY <1>5 DEF Y

\* Parsing a single byte.
LEMMA ParseOne ==
  ASSUME NEW x \in State, NEW b \in Byte
  PROVE  Parse(x, <<b>>) = ParseByte(x, b)
<1>. DEFINE nil == <<>>
<1>1. nil \in Seq(Byte) /\ Append(nil, b) = <<b>>
  OBVIOUS
<1>2. Parse(x, nil) = x
  BY ParseLaws
<1>. HIDE DEF nil
<1>3. Parse(x, Append(nil, b)) = ParseByte(Parse(x, nil), b)
  BY <1>1, ParseLaws, Zenon
<1>. QED
  BY <1>1, <1>2, <1>3, Zenon

\* Two parsers that differ in the last byte only, and not where that matters.
LEMMA ParseFrom ==
  ASSUME NEW x \in State, NEW y \in State, x.rest = y.rest, x.panel = y.panel,
         NEW s \in Seq(Byte), s # <<>>, s[1] = "N" => x.last # "C" /\ y.last # "C"
  PROVE  Parse(x, s) = Parse(y, s)
<1>. DEFINE b == s[1]
            t == Tail(s)
<1>1. b \in Byte /\ t \in Seq(Byte) /\ <<>> \in Seq(Byte)
  OBVIOUS
<1>2. s = <<b>> \o t /\ <<b>> \in Seq(Byte)
  OBVIOUS
<1>3. ParseByte(x, b) = ParseByte(y, b)
  BY DEF ParseByte
<1>. DEFINE u == <<b>>
<1>. HIDE DEF b, t, u
<1>4. Parse(x, u) = ParseByte(x, b) /\ Parse(y, u) = ParseByte(y, b)
  BY <1>1, ParseOne DEF u
<1>5. s = u \o t /\ u \in Seq(Byte)
  BY <1>2 DEF u
<1>6. Parse(x, u \o t) = Parse(Parse(x, u), t) /\ Parse(y, u \o t) = Parse(Parse(y, u), t)
  BY <1>1, <1>5, ParseLaws
<1>. QED
  BY <1>3, <1>4, <1>5, <1>6

\* What a buffer may hold: no carriage returns, and no whole frame.
Kept(r) ==
  /\ \A i \in 1..Len(r) : r[i] # "C"
  /\ \A i \in 1..(Len(r) - 1) : ~(r[i] = "N" /\ r[i + 1] = "N")

\* One more byte in a buffer.
LEMMA KeptAppend ==
  ASSUME NEW r \in Seq(Byte), NEW b \in Byte
  PROVE  Kept(Append(r, b)) <=> Kept(r) /\ b # "C" /\ ~(b = "N" /\ EndsWithN(r))
<1>. DEFINE u == Append(r, b)
            n == Len(r)
<1>1. u \in Seq(Byte) /\ Len(u) = n + 1 /\ u[n + 1] = b /\ n \in Nat
  OBVIOUS
<1>2. \A i \in 1..n : u[i] = r[i]
  OBVIOUS
<1>3. EndsWithN(r) <=> n > 0 /\ r[n] = "N"
  BY DEF EndsWithN
<1>4. Kept(u) <=> /\ \A i \in 1..(n + 1) : u[i] # "C"
                  /\ \A i \in 1..n : ~(u[i] = "N" /\ u[i + 1] = "N")
  BY <1>1 DEF Kept
<1>5. Kept(r) <=> /\ \A i \in 1..n : r[i] # "C"
                  /\ \A i \in 1..(n - 1) : ~(r[i] = "N" /\ r[i + 1] = "N")
  BY DEF Kept
<1>. HIDE DEF u, n
<1>6. ASSUME Kept(u) PROVE Kept(r) /\ b # "C" /\ ~(b = "N" /\ EndsWithN(r))
  <2>1. \A i \in 1..n : r[i] # "C"
    BY <1>1, <1>2, <1>4, <1>6
  <2>2. ASSUME NEW i \in 1..(n - 1) PROVE ~(r[i] = "N" /\ r[i + 1] = "N")
    <3>1. i \in 1..n /\ i + 1 \in 1..n
      BY <1>1
    <3>. QED
      BY <1>2, <1>4, <1>6, <3>1
  <2>3. b # "C"
    BY <1>1, <1>4, <1>6
  <2>4. n > 0 => ~(u[n] = "N" /\ u[n + 1] = "N") /\ u[n] = r[n]
    BY <1>1, <1>2, <1>4, <1>6
  <2>. QED
    BY <1>1, <1>3, <1>5, <2>1, <2>2, <2>3, <2>4
<1>7. ASSUME Kept(r), b # "C", ~(b = "N" /\ EndsWithN(r)) PROVE Kept(u)
  <2>1. ASSUME NEW i \in 1..(n + 1) PROVE u[i] # "C"
    <3>1. i = n + 1 \/ i \in 1..n
      BY <1>1
    <3>. QED
      BY <1>1, <1>2, <1>5, <1>7, <3>1
  <2>2. ASSUME NEW i \in 1..n PROVE ~(u[i] = "N" /\ u[i + 1] = "N")
    <3>1. CASE i = n
      BY <1>1, <1>2, <1>3, <1>7, <3>1
    <3>2. CASE i \in 1..(n - 1)
      <4>1. i + 1 \in 1..n
        BY <1>1, <3>2
      <4>. QED
        BY <1>2, <1>5, <1>7, <3>2, <4>1
    <3>. QED
      BY <1>1, <3>1, <3>2
  <2>. QED
    BY <1>4, <2>1, <2>2
<1>. QED
  BY <1>6, <1>7 DEF u

\* Parsing keeps the buffer so.
LEMMA ParseKeeps ==
  ASSUME NEW x \in State, Kept(x.rest)
  PROVE  \A s \in Seq(Byte) : Kept(Parse(x, s).rest)
<1>. DEFINE S == {s \in Seq(Byte) : Kept(Parse(x, s).rest)}
<1>1. <<>> \in S
  BY ParseLaws
<1>2. ASSUME NEW s \in Seq(Byte), NEW b \in Byte, s \in S PROVE Append(s, b) \in S
  <2>. DEFINE y == Parse(x, s)
  <2>1. y \in State /\ Parse(x, Append(s, b)) = ParseByte(y, b) /\ Append(s, b) \in Seq(Byte) /\ Kept(y.rest)
    BY <1>2, ParseLaws
  <2>. HIDE DEF y
  <2>2. y.rest \in Seq(Byte) /\ Plain(b) \in Byte /\ Plain(b) # "C"
    BY <2>1, StParts DEF Plain, Byte
  <2>3. Kept(<<>>)
    BY DEF Kept
  <2>4. ~(Plain(b) = "N" /\ EndsWithN(y.rest)) => Kept(Append(y.rest, Plain(b)))
    BY <2>1, <2>2, KeptAppend
  <2>5. Kept(ParseByte(y, b).rest)
    BY <2>1, <2>3, <2>4, StParts DEF ParseByte
  <2>. QED
    BY <2>1, <2>5
<1>3. \A s \in Seq(Byte) : s \in S
  <2>. HIDE DEF S
  <2>. QED
    BY <1>1, <1>2, SeqInSet
<1>. QED
  BY <1>3

\* Parsing what the buffer holds gives it back.
LEMMA ParseKept ==
  ASSUME NEW p \in Panel
  PROVE  \A r \in Seq(Byte) : Kept(r) =>
           LET y == Parse(Begin(p), r) IN y.rest = r /\ y.panel = p /\ y.last # "C"
<1>. DEFINE Y(r) == Parse(Begin(p), r)
            S == {r \in Seq(Byte) : Kept(r) => Y(r).rest = r /\ Y(r).panel = p /\ Y(r).last # "C"}
<1>0. Begin(p) \in State
  BY StParts
<1>1. <<>> \in S
  BY <1>0, ParseLaws, StParts
<1>2. ASSUME NEW r \in Seq(Byte), NEW b \in Byte, r \in S PROVE Append(r, b) \in S
  <2>1. Append(r, b) \in Seq(Byte)
    OBVIOUS
  <2>. SUFFICES ASSUME Kept(Append(r, b))
                PROVE  Y(Append(r, b)).rest = Append(r, b) /\ Y(Append(r, b)).panel = p /\ Y(Append(r, b)).last # "C"
    BY <2>1
  <2>2. Kept(r) /\ b # "C" /\ ~(b = "N" /\ EndsWithN(r))
    BY KeptAppend
  <2>3. Y(r).rest = r /\ Y(r).panel = p /\ Y(r).last # "C"
    BY <1>2, <2>2
  <2>4. Y(Append(r, b)) = ParseByte(Y(r), b)
    BY <1>0, ParseLaws
  <2>. HIDE DEF Y
  <2>5. ParseByte(Y(r), b) = St(Append(r, b), p, b)
    BY <2>2, <2>3 DEF ParseByte, Plain
  <2>6. /\ ParseByte(Y(r), b).rest = Append(r, b)
        /\ ParseByte(Y(r), b).panel = p
        /\ ParseByte(Y(r), b).last = b
    BY <2>5 DEF St
  <2>. QED
    BY <2>2, <2>4, <2>6
<1>3. \A r \in Seq(Byte) : r \in S
  <2>. HIDE DEF S
  <2>. QED
    BY <1>1, <1>2, SeqInSet
<1>. QED
  BY <1>3

\* A read: the buffer with the new bytes behind it is drained as if the parser
\* had gone on from the buffer.
LEMMA DrainGoesOn ==
  ASSUME NEW r \in Seq(Byte), Kept(r), NEW p \in Panel, NEW s \in Seq(Byte), s # <<>>
  PROVE  DrainSSEBuffer(r \o s, p) = [rest  |-> Parse(St(r, p, "N"), s).rest,
                                      panel |-> Parse(St(r, p, "N"), s).panel]
<1>. DEFINE y == Parse(Begin(p), r)
            x == St(r, p, "N")
<1>1. Begin(p) \in State /\ x \in State /\ "N" \in Byte
  BY StParts DEF Byte
<1>2. y \in State /\ y.rest = r /\ y.panel = p /\ y.last # "C"
  BY <1>1, ParseLaws, ParseKept
<1>3. x.rest = r /\ x.panel = p /\ x.last = "N"
  BY StParts
<1>4. r \o s \in Seq(Byte) /\ Parse(Begin(p), r \o s) = Parse(y, s)
  BY <1>1, ParseLaws
<1>. HIDE DEF x, y
<1>5. Parse(y, s) = Parse(x, s)
  BY <1>1, <1>2, <1>3, ParseFrom
<1>6. DrainSSEBuffer(r \o s, p) = [rest |-> Parse(Begin(p), r \o s).rest, panel |-> Parse(Begin(p), r \o s).panel]
  BY <1>4, DrainIsParse
<1>. QED
  BY <1>4, <1>5, <1>6 DEF x

-----------------------------------------------------------------------------
(* What a block of bytes can do to the panel                               *)

\* There is no b in s.
Without(s, b) == \A i \in 1..Len(s) : s[i] # b
\* The line being read begins with b.
Heads(f, b) == f.line # <<>> /\ f.line[1] = b

\* A text without a byte, one byte more and one text after the other.
LEMMA WithoutLaws ==
  ASSUME NEW b \in Byte, NEW s \in Seq(Byte)
  PROVE  /\ Without(<<>>, b)
         /\ \A c \in Byte : Without(Append(s, c), b) <=> Without(s, b) /\ c # b
         /\ \A t \in Seq(Byte) : Without(s \o t, b) <=> Without(s, b) /\ Without(t, b)
<1>1. Without(<<>>, b)
  BY DEF Without
<1>2. ASSUME NEW c \in Byte PROVE Without(Append(s, c), b) <=> Without(s, b) /\ c # b
  <2>. DEFINE u == Append(s, c)
              n == Len(s)
  <2>1. Len(u) = n + 1 /\ u[n + 1] = c /\ n \in Nat /\ \A i \in 1..n : u[i] = s[i]
    OBVIOUS
  <2>. HIDE DEF u
  <2>2. Without(u, b) <=> \A i \in 1..(n + 1) : u[i] # b
    BY <2>1 DEF Without
  <2>3. Without(s, b) <=> \A i \in 1..n : s[i] # b
    BY DEF Without
  <2>. HIDE DEF n
  <2>4. \A i \in 1..(n + 1) : i = n + 1 \/ i \in 1..n
    BY <2>1
  <2>5. n + 1 \in 1..(n + 1) /\ \A i \in 1..n : i \in 1..(n + 1)
    BY <2>1
  <2>6. Without(u, b) <=> Without(s, b) /\ c # b
    BY <2>1, <2>2, <2>3, <2>4, <2>5, Zenon
  <2>. QED
    BY <2>6 DEF u
<1>3. ASSUME NEW t \in Seq(Byte) PROVE Without(s \o t, b) <=> Without(s, b) /\ Without(t, b)
  <2>. DEFINE u == s \o t
              n == Len(s)
              m == Len(t)
  <2>1. Len(u) = n + m /\ n \in Nat /\ m \in Nat
    OBVIOUS
  <2>2. \A i \in 1..n : u[i] = s[i]
    OBVIOUS
  <2>3. \A i \in 1..m : u[n + i] = t[i]
    OBVIOUS
  <2>. HIDE DEF u
  <2>4. Without(u, b) <=> \A i \in 1..(n + m) : u[i] # b
    BY <2>1 DEF Without
  <2>5. (Without(s, b) <=> \A i \in 1..n : s[i] # b) /\ (Without(t, b) <=> \A i \in 1..m : t[i] # b)
    BY DEF Without
  <2>. HIDE DEF n, m
  <2>6. \A i \in 1..(n + m) : i \in 1..n \/ (i - n \in 1..m /\ n + (i - n) = i)
    BY <2>1
  <2>7. (\A i \in 1..n : i \in 1..(n + m)) /\ (\A i \in 1..m : n + i \in 1..(n + m))
    BY <2>1
  <2>8. Without(u, b) => Without(s, b) /\ Without(t, b)
    BY <2>2, <2>3, <2>4, <2>5, <2>7
  <2>9. Without(s, b) /\ Without(t, b) => Without(u, b)
    <3>. SUFFICES ASSUME Without(s, b), Without(t, b), NEW i \in 1..(n + m) PROVE u[i] # b
      BY <2>4
    <3>1. CASE i \in 1..n
      BY <2>2, <2>5, <3>1
    <3>2. CASE i - n \in 1..m /\ n + (i - n) = i
      BY <2>3, <2>5, <3>2
    <3>. QED
      BY <2>6, <3>1, <3>2
  <2>. QED
    BY <2>8, <2>9 DEF u
<1>. QED
  BY <1>1, <1>2, <1>3

\* How a text ends.
LEMMA EndsWithLast ==
  ASSUME NEW s \in Seq(Byte), NEW c \in Byte
  PROVE  EndsWithN(Append(s, c)) <=> c = "N"
BY DEF EndsWithN

\* A byte of a block: within a line and at its end.
LEMMA FrameByteIs ==
  ASSUME NEW f \in Frame, NEW b \in Byte
  PROVE  LET g == FrameByte(f, b)
         IN  /\ b # "N" => /\ g.name = f.name /\ g.data = f.data
                           /\ g.line = Append(f.line, b)
                           /\ g.line # <<>> /\ g.line[1] = IF f.line = <<>> THEN b ELSE f.line[1]
             /\ b = "N" => /\ g.name = (IF Heads(f, "E") THEN "chunk" ELSE IF Heads(f, "F") THEN "done" ELSE f.name)
                           /\ g.data = (IF Heads(f, "D") THEN Append(f.data, Tail(f.line)) ELSE f.data)
                           /\ g.line = <<>>
<1>1. f.line \in Seq(Byte)
  BY DEF Frame
<1>2. CASE b = "N"
  <2>1. FrameByte(f, b) = EndLine(f)
    BY <1>2 DEF FrameByte
  <2>2. EndLine(f).name = IF Heads(f, "E") THEN "chunk" ELSE IF Heads(f, "F") THEN "done" ELSE f.name
    BY DEF EndLine, Heads
  <2>3. EndLine(f).data = IF Heads(f, "D") THEN Append(f.data, Tail(f.line)) ELSE f.data
    BY DEF EndLine, Heads
  <2>4. EndLine(f).line = <<>>
    BY DEF EndLine
  <2>. QED
    BY <1>2, <2>1, <2>2, <2>3, <2>4
<1>3. CASE b # "N"
  <2>1. FrameByte(f, b) = [f EXCEPT !.line = Append(@, b)]
    BY <1>3 DEF FrameByte
  <2>2. /\ FrameByte(f, b).name = f.name /\ FrameByte(f, b).data = f.data
        /\ FrameByte(f, b).line = Append(f.line, b)
    BY <2>1 DEF Frame
  <2>3. Append(f.line, b) # <<>> /\ Append(f.line, b)[1] = IF f.line = <<>> THEN b ELSE f.line[1]
    <3>. DEFINE l == f.line
    <3>1. l \in Seq(Byte)
      BY <1>1
    <3>. HIDE DEF l
    <3>2. Append(l, b) # <<>>
      BY <3>1
    <3>3. l = <<>> => Append(l, b)[1] = b
      BY <3>1
    <3>4. l # <<>> => Append(l, b)[1] = l[1]
      BY <3>1
    <3>. QED
      BY <3>2, <3>3, <3>4 DEF l
  <2>. QED
    BY <1>3, <2>2, <2>3
<1>. QED
  BY <1>2, <1>3

\* A block has at most one data line for every prefix of one in it.
LEMMA ReadCount ==
  \A s \in Seq(Byte) : Len(Read(s).data) <= Count(s)
<1>. DEFINE Bound(f, n) == Len(f.data) <= n /\ (Heads(f, "D") => Len(f.data) + 1 <= n)
            S == {s \in Seq(Byte) : Bound(Read(s), Count(s))}
<1>1. <<>> \in S
  <2>1. Read(<<>>).data = <<>> /\ Read(<<>>).line = <<>> /\ Count(<<>>) = 0
    BY ReadLaws, CountLaws DEF Start
  <2>2. Len(<<>>) <= 0 /\ <<>> \in Seq(Byte)
    OBVIOUS
  <2>. QED
    BY <2>1, <2>2 DEF Heads
<1>2. ASSUME NEW s \in Seq(Byte), NEW b \in Byte, s \in S PROVE Append(s, b) \in S
  <2>. DEFINE f == Read(s)
              g == Read(Append(s, b))
              n == Count(s)
              m == Count(Append(s, b))
              a == Len(f.data)
  <2>1. f \in Frame /\ g = FrameByte(f, b) /\ Append(s, b) \in Seq(Byte)
    BY ReadLaws
  <2>2. m = (IF b = "D" THEN n + 1 ELSE n) /\ n \in Nat
    BY CountLaws
  <2>3. a <= n /\ (Heads(f, "D") => a + 1 <= n)
    BY <1>2
  <2>4. f.data \in Seq(Seq(Byte)) /\ f.line \in Seq(Byte)
    BY <2>1 DEF Frame
  <2>. HIDE DEF f, g, n, m
  <2>5. a \in Nat /\ Len(Append(f.data, Tail(f.line))) = a + 1
    BY <2>4
  <2>6. CASE b = "N"
    <3>1. g.data = (IF Heads(f, "D") THEN Append(f.data, Tail(f.line)) ELSE f.data) /\ ~Heads(g, "D")
      BY <2>1, <2>6, FrameByteIs DEF Heads
    <3>2. Len(g.data) = IF Heads(f, "D") THEN a + 1 ELSE a
      BY <2>5, <3>1
    <3>3. Bound(g, m)
      BY <2>2, <2>3, <2>6, <3>1, <3>2
    <3>. QED
      BY <2>1, <3>3 DEF g, m
  <2>7. CASE b # "N"
    <3>1. g.data = f.data /\ (Heads(g, "D") <=> IF f.line = <<>> THEN b = "D" ELSE Heads(f, "D"))
      BY <2>1, <2>7, FrameByteIs DEF Heads
    <3>2. Len(g.data) = a /\ (Heads(g, "D") => b = "D" \/ Heads(f, "D"))
      BY <3>1
    <3>. HIDE DEF a
    <3>3. a <= m /\ (b = "D" \/ Heads(f, "D") => a + 1 <= m)
      BY <2>2, <2>3, <2>5
    <3>4. Bound(g, m)
      BY <3>2, <3>3
    <3>. QED
      BY <2>1, <3>4 DEF g, m
  <2>. QED
    BY <2>6, <2>7
<1>3. \A s \in Seq(Byte) : s \in S
  <2>. HIDE DEF S
  <2>. QED
    BY <1>1, <1>2, SeqInSet
<1>. QED
  BY <1>3

\* A block without the final frame's event line is not the final frame.
LEMMA ReadLive ==
  \A s \in Seq(Byte) : Without(s, "F") => Read(s).name # "done"
<1>. DEFINE S == {s \in Seq(Byte) : Without(s, "F") => Read(s).name # "done" /\ ~Heads(Read(s), "F")}
<1>0. "F" \in Byte
  BY DEF Byte
<1>1. <<>> \in S
  BY ReadLaws DEF Start, Heads
<1>2. ASSUME NEW s \in Seq(Byte), NEW b \in Byte, s \in S PROVE Append(s, b) \in S
  <2>. DEFINE f == Read(s)
              g == Read(Append(s, b))
  <2>1. f \in Frame /\ g = FrameByte(f, b) /\ Append(s, b) \in Seq(Byte)
    BY ReadLaws
  <2>. HIDE DEF f, g
  <2>. SUFFICES ASSUME Without(Append(s, b), "F") PROVE g.name # "done" /\ ~Heads(g, "F")
    BY <2>1 DEF g
  <2>2. Without(s, "F") /\ b # "F"
    BY <1>0, WithoutLaws
  <2>3. f.name # "done" /\ ~Heads(f, "F")
    BY <1>2, <2>2 DEF f
  <2>. QED
    BY <2>1, <2>2, <2>3, FrameByteIs DEF Heads
<1>3. \A s \in Seq(Byte) : s \in S
  <2>. HIDE DEF S
  <2>. QED
    BY <1>1, <1>2, SeqInSet
<1>. QED
  BY <1>3

\* What an event adds to the panel.
LEMMA EventIs ==
  ASSUME NEW p \in Panel, NEW s \in Seq(Byte)
  PROVE  /\ Event(p, Read(s)) \in Panel
         /\ Len(Event(p, Read(s)).lines) <= Len(p.lines) + Count(s)
         /\ Without(s, "F") => Event(p, Read(s)).state = p.state
<1>. DEFINE f == Read(s)
<1>1. f \in Frame /\ f.data \in Seq(Seq(Byte)) /\ Len(f.data) \in Nat
  BY ReadLaws DEF Frame
<1>2. p.lines \in Seq(Seq(Byte)) /\ Len(p.lines) \in Nat
  BY DEF Panel
<1>3. Count(s) \in Nat /\ Len(f.data) <= Count(s)
  BY CountLaws, ReadCount
<1>4. Without(s, "F") => f.name # "done"
  BY ReadLive
<1>5. Event(p, f) \in Panel
  BY EventType
<1>. HIDE DEF f
<1>6. Len(Joined(p.lines, f.data)) <= Len(p.lines) + Len(f.data)
  <2>1. CASE p.lines # <<>> /\ p.lines[Len(p.lines)] = <<>>
    <3>1. Joined(p.lines, f.data) = SubSeq(p.lines, 1, Len(p.lines) - 1) \o f.data
      BY <2>1 DEF Joined
    <3>2. /\ SubSeq(p.lines, 1, Len(p.lines) - 1) \in Seq(Seq(Byte))
          /\ Len(SubSeq(p.lines, 1, Len(p.lines) - 1)) = Len(p.lines) - 1
      BY <1>2, <2>1
    <3>. QED
      BY <1>1, <1>2, <3>1, <3>2
  <2>2. CASE ~(p.lines # <<>> /\ p.lines[Len(p.lines)] = <<>>)
    <3>1. Joined(p.lines, f.data) = p.lines \o f.data
      BY <2>2 DEF Joined
    <3>. QED
      BY <1>1, <1>2, <3>1
  <2>. QED
    BY <2>1, <2>2
<1>7. CASE f.data = <<>>
  <2>1. Event(p, f) = p
    BY <1>7 DEF Event
  <2>. QED
    BY <1>2, <1>3, <1>5, <2>1 DEF f
<1>8. CASE f.data # <<>>
  <2>1. Event(p, f) = OnEvent(p, f)
    BY <1>8 DEF Event
  <2>2. Event(p, f).lines = (IF f.name = "chunk" THEN Joined(p.lines, f.data) ELSE p.lines)
    BY <1>1, <2>1, OnEventIs
  <2>3. Len(Event(p, f).lines) <= Len(p.lines) + Count(s)
    <3>1. CASE f.name = "chunk"
      <4>1. Len(Event(p, f).lines) <= Len(p.lines) + Len(f.data)
        BY <1>6, <2>2, <3>1
      <4>2. Len(Event(p, f).lines) \in Nat
        BY <1>5 DEF Panel
      <4>3. \A a, b, c, d \in Nat : a <= b + c /\ c <= d => a <= b + d
        OBVIOUS
      <4>. QED
        BY <1>1, <1>2, <1>3, <4>1, <4>2, <4>3, Zenon
    <3>2. CASE f.name # "chunk"
      BY <1>2, <1>3, <2>2, <3>2
    <3>. QED
      BY <3>1, <3>2
  <2>4. Without(s, "F") => Event(p, f).state = p.state
    BY <1>1, <1>4, <2>1, OnEventIs
  <2>. QED
    BY <1>5, <2>3, <2>4 DEF f
<1>. QED
  BY <1>7, <1>8

-----------------------------------------------------------------------------
(* What the parser has at a position of the stream, however it got there   *)

\* Before the final frame: never more lines than data lines were begun; no
\* trace of the final frame; and a frame that has ended is gone.
Before(s, p, r, w) ==
  /\ Len(w.lines) + Count(r) <= Count(SubSeq(s, 1, p))
  /\ Without(r, "F") /\ w.state = "live"
  /\ p > 0 /\ s[p] \in {"N", "C"} => r = <<>> \/ EndsWithN(r)
  /\ p > 1 /\ s[p - 1] = "N" /\ s[p] = "N" => r \in {<<>>, <<"N">>}

\* A byte before the final frame.
LEMMA BeforeStep ==
  ASSUME NEW s \in Seq(Byte), NEW p \in 0..(Len(s) - 1), s[p + 1] # "F",
         NEW x \in State, x.last = "C" => p > 0 /\ s[p] = "C", Before(s, p, x.rest, x.panel)
  PROVE  LET y == ParseByte(x, s[p + 1]) IN Before(s, p + 1, y.rest, y.panel)
<1>. DEFINE b == s[p + 1]
            y == ParseByte(x, b)
            r == x.rest
            w == x.panel
            pre == SubSeq(s, 1, p)
            m == Count(pre)
            n == Len(w.lines)
<1>1. b \in Byte /\ b # "F" /\ p \in Nat
  OBVIOUS
<1>2. pre \in Seq(Byte) /\ SubSeq(s, 1, p + 1) = Append(pre, b)
  OBVIOUS
<1>3. r \in Seq(Byte) /\ w \in Panel
  BY StParts
<1>4. n \in Nat /\ m \in Nat /\ Count(r) \in Nat /\ n + Count(r) <= m
  <2>1. n \in Nat
    BY <1>3 DEF Panel
  <2>2. m \in Nat /\ Count(r) \in Nat
    BY <1>2, <1>3, CountLaws
  <2>3. n + Count(r) <= m
    BY DEF Before
  <2>. QED
    BY <2>1, <2>2, <2>3
<1>5. Count(SubSeq(s, 1, p + 1)) = IF b = "D" THEN m + 1 ELSE m
  BY <1>1, <1>2, CountLaws
<1>6. /\ Without(r, "F") /\ w.state = "live"
      /\ p > 0 /\ s[p] \in {"N", "C"} => r = <<>> \/ EndsWithN(r)
  BY DEF Before
<1>7. p + 1 > 0 /\ (p + 1) - 1 = p /\ (p + 1 > 1 <=> p > 0)
  BY <1>1
<1>8. "F" \in Byte /\ "N" \in Byte /\ "C" \in Byte
  BY DEF Byte
<1>9. x.last = "C" => p > 0 /\ s[p] = "C"
  OBVIOUS
<1>10. SUFFICES
         /\ Len(y.panel.lines) + Count(y.rest) <= IF b = "D" THEN m + 1 ELSE m
         /\ Without(y.rest, "F") /\ y.panel.state = "live"
         /\ b \in {"N", "C"} => y.rest = <<>> \/ EndsWithN(y.rest)
         /\ p > 0 /\ s[p] = "N" /\ b = "N" => y.rest \in {<<>>, <<"N">>}
  BY <1>5, <1>7 DEF Before
<1>. HIDE DEF b, y, m, pre
<1>11. CASE b = "N" /\ x.last = "C"
  <2>1. y.rest = r /\ y.panel = w
    BY <1>11, StParts DEF ParseByte, y
  <2>2. s[p] = "C" /\ p > 0
    BY <1>9, <1>11
  <2>. QED
    BY <1>4, <1>6, <1>11, <2>1, <2>2
<1>12. CASE ~(b = "N" /\ x.last = "C") /\ Plain(b) = "N" /\ EndsWithN(r)
  <2>1. y.rest = <<>> /\ y.panel = Event(w, Read(r))
    BY <1>12, StParts DEF ParseByte, y
  <2>2. /\ y.panel \in Panel
        /\ Len(y.panel.lines) <= n + Count(r)
        /\ y.panel.state = w.state
    BY <1>3, <1>6, <2>1, EventIs
  <2>3. Len(y.panel.lines) \in Nat /\ Count(y.rest) = 0 /\ Without(y.rest, "F")
    BY <1>3, <1>8, <2>1, <2>2, CountLaws, WithoutLaws DEF Panel
  <2>4. b # "D"
    BY <1>12 DEF Plain
  <2>. QED
    BY <1>4, <1>6, <2>1, <2>2, <2>3, <2>4
<1>13. CASE ~(b = "N" /\ x.last = "C") /\ ~(Plain(b) = "N" /\ EndsWithN(r))
  <2>. DEFINE c == Plain(b)
  <2>1. c \in Byte /\ c # "F" /\ (c = "D" <=> b = "D") /\ (b \in {"N", "C"} => c = "N")
    BY <1>1, <1>8 DEF Plain
  <2>. HIDE DEF c
  <2>2. y.rest = Append(r, c) /\ y.panel = w
    BY <1>13 DEF ParseByte, y, c, St
  <2>3. Count(y.rest) = IF b = "D" THEN Count(r) + 1 ELSE Count(r)
    BY <1>3, <2>1, <2>2, CountLaws
  <2>4. n + Count(y.rest) <= IF b = "D" THEN m + 1 ELSE m
    BY <1>4, <2>3
  <2>5. Without(y.rest, "F")
    BY <1>3, <1>6, <1>8, <2>1, <2>2, WithoutLaws
  <2>6. c = "N" => EndsWithN(y.rest)
    BY <1>3, <2>1, <2>2, EndsWithLast
  <2>7. p > 0 /\ s[p] = "N" /\ b = "N" => y.rest = <<"N">>
    <3>. SUFFICES ASSUME p > 0, s[p] = "N", b = "N" PROVE y.rest = <<"N">>
      OBVIOUS
    <3>1. c = "N" /\ r = <<>>
      BY <1>6, <1>13, <2>1 DEF c
    <3>. QED
      BY <2>2, <3>1
  <2>. QED
    BY <1>6, <2>1, <2>2, <2>4, <2>5, <2>6, <2>7
<1>. QED
  BY <1>11, <1>12, <1>13

\* What has come of the final frame, after what was left before it.
DonePart(l, k) ==
  CASE k = 0 -> l
    [] k = 1 -> Append(l, "F")
    [] k = 2 -> Append(Append(l, "F"), "N")
    [] k = 3 -> Append(Append(Append(l, "F"), "N"), "D")
    [] k = 4 -> Append(Append(Append(Append(l, "F"), "N"), "D"), "t")
    [] k = 5 -> Append(Append(Append(Append(Append(l, "F"), "N"), "D"), "t"), "N")

\* How the final frame comes, byte by byte.
LEMMA DonePartIs ==
  ASSUME NEW l \in Seq(Byte)
  PROVE  /\ \A k \in 0..5 : DonePart(l, k) \in Seq(Byte)
         /\ \A k \in 0..4 : /\ DonePart(l, k + 1) = Append(DonePart(l, k), DoneFrame[k + 1])
                            /\ DoneFrame[k + 1] = "N" => ~EndsWithN(DonePart(l, k))
         /\ DoneFrame[6] = "N" /\ EndsWithN(DonePart(l, 5))
         /\ \A k \in 1..6 : DoneFrame[k] \in Byte /\ DoneFrame[k] # "C"
<1>1. /\ DoneFrame[1] = "F" /\ DoneFrame[2] = "N" /\ DoneFrame[3] = "D"
      /\ DoneFrame[4] = "t" /\ DoneFrame[5] = "N" /\ DoneFrame[6] = "N"
  BY DEF DoneFrame
<1>2. "F" \in Byte /\ "N" \in Byte /\ "D" \in Byte /\ "t" \in Byte
  BY DEF Byte
<1>3. \A u \in Seq(Byte) : \A c \in Byte : Append(u, c) \in Seq(Byte) /\ (EndsWithN(Append(u, c)) <=> c = "N")
  BY EndsWithLast
<1>4. /\ DonePart(l, 0) = l
      /\ DonePart(l, 1) = Append(l, "F")
      /\ DonePart(l, 2) = Append(DonePart(l, 1), "N")
      /\ DonePart(l, 3) = Append(DonePart(l, 2), "D")
      /\ DonePart(l, 4) = Append(DonePart(l, 3), "t")
      /\ DonePart(l, 5) = Append(DonePart(l, 4), "N")
  BY DEF DonePart
<1>5. /\ DonePart(l, 0) \in Seq(Byte) /\ DonePart(l, 1) \in Seq(Byte) /\ DonePart(l, 2) \in Seq(Byte)
      /\ DonePart(l, 3) \in Seq(Byte) /\ DonePart(l, 4) \in Seq(Byte) /\ DonePart(l, 5) \in Seq(Byte)
  BY <1>2, <1>3, <1>4, Zenon
<1>6. ~EndsWithN(DonePart(l, 1)) /\ ~EndsWithN(DonePart(l, 4)) /\ EndsWithN(DonePart(l, 5))
  <2>1. "F" # "N" /\ "t" # "N" /\ l = DonePart(l, 0)
    BY <1>4
  <2>. QED
    BY <1>2, <1>3, <1>4, <1>5, <2>1
<1>7. \A k \in 0..5 : k = 0 \/ k = 1 \/ k = 2 \/ k = 3 \/ k = 4 \/ k = 5
  OBVIOUS
<1>8. \A k \in 0..5 : DonePart(l, k) \in Seq(Byte)
  BY <1>5, <1>7, Zenon
<1>9. ASSUME NEW k \in 0..4
      PROVE  /\ DonePart(l, k + 1) = Append(DonePart(l, k), DoneFrame[k + 1])
             /\ DoneFrame[k + 1] = "N" => ~EndsWithN(DonePart(l, k))
  <2>1. CASE k = 0
    BY <1>1, <1>4, <2>1
  <2>2. CASE k = 1
    BY <1>1, <1>4, <1>6, <2>2
  <2>3. CASE k = 2
    BY <1>1, <1>4, <2>3
  <2>4. CASE k = 3
    BY <1>1, <1>4, <2>4
  <2>5. CASE k = 4
    BY <1>1, <1>4, <1>6, <2>5
  <2>. QED
    BY <2>1, <2>2, <2>3, <2>4, <2>5
<1>10. \A k \in 1..6 : DoneFrame[k] \in Byte /\ DoneFrame[k] # "C"
  BY <1>1, <1>2
<1>. QED
  BY <1>1, <1>6, <1>8, <1>9, <1>10

\* The whole final frame reads as such.
LEMMA ReadDone ==
  ASSUME NEW l \in Seq(Byte), Read(l) = Start
  PROVE  Read(DonePart(l, 5)).name = "done" /\ Read(DonePart(l, 5)).data # <<>>
<1>. DEFINE P(k) == DonePart(l, k)
            f(k) == Read(P(k))
<1>1. P(0) \in Seq(Byte) /\ P(1) \in Seq(Byte) /\ P(2) \in Seq(Byte) /\ P(3) \in Seq(Byte) /\ P(4) \in Seq(Byte)
  BY DonePartIs
<1>2. /\ P(0) = l
      /\ P(1) = Append(P(0), "F") /\ P(2) = Append(P(1), "N") /\ P(3) = Append(P(2), "D")
      /\ P(4) = Append(P(3), "t") /\ P(5) = Append(P(4), "N")
  BY DEF DonePart
<1>3. "F" \in Byte /\ "N" \in Byte /\ "D" \in Byte /\ "t" \in Byte
  BY DEF Byte
<1>. HIDE DEF P
<1>4. f(0) = Start /\ f(0).line = <<>>
  BY <1>2 DEF Start
<1>5. f(0) \in Frame /\ f(1) \in Frame /\ f(2) \in Frame /\ f(3) \in Frame /\ f(4) \in Frame
  BY <1>1, ReadLaws
<1>6. /\ f(1) = FrameByte(f(0), "F") /\ f(2) = FrameByte(f(1), "N") /\ f(3) = FrameByte(f(2), "D")
      /\ f(4) = FrameByte(f(3), "t") /\ f(5) = FrameByte(f(4), "N")
  BY <1>1, <1>2, <1>3, ReadLaws
<1>. HIDE DEF f
<1>7. Heads(f(1), "F")
  BY <1>3, <1>4, <1>5, <1>6, FrameByteIs DEF Heads
<1>8. f(2).name = "done" /\ f(2).line = <<>>
  BY <1>3, <1>5, <1>6, <1>7, FrameByteIs DEF Heads
<1>9. f(3).name = "done" /\ Heads(f(3), "D")
  BY <1>3, <1>5, <1>6, <1>8, FrameByteIs DEF Heads
<1>10. f(4).name = "done" /\ Heads(f(4), "D")
  BY <1>3, <1>5, <1>6, <1>9, FrameByteIs DEF Heads
<1>11. f(5).name = "done" /\ f(5).data = Append(f(4).data, Tail(f(4).line))
  <2>1. ~Heads(f(4), "E") /\ ~Heads(f(4), "F")
    BY <1>10 DEF Heads
  <2>2. /\ f(5).name = (IF Heads(f(4), "E") THEN "chunk" ELSE IF Heads(f(4), "F") THEN "done" ELSE f(4).name)
        /\ f(5).data = (IF Heads(f(4), "D") THEN Append(f(4).data, Tail(f(4).line)) ELSE f(4).data)
    BY <1>3, <1>5, <1>6, FrameByteIs
  <2>. QED
    BY <1>10, <2>1, <2>2
<1>12. Append(f(4).data, Tail(f(4).line)) # <<>>
  <2>1. f(4).data \in Seq(Seq(Byte)) /\ Tail(f(4).line) \in Seq(Byte)
    BY <1>5, <1>10 DEF Frame, Heads
  <2>. QED
    BY <2>1
<1>. QED
  BY <1>11, <1>12 DEF f, P

\* Within the final frame, k bytes of it have come; with the last one the
\* panel shows that the log has ended.
After(s, q, k, r, w) ==
  /\ Len(w.lines) <= Count(SubSeq(s, 1, q))
  /\ k < 6 => w.state = "live" /\ \E l \in {<<>>, <<"N">>} : r = DonePart(l, k)
  /\ k = 6 => w.state = "done" /\ r = <<>>

\* At p bytes of s, of which q come before the final frame.
At(s, q, p, r, w) == (p <= q => Before(s, p, r, w)) /\ (p > q => After(s, q, p - q, r, w))

\* The first q bytes of s are before the final frame, and nothing else follows.
Wire(s, q) ==
  /\ q \in Nat /\ q > 1 /\ q <= Len(s)
  /\ s[q - 1] = "N" /\ s[q] = "N"
  /\ \A i \in 1..q : s[i] # "F"
  /\ Len(s) = q \/ (Len(s) = q + 6 /\ \A k \in 1..6 : s[q + k] = DoneFrame[k])

\* Nothing, or a single newline, reads as an empty frame.
LEMMA ReadNothing ==
  \A l \in {<<>>, <<"N">>} : l \in Seq(Byte) /\ Read(l) = Start
<1>1. <<>> \in Seq(Byte) /\ Read(<<>>) = Start
  BY ReadLaws
<1>2. <<"N">> \in Seq(Byte) /\ Read(<<"N">>) = Start
  <2>. DEFINE nil == <<>>
  <2>1. nil \in Seq(Byte) /\ Append(nil, "N") = <<"N">> /\ "N" \in Byte
    BY DEF Byte
  <2>2. Read(nil) = Start
    BY ReadLaws
  <2>. HIDE DEF nil
  <2>3. Read(Append(nil, "N")) = FrameByte(Read(nil), "N")
    BY <2>1, ReadLaws, Zenon
  <2>4. FrameByte(Start, "N") = Start
    BY DEF FrameByte, EndLine, Start
  <2>5. Append(nil, "N") \in Seq(Byte)
    BY <2>1
  <2>. QED
    BY <2>1, <2>2, <2>3, <2>4, <2>5, Zenon
<1>. QED
  BY <1>1, <1>2

\* A byte of the final frame.
LEMMA AfterStep ==
  ASSUME NEW s, NEW q, NEW k \in 0..5, NEW l \in {<<>>, <<"N">>},
         NEW x \in State, x.rest = DonePart(l, k), x.panel.state = "live", x.last # "C",
         Len(x.panel.lines) <= Count(SubSeq(s, 1, q))
  PROVE  LET y == ParseByte(x, DoneFrame[k + 1]) IN After(s, q, k + 1, y.rest, y.panel)
<1>. DEFINE b == DoneFrame[k + 1]
            y == ParseByte(x, b)
            r == x.rest
<1>1. l \in Seq(Byte) /\ Read(l) = Start
  BY ReadNothing
<1>2. b \in Byte /\ b # "C"
  <2>1. \A i \in 1..6 : DoneFrame[i] \in Byte /\ DoneFrame[i] # "C"
    BY <1>1, DonePartIs, Zenon
  <2>2. k + 1 \in 1..6
    OBVIOUS
  <2>. QED
    BY <2>1, <2>2, Zenon
<1>3. Plain(b) = b
  BY <1>2 DEF Plain
<1>4. CASE k < 5
  <2>1. k \in 0..4 /\ k + 1 < 6
    BY <1>4
  <2>2. DonePart(l, k + 1) = Append(r, b) /\ (b = "N" => ~EndsWithN(r))
    <3>1. \A i \in 0..4 : /\ DonePart(l, i + 1) = Append(DonePart(l, i), DoneFrame[i + 1])
                          /\ DoneFrame[i + 1] = "N" => ~EndsWithN(DonePart(l, i))
      BY <1>1, DonePartIs, Zenon
    <3>2. r = DonePart(l, k)
      OBVIOUS
    <3>. QED
      BY <2>1, <3>1, <3>2, Zenon
  <2>. HIDE DEF b
  <2>3. y = St(Append(r, b), x.panel, b)
    BY <1>3, <2>2 DEF ParseByte
  <2>4. y.rest = DonePart(l, k + 1) /\ y.panel = x.panel
    BY <2>2, <2>3 DEF St
  <2>5. After(s, q, k + 1, y.rest, y.panel)
    BY <2>1, <2>4 DEF After
  <2>. QED
    BY <2>5 DEF b
<1>5. CASE k = 5
  <2>1. b = "N" /\ EndsWithN(r) /\ k + 1 = 6
    BY <1>1, <1>5, DonePartIs
  <2>2. Read(r).name = "done" /\ Read(r).data # <<>>
    BY <1>1, <1>5, ReadDone
  <2>3. r \in Seq(Byte) /\ x.panel \in Panel /\ Read(r) \in Frame
    BY StParts, ReadLaws
  <2>. HIDE DEF b
  <2>4. y.rest = <<>> /\ y.panel = Event(x.panel, Read(r))
    BY <1>3, <2>1, StParts DEF ParseByte
  <2>5. y.panel = OnEvent(x.panel, Read(r))
    BY <2>2, <2>4 DEF Event
  <2>6. y.panel.lines = x.panel.lines /\ y.panel.state = "done"
    BY <2>2, <2>3, <2>5, OnEventIs
  <2>7. After(s, q, k + 1, y.rest, y.panel)
    BY <2>1, <2>4, <2>6 DEF After
  <2>. QED
    BY <2>7 DEF b
<1>. QED
  BY <1>4, <1>5

\* A byte of the stream.
LEMMA AtStep ==
  ASSUME NEW s \in Seq(Byte), NEW q, Wire(s, q), NEW p \in 0..(Len(s) - 1),
         NEW x \in State, x.last = "C" => p > 0 /\ s[p] = "C", At(s, q, p, x.rest, x.panel)
  PROVE  LET y == ParseByte(x, s[p + 1]) IN At(s, q, p + 1, y.rest, y.panel)
<1>. DEFINE y == ParseByte(x, s[p + 1])
<1>1. q \in Nat /\ q > 1 /\ q <= Len(s) /\ p \in Nat /\ Len(s) \in Nat
  BY DEF Wire
<1>2. CASE p < q
  <2>1. p + 1 \in 1..q /\ p <= q /\ p + 1 <= q /\ ~(p + 1 > q)
    BY <1>1, <1>2
  <2>2. s[p + 1] # "F"
    BY <2>1 DEF Wire
  <2>3. Before(s, p, x.rest, x.panel)
    BY <2>1 DEF At
  <2>4. Before(s, p + 1, y.rest, y.panel)
    BY <2>2, <2>3, BeforeStep
  <2>. QED
    BY <2>1, <2>4 DEF At
<1>3. CASE p >= q
  <2>. DEFINE k == p - q
  <2>1. Len(s) = q + 6 /\ \A i \in 1..6 : s[q + i] = DoneFrame[i]
    BY <1>1, <1>3 DEF Wire
  <2>2. k \in 0..5 /\ k + 1 \in 1..6 /\ q + (k + 1) = p + 1 /\ p > 0
    BY <1>1, <1>3, <2>1
  <2>3. s[p + 1] = DoneFrame[k + 1]
    BY <2>1, <2>2
  <2>4. PICK l \in {<<>>, <<"N">>} : /\ x.rest = DonePart(l, k) /\ x.panel.state = "live"
                                     /\ Len(x.panel.lines) <= Count(SubSeq(s, 1, q))
    <3>1. CASE p = q
      <4>1. Before(s, q, x.rest, x.panel)
        BY <1>1, <3>1 DEF At
      <4>2. x.rest \in {<<>>, <<"N">>} /\ x.panel.state = "live"
        BY <1>1, <4>1 DEF Before, Wire
      <4>3. DonePart(x.rest, k) = x.rest
        BY <1>1, <3>1 DEF DonePart
      <4>4. Len(x.panel.lines) <= Count(SubSeq(s, 1, q))
        <5>. DEFINE a == Len(x.panel.lines)
                    c == Count(x.rest)
                    d == Count(SubSeq(s, 1, q))
        <5>1. a + c <= d
          BY <4>1 DEF Before
        <5>2. a \in Nat
          BY StParts DEF Panel
        <5>3. c \in Nat
          BY StParts, CountLaws
        <5>4. d \in Nat
          <6>1. SubSeq(s, 1, q) \in Seq(Byte)
            BY <1>1
          <6>. QED
            BY <6>1, CountLaws
        <5>. HIDE DEF a, c, d
        <5>5. a <= d
          BY <5>1, <5>2, <5>3, <5>4
        <5>. QED
          BY <5>5 DEF a, d
      <4>. QED
        BY <4>2, <4>3, <4>4
    <3>2. CASE p > q
      <4>1. After(s, q, k, x.rest, x.panel) /\ k < 6
        BY <2>2, <3>2 DEF At
      <4>. QED
        BY <4>1 DEF After
    <3>. QED
      BY <1>1, <1>3, <3>1, <3>2
  <2>5. s[p] # "C"
    <3>1. CASE p = q
      BY <3>1 DEF Wire
    <3>2. CASE p > q
      <4>1. k \in 1..6 /\ q + k = p
        BY <1>1, <2>2, <3>2
      <4>2. s[p] = DoneFrame[k]
        BY <2>1, <4>1
      <4>. QED
        BY <4>1, <4>2, DonePartIs, ReadNothing
    <3>. QED
      BY <1>1, <1>3, <3>1, <3>2
  <2>. HIDE DEF k
  <2>6. After(s, q, k + 1, y.rest, y.panel)
    BY <2>2, <2>3, <2>4, <2>5, AfterStep
  <2>7. k + 1 = (p + 1) - q /\ p + 1 > q /\ ~(p + 1 <= q)
    BY <1>1, <1>3 DEF k
  <2>. QED
    BY <2>6, <2>7 DEF At
<1>. QED
  BY <1>1, <1>2, <1>3

\* A read of n bytes.
LEMMA AtParse ==
  ASSUME NEW s \in Seq(Byte), NEW q, Wire(s, q), NEW p \in 0..Len(s),
         NEW r \in Seq(Byte), NEW w \in Panel, At(s, q, p, r, w)
  PROVE  \A n \in Nat : p + n <= Len(s) =>
           LET y == Parse(St(r, w, "N"), SubSeq(s, p + 1, p + n)) IN At(s, q, p + n, y.rest, y.panel)
<1>. DEFINE x == St(r, w, "N")
            c(n) == SubSeq(s, p + 1, p + n)
            Y(n) == Parse(x, c(n))
            P == {n \in Nat : p + n <= Len(s) => At(s, q, p + n, Y(n).rest, Y(n).panel)}
<1>1. x \in State /\ x.rest = r /\ x.panel = w /\ x.last = "N"
  BY StParts DEF Byte
<1>. HIDE DEF x
<1>2. c(0) = <<>>
  OBVIOUS
<1>3. ASSUME NEW n \in Nat, p + n <= Len(s)
      PROVE  c(n) \in Seq(Byte) /\ Len(c(n)) = n /\ (n > 0 => c(n)[n] = s[p + n])
  BY <1>3
<1>4. 0 \in P
  <2>1. Y(0) = x
    BY <1>1, <1>2, ParseLaws, Zenon
  <2>2. p + 0 = p
    OBVIOUS
  <2>. QED
    BY <1>1, <2>1, <2>2
<1>5. ASSUME NEW n \in Nat, n \in P PROVE n + 1 \in P
  <2>. SUFFICES ASSUME p + (n + 1) <= Len(s) PROVE At(s, q, p + (n + 1), Y(n + 1).rest, Y(n + 1).panel)
    OBVIOUS
  <2>1. p + n \in 0..(Len(s) - 1) /\ p + n <= Len(s) /\ p + (n + 1) = (p + n) + 1
    OBVIOUS
  <2>2. c(n) \in Seq(Byte) /\ Len(c(n)) = n /\ (n > 0 => c(n)[n] = s[p + n])
    BY <1>3, <2>1
  <2>3. c(n + 1) = Append(c(n), s[(p + n) + 1]) /\ s[(p + n) + 1] \in Byte
    BY <2>1
  <2>4. At(s, q, p + n, Y(n).rest, Y(n).panel)
    BY <1>5, <2>1
  <2>5. Y(n) \in State
    BY <1>1, <2>2, ParseLaws
  <2>6. Y(n).last = "C" => p + n > 0 /\ s[p + n] = "C"
    <3>1. CASE n = 0
      <4>1. Y(n).last = "N"
        BY <1>1, <1>2, <3>1, ParseLaws
      <4>. QED
        BY <4>1
    <3>2. CASE n > 0
      <4>1. c(n) # <<>>
        <5>. HIDE DEF c
        <5>. QED
          BY <2>2, <3>2
      <4>2. Y(n).last = c(n)[Len(c(n))]
        BY <1>1, <2>2, <4>1, ParseLast
      <4>. QED
        BY <2>2, <3>2, <4>2
    <3>. QED
      BY <3>1, <3>2
  <2>7. Y(n + 1) = ParseByte(Y(n), s[(p + n) + 1])
    <3>. DEFINE u == c(n)
    <3>. HIDE DEF u
    <3>1. u \in Seq(Byte)
      BY <2>2 DEF u
    <3>2. Parse(x, Append(u, s[(p + n) + 1])) = ParseByte(Parse(x, u), s[(p + n) + 1])
      BY <1>1, <2>3, <3>1, ParseLaws
    <3>. QED
      BY <2>3, <3>2 DEF u
  <2>. DEFINE k == p + n
  <2>. HIDE DEF Y, k
  <2>8. At(s, q, k + 1, Y(n + 1).rest, Y(n + 1).panel)
    BY <2>1, <2>4, <2>5, <2>6, <2>7, AtStep DEF k
  <2>. QED
    BY <2>1, <2>8 DEF k
<1>6. \A n \in Nat : n \in P
  <2>. HIDE DEF P
  <2>. QED
    BY <1>4, <1>5, NatInSet
<1>. QED
  BY <1>6 DEF x

-----------------------------------------------------------------------------
(* The frames the server writes                                            *)

\* Counting one text after the other.
LEMMA CountConcat ==
  ASSUME NEW s \in Seq(Byte)
  PROVE  \A t \in Seq(Byte) : Count(s \o t) = Count(s) + Count(t)
<1>. DEFINE S == {t \in Seq(Byte) : Count(s \o t) = Count(s) + Count(t)}
<1>0. Count(s) \in Nat
  BY CountLaws
<1>1. <<>> \in S
  <2>1. s \o <<>> = s /\ <<>> \in Seq(Byte)
    OBVIOUS
  <2>2. Count(s) = Count(s) + 0
    BY <1>0
  <2>. QED
    BY <2>1, <2>2, CountLaws
<1>2. ASSUME NEW t \in Seq(Byte), NEW b \in Byte, t \in S PROVE Append(t, b) \in S
  <2>. DEFINE u == s \o t
  <2>1. s \o Append(t, b) = Append(u, b) /\ u \in Seq(Byte) /\ Append(t, b) \in Seq(Byte)
    OBVIOUS
  <2>2. Count(u) = Count(s) + Count(t)
    BY <1>2
  <2>. HIDE DEF u
  <2>3. Count(Append(u, b)) = IF b = "D" THEN Count(u) + 1 ELSE Count(u)
    BY <2>1, CountLaws
  <2>4. Count(Append(t, b)) = (IF b = "D" THEN Count(t) + 1 ELSE Count(t)) /\ Count(t) \in Nat
    BY CountLaws
  <2>5. Count(Append(u, b)) = Count(s) + Count(Append(t, b))
    BY <1>0, <2>2, <2>3, <2>4
  <2>. QED
    BY <2>1, <2>5
<1>3. \A t \in Seq(Byte) : t \in S
  <2>. HIDE DEF S
  <2>. QED
    BY <1>1, <1>2, SeqInSet
<1>. QED
  BY <1>3

\* A line on the wire, after s: one data line more, no event line, and it
\* reads as its text.
LEMMA WireLineIs ==
  ASSUME NEW s \in Seq(Byte), Read(s).line = <<>>, NEW l \in Line
  PROVE  LET u == s \o WireLine(l)
         IN  /\ u \in Seq(Byte) /\ EndsWithN(u)
             /\ Count(u) = Count(s) + 1
             /\ Without(s, "F") => Without(u, "F")
             /\ Kept(s) /\ Without(u, "C") => Kept(u)
             /\ Read(u).name = Read(s).name /\ Read(u).data = Append(Read(s).data, l) /\ Read(u).line = <<>>
<1>. DEFINE d == Append(s, "D")
            B(k) == d \o k
            Good(k) == /\ B(k) \in Seq(Byte) /\ ~EndsWithN(B(k))
                       /\ Count(B(k)) = Count(s) + 1
                       /\ Without(s, "F") => Without(B(k), "F")
                       /\ Kept(s) /\ Without(B(k), "C") => Kept(B(k))
                       /\ Read(B(k)).name = Read(s).name /\ Read(B(k)).data = Read(s).data
                       /\ Read(B(k)).line = <<"D">> \o k
            S == {k \in Line : Good(k)}
<1>1. "D" \in Byte /\ "N" \in Byte /\ "C" \in Byte /\ "F" \in Byte /\ \A b \in {"t", "C"} : b \in Byte
  BY DEF Byte
<1>2. d \in Seq(Byte) /\ Count(s) \in Nat /\ Read(s) \in Frame
  BY <1>1, CountLaws, ReadLaws
<1>3. <<>> \in S
  <2>1. B(<<>>) = d /\ <<>> \in Line /\ <<"D">> \o <<>> = <<"D">>
    BY <1>2 DEF Line
  <2>2. ~EndsWithN(d)
    BY <1>1, EndsWithLast
  <2>3. Count(d) = Count(s) + 1
    BY <1>1, CountLaws
  <2>4. (Without(s, "F") => Without(d, "F")) /\ (Kept(s) => Kept(d))
    BY <1>1, WithoutLaws, KeptAppend
  <2>5. Read(d) = FrameByte(Read(s), "D")
    BY <1>1, ReadLaws
  <2>6. Read(d).name = Read(s).name /\ Read(d).data = Read(s).data /\ Read(d).line = Append(Read(s).line, "D")
    BY <1>1, <1>2, <2>5, FrameByteIs
  <2>7. Append(<<>>, "D") = <<"D">>
    OBVIOUS
  <2>. HIDE DEF d
  <2>8. Read(d).line = <<"D">>
    BY <2>6, <2>7, Zenon
  <2>9. Good(<<>>)
    BY <1>2, <2>1, <2>2, <2>3, <2>4, <2>6, <2>8, Zenon
  <2>. QED
    BY <2>1, <2>9
<1>4. ASSUME NEW k \in Line, NEW b \in {"t", "C"}, k \in S PROVE Append(k, b) \in S
  <2>. DEFINE v == B(k)
              w == B(Append(k, b))
  <2>1. w = Append(v, b) /\ Append(k, b) \in Line
    BY <1>2 DEF Line
  <2>2. <<"D">> \o Append(k, b) = Append(<<"D">> \o k, b)
    BY DEF Line
  <2>3. b \in Byte /\ b # "N" /\ b # "F" /\ b # "D"
    BY <1>1
  <2>4. Good(k)
    BY <1>4
  <2>5. /\ v \in Seq(Byte)
        /\ Count(v) = Count(s) + 1
        /\ Without(s, "F") => Without(v, "F")
        /\ Kept(s) /\ Without(v, "C") => Kept(v)
        /\ Read(v).name = Read(s).name /\ Read(v).data = Read(s).data
        /\ Read(v).line = <<"D">> \o k
    BY <2>4, Zenon
  <2>. HIDE DEF d, B, v, w
  <2>6. w \in Seq(Byte)
    BY <2>1, <2>3, <2>5
  <2>7. ~EndsWithN(w)
    BY <2>1, <2>3, <2>5, EndsWithLast
  <2>8. Count(w) = Count(s) + 1
    BY <2>1, <2>3, <2>5, CountLaws
  <2>9. Without(s, "F") => Without(w, "F")
    BY <1>1, <2>1, <2>3, <2>5, WithoutLaws
  <2>10. Kept(s) /\ Without(w, "C") => Kept(w)
    <3>1. Without(w, "C") => Without(v, "C") /\ b # "C"
      BY <1>1, <2>1, <2>3, <2>5, WithoutLaws
    <3>2. Kept(v) /\ b # "C" => Kept(w)
      BY <2>1, <2>3, <2>5, KeptAppend
    <3>. QED
      BY <2>5, <3>1, <3>2
  <2>11. Read(w) = FrameByte(Read(v), b) /\ Read(v) \in Frame
    BY <2>1, <2>3, <2>5, ReadLaws
  <2>12. Read(w).name = Read(v).name /\ Read(w).data = Read(v).data /\ Read(w).line = Append(Read(v).line, b)
    BY <2>3, <2>11, FrameByteIs
  <2>13. Read(w).line = <<"D">> \o Append(k, b)
    BY <2>2, <2>5, <2>12, Zenon
  <2>14. Good(Append(k, b))
    BY <2>5, <2>6, <2>7, <2>8, <2>9, <2>10, <2>12, <2>13, Zenon DEF w
  <2>. QED
    BY <2>1, <2>14
<1>5. \A k \in Line : k \in S
  <2>. HIDE DEF S
  <2>. QED
    BY <1>3, <1>4, SeqInSet DEF Line
<1>6. Good(l)
  BY <1>5
<1>. DEFINE v == B(l)
            u == s \o WireLine(l)
<1>7. u = Append(v, "N")
  <2>1. l \in Seq(Byte)
    <3>1. \A i \in 1..Len(l) : l[i] \in Byte
      BY <1>1 DEF Line
    <3>. QED
      BY <3>1 DEF Line
  <2>. QED
    BY <2>1 DEF WireLine
<1>8. Tail(<<"D">> \o l) = l /\ <<"D">> \o l # <<>> /\ (<<"D">> \o l)[1] = "D"
  BY DEF Line
<1>9. /\ v \in Seq(Byte) /\ ~EndsWithN(v)
      /\ Count(v) = Count(s) + 1
      /\ Without(s, "F") => Without(v, "F")
      /\ Kept(s) /\ Without(v, "C") => Kept(v)
      /\ Read(v).name = Read(s).name /\ Read(v).data = Read(s).data
      /\ Read(v).line = <<"D">> \o l
  BY <1>6, Zenon
<1>. HIDE DEF d, B, v, u
<1>10. u \in Seq(Byte) /\ EndsWithN(u) /\ Count(u) = Count(s) + 1
  BY <1>1, <1>7, <1>9, CountLaws, EndsWithLast
<1>11. Without(s, "F") => Without(u, "F")
  BY <1>1, <1>7, <1>9, WithoutLaws
<1>12. Kept(s) /\ Without(u, "C") => Kept(u)
  <2>1. Without(u, "C") => Without(v, "C")
    BY <1>1, <1>7, <1>9, WithoutLaws
  <2>2. Kept(v) => Kept(u)
    BY <1>1, <1>7, <1>9, KeptAppend
  <2>. QED
    BY <1>9, <2>1, <2>2
<1>13. Read(u) = FrameByte(Read(v), "N") /\ Read(v) \in Frame
  BY <1>1, <1>7, <1>9, ReadLaws
<1>14. Heads(Read(v), "D") /\ ~Heads(Read(v), "E") /\ ~Heads(Read(v), "F") /\ Tail(Read(v).line) = l
  <2>1. Read(v).line # <<>> /\ Read(v).line[1] = "D" /\ Tail(Read(v).line) = l
    BY <1>8, <1>9, Zenon
  <2>. QED
    BY <2>1 DEF Heads
<1>15. Read(u).name = Read(s).name /\ Read(u).data = Append(Read(s).data, l) /\ Read(u).line = <<>>
  <2>1. /\ Read(u).name = (IF Heads(Read(v), "E") THEN "chunk" ELSE IF Heads(Read(v), "F") THEN "done" ELSE Read(v).name)
        /\ Read(u).data = (IF Heads(Read(v), "D") THEN Append(Read(v).data, Tail(Read(v).line)) ELSE Read(v).data)
        /\ Read(u).line = <<>>
    BY <1>1, <1>13, FrameByteIs
  <2>. QED
    BY <1>9, <1>14, <2>1, Zenon
<1>. QED
  BY <1>10, <1>11, <1>12, <1>15 DEF u

\* The event line of a chunk.
Opening == <<"E", "N">>
\* s ends with an empty line: a frame ends there.
EndsWithNN(s) == Len(s) > 1 /\ s[Len(s) - 1] = "N" /\ s[Len(s)] = "N"

\* A text of two bytes, the second a newline.
LEMMA TwoBytes ==
  ASSUME NEW b \in Byte, b # "N"
  PROVE  LET u == <<b, "N">>
         IN  /\ u \in Seq(Byte) /\ EndsWithN(u)
             /\ Count(u) = IF b = "D" THEN 1 ELSE 0
             /\ b # "F" => Without(u, "F")
             /\ b # "C" => Kept(u)
             /\ Read(u).name = (IF b = "E" THEN "chunk" ELSE IF b = "F" THEN "done" ELSE "message")
             /\ b # "D" => Read(u).data = <<>>
             /\ Read(u).line = <<>>
<1>. DEFINE nil == <<>>
            v == Append(nil, b)
            u == <<b, "N">>
<1>1. nil \in Seq(Byte) /\ v \in Seq(Byte) /\ u = Append(v, "N") /\ "N" \in Byte /\ "F" \in Byte
  BY DEF Byte
<1>2. Read(nil) = Start /\ Count(nil) = 0 /\ Without(nil, "F")
  BY ReadLaws, CountLaws DEF Without
<1>3. Kept(nil) /\ ~EndsWithN(nil)
  BY DEF Kept, EndsWithN
<1>4. nil = <<>>
  OBVIOUS
<1>. HIDE DEF nil
<1>5. Read(v) = FrameByte(Start, b) /\ Start \in Frame /\ Start.line = <<>> /\ Start.data = <<>> /\ Start.name = "message"
  BY <1>1, <1>2, ReadLaws, ReadSteps DEF Start
<1>6. Count(v) = IF b = "D" THEN 1 ELSE 0
  BY <1>1, <1>2, CountLaws
<1>7. (b # "F" => Without(v, "F")) /\ (b # "C" => Kept(v)) /\ ~EndsWithN(v)
  BY <1>1, <1>2, <1>3, WithoutLaws, KeptAppend, EndsWithLast
<1>. HIDE DEF v, u
<1>8. Read(v).name = "message" /\ Read(v).data = <<>> /\ \A c : Heads(Read(v), c) <=> b = c
  BY <1>5, FrameByteIs DEF Heads
<1>9. Read(u) = FrameByte(Read(v), "N") /\ Read(v) \in Frame
  BY <1>1, ReadLaws
<1>10. /\ Read(u).name = (IF b = "E" THEN "chunk" ELSE IF b = "F" THEN "done" ELSE "message")
       /\ b # "D" => Read(u).data = <<>>
       /\ Read(u).line = <<>>
  <2>1. /\ Read(u).name = (IF Heads(Read(v), "E") THEN "chunk" ELSE IF Heads(Read(v), "F") THEN "done" ELSE Read(v).name)
        /\ Read(u).data = (IF Heads(Read(v), "D") THEN Append(Read(v).data, Tail(Read(v).line)) ELSE Read(v).data)
        /\ Read(u).line = <<>>
    BY <1>1, <1>9, FrameByteIs
  <2>. QED
    BY <1>8, <2>1
<1>11. u \in Seq(Byte) /\ EndsWithN(u)
  BY <1>1, EndsWithLast
<1>12. Count(u) = IF b = "D" THEN 1 ELSE 0
  BY <1>1, <1>6, CountLaws
<1>13. (b # "F" => Without(u, "F")) /\ (b # "C" => Kept(u))
  BY <1>1, <1>7, WithoutLaws, KeptAppend
<1>. QED
  BY <1>10, <1>11, <1>12, <1>13 DEF u

\* A chunk on the wire, up to the newline that ends its frame.
LEMMA ChunkLines ==
  \A c \in Seq(Line) :
    LET u == Opening \o DataLines(c)
    IN  /\ u \in Seq(Byte) /\ EndsWithN(u)
        /\ Count(u) = Len(c)
        /\ Without(u, "F")
        /\ Without(u, "C") => Kept(u)
        /\ Read(u).name = "chunk" /\ Read(u).data = c /\ Read(u).line = <<>>
<1>. DEFINE U(c) == Opening \o DataLines(c)
            Good(c) == /\ U(c) \in Seq(Byte) /\ EndsWithN(U(c))
                       /\ Count(U(c)) = Len(c)
                       /\ Without(U(c), "F")
                       /\ Without(U(c), "C") => Kept(U(c))
                       /\ Read(U(c)).name = "chunk" /\ Read(U(c)).data = c /\ Read(U(c)).line = <<>>
            S == {c \in Seq(Line) : Good(c)}
<1>0. "E" \in Byte /\ "C" \in Byte
  BY DEF Byte
<1>1. <<>> \in S
  <2>1. /\ Opening \in Seq(Byte) /\ EndsWithN(Opening) /\ Count(Opening) = 0
        /\ Without(Opening, "F") /\ Kept(Opening)
        /\ Read(Opening).name = "chunk" /\ Read(Opening).data = <<>> /\ Read(Opening).line = <<>>
    BY <1>0, TwoBytes DEF Opening
  <2>2. U(<<>>) = Opening
    BY <2>1, DataLinesLaws
  <2>3. Len(<<>>) = 0 /\ <<>> \in Seq(Line)
    OBVIOUS
  <2>. HIDE DEF U
  <2>4. Good(<<>>)
    BY <2>1, <2>2, <2>3, Zenon
  <2>. QED
    BY <2>3, <2>4
<1>2. ASSUME NEW c \in Seq(Line), NEW l \in Line, c \in S PROVE Append(c, l) \in S
  <2>. DEFINE v == U(c)
              w == U(Append(c, l))
  <2>1. Append(c, l) \in Seq(Line) /\ Len(Append(c, l)) = Len(c) + 1
    OBVIOUS
  <2>2. w = v \o WireLine(l)
    <3>. DEFINE a == Opening
                e == DataLines(c)
                k == WireLine(l)
    <3>1. e \in Seq(Byte) /\ k \in Seq(Byte) /\ DataLines(Append(c, l)) = e \o k
      BY DataLinesLaws, WireLineType
    <3>2. a \in Seq(Byte)
      BY <1>0, TwoBytes DEF Opening
    <3>. HIDE DEF a, e, k
    <3>3. a \o (e \o k) = (a \o e) \o k
      BY <3>1, <3>2
    <3>. QED
      BY <3>1, <3>3 DEF a, e, k
  <2>3. Good(c)
    BY <1>2
  <2>4. /\ v \in Seq(Byte) /\ Count(v) = Len(c) /\ Without(v, "F") /\ (Without(v, "C") => Kept(v))
        /\ Read(v).name = "chunk" /\ Read(v).data = c /\ Read(v).line = <<>>
    BY <2>3, Zenon
  <2>. HIDE DEF U, v, w
  <2>5. /\ w \in Seq(Byte) /\ EndsWithN(w)
        /\ Count(w) = Count(v) + 1
        /\ Without(v, "F") => Without(w, "F")
        /\ Kept(v) /\ Without(w, "C") => Kept(w)
        /\ Read(w).name = Read(v).name /\ Read(w).data = Append(Read(v).data, l) /\ Read(w).line = <<>>
    BY <2>2, <2>4, WireLineIs, Zenon
  <2>6. Without(w, "C") => Without(v, "C")
    <3>1. WireLine(l) \in Seq(Byte)
      BY WireLineType
    <3>. QED
      BY <1>0, <2>2, <2>4, <3>1, WithoutLaws, Zenon
  <2>7. Good(Append(c, l))
    BY <2>1, <2>4, <2>5, <2>6, Zenon DEF w
  <2>. QED
    BY <2>1, <2>7
<1>3. \A c \in Seq(Line) : c \in S
  <2>. HIDE DEF S
  <2>. QED
    BY <1>1, <1>2, SeqInSet
<1>. QED
  BY <1>3

\* A newline ends a kept block.
LEMMA ParseBlock ==
  ASSUME NEW u \in Seq(Byte), Kept(u), EndsWithN(u), NEW p \in Panel
  PROVE  Parse(Begin(p), Append(u, "N")) = Begin(Event(p, Read(u)))
<1>1. Begin(p) \in State /\ "N" \in Byte
  BY StParts DEF Byte
<1>. DEFINE y == Parse(Begin(p), u)
<1>2. y.rest = u /\ y.panel = p /\ y.last # "C"
  BY ParseKept
<1>3. Parse(Begin(p), Append(u, "N")) = ParseByte(y, "N")
  BY <1>1, ParseLaws
<1>. HIDE DEF y
<1>4. Plain("N") = "N"
  BY DEF Plain
<1>. QED
  BY <1>2, <1>3, <1>4 DEF ParseByte, Begin

\* How a frame ends.
LEMMA FrameEnds ==
  ASSUME NEW u \in Seq(Byte), EndsWithN(u)
  PROVE  Append(u, "N") \in Seq(Byte) /\ EndsWithNN(Append(u, "N"))
<1>1. "N" \in Byte
  BY DEF Byte
<1>2. Len(u) > 0 /\ u[Len(u)] = "N" /\ Len(u) \in Nat
  BY DEF EndsWithN
<1>. DEFINE v == Append(u, "N")
<1>3. v \in Seq(Byte) /\ Len(v) = Len(u) + 1 /\ v[Len(u) + 1] = "N" /\ v[Len(u)] = u[Len(u)]
  BY <1>1, <1>2
<1>. HIDE DEF v
<1>4. EndsWithNN(v)
  BY <1>2, <1>3 DEF EndsWithNN
<1>. QED
  BY <1>3, <1>4 DEF v

\* A chunk's frame: as many data lines as the chunk has lines, and, without
\* carriage returns, the parser adds them to the panel.
LEMMA ChunkFrameIs ==
  ASSUME NEW c \in Seq(Line), c # <<>>
  PROVE  /\ ChunkFrame(c) \in Seq(Byte) /\ EndsWithNN(ChunkFrame(c))
         /\ Count(ChunkFrame(c)) = Len(c) /\ Without(ChunkFrame(c), "F")
         /\ Without(ChunkFrame(c), "C") =>
              \A p \in Panel : Parse(Begin(p), ChunkFrame(c)) =
                                 Begin([lines |-> Joined(p.lines, c), state |-> p.state])
<1>. DEFINE u == Opening \o DataLines(c)
            f == ChunkFrame(c)
<1>1. /\ u \in Seq(Byte) /\ EndsWithN(u) /\ Count(u) = Len(c) /\ Without(u, "F")
      /\ Without(u, "C") => Kept(u)
      /\ Read(u).name = "chunk" /\ Read(u).data = c
  BY ChunkLines
<1>2. "N" \in Byte /\ "F" \in Byte /\ "C" \in Byte
  BY DEF Byte
<1>3. f = Append(u, "N")
  <2>1. f = u \o <<"N">>
    BY DEF ChunkFrame, Opening
  <2>. HIDE DEF u, f
  <2>. QED
    BY <1>1, <2>1
<1>. HIDE DEF u, f
<1>4. f \in Seq(Byte) /\ EndsWithNN(f)
  BY <1>1, <1>3, FrameEnds
<1>5. Count(f) = Len(c) /\ Without(f, "F")
  <2>1. Count(f) = IF "N" = "D" THEN Count(u) + 1 ELSE Count(u)
    BY <1>1, <1>2, <1>3, CountLaws
  <2>2. Without(f, "F")
    BY <1>1, <1>2, <1>3, WithoutLaws
  <2>. QED
    BY <1>1, <2>1, <2>2
<1>6. ASSUME Without(f, "C"), NEW p \in Panel
      PROVE  Parse(Begin(p), f) = Begin([lines |-> Joined(p.lines, c), state |-> p.state])
  <2>1. Kept(u)
    BY <1>1, <1>2, <1>3, <1>6, WithoutLaws
  <2>2. Parse(Begin(p), f) = Begin(Event(p, Read(u)))
    BY <1>1, <1>3, <2>1, ParseBlock
  <2>3. Event(p, Read(u)) = OnEvent(p, Read(u))
    BY <1>1 DEF Event
  <2>4. OnEvent(p, Read(u)) = [p EXCEPT !.lines = Joined(@, c)]
    BY <1>1 DEF OnEvent
  <2>5. [p EXCEPT !.lines = Joined(@, c)] = [lines |-> Joined(p.lines, c), state |-> p.state]
    BY DEF Panel
  <2>. QED
    BY <2>2, <2>3, <2>4, <2>5, Zenon
<1>. QED
  BY <1>4, <1>5, <1>6 DEF f

\* A comment's frame: no data line, and the parser ignores it.
LEMMA CommentFrameIs ==
  /\ CommentFrame \in Seq(Byte) /\ EndsWithNN(CommentFrame)
  /\ Count(CommentFrame) = 0 /\ Without(CommentFrame, "F")
  /\ \A p \in Panel : Parse(Begin(p), CommentFrame) = Begin(p)
<1>. DEFINE u == <<"K", "N">>
<1>1. "N" \in Byte /\ "F" \in Byte /\ "K" \in Byte
  BY DEF Byte
<1>2. u \in Seq(Byte) /\ EndsWithN(u) /\ Count(u) = 0 /\ Without(u, "F") /\ Kept(u) /\ Read(u).data = <<>>
  BY <1>1, TwoBytes
<1>3. CommentFrame = Append(u, "N")
  BY DEF CommentFrame
<1>. HIDE DEF u
<1>4. CommentFrame \in Seq(Byte) /\ EndsWithNN(CommentFrame)
  BY <1>2, <1>3, FrameEnds
<1>5. Without(CommentFrame, "F")
  BY <1>1, <1>2, <1>3, WithoutLaws
<1>6. Count(CommentFrame) = 0
  <2>1. Count(Append(u, "N")) = IF "N" = "D" THEN Count(u) + 1 ELSE Count(u)
    BY <1>1, <1>2, CountLaws
  <2>. QED
    BY <1>2, <1>3, <2>1
<1>7. ASSUME NEW p \in Panel PROVE Parse(Begin(p), CommentFrame) = Begin(p)
  <2>1. Parse(Begin(p), CommentFrame) = Begin(Event(p, Read(u)))
    BY <1>2, <1>3, ParseBlock
  <2>2. Event(p, Read(u)) = p
    BY <1>2 DEF Event
  <2>. QED
    BY <2>1, <2>2
<1>. QED
  BY <1>4, <1>5, <1>6, <1>7

\* The final frame leaves the lines alone.
LEMMA DoneFrameIs ==
  /\ DoneFrame \in Seq(Byte) /\ Len(DoneFrame) = 6
  /\ \A p \in Panel : Parse(Begin(p), DoneFrame).panel.lines = p.lines
<1>. DEFINE l == <<>>
            u == DonePart(l, 5)
<1>1. l \in Seq(Byte) /\ Read(l) = Start
  BY ReadLaws
<1>2. DoneFrame \in Seq(Byte) /\ Len(DoneFrame) = 6 /\ DoneFrame[6] = "N"
  BY DEF DoneFrame, Byte
<1>3. /\ \A k \in 0..5 : DonePart(l, k) \in Seq(Byte)
      /\ \A k \in 0..4 : /\ DonePart(l, k + 1) = Append(DonePart(l, k), DoneFrame[k + 1])
                         /\ DoneFrame[k + 1] = "N" => ~EndsWithN(DonePart(l, k))
      /\ EndsWithN(u)
      /\ \A k \in 1..6 : DoneFrame[k] \in Byte /\ DoneFrame[k] # "C"
  BY <1>1, DonePartIs, Zenon
<1>. DEFINE Spells(k, v) == v \in Seq(Byte) /\ Len(v) = k /\ \A i \in 1..k : v[i] = DoneFrame[i]
            Good(k) == Spells(k, DonePart(l, k)) /\ Kept(DonePart(l, k))
<1>4. ASSUME NEW k \in 0..5, NEW v, Spells(k, v) PROVE Spells(k + 1, Append(v, DoneFrame[k + 1]))
  <2>. DEFINE b == DoneFrame[k + 1]
              w == Append(v, b)
  <2>1. b \in Byte
    <3>1. k + 1 \in 1..6
      OBVIOUS
    <3>. QED
      BY <1>3, <3>1, Zenon
  <2>2. v \in Seq(Byte) /\ Len(v) = k
    BY <1>4
  <2>. HIDE DEF b
  <2>3. w \in Seq(Byte) /\ Len(w) = k + 1 /\ w[k + 1] = b
    BY <2>1, <2>2
  <2>4. \A i \in 1..k : w[i] = v[i]
    BY <2>1, <2>2
  <2>. HIDE DEF w
  <2>5. ASSUME NEW i \in 1..(k + 1) PROVE w[i] = DoneFrame[i]
    <3>1. CASE i = k + 1
      BY <2>3, <3>1 DEF b
    <3>2. CASE i \in 1..k
      BY <1>4, <2>4, <3>2
    <3>. QED
      BY <3>1, <3>2
  <2>6. Spells(k + 1, w)
    BY <2>3, <2>5
  <2>. QED
    BY <2>6 DEF w, b
<1>5. Good(5)
  <2>1. Good(0)
    <3>1. DonePart(l, 0) = l
      BY DEF DonePart
    <3>2. Spells(0, l) /\ Kept(l)
      BY DEF Kept
    <3>. HIDE DEF l
    <3>. QED
      BY <3>1, <3>2
  <2>. HIDE DEF l, Spells
  <2>2. ASSUME NEW k \in 0..4, Good(k) PROVE Good(k + 1)
    <3>1. k \in 0..5 /\ k + 1 \in 1..6
      OBVIOUS
    <3>2. Spells(k + 1, DonePart(l, k + 1))
      BY <1>3, <1>4, <2>2, <3>1
    <3>3. Kept(DonePart(l, k + 1))
      BY <1>3, <2>2, <3>1, KeptAppend
    <3>. QED
      BY <3>2, <3>3
  <2>. HIDE DEF Good
  <2>3. Good(0 + 1) /\ (Good(1) => Good(1 + 1)) /\ (Good(2) => Good(2 + 1)) /\ (Good(3) => Good(3 + 1)) /\ (Good(4) => Good(4 + 1))
    BY <2>1, <2>2
  <2>. QED
    BY <2>3
<1>a. u \in Seq(Byte) /\ Kept(u) /\ EndsWithN(u)
  BY <1>3, <1>5
<1>b. DoneFrame = Append(u, "N")
  <2>. DEFINE w == Append(u, "N")
  <2>1. Spells(5 + 1, Append(u, DoneFrame[5 + 1]))
    BY <1>4, <1>5
  <2>2. Spells(6, w)
    BY <1>2, <2>1
  <2>. HIDE DEF w
  <2>3. DoneFrame = w
    BY <1>2, <2>2
  <2>. QED
    BY <2>3 DEF w
<1>6. Read(u).name = "done" /\ Read(u).data # <<>> /\ Read(u) \in Frame
  BY <1>1, <1>a, ReadDone, ReadLaws
<1>. HIDE DEF u
<1>7. ASSUME NEW p \in Panel PROVE Parse(Begin(p), DoneFrame).panel.lines = p.lines
  <2>1. Parse(Begin(p), DoneFrame) = Begin(Event(p, Read(u)))
    BY <1>a, <1>b, ParseBlock
  <2>2. Event(p, Read(u)).lines = p.lines /\ Event(p, Read(u)) \in Panel
    BY <1>a, <1>6, OnEventIs, EventType DEF Event
  <2>. QED
    BY <2>1, <2>2, StParts
<1>. QED
  BY <1>2, <1>7

-----------------------------------------------------------------------------
(* The stream grows                                                        *)

\* A live panel that shows x.
Live(x) == [lines |-> x, state |-> "live"]

\* What has been sent: q bytes before the final frame, with n data lines, which
\* a parser that reads them at once shows as x when there are no carriage returns.
Sent(s, q, n, x) ==
  /\ Wire(s, q)
  /\ Count(SubSeq(s, 1, q)) = n
  /\ Without(SubSeq(s, 1, q), "C") => Parse(Begin(NoPanel), SubSeq(s, 1, q)) = Begin(Live(x))

\* Two byte sequences with the same length and the same bytes are equal.
LEMMA SameSequence ==
  ASSUME NEW v \in Seq(Byte), NEW w \in Seq(Byte), Len(v) = Len(w),
         \A i \in 1..Len(v) : v[i] = w[i]
  PROVE  v = w
OBVIOUS

\* A text with another one behind it.
LEMMA Behind ==
  ASSUME NEW s \in Seq(Byte), NEW f \in Seq(Byte)
  PROVE  /\ s \o f \in Seq(Byte) /\ Len(s \o f) = Len(s) + Len(f)
         /\ \A i \in 1..Len(s) : (s \o f)[i] = s[i]
         /\ \A i \in 1..Len(f) : (s \o f)[Len(s) + i] = f[i]
         /\ \A p \in 0..Len(s) : SubSeq(s \o f, 1, p) = SubSeq(s, 1, p)
         /\ SubSeq(s, 1, Len(s)) = s /\ SubSeq(s \o f, 1, Len(s)) = s
         /\ Len(s) \in Nat /\ Len(f) \in Nat
<1>1. s \o f \in Seq(Byte) /\ Len(s \o f) = Len(s) + Len(f) /\ Len(s) \in Nat /\ Len(f) \in Nat
  OBVIOUS
<1>2. \A i \in 1..Len(s) : (s \o f)[i] = s[i]
  OBVIOUS
<1>3. \A i \in 1..Len(f) : (s \o f)[Len(s) + i] = f[i]
  OBVIOUS
<1>. DEFINE u == s \o f
<1>4. ASSUME NEW p \in 0..Len(s) PROVE SubSeq(u, 1, p) = SubSeq(s, 1, p)
  <2>1. u \in Seq(Byte) /\ p <= Len(u) /\ p \in Nat
    BY <1>1
  <2>2. \A i \in 1..p : u[i] = s[i]
    BY <1>1, <1>2
  <2>. HIDE DEF u
  <2>3. SubSeq(u, 1, p) = [i \in 1..p |-> u[i]] /\ SubSeq(s, 1, p) = [i \in 1..p |-> s[i]]
    BY <1>1, <2>1
  <2>. QED
    BY <2>2, <2>3
<1>5. SubSeq(s, 1, Len(s)) = s
  OBVIOUS
<1>6. Len(s) \in 0..Len(s)
  BY <1>1
<1>. QED
  BY <1>1, <1>2, <1>3, <1>4, <1>5, <1>6, Zenon

\* What the parser has at a position does not depend on what follows.
LEMMA AtGrows ==
  ASSUME NEW s \in Seq(Byte), NEW f \in Seq(Byte), NEW p \in 0..Len(s), NEW q \in Nat, Len(s) <= q,
         NEW r, NEW w, At(s, Len(s), p, r, w)
  PROVE  At(s \o f, q, p, r, w)
<1>. DEFINE u == s \o f
<1>1. \A i \in 1..Len(s) : u[i] = s[i]
  BY Behind
<1>2. SubSeq(u, 1, p) = SubSeq(s, 1, p) /\ Len(s) \in Nat
  BY Behind
<1>. HIDE DEF u
<1>3. (p > 0 => u[p] = s[p]) /\ (p > 1 => u[p - 1] = s[p - 1]) /\ p <= q /\ ~(p > q) /\ p <= Len(s)
  BY <1>1, <1>2
<1>4. Before(s, p, r, w)
  BY <1>3 DEF At
<1>5. Before(u, p, r, w)
  <2>1. Len(w.lines) + Count(r) <= Count(SubSeq(u, 1, p)) /\ Without(r, "F") /\ w.state = "live"
    BY <1>2, <1>4, Zenon DEF Before
  <2>2. p > 0 /\ u[p] \in {"N", "C"} => r = <<>> \/ EndsWithN(r)
    BY <1>3, <1>4, Zenon DEF Before
  <2>3. p > 1 => p > 0
    OBVIOUS
  <2>4. p > 1 /\ u[p - 1] = "N" /\ u[p] = "N" => r \in {<<>>, <<"N">>}
    BY <1>3, <1>4, <2>3, Zenon DEF Before
  <2>. QED
    BY <2>1, <2>2, <2>4, Zenon DEF Before
<1>6. At(u, q, p, r, w)
  BY <1>3, <1>5 DEF At
<1>. QED
  BY <1>6 DEF u

\* A frame before the final one.
LEMMA SentGrows ==
  ASSUME NEW s \in Seq(Byte), NEW n \in Nat, NEW x \in Seq(Seq(Byte)), Sent(s, Len(s), n, x),
         NEW f \in Seq(Byte), EndsWithNN(f), Without(f, "F"), NEW z,
         Without(f, "C") => Parse(Begin(Live(x)), f) = Begin(Live(z))
  PROVE  Sent(s \o f, Len(s \o f), n + Count(f), z)
<1>. DEFINE u == s \o f
<1>1. /\ u \in Seq(Byte) /\ Len(u) = Len(s) + Len(f) /\ Len(s) \in Nat /\ Len(f) \in Nat
      /\ \A i \in 1..Len(f) : u[Len(s) + i] = f[i]
  BY Behind
<1>2. SubSeq(s, 1, Len(s)) = s /\ SubSeq(u, 1, Len(u)) = u
  BY <1>1, Behind
<1>3. Wire(s, Len(s)) /\ Count(s) = n /\ (Without(s, "C") => Parse(Begin(NoPanel), s) = Begin(Live(x)))
  BY <1>2 DEF Sent
<1>4. "F" \in Byte /\ "C" \in Byte
  BY DEF Byte
<1>5. NoPanel \in Panel /\ Begin(NoPanel) \in State /\ Live(x) \in Panel
  BY StParts DEF NoPanel, Panel, Live
<1>6. Without(s, "F")
  BY <1>3 DEF Wire, Without
<1>7. Without(u, "F") /\ (Without(u, "C") => Without(s, "C") /\ Without(f, "C"))
  BY <1>4, <1>6, WithoutLaws
<1>8. Count(u) = n + Count(f)
  BY <1>3, CountConcat
<1>9. Parse(Begin(NoPanel), u) = Parse(Parse(Begin(NoPanel), s), f)
  BY <1>5, ParseLaws
<1>. HIDE DEF u
<1>10. Without(u, "C") => Parse(Begin(NoPanel), u) = Begin(Live(z))
  BY <1>3, <1>7, <1>9
<1>11. Wire(u, Len(u))
  <2>1. Len(f) > 1 /\ f[Len(f) - 1] = "N" /\ f[Len(f)] = "N"
    BY DEF EndsWithNN
  <2>2. Len(f) - 1 \in 1..Len(f) /\ Len(f) \in 1..Len(f) /\ Len(s) + (Len(f) - 1) = Len(u) - 1 /\ Len(u) \in Nat /\ Len(u) > 1
    BY <1>1, <2>1
  <2>3. u[Len(u) - 1] = "N" /\ u[Len(u)] = "N"
    BY <1>1, <2>1, <2>2
  <2>4. \A i \in 1..Len(u) : u[i] # "F"
    BY <1>7 DEF Without
  <2>. QED
    BY <2>2, <2>3, <2>4 DEF Wire
<1>12. Sent(u, Len(u), n + Count(f), z)
  BY <1>2, <1>8, <1>10, <1>11 DEF Sent
<1>. QED
  BY <1>12 DEF u

\* The final frame.
LEMMA SentEnds ==
  ASSUME NEW s \in Seq(Byte), NEW n, NEW x, Sent(s, Len(s), n, x)
  PROVE  Sent(s \o DoneFrame, Len(s), n, x) /\ Len(s \o DoneFrame) = Len(s) + 6
<1>. DEFINE u == s \o DoneFrame
<1>1. DoneFrame \in Seq(Byte) /\ Len(DoneFrame) = 6
  BY DoneFrameIs
<1>2. /\ Len(u) = Len(s) + 6 /\ Len(s) \in Nat
      /\ \A i \in 1..6 : u[Len(s) + i] = DoneFrame[i]
      /\ \A i \in 1..Len(s) : u[i] = s[i]
      /\ SubSeq(u, 1, Len(s)) = s /\ SubSeq(s, 1, Len(s)) = s
  <2>. DEFINE f == DoneFrame
  <2>1. f \in Seq(Byte) /\ Len(f) = 6
    BY <1>1
  <2>. HIDE DEF f
  <2>2. /\ Len(s \o f) = Len(s) + 6 /\ Len(s) \in Nat
        /\ \A i \in 1..6 : (s \o f)[Len(s) + i] = f[i]
        /\ \A i \in 1..Len(s) : (s \o f)[i] = s[i]
        /\ SubSeq(s \o f, 1, Len(s)) = s /\ SubSeq(s, 1, Len(s)) = s
    <3>1. /\ Len(s \o f) = Len(s) + Len(f) /\ Len(s) \in Nat
          /\ \A i \in 1..Len(f) : (s \o f)[Len(s) + i] = f[i]
          /\ \A i \in 1..Len(s) : (s \o f)[i] = s[i]
          /\ SubSeq(s \o f, 1, Len(s)) = s /\ SubSeq(s, 1, Len(s)) = s
      BY <2>1, Behind, Zenon
    <3>. QED
      BY <2>1, <3>1, Zenon
  <2>. QED
    BY <2>2, Zenon DEF f
<1>. HIDE DEF u
<1>3. Wire(s, Len(s))
  BY DEF Sent
<1>4. Wire(u, Len(s))
  <2>1. Len(s) > 1 /\ s[Len(s) - 1] = "N" /\ s[Len(s)] = "N" /\ \A i \in 1..Len(s) : s[i] # "F"
    BY <1>3 DEF Wire
  <2>2. Len(s) \in 1..Len(s) /\ Len(s) - 1 \in 1..Len(s) /\ Len(s) <= Len(u)
    BY <1>2, <2>1
  <2>3. u[Len(s) - 1] = "N" /\ u[Len(s)] = "N" /\ \A i \in 1..Len(s) : u[i] # "F"
    BY <1>2, <2>1, <2>2
  <2>. QED
    BY <1>2, <2>1, <2>2, <2>3 DEF Wire
<1>5. Sent(u, Len(s), n, x)
  BY <1>2, <1>4 DEF Sent
<1>. QED
  BY <1>2, <1>5 DEF u

\* However far the client has read, it has no more lines than were sent.
LEMMA AtLines ==
  ASSUME NEW s \in Seq(Byte), NEW q, Wire(s, q), NEW p \in 0..Len(s), NEW r \in Seq(Byte), NEW w \in Panel,
         At(s, q, p, r, w)
  PROVE  Len(w.lines) <= Count(SubSeq(s, 1, q))
<1>1. q \in Nat /\ q <= Len(s) /\ Len(s) \in Nat /\ p \in Nat
  BY DEF Wire
<1>2. CASE p > q
  BY <1>2 DEF At, After
<1>3. CASE p <= q
  <2>. DEFINE a == Len(w.lines)
              b == Count(r)
              pre == SubSeq(s, 1, p)
              mid == SubSeq(s, p + 1, q)
              c == Count(pre)
              d == Count(mid)
  <2>1. pre \in Seq(Byte) /\ mid \in Seq(Byte)
    BY <1>1, <1>3
  <2>2. SubSeq(s, 1, q) = pre \o mid
    BY <1>1, <1>3
  <2>3. Count(SubSeq(s, 1, q)) = c + d
    <3>. HIDE DEF pre, mid
    <3>. QED
      BY <2>1, <2>2, CountConcat
  <2>4. a + b <= c
    BY <1>3 DEF At, Before
  <2>5. a \in Nat
    BY DEF Panel
  <2>6. b \in Nat /\ c \in Nat /\ d \in Nat
    BY <2>1, CountLaws
  <2>. HIDE DEF a, b, c, d
  <2>7. a <= c + d
    BY <2>4, <2>5, <2>6
  <2>. QED
    BY <2>3, <2>7 DEF a
<1>. QED
  BY <1>1, <1>2, <1>3

-----------------------------------------------------------------------------
(* The invariant                                                           *)

\* The types.
LogTypeOK ==
  /\ handler \in {"open", "done", "gone"} /\ stream \in Seq(Byte)
  /\ written \in Nat /\ text \in Seq(Seq(Byte))
  /\ pos \in 0..Len(stream) /\ buffer \in Seq(Byte) /\ panel \in Panel
  /\ split \in BOOLEAN /\ ended \in {"no", "closed", "broken"}

\* Bytes before the final frame.
BodyLen == IF handler = "done" THEN Len(stream) - 6 ELSE Len(stream)

\* The parser after one single read of all that has been read.
Once == Parse(Begin(NoPanel), SubSeq(stream, 1, pos))

\* A read has ended in a CR LF only if there are carriage returns; else buffer and
\* panel are where one single read would be.
CutInv ==
  /\ split => ~Without(stream, "C")
  /\ ~split => ~(pos > 0 /\ pos < Len(stream) /\ stream[pos] = "C" /\ stream[pos + 1] = "N")
  /\ ~split => panel.lines = Once.panel.lines
  /\ ~split /\ ended = "no" => buffer = Once.rest /\ panel = Once.panel

\* While the response is read, buffer and panel fit the place in the stream (At);
\* afterwards the panel is right for the way it ended.
PanelInv ==
  /\ ended = "no" => Kept(buffer) /\ At(stream, BodyLen, pos, buffer, panel)
  /\ ended # "no" => Len(panel.lines) <= written
  /\ ended = "closed" => pos = Len(stream) /\ handler # "open" /\ (panel.state = "done" <=> handler = "done")
  /\ ended = "broken" => panel.state = "done"

\* The inductive invariant.
LogInv == LogTypeOK /\ Sent(stream, BodyLen, written, text) /\ CutInv /\ PanelInv

\* The empty panel is a panel.
LEMMA NoPanelType ==
  NoPanel \in Panel /\ Begin(NoPanel) \in State
<1>1. NoPanel \in Panel
  BY DEF NoPanel, Panel
<1>. QED
  BY <1>1, StParts

\* It holds at the start.
LEMMA LogInvInit ==
  ASSUME LogInit
  PROVE  LogInv
<1>. DEFINE s == CommentFrame
            e == SubSeq(s, 1, 0)
<1>1. s \in Seq(Byte) /\ EndsWithNN(s) /\ Count(s) = 0 /\ Without(s, "F") /\ Parse(Begin(NoPanel), s) = Begin(NoPanel)
  BY CommentFrameIs, NoPanelType
<1>2. /\ handler = "open" /\ stream = s /\ written = 0 /\ text = <<>>
      /\ pos = 0 /\ buffer = <<>> /\ panel = NoPanel /\ split = FALSE /\ ended = "no"
  BY DEF LogInit
<1>. HIDE DEF s
<1>3. SubSeq(s, 1, Len(s)) = s /\ e = <<>> /\ Len(s) \in Nat
  BY <1>1
<1>. HIDE DEF e
<1>4. BodyLen = Len(s)
  BY <1>2 DEF BodyLen
<1>5. LogTypeOK
  <2>1. 0 \in 0..Len(s) /\ <<>> \in Seq(Seq(Byte)) /\ <<>> \in Seq(Byte)
    BY <1>3
  <2>. QED
    BY <1>1, <1>2, <2>1, NoPanelType DEF LogTypeOK
<1>6. Wire(s, Len(s))
  <2>1. \A i \in 1..Len(s) : s[i] # "F"
    BY <1>1 DEF Without
  <2>. QED
    BY <1>1, <1>3, <2>1 DEF Wire, EndsWithNN
<1>7. Sent(stream, BodyLen, written, text)
  <2>1. NoPanel = Live(<<>>)
    BY DEF NoPanel, Live
  <2>2. Sent(s, Len(s), 0, <<>>)
    BY <1>1, <1>3, <1>6, <2>1, Zenon DEF Sent
  <2>. QED
    BY <1>2, <1>4, <2>2, Zenon
<1>8. Once = Begin(NoPanel)
  <2>1. Once = Parse(Begin(NoPanel), <<>>)
    BY <1>2, <1>3, Zenon DEF Once, e
  <2>. QED
    BY <2>1, NoPanelType, ParseLaws
<1>9. CutInv
  BY <1>2, <1>8, NoPanelType, StParts DEF CutInv
<1>10. At(s, Len(s), 0, <<>>, NoPanel)
  <2>1. Count(e) = 0 /\ Count(<<>>) = 0
    BY <1>3, CountLaws
  <2>2. Len(NoPanel.lines) = 0 /\ NoPanel.state = "live"
    BY DEF NoPanel
  <2>3. 0 + 0 <= 0 /\ ~(0 > 0) /\ ~(0 > 1) /\ 0 <= Len(s) /\ ~(0 > Len(s))
    BY <1>3
  <2>4. Without(<<>>, "F")
    BY DEF Without
  <2>5. Before(s, 0, <<>>, NoPanel)
    BY <2>1, <2>2, <2>3, <2>4, Zenon DEF Before, e
  <2>. QED
    BY <2>3, <2>5, Zenon DEF At
<1>11. Kept(<<>>)
  BY DEF Kept
<1>12. PanelInv
  BY <1>2, <1>4, <1>10, <1>11, Zenon DEF PanelInv
<1>. QED
  BY <1>5, <1>7, <1>9, <1>12 DEF LogInv

\* What the server writes leaves the client's part of the invariant alone.
LEMMA WriteKeeps ==
  ASSUME LogInv, handler = "open", NEW f \in Seq(Byte), stream' = stream \o f, UNCHANGED clientVars,
         BodyLen' \in Nat, Len(stream) <= BodyLen', written' \in Nat, written <= written'
  PROVE  pos' \in 0..Len(stream') /\ CutInv' /\ PanelInv'
<1>1. LogTypeOK /\ CutInv /\ PanelInv /\ Sent(stream, BodyLen, written, text)
  BY DEF LogInv
<1>2. /\ stream \in Seq(Byte) /\ written \in Nat /\ pos \in 0..Len(stream) /\ panel \in Panel
      /\ pos' = pos /\ buffer' = buffer /\ panel' = panel /\ split' = split /\ ended' = ended
  BY <1>1 DEF LogTypeOK, clientVars
<1>. DEFINE u == stream \o f
            n == Len(stream)
<1>3. /\ Len(u) = n + Len(f) /\ n \in Nat /\ Len(f) \in Nat
      /\ \A i \in 1..n : u[i] = stream[i]
      /\ SubSeq(u, 1, pos) = SubSeq(stream, 1, pos)
  BY <1>2, Behind
<1>4. stream' = u /\ BodyLen = n
  BY DEF BodyLen
<1>5. "C" \in Byte
  BY DEF Byte
<1>6. Without(u, "C") => Without(stream, "C")
  BY <1>2, <1>5, WithoutLaws
<1>7. At(stream, n, pos, buffer, panel) => At(u, BodyLen', pos, buffer, panel)
  BY <1>2, AtGrows
<1>. HIDE DEF u, n
<1>8. pos' \in 0..Len(stream')
  <2>1. pos \in 0..Len(u)
    BY <1>2, <1>3 DEF n
  <2>. QED
    BY <1>2, <1>4, <2>1
<1>9. Once' = Once
  BY <1>2, <1>3, <1>4, Zenon DEF Once
<1>10. ~split => ~(pos > 0 /\ pos < Len(u) /\ u[pos] = "C" /\ u[pos + 1] = "N")
  <2>. SUFFICES ASSUME ~split, pos > 0, u[pos] = "C", u[pos + 1] = "N" PROVE FALSE
    OBVIOUS
  <2>1. pos \in 1..n
    BY <1>2 DEF n
  <2>2. u[pos] = stream[pos]
    BY <1>3, <2>1
  <2>3. CASE pos = n
    <3>1. stream[n] = "N"
      BY <1>1, <1>4 DEF Sent, Wire
    <3>. QED
      BY <2>2, <2>3, <3>1
  <2>4. CASE pos < n
    <3>1. pos + 1 \in 1..n /\ u[pos + 1] = stream[pos + 1]
      BY <1>3, <2>1, <2>4
    <3>. QED
      BY <1>1, <2>2, <2>4, <3>1 DEF CutInv, n
  <2>. QED
    BY <1>3, <2>1, <2>3, <2>4
<1>11. CutInv'
  BY <1>1, <1>2, <1>4, <1>6, <1>9, <1>10, Zenon DEF CutInv
<1>12. PanelInv'
  <2>1. ended' = "no" => Kept(buffer') /\ At(stream', BodyLen', pos', buffer', panel')
    BY <1>1, <1>2, <1>4, <1>7, Zenon DEF PanelInv
  <2>2. ended # "no" => Len(panel.lines) <= written'
    <3>1. Len(panel.lines) \in Nat
      BY <1>2 DEF Panel
    <3>2. ended # "no" => Len(panel.lines) <= written
      BY <1>1 DEF PanelInv
    <3>. QED
      BY <1>2, <3>1, <3>2
  <2>3. ended' # "closed" /\ (ended' = "broken" => panel'.state = "done")
    BY <1>1, <1>2, Zenon DEF PanelInv
  <2>. QED
    BY <1>2, <2>1, <2>2, <2>3, Zenon DEF PanelInv
<1>. QED
  BY <1>8, <1>11, <1>12

\* A chunk is lines of text.
LEMMA ChunkType ==
  ASSUME NEW c \in Chunks
  PROVE  c \in Seq(Line) /\ c # <<>> /\ c \in Seq(Seq(Byte)) /\ Len(c) \in Nat
<1>1. c \in Seq(Line) /\ c # <<>>
  BY LogAssumption DEF Line
<1>2. ASSUME NEW l \in Line PROVE l \in Seq(Byte)
  <2>1. \A i \in 1..Len(l) : l[i] \in Byte
    BY DEF Line, Byte
  <2>. QED
    BY <2>1 DEF Line
<1>. QED
  BY <1>1, <1>2

\* flushChunk.
LEMMA FlushChunkKeeps ==
  ASSUME LogInv, NEW c \in Chunks, FlushChunk(c)
  PROVE  LogInv'
<1>. DEFINE f == ChunkFrame(c)
<1>1. c \in Seq(Line) /\ c # <<>> /\ c \in Seq(Seq(Byte)) /\ Len(c) \in Nat
  BY ChunkType
<1>2. /\ handler = "open" /\ stream' = stream \o f /\ UNCHANGED clientVars
      /\ written' = written + Len(c) /\ text' = Joined(text, c) /\ handler' = handler
  BY DEF FlushChunk, Write
<1>3. /\ f \in Seq(Byte) /\ EndsWithNN(f) /\ Count(f) = Len(c) /\ Without(f, "F")
      /\ Without(f, "C") => \A p \in Panel : Parse(Begin(p), f) = Begin([lines |-> Joined(p.lines, c), state |-> p.state])
  BY <1>1, ChunkFrameIs
<1>. HIDE DEF f
<1>4. LogTypeOK /\ Sent(stream, BodyLen, written, text)
  BY DEF LogInv
<1>5. stream \in Seq(Byte) /\ text \in Seq(Seq(Byte)) /\ written \in Nat /\ Live(text) \in Panel
  BY <1>4 DEF LogTypeOK, Live, Panel
<1>6. BodyLen = Len(stream) /\ BodyLen' = Len(stream \o f)
  BY <1>2 DEF BodyLen
<1>7. Joined(text, c) \in Seq(Seq(Byte))
  <2>1. text # <<>> => SubSeq(text, 1, Len(text) - 1) \in Seq(Seq(Byte))
    BY <1>5
  <2>. QED
    BY <1>1, <1>5, <2>1 DEF Joined
<1>8. Without(f, "C") => Parse(Begin(Live(text)), f) = Begin(Live(Joined(text, c)))
  <2>1. Live(text).lines = text /\ Live(text).state = "live"
    BY DEF Live
  <2>. QED
    BY <1>3, <1>5, <2>1, Zenon DEF Live
<1>9. Sent(stream \o f, Len(stream \o f), written + Count(f), Joined(text, c))
  BY <1>3, <1>4, <1>5, <1>6, <1>8, SentGrows
<1>10. Sent(stream', BodyLen', written', text')
  BY <1>2, <1>3, <1>6, <1>9, Zenon
<1>11. /\ stream' \in Seq(Byte) /\ BodyLen' \in Nat /\ Len(stream) <= BodyLen'
       /\ written' \in Nat /\ written <= written'
  <2>1. stream \o f \in Seq(Byte) /\ Len(stream \o f) = Len(stream) + Len(f) /\ Len(stream) \in Nat /\ Len(f) \in Nat
    BY <1>3, <1>5, Behind
  <2>. QED
    BY <1>1, <1>2, <1>5, <1>6, <2>1
<1>12. pos' \in 0..Len(stream') /\ CutInv' /\ PanelInv'
  BY <1>2, <1>3, <1>11, WriteKeeps
<1>13. LogTypeOK'
  BY <1>2, <1>4, <1>7, <1>11, <1>12 DEF LogTypeOK, clientVars
<1>. QED
  BY <1>10, <1>12, <1>13 DEF LogInv

\* The keep-alive comment.
LEMMA KeepAliveKeeps ==
  ASSUME LogInv, KeepAlive
  PROVE  LogInv'
<1>. DEFINE f == CommentFrame
<1>2. /\ handler = "open" /\ stream' = stream \o f /\ UNCHANGED clientVars
      /\ written' = written /\ text' = text /\ handler' = handler
  BY DEF KeepAlive, Write
<1>3. /\ f \in Seq(Byte) /\ EndsWithNN(f) /\ Count(f) = 0 /\ Without(f, "F")
      /\ \A p \in Panel : Parse(Begin(p), f) = Begin(p)
  BY CommentFrameIs
<1>. HIDE DEF f
<1>4. LogTypeOK /\ Sent(stream, BodyLen, written, text)
  BY DEF LogInv
<1>5. stream \in Seq(Byte) /\ text \in Seq(Seq(Byte)) /\ written \in Nat /\ Live(text) \in Panel
  BY <1>4 DEF LogTypeOK, Live, Panel
<1>6. BodyLen = Len(stream) /\ BodyLen' = Len(stream \o f)
  BY <1>2 DEF BodyLen
<1>8. Parse(Begin(Live(text)), f) = Begin(Live(text))
  BY <1>3, <1>5
<1>9. Sent(stream \o f, Len(stream \o f), written + Count(f), text)
  BY <1>3, <1>4, <1>5, <1>6, <1>8, SentGrows
<1>10. Sent(stream', BodyLen', written', text')
  <2>1. written + Count(f) = written
    BY <1>3, <1>5
  <2>. QED
    BY <1>2, <1>6, <1>9, <2>1, Zenon
<1>11. /\ stream' \in Seq(Byte) /\ BodyLen' \in Nat /\ Len(stream) <= BodyLen'
       /\ written' \in Nat /\ written <= written'
  <2>1. stream \o f \in Seq(Byte) /\ Len(stream \o f) = Len(stream) + Len(f) /\ Len(stream) \in Nat /\ Len(f) \in Nat
    BY <1>3, <1>5, Behind
  <2>. QED
    BY <1>2, <1>5, <1>6, <2>1
<1>12. pos' \in 0..Len(stream') /\ CutInv' /\ PanelInv'
  BY <1>2, <1>3, <1>11, WriteKeeps
<1>13. LogTypeOK'
  BY <1>2, <1>4, <1>11, <1>12 DEF LogTypeOK, clientVars
<1>. QED
  BY <1>10, <1>12, <1>13 DEF LogInv

\* The final frame.
LEMMA FinishKeeps ==
  ASSUME LogInv, Finish
  PROVE  LogInv'
<1>2. /\ handler = "open" /\ stream' = stream \o DoneFrame /\ UNCHANGED clientVars
      /\ written' = written /\ text' = text /\ handler' = "done"
  BY DEF Finish, Write
<1>3. DoneFrame \in Seq(Byte) /\ Len(DoneFrame) = 6
  BY DoneFrameIs
<1>4. LogTypeOK /\ Sent(stream, BodyLen, written, text)
  BY DEF LogInv
<1>5. stream \in Seq(Byte) /\ written \in Nat /\ Len(stream) \in Nat
  BY <1>4 DEF LogTypeOK
<1>6. BodyLen = Len(stream) /\ BodyLen' = Len(stream \o DoneFrame) - 6
  BY <1>2 DEF BodyLen
<1>7. Sent(stream \o DoneFrame, Len(stream), written, text) /\ Len(stream \o DoneFrame) = Len(stream) + 6
  BY <1>4, <1>5, <1>6, SentEnds, Zenon
<1>8. BodyLen' = Len(stream)
  BY <1>5, <1>6, <1>7
<1>9. Sent(stream', BodyLen', written', text')
  BY <1>2, <1>7, <1>8, Zenon
<1>10. stream' \in Seq(Byte)
  BY <1>2, <1>3, <1>5, Behind
<1>11. pos' \in 0..Len(stream') /\ CutInv' /\ PanelInv'
  <2>1. BodyLen' \in Nat /\ Len(stream) <= BodyLen' /\ written' \in Nat /\ written <= written'
    BY <1>2, <1>5, <1>8
  <2>. QED
    BY <1>2, <1>3, <2>1, WriteKeeps
<1>12. LogTypeOK'
  BY <1>2, <1>4, <1>10, <1>11 DEF LogTypeOK, clientVars
<1>. QED
  BY <1>9, <1>11, <1>12 DEF LogInv

\* The handler returns without a final frame.
LEMMA LeaveKeeps ==
  ASSUME LogInv, Leave
  PROVE  LogInv'
<1>1. /\ handler = "open" /\ handler' = "gone" /\ stream' = stream /\ written' = written /\ text' = text
      /\ pos' = pos /\ buffer' = buffer /\ panel' = panel /\ split' = split /\ ended' = ended
  BY DEF Leave, clientVars
<1>2. BodyLen' = BodyLen
  BY <1>1 DEF BodyLen
<1>3. Once' = Once
  BY <1>1, Zenon DEF Once
<1>4. LogTypeOK'
  BY <1>1 DEF LogInv, LogTypeOK
<1>5. Sent(stream', BodyLen', written', text')
  BY <1>1, <1>2, Zenon DEF LogInv
<1>6. CutInv'
  BY <1>1, <1>3, Zenon DEF LogInv, CutInv
<1>7. PanelInv'
  BY <1>1, <1>2, Zenon DEF LogInv, PanelInv
<1>. QED
  BY <1>4, <1>5, <1>6, <1>7 DEF LogInv

\* The n bytes behind the first p.
LEMMA PieceOf ==
  ASSUME NEW s \in Seq(Byte), NEW p \in Nat, NEW n \in Nat, n > 0, p + n <= Len(s)
  PROVE  LET c == SubSeq(s, p + 1, p + n)
         IN  c \in Seq(Byte) /\ Len(c) = n /\ c[1] = s[p + 1] /\ c[n] = s[p + n]
<1>. DEFINE c == SubSeq(s, p + 1, p + n)
<1>1. c \in Seq(Byte)
  OBVIOUS
<1>2. Len(c) = n
  OBVIOUS
<1>3. \A i \in 1..n : c[i] = s[p + i]
  OBVIOUS
<1>4. 1 \in 1..n /\ n \in 1..n
  OBVIOUS
<1>. HIDE DEF c
<1>5. c[1] = s[p + 1] /\ c[n] = s[p + n]
  BY <1>3, <1>4
<1>. QED
  BY <1>1, <1>2, <1>5 DEF c

\* A read of n bytes.
LEMMA ReadBytesKeeps ==
  ASSUME LogInv, NEW n \in 1..Len(stream), ReadBytes(n)
  PROVE  LogInv'
<1>. DEFINE s == stream
            c == SubSeq(s, pos + 1, pos + n)
            x == St(buffer, panel, "N")
            y == Parse(x, c)
            q == BodyLen
            drained == DrainSSEBuffer(buffer \o c, panel)
<1>1. LogTypeOK /\ CutInv /\ PanelInv /\ Sent(s, q, written, text)
  BY DEF LogInv
<1>2. /\ s \in Seq(Byte) /\ pos \in 0..Len(s) /\ buffer \in Seq(Byte) /\ panel \in Panel
      /\ n \in Nat /\ n > 0 /\ pos \in Nat /\ Len(s) \in Nat
  BY <1>1 DEF LogTypeOK
<1>3. /\ ended = "no" /\ pos + n <= Len(s) /\ pos' = pos + n
      /\ buffer' = drained.rest /\ panel' = drained.panel
      /\ handler' = handler /\ stream' = s /\ written' = written /\ text' = text /\ ended' = ended
  BY DEF ReadBytes, serverVars
<1>4. split' = (split \/ (pos' < Len(s) /\ s[pos'] = "C" /\ s[pos' + 1] = "N"))
  BY DEF ReadBytes
<1>5. /\ c \in Seq(Byte) /\ Len(c) = n /\ c[1] = s[pos + 1] /\ c[n] = s[pos + n]
  BY <1>2, <1>3, PieceOf, Zenon
<1>6. SubSeq(s, 1, pos + n) = SubSeq(s, 1, pos) \o c /\ SubSeq(s, 1, pos) \in Seq(Byte)
  BY <1>2, <1>3
<1>7. Kept(buffer) /\ At(s, q, pos, buffer, panel)
  BY <1>1, <1>3 DEF PanelInv
<1>8. Wire(s, q)
  BY <1>1 DEF Sent
<1>9. At(s, q, pos + n, y.rest, y.panel)
  BY <1>2, <1>3, <1>7, <1>8, AtParse
<1>. HIDE DEF c, q
<1>10. c # <<>>
  BY <1>2, <1>5
<1>11. x \in State /\ x.rest = buffer /\ x.panel = panel /\ x.last = "N"
  BY <1>2, StParts DEF Byte
<1>12. drained = [rest |-> y.rest, panel |-> y.panel]
  BY <1>2, <1>5, <1>7, <1>10, DrainGoesOn
<1>. HIDE DEF x
<1>13. y \in State /\ y.rest \in Seq(Byte) /\ y.panel \in Panel /\ Kept(y.rest)
  BY <1>5, <1>7, <1>11, ParseLaws, ParseKeeps, StParts
<1>. HIDE DEF y, drained
<1>14. buffer' = y.rest /\ panel' = y.panel
  BY <1>3, <1>12
<1>15. BodyLen' = q
  BY <1>3 DEF BodyLen, q
<1>16. LogTypeOK'
  <2>1. split' \in BOOLEAN
    BY <1>4
  <2>2. pos' \in 0..Len(stream')
    BY <1>2, <1>3
  <2>. QED
    BY <1>1, <1>3, <1>13, <1>14, <2>1, <2>2 DEF LogTypeOK
<1>17. Sent(stream', BodyLen', written', text')
  BY <1>1, <1>3, <1>15, Zenon
<1>18. PanelInv'
  BY <1>3, <1>7, <1>9, <1>13, <1>14, <1>15, Zenon DEF PanelInv
<1>19. CASE split'
  <2>1. ~Without(s, "C")
    <3>1. CASE split
      BY <1>1, <3>1, Zenon DEF CutInv
    <3>2. CASE ~split
      <4>1. s[pos'] = "C"
        BY <1>4, <1>19, <3>2, Zenon
      <4>2. pos' \in 1..Len(s)
        BY <1>2, <1>3
      <4>. QED
        BY <4>1, <4>2, Zenon DEF Without
    <3>. QED
      BY <3>1, <3>2, Zenon
  <2>2. CutInv'
    BY <1>3, <1>19, <2>1, Zenon DEF CutInv
  <2>. QED
    BY <1>16, <1>17, <1>18, <2>2 DEF LogInv
<1>20. CASE ~split'
  <2>1. ~split /\ ~(pos' < Len(s) /\ s[pos'] = "C" /\ s[pos' + 1] = "N")
    BY <1>4, <1>20, Zenon
  <2>. DEFINE o == Parse(Begin(NoPanel), SubSeq(s, 1, pos))
  <2>2. buffer = o.rest /\ panel = o.panel
    BY <1>1, <1>3, <2>1, Zenon DEF CutInv, Once
  <2>3. o \in State
    BY <1>6, NoPanelType, ParseLaws
  <2>4. Once' = Parse(o, c)
    <3>. DEFINE pre == SubSeq(s, 1, pos)
    <3>1. Once' = Parse(Begin(NoPanel), SubSeq(s, 1, pos + n))
      BY <1>3, Zenon DEF Once
    <3>2. SubSeq(s, 1, pos + n) = pre \o c /\ pre \in Seq(Byte)
      BY <1>6
    <3>. HIDE DEF pre
    <3>3. Parse(Begin(NoPanel), pre \o c) = Parse(Parse(Begin(NoPanel), pre), c)
      BY <1>5, <3>2, NoPanelType, ParseLaws
    <3>. QED
      BY <3>1, <3>2, <3>3, Zenon DEF pre
  <2>5. c[1] = "N" => o.last # "C"
    <3>1. CASE pos = 0
      <4>1. SubSeq(s, 1, pos) = <<>>
        BY <1>2, <3>1
      <4>2. o = Begin(NoPanel)
        BY <4>1, NoPanelType, ParseLaws, Zenon
      <4>. QED
        BY <4>2, NoPanelType, StParts
    <3>2. CASE pos > 0
      <4>. DEFINE pre == SubSeq(s, 1, pos)
      <4>1. pre \in Seq(Byte) /\ pre # <<>> /\ pre[Len(pre)] = s[pos]
        BY <1>2, <3>2
      <4>. HIDE DEF pre
      <4>2. Parse(Begin(NoPanel), pre).last = pre[Len(pre)]
        BY <4>1, NoPanelType, ParseLast
      <4>3. o.last = s[pos]
        BY <4>1, <4>2, Zenon DEF pre
      <4>4. pos < Len(s)
        BY <1>2, <1>3
      <4>5. ~(s[pos] = "C" /\ s[pos + 1] = "N")
        BY <1>1, <2>1, <3>2, <4>4, Zenon DEF CutInv
      <4>. QED
        BY <1>5, <4>3, <4>5
    <3>. QED
      BY <1>2, <3>1, <3>2
  <2>. HIDE DEF o
  <2>6. Parse(o, c) = y
    <3>1. o.rest = x.rest /\ o.panel = x.panel
      BY <1>11, <2>2
    <3>2. c[1] = "N" => o.last # "C" /\ x.last # "C"
      BY <1>11, <2>5
    <3>. QED
      BY <1>5, <1>10, <1>11, <2>3, <3>1, <3>2, ParseFrom DEF y
  <2>7. Once' = y
    BY <2>4, <2>6
  <2>8. CutInv'
    BY <1>3, <1>14, <1>20, <2>1, <2>7, Zenon DEF CutInv
  <2>. QED
    BY <1>16, <1>17, <1>18, <2>8 DEF LogInv
<1>. QED
  BY <1>16, <1>19, <1>20, Zenon DEF LogTypeOK

\* Where the stream ends the parser holds nothing that matters.
LEMMA AtEnd ==
  ASSUME LogInv, ended = "no", pos = Len(stream)
  PROVE  /\ panel.state = (IF handler = "done" THEN "done" ELSE "live")
         /\ buffer \in {<<>>, <<"N">>}
<1>. DEFINE q == BodyLen
<1>1. Wire(stream, q) /\ At(stream, q, pos, buffer, panel) /\ stream \in Seq(Byte) /\ Len(stream) \in Nat
  BY DEF LogInv, Sent, PanelInv, LogTypeOK
<1>2. q = IF handler = "done" THEN Len(stream) - 6 ELSE Len(stream)
  BY DEF BodyLen
<1>. HIDE DEF q
<1>3. q \in Nat /\ q > 1 /\ stream[q - 1] = "N" /\ stream[q] = "N"
  BY <1>1 DEF Wire
<1>4. CASE handler = "done"
  <2>1. pos > q /\ pos - q = 6
    BY <1>1, <1>2, <1>3, <1>4
  <2>2. After(stream, q, pos - q, buffer, panel)
    BY <1>1, <2>1, Zenon DEF At
  <2>3. panel.state = "done" /\ buffer = <<>>
    BY <2>1, <2>2, Zenon DEF After
  <2>. QED
    BY <1>4, <2>3
<1>5. CASE handler # "done"
  <2>1. pos = q /\ pos <= q
    BY <1>1, <1>2, <1>3, <1>5
  <2>2. Before(stream, q, buffer, panel)
    BY <1>1, <2>1, Zenon DEF At
  <2>3. panel.state = "live" /\ buffer \in {<<>>, <<"N">>}
    BY <1>3, <2>2, Zenon DEF Before
  <2>. QED
    BY <1>5, <2>3
<1>. QED
  BY <1>4, <1>5

\* However far the client has read, it shows no more lines than were written.
LEMMA LinesBound ==
  ASSUME LogInv
  PROVE  Len(panel.lines) <= written
<1>1. CASE ended = "no"
  <2>1. /\ Wire(stream, BodyLen) /\ Count(SubSeq(stream, 1, BodyLen)) = written
        /\ At(stream, BodyLen, pos, buffer, panel)
    BY <1>1, Zenon DEF LogInv, Sent, PanelInv
  <2>2. stream \in Seq(Byte) /\ pos \in 0..Len(stream) /\ buffer \in Seq(Byte) /\ panel \in Panel
    BY DEF LogInv, LogTypeOK
  <2>3. Len(panel.lines) <= Count(SubSeq(stream, 1, BodyLen))
    BY <2>1, <2>2, AtLines
  <2>. QED
    BY <2>1, <2>3
<1>2. CASE ended # "no"
  BY <1>2 DEF LogInv, PanelInv
<1>. QED
  BY <1>1, <1>2

\* The response ends and what is left in the buffer is dispatched.
LEMMA CloseStreamKeeps ==
  ASSUME LogInv, CloseStream
  PROVE  LogInv'
<1>1. /\ ended = "no" /\ handler # "open" /\ pos = Len(stream) /\ ended' = "closed"
      /\ panel' = DispatchSSEBlock(buffer, panel) /\ buffer' = <<>>
      /\ handler' = handler /\ stream' = stream /\ written' = written /\ text' = text
      /\ pos' = pos /\ split' = split
  BY DEF CloseStream, serverVars
<1>2. /\ panel.state = (IF handler = "done" THEN "done" ELSE "live")
      /\ buffer \in {<<>>, <<"N">>}
  BY <1>1, AtEnd
<1>3. panel' = panel
  <2>1. buffer \in Seq(Byte) /\ Read(buffer) = Start
    BY <1>2, ReadNothing, Zenon
  <2>2. EndLine(Start).data = <<>>
    BY DEF EndLine, Start
  <2>. QED
    BY <1>1, <2>1, <2>2, DispatchIs
<1>4. LogTypeOK'
  <2>1. <<>> \in Seq(Byte)
    OBVIOUS
  <2>. QED
    BY <1>1, <1>3, <2>1 DEF LogInv, LogTypeOK
<1>5. BodyLen' = BodyLen
  BY <1>1 DEF BodyLen
<1>6. Sent(stream', BodyLen', written', text')
  BY <1>1, <1>5, Zenon DEF LogInv
<1>7. Once' = Once
  BY <1>1, Zenon DEF Once
<1>8. CutInv'
  BY <1>1, <1>3, <1>7, Zenon DEF LogInv, CutInv
<1>9. PanelInv'
  <2>1. Len(panel.lines) <= written
    BY LinesBound
  <2>2. panel.state = "done" <=> handler = "done"
    BY <1>2
  <2>. QED
    BY <1>1, <1>3, <2>1, <2>2, Zenon DEF PanelInv
<1>. QED
  BY <1>4, <1>6, <1>8, <1>9 DEF LogInv

\* The connection breaks.
LEMMA BreakStreamKeeps ==
  ASSUME LogInv, BreakStream
  PROVE  LogInv'
<1>1. /\ ended = "no" /\ ended' = "broken"
      /\ panel' = [panel EXCEPT !.state = "done"] /\ buffer' = <<>>
      /\ handler' = handler /\ stream' = stream /\ written' = written /\ text' = text
      /\ pos' = pos /\ split' = split
  BY DEF BreakStream, serverVars
<1>2. panel' \in Panel /\ panel'.lines = panel.lines /\ panel'.state = "done"
  BY <1>1 DEF LogInv, LogTypeOK, Panel
<1>4. LogTypeOK'
  <2>1. <<>> \in Seq(Byte)
    OBVIOUS
  <2>. QED
    BY <1>1, <1>2, <2>1 DEF LogInv, LogTypeOK
<1>5. BodyLen' = BodyLen
  BY <1>1 DEF BodyLen
<1>6. Sent(stream', BodyLen', written', text')
  BY <1>1, <1>5, Zenon DEF LogInv
<1>7. Once' = Once
  BY <1>1, Zenon DEF Once
<1>8. CutInv'
  BY <1>1, <1>2, <1>7, Zenon DEF LogInv, CutInv
<1>9. PanelInv'
  <2>1. Len(panel.lines) <= written
    BY LinesBound
  <2>. QED
    BY <1>1, <1>2, <2>1, Zenon DEF PanelInv
<1>. QED
  BY <1>4, <1>6, <1>8, <1>9 DEF LogInv

\* The invariant of the log on its way: what the server has sent, what the
\* parser holds wherever a read ended, and what the panel shows.
THEOREM LogInvariant == LogSpec => []LogInv
<1>1. LogInit => LogInv
  BY LogInvInit
<1>2. LogInv /\ [LogNext]_logVars => LogInv'
  <2>. SUFFICES ASSUME LogInv, [LogNext]_logVars PROVE LogInv'
    OBVIOUS
  <2>1. ASSUME NEW c \in Chunks, FlushChunk(c) PROVE LogInv'
    BY <2>1, FlushChunkKeeps
  <2>2. CASE KeepAlive
    BY <2>2, KeepAliveKeeps
  <2>3. CASE Finish
    BY <2>3, FinishKeeps
  <2>4. CASE Leave
    BY <2>4, LeaveKeeps
  <2>5. ASSUME NEW n \in 1..Len(stream), ReadBytes(n) PROVE LogInv'
    BY <2>5, ReadBytesKeeps
  <2>6. CASE CloseStream
    BY <2>6, CloseStreamKeeps
  <2>7. CASE BreakStream
    BY <2>7, BreakStreamKeeps
  <2>8. CASE UNCHANGED logVars
    <3>1. /\ handler' = handler /\ stream' = stream /\ written' = written /\ text' = text
          /\ pos' = pos /\ buffer' = buffer /\ panel' = panel /\ split' = split /\ ended' = ended
      BY <2>8 DEF logVars, serverVars, clientVars
    <3>2. BodyLen' = BodyLen /\ Once' = Once
      BY <3>1, Zenon DEF BodyLen, Once
    <3>. QED
      BY <3>1, <3>2, Zenon DEF LogInv, LogTypeOK, CutInv, PanelInv
  <2>. QED
    BY <2>1, <2>2, <2>3, <2>4, <2>5, <2>6, <2>7, <2>8 DEF LogNext
<1>. QED
  BY <1>1, <1>2, PTL DEF LogSpec

\* drainSSEBuffer: however the network cuts the bytes, the panel has what one
\* single read would have given, unless a read ended inside a CR LF.
THEOREM CutsNeverMatter == LogSpec => []CutsDoNotMatter
<1>1. LogInv => CutsDoNotMatter
  <2>. SUFFICES ASSUME LogInv, ~split
                PROVE  LET once == DrainSSEBuffer(SubSeq(stream, 1, pos), NoPanel)
                       IN  /\ panel.lines = once.panel.lines
                           /\ ended = "no" => buffer = once.rest /\ panel = once.panel
    BY DEF CutsDoNotMatter
  <2>. DEFINE pre == SubSeq(stream, 1, pos)
              once == DrainSSEBuffer(pre, NoPanel)
  <2>1. pre \in Seq(Byte)
    BY DEF LogInv, LogTypeOK
  <2>2. Once = Parse(Begin(NoPanel), pre)
    BY DEF Once
  <2>. HIDE DEF pre
  <2>3. once = [rest |-> Once.rest, panel |-> Once.panel]
    BY <2>1, <2>2, NoPanelType, DrainIsParse
  <2>4. once.rest = Once.rest /\ once.panel = Once.panel
    BY <2>3
  <2>. HIDE DEF once
  <2>5. panel.lines = once.panel.lines /\ (ended = "no" => buffer = once.rest /\ panel = once.panel)
    BY <2>4, Zenon DEF LogInv, CutInv
  <2>. QED
    BY <2>5 DEF once, pre
<1>. QED
  BY <1>1, LogInvariant, PTL

\* The log panel: no line is shown twice wherever the bytes are cut, the text is
\* the log's when it has no carriage returns, and the panel shows the end of the
\* log when the final frame has been read and not before.
THEOREM LogAlwaysArrives == LogSpec => []LogArrives
<1>1. LogInv => LogArrives
  <2>. SUFFICES ASSUME LogInv PROVE LogArrives
    OBVIOUS
  <2>1. Len(panel.lines) <= written
    BY LinesBound
  <2>2. /\ stream \in Seq(Byte) /\ Len(stream) \in Nat /\ text \in Seq(Seq(Byte))
        /\ handler \in {"open", "done", "gone"} /\ ended \in {"no", "closed", "broken"}
    BY DEF LogInv, LogTypeOK
  <2>3. ASSUME pos = Len(stream), \A i \in DOMAIN stream : stream[i] # "C" PROVE panel.lines = text
    <3>. DEFINE q == BodyLen
                body == SubSeq(stream, 1, q)
    <3>1. Without(stream, "C")
      BY <2>2, <2>3 DEF Without
    <3>2. ~split /\ panel.lines = Once.panel.lines
      BY <3>1, Zenon DEF LogInv, LogTypeOK, CutInv
    <3>3. SubSeq(stream, 1, pos) = stream
      BY <2>2, <2>3
    <3>4. Once = Parse(Begin(NoPanel), stream)
      BY <3>3, Zenon DEF Once
    <3>5. Wire(stream, q) /\ (Without(body, "C") => Parse(Begin(NoPanel), body) = Begin(Live(text)))
      BY Zenon DEF LogInv, Sent
    <3>6. q = IF handler = "done" THEN Len(stream) - 6 ELSE Len(stream)
      BY DEF BodyLen
    <3>7. Live(text) \in Panel /\ Live(text).lines = text
      BY <2>2 DEF Live, Panel
    <3>8. q \in Nat /\ q <= Len(stream)
      BY <3>5 DEF Wire
    <3>9. body \in Seq(Byte) /\ Without(body, "C")
      <4>. HIDE DEF q
      <4>1. body \in Seq(Byte) /\ Len(body) = q /\ \A i \in 1..q : body[i] = stream[i]
        BY <2>2, <3>8
      <4>2. \A i \in 1..q : i \in 1..Len(stream)
        BY <2>2, <3>8
      <4>. HIDE DEF body
      <4>. QED
        BY <3>1, <4>1, <4>2, Zenon DEF Without
    <3>10. Parse(Begin(NoPanel), body) = Begin(Live(text))
      BY <3>5, <3>9
    <3>. HIDE DEF q
    <3>11. CASE handler = "done"
      <4>1. Len(stream) = q + 6 /\ \A k \in 1..6 : stream[q + k] = DoneFrame[k]
        BY <2>2, <3>5, <3>6, <3>8, <3>11 DEF Wire
      <4>2. stream = body \o DoneFrame
        <5>1. DoneFrame \in Seq(Byte) /\ Len(DoneFrame) = 6
          BY DoneFrameIs
        <5>2. body \in Seq(Byte) /\ Len(body) = q /\ \A i \in 1..q : body[i] = stream[i]
          BY <2>2, <3>8
        <5>. DEFINE f == DoneFrame
                    u == body \o f
        <5>. HIDE DEF body, f
        <5>3. f \in Seq(Byte) /\ Len(f) = 6
          BY <5>1 DEF f
        <5>4. /\ u \in Seq(Byte) /\ Len(u) = Len(body) + Len(f)
              /\ \A i \in 1..Len(body) : u[i] = body[i]
              /\ \A i \in 1..Len(f) : u[Len(body) + i] = f[i]
          BY <5>2, <5>3, Behind, Zenon
        <5>. HIDE DEF u
        <5>5. Len(u) = q + 6 /\ (\A i \in 1..q : u[i] = body[i]) /\ (\A i \in 1..6 : u[q + i] = f[i])
          BY <5>2, <5>3, <5>4, Zenon
        <5>6. ASSUME NEW i \in 1..(q + 6) PROVE stream[i] = u[i]
          <6>1. CASE i \in 1..q
            BY <5>2, <5>5, <6>1
          <6>2. CASE i > q
            <7>. DEFINE k == i - q
            <7>1. k \in 1..6 /\ q + k = i
              BY <3>8, <6>2
            <7>. HIDE DEF k
            <7>2. stream[q + k] = DoneFrame[k] /\ u[q + k] = f[k]
              BY <4>1, <5>5, <7>1
            <7>. QED
              BY <7>1, <7>2 DEF f
          <6>. QED
            BY <3>8, <6>1, <6>2
        <5>7. stream \in Seq(Byte) /\ Len(stream) = Len(u)
          BY <2>2, <4>1, <5>5
        <5>8. \A i \in 1..Len(stream) : stream[i] = u[i]
          BY <5>5, <5>6, <5>7, Zenon
        <5>9. stream = u
          BY <5>4, <5>7, <5>8, SameSequence, Zenon
        <5>. QED
          BY <5>9 DEF u, f
      <4>. HIDE DEF body
      <4>3. Parse(Begin(NoPanel), body \o DoneFrame) = Parse(Begin(Live(text)), DoneFrame)
        BY <3>9, <3>10, NoPanelType, ParseLaws, DoneFrameIs
      <4>4. Parse(Begin(Live(text)), DoneFrame).panel.lines = text
        BY <3>7, DoneFrameIs
      <4>. QED
        BY <3>2, <3>4, <4>2, <4>3, <4>4, Zenon
    <3>12. CASE handler # "done"
      <4>1. body = stream
        BY <2>2, <3>6, <3>12
      <4>. HIDE DEF body
      <4>2. Once = Begin(Live(text))
        BY <3>4, <3>10, <4>1
      <4>. QED
        BY <3>2, <3>7, <4>2, StParts
    <3>. QED
      BY <3>11, <3>12
  <2>4. ASSUME pos = Len(stream), handler = "done" PROVE panel.state = "done"
    <3>1. CASE ended = "no"
      BY <2>4, <3>1, AtEnd
    <3>2. CASE ended # "no"
      BY <2>2, <2>4, <3>2 DEF LogInv, PanelInv
    <3>. QED
      BY <3>1, <3>2
  <2>5. ASSUME panel.state = "done" PROVE ended = "broken" \/ (handler = "done" /\ pos = Len(stream))
    <3>1. CASE ended = "no"
      <4>. DEFINE q == BodyLen
      <4>1. Wire(stream, q) /\ At(stream, q, pos, buffer, panel) /\ pos \in 0..Len(stream)
        BY <3>1 DEF LogInv, Sent, PanelInv, LogTypeOK
      <4>2. pos > q /\ pos - q = 6
        <5>. HIDE DEF q
        <5>1. q \in Nat /\ (Len(stream) = q \/ Len(stream) = q + 6)
          BY <4>1 DEF Wire
        <5>2. ~(pos <= q)
          BY <2>5, <4>1 DEF At, Before
        <5>3. pos > q
          BY <4>1, <5>1, <5>2
        <5>4. ~(pos - q < 6)
          BY <2>5, <4>1, <5>3 DEF At, After
        <5>. QED
          BY <2>2, <4>1, <5>1, <5>3, <5>4
      <4>3. Len(stream) = q + 6 /\ q \in Nat
        BY <2>2, <4>1, <4>2 DEF Wire
      <4>. QED
        BY <2>2, <4>1, <4>2, <4>3 DEF BodyLen
    <3>2. CASE ended # "no"
      BY <2>2, <2>5, <3>2 DEF LogInv, PanelInv
    <3>. QED
      BY <3>1, <3>2
  <2>. QED
    BY <2>1, <2>3, <2>4, <2>5, Zenon DEF LogArrives
<1>. QED
  BY <1>1, LogInvariant, PTL
====
