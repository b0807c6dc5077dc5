--------------------------- MODULE FramingProofs ---------------------------
(***************************************************************************)
(* Proofs about module Framing, for any number of events and any cuts of   *)
(* the stream: what the text between the two sides looks like, that the    *)
(* splitting of it finds the events that were sent, and that the daemon's  *)
(* loop implements the channel that module TaskFlow takes for granted.     *)
(***************************************************************************)
EXTENDS Framing, SequenceTheorems, WellFoundedInduction, TLAPS

-----------------------------------------------------------------------------
\* The lines an event begins with, and how many tokens it has.
Heads == {"event:task", "event:ping", ":comment"}

Length(head) == IF head = ":comment" THEN 5 ELSE 8

\* What may stand a number of places behind the beginning of an event.
Slot(head, j) ==
  IF j = Length(head) THEN Heads
  ELSE IF head # ":comment" /\ j = 3
       THEN IF head = "event:task" THEN Tasks ELSE {"data:"}
  ELSE IF (IF head # ":comment" /\ j > 3 THEN j - 3 ELSE j) \in {1, 3}
       THEN {"CR"} ELSE {"LF"}

\* A text that begins with an event and may end within one.
Framed(s) ==
  /\ s # <<>> => s[1] \in Heads
  /\ \A i \in 1..Len(s) : s[i] \in Heads =>
       \A j \in 1..Length(s[i]) : i + j <= Len(s) => s[i + j] \in Slot(s[i], j)
  /\ \A i \in 1..Len(s) : s[i] \in Tasks => i > 3 /\ s[i - 3] = "event:task"

\* A text that does not end within an event.
Complete(s) == \A i \in 1..Len(s) : s[i] \in Heads => i + Length(s[i]) <= Len(s) + 1

Distinct(p) == \A a, b \in 1..Len(p) : p[a] = p[b] => a = b

\* The tasks in a text, by when they were sent.
Present(s, p) == {a \in 1..Len(p) : \E i \in 1..Len(s) : s[i] = p[a]}

Known(s, p) == \A i \in 1..Len(s) : s[i] \in Tasks => \E a \in 1..Len(p) : p[a] = s[i]

\* They stand in the order they were sent.
Ordered(s, p) ==
  \A i, j \in 1..Len(s), a, b \in 1..Len(p) : s[i] = p[a] /\ s[j] = p[b] /\ i < j => a < b

\* None is missing between two others, or after one.
Convex(W) == \A a, c \in W : a..c \subseteq W
Newest(W, n) == \A a \in W : a..n \subseteq W

\* What holds of the text whether or not the connection works.
Sound(s, p) ==
  /\ Framed(s)
  /\ Distinct(p) /\ Known(s, p) /\ Ordered(s, p)
  /\ Convex(Present(s, p))

StreamInv ==
  /\ Sound(Text, put)
  /\ alive => Complete(Text) /\ Newest(Present(Text, put), Len(put))
  /\ pc = "left" => Text = <<>> /\ ~alive

-----------------------------------------------------------------------------
Less == {ss \in Nat \X Nat : ss[1] < ss[2]}

LEMMA LessIsLess == OpToRel(<, Nat) = Less
  BY DEF OpToRel, Less

\* Every nonempty set of numbers has a least one.
LEMMA Least ==
  ASSUME NEW S \in SUBSET Nat, S # {}
  PROVE  \E m \in S : \A k \in S : m <= k
<1>1. PICK m \in S : \A k \in S : ~(<<k, m>> \in Less)
  BY NatLessThanWellFounded, WFMin, LessIsLess
<1>2. ASSUME NEW k \in S PROVE m <= k
  <2>1. m \in Nat /\ k \in Nat /\ <<k, m>> \notin Less
    BY <1>1
  <2> QED BY <2>1 DEF Less
<1> QED BY <1>2

\* A nonempty set of numbers with a bound has a greatest one.
LEMMA Greatest ==
  ASSUME NEW S \in SUBSET Nat, S # {}, NEW b \in Nat, \A k \in S : k <= b
  PROVE  \E m \in S : \A k \in S : k <= m
<1> DEFINE B == {x \in Nat : \A k \in S : k <= x}
<1>1. PICK m \in B : \A k \in B : m <= k
  BY Least
<1>2. m \in S
  <2> SUFFICES ASSUME m \notin S PROVE FALSE
    OBVIOUS
  <2>0. PICK k \in S : TRUE
    OBVIOUS
  <2>1. m # 0 /\ m - 1 \in Nat
    BY <1>1, <2>0
  <2>2. m - 1 \in B
    BY <1>1, <2>1
  <2> QED BY <1>1, <2>1, <2>2
<1> QED BY <1>1, <1>2

LEMMA MinOfSet ==
  ASSUME NEW S \in SUBSET Nat, S # {}
  PROVE  Min(S) \in S /\ \A k \in S : Min(S) <= k
  BY Least DEF Min

LEMMA MaxOfSet ==
  ASSUME NEW S \in SUBSET Nat, S # {}, NEW b \in Nat, \A k \in S : k <= b
  PROVE  Max(S) \in S /\ \A k \in S : k <= Max(S)
<1>1. \E m \in S : \A k \in S : m >= k
  <2>1. PICK m \in S : \A k \in S : k <= m
    BY Greatest
  <2> QED BY <2>1
<1> QED BY <1>1 DEF Max

\* A set of numbers without gaps is an interval.
LEMMA Interval ==
  ASSUME NEW n \in Nat, NEW W \in SUBSET (1..n), W # {}, Convex(W)
  PROVE  /\ W = Min(W)..Max(W)
         /\ Min(W) \in 1..n /\ Max(W) \in 1..n /\ Min(W) <= Max(W)
<1>1. Min(W) \in W /\ \A k \in W : Min(W) <= k
  BY MinOfSet
<1>2. Max(W) \in W /\ \A k \in W : k <= Max(W)
  BY MaxOfSet
<1> DEFINE lo == Min(W)  hi == Max(W)
<1>3. lo \in 1..n /\ hi \in 1..n
  BY <1>1, <1>2
<1>4. \A k \in W : k \in Nat /\ lo <= k /\ k <= hi
  BY <1>1, <1>2
<1>5. lo..hi \subseteq W
  BY <1>1, <1>2 DEF Convex
<1> HIDE DEF lo, hi
<1>6. W \subseteq lo..hi
  BY <1>3, <1>4
<1>7. lo <= hi
  <2>1. PICK k \in W : TRUE
    OBVIOUS
  <2> QED BY <2>1, <1>3, <1>4
<1>8. W = lo..hi
  BY <1>5, <1>6
<1> QED BY <1>3, <1>7, <1>8 DEF lo, hi

LEMMA MinOfInterval ==
  ASSUME NEW a \in Nat, NEW b \in Nat, a <= b
  PROVE  Min(a..b) = a /\ Max(a..b) = b
<1>1. a..b \in SUBSET Nat /\ a \in a..b /\ b \in a..b
  OBVIOUS
<1>2. Min(a..b) \in a..b /\ Min(a..b) <= a
  BY <1>1, MinOfSet
<1>3. \A k \in a..b : k <= b
  OBVIOUS
<1>4. Max(a..b) \in a..b /\ b <= Max(a..b)
  <2> DEFINE S == a..b
  <2>1. S \in SUBSET Nat /\ S # {} /\ b \in S /\ \A k \in S : k <= b
    BY <1>1, <1>3
  <2> HIDE DEF S
  <2>2. Max(S) \in S /\ b <= Max(S)
    BY <2>1, MaxOfSet
  <2> QED BY <2>2 DEF S
<1> QED BY <1>2, <1>4

-----------------------------------------------------------------------------
\* What concatenating and cutting sequences gives, place by place.
LEMMA ConcatAt ==
  ASSUME NEW S, NEW s \in Seq(S), NEW e \in Seq(S)
  PROVE  /\ s \o e \in Seq(S)
         /\ Len(s \o e) = Len(s) + Len(e)
         /\ \A i \in 1..Len(s) : (s \o e)[i] = s[i]
         /\ \A j \in 1..Len(e) : (s \o e)[Len(s) + j] = e[j]
  OBVIOUS

LEMMA CutAt ==
  ASSUME NEW S, NEW s \in Seq(S), NEW a \in 0..Len(s), NEW b \in a..Len(s)
  PROVE  /\ SubSeq(s, a + 1, b) \in Seq(S)
         /\ Len(SubSeq(s, a + 1, b)) = b - a
         /\ \A i \in 1..b - a : SubSeq(s, a + 1, b)[i] = s[a + i]
  OBVIOUS

LEMMA LengthIs == \A h : Length(h) \in {5, 8}
  BY DEF Length

\* Putting complete events behind a complete text.
LEMMA AppendFramed ==
  ASSUME NEW s \in Seq(Tokens), NEW e \in Seq(Tokens),
         Framed(s), Complete(s), Framed(e), Complete(e)
  PROVE  Framed(s \o e) /\ Complete(s \o e)
<1> DEFINE m == Len(s)  n == Len(e)  x == s \o e
<1>1. /\ x \in Seq(Tokens) /\ Len(x) = m + n /\ m \in Nat /\ n \in Nat
      /\ \A i \in 1..m : x[i] = s[i]
      /\ \A j \in 1..n : x[m + j] = e[j]
  BY ConcatAt
<1> HIDE DEF x, m, n
<1>2. ASSUME NEW i \in 1..m + n
      PROVE  i \in 1..m \/ \E j \in 1..n : i = m + j
  <2>1. CASE i <= m  BY <1>1, <2>1
  <2>2. CASE i > m
    <3>1. i - m \in 1..n /\ i = m + (i - m)
      BY <1>1, <2>2
    <3> QED BY <3>1
  <2> QED BY <1>1, <2>1, <2>2
<1>3. x # <<>> => x[1] \in Heads
  <2> SUFFICES ASSUME x # <<>> PROVE x[1] \in Heads
    OBVIOUS
  <2>1. CASE m > 0
    <3>1. s # <<>> /\ 1 \in 1..m  BY <2>1, <1>1 DEF m
    <3> QED BY <3>1, <1>1 DEF Framed
  <2>2. CASE m = 0
    <3>1. n > 0  BY <1>1, <2>2
    <3>2. e # <<>> /\ 1 \in 1..n  BY <3>1, <1>1 DEF n
    <3>3. x[m + 1] = e[1]  BY <3>2, <1>1
    <3> QED BY <2>2, <3>2, <3>3 DEF Framed
  <2> QED BY <1>1, <2>1, <2>2
<1>4. ASSUME NEW i \in 1..m + n, x[i] \in Heads
      PROVE  /\ i + Length(x[i]) <= m + n + 1
             /\ \A j \in 1..Length(x[i]) : i + j <= m + n => x[i + j] \in Slot(x[i], j)
  <2>0. Length(x[i]) \in {5, 8}  BY LengthIs
  <2>1. CASE i \in 1..m
    <3>1. i + Length(x[i]) <= m + 1
      BY <1>1, <1>4, <2>1 DEF Complete, m
    <3>2. ASSUME NEW j \in 1..Length(x[i]), i + j <= m + n
          PROVE  x[i + j] \in Slot(x[i], j)
      <4>1. CASE i + j <= m
        BY <1>1, <1>4, <2>0, <2>1, <4>1 DEF Framed, m
      <4>2. CASE i + j > m
        <5>1. j = Length(x[i]) /\ i + j = m + 1 /\ 1 \in 1..n
          BY <1>1, <3>1, <2>0, <4>2, <3>2
        <5>2. x[m + 1] = e[1] /\ e[1] \in Heads
          BY <1>1, <5>1 DEF Framed, n
        <5> QED BY <5>1, <5>2 DEF Slot
      <4> QED BY <1>1, <2>0, <4>1, <4>2
    <3>3. i + Length(x[i]) <= m + n + 1
      BY <1>1, <2>0, <3>1
    <3> QED BY <3>2, <3>3
  <2>2. ASSUME NEW k \in 1..n, i = m + k
        PROVE  /\ i + Length(x[i]) <= m + n + 1
               /\ \A j \in 1..Length(x[i]) : i + j <= m + n => x[i + j] \in Slot(x[i], j)
    <3>1. x[i] = e[k]  BY <1>1, <2>2
    <3>2. k + Length(e[k]) <= n + 1
      BY <1>4, <3>1 DEF Complete, n
    <3>3. ASSUME NEW j \in 1..Length(e[k]), i + j <= m + n
          PROVE  x[i + j] \in Slot(e[k], j)
      <4>1. k + j \in 1..n /\ i + j = m + (k + j)
        BY <1>1, <2>0, <2>2, <3>1, <3>3, SMTT(30)
      <4>2. x[i + j] = e[k + j]
        BY <1>1, <4>1
      <4>3. e[k + j] \in Slot(e[k], j)
        BY <1>4, <3>1, <4>1 DEF Framed, n
      <4> QED BY <4>2, <4>3
    <3>4. \A j \in 1..Length(e[k]) : i + j <= m + n => x[i + j] \in Slot(e[k], j)
      BY <3>3
    <3>5. i + Length(e[k]) <= m + n + 1
      BY <1>1, <2>0, <2>2, <3>1, <3>2
    <3> QED BY <3>1, <3>4, <3>5
  <2> QED BY <1>2, <2>1, <2>2
<1>5. ASSUME NEW i \in 1..m + n, x[i] \in Tasks
      PROVE  i > 3 /\ x[i - 3] = "event:task"
  <2>1. CASE i \in 1..m
    <3>1. i > 3 /\ s[i - 3] = "event:task"
      BY <1>1, <1>5, <2>1 DEF Framed, m
    <3> QED BY <1>1, <2>1, <3>1
  <2>2. ASSUME NEW k \in 1..n, i = m + k
        PROVE  i > 3 /\ x[i - 3] = "event:task"
    <3>1. k > 3 /\ e[k - 3] = "event:task"
      BY <1>1, <1>5, <2>2 DEF Framed, n
    <3>2. k - 3 \in 1..n /\ i - 3 = m + (k - 3)
      BY <1>1, <2>2, <3>1
    <3> QED BY <1>1, <2>2, <3>1, <3>2
  <2> QED BY <1>2, <2>1, <2>2
<1> QED BY <1>1, <1>3, <1>4, <1>5 DEF Framed, Complete, x

\* Cutting a text anywhere.
LEMMA PrefixFramed ==
  ASSUME NEW s \in Seq(Tokens), Framed(s), NEW k \in 0..Len(s)
  PROVE  Framed(SubSeq(s, 1, k))
<1> DEFINE x == SubSeq(s, 1, k)
<1>1. x \in Seq(Tokens) /\ Len(x) = k /\ \A i \in 1..k : x[i] = s[i]
  BY CutAt
<1> HIDE DEF x
<1>2. \A h : Length(h) \in {5, 8}
  BY LengthIs
<1>3. x # <<>> => x[1] \in Heads
  BY <1>1 DEF Framed
<1>4. ASSUME NEW i \in 1..k, x[i] \in Heads, NEW j \in 1..Length(x[i]), i + j <= k
      PROVE  x[i + j] \in Slot(x[i], j)
  BY <1>1, <1>2, <1>4 DEF Framed
<1>5. ASSUME NEW i \in 1..k, x[i] \in Tasks
      PROVE  i > 3 /\ x[i - 3] = "event:task"
  BY <1>1, <1>5 DEF Framed
<1> QED BY <1>1, <1>3, <1>4, <1>5 DEF Framed, x

\* A task is none of the other tokens.
LEMMA TaskIsNoMark == \A t \in Tasks : t \notin Marks \cup {""}
  BY FramingAssumption

LEMMA Slots ==
  /\ Length(":comment") = 5
  /\ Slot(":comment", 1) = {"CR"} /\ Slot(":comment", 2) = {"LF"}
  /\ Slot(":comment", 3) = {"CR"} /\ Slot(":comment", 4) = {"LF"}
  /\ \A h \in {"event:task", "event:ping"} :
       /\ Length(h) = 8
       /\ Slot(h, 1) = {"CR"} /\ Slot(h, 2) = {"LF"}
       /\ Slot(h, 3) = IF h = "event:task" THEN Tasks ELSE {"data:"}
       /\ Slot(h, 4) = {"CR"} /\ Slot(h, 5) = {"LF"}
       /\ Slot(h, 6) = {"CR"} /\ Slot(h, 7) = {"LF"}
  /\ \A h : Slot(h, Length(h)) = Heads
  BY DEF Slot, Length

\* The tokens of the first event, as far as they are there.
LEMMA FirstEvent ==
  ASSUME NEW s \in Seq(Tokens), Framed(s), s # <<>>
  PROVE  /\ s[1] \in Heads /\ Len(s) \in Nat \ {0}
         /\ s[1] = ":comment" =>
              /\ Length(s[1]) = 5
              /\ Len(s) >= 2 => s[2] = "CR"
              /\ Len(s) >= 3 => s[3] = "LF"
              /\ Len(s) >= 4 => s[4] = "CR"
              /\ Len(s) >= 5 => s[5] = "LF"
         /\ s[1] # ":comment" =>
              /\ Length(s[1]) = 8
              /\ Len(s) >= 2 => s[2] = "CR"
              /\ Len(s) >= 3 => s[3] = "LF"
              /\ Len(s) >= 4 => s[4] \in IF s[1] = "event:task" THEN Tasks ELSE {"data:"}
              /\ Len(s) >= 5 => s[5] = "CR"
              /\ Len(s) >= 6 => s[6] = "LF"
              /\ Len(s) >= 7 => s[7] = "CR"
              /\ Len(s) >= 8 => s[8] = "LF"
         /\ Len(s) > Length(s[1]) => s[1 + Length(s[1])] \in Heads
<1>1. s[1] \in Heads /\ Len(s) \in Nat \ {0} /\ 1 \in 1..Len(s)
  BY DEF Framed
<1>2. \A j \in 1..Length(s[1]) : 1 + j <= Len(s) => s[1 + j] \in Slot(s[1], j)
  BY <1>1 DEF Framed
<1>3. CASE s[1] = ":comment"
  <2>1. Length(s[1]) = 5
    BY <1>3, Slots
  <2>2. /\ 1 \in 1..5 /\ 2 \in 1..5 /\ 3 \in 1..5 /\ 4 \in 1..5 /\ 5 \in 1..5
        /\ 1 + 1 = 2 /\ 1 + 2 = 3 /\ 1 + 3 = 4 /\ 1 + 4 = 5 /\ 1 + 5 = 6
    OBVIOUS
  <2>3. \A j \in 1..5 : 1 + j <= Len(s) => s[1 + j] \in Slot(":comment", j)
    BY <1>2, <2>1, <1>3
  <2>4. /\ Len(s) >= 2 => s[2] \in Slot(":comment", 1)
        /\ Len(s) >= 3 => s[3] \in Slot(":comment", 2)
        /\ Len(s) >= 4 => s[4] \in Slot(":comment", 3)
        /\ Len(s) >= 5 => s[5] \in Slot(":comment", 4)
        /\ Len(s) >= 6 => s[6] \in Slot(":comment", 5)
    BY <1>1, <2>2, <2>3
  <2>5. Slot(":comment", 5) = Heads
    BY Slots
  <2> QED BY <1>1, <1>3, <2>1, <2>4, <2>5, Slots
<1>4. CASE s[1] # ":comment"
  <2>0. s[1] \in {"event:task", "event:ping"}
    BY <1>1, <1>4 DEF Heads
  <2>1. Length(s[1]) = 8
    BY <2>0, Slots
  <2> DEFINE h == s[1]
  <2>3. \A j \in 1..8 : 1 + j <= Len(s) => s[1 + j] \in Slot(h, j)
    BY <1>2, <2>1
  <2> HIDE DEF h
  <2>4. /\ Len(s) >= 2 => s[2] \in Slot(h, 1)
        /\ Len(s) >= 3 => s[3] \in Slot(h, 2)
        /\ Len(s) >= 4 => s[4] \in Slot(h, 3)
        /\ Len(s) >= 5 => s[5] \in Slot(h, 4)
        /\ Len(s) >= 6 => s[6] \in Slot(h, 5)
        /\ Len(s) >= 7 => s[7] \in Slot(h, 6)
        /\ Len(s) >= 8 => s[8] \in Slot(h, 7)
        /\ Len(s) >= 9 => s[9] \in Slot(h, 8)
    BY <1>1, <2>3
  <2>5. /\ Slot(h, 1) = {"CR"} /\ Slot(h, 2) = {"LF"}
        /\ Slot(h, 3) = IF h = "event:task" THEN Tasks ELSE {"data:"}
        /\ Slot(h, 4) = {"CR"} /\ Slot(h, 5) = {"LF"}
        /\ Slot(h, 6) = {"CR"} /\ Slot(h, 7) = {"LF"}
        /\ Slot(h, 8) = Heads
    BY <2>0, <2>1, Slots DEF h
  <2>6. h = s[1]
    BY DEF h
  <2> QED BY <1>1, <1>4, <2>1, <2>4, <2>5, <2>6
<1> QED BY <1>3, <1>4

\* A text that goes on in another.
Begins(b, s) == Len(b) <= Len(s) /\ \A i \in 1..Len(b) : b[i] = s[i]

LEMMA SeparatorIs ==
  /\ EOL \in Seq(Tokens) /\ Len(EOL) = 2 /\ EOL[1] = "CR" /\ EOL[2] = "LF"
  /\ Separator \in Seq(Tokens) /\ Len(Separator) = 4
  /\ Separator[1] = "CR" /\ Separator[2] = "LF"
  /\ Separator[3] = "CR" /\ Separator[4] = "LF"
<1>1. EOL \in Seq(Tokens) /\ Len(EOL) = 2 /\ EOL[1] = "CR" /\ EOL[2] = "LF"
  BY DEF EOL, Tokens, Marks
<1>2. ASSUME NEW c \in Seq(Tokens), NEW d \in Seq(Tokens), Len(c) = 2, Len(d) = 2
      PROVE  /\ c \o d \in Seq(Tokens) /\ Len(c \o d) = 4
             /\ \A j \in 1..2 : (c \o d)[j] = c[j] /\ (c \o d)[2 + j] = d[j]
  <2>1. /\ c \o d \in Seq(Tokens)
        /\ Len(c \o d) = Len(c) + Len(d)
        /\ \A j \in 1..Len(c) : (c \o d)[j] = c[j]
        /\ \A j \in 1..Len(d) : (c \o d)[Len(c) + j] = d[j]
    BY ConcatAt
  <2> QED BY <1>2, <2>1
<1>3. 1 \in 1..2 /\ 2 \in 1..2 /\ 2 + 1 = 3 /\ 2 + 2 = 4
  OBVIOUS
<1> QED BY <1>1, <1>2, <1>3 DEF Separator

LEMMA FourParts ==
  ASSUME NEW c \in Seq(Tokens), NEW d \in Seq(Tokens), NEW e \in Seq(Tokens),
         NEW f \in Seq(Tokens)
  PROVE  LET x == c \o d \o e \o f
         IN  Len(c) = 1 /\ Len(d) = 2 /\ Len(e) = 1 /\ Len(f) = 4 =>
               /\ x \in Seq(Tokens) /\ Len(x) = 8
               /\ x[1] = c[1] /\ x[2] = d[1] /\ x[3] = d[2] /\ x[4] = e[1]
               /\ x[5] = f[1] /\ x[6] = f[2] /\ x[7] = f[3] /\ x[8] = f[4]
<1> DEFINE u == c \o d  v == u \o e  x == v \o f
<1>1. u \in Seq(Tokens)
  BY ConcatAt
<1>2. /\ Len(u) = Len(c) + Len(d)
     /\ \A i \in 1..Len(c) : u[i] = c[i]
     /\ \A j \in 1..Len(d) : u[Len(c) + j] = d[j]
  BY ConcatAt
<1> HIDE DEF u
<1>3. v \in Seq(Tokens)
  BY <1>1, ConcatAt
<1>4. /\ Len(v) = Len(u) + Len(e)
     /\ \A i \in 1..Len(u) : v[i] = u[i]
     /\ \A j \in 1..Len(e) : v[Len(u) + j] = e[j]
  BY <1>1, ConcatAt
<1> HIDE DEF v
<1>5. x \in Seq(Tokens)
  BY <1>3, ConcatAt
<1>6. /\ Len(x) = Len(v) + Len(f)
     /\ \A i \in 1..Len(v) : x[i] = v[i]
     /\ \A j \in 1..Len(f) : x[Len(v) + j] = f[j]
  BY <1>3, ConcatAt
<1> HIDE DEF x
<1>7. SUFFICES ASSUME Len(c) = 1, Len(d) = 2, Len(e) = 1, Len(f) = 4
      PROVE  /\ x \in Seq(Tokens) /\ Len(x) = 8
             /\ x[1] = c[1] /\ x[2] = d[1] /\ x[3] = d[2] /\ x[4] = e[1]
             /\ x[5] = f[1] /\ x[6] = f[2] /\ x[7] = f[3] /\ x[8] = f[4]
  BY DEF x, v, u
<1>8. u[1] = c[1] /\ u[2] = d[1] /\ u[3] = d[2] /\ Len(u) = 3
  BY <1>2, <1>7
<1>9. v[1] = u[1] /\ v[2] = u[2] /\ v[3] = u[3] /\ v[4] = e[1] /\ Len(v) = 4
  BY <1>4, <1>7, <1>8
<1>10. /\ x[1] = v[1] /\ x[2] = v[2] /\ x[3] = v[3] /\ x[4] = v[4] /\ Len(x) = 8
      /\ x[5] = f[1] /\ x[6] = f[2] /\ x[7] = f[3] /\ x[8] = f[4]
  BY <1>6, <1>7, <1>9
<1> QED BY <1>5, <1>8, <1>9, <1>10

\* The tokens of the two kinds of events.
LEMMA LinesAre ==
  ASSUME NEW h \in Tokens, NEW d \in Tokens
  PROVE  LET x == <<h>> \o EOL \o <<d>> \o Separator
         IN  /\ x \in Seq(Tokens) /\ Len(x) = 8
             /\ x[1] = h /\ x[2] = "CR" /\ x[3] = "LF"
             /\ x[4] = d /\ x[5] = "CR" /\ x[6] = "LF" /\ x[7] = "CR" /\ x[8] = "LF"
<1> DEFINE c == <<h>>  e == <<d>>
<1>1. /\ c \in Seq(Tokens) /\ Len(c) = 1 /\ c[1] = h
      /\ e \in Seq(Tokens) /\ Len(e) = 1 /\ e[1] = d
  OBVIOUS
<1> HIDE DEF c, e
<1> DEFINE x == c \o EOL \o e \o Separator
<1>2. /\ EOL \in Seq(Tokens) /\ Len(EOL) = 2 /\ EOL[1] = "CR" /\ EOL[2] = "LF"
      /\ Separator \in Seq(Tokens) /\ Len(Separator) = 4
      /\ Separator[1] = "CR" /\ Separator[2] = "LF"
      /\ Separator[3] = "CR" /\ Separator[4] = "LF"
  BY SeparatorIs
<1>3. Len(c) = 1 /\ Len(EOL) = 2 /\ Len(e) = 1 /\ Len(Separator) = 4 =>
        /\ x \in Seq(Tokens) /\ Len(x) = 8
        /\ x[1] = c[1] /\ x[2] = EOL[1] /\ x[3] = EOL[2] /\ x[4] = e[1]
        /\ x[5] = Separator[1] /\ x[6] = Separator[2]
        /\ x[7] = Separator[3] /\ x[8] = Separator[4]
  <2> HIDE DEF x
  <2>1. c \in Seq(Tokens) /\ e \in Seq(Tokens)
    BY <1>1
  <2>2. EOL \in Seq(Tokens) /\ Separator \in Seq(Tokens)
    BY <1>2
  <2> QED BY <2>1, <2>2, FourParts, SMTT(30) DEF x
<1> HIDE DEF x
<1>4. /\ x \in Seq(Tokens) /\ Len(x) = 8
      /\ x[1] = h /\ x[2] = "CR" /\ x[3] = "LF"
      /\ x[4] = d /\ x[5] = "CR" /\ x[6] = "LF" /\ x[7] = "CR" /\ x[8] = "LF"
  BY <1>1, <1>2, <1>3, Zenon
<1> QED BY <1>4, Zenon DEF x, c, e

LEMMA CommentIs ==
  /\ CommentEvent \in Seq(Tokens) /\ Len(CommentEvent) = 5
  /\ CommentEvent[1] = ":comment" /\ CommentEvent[2] = "CR" /\ CommentEvent[3] = "LF"
  /\ CommentEvent[4] = "CR" /\ CommentEvent[5] = "LF"
<1> DEFINE c == <<":comment">>  x == c \o Separator
<1>1. c \in Seq(Tokens)
  BY DEF Tokens, Marks
<1>2. Len(c) = 1 /\ c[1] = ":comment"
  OBVIOUS
<1> HIDE DEF c
<1>3. ASSUME NEW d \in Seq(Tokens)
      PROVE  /\ c \o d \in Seq(Tokens) /\ Len(c \o d) = Len(c) + Len(d)
             /\ \A i \in 1..Len(c) : (c \o d)[i] = c[i]
             /\ \A j \in 1..Len(d) : (c \o d)[Len(c) + j] = d[j]
  BY <1>1, ConcatAt
<1>4. /\ x \in Seq(Tokens) /\ Len(x) = Len(c) + Len(Separator)
      /\ \A i \in 1..Len(c) : x[i] = c[i]
      /\ \A j \in 1..Len(Separator) : x[Len(c) + j] = Separator[j]
  BY <1>3, SeparatorIs
<1> HIDE DEF x
<1>5. /\ x[1] = c[1] /\ x[2] = Separator[1] /\ x[3] = Separator[2]
      /\ x[4] = Separator[3] /\ x[5] = Separator[4] /\ Len(x) = 5
  BY <1>2, <1>4, SeparatorIs
<1>6. CommentEvent = x
  BY DEF CommentEvent, c, x
<1> QED BY <1>2, <1>4, <1>5, <1>6, SeparatorIs

LEMMA IsSeparator ==
  ASSUME NEW b \in Seq(Tokens), NEW i \in 1..Len(b)
  PROVE  SeparatorAt(b, i) <=>
           /\ i + 3 <= Len(b)
           /\ b[i] = "CR" /\ b[i + 1] = "LF" /\ b[i + 2] = "CR" /\ b[i + 3] = "LF"
<1> SUFFICES ASSUME i + 3 <= Len(b)
    PROVE SubSeq(b, i, i + 3) = Separator <=>
            b[i] = "CR" /\ b[i + 1] = "LF" /\ b[i + 2] = "CR" /\ b[i + 3] = "LF"
  BY DEF SeparatorAt
<1> DEFINE x == SubSeq(b, i, i + 3)
<1>2. x \in Seq(Tokens) /\ Len(x) = 4 /\ \A j \in 1..4 : x[j] = b[(i - 1) + j]
  <2>1. /\ i - 1 \in 0..Len(b) /\ i + 3 \in i - 1..Len(b)
        /\ (i - 1) + 1 = i /\ (i + 3) - (i - 1) = 4
    OBVIOUS
  <2> QED BY <2>1, CutAt
<1>3. \A j \in 1..4 : j = 1 \/ j = 2 \/ j = 3 \/ j = 4
  OBVIOUS
<1>4. x = Separator <=> \A j \in 1..4 : x[j] = Separator[j]
  BY <1>2, SeparatorIs, SeqEqual
<1>5. /\ (i - 1) + 1 = i /\ (i - 1) + 2 = i + 1 /\ (i - 1) + 3 = i + 2
      /\ (i - 1) + 4 = i + 3
      /\ 1 \in 1..4 /\ 2 \in 1..4 /\ 3 \in 1..4 /\ 4 \in 1..4
  OBVIOUS
<1> HIDE DEF x
<1>7. x[1] = b[i] /\ x[2] = b[i + 1] /\ x[3] = b[i + 2] /\ x[4] = b[i + 3]
  BY <1>2, <1>5
<1>6. x = Separator <=> x[1] = "CR" /\ x[2] = "LF" /\ x[3] = "CR" /\ x[4] = "LF"
  BY <1>3, <1>4, SeparatorIs
<1> QED BY <1>6, <1>7 DEF x

\* The first separator is that of the first event.
LEMMA FirstSeparator ==
  ASSUME NEW s \in Seq(Tokens), Framed(s), NEW b \in Seq(Tokens), Begins(b, s),
         Ends(b) # {}
  PROVE  /\ s # <<>> /\ Length(s[1]) <= Len(b)
         /\ Min(Ends(b)) = Length(s[1]) - 3
<1> DEFINE n == Length(s[1])
<1>1. /\ Len(b) \in Nat /\ Len(s) \in Nat /\ Len(b) <= Len(s)
      /\ \A i \in 1..Len(b) : b[i] = s[i]
  BY DEF Begins
<1>2. PICK e \in Ends(b) : TRUE
  OBVIOUS
<1>3. e \in 1..Len(b) /\ s # <<>>
  BY <1>1, <1>2 DEF Ends
<1>4. n \in {5, 8}
  BY LengthIs
<1>5. ASSUME NEW i \in Ends(b)
      PROVE  /\ i \in 1..Len(b) /\ i + 3 <= Len(b)
             /\ s[i] = "CR" /\ s[i + 1] = "LF" /\ s[i + 2] = "CR" /\ s[i + 3] = "LF"
  <2>1. i \in 1..Len(b) /\ SeparatorAt(b, i)
    BY DEF Ends
  <2>2. /\ i + 3 <= Len(b)
        /\ b[i] = "CR" /\ b[i + 1] = "LF" /\ b[i + 2] = "CR" /\ b[i + 3] = "LF"
    BY <2>1, IsSeparator
  <2> QED BY <1>1, <2>1, <2>2, SMTT(30)
<1>6. ASSUME NEW i \in Ends(b)
      PROVE  n - 3 <= i
  <2>1. /\ i \in 1..Len(b) /\ i + 3 <= Len(b)
        /\ s[i] = "CR" /\ s[i + 1] = "LF" /\ s[i + 2] = "CR" /\ s[i + 3] = "LF"
    BY <1>5
  <2>2. CASE s[1] = ":comment"
    <3>1. n = 5 /\ i # 1
      BY <1>3, <2>1, <2>2, FirstEvent
    <3> QED BY <2>1, <3>1
  <2>3. CASE s[1] # ":comment"
    <3>1. n = 8 /\ s[1] \in {"event:task", "event:ping"}
      BY <1>3, <2>3, FirstEvent DEF Heads
    <3>2. i # 1
      BY <2>1, <3>1
    <3>3. i # 2
      <4> SUFFICES ASSUME i = 2 PROVE FALSE
        OBVIOUS
      <4>1. s[4] = "CR" /\ Len(s) >= 4
        BY <1>1, <2>1
      <4>2. s[4] \in IF s[1] = "event:task" THEN Tasks ELSE {"data:"}
        BY <1>3, <2>3, <4>1, FirstEvent
      <4> QED BY <4>1, <4>2, TaskIsNoMark DEF Marks
    <3>4. i # 3
      BY <1>1, <1>3, <2>1, <2>3, FirstEvent
    <3>5. i # 4
      <4> SUFFICES ASSUME i = 4 PROVE FALSE
        OBVIOUS
      <4>1. s[4] = "CR" /\ Len(s) >= 4
        BY <1>1, <2>1
      <4>2. s[4] \in IF s[1] = "event:task" THEN Tasks ELSE {"data:"}
        BY <1>3, <2>3, <4>1, FirstEvent
      <4> QED BY <4>1, <4>2, TaskIsNoMark DEF Marks
    <3> QED BY <1>1, <2>1, <3>1, <3>2, <3>3, <3>4, <3>5
  <2> QED BY <2>2, <2>3
<1>7. n <= Len(b)
  BY <1>1, <1>2, <1>4, <1>5, <1>6
<1>8. n - 3 \in Ends(b)
  <2>1. n - 3 \in 1..Len(b) /\ (n - 3) + 3 <= Len(b)
    BY <1>1, <1>4, <1>7
  <2>2. /\ s[n - 3] = "CR" /\ s[(n - 3) + 1] = "LF" /\ s[(n - 3) + 2] = "CR"
        /\ s[(n - 3) + 3] = "LF"
    BY <1>1, <1>3, <1>7, FirstEvent
  <2>3. /\ b[n - 3] = "CR" /\ b[(n - 3) + 1] = "LF" /\ b[(n - 3) + 2] = "CR"
        /\ b[(n - 3) + 3] = "LF"
    <3>1. /\ n - 3 \in 1..Len(b) /\ (n - 3) + 1 \in 1..Len(b)
          /\ (n - 3) + 2 \in 1..Len(b) /\ (n - 3) + 3 \in 1..Len(b)
      BY <1>1, <1>4, <1>7
    <3> QED BY <1>1, <2>2, <3>1
  <2> QED BY <2>1, <2>3, IsSeparator DEF Ends
<1>9. Min(Ends(b)) \in Ends(b) /\ \A i \in Ends(b) : Min(Ends(b)) <= i
  <2>1. Ends(b) \in SUBSET Nat
    BY <1>1 DEF Ends
  <2> QED BY <2>1, MinOfSet
<1>10. Min(Ends(b)) = n - 3
  <2> DEFINE m == Min(Ends(b))
  <2>1. m \in 1..Len(b) /\ m <= n - 3 /\ n - 3 <= m
    BY <1>5, <1>6, <1>8, <1>9
  <2> QED BY <1>1, <1>4, <2>1
<1> QED BY <1>3, <1>7, <1>10

\* What is left after the first event.
Rest(s) == SubSeq(s, Length(s[1]) + 1, Len(s))

LEMMA RestFramed ==
  ASSUME NEW s \in Seq(Tokens), Framed(s), s # <<>>, Length(s[1]) <= Len(s)
  PROVE  /\ Framed(Rest(s))
         /\ Complete(s) => Complete(Rest(s))
<1> DEFINE n == Length(s[1])  x == Rest(s)  m == Len(s) - n
<1>0. n \in {5, 8} /\ Len(s) \in Nat
  BY LengthIs
<1>1. /\ x \in Seq(Tokens) /\ Len(x) = m /\ m \in Nat /\ Len(s) = n + m
      /\ \A i \in 1..m : x[i] = s[n + i]
  BY <1>0, CutAt, SMTT(30) DEF Rest
<1>2. /\ Len(s) > n => s[1 + n] \in Heads
      /\ \A i \in 2..n : s[i] \notin Heads
  <2>1. \A i \in 2..8 : i = 2 \/ i = 3 \/ i = 4 \/ i = 5 \/ i = 6 \/ i = 7 \/ i = 8
    OBVIOUS
  <2>2. \A i \in 2..5 : i = 2 \/ i = 3 \/ i = 4 \/ i = 5
    OBVIOUS
  <2>3. \A t \in Tasks : t \notin Heads
    BY TaskIsNoMark DEF Heads, Marks
  <2>4. Len(s) > n => s[1 + n] \in Heads
    BY FirstEvent
  <2>5. CASE s[1] = ":comment"
    <3>1. /\ n = 5 /\ s[2] = "CR" /\ s[3] = "LF" /\ s[4] = "CR" /\ s[5] = "LF"
      BY <1>0, <2>5, FirstEvent
    <3> QED BY <2>2, <2>4, <3>1 DEF Heads
  <2>6. CASE s[1] # ":comment"
    <3>1. n = 8 /\ Len(s) >= 8
      BY <1>0, <2>6, FirstEvent
    <3>2. /\ s[2] = "CR" /\ s[3] = "LF" /\ s[5] = "CR" /\ s[6] = "LF"
          /\ s[7] = "CR" /\ s[8] = "LF"
      BY <1>0, <2>6, <3>1, FirstEvent
    <3>3. s[4] \in IF s[1] = "event:task" THEN Tasks ELSE {"data:"}
      BY <1>0, <2>6, <3>1, FirstEvent
    <3>4. s[4] \notin Heads
      BY <2>3, <3>3 DEF Heads
    <3>5. s[2] \notin Heads /\ s[3] \notin Heads /\ s[5] \notin Heads
          /\ s[6] \notin Heads /\ s[7] \notin Heads /\ s[8] \notin Heads
      BY <3>2 DEF Heads
    <3> QED BY <2>1, <2>4, <3>1, <3>4, <3>5
  <2> QED BY <2>5, <2>6
<1> HIDE DEF n, x, m
<1>3. x # <<>> => x[1] \in Heads
  <2> SUFFICES ASSUME x # <<>> PROVE x[1] \in Heads
    OBVIOUS
  <2>1. m > 0
    BY <1>1
  <2>2. x[1] = s[n + 1] /\ n + 1 = 1 + n /\ Len(s) > n
    BY <1>0, <1>1, <2>1
  <2> QED BY <1>2, <2>2
<1>4. ASSUME NEW i \in 1..m, x[i] \in Heads
      PROVE  /\ \A j \in 1..Length(x[i]) : i + j <= m => x[i + j] \in Slot(x[i], j)
             /\ Complete(s) => i + Length(x[i]) <= m + 1
  <2>1. x[i] = s[n + i] /\ n + i \in 1..Len(s) /\ Length(x[i]) \in {5, 8}
    BY <1>0, <1>1, LengthIs
  <2>2. \A j \in 1..Length(s[n + i]) :
          (n + i) + j <= Len(s) => s[(n + i) + j] \in Slot(s[n + i], j)
    BY <1>4, <2>1 DEF Framed
  <2>3. ASSUME NEW j \in 1..Length(x[i]), i + j <= m
        PROVE  x[i + j] \in Slot(x[i], j)
    <3>1. /\ (n + i) + j = n + (i + j) /\ (n + i) + j <= Len(s) /\ i + j \in 1..m
      BY <1>0, <1>1, <2>1, <2>3
    <3>2. x[i + j] = s[(n + i) + j]
      BY <1>1, <3>1
    <3> QED BY <2>1, <2>2, <3>1, <3>2
  <2>4. Complete(s) => (n + i) + Length(x[i]) <= Len(s) + 1
    BY <1>4, <2>1 DEF Complete
  <2>5. Complete(s) => i + Length(x[i]) <= m + 1
    BY <1>0, <1>1, <2>1, <2>4
  <2> QED BY <2>3, <2>5
<1>5. ASSUME NEW i \in 1..m, x[i] \in Tasks
      PROVE  i > 3 /\ x[i - 3] = "event:task"
  <2>1. x[i] = s[n + i] /\ n + i \in 1..Len(s)
    BY <1>0, <1>1
  <2>2. n + i > 3 /\ s[(n + i) - 3] = "event:task"
    BY <1>5, <2>1 DEF Framed
  <2>3. (n + i) - 3 \notin 2..n
    BY <1>2, <2>2 DEF Heads
  <2>4. i > 3
    BY <1>0, <2>3
  <2>5. i - 3 \in 1..m /\ n + (i - 3) = (n + i) - 3
    BY <1>0, <1>1, <2>4
  <2> QED BY <1>1, <2>2, <2>4, <2>5
<1>6. Framed(x)
  BY <1>1, <1>3, <1>4, <1>5 DEF Framed
<1>7. Complete(s) => Complete(x)
  BY <1>1, <1>4 DEF Complete
<1> QED BY <1>6, <1>7 DEF x

LEMMA HeadsOnly == \A h \in Heads : h \notin Tasks
  BY TaskIsNoMark DEF Heads, Marks

\* The event of a task is complete, and its only task is that.
LEMMA TaskEventIs ==
  ASSUME NEW t \in Tasks
  PROVE  /\ TaskEvent(t) \in Seq(Tokens) /\ Len(TaskEvent(t)) = 8
         /\ TaskEvent(t)[4] = t
         /\ \A i \in 1..8 : TaskEvent(t)[i] \in Tasks => i = 4
         /\ Framed(TaskEvent(t)) /\ Complete(TaskEvent(t))
<1> DEFINE x == TaskEvent(t)
<1>0. "event:task" \in Tokens /\ t \in Tokens
  BY DEF Tokens, Marks
<1>1. /\ x \in Seq(Tokens) /\ Len(x) = 8
      /\ x[1] = "event:task" /\ x[2] = "CR" /\ x[3] = "LF"
      /\ x[4] = t /\ x[5] = "CR" /\ x[6] = "LF" /\ x[7] = "CR" /\ x[8] = "LF"
  BY <1>0, LinesAre, SMTT(30) DEF TaskEvent
<1> HIDE DEF x
<1>2. \A i \in 1..8 : i = 1 \/ i = 2 \/ i = 3 \/ i = 4 \/ i = 5 \/ i = 6 \/ i = 7 \/ i = 8
  OBVIOUS
<1>3. \A i \in 1..8 : x[i] \in Heads => i = 1
  BY <1>1, <1>2, HeadsOnly DEF Heads
<1>4. \A i \in 1..8 : x[i] \in Tasks => i = 4
  BY <1>1, <1>2, TaskIsNoMark DEF Marks
<1>5. Length(x[1]) = 8
  BY <1>1, Slots
<1>6. \A j \in 1..8 : 1 + j <= 8 => x[1 + j] \in Slot(x[1], j)
  <2>1. /\ x[1 + 1] \in Slot(x[1], 1) /\ x[1 + 2] \in Slot(x[1], 2)
        /\ x[1 + 3] \in Slot(x[1], 3) /\ x[1 + 4] \in Slot(x[1], 4)
        /\ x[1 + 5] \in Slot(x[1], 5) /\ x[1 + 6] \in Slot(x[1], 6)
        /\ x[1 + 7] \in Slot(x[1], 7)
    BY <1>1, Slots
  <2> QED BY <1>2, <2>1
<1>7. Framed(x)
  BY <1>1, <1>3, <1>4, <1>5, <1>6 DEF Framed, Heads
<1>8. Complete(x)
  BY <1>1, <1>3, <1>5 DEF Complete
<1> QED BY <1>1, <1>4, <1>7, <1>8 DEF x

\* The other events are complete, and without a task.
LEMMA IdleEventIs ==
  ASSUME NEW x \in {PingEvent, CommentEvent}
  PROVE  /\ x \in Seq(Tokens)
         /\ \A i \in 1..Len(x) : x[i] \notin Tasks
         /\ Framed(x) /\ Complete(x)
<1>1. CASE x = PingEvent
  <2>0. "event:ping" \in Tokens /\ "data:" \in Tokens
    BY DEF Tokens, Marks
  <2>1. /\ x \in Seq(Tokens) /\ Len(x) = 8
        /\ x[1] = "event:ping" /\ x[2] = "CR" /\ x[3] = "LF"
        /\ x[4] = "data:" /\ x[5] = "CR" /\ x[6] = "LF" /\ x[7] = "CR" /\ x[8] = "LF"
    BY <1>1, <2>0, LinesAre, SMTT(30) DEF PingEvent
  <2>2. \A i \in 1..8 : i = 1 \/ i = 2 \/ i = 3 \/ i = 4 \/ i = 5 \/ i = 6 \/ i = 7 \/ i = 8
    OBVIOUS
  <2>3. \A i \in 1..8 : x[i] \in Heads => i = 1
    BY <2>1, <2>2 DEF Heads
  <2>4. \A i \in 1..8 : x[i] \notin Tasks
    BY <2>1, <2>2, TaskIsNoMark DEF Marks
  <2>5. Length(x[1]) = 8
    BY <2>1, Slots
  <2>6. \A j \in 1..8 : 1 + j <= 8 => x[1 + j] \in Slot(x[1], j)
    <3>1. /\ x[1 + 1] \in Slot(x[1], 1) /\ x[1 + 2] \in Slot(x[1], 2)
          /\ x[1 + 3] \in Slot(x[1], 3) /\ x[1 + 4] \in Slot(x[1], 4)
          /\ x[1 + 5] \in Slot(x[1], 5) /\ x[1 + 6] \in Slot(x[1], 6)
          /\ x[1 + 7] \in Slot(x[1], 7)
      BY <2>1, Slots
    <3> QED BY <2>2, <3>1
  <2>7. Framed(x)
    BY <2>1, <2>3, <2>4, <2>5, <2>6 DEF Framed, Heads
  <2>8. Complete(x)
    BY <2>1, <2>3, <2>5 DEF Complete
  <2> QED BY <2>1, <2>4, <2>7, <2>8
<1>2. CASE x = CommentEvent
  <2>1. /\ x \in Seq(Tokens) /\ Len(x) = 5
        /\ x[1] = ":comment" /\ x[2] = "CR" /\ x[3] = "LF" /\ x[4] = "CR" /\ x[5] = "LF"
    BY <1>2, CommentIs
  <2>2. \A i \in 1..5 : i = 1 \/ i = 2 \/ i = 3 \/ i = 4 \/ i = 5
    OBVIOUS
  <2>3. \A i \in 1..5 : x[i] \in Heads => i = 1
    BY <2>1, <2>2 DEF Heads
  <2>4. \A i \in 1..5 : x[i] \notin Tasks
    BY <2>1, <2>2, TaskIsNoMark DEF Marks
  <2>5. Length(x[1]) = 5
    BY <2>1, Slots
  <2>6. \A j \in 1..5 : 1 + j <= 5 => x[1 + j] \in Slot(x[1], j)
    <3>1. /\ x[1 + 1] \in Slot(x[1], 1) /\ x[1 + 2] \in Slot(x[1], 2)
          /\ x[1 + 3] \in Slot(x[1], 3) /\ x[1 + 4] \in Slot(x[1], 4)
      BY <2>1, Slots
    <3> QED BY <2>2, <3>1
  <2>7. Framed(x)
    BY <2>1, <2>3, <2>4, <2>5, <2>6 DEF Framed, Heads
  <2>8. Complete(x)
    BY <2>1, <2>3, <2>5 DEF Complete
  <2> QED BY <2>1, <2>4, <2>7, <2>8
<1> QED BY <1>1, <1>2

-----------------------------------------------------------------------------
\* What a task sent over a working connection makes of the text.
LEMMA EnqueueText ==
  ASSUME NEW s \in Seq(Tokens), NEW p \in Seq(Tasks), NEW t \in Tasks,
         \A a \in 1..Len(p) : p[a] # t,
         Sound(s, p), Complete(s), Newest(Present(s, p), Len(p))
  PROVE  LET x == s \o TaskEvent(t)
             q == Append(p, t)
         IN  /\ Sound(x, q) /\ Complete(x) /\ Newest(Present(x, q), Len(q))
             /\ Present(x, q) = Present(s, p) \cup {Len(p) + 1}
<1> DEFINE e == TaskEvent(t)  x == s \o e  q == Append(p, t)  m == Len(s)  n == Len(p)
           W == Present(s, p)  V == Present(x, q)
<1>0. e \in Seq(Tokens)
  BY TaskEventIs
<1> HIDE DEF e
<1>1. /\ x \in Seq(Tokens) /\ Len(x) = m + Len(e) /\ m \in Nat
      /\ \A i \in 1..m : x[i] = s[i]
      /\ \A j \in 1..Len(e) : x[m + j] = e[j]
  BY <1>0, ConcatAt
<1>2. /\ e \in Seq(Tokens) /\ Len(e) = 8 /\ e[4] = t
      /\ \A i \in 1..8 : e[i] \in Tasks => i = 4
      /\ Framed(e) /\ Complete(e)
  BY TaskEventIs DEF e
<1>3. /\ q \in Seq(Tasks) /\ Len(q) = n + 1 /\ n \in Nat
      /\ \A a \in 1..n : q[a] = p[a] /\ q[a] \in Tasks
      /\ q[n + 1] = t
  OBVIOUS
<1>4. Framed(x) /\ Complete(x)
  BY <1>2, AppendFramed DEF Sound
<1>5. \A i \in 1..Len(s) : s[i] \in Tasks => \E a \in 1..n : p[a] = s[i]
  BY DEF Sound, Known
<1> HIDE DEF x, q
<1>6. /\ Len(x) = m + 8 /\ m + 4 \in 1..Len(x) /\ x[m + 4] = t
      /\ \A i \in 1..Len(x) : x[i] \in Tasks => i \in 1..m \/ i = m + 4
  <2>1. Len(x) = m + 8 /\ m + 4 \in 1..Len(x) /\ x[m + 4] = t
    BY <1>1, <1>2
  <2>2. ASSUME NEW i \in 1..Len(x), x[i] \in Tasks, i \notin 1..m
        PROVE  i = m + 4
    <3>1. i - m \in 1..8 /\ m + (i - m) = i
      <4>1. m \in Nat /\ i \in 1..m + 8
        BY <1>1, <2>1
      <4> HIDE DEF m
      <4> QED BY <2>2, <4>1
    <3>2. x[i] = e[i - m]
      BY <1>1, <1>2, <3>1
    <3>3. i - m = 4
      BY <1>2, <2>2, <3>1, <3>2
    <3> QED BY <1>1, <2>1, <3>3
  <2> QED BY <2>1, <2>2
<1>7. Distinct(q)
  <2> SUFFICES ASSUME NEW a \in 1..n + 1, NEW b \in 1..n + 1, q[a] = q[b]
               PROVE  a = b
    BY <1>3 DEF Distinct
  <2>1. \A c \in 1..n + 1 : c \in 1..n \/ c = n + 1
    BY <1>3
  <2>2. \A c, d \in 1..n : p[c] = p[d] => c = d
    BY DEF Sound, Distinct
  <2>3. \A c \in 1..n : q[c] = p[c] /\ q[c] # q[n + 1]
    BY <1>3
  <2> QED BY <2>1, <2>2, <2>3
<1>8. Known(x, q)
  <2> SUFFICES ASSUME NEW i \in 1..Len(x), x[i] \in Tasks
               PROVE  \E a \in 1..n + 1 : q[a] = x[i]
    BY <1>3 DEF Known
  <2>1. CASE i \in 1..m
    <3>1. PICK a \in 1..n : p[a] = s[i]
      BY <1>1, <1>5, <2>1
    <3>2. a \in 1..n + 1 /\ q[a] = x[i]
      BY <1>1, <1>3, <2>1, <3>1
    <3> QED BY <3>2
  <2>2. CASE i = m + 4
    BY <1>3, <1>6, <2>2
  <2> QED BY <1>6, <2>1, <2>2
<1>9. ASSUME NEW i \in 1..Len(x), NEW a \in 1..n + 1, x[i] = q[a]
      PROVE  \/ i \in 1..m /\ a \in 1..n /\ s[i] = p[a]
             \/ i = m + 4 /\ a = n + 1
  <2>1. q[a] \in Tasks
    BY <1>3
  <2>2. CASE i \in 1..m
    <3>1. PICK b \in 1..n : p[b] = s[i]
      BY <1>1, <1>5, <1>9, <2>1, <2>2
    <3>2. q[b] = q[a] /\ b \in 1..n + 1
      BY <1>1, <1>3, <1>9, <2>2, <3>1
    <3>3. a = b
      BY <1>3, <1>7, <3>2 DEF Distinct
    <3> QED BY <2>2, <3>1, <3>3
  <2>3. CASE i = m + 4
    <3>1. q[a] = q[n + 1] /\ n + 1 \in 1..Len(q)
      BY <1>3, <1>6, <1>9, <2>3
    <3>2. a = n + 1
      BY <1>3, <1>7, <3>1 DEF Distinct
    <3> QED BY <2>3, <3>2
  <2> QED BY <1>6, <1>9, <2>1, <2>2, <2>3
<1>10. Ordered(x, q)
  <2> SUFFICES ASSUME NEW i \in 1..Len(x), NEW j \in 1..Len(x),
                      NEW a \in 1..n + 1, NEW b \in 1..n + 1,
                      x[i] = q[a], x[j] = q[b], i < j
               PROVE  a < b
    BY <1>3 DEF Ordered
  <2>1. \A k, l \in 1..m, c, d \in 1..n : s[k] = p[c] /\ s[l] = p[d] /\ k < l => c < d
    BY DEF Sound, Ordered
  <2>2. \/ i \in 1..m /\ a \in 1..n /\ s[i] = p[a]
        \/ i = m + 4 /\ a = n + 1
    BY <1>9
  <2>3. \/ j \in 1..m /\ b \in 1..n /\ s[j] = p[b]
        \/ j = m + 4 /\ b = n + 1
    BY <1>9
  <2>4. CASE i = m + 4
    BY <1>1, <2>3, <2>4
  <2>5. CASE j = m + 4 /\ b = n + 1 /\ i # m + 4
    BY <1>3, <2>2, <2>5
  <2> QED BY <2>1, <2>2, <2>3, <2>4, <2>5
<1>11. V = W \cup {n + 1}
  <2>1. ASSUME NEW a \in W PROVE a \in V
    <3>1. PICK i \in 1..m : a \in 1..n /\ s[i] = p[a]
      BY DEF Present
    <3>2. i \in 1..Len(x) /\ a \in 1..Len(q) /\ x[i] = q[a]
      BY <1>1, <1>3, <1>6, <3>1
    <3> QED BY <3>2 DEF Present
  <2>2. n + 1 \in V
    BY <1>3, <1>6, SMTT(30) DEF Present
  <2>3. ASSUME NEW a \in V PROVE a \in W \/ a = n + 1
    <3>1. PICK i \in 1..Len(x) : a \in 1..n + 1 /\ x[i] = q[a]
      BY <1>3 DEF Present
    <3> QED BY <1>9, <3>1 DEF Present
  <2> QED BY <2>1, <2>2, <2>3
<1>12. /\ W \subseteq 1..n
       /\ \A a \in W : a..n \subseteq W
  BY DEF Present, Newest
<1>13. Convex(V) /\ Newest(V, n + 1)
  <2> HIDE DEF W, V
  <2>1. \A a \in V : \A b \in a..n + 1 : b \in V
    BY <1>3, <1>11, <1>12, SMTT(30)
  <2>2. \A a \in V : a \in 1..n + 1
    BY <1>3, <1>11, <1>12
  <2>3. \A a, c \in V : a..c \subseteq a..n + 1
    BY <1>3, <2>2
  <2> QED BY <2>1, <2>3 DEF Convex, Newest
<1> HIDE DEF W, V
<1> QED
  <2>1. Sound(x, q) /\ Newest(V, Len(q))
    BY <1>3, <1>4, <1>7, <1>8, <1>10, <1>13 DEF Sound, V
  <2> QED BY <1>4, <1>11, <2>1 DEF e, x, q, V, W

\* What an event without a task makes of it.
LEMMA IdleText ==
  ASSUME NEW s \in Seq(Tokens), NEW p \in Seq(Tasks), NEW e \in {PingEvent, CommentEvent},
         Sound(s, p), Complete(s)
  PROVE  /\ Sound(s \o e, p) /\ Complete(s \o e)
         /\ Present(s \o e, p) = Present(s, p)
<1> DEFINE x == s \o e  m == Len(s)
<1>1. /\ x \in Seq(Tokens) /\ Len(x) = m + Len(e) /\ m \in Nat
      /\ \A i \in 1..m : x[i] = s[i]
      /\ \A j \in 1..Len(e) : x[m + j] = e[j]
  BY IdleEventIs, ConcatAt
<1>2. /\ Len(e) \in Nat /\ \A i \in 1..Len(e) : e[i] \notin Tasks
  BY IdleEventIs
<1>3. Framed(x) /\ Complete(x)
  BY IdleEventIs, AppendFramed DEF Sound
<1> HIDE DEF x
<1>4. \A i \in 1..Len(x) : x[i] \in Tasks => i \in 1..m
  <2> SUFFICES ASSUME NEW i \in 1..Len(x), x[i] \in Tasks, i \notin 1..m
               PROVE  FALSE
    OBVIOUS
  <2>1. i - m \in 1..Len(e) /\ m + (i - m) = i
    BY <1>1, <1>2
  <2> QED BY <1>1, <1>2, <2>1
<1>5. \A i \in 1..m : i \in 1..Len(x) /\ x[i] = s[i]
  BY <1>1, <1>2
<1>6. \A a \in 1..Len(p) : p[a] \in Tasks
  OBVIOUS
<1>7. Known(x, p)
  BY <1>4, <1>5 DEF Sound, Known
<1>8. Ordered(x, p)
  <2> SUFFICES ASSUME NEW i \in 1..Len(x), NEW j \in 1..Len(x),
                      NEW a \in 1..Len(p), NEW b \in 1..Len(p),
                      x[i] = p[a], x[j] = p[b], i < j
               PROVE  a < b
    BY DEF Ordered
  <2>1. i \in 1..m /\ j \in 1..m
    BY <1>4, <1>6
  <2> QED BY <1>5, <2>1 DEF Sound, Ordered
<1>9. Present(x, p) = Present(s, p)
  BY <1>4, <1>5, <1>6 DEF Present
<1> QED BY <1>3, <1>7, <1>8, <1>9 DEF Sound, x

\* Cutting the text loses the newest tasks first.
LEMMA PrefixText ==
  ASSUME NEW s \in Seq(Tokens), NEW p \in Seq(Tasks), NEW k \in 0..Len(s), Sound(s, p)
  PROVE  LET x == SubSeq(s, 1, k)
         IN  /\ Sound(x, p)
             /\ Present(x, p) \subseteq Present(s, p)
             /\ \A a \in Present(x, p), b \in Present(s, p) :
                  b < a => b \in Present(x, p)
<1> DEFINE x == SubSeq(s, 1, k)  V == Present(x, p)  W == Present(s, p)
<1>1. x \in Seq(Tokens) /\ Len(x) = k /\ \A i \in 1..k : x[i] = s[i]
  BY CutAt
<1>2. Framed(x)
  BY PrefixFramed DEF Sound
<1> HIDE DEF x
<1>3. \A i \in 1..k : i \in 1..Len(s)
  OBVIOUS
<1>4. Known(x, p) /\ Ordered(x, p)
  BY <1>1, <1>3 DEF Sound, Known, Ordered
<1>5. V \subseteq W
  BY <1>1, <1>3 DEF Present
<1>6. ASSUME NEW a \in V, NEW b \in W, b < a
      PROVE  b \in V
  <2>1. PICK i \in 1..k : x[i] = p[a]
    BY <1>1 DEF Present
  <2>2. PICK j \in 1..Len(s) : s[j] = p[b]
    BY DEF Present
  <2>3. a \in 1..Len(p) /\ b \in 1..Len(p) /\ s[i] = p[a] /\ i \in 1..Len(s)
    BY <1>1, <1>3, <2>1 DEF Present
  <2>4. ~(i < j)
    BY <1>6, <2>2, <2>3 DEF Sound, Ordered
  <2>5. j \in 1..k /\ x[j] = p[b]
    BY <1>1, <2>2, <2>4
  <2> QED BY <1>1, <2>3, <2>5 DEF Present
<1>7. Convex(V)
  <2> SUFFICES ASSUME NEW a \in V, NEW c \in V, NEW b \in a..c
               PROVE  b \in V
    BY DEF Convex
  <2>1. a \in 1..Len(p) /\ c \in 1..Len(p)
    BY DEF Present
  <2>2. b \in W
    BY <1>5 DEF Sound, Convex
  <2>3. b = c \/ b < c
    BY <2>1
  <2> QED BY <1>6, <2>2, <2>3
<1> QED BY <1>2, <1>4, <1>5, <1>6, <1>7 DEF Sound, x

\* The tasks of a text that are followed by their separator.
Below(s, p) == {a \in 1..Len(p) : \E i \in 1..Len(s) - 4 : s[i] = p[a]}

\* Taking the first event off a text takes the oldest task off it, if the event
\* is that of a task, and else none.
LEMMA RestText ==
  ASSUME NEW s \in Seq(Tokens), NEW p \in Seq(Tasks), Sound(s, p),
         s # <<>>, Length(s[1]) <= Len(s)
  PROVE  /\ Sound(Rest(s), p)
         /\ Complete(s) => Complete(Rest(s))
         /\ s[1] # "event:task" =>
              Present(Rest(s), p) = Present(s, p) /\ Below(Rest(s), p) = Below(s, p)
         /\ s[1] = "event:task" =>
              \E a \in Below(s, p) :
                /\ s[4] = p[a] /\ \A b \in Present(s, p) : a <= b
                /\ Present(Rest(s), p) = Present(s, p) \ {a}
                /\ Below(Rest(s), p) = Below(s, p) \ {a}
<1> DEFINE n == Length(s[1])  x == Rest(s)  m == Len(s) - n
           W == Present(s, p)  V == Present(x, p)
<1>1. /\ n \in {5, 8} /\ Len(s) \in Nat
      /\ x \in Seq(Tokens) /\ Len(x) = m /\ m \in Nat /\ Len(s) = n + m
      /\ \A i \in 1..m : x[i] = s[n + i]
  <2>1. n \in {5, 8} /\ Len(s) \in Nat
    BY LengthIs
  <2> QED BY <2>1, CutAt, SMTT(30) DEF Rest
<1>2. Framed(s) /\ Framed(x) /\ (Complete(s) => Complete(x))
  BY RestFramed DEF Sound
<1>3. \A i \in 1..n : s[i] \in Tasks => i = 4 /\ s[1] = "event:task"
  <2>1. CASE s[1] = ":comment"
    <3>1. /\ n = 5 /\ s[2] = "CR" /\ s[3] = "LF" /\ s[4] = "CR" /\ s[5] = "LF"
      BY <1>1, <1>2, <2>1, FirstEvent, SMTT(30)
    <3>2. \A i \in 1..5 : i = 1 \/ i = 2 \/ i = 3 \/ i = 4 \/ i = 5
      OBVIOUS
    <3> QED BY <2>1, <3>1, <3>2, TaskIsNoMark DEF Marks
  <2>2. CASE s[1] # ":comment"
    <3>1. n = 8 /\ Len(s) >= 8 /\ s[1] \in Heads
      BY <1>1, <1>2, <2>2, FirstEvent
    <3>2. /\ s[2] = "CR" /\ s[3] = "LF" /\ s[5] = "CR" /\ s[6] = "LF"
          /\ s[7] = "CR" /\ s[8] = "LF"
      BY <1>1, <1>2, <2>2, <3>1, FirstEvent
    <3>3. s[4] \in IF s[1] = "event:task" THEN Tasks ELSE {"data:"}
      BY <1>1, <1>2, <2>2, <3>1, FirstEvent
    <3>4. \A i \in 1..8 :
            i = 1 \/ i = 2 \/ i = 3 \/ i = 4 \/ i = 5 \/ i = 6 \/ i = 7 \/ i = 8
      OBVIOUS
    <3>5. s[1] \notin Tasks
      BY <3>1, HeadsOnly
    <3>6. s[1] = "event:task" \/ s[4] \notin Tasks
      BY <3>3, TaskIsNoMark DEF Marks
    <3> QED BY <3>1, <3>2, <3>4, <3>5, <3>6, TaskIsNoMark DEF Marks
  <2> QED BY <2>1, <2>2
<1>4. s[1] = "event:task" => n = 8 /\ s[4] \in Tasks
  BY <1>1, <1>2, FirstEvent, SMTT(30)
<1> HIDE DEF n, x
<1>5. \A i \in 1..m : n + i \in 1..Len(s) /\ s[n + i] = x[i]
  BY <1>1
<1>6. \A i \in 1..Len(s) : s[i] \in Tasks =>
        \/ i = 4 /\ s[1] = "event:task"
        \/ i - n \in 1..m /\ n + (i - n) = i /\ s[i] = x[i - n]
  <2> SUFFICES ASSUME NEW i \in 1..Len(s), s[i] \in Tasks, i \notin 1..n
               PROVE  i - n \in 1..m /\ n + (i - n) = i /\ s[i] = x[i - n]
    BY <1>3
  <2>1. i - n \in 1..m /\ n + (i - n) = i
    BY <1>1
  <2> QED BY <1>5, <2>1
<1>7. \A a \in 1..Len(p) : p[a] \in Tasks
  OBVIOUS
<1>8. Known(x, p)
  BY <1>1, <1>5, SMTT(30) DEF Sound, Known
<1>9. Ordered(x, p)
  <2> SUFFICES ASSUME NEW i \in 1..m, NEW j \in 1..m,
                      NEW a \in 1..Len(p), NEW b \in 1..Len(p),
                      x[i] = p[a], x[j] = p[b], i < j
               PROVE  a < b
    BY <1>1 DEF Ordered
  <2>1. n + i < n + j
    BY <1>1
  <2> QED BY <1>5, <2>1 DEF Sound, Ordered
<1>10. V \subseteq W /\ Below(x, p) \subseteq Below(s, p)
  <2>1. \A a \in V : a \in W
    BY <1>1, <1>5 DEF Present
  <2>2. \A i \in 1..Len(x) - 4 : i \in 1..m /\ n + i \in 1..Len(s) - 4
    BY <1>1
  <2>3. \A a \in Below(x, p) : a \in Below(s, p)
    BY <1>5, <2>2 DEF Below
  <2> QED BY <2>1, <2>3
<1>11. ASSUME NEW a \in W
       PROVE  a \in V \/ (s[1] = "event:task" /\ s[4] = p[a])
  BY <1>1, <1>6, <1>7 DEF Present
<1>12. ASSUME NEW a \in Below(s, p)
       PROVE  a \in Below(x, p) \/ (s[1] = "event:task" /\ s[4] = p[a])
  <2>1. PICK i \in 1..Len(s) - 4 : a \in 1..Len(p) /\ s[i] = p[a]
    BY DEF Below
  <2>2. i \in 1..Len(s) /\ s[i] \in Tasks
    BY <1>1, <1>7, <2>1
  <2>3. CASE i - n \in 1..m /\ n + (i - n) = i /\ s[i] = x[i - n]
    <3>1. i - n \in 1..Len(x) - 4
      BY <1>1, <2>1, <2>3
    <3> QED BY <2>1, <2>3, <3>1 DEF Below
  <2>4. CASE i = 4 /\ s[1] = "event:task"
    BY <2>1, <2>4
  <2> QED BY <1>6, <2>2, <2>3, <2>4
<1>13. CASE s[1] # "event:task"
  <2>1. V = W /\ Below(x, p) = Below(s, p)
    BY <1>10, <1>11, <1>12, <1>13
  <2>2. Sound(x, p)
    BY <1>2, <1>8, <1>9, <2>1 DEF Sound
  <2> QED BY <1>2, <1>13, <2>1, <2>2 DEF x
<1>14. CASE s[1] = "event:task"
  <2>1. PICK a \in 1..Len(p) : s[4] = p[a]
    BY <1>1, <1>4, <1>14 DEF Sound, Known
  <2>2. a \in W /\ a \in Below(s, p)
    <3>1. 4 \in 1..Len(s) /\ 4 \in 1..Len(s) - 4
      BY <1>1, <1>4, <1>14
    <3> QED BY <2>1, <3>1 DEF Present, Below
  <2>3. ASSUME NEW b \in V
        PROVE  a < b
    <3>1. PICK j \in 1..m : b \in 1..Len(p) /\ x[j] = p[b]
      BY <1>1 DEF Present
    <3>2. n + j \in 1..Len(s) /\ 4 \in 1..Len(s) /\ 4 < n + j /\ s[n + j] = p[b]
      BY <1>1, <1>4, <1>5, <1>14, <3>1
    <3> QED BY <2>1, <3>1, <3>2 DEF Sound, Ordered
  <2>4. ASSUME NEW b \in W
        PROVE  b = a \/ b \in V
    <3>1. b \in V \/ p[b] = p[a]
      BY <1>11, <2>1
    <3>2. b \in 1..Len(p)
      BY DEF Present
    <3> QED BY <2>1, <3>1, <3>2 DEF Sound, Distinct
  <2>5. ASSUME NEW b \in Below(s, p)
        PROVE  b = a \/ b \in Below(x, p)
    <3>1. b \in Below(x, p) \/ p[b] = p[a]
      BY <1>12, <2>1
    <3>2. b \in 1..Len(p)
      BY DEF Below
    <3> QED BY <2>1, <3>1, <3>2 DEF Sound, Distinct
  <2>6. a \notin V /\ a \notin Below(x, p)
    <3>1. a \notin V
      BY <2>3
    <3>2. Below(x, p) \subseteq V
      <4>1. 1..Len(x) - 4 \subseteq 1..Len(x)
        BY <1>1
      <4> QED BY <4>1 DEF Below, Present
    <3> QED BY <3>1, <3>2
  <2>7. V = W \ {a} /\ Below(x, p) = Below(s, p) \ {a}
    BY <1>10, <2>4, <2>5, <2>6
  <2>8. ASSUME NEW b \in W
        PROVE  a <= b
    <3>1. b \in 1..Len(p)
      BY DEF Present
    <3> QED BY <2>3, <2>4, <3>1
  <2>9. Convex(V)
    <3> SUFFICES ASSUME NEW c \in V, NEW d \in V, NEW b \in c..d
                 PROVE  b \in V
      BY DEF Convex
    <3>1. b \in W
      BY <1>10 DEF Sound, Convex
    <3>2. c \in 1..Len(p) /\ a < c
      BY <2>3 DEF Present
    <3> QED BY <2>7, <3>1, <3>2
  <2>10. Sound(x, p)
    BY <1>2, <1>8, <1>9, <2>9 DEF Sound
  <2> QED BY <1>2, <1>14, <2>1, <2>2, <2>7, <2>8, <2>10 DEF x
<1> QED BY <1>13, <1>14

\* What _process_sse_event() makes of the first event.
LEMMA FirstIsHandled ==
  ASSUME NEW s \in Seq(Tokens), Framed(s), s # <<>>,
         NEW b \in Seq(Tokens), Begins(b, s), Length(s[1]) <= Len(b)
  PROVE  LET event == SubSeq(b, 1, Length(s[1]) - 4)
         IN  /\ s[1] # "event:task" => Ignored(event)
             /\ s[1] = "event:task" => ~Ignored(event) /\ Data(event) = s[4]
<1> DEFINE n == Length(s[1]) - 4  event == SubSeq(b, 1, n)
<1>1. Length(s[1]) \in {5, 8} /\ Len(b) \in Nat /\ Len(s) \in Nat /\ Len(b) <= Len(s)
  BY LengthIs DEF Begins
<1>2. n \in 0..Len(b)
  BY <1>1
<1>3. event \in Seq(Tokens) /\ Len(event) = n /\ \A i \in 1..n : event[i] = b[i]
  BY <1>2, CutAt
<1>4. \A i \in 1..n : i \in 1..Len(b) /\ event[i] = s[i]
  BY <1>1, <1>3 DEF Begins
<1>5. DOMAIN event = 1..n
  BY <1>3
<1> HIDE DEF event
<1>6. \A i \in Nat : Max({i}) = i
  <2>1. ASSUME NEW i \in Nat PROVE Max({i}) = i
    <3>1. \E x \in {i} : \A y \in {i} : x >= y
      OBVIOUS
    <3> QED BY <3>1 DEF Max
  <2> QED BY <2>1
<1>7. CASE s[1] = ":comment"
  <2>1. n = 1 /\ 1 \in 1..n
    BY <1>1, <1>7, FirstEvent
  <2>2. event[1] = ":comment"
    BY <1>4, <1>7, <2>1
  <2>3. \A i \in DOMAIN event : i = 1
    BY <1>5, <2>1
  <2>4. \A i \in DOMAIN event : event[i] \notin Tasks \cup {"data:"}
    BY <2>2, <2>3, TaskIsNoMark DEF Marks
  <2>5. {i \in DOMAIN event : event[i] \in Tasks \cup {"data:"}} = {}
    BY <2>4
  <2>6. Data(event) = ""
    BY <2>5 DEF Data, LastOf
  <2> QED BY <1>7, <2>6 DEF Ignored, event
<1>8. ASSUME s[1] # ":comment"
      PROVE  /\ DOMAIN event = 1..4 /\ event[1] = s[1] /\ event[2] = "CR"
             /\ event[3] = "LF" /\ event[4] = s[4]
             /\ s[4] \in IF s[1] = "event:task" THEN Tasks ELSE {"data:"}
  <2>1. n = 4 /\ Len(s) >= 8
    BY <1>1, <1>8, FirstEvent
  <2>2. s[2] = "CR" /\ s[3] = "LF"
    BY <1>1, <1>8, <2>1, FirstEvent
  <2>3. s[4] \in IF s[1] = "event:task" THEN Tasks ELSE {"data:"}
    BY <1>1, <1>8, <2>1, FirstEvent
  <2>4. event[1] = s[1] /\ event[2] = s[2] /\ event[3] = s[3] /\ event[4] = s[4]
    BY <1>4, <2>1
  <2> QED BY <1>5, <2>1, <2>2, <2>3, <2>4
<1>9. \A i \in 1..4 : i = 1 \/ i = 2 \/ i = 3 \/ i = 4
  OBVIOUS
<1>10. ASSUME s[1] \in {"event:task", "event:ping"}
       PROVE  EventType(event) = s[1]
  <2>1. s[4] \notin {"event:task", "event:ping"}
    BY <1>8, <1>10, TaskIsNoMark DEF Marks
  <2>2. \A i \in DOMAIN event : event[i] \in {"event:task", "event:ping"} <=> i = 1
    BY <1>8, <1>9, <1>10, <2>1
  <2>3. 1 \in DOMAIN event
    BY <1>8, <1>10
  <2>4. {i \in DOMAIN event : event[i] \in {"event:task", "event:ping"}} = {1}
    BY <2>2, <2>3
  <2> QED BY <1>6, <1>8, <1>10, <2>4 DEF EventType, LastOf
<1>11. CASE s[1] = "event:ping"
  BY <1>10, <1>11 DEF Ignored, event
<1>12. CASE s[1] = "event:task"
  <2>1. s[4] \in Tasks /\ s[4] \notin {"", "data:"}
    BY <1>8, <1>12, TaskIsNoMark DEF Marks
  <2>2. \A i \in DOMAIN event : event[i] \in Tasks \cup {"data:"} <=> i = 4
    BY <1>8, <1>9, <1>12, <2>1, TaskIsNoMark DEF Marks
  <2>3. 4 \in DOMAIN event
    BY <1>8, <1>12
  <2>4. {i \in DOMAIN event : event[i] \in Tasks \cup {"data:"}} = {4}
    BY <2>2, <2>3
  <2>5. Data(event) = s[4]
    BY <1>6, <1>8, <1>12, <2>4 DEF Data, LastOf
  <2> QED BY <1>10, <1>12, <2>1, <2>5 DEF Ignored, event
<1> QED BY <1>7, <1>11, <1>12, FirstEvent DEF Heads

-----------------------------------------------------------------------------
LEMMA BelowIsPresent ==
  ASSUME NEW s \in Seq(Tokens), NEW p \in Seq(Tasks)
  PROVE  /\ Below(s, p) \subseteq Present(s, p)
         /\ Present(s, p) \subseteq 1..Len(p) /\ Below(s, p) \subseteq 1..Len(p)
<1>1. 1..Len(s) - 4 \subseteq 1..Len(s)
  OBVIOUS
<1> QED BY <1>1 DEF Below, Present

\* In a text that does not end within an event, every task has its separator.
LEMMA BelowOfComplete ==
  ASSUME NEW s \in Seq(Tokens), NEW p \in Seq(Tasks), Framed(s), Complete(s)
  PROVE  Below(s, p) = Present(s, p)
<1>1. ASSUME NEW a \in Present(s, p)
      PROVE  a \in Below(s, p)
  <2>1. PICK i \in 1..Len(s) : a \in 1..Len(p) /\ s[i] = p[a]
    BY DEF Present
  <2>2. i > 3 /\ s[i - 3] = "event:task" /\ i - 3 \in 1..Len(s)
    BY <2>1 DEF Framed
  <2>3. (i - 3) + 8 <= Len(s) + 1
    BY <2>2, Slots DEF Complete, Heads
  <2>4. i \in 1..Len(s) - 4
    BY <2>1, <2>3
  <2> QED BY <2>1, <2>4 DEF Below
<1> QED BY <1>1, BelowIsPresent

LEMMA BelowIsConvex ==
  ASSUME NEW s \in Seq(Tokens), NEW p \in Seq(Tasks), Sound(s, p)
  PROVE  Convex(Below(s, p))
<1> SUFFICES ASSUME NEW a \in Below(s, p), NEW c \in Below(s, p), NEW b \in a..c
             PROVE  b \in Below(s, p)
  BY DEF Convex
<1>1. a \in Present(s, p) /\ c \in Present(s, p) /\ a \in 1..Len(p) /\ c \in 1..Len(p)
  BY BelowIsPresent
<1>2. b \in Present(s, p) /\ b \in 1..Len(p) /\ b <= c
  BY <1>1 DEF Sound, Convex
<1>3. PICK i \in 1..Len(s) - 4 : s[i] = p[c]
  BY DEF Below
<1>4. PICK j \in 1..Len(s) : s[j] = p[b]
  BY <1>2 DEF Present
<1>5. i \in 1..Len(s)
  OBVIOUS
<1>6. CASE i < j
  <2>1. c < b
    BY <1>1, <1>2, <1>3, <1>4, <1>5, <1>6 DEF Sound, Ordered
  <2> QED BY <1>1, <1>2, <2>1
<1>7. CASE j <= i
  <2>1. j \in 1..Len(s) - 4
    BY <1>3, <1>4, <1>7
  <2> QED BY <1>2, <1>4, <2>1 DEF Below
<1> QED BY <1>3, <1>4, <1>6, <1>7

LEMMA BelowOfPrefix ==
  ASSUME NEW s \in Seq(Tokens), NEW p \in Seq(Tasks), NEW k \in 0..Len(s), Sound(s, p)
  PROVE  LET x == SubSeq(s, 1, k)
         IN  /\ Below(x, p) \subseteq Below(s, p)
             /\ \A a \in Below(x, p), b \in Below(s, p) : b < a => b \in Below(x, p)
<1> DEFINE x == SubSeq(s, 1, k)
<1>1. x \in Seq(Tokens) /\ Len(x) = k /\ \A i \in 1..k : x[i] = s[i]
  BY CutAt
<1> HIDE DEF x
<1>2. \A i \in 1..k - 4 : i \in 1..k /\ i \in 1..Len(s) /\ i \in 1..Len(s) - 4
  OBVIOUS
<1>3. ASSUME NEW a \in Below(x, p)
      PROVE  a \in Below(s, p)
  BY <1>1, <1>2 DEF Below
<1>4. ASSUME NEW a \in Below(x, p), NEW b \in Below(s, p), b < a
      PROVE  b \in Below(x, p)
  <2>1. PICK i \in 1..k - 4 : a \in 1..Len(p) /\ s[i] = p[a]
    BY <1>1, <1>2 DEF Below
  <2>2. PICK j \in 1..Len(s) - 4 : b \in 1..Len(p) /\ s[j] = p[b]
    BY DEF Below
  <2>3. i \in 1..Len(s) /\ j \in 1..Len(s)
    BY <1>2, <2>1, <2>2
  <2>4. ~(i < j)
    <3>1. i < j => a < b
      BY <2>1, <2>2, <2>3 DEF Sound, Ordered
    <3> QED BY <1>4, <2>1, <2>2, <3>1
  <2>5. j \in 1..k - 4 /\ j \in 1..k
    BY <2>1, <2>2, <2>4
  <2>6. x[j] = p[b]
    BY <1>1, <2>2, <2>5
  <2> QED BY <1>1, <2>2, <2>5, <2>6 DEF Below
<1> QED BY <1>3, <1>4 DEF x

-----------------------------------------------------------------------------
\* The tasks from the oldest to the newest of some.
Flight(p, W) == IF W = {} THEN <<>> ELSE SubSeq(p, Min(W), Max(W))

LEMMA FlightOfInterval ==
  ASSUME NEW p \in Seq(Tasks), NEW a \in 1..Len(p), NEW b \in a..Len(p)
  PROVE  /\ Flight(p, a..b) = SubSeq(p, a, b)
         /\ SubSeq(p, a, b) \in Seq(Tasks)
         /\ Len(SubSeq(p, a, b)) = (b - a) + 1
         /\ \A i \in 1..(b - a) + 1 : SubSeq(p, a, b)[i] = p[(a - 1) + i]
<1>1. a \in Nat /\ b \in Nat /\ a <= b
  OBVIOUS
<1>2. Min(a..b) = a /\ Max(a..b) = b
  BY <1>1, MinOfInterval
<1>3. a \in a..b
  BY <1>1
<1>4. Flight(p, a..b) = SubSeq(p, a, b)
  BY <1>2, <1>3 DEF Flight
<1>5. /\ a - 1 \in 0..Len(p) /\ b \in a - 1..Len(p) /\ (a - 1) + 1 = a
      /\ b - (a - 1) = (b - a) + 1
  OBVIOUS
<1>6. ASSUME NEW c \in 0..Len(p), b \in c..Len(p)
      PROVE  /\ SubSeq(p, c + 1, b) \in Seq(Tasks)
             /\ Len(SubSeq(p, c + 1, b)) = b - c
             /\ \A i \in 1..b - c : SubSeq(p, c + 1, b)[i] = p[c + i]
  BY <1>6, CutAt
<1>7. /\ SubSeq(p, (a - 1) + 1, b) \in Seq(Tasks)
      /\ Len(SubSeq(p, (a - 1) + 1, b)) = b - (a - 1)
      /\ \A i \in 1..b - (a - 1) : SubSeq(p, (a - 1) + 1, b)[i] = p[(a - 1) + i]
  BY <1>5, <1>6
<1> QED BY <1>4, <1>5, <1>7

\* One more task, behind the newest.
LEMMA FlightGrows ==
  ASSUME NEW p \in Seq(Tasks), NEW t \in Tasks, NEW W \in SUBSET (1..Len(p)),
         Newest(W, Len(p))
  PROVE  Flight(Append(p, t), W \cup {Len(p) + 1}) = Append(Flight(p, W), t)
<1> DEFINE q == Append(p, t)  n == Len(p)
<1>1. /\ q \in Seq(Tasks) /\ Len(q) = n + 1 /\ n \in Nat
      /\ \A i \in 1..n : q[i] = p[i]
      /\ q[n + 1] = t
  OBVIOUS
<1> HIDE DEF q
<1>2. CASE W = {}
  <2> DEFINE m == n + 1  x == SubSeq(q, m, m)
  <2>0. m \in 1..Len(q) /\ m \in m..Len(q)
    BY <1>1
  <2>1. /\ W \cup {m} = m..m
        /\ (m - m) + 1 = 1 /\ (m - 1) + 1 = m /\ q[m] = t
    BY <1>1, <1>2
  <2>2. /\ Flight(q, m..m) = x
        /\ x \in Seq(Tasks) /\ Len(x) = 1 /\ x[1] = t
    <3> HIDE DEF m
    <3>1. /\ Flight(q, m..m) = SubSeq(q, m, m)
          /\ SubSeq(q, m, m) \in Seq(Tasks)
          /\ Len(SubSeq(q, m, m)) = (m - m) + 1
          /\ \A i \in 1..(m - m) + 1 : SubSeq(q, m, m)[i] = q[(m - 1) + i]
      BY <1>1, <2>0, FlightOfInterval, Zenon
    <3> QED BY <2>1, <3>1
  <2>3. Flight(p, W) = <<>>
    BY <1>2 DEF Flight
  <2>4. x \in Seq(Tasks) /\ Len(x) = 1 /\ x[1] = t
    BY <2>2
  <2>5. x = <<t>>
    <3> HIDE DEF x
    <3>1. <<t>> \in Seq(Tasks) /\ Len(<<t>>) = 1 /\ <<t>>[1] = t
      OBVIOUS
    <3>2. \A i \in 1..Len(x) : x[i] = <<t>>[i]
      BY <2>4, <3>1
    <3> QED BY <2>4, <3>1, <3>2, SeqEqual
  <2>6. Append(<<>>, t) = <<t>>
    OBVIOUS
  <2> QED BY <2>1, <2>2, <2>3, <2>5, <2>6 DEF q
<1>3. CASE W # {}
  <2>1. Convex(W)
    BY DEF Convex, Newest
  <2> DEFINE lo == Min(W)
  <2>2. lo \in W /\ (\A k \in W : lo <= k) /\ lo \in 1..n
    <3>1. W \in SUBSET Nat
      OBVIOUS
    <3> QED BY <1>3, <3>1, MinOfSet
  <2> HIDE DEF lo
  <2>3. W = lo..n /\ W \cup {n + 1} = lo..n + 1
    <3>1. lo..n \subseteq W
      BY <2>2 DEF Newest
    <3>2. W \subseteq lo..n
      BY <2>2
    <3>3. W = lo..n
      BY <3>1, <3>2
    <3>4. lo..n + 1 = lo..n \cup {n + 1}
      BY <1>1, <2>2
    <3> QED BY <3>3, <3>4
  <2> DEFINE x == SubSeq(p, lo, n)  y == SubSeq(q, lo, n + 1)
  <2>4. /\ Flight(p, W) = x /\ x \in Seq(Tasks) /\ Len(x) = (n - lo) + 1
        /\ \A i \in 1..(n - lo) + 1 : x[i] = p[(lo - 1) + i]
    <3>1. n \in lo..Len(p)
      BY <1>1, <2>2
    <3>2. ASSUME NEW b \in lo..Len(p)
          PROVE  /\ Flight(p, lo..b) = SubSeq(p, lo, b)
                 /\ SubSeq(p, lo, b) \in Seq(Tasks)
                 /\ Len(SubSeq(p, lo, b)) = (b - lo) + 1
                 /\ \A i \in 1..(b - lo) + 1 : SubSeq(p, lo, b)[i] = p[(lo - 1) + i]
      BY <2>2, FlightOfInterval
    <3> QED BY <2>3, <3>1, <3>2
  <2>5. /\ Flight(q, W \cup {n + 1}) = y /\ y \in Seq(Tasks)
        /\ Len(y) = ((n + 1) - lo) + 1
        /\ \A i \in 1..((n + 1) - lo) + 1 : y[i] = q[(lo - 1) + i]
    <3>1. lo \in 1..Len(q) /\ n + 1 \in lo..Len(q)
      BY <1>1, <2>2
    <3>2. ASSUME NEW b \in lo..Len(q)
          PROVE  /\ Flight(q, lo..b) = SubSeq(q, lo, b)
                 /\ SubSeq(q, lo, b) \in Seq(Tasks)
                 /\ Len(SubSeq(q, lo, b)) = (b - lo) + 1
                 /\ \A i \in 1..(b - lo) + 1 : SubSeq(q, lo, b)[i] = q[(lo - 1) + i]
      <4>1. q \in Seq(Tasks)
        BY <1>1
      <4> QED BY <3>1, <4>1, FlightOfInterval
    <3> QED BY <2>3, <3>1, <3>2
  <2> HIDE DEF x, y
  <2>6. /\ Append(x, t) \in Seq(Tasks) /\ Len(Append(x, t)) = Len(x) + 1
        /\ \A i \in 1..Len(x) : Append(x, t)[i] = x[i]
        /\ Append(x, t)[Len(x) + 1] = t
    BY <2>4, AppendProperties
  <2>7. Len(y) = Len(Append(x, t))
    BY <1>1, <2>2, <2>4, <2>5, <2>6
  <2>8. ASSUME NEW i \in 1..Len(y)
        PROVE  y[i] = Append(x, t)[i]
    <3>1. i \in 1..(n - lo) + 2
      BY <1>1, <2>2, <2>5
    <3>2. CASE i \in 1..(n - lo) + 1
      <4>1. (lo - 1) + i \in 1..n /\ i \in 1..((n + 1) - lo) + 1
        BY <1>1, <2>2, <3>2
      <4>2. y[i] = p[(lo - 1) + i] /\ x[i] = p[(lo - 1) + i]
        BY <1>1, <2>4, <2>5, <3>2, <4>1
      <4>3. Append(x, t)[i] = x[i]
        BY <2>4, <2>6, <3>2
      <4> QED BY <4>2, <4>3
    <3>3. CASE i = (n - lo) + 2
      <4>1. (lo - 1) + i = n + 1 /\ i = Len(x) + 1
        BY <1>1, <2>2, <2>4, <3>3
      <4>2. i \in 1..((n + 1) - lo) + 1
        BY <1>1, <2>2, <3>1
      <4> QED BY <1>1, <2>5, <2>6, <4>1, <4>2
    <3>4. i \in 1..(n - lo) + 1 \/ i = (n - lo) + 2
      BY <1>1, <2>2, <3>1
    <3> QED BY <3>2, <3>3, <3>4
  <2>9. y = Append(x, t)
    BY <2>5, <2>6, <2>7, <2>8, SeqEqual
  <2> QED BY <2>4, <2>5, <2>9 DEF q
<1> QED BY <1>2, <1>3

\* One task less, the oldest.
LEMMA FlightAdvances ==
  ASSUME NEW p \in Seq(Tasks), NEW W \in SUBSET (1..Len(p)), Convex(W),
         NEW a \in W, \A b \in W : a <= b
  PROVE  /\ Flight(p, W) # <<>> /\ Head(Flight(p, W)) = p[a]
         /\ Flight(p, W \ {a}) = Tail(Flight(p, W))
<1> DEFINE hi == Max(W)
<1>1. W = a..hi /\ a \in 1..Len(p) /\ hi \in a..Len(p)
  <2>1. W # {} /\ Len(p) \in Nat /\ a \in 1..Len(p)
    OBVIOUS
  <2>2. /\ W = Min(W)..hi /\ Min(W) \in 1..Len(p) /\ hi \in 1..Len(p)
        /\ Min(W) <= hi /\ Min(W) \in W
    BY <2>1, Interval
  <2>3. a <= Min(W) /\ Min(W) <= a
    <3>1. W \in SUBSET Nat
      OBVIOUS
    <3> QED BY <2>1, <2>2, <3>1, MinOfSet
  <2>4. Min(W) = a
    <3>1. \A l \in 1..Len(p) : a <= l /\ l <= a => l = a
      BY <2>1
    <3> QED BY <2>2, <2>3, <3>1
  <2> QED BY <2>2, <2>4
<1> HIDE DEF hi
<1>2. /\ Flight(p, W) = SubSeq(p, a, hi) /\ Len(SubSeq(p, a, hi)) = (hi - a) + 1
      /\ SubSeq(p, a, hi) \in Seq(Tasks)
  BY <1>1, FlightOfInterval
<1>3. Head(SubSeq(p, a, hi)) = p[a] /\ Tail(SubSeq(p, a, hi)) = SubSeq(p, a + 1, hi)
  BY <1>1, HeadTailOfSubSeq
<1>4. SubSeq(p, a, hi) # <<>>
  BY <1>1, <1>2
<1>5. W \ {a} = (a + 1)..hi
  BY <1>1
<1>6. CASE a = hi
  <2>1. W \ {a} = {}
    BY <1>1, <1>5, <1>6
  <2>2. SubSeq(p, a + 1, hi) = <<>>
    BY <1>1, <1>6, SubSeqEmpty
  <2> QED BY <1>2, <1>3, <1>4, <2>1, <2>2 DEF Flight
<1>7. CASE a < hi
  <2>1. a + 1 \in 1..Len(p) /\ hi \in a + 1..Len(p)
    BY <1>1, <1>7
  <2>2. Flight(p, (a + 1)..hi) = SubSeq(p, a + 1, hi)
    BY <2>1, FlightOfInterval
  <2> QED BY <1>2, <1>3, <1>4, <1>5, <2>2
<1>8. a = hi \/ a < hi
  BY <1>1
<1> QED BY <1>6, <1>7, <1>8

\* The newest of them are lost.
LEMMA FlightIsCut ==
  ASSUME NEW p \in Seq(Tasks), NEW W \in SUBSET (1..Len(p)), Convex(W),
         NEW V \in SUBSET W, \A a \in V, b \in W : b < a => b \in V
  PROVE  \E k \in 0..Len(Flight(p, W)) : Flight(p, V) = SubSeq(Flight(p, W), 1, k)
<1>1. CASE V = {}
  <2>1. Flight(p, W) \in Seq(Tasks)
    <3>1. CASE W = {}
      BY <3>1 DEF Flight
    <3>2. CASE W # {}
      <4>1. /\ W = Min(W)..Max(W) /\ Min(W) \in 1..Len(p) /\ Max(W) \in 1..Len(p)
            /\ Min(W) <= Max(W)
        BY <3>2, Interval
      <4> QED BY <3>2, <4>1, FlightOfInterval DEF Flight
    <3> QED BY <3>1, <3>2
  <2>2. Flight(p, V) = <<>>
    BY <1>1 DEF Flight
  <2>3. SubSeq(Flight(p, W), 1, 0) = <<>> /\ 0 \in 0..Len(Flight(p, W))
    BY <2>1, SubSeqEmpty
  <2> QED BY <2>2, <2>3
<1>2. CASE V # {}
  <2>1. W # {} /\ Len(p) \in Nat /\ V \in SUBSET (1..Len(p))
    <3>1. V \subseteq W /\ W \subseteq 1..Len(p)
      OBVIOUS
    <3>2. Len(p) \in Nat
      OBVIOUS
    <3> QED BY <1>2, <3>1, <3>2
  <2>2. Convex(V)
    <3> SUFFICES ASSUME NEW a \in V, NEW c \in V, NEW b \in a..c
                 PROVE  b \in V
      BY DEF Convex
    <3>1. b \in W
      BY DEF Convex
    <3>2. b = c \/ b < c
      BY <2>1
    <3> QED BY <3>1, <3>2
  <2> DEFINE lo == Min(W)  hi == Max(W)  top == Max(V)
  <2>3. W = lo..hi /\ lo \in 1..Len(p) /\ hi \in 1..Len(p) /\ lo <= hi
    BY <2>1, Interval
  <2>4. /\ V = Min(V)..top /\ Min(V) \in 1..Len(p) /\ top \in 1..Len(p)
        /\ Min(V) <= top
    BY <1>2, <2>1, <2>2, Interval
  <2>5. Min(V) = lo /\ top <= hi
    <3>1. Min(V) \in V /\ top \in V /\ lo \in W
      BY <2>3, <2>4
    <3>2. Min(V) \in W /\ top \in W
      BY <3>1
    <3>3. lo <= Min(V) /\ top <= hi
      BY <2>3, <3>2
    <3>4. lo < Min(V) => lo \in V
      BY <3>1
    <3> QED BY <2>3, <2>4, <3>3, <3>4
  <2> HIDE DEF lo, hi, top
  <2>6. V = lo..top /\ top \in lo..hi /\ hi \in lo..Len(p) /\ top \in lo..Len(p)
    BY <2>3, <2>4, <2>5
  <2>7. /\ Flight(p, W) = SubSeq(p, lo, hi) /\ Flight(p, V) = SubSeq(p, lo, top)
        /\ Len(SubSeq(p, lo, hi)) = (hi - lo) + 1
    BY <2>3, <2>6, FlightOfInterval
  <2> DEFINE k == (top - lo) + 1
  <2>8. k \in 1..(hi - lo) + 1 /\ 1 \in 1..(hi - lo) + 1
    BY <2>3, <2>6
  <2>9. SubSeq(SubSeq(p, lo, hi), 1, k) = SubSeq(p, (lo + 1) - 1, (lo + k) - 1)
    BY <2>3, <2>8, SubSeqOfSubSeq
  <2>10. (lo + 1) - 1 = lo /\ (lo + k) - 1 = top
    BY <2>3, <2>6
  <2>11. k \in 0..Len(Flight(p, W))
    BY <2>7, <2>8
  <2> QED BY <2>7, <2>9, <2>10, <2>11
<1> QED BY <1>1, <1>2

-----------------------------------------------------------------------------
\* What the two sides do to the text between them.
LEMMA Associative ==
  ASSUME NEW b \in Seq(Tokens), NEW c \in Seq(Tokens), NEW d \in Seq(Tokens)
  PROVE  (b \o c) \o d = b \o (c \o d)
<1> DEFINE u == b \o c  v == c \o d  x == u \o d  y == b \o v
<1>1. u \in Seq(Tokens) /\ v \in Seq(Tokens)
  BY ConcatAt
<1>2. /\ Len(u) = Len(b) + Len(c)
      /\ \A i \in 1..Len(b) : u[i] = b[i]
      /\ \A j \in 1..Len(c) : u[Len(b) + j] = c[j]
  BY ConcatAt
<1>3. /\ Len(v) = Len(c) + Len(d)
      /\ \A i \in 1..Len(c) : v[i] = c[i]
      /\ \A j \in 1..Len(d) : v[Len(c) + j] = d[j]
  BY ConcatAt
<1> HIDE DEF u, v
<1>4. x \in Seq(Tokens) /\ y \in Seq(Tokens)
  BY <1>1, ConcatAt
<1>5. /\ Len(x) = Len(u) + Len(d)
      /\ \A i \in 1..Len(u) : x[i] = u[i]
      /\ \A j \in 1..Len(d) : x[Len(u) + j] = d[j]
  BY <1>1, ConcatAt
<1>6. /\ Len(y) = Len(b) + Len(v)
      /\ \A i \in 1..Len(b) : y[i] = b[i]
      /\ \A j \in 1..Len(v) : y[Len(b) + j] = v[j]
  BY <1>1, ConcatAt
<1> HIDE DEF x, y
<1> DEFINE l == Len(b)  m == Len(c)  n == Len(d)
<1>7. l \in Nat /\ m \in Nat /\ n \in Nat
  OBVIOUS
<1>8. Len(x) = (l + m) + n /\ Len(y) = (l + m) + n
  BY <1>2, <1>3, <1>5, <1>6
<1>9. ASSUME NEW i \in 1..(l + m) + n
      PROVE  x[i] = y[i]
  <2>1. CASE i \in 1..l
    <3>1. i \in 1..Len(u)
      BY <1>2, <1>7, <2>1
    <3> QED BY <1>2, <1>5, <1>6, <2>1, <3>1
  <2>2. ASSUME NEW j \in 1..m, i = l + j
        PROVE  x[i] = y[i]
    <3>1. l + j \in 1..Len(u) /\ j \in 1..Len(v)
      BY <1>2, <1>3, <1>7
    <3>2. x[l + j] = u[l + j] /\ u[l + j] = c[j]
      BY <1>2, <1>5, <3>1
    <3>3. y[l + j] = v[j] /\ v[j] = c[j]
      BY <1>3, <1>6, <3>1
    <3> QED BY <2>2, <3>2, <3>3
  <2>3. ASSUME NEW k \in 1..n, i = (l + m) + k
        PROVE  x[i] = y[i]
    <3>1. m + k \in 1..Len(v) /\ (l + m) + k = l + (m + k)
      BY <1>3, <1>7
    <3>2. x[(l + m) + k] = d[k]
      BY <1>2, <1>5
    <3>3. y[l + (m + k)] = v[m + k] /\ v[m + k] = d[k]
      BY <1>3, <1>6, <3>1
    <3> QED BY <2>3, <3>1, <3>2, <3>3
  <2>4. CASE i > l /\ i <= l + m
    <3>1. i - l \in 1..m /\ i = l + (i - l)
      BY <1>7, <2>4
    <3> QED BY <2>2, <3>1
  <2>5. CASE i > l + m
    <3>1. i - (l + m) \in 1..n /\ i = (l + m) + (i - (l + m))
      BY <1>7, <2>5
    <3> QED BY <2>3, <3>1
  <2> QED BY <1>7, <2>1, <2>4, <2>5
<1>10. x = y
  BY <1>4, <1>8, <1>9, SeqEqual
<1> QED BY <1>10 DEF x, y, u, v

LEMMA TextReceived ==
  ASSUME NEW b \in Seq(Tokens), NEW w \in Seq(Tokens), NEW k \in 1..Len(w)
  PROVE  (b \o SubSeq(w, 1, k)) \o SubSeq(w, k + 1, Len(w)) = b \o w
<1> DEFINE c == SubSeq(w, 1, k)  d == SubSeq(w, k + 1, Len(w))
<1>1. c \o d = SubSeq(w, 1, Len(w))
  BY ConcatAdjacentSubSeq
<1>2. SubSeq(w, 1, Len(w)) = w
  BY SubSeqFull
<1>3. c \in Seq(Tokens) /\ d \in Seq(Tokens)
  BY CutAt
<1> HIDE DEF c, d
<1>4. (b \o c) \o d = b \o (c \o d)
  BY <1>3, Associative, Zenon
<1>5. (b \o c) \o d = b \o w
  BY <1>1, <1>2, <1>4, Zenon
<1> QED BY <1>5 DEF c, d

LEMMA TextBroken ==
  ASSUME NEW b \in Seq(Tokens), NEW w \in Seq(Tokens), NEW k \in 0..Len(w)
  PROVE  /\ Len(b) + k \in 0..Len(b \o w)
         /\ b \o SubSeq(w, 1, k) = SubSeq(b \o w, 1, Len(b) + k)
<1> DEFINE v == SubSeq(w, 1, k)  s == b \o w  x == b \o v  y == SubSeq(s, 1, Len(b) + k)
           m == Len(b)
<1>1. v \in Seq(Tokens) /\ Len(v) = k /\ \A i \in 1..k : v[i] = w[i]
  BY CutAt
<1> HIDE DEF v
<1>2. /\ s \in Seq(Tokens) /\ Len(s) = m + Len(w)
      /\ \A i \in 1..m : s[i] = b[i]
      /\ \A j \in 1..Len(w) : s[m + j] = w[j]
  BY ConcatAt
<1>3. v \in Seq(Tokens)
  BY <1>1
<1>4. /\ x \in Seq(Tokens) /\ Len(x) = m + Len(v)
      /\ \A i \in 1..m : x[i] = b[i]
      /\ \A j \in 1..Len(v) : x[m + j] = v[j]
  BY <1>3, ConcatAt
<1> HIDE DEF s, x
<1>5. m + k \in 0..Len(s) /\ m \in Nat /\ k \in Nat
  BY <1>2
<1>6. y \in Seq(Tokens) /\ Len(y) = m + k /\ \A i \in 1..m + k : y[i] = s[i]
  <2>1. s \in Seq(Tokens)
    BY <1>2
  <2> QED BY <1>5, <2>1, CutAt
<1> HIDE DEF y, m
<1>7. ASSUME NEW i \in 1..m + k
      PROVE  x[i] = y[i]
  <2>1. CASE i \in 1..m
    BY <1>2, <1>4, <1>6, <2>1
  <2>2. CASE i \notin 1..m
    <3>1. i - m \in 1..k /\ m + (i - m) = i /\ i - m \in 1..Len(w)
      BY <1>5, <2>2
    <3> QED BY <1>1, <1>2, <1>4, <1>6, <3>1
  <2> QED BY <2>1, <2>2
<1>8. x = y
  BY <1>1, <1>4, <1>6, <1>7, SeqEqual
<1> QED BY <1>5, <1>8 DEF m, x, y, s, v

LEMMA TextSplit ==
  ASSUME NEW b \in Seq(Tokens), NEW w \in Seq(Tokens), NEW n \in 0..Len(b)
  PROVE  SubSeq(b, n + 1, Len(b)) \o w = SubSeq(b \o w, n + 1, Len(b \o w))
<1> DEFINE v == SubSeq(b, n + 1, Len(b))  s == b \o w  x == v \o w
           y == SubSeq(s, n + 1, Len(s))  m == Len(b)
<1>1. v \in Seq(Tokens) /\ Len(v) = m - n /\ \A i \in 1..m - n : v[i] = b[n + i]
  BY CutAt
<1> HIDE DEF v
<1>2. /\ s \in Seq(Tokens) /\ Len(s) = m + Len(w)
      /\ \A i \in 1..m : s[i] = b[i]
      /\ \A j \in 1..Len(w) : s[m + j] = w[j]
  BY ConcatAt
<1>3. v \in Seq(Tokens)
  BY <1>1
<1>4. /\ x \in Seq(Tokens) /\ Len(x) = Len(v) + Len(w)
      /\ \A i \in 1..Len(v) : x[i] = v[i]
      /\ \A j \in 1..Len(w) : x[Len(v) + j] = w[j]
  BY <1>3, ConcatAt
<1> HIDE DEF s, x
<1>5. n \in 0..Len(s) /\ Len(s) \in n..Len(s) /\ m \in Nat /\ n \in 0..m /\ Len(w) \in Nat
  BY <1>2
<1>6. y \in Seq(Tokens) /\ Len(y) = Len(s) - n /\ \A i \in 1..Len(s) - n : y[i] = s[n + i]
  <2>1. s \in Seq(Tokens)
    BY <1>2
  <2> QED BY <1>5, <2>1, CutAt
<1> HIDE DEF y, m
<1>7. Len(x) = (m - n) + Len(w) /\ Len(y) = (m - n) + Len(w)
  BY <1>1, <1>2, <1>4, <1>5, <1>6
<1>8. ASSUME NEW i \in 1..(m - n) + Len(w)
      PROVE  x[i] = y[i]
  <2>1. i \in 1..Len(s) - n
    BY <1>2, <1>5
  <2>2. CASE i \in 1..m - n
    <3>1. n + i \in 1..m
      BY <1>5, <2>2
    <3> QED BY <1>1, <1>2, <1>4, <1>6, <2>1, <2>2, <3>1
  <2>3. CASE i \notin 1..m - n
    <3>1. /\ i - (m - n) \in 1..Len(w) /\ (m - n) + (i - (m - n)) = i
          /\ m + (i - (m - n)) = n + i
      BY <1>5, <2>3
    <3> DEFINE j == i - (m - n)
    <3>2. j \in 1..Len(w) /\ (m - n) + j = i /\ m + j = n + i
      BY <3>1
    <3> HIDE DEF j
    <3>3. x[(m - n) + j] = w[j]
      BY <1>1, <1>4, <3>2
    <3>4. s[m + j] = w[j]
      BY <1>2, <3>2
    <3>5. y[i] = s[n + i]
      BY <1>6, <2>1
    <3> QED BY <3>2, <3>3, <3>4, <3>5
  <2> QED BY <2>2, <2>3
<1>9. x = y
  BY <1>4, <1>6, <1>7, <1>8, SeqEqual
<1> QED BY <1>9 DEF x, y, s, v

\* Nothing between them, whatever was sent before.
LEMMA EmptyText ==
  ASSUME NEW p \in Seq(Tasks), Distinct(p)
  PROVE  /\ Sound(<<>>, p) /\ Complete(<<>>) /\ Newest(Present(<<>>, p), Len(p))
         /\ Below(<<>>, p) = {} /\ Present(<<>>, p) = {}
<1>1. Present(<<>>, p) = {} /\ Below(<<>>, p) = {}
  BY DEF Present, Below
<1>2. Framed(<<>>) /\ Complete(<<>>) /\ Known(<<>>, p) /\ Ordered(<<>>, p)
  BY DEF Framed, Complete, Known, Ordered
<1> QED BY <1>1, <1>2 DEF Sound, Convex, Newest

-----------------------------------------------------------------------------
\* The invariant of the daemon's loop, and the steps.
FramingInv == FramingTypeOK /\ StreamInv

LEMMA TextType == FramingTypeOK => Text \in Seq(Tokens)
  BY ConcatAt DEF FramingTypeOK, Text

LEMMA InFlightIs ==
  /\ InFlight = Flight(put, Below(Text, put))
  /\ InFlight' = Flight(put', Below(Text', put'))
  BY DEF InFlight, Whole, Flight, Below

LEMMA FramingInitInv == FramingInit => FramingInv
<1> SUFFICES ASSUME FramingInit PROVE FramingInv
  OBVIOUS
<1>1. FramingTypeOK
  <2>1. MaxEvents \in Nat
    BY FramingAssumption
  <2>2. 0 \in 0..MaxEvents
    BY <2>1
  <2> QED BY <2>2 DEF FramingInit, FramingTypeOK, Pcs
<1>2. Text = <<>> /\ put = <<>> /\ pc = "read"
  BY DEF FramingInit, Text
<1>3. Distinct(put)
  BY <1>2 DEF Distinct
<1>4. put \in Seq(Tasks)
  BY <1>1 DEF FramingTypeOK
<1>5. Sound(Text, put) /\ Complete(Text) /\ Newest(Present(Text, put), Len(put))
  BY <1>2, <1>3, <1>4, EmptyText
<1> QED BY <1>1, <1>2, <1>5 DEF FramingInv, StreamInv

\* An event is sent.
LEMMA SendTaskStep ==
  ASSUME FramingInv, NEW t \in Tasks, SendTask(t)
  PROVE  FramingInv' /\ Stream!Enqueue(t)
<1>1. /\ wire \in Seq(Tokens) /\ buffer \in Seq(Tokens) /\ Text \in Seq(Tokens)
      /\ put \in Seq(Tasks) /\ FramingTypeOK
  BY TextType DEF FramingInv, FramingTypeOK
<1>2. TaskEvent(t) \in Seq(Tokens)
  BY TaskEventIs
<1>3. /\ put' = Append(put, t) /\ wire' = wire \o TaskEvent(t) /\ buffer' = buffer
      /\ alive /\ alive' = alive /\ pc' = pc /\ handled' = handled
  BY DEF SendTask
<1>4. Text' = Text \o TaskEvent(t)
  <2>1. Text' = buffer \o (wire \o TaskEvent(t))
    BY <1>3 DEF Text
  <2>2. Text \o TaskEvent(t) = (buffer \o wire) \o TaskEvent(t)
    BY DEF Text
  <2>3. (buffer \o wire) \o TaskEvent(t) = buffer \o (wire \o TaskEvent(t))
    BY <1>1, <1>2, Associative, Zenon
  <2> QED BY <2>1, <2>2, <2>3
<1>5. FramingTypeOK'
  <2>1. wire' \in Seq(Tokens)
    BY <1>1, <1>2, <1>3, ConcatAt
  <2>2. put' \in Seq(Tasks)
    BY <1>1, <1>3
  <2>3. count' \in 0..MaxEvents
    <3>1. count \in 0..MaxEvents /\ count < MaxEvents /\ count' = count + 1
      BY <1>1 DEF SendTask, FramingTypeOK
    <3>2. MaxEvents \in Nat
      BY FramingAssumption
    <3> QED BY <3>1, <3>2
  <2> QED BY <1>1, <1>3, <2>1, <2>2, <2>3 DEF FramingTypeOK
<1>6. \A a \in 1..Len(put) : put[a] # t
  <2>1. t \notin ToSet(put) /\ DOMAIN put = 1..Len(put)
    BY <1>1 DEF SendTask
  <2> QED BY <2>1 DEF ToSet
<1>7. /\ Sound(Text, put) /\ Complete(Text) /\ Newest(Present(Text, put), Len(put))
      /\ pc # "left"
  BY <1>3 DEF FramingInv, StreamInv
<1>8. /\ Sound(Text', put') /\ Complete(Text') /\ Newest(Present(Text', put'), Len(put'))
      /\ Present(Text', put') = Present(Text, put) \cup {Len(put) + 1}
  BY <1>1, <1>3, <1>4, <1>6, <1>7, EnqueueText
<1>9. StreamInv'
  BY <1>3, <1>7, <1>8 DEF StreamInv
<1>10. Below(Text, put) = Present(Text, put) /\ Below(Text', put') = Present(Text', put')
  <2>1. Text' \in Seq(Tokens) /\ put' \in Seq(Tasks)
    BY <1>1, <1>2, <1>3, <1>4, ConcatAt
  <2> QED BY <1>1, <1>7, <1>8, <2>1, BelowOfComplete DEF Sound
<1>11. Present(Text, put) \in SUBSET (1..Len(put))
  BY <1>1, BelowIsPresent
<1>12. InFlight' = Append(InFlight, t)
  <2> DEFINE W == Present(Text, put)
  <2>1. InFlight = Flight(put, W)
    BY <1>10, InFlightIs
  <2>2. InFlight' = Flight(Append(put, t), W \cup {Len(put) + 1})
    BY <1>3, <1>8, <1>10, InFlightIs
  <2>3. W \in SUBSET (1..Len(put)) /\ Newest(W, Len(put))
    BY <1>7, <1>11
  <2> HIDE DEF W
  <2>4. Flight(Append(put, t), W \cup {Len(put) + 1}) = Append(Flight(put, W), t)
    BY <1>1, <2>3, FlightGrows
  <2> QED BY <2>1, <2>2, <2>4
<1> QED BY <1>3, <1>5, <1>9, <1>12 DEF FramingInv, Stream!Enqueue

LEMMA SendIdleStep ==
  ASSUME FramingInv, SendIdle
  PROVE  FramingInv' /\ UNCHANGED <<put, InFlight, handled>>
<1>1. /\ wire \in Seq(Tokens) /\ buffer \in Seq(Tokens) /\ Text \in Seq(Tokens)
      /\ put \in Seq(Tasks) /\ FramingTypeOK
  BY TextType DEF FramingInv, FramingTypeOK
<1>2. PICK e \in {PingEvent, CommentEvent} : wire' = wire \o e
  BY DEF SendIdle
<1>3. /\ put' = put /\ buffer' = buffer
      /\ alive /\ alive' = alive /\ pc' = pc /\ handled' = handled
  BY DEF SendIdle
<1>4. e \in Seq(Tokens)
  BY IdleEventIs
<1>5. Text' = Text \o e
  <2>1. Text' = buffer \o (wire \o e)
    BY <1>2, <1>3 DEF Text
  <2>2. Text \o e = (buffer \o wire) \o e
    BY DEF Text
  <2>3. (buffer \o wire) \o e = buffer \o (wire \o e)
    BY <1>1, <1>4, Associative, Zenon
  <2> QED BY <2>1, <2>2, <2>3
<1>6. FramingTypeOK'
  <2>1. wire' \in Seq(Tokens)
    BY <1>1, <1>2, <1>4, ConcatAt
  <2>2. count' \in 0..MaxEvents
    <3>1. count \in 0..MaxEvents /\ count < MaxEvents /\ count' = count + 1
      BY <1>1 DEF SendIdle, FramingTypeOK
    <3>2. MaxEvents \in Nat
      BY FramingAssumption
    <3> QED BY <3>1, <3>2
  <2> QED BY <1>1, <1>3, <2>1, <2>2 DEF FramingTypeOK
<1>7. /\ Sound(Text, put) /\ Complete(Text) /\ Newest(Present(Text, put), Len(put))
      /\ pc # "left"
  BY <1>3 DEF FramingInv, StreamInv
<1>8. /\ Sound(Text', put') /\ Complete(Text')
      /\ Present(Text', put') = Present(Text, put)
  BY <1>1, <1>3, <1>5, <1>7, IdleText
<1>9. StreamInv'
  BY <1>3, <1>7, <1>8 DEF StreamInv
<1>10. Below(Text', put') = Below(Text, put)
  <2>1. Text' \in Seq(Tokens) /\ put' \in Seq(Tasks)
    BY <1>1, <1>3, <1>4, <1>5, ConcatAt
  <2> QED BY <1>1, <1>7, <1>8, <2>1, BelowOfComplete DEF Sound
<1>11. InFlight' = InFlight
  BY <1>3, <1>10, InFlightIs
<1> QED BY <1>3, <1>6, <1>9, <1>11 DEF FramingInv

\* The connection breaks.
LEMMA BreakStep ==
  ASSUME FramingInv, Break
  PROVE  FramingInv' /\ Stream!Lose
<1>1. /\ wire \in Seq(Tokens) /\ buffer \in Seq(Tokens) /\ Text \in Seq(Tokens)
      /\ put \in Seq(Tasks) /\ FramingTypeOK
  BY TextType DEF FramingInv, FramingTypeOK
<1>2. PICK k \in 0..Len(wire) : wire' = SubSeq(wire, 1, k)
  BY DEF Break
<1>3. /\ put' = put /\ buffer' = buffer /\ count' = count
      /\ alive /\ alive' = FALSE /\ pc' = pc /\ handled' = handled
  BY DEF Break
<1>4. FramingTypeOK'
  <2>1. wire' \in Seq(Tokens)
    BY <1>1, <1>2, CutAt
  <2> QED BY <1>1, <1>3, <2>1 DEF FramingTypeOK
<1>5. Sound(Text, put) /\ pc # "left"
  BY <1>3 DEF FramingInv, StreamInv
<1> DEFINE c == Len(buffer) + k
<1>6. c \in 0..Len(Text) /\ Text' = SubSeq(Text, 1, c)
  BY <1>1, <1>2, <1>3, TextBroken DEF Text
<1> HIDE DEF c
<1>7. Sound(Text', put')
  BY <1>1, <1>3, <1>5, <1>6, PrefixText
<1>8. StreamInv'
  BY <1>3, <1>5, <1>7 DEF StreamInv
<1>9. /\ Below(Text', put) \subseteq Below(Text, put)
      /\ \A a \in Below(Text', put), b \in Below(Text, put) : b < a => b \in Below(Text', put)
  BY <1>1, <1>5, <1>6, BelowOfPrefix
<1>10. Below(Text, put) \in SUBSET (1..Len(put)) /\ Convex(Below(Text, put))
  BY <1>1, <1>5, BelowIsPresent, BelowIsConvex
<1>11. \E l \in 0..Len(InFlight) : InFlight' = SubSeq(InFlight, 1, l)
  BY <1>1, <1>3, <1>9, <1>10, InFlightIs, FlightIsCut
<1> QED BY <1>3, <1>4, <1>8, <1>11 DEF FramingInv, Stream!Lose

\* A chunk is received, however long.
LEMMA ReceiveStep ==
  ASSUME FramingInv, NEW k \in 1..Len(wire), Receive(k)
  PROVE  FramingInv' /\ UNCHANGED <<put, InFlight, handled>>
<1>1. /\ wire \in Seq(Tokens) /\ buffer \in Seq(Tokens)
      /\ put \in Seq(Tasks) /\ FramingTypeOK
  BY DEF FramingInv, FramingTypeOK
<1>2. /\ buffer' = buffer \o SubSeq(wire, 1, k) /\ wire' = SubSeq(wire, k + 1, Len(wire))
      /\ put' = put /\ count' = count
      /\ alive' = alive /\ pc' = "split" /\ handled' = handled
  BY DEF Receive
<1>3. FramingTypeOK'
  <2>1. SubSeq(wire, 1, k) \in Seq(Tokens) /\ SubSeq(wire, k + 1, Len(wire)) \in Seq(Tokens)
    BY <1>1, CutAt
  <2>2. wire' \in Seq(Tokens) /\ buffer' \in Seq(Tokens)
    BY <1>1, <1>2, <2>1, ConcatAt
  <2> QED BY <1>1, <1>2, <2>2 DEF FramingTypeOK, Pcs
<1>4. Text' = Text
  BY <1>1, <1>2, TextReceived DEF Text
<1>5. StreamInv'
  BY <1>2, <1>4 DEF FramingInv, StreamInv
<1>6. InFlight' = InFlight
  BY <1>2, <1>4, InFlightIs
<1> QED BY <1>2, <1>3, <1>5, <1>6 DEF FramingInv

\* The first event is split off and processed.
LEMMA SplitStep ==
  ASSUME FramingInv, Split
  PROVE  /\ FramingInv'
         /\ Stream!Dequeue \/ UNCHANGED <<put, InFlight, handled>>
<1>1. /\ wire \in Seq(Tokens) /\ buffer \in Seq(Tokens) /\ Text \in Seq(Tokens)
      /\ put \in Seq(Tasks) /\ handled \in Seq(Tasks) /\ FramingTypeOK
  BY TextType DEF FramingInv, FramingTypeOK
<1>2. Begins(buffer, Text)
  <2>1. /\ Len(Text) = Len(buffer) + Len(wire)
        /\ \A j \in 1..Len(buffer) : Text[j] = buffer[j]
    BY <1>1, ConcatAt DEF Text
  <2>2. Len(buffer) \in Nat /\ Len(wire) \in Nat
    BY <1>1
  <2> QED BY <2>1, <2>2 DEF Begins
<1>3. Sound(Text, put) /\ Framed(Text) /\ Ends(buffer) # {} /\ pc = "split"
  BY DEF FramingInv, StreamInv, Sound, Split
<1> DEFINE n == Length(Text[1])  event == SubSeq(buffer, 1, n - 4)
<1>4. /\ Text # <<>> /\ n \in {5, 8} /\ n <= Len(buffer) /\ n <= Len(Text)
      /\ Min(Ends(buffer)) = n - 3
  <2>1. /\ Text # <<>> /\ n <= Len(buffer) /\ Min(Ends(buffer)) = n - 3
    BY <1>1, <1>2, <1>3, FirstSeparator
  <2>2. n \in {5, 8}
    BY LengthIs
  <2>3. Len(buffer) <= Len(Text) /\ Len(buffer) \in Nat /\ Len(Text) \in Nat
    BY <1>1, <1>2 DEF Begins
  <2> QED BY <2>1, <2>2, <2>3
<1>5. (n - 3) + 4 = n + 1 /\ (n - 3) - 1 = n - 4 /\ n \in 0..Len(buffer)
  BY <1>1, <1>4
<1>6. /\ buffer' = SubSeq(buffer, n + 1, Len(buffer))
      /\ IF Ignored(event)
         THEN UNCHANGED <<pc, handled>>
         ELSE pc' = "busy" /\ handled' = Append(handled, Data(event))
      /\ alive' = alive /\ wire' = wire /\ count' = count /\ put' = put
  BY <1>4, <1>5 DEF Split
<1>7. /\ Text[1] # "event:task" => Ignored(event)
      /\ Text[1] = "event:task" => ~Ignored(event) /\ Data(event) = Text[4]
  BY <1>1, <1>2, <1>3, <1>4, FirstIsHandled
<1>8. Text' = Rest(Text)
  <2>1. Text' = SubSeq(buffer, n + 1, Len(buffer)) \o wire
    BY <1>6 DEF Text
  <2>2. SubSeq(buffer, n + 1, Len(buffer)) \o wire
          = SubSeq(buffer \o wire, n + 1, Len(buffer \o wire))
    BY <1>1, <1>5, TextSplit
  <2> QED BY <2>1, <2>2 DEF Text, Rest
<1> HIDE DEF n, event
<1>9. buffer' \in Seq(Tokens)
  BY <1>1, <1>5, <1>6, CutAt
<1>10. Sound(Text', put') /\ (Complete(Text) => Complete(Text'))
  BY <1>1, <1>3, <1>4, <1>6, <1>8, RestText DEF n
<1>11. pc' # "left" /\ pc' \in Pcs
  BY <1>3, <1>6 DEF Pcs
<1>12. CASE Text[1] # "event:task"
  <2>1. pc' = pc /\ handled' = handled
    BY <1>6, <1>7, <1>12
  <2>2. Present(Text', put') = Present(Text, put) /\ Below(Text', put') = Below(Text, put)
    BY <1>1, <1>3, <1>4, <1>6, <1>8, <1>12, RestText DEF n
  <2>3. FramingTypeOK'
    BY <1>1, <1>6, <1>9, <2>1 DEF FramingTypeOK
  <2>4. StreamInv'
    BY <1>6, <1>10, <1>11, <2>2 DEF FramingInv, StreamInv
  <2>5. InFlight' = InFlight
    BY <1>6, <2>2, InFlightIs
  <2> QED BY <1>6, <2>1, <2>3, <2>4, <2>5 DEF FramingInv
<1>13. CASE Text[1] = "event:task"
  <2>1. PICK a \in Below(Text, put) :
          /\ Text[4] = put[a] /\ \A b \in Present(Text, put) : a <= b
          /\ Present(Rest(Text), put) = Present(Text, put) \ {a}
          /\ Below(Rest(Text), put) = Below(Text, put) \ {a}
    BY <1>1, <1>3, <1>4, <1>13, RestText DEF n
  <2>2. /\ Below(Text, put) \subseteq Present(Text, put)
        /\ Present(Text, put) \in SUBSET (1..Len(put))
        /\ Below(Text, put) \in SUBSET (1..Len(put))
        /\ Convex(Below(Text, put))
    BY <1>1, <1>3, BelowIsPresent, BelowIsConvex
  <2>3. pc' = "busy" /\ handled' = Append(handled, put[a])
    BY <1>6, <1>7, <1>13, <2>1
  <2>4. put[a] \in Tasks
    BY <1>1, <2>2
  <2>5. handled' \in Seq(Tasks)
    BY <1>1, <2>3, <2>4
  <2>6. FramingTypeOK'
    BY <1>1, <1>6, <1>9, <1>11, <2>5 DEF FramingTypeOK
  <2>7. Newest(Present(Text, put), Len(put)) => Newest(Present(Text', put'), Len(put'))
    <3> SUFFICES ASSUME Newest(Present(Text, put), Len(put)),
                        NEW b \in Present(Text, put) \ {a}, NEW c \in b..Len(put)
                 PROVE  c \in Present(Text, put) \ {a}
      BY <1>6, <1>8, <2>1 DEF Newest
    <3>1. c \in Present(Text, put)
      BY DEF Newest
    <3>2. a <= b /\ a # b /\ b \in 1..Len(put) /\ a \in 1..Len(put)
      BY <2>1, <2>2
    <3>3. c # a
      BY <3>2
    <3> QED BY <3>1, <3>3
  <2>8. StreamInv'
    BY <1>6, <1>10, <1>11, <2>7 DEF FramingInv, StreamInv
  <2>9. \A b \in Below(Text, put) : a <= b
    BY <2>1, <2>2
  <2>10. /\ Flight(put, Below(Text, put)) # <<>>
         /\ Head(Flight(put, Below(Text, put))) = put[a]
         /\ Flight(put, Below(Text, put) \ {a}) = Tail(Flight(put, Below(Text, put)))
    BY <1>1, <2>2, <2>9, FlightAdvances
  <2>11. InFlight = Flight(put, Below(Text, put))
    BY InFlightIs
  <2>12. InFlight' = Flight(put, Below(Text, put) \ {a})
    BY <1>6, <1>8, <2>1, InFlightIs
  <2>13. InFlight # <<>> /\ Head(InFlight) = put[a] /\ InFlight' = Tail(InFlight)
    BY <2>10, <2>11, <2>12
  <2> QED BY <1>6, <2>3, <2>6, <2>8, <2>13 DEF FramingInv, Stream!Dequeue
<1> QED BY <1>12, <1>13

\* The steps of the daemon that touch no text.
LEMMA TurnStep ==
  ASSUME FramingInv, WantMore \/ Handled \/ Listen
  PROVE  FramingInv' /\ UNCHANGED <<put, InFlight, handled>>
<1>1. /\ wire' = wire /\ buffer' = buffer /\ count' = count /\ put' = put
      /\ handled' = handled /\ pc' \in {"read", "split"}
  BY DEF WantMore, Handled, Listen
<1>2. Text' = Text
  BY <1>1 DEF Text
<1>3. FramingTypeOK'
  <2>1. alive' \in BOOLEAN
    BY DEF WantMore, Handled, Listen, FramingInv, FramingTypeOK
  <2> QED BY <1>1, <2>1 DEF FramingInv, FramingTypeOK, Pcs
<1>4. put \in Seq(Tasks) /\ Sound(Text, put)
  BY DEF FramingInv, FramingTypeOK, StreamInv
<1>5. alive' => Complete(Text) /\ Newest(Present(Text, put), Len(put))
  <2>1. CASE Listen
    <3>1. Text = <<>> /\ Distinct(put)
      BY <1>4, <2>1 DEF Listen, FramingInv, StreamInv, Sound
    <3> QED BY <1>4, <3>1, EmptyText
  <2>2. CASE WantMore \/ Handled
    BY <2>2 DEF WantMore, Handled, FramingInv, StreamInv
  <2> QED BY <2>1, <2>2
<1>6. StreamInv'
  BY <1>1, <1>2, <1>4, <1>5 DEF StreamInv
<1>7. InFlight' = InFlight
  BY <1>1, <1>2, InFlightIs
<1> QED BY <1>1, <1>3, <1>6, <1>7 DEF FramingInv

\* The stream is left, and what was on it is gone.
LEMMA LeaveStep ==
  ASSUME FramingInv, Leave
  PROVE  FramingInv' /\ Stream!Lose
<1>1. /\ wire' = <<>> /\ buffer' = <<>> /\ count' = count /\ put' = put
      /\ handled' = handled /\ pc' = "left" /\ alive' = FALSE
  BY DEF Leave
<1>2. put \in Seq(Tasks) /\ Sound(Text, put) /\ Text \in Seq(Tokens) /\ Distinct(put)
  BY TextType DEF FramingInv, FramingTypeOK, StreamInv, Sound
<1>3. Text' = <<>>
  BY <1>1 DEF Text
<1>4. FramingTypeOK'
  <2>1. wire' \in Seq(Tokens) /\ buffer' \in Seq(Tokens)
    BY <1>1
  <2>2. /\ count \in 0..MaxEvents /\ put \in Seq(Tasks) /\ handled \in Seq(Tasks)
    BY DEF FramingInv, FramingTypeOK
  <2> QED BY <1>1, <2>1, <2>2 DEF FramingTypeOK, Pcs
<1>5. Sound(Text', put') /\ Below(Text', put') = {}
  BY <1>1, <1>2, <1>3, EmptyText
<1>6. StreamInv'
  BY <1>1, <1>3, <1>5 DEF StreamInv
<1>7. Below(Text, put) \in SUBSET (1..Len(put)) /\ Convex(Below(Text, put))
  BY <1>2, BelowIsPresent, BelowIsConvex
<1>8. \E l \in 0..Len(InFlight) : InFlight' = SubSeq(InFlight, 1, l)
  <2> DEFINE W == Below(Text, put)
  <2>1. InFlight = Flight(put, W) /\ InFlight' = Flight(put, {})
    BY <1>1, <1>5, InFlightIs
  <2>2. W \in SUBSET (1..Len(put)) /\ Convex(W) /\ {} \in SUBSET W
    BY <1>7
  <2> HIDE DEF W
  <2>3. \E l \in 0..Len(Flight(put, W)) : Flight(put, {}) = SubSeq(Flight(put, W), 1, l)
    BY <1>2, <2>2, FlightIsCut
  <2> QED BY <2>1, <2>3
<1> QED BY <1>1, <1>4, <1>6, <1>8 DEF FramingInv, Stream!Lose

\* Every step preserves the invariant, and is a step of the channel or none.
LEMMA FramingStep ==
  FramingInv /\ [FramingNext]_framingVars =>
    FramingInv' /\ [Stream!ChannelNext]_<<put, InFlight, handled>>
<1> SUFFICES ASSUME FramingInv, [FramingNext]_framingVars
    PROVE FramingInv' /\ [Stream!ChannelNext]_<<put, InFlight, handled>>
  OBVIOUS
<1>1. CASE \E t \in Tasks : SendTask(t)
  BY <1>1, SendTaskStep DEF Stream!ChannelNext
<1>2. CASE SendIdle
  BY <1>2, SendIdleStep
<1>3. CASE Break
  BY <1>3, BreakStep DEF Stream!ChannelNext
<1>4. CASE \E k \in 1..Len(wire) : Receive(k)
  BY <1>4, ReceiveStep
<1>5. CASE Split
  BY <1>5, SplitStep DEF Stream!ChannelNext
<1>6. CASE WantMore \/ Handled \/ Listen
  BY <1>6, TurnStep
<1>7. CASE Leave
  BY <1>7, LeaveStep DEF Stream!ChannelNext
<1>8. CASE UNCHANGED framingVars
  <2>1. /\ alive' = alive /\ wire' = wire /\ buffer' = buffer /\ pc' = pc
        /\ count' = count /\ put' = put /\ handled' = handled
    BY <1>8 DEF framingVars
  <2>2. Text' = Text
    BY <2>1 DEF Text
  <2>3. InFlight' = InFlight
    BY <2>1, <2>2, InFlightIs
  <2>4. FramingTypeOK'
    BY <2>1 DEF FramingInv, FramingTypeOK
  <2>5. StreamInv'
    BY <2>1, <2>2 DEF FramingInv, StreamInv
  <2> QED BY <2>1, <2>3, <2>4, <2>5 DEF FramingInv
<1> QED BY <1>1, <1>2, <1>3, <1>4, <1>5, <1>6, <1>7, <1>8 DEF FramingNext

LEMMA FramingAlways == FramingSpec => []FramingInv
  BY FramingInitInv, FramingStep, PTL DEF FramingSpec

\* The daemon's buffer and the tasks it handles have their types; that it is
\* never called with anything but a task needs the whole invariant.
THEOREM FramingTypeCorrect == FramingSpec => []FramingTypeOK
<1>1. FramingInv => FramingTypeOK
  BY DEF FramingInv
<1> QED BY <1>1, FramingAlways, PTL

\* However the stream is cut into chunks, and wherever it breaks, the daemon
\* handles the tasks in the order they were sent, each at most once and only
\* if its event arrived completely.
THEOREM FramingImplementsChannel == FramingSpec => ImplementsChannel
<1>1. FramingInit => Stream!ChannelInit
  <2> SUFFICES ASSUME FramingInit PROVE Stream!ChannelInit
    OBVIOUS
  <2>1. put = <<>> /\ handled = <<>> /\ Text = <<>>
    BY DEF FramingInit, Text
  <2>2. InFlight = <<>>
    BY <2>1 DEF InFlight, Whole
  <2> QED BY <2>1, <2>2 DEF Stream!ChannelInit
<1>2. FramingInv /\ [FramingNext]_framingVars =>
        [Stream!ChannelNext]_(Stream!channelVars)
  BY FramingStep DEF Stream!channelVars
<1> QED
  BY <1>1, <1>2, FramingAlways, PTL
  DEF FramingSpec, ImplementsChannel, Stream!ChannelSpec
=============================================================================
