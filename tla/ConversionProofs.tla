-------------------------- MODULE ConversionProofs --------------------------
(***************************************************************************)
(* Proofs about the conversion of one message: about ForwardMessage, for   *)
(* every message, whatever its forwards hold and however deep they are     *)
(* nested, and any number of goroutines; and about MediaMessage, for       *)
(* messages of any length.                                                 *)
(*                                                                         *)
(* Both flatten lists with FlattenSeq (flattenForward, generateSegments),  *)
(* whose result comes first.                                               *)
(***************************************************************************)
EXTENDS ForwardMessage, MediaMessage, FiniteSetTheorems, SequenceTheorems, TLAPS

-----------------------------------------------------------------------------
(* What FlattenSeq computes                                                *)

(* Induction over the natural numbers, stated for a set of them.           *)
LEMMA SetInduction ==
  ASSUME NEW S, 0 \in S, \A n \in Nat : n \in S => n + 1 \in S
  PROVE  Nat \subseteq S
<1> DEFINE R == {ss \in Nat \X Nat : ss[1] < ss[2]}
<1>1. IsWellFoundedOn(R, Nat)
  BY NatLessThanWellFounded DEF OpToRel
<1>2. SUFFICES ASSUME Nat \ S # {} PROVE FALSE
  OBVIOUS
<1>3. PICK x \in Nat \ S : \A y \in Nat \ S : ~ (<<y, x>> \in R)
  <2> HIDE DEF R
  <2> QED
    BY <1>1, <1>2, WFMin
<1>4. x # 0 /\ x - 1 \in Nat
  OBVIOUS
<1>5. <<x - 1, x>> \in R
  BY <1>4
<1>6. x - 1 \in S
  BY <1>3, <1>4, <1>5
<1>7. (x - 1) + 1 \in S
  BY <1>4, <1>6
<1> QED
  BY <1>3, <1>7

(* The partial concatenations in the definition of FlattenSeq.             *)
Partial(f, s) ==
  f = [i \in 1..Len(s) |-> IF i = 1 THEN s[i] ELSE f[i - 1] \o s[i]]

(* There are such concatenations: they can be made up to any position.     *)
LEMMA PartialExists ==
  ASSUME NEW T, NEW s \in Seq(Seq(T)) PROVE \E f : Partial(f, s)
<1> DEFINE Upto(n) == \E f \in [1..Len(s) -> Seq(T)] : \A i \in 1..Len(s) : i <= n =>
                        f[i] = IF i = 1 THEN s[i] ELSE f[i - 1] \o s[i]
           S == {n \in Nat : Upto(n)}
<1>1. 0 \in S
  <2>1. [i \in 1..Len(s) |-> <<>>] \in [1..Len(s) -> Seq(T)]
    OBVIOUS
  <2> QED
    BY <2>1
<1>2. ASSUME NEW n \in Nat, Upto(n) PROVE Upto(n + 1)
  <2>1. PICK f \in [1..Len(s) -> Seq(T)] : \A i \in 1..Len(s) : i <= n =>
               f[i] = IF i = 1 THEN s[i] ELSE f[i - 1] \o s[i]
    BY <1>2
  <2>2. CASE n + 1 > Len(s)
    <3>1. \A i \in 1..Len(s) : i <= n
      BY <2>2
    <3> QED
      BY <2>1, <3>1
  <2>3. CASE n + 1 <= Len(s)
    <3> DEFINE c == IF n + 1 = 1 THEN s[n + 1] ELSE f[n] \o s[n + 1]
               g == [f EXCEPT ![n + 1] = c]
    <3>1. n + 1 \in 1..Len(s) /\ s[n + 1] \in Seq(T)
      BY <2>3
    <3>2. n + 1 # 1 => n \in 1..Len(s) /\ f[n] \in Seq(T)
      <4> HIDE DEF S, Upto
      <4>1. ASSUME n + 1 # 1 PROVE n \in 1..Len(s)
        BY <2>3, <4>1
      <4> QED
        BY <4>1
    <3>3. c \in Seq(T)
      BY <3>1, <3>2
    <3> HIDE DEF c
    <3>4. g \in [1..Len(s) -> Seq(T)]
      BY <3>3
    <3>5. g[n + 1] = c /\ \A i \in 1..Len(s) : i <= n => g[i] = f[i]
      BY <3>1
    <3> HIDE DEF g
    <3>6. ASSUME NEW i \in 1..Len(s), i <= n + 1
          PROVE  g[i] = IF i = 1 THEN s[i] ELSE g[i - 1] \o s[i]
      <4>1. CASE i <= n
        <5>1. g[i] = f[i] /\ (i # 1 => g[i - 1] = f[i - 1])
          BY <3>5, <4>1
        <5> QED
          BY <2>1, <4>1, <5>1
      <4>2. CASE i = n + 1
        <5>1. i # 1 => g[i - 1] = f[n]
          BY <3>2, <3>5, <4>2
        <5> QED
          BY <3>5, <4>2, <5>1 DEF c
      <4> QED
        BY <3>6, <4>1, <4>2
    <3> QED
      BY <3>4, <3>6
  <2>4. n + 1 > Len(s) \/ n + 1 <= Len(s)
    OBVIOUS
  <2> QED
    BY <2>2, <2>3, <2>4, Zenon
<1>3. Len(s) \in S
  <2>1. ASSUME NEW n \in Nat, n \in S PROVE n + 1 \in S
    <3> HIDE DEF Upto
    <3> QED
      BY <1>2, <2>1
  <2> HIDE DEF S
  <2>2. Nat \subseteq S
    BY <1>1, <2>1, SetInduction
  <2> QED
    BY <2>2
<1>4. PICK f \in [1..Len(s) -> Seq(T)] : \A i \in 1..Len(s) :
             f[i] = IF i = 1 THEN s[i] ELSE f[i - 1] \o s[i]
  BY <1>3
<1>5. Partial(f, s)
  BY <1>4 DEF Partial
<1> QED
  BY <1>5

LEMMA FlattenSeqDef ==
  ASSUME NEW T, NEW s \in Seq(Seq(T)), s # <<>>
  PROVE  \E f : Partial(f, s) /\ FlattenSeq(s) = f[Len(s)]
<1> DEFINE g == CHOOSE f : f = [i \in 1..Len(s) |-> IF i = 1 THEN s[i] ELSE f[i - 1] \o s[i]]
<1>1. Len(s) # 0
  OBVIOUS
<1>2. g = [i \in 1..Len(s) |-> IF i = 1 THEN s[i] ELSE g[i - 1] \o s[i]]
  BY PartialExists, Zenon DEF Partial
<1>3. FlattenSeq(s) = g[Len(s)]
  BY <1>1, Zenon DEF FlattenSeq
<1>4. Partial(g, s)
  BY <1>2 DEF Partial
<1> QED
  BY <1>3, <1>4

(* r lists the elements of s[1], ..., s[n], one after the other: its       *)
(* element p is number col[p] of s[row[p]].                                *)
ListedBy(r, s, n, row, col) ==
  /\ row \in [DOMAIN r -> 1..n] /\ col \in [DOMAIN r -> Nat]
  /\ \A p \in DOMAIN r : col[p] \in DOMAIN s[row[p]] /\ r[p] = s[row[p]][col[p]]
  /\ \A p, q \in DOMAIN r : p < q => row[p] < row[q] \/ (row[p] = row[q] /\ col[p] < col[q])
  /\ \A i \in 1..n : \A j \in DOMAIN s[i] : \E p \in DOMAIN r : row[p] = i /\ col[p] = j

Lists(r, s, n) == \E row, col : ListedBy(r, s, n, row, col)

LEMMA ListsNext ==
  ASSUME NEW T, NEW s \in Seq(Seq(T)), NEW n \in Nat, n + 1 \in DOMAIN s,
         NEW r \in Seq(T), Lists(r, s, n)
  PROVE  Lists(r \o s[n + 1], s, n + 1)
<1>1. PICK row, col : ListedBy(r, s, n, row, col)
  BY DEF Lists
<1> DEFINE t == s[n + 1]
           u == r \o t
           Row == [p \in DOMAIN u |-> IF p <= Len(r) THEN row[p] ELSE n + 1]
           Col == [p \in DOMAIN u |-> IF p <= Len(r) THEN col[p] ELSE p - Len(r)]
<1>2. t \in Seq(T)
  OBVIOUS
<1> HIDE DEF t
<1>3. /\ u \in Seq(T) /\ Len(u) = Len(r) + Len(t)
      /\ DOMAIN u = 1..(Len(r) + Len(t)) /\ DOMAIN r = 1..Len(r) /\ DOMAIN t = 1..Len(t)
      /\ \A p \in DOMAIN u : u[p] = IF p <= Len(r) THEN r[p] ELSE t[p - Len(r)]
  BY <1>2
<1> HIDE DEF u
<1>4. Row \in [DOMAIN u -> 1..(n + 1)] /\ Col \in [DOMAIN u -> Nat]
  <2>1. ASSUME NEW p \in DOMAIN u, p <= Len(r) PROVE row[p] \in 1..(n + 1) /\ col[p] \in Nat
    <3>1. p \in DOMAIN r
      BY <1>3, <2>1
    <3>2. row[p] \in 1..n /\ col[p] \in Nat
      BY <1>1, <3>1 DEF ListedBy
    <3> QED
      BY <3>2
  <2>2. ASSUME NEW p \in DOMAIN u, ~ (p <= Len(r)) PROVE n + 1 \in 1..(n + 1) /\ p - Len(r) \in Nat
    BY <1>3, <2>2
  <2> QED
    BY <2>1, <2>2
<1>5. /\ \A p \in DOMAIN r : p \in DOMAIN u /\ Row[p] = row[p] /\ Col[p] = col[p] /\ u[p] = r[p]
      /\ \A j \in DOMAIN t : LET p == Len(r) + j IN
           p \in DOMAIN u /\ Row[p] = n + 1 /\ Col[p] = j /\ u[p] = t[j]
      /\ \A p \in DOMAIN u : p \in DOMAIN r \/ \E j \in DOMAIN t : p = Len(r) + j
  <2>1. ASSUME NEW p \in DOMAIN r
        PROVE  p \in DOMAIN u /\ Row[p] = row[p] /\ Col[p] = col[p] /\ u[p] = r[p]
    BY <1>3
  <2>2. ASSUME NEW j \in DOMAIN t
        PROVE  LET p == Len(r) + j IN p \in DOMAIN u /\ Row[p] = n + 1 /\ Col[p] = j /\ u[p] = t[j]
    BY <1>3
  <2>3. ASSUME NEW p \in DOMAIN u, p \notin DOMAIN r PROVE \E j \in DOMAIN t : p = Len(r) + j
    <3>1. p - Len(r) \in DOMAIN t /\ p = Len(r) + (p - Len(r))
      BY <1>3, <2>3
    <3> QED
      BY <3>1
  <2> QED
    BY <2>1, <2>2, <2>3
<1> HIDE DEF Row, Col
<1>6. \A p \in DOMAIN u : Col[p] \in DOMAIN s[Row[p]] /\ u[p] = s[Row[p]][Col[p]]
  <2>1. ASSUME NEW p \in DOMAIN r PROVE Col[p] \in DOMAIN s[Row[p]] /\ u[p] = s[Row[p]][Col[p]]
    <3>1. col[p] \in DOMAIN s[row[p]] /\ r[p] = s[row[p]][col[p]]
      BY <1>1 DEF ListedBy
    <3> QED
      BY <1>5, <3>1
  <2>2. ASSUME NEW j \in DOMAIN t, NEW p, p = Len(r) + j
        PROVE  Col[p] \in DOMAIN s[Row[p]] /\ u[p] = s[Row[p]][Col[p]]
    <3>1. Row[p] = n + 1 /\ Col[p] = j /\ u[p] = t[j]
      BY <1>5, <2>2
    <3> QED
      BY <3>1 DEF t
  <2> QED
    BY <1>5, <2>1, <2>2
<1>7. ASSUME NEW p \in DOMAIN u, NEW q \in DOMAIN u, p < q
      PROVE  Row[p] < Row[q] \/ (Row[p] = Row[q] /\ Col[p] < Col[q])
  <2>1. CASE q \in DOMAIN r
    <3>1. p \in DOMAIN r
      BY <1>3, <1>7, <2>1
    <3> QED
      BY <1>1, <1>5, <1>7, <2>1, <3>1 DEF ListedBy
  <2>2. CASE q \notin DOMAIN r
    <3>1. PICK j \in DOMAIN t : q = Len(r) + j
      BY <1>5, <2>2
    <3>2. Row[q] = n + 1 /\ Col[q] = j
      BY <1>5, <3>1
    <3>3. CASE p \in DOMAIN r
      <4>1. Row[p] \in 1..n
        BY <1>1, <1>5, <3>3 DEF ListedBy
      <4>2. Row[p] < n + 1
        BY <4>1
      <4>3. Row[p] < Row[q]
        BY <3>2, <4>1, <4>2
      <4> QED
        BY <4>3
    <3>4. CASE p \notin DOMAIN r
      <4>1. PICK i \in DOMAIN t : p = Len(r) + i
        BY <1>5, <3>4
      <4>2. Row[p] = n + 1 /\ Col[p] = i
        BY <1>5, <4>1
      <4>3. i < j
        BY <1>3, <1>7, <3>1, <4>1
      <4> QED
        BY <3>2, <4>2, <4>3
    <3> QED
      BY <3>3, <3>4
  <2> QED
    BY <2>1, <2>2
<1>8. ASSUME NEW i \in 1..(n + 1), NEW j \in DOMAIN s[i]
      PROVE  \E p \in DOMAIN u : Row[p] = i /\ Col[p] = j
  <2>1. CASE i = n + 1
    BY <1>5, <2>1 DEF t
  <2>2. CASE i \in 1..n
    <3>1. PICK p \in DOMAIN r : row[p] = i /\ col[p] = j
      BY <1>1, <2>2 DEF ListedBy
    <3> QED
      BY <1>5, <3>1
  <2> QED
    BY <2>1, <2>2
<1>9. ListedBy(u, s, n + 1, Row, Col)
  BY <1>4, <1>6, <1>7, <1>8 DEF ListedBy
<1> QED
  BY <1>9 DEF Lists, u, t

(* FlattenSeq lists the elements of all sequences.                         *)
LEMMA FlattenSeqLists ==
  ASSUME NEW T, NEW s \in Seq(Seq(T))
  PROVE  FlattenSeq(s) \in Seq(T) /\ Lists(FlattenSeq(s), s, Len(s))
<1> DEFINE Empty == [p \in {} |-> 0]
<1>1. Lists(<<>>, s, 0)
  <2>1. ListedBy(<<>>, s, 0, <<>>, <<>>)
    BY DEF ListedBy
  <2> QED
    BY <2>1 DEF Lists
<1>2. CASE s = <<>>
  <2>1. FlattenSeq(s) = <<>> /\ Len(s) = 0
    BY <1>2, Zenon DEF FlattenSeq
  <2> QED
    BY <1>1, <2>1
<1>3. CASE s # <<>>
  <2>1. PICK f : Partial(f, s) /\ FlattenSeq(s) = f[Len(s)]
    BY <1>3, FlattenSeqDef
  <2>2. \A i \in 1..Len(s) : f[i] = IF i = 1 THEN s[i] ELSE f[i - 1] \o s[i]
    BY <2>1 DEF Partial
  <2> DEFINE S == {n \in Nat : n \in 1..Len(s) => f[n] \in Seq(T) /\ Lists(f[n], s, n)}
  <2>3. ASSUME NEW n \in Nat, n \in S PROVE n + 1 \in S
    <3> SUFFICES ASSUME n + 1 \in 1..Len(s) PROVE f[n + 1] \in Seq(T) /\ Lists(f[n + 1], s, n + 1)
      OBVIOUS
    <3>1. s[n + 1] \in Seq(T) /\ n + 1 \in DOMAIN s
      OBVIOUS
    <3>2. CASE n = 0
      <4>1. f[n + 1] = s[n + 1]
        BY <2>2, <3>2
      <4>2. <<>> \o s[n + 1] = s[n + 1]
        BY <3>1
      <4>3. <<>> \in Seq(T)
        OBVIOUS
      <4>4. Lists(<<>> \o s[n + 1], s, n + 1)
        BY <1>1, <3>1, <3>2, <4>3, ListsNext
      <4> QED
        BY <3>1, <4>1, <4>2, <4>4
    <3>3. CASE n # 0
      <4>1. f[n + 1] = f[n] \o s[n + 1]
        <5> HIDE DEF S
        <5>1. n + 1 \in 1..Len(s) /\ n + 1 # 1 /\ (n + 1) - 1 = n
          BY <3>3
        <5> QED
          BY <2>2, <5>1
      <4>2. f[n] \in Seq(T) /\ Lists(f[n], s, n)
        BY <2>3, <3>3
      <4>3. Lists(f[n] \o s[n + 1], s, n + 1)
        BY <3>1, <4>2, ListsNext
      <4> QED
        BY <3>1, <4>1, <4>2, <4>3
    <3> QED
      BY <3>2, <3>3
  <2>4. 0 \in S
    OBVIOUS
  <2>5. Len(s) \in S
    <3> HIDE DEF S
    <3>1. Nat \subseteq S
      BY <2>3, <2>4, SetInduction
    <3> QED
      BY <3>1
  <2> QED
    BY <1>3, <2>1, <2>5
<1> QED
  BY <1>2, <1>3

-----------------------------------------------------------------------------
(* What flattenForward gives                                               *)

LEMMA FlattenNonempty ==
  ASSUME NEW T, NEW s \in Seq(Seq(T)), NEW i \in DOMAIN s, s[i] # <<>>
  PROVE  FlattenSeq(s) # <<>>
<1>1. PICK row, col : ListedBy(FlattenSeq(s), s, Len(s), row, col)
  BY FlattenSeqLists DEF Lists
<1>2. i \in 1..Len(s) /\ s[i] \in Seq(T) /\ 1 \in DOMAIN s[i]
  OBVIOUS
<1>3. PICK p \in DOMAIN FlattenSeq(s) : row[p] = i /\ col[p] = 1
  BY <1>1, <1>2 DEF ListedBy
<1> QED
  BY <1>3

Words == Seq(Nodes \cup {Broken}) \ {<<>>}
Depths == 0..(MaxForwardDepth + 1)

(* One level of Walk, over the level below.                                *)
Level(d, below) ==
  [n \in Nodes |->
     IF d > MaxForwardDepth THEN <<n>>
     ELSE IF Kind[n] = "unreadable" THEN <<Broken>>
     ELSE IF Kind[n] = "forward"
       THEN FlattenSeq([i \in DOMAIN Inner(n) |-> below[Inner(n)[i]]])
     ELSE <<n>>]

LEMMA LevelTyped ==
  ASSUME NEW d \in Depths, NEW below, d <= MaxForwardDepth => below \in [Nodes -> Words]
  PROVE  Level(d, below) \in [Nodes -> Words]
<1> SUFFICES ASSUME NEW n \in Nodes PROVE Level(d, below)[n] \in Words
  BY DEF Level
<1>1. <<n>> \in Words /\ <<Broken>> \in Words
  BY DEF Words
<1>2. CASE d > MaxForwardDepth
  BY <1>1, <1>2 DEF Level
<1>3. CASE ~ (d > MaxForwardDepth) /\ Kind[n] = "forward"
  <2> DEFINE s == [i \in DOMAIN Inner(n) |-> below[Inner(n)[i]]]
  <2>1. Inner(n) \in Seq(Nodes) /\ Inner(n) # <<>>
    BY ForwardAssumption DEF Inner
  <2>2. below \in [Nodes -> Words]
    BY <1>3, ForwardAssumption DEF Depths
  <2>3. s \in Seq(Seq(Nodes \cup {Broken}))
    <3>1. \A i \in 1..Len(Inner(n)) : below[Inner(n)[i]] \in Seq(Nodes \cup {Broken})
      BY <2>1, <2>2 DEF Words
    <3>2. DOMAIN Inner(n) = 1..Len(Inner(n)) /\ Len(Inner(n)) \in Nat
      BY <2>1
    <3> QED
      BY <3>1, <3>2
  <2>4. 1 \in DOMAIN s /\ s[1] # <<>>
    BY <2>1, <2>2 DEF Words
  <2> HIDE DEF s
  <2>5. FlattenSeq(s) \in Words
    BY <2>3, <2>4, FlattenNonempty, FlattenSeqLists DEF Words
  <2>6. Level(d, below)[n] = FlattenSeq(s)
    BY <1>3 DEF Level, s
  <2> QED
    BY <2>5, <2>6
<1>4. CASE ~ (d > MaxForwardDepth) /\ Kind[n] # "forward"
  BY <1>1, <1>4 DEF Level
<1> QED
  BY <1>2, <1>3, <1>4

IsWalk(f) == f = [d \in Depths |-> Level(d, f[d + 1])]

(* Walk is well defined: its levels can be made from the deepest upwards.  *)
LEMMA WalkExists == \E f : IsWalk(f)
<1> DEFINE M == MaxForwardDepth
           Upto(k) == \E f : /\ f = [d \in Depths |-> f[d]]
                             /\ \A d \in Depths : d + k > M => f[d] = Level(d, f[d + 1])
           S == {k \in Nat : Upto(k)}
<1>1. M \in Nat
  BY ForwardAssumption
<1>2. Upto(0)
  <2> DEFINE f == [d \in Depths |-> [n \in Nodes |-> <<n>>]]
  <2>1. ASSUME NEW d \in Depths, d + 0 > M PROVE f[d] = Level(d, f[d + 1])
    <3>1. d > MaxForwardDepth
      BY <1>1, <2>1 DEF Depths
    <3> QED
      BY <3>1 DEF Level
  <2> QED
    BY <2>1
<1>3. ASSUME NEW k \in Nat, Upto(k) PROVE Upto(k + 1)
  <2>1. PICK f : /\ f = [d \in Depths |-> f[d]]
                 /\ \A d \in Depths : d + k > M => f[d] = Level(d, f[d + 1])
    BY <1>3
  <2> DEFINE e == M - k
             g == [d \in Depths |-> IF d = e THEN Level(e, f[e + 1]) ELSE f[d]]
  <2>2. g = [d \in Depths |-> g[d]]
    OBVIOUS
  <2>3. ASSUME NEW d \in Depths, d + (k + 1) > M PROVE g[d] = Level(d, g[d + 1])
    <3>1. d \in Nat /\ (d + k > M \/ d = e)
      BY <1>1, <2>3 DEF Depths
    <3>2. CASE d = e
      <4>1. d + 1 \in Depths /\ d + 1 # e
        BY <1>1, <3>1, <3>2 DEF Depths
      <4>2. g[d] = Level(d, f[d + 1]) /\ g[d + 1] = f[d + 1]
        BY <3>2, <4>1
      <4> QED
        BY <4>2
    <3>3. CASE d # e
      <4>1. d + k > M /\ d + 1 # e
        BY <1>1, <3>1, <3>3
      <4>2. g[d] = Level(d, f[d + 1])
        BY <2>1, <3>3, <4>1
      <4>3. CASE d + 1 \in Depths
        <5>1. g[d + 1] = f[d + 1]
          BY <4>1, <4>3
        <5> QED
          BY <4>2, <5>1
      <4>4. CASE d + 1 \notin Depths
        <5>1. d > MaxForwardDepth
          BY <1>1, <3>1, <4>4 DEF Depths
        <5>2. Level(d, f[d + 1]) = Level(d, g[d + 1])
          BY <5>1 DEF Level
        <5> QED
          BY <4>2, <5>2
      <4> QED
        BY <4>3, <4>4
    <3> QED
      BY <3>2, <3>3
  <2> HIDE DEF g
  <2> QED
    BY <2>2, <2>3
<1> HIDE DEF Upto
<1>4. M + 1 \in S
  <2>1. 0 \in S /\ \A k \in Nat : k \in S => k + 1 \in S
    BY <1>2, <1>3
  <2> HIDE DEF S
  <2>2. Nat \subseteq S
    BY <2>1, SetInduction
  <2> QED
    BY <1>1, <2>2
<1>5. PICK f : /\ f = [d \in Depths |-> f[d]]
               /\ \A d \in Depths : d + (M + 1) > M => f[d] = Level(d, f[d + 1])
  BY <1>4 DEF Upto
<1>6. ASSUME NEW d \in Depths PROVE f[d] = Level(d, f[d + 1])
  <2>1. d + (M + 1) > M
    BY <1>1 DEF Depths
  <2> QED
    BY <1>5, <2>1
<1>7. IsWalk(f)
  BY <1>5, <1>6, Zenon DEF IsWalk
<1> QED
  BY <1>7

LEMMA WalkDef == IsWalk(Walk)
  BY WalkExists, Zenon DEF IsWalk, Level, Depths, Walk

(* Whatever is nested in a message, it becomes one message or more.        *)
LEMMA WalkTyped == \A d \in Depths : Walk[d] \in [Nodes -> Words]
<1> DEFINE M == MaxForwardDepth
           S == {k \in Nat : \A d \in Depths : d + k > M => Walk[d] \in [Nodes -> Words]}
<1>1. M \in Nat
  BY ForwardAssumption
<1>2. \A d \in Depths : Walk[d] = Level(d, Walk[d + 1])
  BY WalkDef DEF IsWalk
<1>3. 0 \in S
  <2>1. ASSUME NEW d \in Depths, d + 0 > M PROVE Walk[d] \in [Nodes -> Words]
    <3>1. ~ (d <= MaxForwardDepth)
      BY <1>1, <2>1 DEF Depths
    <3> QED
      BY <1>2, <3>1, LevelTyped
  <2> QED
    BY <2>1
<1>4. ASSUME NEW k \in Nat, k \in S PROVE k + 1 \in S
  <2>1. ASSUME NEW d \in Depths, d + (k + 1) > M PROVE Walk[d] \in [Nodes -> Words]
    <3>1. d <= MaxForwardDepth => Walk[d + 1] \in [Nodes -> Words]
      <4>1. ASSUME d <= MaxForwardDepth PROVE d + 1 \in Depths /\ (d + 1) + k > M
        BY <1>1, <2>1, <4>1 DEF Depths
      <4> QED
        BY <1>4, <4>1
    <3> QED
      BY <1>2, <3>1, LevelTyped
  <2> QED
    BY <2>1
<1>5. M + 1 \in S
  <2> HIDE DEF S
  <2>1. Nat \subseteq S
    BY <1>3, <1>4, SetInduction
  <2> QED
    BY <1>1, <2>1
<1> QED
  BY <1>1, <1>5 DEF Depths

(* A forward that holds something is flattened to something.               *)
LEMMA FlattenTyped ==
  ASSUME NEW ns \in Contents
  PROVE  /\ Flatten(ns) # <<>>
         /\ Broken \notin ToSet(Flatten(ns)) => Flatten(ns) \in Seq(Nodes)
<1> DEFINE s == [i \in DOMAIN ns |-> Walk[0][ns[i]]]
<1>1. ns \in Seq(Nodes) /\ ns # <<>>
  BY ForwardAssumption
<1>2. Walk[0] \in [Nodes -> Words]
  BY WalkTyped, ForwardAssumption DEF Depths
<1>3. s \in Seq(Seq(Nodes \cup {Broken}))
  <2>1. \A i \in 1..Len(ns) : Walk[0][ns[i]] \in Seq(Nodes \cup {Broken})
    BY <1>1, <1>2 DEF Words
  <2>2. DOMAIN ns = 1..Len(ns) /\ Len(ns) \in Nat
    BY <1>1
  <2> QED
    BY <2>1, <2>2
<1>4. 1 \in DOMAIN s /\ s[1] # <<>>
  BY <1>1, <1>2 DEF Words
<1> HIDE DEF s
<1>5. FlattenSeq(s) \in Seq(Nodes \cup {Broken}) /\ FlattenSeq(s) # <<>>
  BY <1>3, <1>4, FlattenNonempty, FlattenSeqLists
<1>6. Flatten(ns) = FlattenSeq(s)
  BY DEF Flatten, s
<1>7. ASSUME Broken \notin ToSet(FlattenSeq(s)) PROVE FlattenSeq(s) \in Seq(Nodes)
  <2>1. \A i \in 1..Len(FlattenSeq(s)) : FlattenSeq(s)[i] \in Nodes
    BY <1>5, <1>7 DEF ToSet
  <2> QED
    BY <1>5, <2>1
<1> QED
  BY <1>5, <1>6, <1>7

-----------------------------------------------------------------------------
(* The inductive invariant of ForwardMessage                               *)

(* Where OnebotToMatrix is, and what it has in hand there.                 *)
ControlInv ==
  /\ flat # <<>> <=> pc = "workers"
  /\ pc = "fetch" => attempt <= 2
  /\ pc = "flatten" => data # <<>>
  /\ pc \in {"fetch", "inline", "flatten", "workers"} \/ converted # <<>> => msg.readable
  /\ handled <=> converted # <<>>
  /\ converted = <<>> /\ pc # "save" => parts = <<>>
  /\ pc = "save" => parts # <<>>

(* The goroutines of the forward at hand, whose root is the latest.        *)
WorkerInv ==
  pc = "workers" =>
    /\ root \in DOMAIN room /\ room[root] = "root"
    /\ \A k \in DOMAIN converted : converted[k].root < root
    /\ \A i \in DOMAIN worker :
         worker[i] = "finished" /\ ~ firstErr => results[i] = ItemParts(flat[i], i)

(* Every part belongs to a message of a converted forward ...              *)
BelongsTo(part, c) ==
  /\ part.thread = c.root /\ part.item \in DOMAIN c.flat
  /\ part.id \in ToSet(ItemIDs(c.flat[part.item], part.item))

(* ... and comes after the parts before it.                                *)
Before(part, next) ==
  \/ part.thread < next.thread
  \/ part.thread = next.thread /\ part.item < next.item
  \/ part.thread = next.thread /\ part.item = next.item /\ part.id # next.id

PartsInv ==
  converted # <<>> =>
    /\ \A p \in DOMAIN parts : \E k \in DOMAIN converted : BelongsTo(parts[p], converted[k])
    /\ \A p, q \in DOMAIN parts : p < q => Before(parts[p], parts[q])
    /\ \A k \in DOMAIN converted : \A i \in DOMAIN converted[k].flat :
         \E p \in DOMAIN parts : parts[p].thread = converted[k].root /\ parts[p].item = i

RootsInv ==
  \A k \in DOMAIN converted :
    /\ converted[k].root \in DOMAIN room /\ room[converted[k].root] = "root"
    /\ converted[k].flat # <<>>

(* The room holds the roots first.  Their rows have one ID; with one root  *)
(* and distinct parts every event has its row unless the database failed.  *)
OneRoot == /\ room # <<>> /\ room[1] = "root"
           /\ \A e \in 2..Len(room) : room[e] = "part"
OneShare == \A p, q \in DOMAIN parts : parts[p].id = <<>> /\ parts[q].id = <<>> => p = q

RoomInv ==
  /\ \A e, f \in DOMAIN room : e < f /\ room[f] = "root" => room[e] = "root"
  /\ pc # "save" =>
       /\ \A e \in DOMAIN room : room[e] = "root"
       /\ Len(room) <= 1 => rows = {RootRow(e) : e \in DOMAIN room \ failed}
  /\ pc = "save" /\ OneRoot /\ Len(converted) = 1 /\ OneShare =>
       /\ Len(room) - 1 <= Len(parts)
       /\ rows = {RootRow(e) : e \in {1} \ failed}
                   \cup {[id |-> parts[e - 1].id, event |-> e] : e \in (2..Len(room)) \ failed}

IInv == TypeOK /\ ControlInv /\ WorkerInv /\ PartsInv /\ RootsInv /\ RoomInv
-----------------------------------------------------------------------------
(* Parts, and the slots of the semaphore                                   *)

Statuses == {"waiting", "converting", "finished"}
RowRecord == [id: Seq(Nat), event: Nat]

(* The part IDs of one message: there are some, each another one.          *)
LEMMA ItemIDsTyped ==
  ASSUME NEW n \in Nodes, NEW i \in Nat \ {0}
  PROVE  /\ ItemIDs(n, i) \in Seq(Seq(Nat)) /\ ItemIDs(n, i) # <<>>
         /\ <<0>> \notin ToSet(ItemIDs(n, i))
         /\ \A c, d \in DOMAIN ItemIDs(n, i) : c # d => ItemIDs(n, i)[c] # ItemIDs(n, i)[d]
<1>1. /\ <<0, i - 1>> \in Seq(Nat) /\ <<0, i - 1, 0>> \in Seq(Nat) /\ <<0, i - 1, 1>> \in Seq(Nat)
      /\ <<>> \in Seq(Nat)
  OBVIOUS
<1>2. /\ <<0>> # <<0, i - 1>> /\ <<0>> # <<>>
      /\ <<0>> # <<0, i - 1, 0>> /\ <<0>> # <<0, i - 1, 1>>
      /\ <<0, i - 1, 0>> # <<0, i - 1, 1>>
  OBVIOUS
<1>3. CASE Kind[n] = "file"
  <2>1. ItemIDs(n, i) = <<<<0, i - 1, 0>>, <<0, i - 1, 1>>>>
    BY <1>3 DEF ItemIDs
  <2> QED
    BY <1>1, <1>2, <2>1 DEF ToSet
<1>4. CASE Kind[n] = "share"
  <2>1. ItemIDs(n, i) = <<<<>>>>
    BY <1>4 DEF ItemIDs
  <2> QED
    BY <1>1, <1>2, <2>1 DEF ToSet
<1>5. CASE Kind[n] \notin {"file", "share"}
  <2>1. ItemIDs(n, i) = <<<<0, i - 1>>>>
    BY <1>5 DEF ItemIDs
  <2> QED
    BY <1>1, <1>2, <2>1 DEF ToSet
<1> QED
  BY <1>3, <1>4, <1>5

(* Two messages have a part ID in common only if both are shares.          *)
LEMMA ItemIDsApart ==
  ASSUME NEW n \in Nodes, NEW m \in Nodes, NEW i \in Nat \ {0}, NEW j \in Nat \ {0}, i # j,
         NEW x \in ToSet(ItemIDs(n, i)), x \in ToSet(ItemIDs(m, j))
  PROVE  x = <<>>
<1>1. ASSUME NEW l \in Nodes, NEW k \in Nat \ {0}, x \in ToSet(ItemIDs(l, k)), x # <<>>
      PROVE  x[2] = k - 1
  <2>1. \/ ItemIDs(l, k) = <<<<0, k - 1, 0>>, <<0, k - 1, 1>>>>
        \/ ItemIDs(l, k) = <<<<>>>>
        \/ ItemIDs(l, k) = <<<<0, k - 1>>>>
    BY DEF ItemIDs
  <2>2. x \in {<<0, k - 1, 0>>, <<0, k - 1, 1>>, <<>>, <<0, k - 1>>}
    BY <1>1, <2>1 DEF ToSet
  <2> QED
    BY <1>1, <2>2
<1> QED
  BY <1>1

LEMMA ItemPartsTyped ==
  ASSUME NEW n \in Nodes, NEW i \in Nat \ {0}, root \in Nat
  PROVE  /\ ItemParts(n, i) \in Seq(PartRecord)
         /\ DOMAIN ItemParts(n, i) = DOMAIN ItemIDs(n, i)
         /\ \A j \in DOMAIN ItemIDs(n, i) :
              ItemParts(n, i)[j] = [id |-> ItemIDs(n, i)[j], item |-> i, thread |-> root]
<1> DEFINE ids == ItemIDs(n, i)
<1>1. ids \in Seq(Seq(Nat))
  BY ItemIDsTyped
<1> HIDE DEF ids
<1>2. \A j \in 1..Len(ids) : [id |-> ids[j], item |-> i, thread |-> root] \in PartRecord
  BY <1>1 DEF PartRecord
<1>3. [j \in DOMAIN ids |-> [id |-> ids[j], item |-> i, thread |-> root]] \in Seq(PartRecord)
  <2>1. DOMAIN ids = 1..Len(ids) /\ Len(ids) \in Nat
    BY <1>1
  <2>2. [j \in 1..Len(ids) |-> [id |-> ids[j], item |-> i, thread |-> root]]
          \in [1..Len(ids) -> PartRecord]
    BY <1>2
  <2> DEFINE t == [j \in 1..Len(ids) |-> [id |-> ids[j], item |-> i, thread |-> root]]
  <2> HIDE DEF t
  <2>3. t \in Seq(PartRecord)
    BY <2>1, <2>2, SeqDef DEF t
  <2> QED
    BY <2>1, <2>3 DEF t
<1> QED
  BY <1>3 DEF ItemParts, Part, ids

LEMMA OnePartTyped == <<Part(<<0>>, 0, 0)>> \in Seq(PartRecord) /\ <<Part(<<0>>, 0, 0)>> # <<>>
<1>1. <<0>> \in Seq(Nat)
  OBVIOUS
<1>2. Part(<<0>>, 0, 0) \in PartRecord
  BY <1>1 DEF Part, PartRecord
<1> QED
  BY <1>2

(* The goroutines that hold a slot.                                        *)
Converting == {i \in DOMAIN worker : worker[i] = "converting"}

LEMMA ConvertingFinite ==
  TypeOK => IsFiniteSet(Converting) /\ DOMAIN worker = DOMAIN flat /\ DOMAIN flat = 1..Len(flat)
<1> SUFFICES ASSUME TypeOK
             PROVE  /\ IsFiniteSet(Converting)
                    /\ DOMAIN worker = DOMAIN flat /\ DOMAIN flat = 1..Len(flat)
  OBVIOUS
<1>1. DOMAIN worker = DOMAIN flat /\ DOMAIN flat = 1..Len(flat) /\ Len(flat) \in Nat
  BY DEF TypeOK
<1>2. IsFiniteSet(1..Len(flat))
  BY <1>1, FS_Interval
<1>3. Converting \in SUBSET (1..Len(flat))
  BY <1>1 DEF Converting
<1>4. IsFiniteSet(Converting)
  BY <1>2, <1>3, FS_Subset
<1> QED
  BY <1>1, <1>4

(* No goroutine, no slot.                                                  *)
LEMMA NoneConverting == TypeOK /\ flat = <<>> => sem = 0
<1> SUFFICES ASSUME TypeOK, flat = <<>> PROVE sem = 0
  OBVIOUS
<1>1. Converting = {}
  BY DEF TypeOK, Converting
<1> QED
  BY <1>1, FS_EmptySet DEF TypeOK, Converting

LEMMA SavedTyped == TypeOK => Saved \in Nat
<1> SUFFICES ASSUME TypeOK PROVE Saved \in Nat
  OBVIOUS
<1> DEFINE P == {e \in DOMAIN room : room[e] = "part"}
<1>1. DOMAIN room = 1..Len(room) /\ Len(room) \in Nat
  BY DEF TypeOK
<1>2. IsFiniteSet(1..Len(room)) /\ P \in SUBSET (1..Len(room))
  BY <1>1, FS_Interval
<1>3. Cardinality(P) \in Nat
  BY <1>2, FS_Subset, FS_CardinalityType
<1> QED
  BY <1>3 DEF Saved

-----------------------------------------------------------------------------
(* Every step keeps the types                                              *)

MsgTyped ==
  /\ msg \in Inputs
  /\ pc \in {"segments", "fetch", "inline", "flatten", "workers", "save", "crashed"}
  /\ seg \in 0..Len(msg.segments) /\ attempt \in 0..3

ForwardTyped ==
  /\ data \in Contents \cup {<<>>} /\ flat \in Seq(Nodes)
  /\ root \in 0..Len(room)
  /\ worker \in [DOMAIN flat -> Statuses]
  /\ sem \in 0..Concurrency /\ sem = Cardinality(Converting)
  /\ results \in [DOMAIN flat -> Seq(PartRecord)] /\ firstErr \in BOOLEAN

OutputTyped ==
  /\ parts \in Seq(PartRecord) /\ handled \in BOOLEAN
  /\ converted \in Seq([root: Nat, flat: Seq(Nodes)])
  /\ room \in Seq({"root", "part"})
  /\ rows \subseteq [id: Seq(Nat), event: DOMAIN room] /\ failed \subseteq DOMAIN room

LEMMA TypeOKParts == TypeOK <=> MsgTyped /\ ForwardTyped /\ OutputTyped
  BY Zenon DEF TypeOK, MsgTyped, ForwardTyped, OutputTyped, Converting, Statuses

LEMMA InitTypeOK == Init => TypeOK
<1> SUFFICES ASSUME Init PROVE TypeOK
  OBVIOUS
<1>1. MsgTyped
  <2>1. msg.segments \in Seq({"other", "forward"})
    BY ForwardAssumption DEF Init
  <2> QED
    BY <2>1 DEF Init, MsgTyped
<1>2. ForwardTyped
  <2>1. Converting = {}
    BY DEF Init, NoForward, Converting
  <2>2. Cardinality(Converting) = 0
    BY <2>1, FS_EmptySet
  <2>3. room = <<>> /\ firstErr \in BOOLEAN
    BY Zenon DEF Init, NoForward
  <2> QED
    BY <2>2, <2>3, ForwardAssumption DEF Init, NoForward, ForwardTyped
<1>3. OutputTyped
  <2>1. handled \in BOOLEAN
    BY Zenon DEF Init
  <2> QED
    BY <2>1 DEF Init, OutputTyped
<1> QED
  BY <1>1, <1>2, <1>3, TypeOKParts

LEMMA ForgetTyped == OutputTyped' /\ ForgetForward => ForwardTyped'
<1> SUFFICES ASSUME OutputTyped', ForgetForward PROVE ForwardTyped'
  OBVIOUS
<1>1. Converting' = {}
  BY DEF ForgetForward, Converting
<1>2. Cardinality(Converting') = 0
  BY <1>1, FS_EmptySet
<1>3. firstErr' \in BOOLEAN
  BY Zenon DEF ForgetForward
<1>4. Len(room') \in Nat
  BY DEF OutputTyped
<1>5. Cardinality(Converting)' = 0
  BY <1>2
<1> QED
  BY <1>3, <1>4, <1>5, ForwardAssumption DEF ForgetForward, ForwardTyped

LEMMA NextMsgTyped == TypeOK /\ ControlInv /\ Next => MsgTyped'
<1> SUFFICES ASSUME TypeOK, ControlInv, Next PROVE MsgTyped'
  OBVIOUS
<1>1. msg' = msg
  BY DEF Next, Segments, Download, Root, AfterWait, Worker, Unreadable, OtherSegment,
         ForwardSegment, Return, Fetched, FetchFails, UseInline, FlattenFails, SendRoot,
         SendRootFails, ForwardFails, Merge, SavePart, Acquire, Convert, ConvertFails,
         ConvertPanics
<1>2. pc' \in {"segments", "fetch", "inline", "flatten", "workers", "save", "crashed"}
  BY DEF TypeOK, Next, Segments, Download, Root, AfterWait, Worker, Unreadable, OtherSegment,
         ForwardSegment, Return, Fetched, FetchFails, UseInline, FlattenFails, SendRoot,
         SendRootFails, ForwardFails, Merge, SavePart, Acquire, Convert, ConvertFails,
         ConvertPanics
<1>3. seg' \in 0..Len(msg.segments)
  <2>1. Len(msg.segments) \in Nat /\ seg \in 0..Len(msg.segments)
    BY ForwardAssumption DEF TypeOK
  <2>2. seg' = seg \/ (seg' = seg + 1 /\ seg < Len(msg.segments))
    BY DEF Next, Segments, Download, Root, AfterWait, Worker, Unreadable, OtherSegment,
           ForwardSegment, Return, Fetched, FetchFails, UseInline, FlattenFails, SendRoot,
           SendRootFails, ForwardFails, Merge, SavePart, Acquire, Convert, ConvertFails,
           ConvertPanics
  <2> QED
    BY <2>1, <2>2
<1>4. attempt' \in 0..3
  <2>1. attempt' = attempt \/ attempt' = 0 \/ (pc = "fetch" /\ attempt' = attempt + 1)
    BY DEF Next, Segments, Download, Root, AfterWait, Worker, Unreadable, OtherSegment,
           ForwardSegment, Return, Fetched, FetchFails, UseInline, FlattenFails, SendRoot,
           SendRootFails, ForwardFails, Merge, SavePart, Acquire, Convert, ConvertFails,
           ConvertPanics
  <2> QED
    BY <2>1 DEF TypeOK, ControlInv
<1> QED
  BY <1>1, <1>2, <1>3, <1>4 DEF MsgTyped, TypeOK

(* Insert adds the row or nothing, or the event to those that failed.      *)
LEMMA InsertAdds ==
  \A row : Insert(row) => /\ rows' \subseteq rows \cup {row}
                          /\ failed' \subseteq failed \cup {row.event}
  BY DEF Insert

LEMMA NextOutputTyped == TypeOK /\ ControlInv /\ Next => OutputTyped'
<1> SUFFICES ASSUME TypeOK, ControlInv, Next PROVE OutputTyped'
  OBVIOUS
<1>0. OutputTyped /\ ForwardTyped
  BY TypeOKParts
<1>1. CASE Unreadable \/ Return
  <2>1. parts' \in Seq(PartRecord) /\ UNCHANGED <<handled, converted, room, rows, failed>>
    BY <1>0, <1>1, OnePartTyped DEF Unreadable, Return, OutputTyped
  <2> QED
    BY <1>0, <2>1 DEF OutputTyped
<1>2. CASE FlattenFails
  <2>1. handled' \in BOOLEAN
    BY <1>2, Zenon DEF FlattenFails
  <2> QED
    BY <1>0, <1>2, <2>1 DEF FlattenFails, OutputTyped
<1>3. CASE SendRoot
  <2>1. room' = Append(room, "root") /\ root' = Len(room) + 1 /\ Len(room) \in Nat
        /\ UNCHANGED <<parts, handled, converted>>
    BY <1>0, <1>3 DEF SendRoot, OutputTyped
  <2>2. room' \in Seq({"root", "part"}) /\ DOMAIN room' = 1..(Len(room) + 1)
        /\ DOMAIN room = 1..Len(room)
    BY <1>0, <2>1 DEF OutputTyped
  <2>3. rows' \subseteq rows \cup {RootRow(root')} /\ failed' \subseteq failed \cup {root'}
    BY <1>3, InsertAdds DEF SendRoot, RootRow
  <2>4. <<0>> \in Seq(Nat) /\ root' \in DOMAIN room' /\ DOMAIN room \subseteq DOMAIN room'
    BY <2>1, <2>2
  <2>5. RootRow(root') \in [id: Seq(Nat), event: DOMAIN room']
    BY <2>4 DEF RootRow
  <2>6. rows \subseteq [id: Seq(Nat), event: DOMAIN room']
    BY <1>0, <2>4 DEF OutputTyped
  <2>7. rows' \subseteq [id: Seq(Nat), event: DOMAIN room']
    BY <2>3, <2>5, <2>6
  <2>8. failed' \subseteq DOMAIN room'
    BY <1>0, <2>3, <2>4 DEF OutputTyped
  <2> QED
    BY <1>0, <2>1, <2>2, <2>7, <2>8 DEF OutputTyped
<1>4. CASE Merge
  <2>1. results \in Seq(Seq(PartRecord))
    BY <1>0 DEF ForwardTyped
  <2>2. FlattenSeq(results) \in Seq(PartRecord)
    BY <2>1, FlattenSeqLists
  <2>3. parts' \in Seq(PartRecord)
    BY <1>0, <1>4, <2>2 DEF Merge, OutputTyped
  <2>4. [root |-> root, flat |-> flat] \in [root: Nat, flat: Seq(Nodes)]
    <3>1. root \in Nat /\ flat \in Seq(Nodes)
      BY <1>0 DEF ForwardTyped, OutputTyped
    <3> QED
      BY <3>1
  <2>5. converted' \in Seq([root: Nat, flat: Seq(Nodes)])
    BY <1>0, <1>4, <2>4 DEF Merge, OutputTyped
  <2>6. handled' \in BOOLEAN
    BY <1>4, Zenon DEF Merge
  <2> QED
    BY <1>0, <1>4, <2>3, <2>5, <2>6 DEF Merge, OutputTyped
<1>5. CASE SavePart
  <2> DEFINE row == [id |-> parts[Saved + 1].id, event |-> Len(room')]
  <2>1. room' = Append(room, "part") /\ Len(room) \in Nat /\ UNCHANGED <<parts, handled, converted>>
    BY <1>0, <1>5 DEF SavePart, OutputTyped
  <2>2. room' \in Seq({"root", "part"}) /\ DOMAIN room' = 1..(Len(room) + 1)
        /\ DOMAIN room = 1..Len(room) /\ Len(room') = Len(room) + 1
    BY <1>0, <2>1 DEF OutputTyped
  <2>3. rows' \subseteq rows \cup {row} /\ failed' \subseteq failed \cup {Len(room')}
    BY <1>5, InsertAdds DEF SavePart
  <2>4. parts[Saved + 1] \in PartRecord
    <3>1. Saved \in Nat /\ Saved < Len(parts)
      BY <1>5, SavedTyped DEF SavePart
    <3> QED
      BY <1>0, <3>1 DEF OutputTyped
  <2>5. row \in [id: Seq(Nat), event: DOMAIN room']
    BY <2>1, <2>2, <2>4 DEF PartRecord
  <2>6. rows \subseteq [id: Seq(Nat), event: DOMAIN room']
    <3>1. DOMAIN room \subseteq DOMAIN room'
      BY <2>1, <2>2
    <3> QED
      BY <1>0, <3>1 DEF OutputTyped
  <2> HIDE DEF row
  <2>7. rows' \subseteq [id: Seq(Nat), event: DOMAIN room']
    BY <2>3, <2>5, <2>6
  <2>8. failed' \subseteq DOMAIN room'
    BY <1>0, <2>2, <2>3 DEF OutputTyped
  <2> QED
    BY <1>0, <2>1, <2>2, <2>7, <2>8 DEF OutputTyped
<1>6. CASE UNCHANGED <<parts, handled, converted, room, rows, failed>>
  BY <1>0, <1>6 DEF OutputTyped
<1> QED
  BY <1>1, <1>2, <1>3, <1>4, <1>5, <1>6
  DEF Next, Segments, Download, Root, AfterWait, Worker, OtherSegment, ForwardSegment, Fetched,
      FetchFails, UseInline, SendRootFails, ForwardFails, Acquire, Convert, ConvertFails,
      ConvertPanics

LEMMA NextForwardTyped == TypeOK /\ ControlInv /\ OutputTyped' /\ Next => ForwardTyped'
<1> SUFFICES ASSUME TypeOK, ControlInv, OutputTyped', Next PROVE ForwardTyped'
  OBVIOUS
<1>0. ForwardTyped /\ OutputTyped /\ Concurrency \in Nat
  BY TypeOKParts, ForwardAssumption
<1>1. CASE \/ FlattenFails \/ SendRootFails \/ ForwardFails \/ Merge
           \/ \E i \in DOMAIN worker : ConvertPanics(i)
  <2>1. ForgetForward
    BY <1>1 DEF FlattenFails, SendRootFails, ForwardFails, Merge, ConvertPanics
  <2> QED
    BY <2>1, ForgetTyped
<1>2. CASE Fetched \/ UseInline
  <2>1. data' \in Contents \cup {<<>>}
    BY <1>2 DEF Fetched, UseInline
  <2>2. UNCHANGED <<flat, root, worker, sem, results, firstErr, room>>
    BY <1>2 DEF Fetched, UseInline
  <2> QED
    BY <1>0, <2>1, <2>2 DEF ForwardTyped, Converting
<1>3. CASE SendRoot
  <2>1. data \in Contents
    BY <1>0, <1>3 DEF SendRoot, ControlInv, ForwardTyped
  <2>2. flat' \in Seq(Nodes)
    BY <1>3, <2>1, FlattenTyped DEF SendRoot
  <2>3. root' \in 0..Len(room')
    BY <1>3 DEF SendRoot, OutputTyped
  <2>4. worker' \in [DOMAIN flat' -> Statuses] /\ results' \in [DOMAIN flat' -> Seq(PartRecord)]
    BY <1>3 DEF SendRoot, Statuses
  <2>5. Cardinality(Converting)' = 0
    <3>1. Converting' = {}
      BY <1>3 DEF SendRoot, Converting
    <3> QED
      BY <3>1, FS_EmptySet
  <2>6. sem' = 0
    <3>1. flat = <<>>
      BY <1>3 DEF SendRoot, ControlInv
    <3> QED
      BY <1>3, <3>1, NoneConverting DEF SendRoot
  <2>7. data' = data /\ firstErr' = firstErr
    BY <1>3 DEF SendRoot
  <2> QED
    BY <1>0, <2>2, <2>3, <2>4, <2>5, <2>6, <2>7 DEF ForwardTyped
<1>4. ASSUME NEW i \in DOMAIN worker, Acquire(i) PROVE ForwardTyped'
  <2>1. worker' \in [DOMAIN flat -> Statuses]
    BY <1>0, <1>4 DEF Acquire, ForwardTyped, Statuses
  <2>2. Converting' = Converting \cup {i} /\ i \notin Converting
    BY <1>0, <1>4 DEF Acquire, Converting, ForwardTyped
  <2>3. Cardinality(Converting') = Cardinality(Converting) + 1
    BY <2>2, ConvertingFinite, FS_AddElement
  <2>4. Cardinality(Converting)' = sem + 1 /\ sem' = sem + 1 /\ sem < Concurrency
    BY <1>0, <1>4, <2>3 DEF Acquire, ForwardTyped
  <2>5. UNCHANGED <<data, flat, root, results, firstErr, room>>
    BY <1>4 DEF Acquire
  <2>6. sem' \in 0..Concurrency
    BY <1>0, <2>4 DEF ForwardTyped
  <2> QED
    BY <1>0, <2>1, <2>4, <2>5, <2>6 DEF ForwardTyped
<1>5. ASSUME NEW i \in DOMAIN worker, Convert(i) \/ ConvertFails(i) PROVE ForwardTyped'
  <2>1. worker' = [worker EXCEPT ![i] = "finished"] /\ worker[i] = "converting" /\ sem' = sem - 1
        /\ UNCHANGED <<data, flat, root, room>>
    BY <1>5 DEF Convert, ConvertFails
  <2>2. worker' \in [DOMAIN flat -> Statuses]
    BY <1>0, <2>1 DEF ForwardTyped, Statuses
  <2>3. Converting' = Converting \ {i} /\ i \in Converting
    BY <1>0, <2>1 DEF Converting, ForwardTyped
  <2>4. Cardinality(Converting') = Cardinality(Converting) - 1
    BY <2>3, ConvertingFinite, FS_RemoveElement
  <2>5. Cardinality(Converting) # 0
    BY <2>3, ConvertingFinite, FS_EmptySet
  <2>6. Cardinality(Converting)' = sem - 1 /\ sem - 1 \in 0..Concurrency
    BY <1>0, <2>4, <2>5 DEF ForwardTyped
  <2>7. results' \in [DOMAIN flat -> Seq(PartRecord)]
    <3>1. CASE Convert(i)
      <4>1. i \in Nat \ {0} /\ flat[i] \in Nodes /\ root \in Nat
        BY <1>0, ConvertingFinite DEF ForwardTyped, OutputTyped
      <4>2. ItemParts(flat[i], i) \in Seq(PartRecord)
        BY <4>1, ItemPartsTyped
      <4> QED
        BY <1>0, <3>1, <4>2 DEF Convert, StoreResult, ForwardTyped
    <3>2. CASE ConvertFails(i)
      BY <1>0, <3>2 DEF ConvertFails, ForwardTyped
    <3> QED
      BY <1>5, <3>1, <3>2
  <2>8. firstErr' \in BOOLEAN
    BY <1>0, <1>5, Zenon DEF Convert, ConvertFails, ForwardTyped
  <2> QED
    BY <1>0, <2>1, <2>2, <2>6, <2>7, <2>8 DEF ForwardTyped
<1>6. CASE SavePart
  <2>1. Len(room') = Len(room) + 1
    BY <1>0, <1>6 DEF SavePart, OutputTyped
  <2>2. UNCHANGED forwardVars
    BY <1>6 DEF SavePart
  <2>3. root \in 0..Len(room')
    BY <1>0, <2>1 DEF ForwardTyped, OutputTyped
  <2> QED
    BY <1>0, <2>2, <2>3 DEF ForwardTyped, forwardVars, Converting
<1>7. CASE UNCHANGED <<forwardVars, room>>
  BY <1>0, <1>7 DEF ForwardTyped, forwardVars, Converting
<1> QED
  BY <1>1, <1>2, <1>3, <1>4, <1>5, <1>6, <1>7
  DEF Next, Segments, Download, Root, AfterWait, Worker, Unreadable, OtherSegment,
      ForwardSegment, Return, FetchFails

LEMMA NextTypeOK == TypeOK /\ ControlInv /\ [Next]_vars => TypeOK'
<1> SUFFICES ASSUME TypeOK, ControlInv, [Next]_vars PROVE TypeOK'
  OBVIOUS
<1>1. CASE Next
  <2>1. MsgTyped' /\ OutputTyped'
    BY <1>1, NextMsgTyped, NextOutputTyped
  <2>2. ForwardTyped'
    BY <1>1, <2>1, NextForwardTyped
  <2>3. TypeOK' <=> MsgTyped' /\ ForwardTyped' /\ OutputTyped'
    BY TypeOKParts, PTL
  <2> QED
    BY <2>1, <2>2, <2>3
<1>2. CASE UNCHANGED vars
  BY <1>2 DEF vars, forwardVars, TypeOK
<1> QED
  BY <1>1, <1>2

-----------------------------------------------------------------------------
(* Every step keeps the other parts                                        *)

LEMMA InitInv == Init => IInv
<1> SUFFICES ASSUME Init PROVE IInv
  OBVIOUS
<1>1. TypeOK
  BY InitTypeOK
<1>2. pc = "segments" /\ flat = <<>> /\ parts = <<>> /\ handled = FALSE /\ converted = <<>>
      /\ room = <<>> /\ rows = {}
  BY DEF Init, NoForward
<1>3. ControlInv
  BY <1>2 DEF ControlInv
<1>4. WorkerInv /\ PartsInv /\ RootsInv
  BY <1>2 DEF WorkerInv, PartsInv, RootsInv
<1>5. RoomInv
  BY <1>2 DEF RoomInv
<1> QED
  BY <1>1, <1>3, <1>4, <1>5 DEF IInv

(* Where some message is converted, there is a part.                       *)
(* What a converted forward holds.                                         *)
LEMMA ConvertedTyped ==
  ASSUME TypeOK
  PROVE  /\ converted # <<>> => 1 \in DOMAIN converted
         /\ \A k \in DOMAIN converted :
              converted[k].root \in Nat /\ converted[k].flat \in Seq(Nodes)
<1> DEFINE R == [root: Nat, flat: Seq(Nodes)]
<1>1. converted \in Seq(R)
  BY DEF TypeOK
<1>2. \A c \in R : c.root \in Nat /\ c.flat \in Seq(Nodes)
  OBVIOUS
<1> HIDE DEF R
<1>3. DOMAIN converted = 1..Len(converted) /\ \A k \in DOMAIN converted : converted[k] \in R
  BY <1>1
<1>4. converted # <<>> => 1 \in DOMAIN converted
  BY <1>1
<1> QED
  BY <1>2, <1>3, <1>4

LEMMA PartsThere == PartsInv /\ RootsInv /\ TypeOK /\ converted # <<>> => parts # <<>>
<1> SUFFICES ASSUME PartsInv, RootsInv, TypeOK, converted # <<>> PROVE parts # <<>>
  OBVIOUS
<1>1. 1 \in DOMAIN converted
  BY ConvertedTyped
<1>2. converted[1].flat # <<>> /\ converted[1].flat \in Seq(Nodes)
  BY <1>1, ConvertedTyped DEF RootsInv
<1>3. 1 \in DOMAIN converted[1].flat
  BY <1>2
<1> QED
  BY <1>1, <1>3 DEF PartsInv

LEMMA NextControlInv == IInv /\ [Next]_vars => ControlInv'
<1> SUFFICES ASSUME IInv, [Next]_vars PROVE ControlInv'
  OBVIOUS
<1>0. TypeOK /\ ControlInv
  BY DEF IInv
<1>1. CASE Unreadable \/ Return
  <2>1. pc = "segments" /\ pc' = "save" /\ UNCHANGED <<flat, msg, handled, converted>>
    BY <1>1 DEF Unreadable, Return, forwardVars
  <2>2. parts' # <<>>
    <3>1. CASE handled /\ Return
      BY <1>0, <3>1, PartsThere DEF Return, ControlInv, IInv
    <3>2. CASE ~ handled \/ Unreadable
      BY <1>1, <3>2, OnePartTyped DEF Return, Unreadable
    <3> QED
      BY <1>1, <3>1, <3>2
  <2> QED
    BY <1>0, <2>1, <2>2 DEF ControlInv
<1>2. CASE OtherSegment \/ ForwardSegment
  <2>1. /\ pc = "segments" /\ pc' \in {"segments", "fetch", "inline"} /\ msg.readable
        /\ UNCHANGED <<flat, msg, handled, converted, parts>> /\ (pc' = "fetch" => attempt' = 0)
    BY <1>2 DEF OtherSegment, ForwardSegment, forwardVars
  <2> QED
    BY <1>0, <2>1 DEF ControlInv
<1>3. CASE Fetched \/ UseInline
  <2>1. <<>> \notin Contents
    BY ForwardAssumption
  <2>2. /\ pc \in {"fetch", "inline"} /\ pc' \in {"flatten", "segments"}
        /\ (pc' = "flatten" => data' \in Contents)
        /\ UNCHANGED <<flat, msg, handled, converted, parts>>
    BY <1>3 DEF Fetched, UseInline
  <2> QED
    BY <1>0, <2>1, <2>2 DEF ControlInv
<1>4. CASE FetchFails
  <2>1. /\ pc = "fetch" /\ pc' \in {"fetch", "inline"} /\ (pc' = "fetch" => attempt < 2)
        /\ attempt' = attempt + 1 /\ UNCHANGED <<flat, msg, handled, converted, parts>>
    BY <1>4 DEF FetchFails, forwardVars
  <2>2. pc' = "fetch" => attempt' <= 2
    BY <1>0, <2>1 DEF TypeOK
  <2> QED
    BY <1>0, <2>1, <2>2 DEF ControlInv
<1>5. CASE FlattenFails
  <2>1. data \in Contents
    BY <1>0, <1>5 DEF FlattenFails, ControlInv, TypeOK
  <2>2. Flatten(data) # <<>>
    BY <2>1, FlattenTyped
  <2>3. (handled' <=> handled) /\ flat' = <<>> /\ pc' = "segments" /\ pc = "flatten"
        /\ UNCHANGED <<msg, converted, parts>>
    BY <1>5, <2>2 DEF FlattenFails, ForgetForward
  <2> QED
    BY <1>0, <2>3 DEF ControlInv
<1>6. CASE SendRoot
  <2>1. /\ flat' # <<>> /\ pc' = "workers" /\ pc = "flatten"
        /\ UNCHANGED <<msg, handled, converted, parts>>
    BY <1>6 DEF SendRoot
  <2> QED
    BY <1>0, <2>1 DEF ControlInv
<1>7. CASE SendRootFails \/ ForwardFails \/ \E i \in DOMAIN worker : ConvertPanics(i)
  <2>1. flat' = <<>> /\ pc' \in {"segments", "crashed"} /\ pc # "save"
        /\ UNCHANGED <<msg, handled, converted, parts>>
    <3>1. CASE \E i \in DOMAIN worker : ConvertPanics(i)
      <4>1. flat # <<>>
        BY <1>0, <3>1, ConvertingFinite
      <4> QED
        BY <1>0, <3>1, <4>1 DEF ConvertPanics, ForgetForward, ControlInv
    <3>2. CASE SendRootFails \/ ForwardFails
      BY <3>2 DEF SendRootFails, ForwardFails, ForgetForward
    <3> QED
      BY <1>7, <3>1, <3>2
  <2> QED
    BY <1>0, <2>1 DEF ControlInv
<1>8. CASE Merge
  <2>1. converted' # <<>>
    <3>1. converted' = Append(converted, [root |-> root, flat |-> flat])
      BY <1>8 DEF Merge
    <3>2. root \in Nat /\ flat \in Seq(Nodes) /\ converted \in Seq([root: Nat, flat: Seq(Nodes)])
      BY <1>0 DEF TypeOK
    <3>3. Len(converted') = Len(converted) + 1 /\ Len(converted) \in Nat
      BY <3>1, <3>2
    <3> QED
      BY <3>3
  <2>2. flat' = <<>> /\ pc' = "segments" /\ pc = "workers" /\ handled' = TRUE /\ msg' = msg
    BY <1>8 DEF Merge, ForgetForward
  <2> QED
    BY <1>0, <2>1, <2>2 DEF ControlInv
<1>9. CASE UNCHANGED <<pc, msg, attempt, data, flat, parts, handled, converted>>
  BY <1>0, <1>9 DEF ControlInv
<1> QED
  BY <1>1, <1>2, <1>3, <1>4, <1>5, <1>6, <1>7, <1>8, <1>9
  DEF Next, Segments, Download, Root, AfterWait, Worker, SavePart, Acquire, Convert,
      ConvertFails, vars, forwardVars

(* The steps that leave the workers alone end them or find none.           *)
LEMMA NextWorkerInv == IInv /\ [Next]_vars => WorkerInv'
<1> SUFFICES ASSUME IInv, [Next]_vars, pc' = "workers" PROVE WorkerInv'
  BY DEF WorkerInv
<1>0. TypeOK /\ ControlInv /\ WorkerInv /\ RootsInv
  BY DEF IInv
<1>1. CASE SendRoot
  <2>1. room \in Seq({"root", "part"}) /\ room' = Append(room, "root") /\ root' = Len(room')
        /\ converted' = converted
    BY <1>0, <1>1 DEF SendRoot, TypeOK
  <2>2. root' \in DOMAIN room' /\ room'[root'] = "root"
    BY <2>1
  <2>3. \A k \in DOMAIN converted : converted[k].root < root'
    BY <1>0, <2>1 DEF RootsInv
  <2>4. \A i \in DOMAIN worker' : worker'[i] # "finished"
    BY <1>1 DEF SendRoot
  <2> QED
    BY <2>1, <2>2, <2>3, <2>4 DEF WorkerInv
<1>2. ASSUME NEW i \in DOMAIN worker, Acquire(i) \/ Convert(i) \/ ConvertFails(i) PROVE WorkerInv'
  <2>1. UNCHANGED <<flat, root, room, converted>> /\ pc = "workers"
    BY <1>2 DEF Acquire, Convert, ConvertFails
  <2>2. DOMAIN worker' = DOMAIN worker /\ worker \in [DOMAIN flat -> Statuses]
        /\ results \in [DOMAIN flat -> Seq(PartRecord)]
    BY <1>0, <1>2 DEF Acquire, Convert, ConvertFails, TypeOK, Statuses
  <2>3. ASSUME NEW j \in DOMAIN worker', worker'[j] = "finished", ~ firstErr'
        PROVE  results'[j] = ItemParts(flat[j], j)
    <3>1. CASE Acquire(i)
      BY <1>0, <2>1, <2>2, <2>3, <3>1 DEF Acquire, WorkerInv
    <3>2. CASE Convert(i)
      BY <1>0, <2>1, <2>2, <2>3, <3>2 DEF Convert, StoreResult, WorkerInv
    <3>3. CASE ConvertFails(i)
      BY <2>3, <3>3 DEF ConvertFails
    <3> QED
      BY <1>2, <3>1, <3>2, <3>3
  <2>4. \A n, j : ItemParts(n, j)' = ItemParts(n, j)
    BY <2>1 DEF ItemParts, Part, ItemIDs
  <2> QED
    BY <1>0, <2>1, <2>3, <2>4 DEF WorkerInv, ItemParts
<1>3. CASE UNCHANGED <<pc, root, room, converted, worker, firstErr, results, flat>>
  BY <1>0, <1>3 DEF WorkerInv, ItemParts, Part
<1> QED
  BY <1>1, <1>2, <1>3
  DEF Next, Segments, Download, Root, AfterWait, Worker, Unreadable, OtherSegment,
      ForwardSegment, Return, Fetched, FetchFails, UseInline, FlattenFails, SendRootFails,
      ForwardFails, Merge, SavePart, ConvertPanics, vars, forwardVars

LEMMA NextRootsInv == IInv /\ [Next]_vars => RootsInv'
<1> SUFFICES ASSUME IInv, [Next]_vars PROVE RootsInv'
  OBVIOUS
<1>0. TypeOK /\ ControlInv /\ WorkerInv /\ RootsInv
  BY DEF IInv
<1>1. CASE SendRoot \/ SavePart
  <2>1. converted' = converted /\ room \in Seq({"root", "part"})
        /\ (room' = Append(room, "root") \/ room' = Append(room, "part"))
    BY <1>0, <1>1 DEF SendRoot, SavePart, TypeOK
  <2>2. \A e \in DOMAIN room : e \in DOMAIN room' /\ room'[e] = room[e]
    BY <2>1
  <2> QED
    BY <1>0, <2>1, <2>2 DEF RootsInv
<1>2. CASE Merge
  <2>1. converted' = Append(converted, [root |-> root, flat |-> flat]) /\ room' = room
        /\ pc = "workers"
    BY <1>2 DEF Merge
  <2>2. root \in DOMAIN room /\ room[root] = "root" /\ flat # <<>>
    BY <1>0, <2>1 DEF WorkerInv, ControlInv
  <2>3. ASSUME NEW k \in DOMAIN converted'
        PROVE  \/ k \in DOMAIN converted /\ converted'[k] = converted[k]
               \/ converted'[k] = [root |-> root, flat |-> flat]
    BY <1>0, <2>1, <2>3 DEF TypeOK
  <2> QED
    BY <1>0, <2>1, <2>2, <2>3 DEF RootsInv
<1>3. CASE UNCHANGED <<room, converted>>
  BY <1>0, <1>3 DEF RootsInv
<1> QED
  BY <1>1, <1>2, <1>3
  DEF Next, Segments, Download, Root, AfterWait, Worker, Unreadable, OtherSegment,
      ForwardSegment, Return, Fetched, FetchFails, UseInline, FlattenFails, SendRootFails,
      ForwardFails, Acquire, Convert, ConvertFails, ConvertPanics, vars

(* What Merge appends: the parts of all messages of the forward, in their  *)
(* order.                                                                  *)
LEMMA MergedParts ==
  ASSUME TypeOK, WorkerInv, Merge
  PROVE  LET new == FlattenSeq(results) IN
         /\ new \in Seq(PartRecord)
         /\ \A p \in DOMAIN new : BelongsTo(new[p], [root |-> root, flat |-> flat])
         /\ \A p, q \in DOMAIN new : p < q => Before(new[p], new[q])
         /\ \A i \in DOMAIN flat : \E p \in DOMAIN new : new[p].thread = root /\ new[p].item = i
<1> DEFINE new == FlattenSeq(results)
<1>1. /\ flat \in Seq(Nodes) /\ DOMAIN results = DOMAIN flat /\ DOMAIN flat = 1..Len(flat)
      /\ Len(flat) \in Nat /\ root \in Nat /\ results \in [1..Len(flat) -> Seq(PartRecord)]
  BY DEF TypeOK
<1>2. results \in Seq(Seq(PartRecord)) /\ Len(results) = Len(flat)
  BY <1>1
<1>3. \A i \in DOMAIN flat : results[i] = ItemParts(flat[i], i)
  BY DEF Merge, AllFinished, WorkerInv, TypeOK
<1>4. ASSUME NEW i \in DOMAIN flat
      PROVE  /\ flat[i] \in Nodes /\ i \in Nat \ {0}
             /\ DOMAIN results[i] = DOMAIN ItemIDs(flat[i], i)
             /\ \A j \in DOMAIN results[i] :
                  results[i][j] = [id |-> ItemIDs(flat[i], i)[j], item |-> i, thread |-> root]
  <2>1. flat[i] \in Nodes /\ i \in Nat \ {0} /\ root \in Nat
    BY <1>1, <1>4
  <2>2. results[i] = ItemParts(flat[i], i)
    BY <1>3, <1>4
  <2> QED
    BY <2>1, <2>2, ItemPartsTyped
<1>5. PICK row, col : ListedBy(new, results, Len(flat), row, col)
  BY <1>2, FlattenSeqLists DEF Lists
<1>6. new \in Seq(PartRecord)
  BY <1>2, FlattenSeqLists
<1> HIDE DEF new
<1>7. ASSUME NEW p \in DOMAIN new
      PROVE  /\ row[p] \in DOMAIN flat /\ col[p] \in DOMAIN ItemIDs(flat[row[p]], row[p])
             /\ new[p] = [id |-> ItemIDs(flat[row[p]], row[p])[col[p]],
                          item |-> row[p], thread |-> root]
  BY <1>1, <1>4, <1>5 DEF ListedBy
<1>8. ASSUME NEW p \in DOMAIN new PROVE BelongsTo(new[p], [root |-> root, flat |-> flat])
  BY <1>7 DEF BelongsTo, ToSet
<1>9. ASSUME NEW p \in DOMAIN new, NEW q \in DOMAIN new, p < q PROVE Before(new[p], new[q])
  <2>1. row[p] < row[q] \/ (row[p] = row[q] /\ col[p] < col[q])
    BY <1>5, <1>9 DEF ListedBy
  <2>2. CASE row[p] < row[q]
    BY <1>7, <2>2 DEF Before
  <2>3. CASE row[p] = row[q] /\ col[p] < col[q]
    <3>1. col[p] # col[q]
      BY <1>5, <2>3 DEF ListedBy
    <3>2. ItemIDs(flat[row[p]], row[p])[col[p]] # ItemIDs(flat[row[p]], row[p])[col[q]]
      <4>1. row[p] \in Nat \ {0} /\ flat[row[p]] \in Nodes
        BY <1>4, <1>7
      <4>2. col[p] \in DOMAIN ItemIDs(flat[row[p]], row[p])
            /\ col[q] \in DOMAIN ItemIDs(flat[row[p]], row[p])
        BY <1>7, <2>3
      <4> QED
        BY <3>1, <4>1, <4>2, ItemIDsTyped
    <3> QED
      BY <1>7, <2>3, <3>2 DEF Before
  <2> QED
    BY <2>1, <2>2, <2>3
<1>10. ASSUME NEW i \in DOMAIN flat
       PROVE  \E p \in DOMAIN new : new[p].thread = root /\ new[p].item = i
  <2>1. 1 \in DOMAIN results[i]
    <3>1. DOMAIN results[i] = DOMAIN ItemIDs(flat[i], i) /\ flat[i] \in Nodes /\ i \in Nat \ {0}
      BY <1>4, <1>10
    <3>2. ItemIDs(flat[i], i) \in Seq(Seq(Nat)) /\ ItemIDs(flat[i], i) # <<>>
      BY <3>1, ItemIDsTyped
    <3>3. 1 \in DOMAIN ItemIDs(flat[i], i)
      BY <3>2
    <3> QED
      BY <3>1, <3>3
  <2>2. PICK p \in DOMAIN new : row[p] = i /\ col[p] = 1
    BY <1>1, <1>5, <2>1 DEF ListedBy
  <2> QED
    BY <1>7, <2>2
<1> QED
  BY <1>6, <1>8, <1>9, <1>10 DEF new

LEMMA NextPartsInv == IInv /\ [Next]_vars => PartsInv'
<1> SUFFICES ASSUME IInv, [Next]_vars PROVE PartsInv'
  OBVIOUS
<1>0. TypeOK /\ ControlInv /\ WorkerInv /\ PartsInv /\ RootsInv
  BY DEF IInv
<1>1. CASE Merge
  <2> DEFINE new == FlattenSeq(results)
             c == [root |-> root, flat |-> flat]
  <2>1. /\ new \in Seq(PartRecord)
        /\ \A p \in DOMAIN new : BelongsTo(new[p], c)
        /\ \A p, q \in DOMAIN new : p < q => Before(new[p], new[q])
        /\ \A i \in DOMAIN flat : \E p \in DOMAIN new : new[p].thread = root /\ new[p].item = i
    BY <1>0, <1>1, MergedParts
  <2>2. parts' = parts \o new /\ converted' = Append(converted, c) /\ pc = "workers"
    BY <1>1 DEF Merge
  <2>3. parts \in Seq(PartRecord) /\ converted \in Seq([root: Nat, flat: Seq(Nodes)])
    BY <1>0 DEF TypeOK
  <2> HIDE DEF new
  <2>4. /\ DOMAIN parts' = 1..(Len(parts) + Len(new)) /\ DOMAIN parts = 1..Len(parts)
        /\ DOMAIN new = 1..Len(new) /\ Len(parts) \in Nat /\ Len(new) \in Nat
        /\ \A p \in DOMAIN parts' :
             parts'[p] = IF p <= Len(parts) THEN parts[p] ELSE new[p - Len(parts)]
    BY <2>1, <2>2, <2>3
  <2>5. /\ DOMAIN converted' = 1..(Len(converted) + 1) /\ DOMAIN converted = 1..Len(converted)
        /\ Len(converted) \in Nat
        /\ \A k \in DOMAIN converted : converted'[k] = converted[k]
        /\ converted'[Len(converted) + 1] = c
    <3> HIDE DEF c
    <3>1. c \in [root: Nat, flat: Seq(Nodes)]
      <4>1. root \in Nat /\ flat \in Seq(Nodes)
        BY <1>0 DEF TypeOK
      <4> QED
        BY <4>1 DEF c
    <3> QED
      BY <2>2, <2>3, <3>1
  <2>6. /\ \A p \in DOMAIN parts : \E k \in DOMAIN converted : BelongsTo(parts[p], converted[k])
        /\ \A p, q \in DOMAIN parts : p < q => Before(parts[p], parts[q])
        /\ \A k \in DOMAIN converted : \A i \in DOMAIN converted[k].flat :
             \E p \in DOMAIN parts : parts[p].thread = converted[k].root /\ parts[p].item = i
    BY <1>0, <2>2 DEF PartsInv, ControlInv
  <2>7. \A p \in DOMAIN parts' : \/ p \in DOMAIN parts /\ parts'[p] = parts[p]
                                 \/ \E q \in DOMAIN new : p = Len(parts) + q /\ parts'[p] = new[q]
    <3>1. ASSUME NEW p \in DOMAIN parts', p \notin DOMAIN parts
          PROVE  p - Len(parts) \in DOMAIN new /\ p = Len(parts) + (p - Len(parts))
                 /\ parts'[p] = new[p - Len(parts)]
      BY <2>4, <3>1
    <3>2. ASSUME NEW p \in DOMAIN parts', p \in DOMAIN parts PROVE parts'[p] = parts[p]
      BY <2>4, <3>2
    <3> QED
      BY <3>1, <3>2
  <2>8. /\ \A p \in DOMAIN parts : p \in DOMAIN parts' /\ parts'[p] = parts[p]
        /\ \A q \in DOMAIN new : Len(parts) + q \in DOMAIN parts' /\ parts'[Len(parts) + q] = new[q]
    <3>1. ASSUME NEW q \in DOMAIN new
          PROVE  Len(parts) + q \in DOMAIN parts' /\ parts'[Len(parts) + q] = new[q]
      <4>1. Len(parts) + q \in DOMAIN parts' /\ ~ (Len(parts) + q <= Len(parts))
            /\ (Len(parts) + q) - Len(parts) = q
        BY <2>4, <3>1
      <4> QED
        BY <2>4, <4>1
    <3>2. ASSUME NEW p \in DOMAIN parts PROVE p \in DOMAIN parts' /\ parts'[p] = parts[p]
      BY <2>4, <3>2
    <3> QED
      BY <3>1, <3>2
  <2>9. ASSUME NEW p \in DOMAIN parts'
        PROVE  \E k \in DOMAIN converted' : BelongsTo(parts'[p], converted'[k])
    <3>1. CASE p \in DOMAIN parts /\ parts'[p] = parts[p]
      BY <2>5, <2>6, <3>1
    <3>2. CASE \E q \in DOMAIN new : p = Len(parts) + q /\ parts'[p] = new[q]
      BY <2>1, <2>5, <3>2
    <3> QED
      BY <2>7, <3>1, <3>2
  <2>10. ASSUME NEW p \in DOMAIN parts', NEW q \in DOMAIN parts', p < q
         PROVE  Before(parts'[p], parts'[q])
    <3>1. CASE q \in DOMAIN parts
      <4>1. p \in DOMAIN parts
        BY <2>4, <2>10, <3>1
      <4> QED
        BY <2>6, <2>8, <2>10, <3>1, <4>1
    <3>2. CASE q \notin DOMAIN parts
      <4>1. PICK j \in DOMAIN new : q = Len(parts) + j /\ parts'[q] = new[j]
        BY <2>7, <3>2
      <4>2. CASE p \in DOMAIN parts
        <5>1. PICK k \in DOMAIN converted : BelongsTo(parts[p], converted[k])
          BY <2>6, <4>2
        <5>2. parts[p].thread = converted[k].root /\ new[j].thread = root
          BY <2>1, <5>1 DEF BelongsTo
        <5>3. converted[k].root < root
          BY <1>0, <2>2 DEF WorkerInv
        <5> QED
          BY <2>8, <4>1, <4>2, <5>2, <5>3 DEF Before
      <4>3. CASE p \notin DOMAIN parts
        <5>1. PICK i \in DOMAIN new : p = Len(parts) + i /\ parts'[p] = new[i]
          BY <2>7, <4>3
        <5>2. i < j
          BY <2>4, <2>10, <4>1, <5>1
        <5> QED
          BY <2>1, <4>1, <5>1, <5>2
      <4> QED
        BY <4>2, <4>3
    <3> QED
      BY <3>1, <3>2
  <2>11. ASSUME NEW k \in DOMAIN converted', NEW i \in DOMAIN converted'[k].flat
         PROVE  \E p \in DOMAIN parts' : parts'[p].thread = converted'[k].root /\ parts'[p].item = i
    <3>1. CASE k \in DOMAIN converted
      <4>1. PICK p \in DOMAIN parts : parts[p].thread = converted[k].root /\ parts[p].item = i
        BY <2>5, <2>6, <2>11, <3>1
      <4> QED
        BY <2>5, <2>8, <3>1, <4>1
    <3>2. CASE k \notin DOMAIN converted
      <4>1. converted'[k] = c
        BY <2>5, <3>2
      <4>2. PICK q \in DOMAIN new : new[q].thread = root /\ new[q].item = i
        BY <2>1, <2>11, <4>1
      <4> QED
        BY <2>8, <4>1, <4>2
    <3> QED
      BY <3>1, <3>2
  <2> QED
    BY <2>9, <2>10, <2>11 DEF PartsInv, BelongsTo, Before
<1>2. CASE Unreadable \/ Return
  <2>1. converted # <<>> => Return /\ handled
    BY <1>0, <1>2 DEF Unreadable, ControlInv
  <2>2. UNCHANGED converted /\ (converted # <<>> => parts' = parts)
    BY <1>2, <2>1 DEF Unreadable, Return
  <2> QED
    BY <1>0, <2>2 DEF PartsInv, BelongsTo, Before
<1>3. CASE UNCHANGED <<parts, converted>>
  BY <1>0, <1>3 DEF PartsInv, BelongsTo, Before
<1> QED
  BY <1>1, <1>2, <1>3
  DEF Next, Segments, Download, Root, AfterWait, Worker, OtherSegment, ForwardSegment, Fetched,
      FetchFails, UseInline, FlattenFails, SendRoot, SendRootFails, ForwardFails, SavePart,
      Acquire, Convert, ConvertFails, ConvertPanics, vars

(* The parts of a message with one converted forward and at most one share *)
(* have IDs of their own, and none has that of the root.                   *)
LEMMA IDsApart ==
  ASSUME TypeOK, PartsInv, Len(converted) = 1, OneShare
  PROVE  /\ \A p \in DOMAIN parts : parts[p].id # <<0>>
         /\ \A p, q \in DOMAIN parts : p < q => parts[p].id # parts[q].id
<1> DEFINE c == converted[1]
<1>1. /\ DOMAIN converted = {1} /\ converted # <<>>
      /\ c.flat \in Seq(Nodes) /\ c.root \in Nat
  <2>1. DOMAIN converted = 1..1 /\ converted # <<>>
    <3> DEFINE R == [root: Nat, flat: Seq(Nodes)]
    <3>1. converted \in Seq(R)
      BY DEF TypeOK
    <3> HIDE DEF R, c
    <3>2. DOMAIN converted = 1..Len(converted)
      BY <3>1
    <3> QED
      BY <3>1, <3>2
  <2>2. 1 \in DOMAIN converted
    BY <2>1
  <2> HIDE DEF c
  <2>3. c.flat \in Seq(Nodes) /\ c.root \in Nat
    BY <2>2, ConvertedTyped DEF c
  <2> QED
    BY <2>1, <2>3
<1> HIDE DEF c
<1>2. \A p \in DOMAIN parts : BelongsTo(parts[p], c)
  BY <1>1 DEF PartsInv, c
<1>3. \A p, q \in DOMAIN parts : p < q => Before(parts[p], parts[q])
  BY <1>1 DEF PartsInv
<1>4. ASSUME NEW p \in DOMAIN parts
      PROVE  /\ parts[p].thread = c.root
             /\ c.flat[parts[p].item] \in Nodes /\ parts[p].item \in Nat \ {0}
             /\ parts[p].id \in ToSet(ItemIDs(c.flat[parts[p].item], parts[p].item))
  BY <1>1, <1>2 DEF BelongsTo
<1>5. ASSUME NEW p \in DOMAIN parts PROVE parts[p].id # <<0>>
  BY <1>4, ItemIDsTyped
<1>6. parts \in Seq(PartRecord) /\ c.root \in Nat
  BY <1>1 DEF TypeOK
<1>7. ASSUME NEW p \in DOMAIN parts, NEW q \in DOMAIN parts, p < q
      PROVE  parts[p].id # parts[q].id
  <2>1. Before(parts[p], parts[q]) /\ parts[p].thread = parts[q].thread /\ parts[p].thread \in Nat
    BY <1>3, <1>4, <1>6, <1>7
  <2>2. p # q
    BY <1>6, <1>7
  <2>3. CASE parts[p].item = parts[q].item
    <3>1. parts[p].item \in Nat
      BY <1>4
    <3> QED
      BY <2>1, <2>3, <3>1 DEF Before
  <2>4. CASE parts[p].item # parts[q].item
    <3>1. ASSUME parts[p].id = parts[q].id PROVE parts[p].id = <<>>
      <4>1. parts[p].id \in ToSet(ItemIDs(c.flat[parts[p].item], parts[p].item))
            /\ parts[p].id \in ToSet(ItemIDs(c.flat[parts[q].item], parts[q].item))
        BY <1>4, <3>1
      <4>2. /\ c.flat[parts[p].item] \in Nodes /\ parts[p].item \in Nat \ {0}
            /\ c.flat[parts[q].item] \in Nodes /\ parts[q].item \in Nat \ {0}
        BY <1>4
      <4> QED
        BY <2>4, <4>1, <4>2, ItemIDsApart
    <3> QED
      BY <2>2, <3>1 DEF OneShare
  <2> QED
    BY <2>3, <2>4
<1> QED
  BY <1>5, <1>7

(* With one root, all events but the first are parts that were saved.      *)
LEMMA SavedOfOneRoot == TypeOK /\ OneRoot => Saved = Len(room) - 1
<1> SUFFICES ASSUME TypeOK, OneRoot PROVE Saved = Len(room) - 1
  OBVIOUS
<1>1. Len(room) \in Nat /\ DOMAIN room = 1..Len(room) /\ Len(room) >= 1
  BY DEF TypeOK, OneRoot
<1>2. {e \in DOMAIN room : room[e] = "part"} = 2..Len(room)
  <2>1. ASSUME NEW e \in DOMAIN room, room[e] = "part" PROVE e \in 2..Len(room)
    <3>1. e # 1
      BY <2>1 DEF OneRoot
    <3> QED
      BY <1>1, <3>1
  <2>2. ASSUME NEW e \in 2..Len(room) PROVE e \in DOMAIN room /\ room[e] = "part"
    BY <1>1 DEF OneRoot
  <2> QED
    BY <2>1, <2>2
<1>3. Cardinality(2..Len(room)) = Len(room) - 1
  <2>1. Cardinality(2..Len(room)) = IF 2 > Len(room) THEN 0 ELSE Len(room) - 2 + 1
    BY <1>1, FS_Interval
  <2> QED
    BY <1>1, <2>1
<1> QED
  BY <1>2, <1>3 DEF Saved

LEMMA NextRoomInv == IInv /\ [Next]_vars => RoomInv'
<1> SUFFICES ASSUME IInv, [Next]_vars PROVE RoomInv'
  OBVIOUS
<1>0. TypeOK /\ ControlInv /\ PartsInv /\ RoomInv
  BY DEF IInv
<1>a. room \in Seq({"root", "part"}) /\ Len(room) \in Nat /\ DOMAIN room = 1..Len(room)
  BY <1>0 DEF TypeOK
<1>1. CASE SendRoot
  <2>1. room' = Append(room, "root") /\ pc = "flatten" /\ pc' = "workers"
        /\ root' = Len(room') /\ Insert(RootRow(root'))
    BY <1>1 DEF SendRoot
  <2>2. \A e \in DOMAIN room' : room'[e] = "root"
    BY <1>0, <1>a, <2>1 DEF RoomInv
  <2>3. room' # <<>> /\ Len(room') = Len(room) + 1
    BY <1>a, <2>1
  <2>4. ASSUME Len(room') <= 1
        PROVE  rows' = {RootRow(e) : e \in DOMAIN room' \ failed'}
    <3>1. room = <<>> /\ root' = 1 /\ DOMAIN room' = {1}
      BY <1>a, <2>1, <2>3, <2>4
    <3>2. rows = {} /\ failed = {}
      BY <1>0, <2>1, <3>1 DEF RoomInv, TypeOK
    <3>3. RootRow(1).event = 1
      BY DEF RootRow
    <3>4. \/ rows' = {RootRow(1)} /\ failed' = {}
          \/ rows' = {} /\ failed' = {1}
      BY <2>1, <3>1, <3>2, <3>3 DEF Insert
    <3>5. DOMAIN room' \ failed' = IF failed' = {} THEN {1} ELSE {}
      BY <3>1, <3>4
    <3> QED
      BY <3>4, <3>5
  <2> QED
    BY <2>1, <2>2, <2>4 DEF RoomInv, RootRow
<1>2. CASE Unreadable \/ Return
  <2>1. UNCHANGED <<room, rows, failed, converted>> /\ pc = "segments" /\ pc' = "save"
    BY <1>2 DEF Unreadable, Return
  <2>2. ASSUME OneRoot'
        PROVE  /\ Len(room) - 1 <= Len(parts')
               /\ rows = {RootRow(e) : e \in {1} \ failed}
                          \cup {[id |-> parts'[e - 1].id, event |-> e]
                                  : e \in (2..Len(room)) \ failed}
    <3>1. room # <<>> /\ \A e \in 2..Len(room) : room[e] = "part"
      BY <2>1, <2>2 DEF OneRoot
    <3>2. Len(room) = 1
      <4>1. ASSUME 2 <= Len(room) PROVE FALSE
        <5>1. room[2] = "part" /\ room[2] = "root"
          BY <1>0, <1>a, <2>1, <3>1, <4>1 DEF RoomInv
        <5> QED
          BY <5>1
      <4> QED
        BY <1>a, <3>1, <4>1
    <3>3. rows = {RootRow(e) : e \in {1} \ failed}
      <4>1. DOMAIN room = {1}
        BY <1>a, <3>2
      <4> QED
        BY <1>0, <2>1, <3>2, <4>1 DEF RoomInv
    <3>4. (2..Len(room)) \ failed = {}
      BY <3>2
    <3>5. Len(parts') \in Nat
      BY <1>0, <1>2, OnePartTyped DEF Unreadable, Return, TypeOK
    <3> QED
      BY <3>2, <3>3, <3>4, <3>5
  <2> QED
    BY <1>0, <2>1, <2>2 DEF RoomInv, RootRow
<1>3. CASE SavePart
  <2>1. room' = Append(room, "part") /\ pc = "save" /\ UNCHANGED <<pc, parts, converted>>
        /\ Insert([id |-> parts[Saved + 1].id, event |-> Len(room')])
        /\ Saved < Len(parts)
    BY <1>3 DEF SavePart
  <2>2. /\ Len(room') = Len(room) + 1 /\ DOMAIN room' = 1..(Len(room) + 1)
        /\ \A e \in DOMAIN room : room'[e] = room[e]
        /\ room'[Len(room) + 1] = "part"
    BY <1>a, <2>1
  <2>3. ASSUME NEW e \in DOMAIN room', NEW f \in DOMAIN room', e < f, room'[f] = "root"
        PROVE  room'[e] = "root"
    <3>1. f # Len(room) + 1
      BY <2>2, <2>3
    <3>2. e \in DOMAIN room /\ f \in DOMAIN room
      BY <1>a, <2>2, <2>3, <3>1
    <3> QED
      BY <1>0, <2>2, <2>3, <3>2 DEF RoomInv
  <2>4. ASSUME OneRoot', Len(converted) = 1, OneShare
        PROVE  /\ Len(room') - 1 <= Len(parts)
               /\ rows' = {RootRow(e) : e \in {1} \ failed'}
                          \cup {[id |-> parts[e - 1].id, event |-> e]
                                  : e \in (2..Len(room')) \ failed'}
    <3> DEFINE row(e) == [id |-> parts[e - 1].id, event |-> e]
               n == Len(room)
    <3>1. n # 0
      <4>1. ASSUME n = 0 PROVE FALSE
        <5>1. room'[1] = "part" /\ room'[1] = "root"
          BY <2>2, <2>4, <4>1 DEF OneRoot
        <5> QED
          BY <5>1
      <4> QED
        BY <4>1
    <3>2. OneRoot
      <4>1. room'[1] = "root" /\ \A e \in 2..(n + 1) : room'[e] = "part"
        BY <2>2, <2>4 DEF OneRoot
      <4>2. 1 \in DOMAIN room /\ \A e \in 2..n : e \in DOMAIN room /\ e \in 2..(n + 1)
        BY <1>a, <3>1
      <4>3. room # <<>> /\ room[1] = "root" /\ \A e \in 2..n : room[e] = "part"
        BY <2>2, <4>1, <4>2
      <4> QED
        BY <4>3 DEF OneRoot
    <3>3. rows = {RootRow(e) : e \in {1} \ failed} \cup {row(e) : e \in (2..n) \ failed}
      BY <1>0, <2>1, <2>4, <3>2 DEF RoomInv
    <3>4. Saved = n - 1
      BY <1>0, <3>2, SavedOfOneRoot
    <3>5. parts \in Seq(PartRecord) /\ Len(parts) \in Nat /\ DOMAIN parts = 1..Len(parts)
      BY <1>0 DEF TypeOK
    <3>6. n \in DOMAIN parts /\ Saved + 1 = n /\ Len(room') - 1 <= Len(parts)
      BY <1>a, <2>1, <2>2, <3>1, <3>4, <3>5
    <3>7. row(n + 1) = [id |-> parts[Saved + 1].id, event |-> Len(room')]
      <4>1. (n + 1) - 1 = n
        BY <1>a
      <4> QED
        BY <2>2, <3>6, <4>1
    <3>8. \A r \in rows : r.id # parts[n].id
      <4>1. RootRow(1).id # parts[n].id
        BY <1>0, <2>4, <3>6, IDsApart DEF RootRow
      <4>2. ASSUME NEW e \in 2..n PROVE row(e).id # parts[n].id
        <5>1. e - 1 \in DOMAIN parts /\ e - 1 < n
          BY <1>a, <3>5, <3>6
        <5>2. parts[e - 1].id # parts[n].id
          BY <1>0, <2>4, <3>6, <5>1, IDsApart
        <5> QED
          BY <5>2
      <4> QED
        BY <3>3, <4>1, <4>2
    <3>9. \/ rows' = rows \cup {row(n + 1)} /\ failed' = failed
          \/ rows' = rows /\ failed' = failed \cup {n + 1}
      <4>1. row(n + 1).id = parts[n].id /\ row(n + 1).event = n + 1
        BY <3>6, <3>7
      <4> HIDE DEF row
      <4>2. Insert(row(n + 1))
        BY <2>1, <3>7
      <4>3. ~ \E r \in rows : r.id = row(n + 1).id
        BY <3>8, <4>1
      <4> QED
        BY <4>1, <4>2, <4>3 DEF Insert
    <3>10. 2..Len(room') = (2..n) \cup {n + 1} /\ n + 1 \notin failed /\ n + 1 # 1
           /\ n + 1 \notin 2..n
      <4>1. failed \subseteq 1..n /\ n \in Nat /\ n # 0 /\ Len(room') = n + 1
        BY <1>0, <1>a, <2>2, <3>1 DEF TypeOK
      <4> QED
        BY <4>1
    <3>11. rows' = {RootRow(e) : e \in {1} \ failed'}
                    \cup {row(e) : e \in (2..Len(room')) \ failed'}
      <4> HIDE DEF row
      <4>1. {1} \ failed' = {1} \ failed
        BY <3>9, <3>10
      <4>2. (2..Len(room')) \ failed' =
              IF failed' = failed THEN ((2..n) \ failed) \cup {n + 1} ELSE (2..n) \ failed
        BY <3>9, <3>10
      <4>3. failed' = failed => rows' = rows \cup {row(n + 1)}
        BY <3>9, <3>10
      <4>4. failed' # failed => rows' = rows
        BY <3>9
      <4> QED
        BY <3>3, <4>1, <4>2, <4>3, <4>4
    <3> QED
      BY <3>6, <3>11
  <2>5. OneShare' <=> OneShare
    BY <2>1 DEF OneShare
  <2> QED
    BY <2>1, <2>3, <2>4, <2>5 DEF RoomInv, RootRow
<1>4. CASE pc # "save" /\ pc' # "save" /\ UNCHANGED <<room, rows, failed>>
  BY <1>0, <1>4 DEF RoomInv, RootRow
<1>5. CASE UNCHANGED <<pc, parts, converted, room, rows, failed>>
  BY <1>0, <1>5 DEF RoomInv, RootRow, OneRoot, OneShare
<1>6. ASSUME NEW i \in DOMAIN worker PROVE pc # "save"
  BY <1>0, <1>6, ConvertingFinite DEF ControlInv
<1> QED
  BY <1>1, <1>2, <1>3, <1>4, <1>5, <1>6
  DEF Next, Segments, Download, Root, AfterWait, Worker, OtherSegment, ForwardSegment, Fetched,
      FetchFails, UseInline, FlattenFails, SendRootFails, ForwardFails, Merge, Acquire,
      Convert, ConvertFails, ConvertPanics, vars

LEMMA NextInv == IInv /\ [Next]_vars => IInv'
<1> SUFFICES ASSUME IInv, [Next]_vars PROVE IInv'
  OBVIOUS
<1>1. TypeOK'
  BY NextTypeOK DEF IInv
<1>2. ControlInv' /\ WorkerInv' /\ RootsInv'
  BY NextControlInv, NextWorkerInv, NextRootsInv
<1>3. PartsInv' /\ RoomInv'
  BY NextPartsInv, NextRoomInv
<1> QED
  BY <1>1, <1>2, <1>3 DEF IInv

LEMMA InvHolds == Spec => []IInv
  BY InitInv, NextInv, PTL DEF Spec

-----------------------------------------------------------------------------
(* The theorems about forwards                                             *)

(* A slot of the semaphore is taken by each goroutine that converts, and   *)
(* by no more than forwardConcurrency of them, and the other variables     *)
(* have their types (step 6 of convertForwardMessage).                     *)
THEOREM TypeCorrect == Spec => []TypeOK
<1>1. IInv => TypeOK
  BY DEF IInv
<1> QED
  BY <1>1, InvHolds, PTL

(* Whatever order the goroutines finish in, the parts are in the order of  *)
(* the forwards and of the messages in them, none is missing, and each is  *)
(* threaded to the root of its own forward (convertForwardMessage).        *)
THEOREM PartsInOrder == Spec => []ForwardPartsInOrder
<1>1. IInv => ForwardPartsInOrder
  <2> SUFFICES ASSUME IInv, converted # <<>> PROVE ForwardPartsInOrder
    BY DEF ForwardPartsInOrder
  <2>0. PartsInv /\ RootsInv /\ TypeOK
    BY DEF IInv
  <2>1. ASSUME NEW p \in DOMAIN parts, NEW q \in DOMAIN parts, p < q
        PROVE  \/ parts[p].thread < parts[q].thread
               \/ parts[p].thread = parts[q].thread /\ parts[p].item <= parts[q].item
    <3>1. parts[p] \in PartRecord /\ parts[q] \in PartRecord
      BY <2>0 DEF TypeOK
    <3>2. Before(parts[p], parts[q])
      BY <2>0, <2>1 DEF PartsInv
    <3> QED
      BY <3>1, <3>2 DEF Before, PartRecord
  <2>2. \A p \in DOMAIN parts : \E k \in DOMAIN converted :
          parts[p].thread = converted[k].root /\ parts[p].item \in DOMAIN converted[k].flat
    BY <2>0 DEF PartsInv, BelongsTo
  <2>3. \A k \in DOMAIN converted :
          /\ room[converted[k].root] = "root"
          /\ \A i \in DOMAIN converted[k].flat : \E p \in DOMAIN parts :
               parts[p].thread = converted[k].root /\ parts[p].item = i
    BY <2>0 DEF PartsInv, RootsInv
  <2> QED
    BY <2>1, <2>2, <2>3 DEF ForwardPartsInOrder
<1> QED
  BY <1>1, InvHolds, PTL

(* A converted message has a part, whatever its segments were, whatever    *)
(* get_forward_msg said and whatever failed: flattenForward gives a        *)
(* message or more for every one it is given (the placeholder of walk).    *)
THEOREM EveryMessageIsShown == Spec => []MessageIsShown
<1>1. IInv => MessageIsShown
  BY DEF IInv, ControlInv, MessageIsShown
<1> QED
  BY <1>1, InvHolds, PTL

(* Once a message with one forward and at most one share is saved, a row   *)
(* of its own leads to each of its events (the part IDs that               *)
(* convertMessageItem and convertForwardMessage give, and the row of the   *)
(* root).                                                                  *)
THEOREM EveryEventHasARow == Spec => []EventsHaveRows
<1>1. IInv => EventsHaveRows
  <2> DEFINE Roots == {e \in DOMAIN room : room[e] = "root"}
             Unnamed == {p \in DOMAIN parts : parts[p].id = <<>>}
  <2> SUFFICES ASSUME IInv, AllSaved, Len(converted) = 1, Cardinality(Roots) = 1,
                      Cardinality(Unnamed) <= 1,
                      NEW e \in DOMAIN room \ failed
               PROVE  \E r \in rows : r.event = e
    BY DEF EventsHaveRows
  <2>0. TypeOK /\ RoomInv
    BY DEF IInv
  <2>1. /\ Len(room) \in Nat /\ DOMAIN room = 1..Len(room) /\ room \in Seq({"root", "part"})
        /\ Len(parts) \in Nat /\ DOMAIN parts = 1..Len(parts)
    BY <2>0 DEF TypeOK
  <2>2. OneRoot
    <3>1. IsFiniteSet(Roots)
      <4>1. IsFiniteSet(1..Len(room)) /\ Roots \in SUBSET (1..Len(room))
        BY <2>1, FS_Interval
      <4> QED
        BY <4>1, FS_Subset
    <3>2. PICK r : Roots = {r}
      BY <3>1, FS_Singleton
    <3>3. r \in DOMAIN room /\ room[r] = "root" /\ \A f \in DOMAIN room : room[f] = "root" => f = r
      BY <3>2
    <3>4. r = 1
      <4>1. ASSUME r # 1 PROVE FALSE
        <5>1. 1 \in DOMAIN room /\ 1 < r
          BY <2>1, <3>3, <4>1
        <5>2. room[1] = "root"
          BY <2>0, <3>3, <5>1 DEF RoomInv
        <5> QED
          BY <3>3, <4>1, <5>1, <5>2
      <4> QED
        BY <4>1
    <3>5. ASSUME NEW f \in 2..Len(room) PROVE room[f] = "part"
      <4>1. f \in DOMAIN room /\ f # 1
        BY <2>1
      <4> QED
        BY <2>1, <3>3, <3>4, <4>1
    <3> QED
      BY <3>3, <3>4, <3>5 DEF OneRoot
  <2>3. OneShare
    <3>1. IsFiniteSet(Unnamed) /\ Cardinality(Unnamed) \in Nat
      <4>1. IsFiniteSet(1..Len(parts)) /\ Unnamed \in SUBSET (1..Len(parts))
        BY <2>1, FS_Interval
      <4>2. IsFiniteSet(Unnamed)
        BY <4>1, FS_Subset
      <4> QED
        BY <4>2, FS_CardinalityType
    <3>2. CASE Cardinality(Unnamed) = 0
      BY <3>1, <3>2, FS_EmptySet DEF OneShare
    <3>3. CASE Cardinality(Unnamed) = 1
      <4>1. PICK p : Unnamed = {p}
        BY <3>1, <3>3, FS_Singleton
      <4> QED
        BY <4>1 DEF OneShare
    <3> QED
      BY <3>1, <3>2, <3>3
  <2>4. rows = {RootRow(f) : f \in {1} \ failed}
                \cup {[id |-> parts[f - 1].id, event |-> f] : f \in (2..Len(room)) \ failed}
    BY <2>0, <2>2, <2>3 DEF RoomInv, AllSaved
  <2>5. CASE e = 1
    <3>1. RootRow(1) \in rows /\ RootRow(1).event = 1
      BY <2>4, <2>5 DEF RootRow
    <3> QED
      BY <2>5, <3>1
  <2>6. CASE e # 1
    <3>1. e \in (2..Len(room)) \ failed
      BY <2>1, <2>6
    <3>2. [id |-> parts[e - 1].id, event |-> e] \in rows
      BY <2>4, <3>1
    <3> QED
      BY <3>2
  <2> QED
    BY <2>5, <2>6
<1> QED
  BY <1>1, InvHolds, PTL

-----------------------------------------------------------------------------
(* The conversion comes to its end                                         *)

(* Parts are saved at the end, and no more than there are.                 *)
SavedInv == IF pc = "save" THEN Saved <= Len(parts) ELSE Saved = 0

LEMMA NoneSaved == (\A e \in DOMAIN room : room[e] = "root") => Saved = 0
<1> SUFFICES ASSUME \A e \in DOMAIN room : room[e] = "root" PROVE Saved = 0
  OBVIOUS
<1>1. {e \in DOMAIN room : room[e] = "part"} = {}
  OBVIOUS
<1> QED
  BY <1>1, FS_EmptySet DEF Saved

LEMMA OneMoreSaved == TypeOK /\ room' = Append(room, "part") => Saved' = Saved + 1
<1> SUFFICES ASSUME TypeOK, room' = Append(room, "part") PROVE Saved' = Saved + 1
  OBVIOUS
<1> DEFINE P == {e \in DOMAIN room : room[e] = "part"}
           n == Len(room) + 1
<1>1. /\ Len(room) \in Nat /\ DOMAIN room = 1..Len(room) /\ DOMAIN room' = 1..n
      /\ room'[n] = "part" /\ \A e \in DOMAIN room : room'[e] = room[e]
  BY DEF TypeOK
<1>2. {e \in DOMAIN room' : room'[e] = "part"} = P \cup {n}
  <2>1. 1..n = (1..Len(room)) \cup {n}
    BY <1>1
  <2> QED
    BY <1>1, <2>1
<1>3. IsFiniteSet(P) /\ n \notin P
  <2>1. IsFiniteSet(1..Len(room)) /\ P \in SUBSET (1..Len(room))
    BY <1>1, FS_Interval
  <2>2. IsFiniteSet(P)
    BY <2>1, FS_Subset
  <2> QED
    BY <1>1, <2>2
<1>4. Cardinality(P \cup {n}) = Cardinality(P) + 1
  <2> HIDE DEF P, n
  <2> QED
    BY <1>3, FS_AddElement
<1> QED
  BY <1>2, <1>4 DEF Saved

LEMMA InitSavedInv == Init => SavedInv
<1> SUFFICES ASSUME Init PROVE SavedInv
  OBVIOUS
<1>1. pc = "segments" /\ room = <<>>
  BY DEF Init
<1> QED
  BY <1>1, NoneSaved DEF SavedInv

LEMMA NextSavedInv == IInv /\ SavedInv /\ [Next]_vars => SavedInv'
<1> SUFFICES ASSUME IInv, SavedInv, [Next]_vars PROVE SavedInv'
  OBVIOUS
<1>0. TypeOK /\ ControlInv /\ RoomInv' /\ TypeOK'
  BY NextInv DEF IInv
<1>1. CASE pc' # "save"
  <2>1. (\A e \in DOMAIN room : room[e] = "root")'
    BY <1>0, <1>1 DEF RoomInv
  <2>2. {e \in DOMAIN room' : room'[e] = "part"} = {}
    BY <2>1
  <2>3. Saved' = 0
    BY <2>2, FS_EmptySet DEF Saved
  <2> QED
    BY <1>1, <2>3 DEF SavedInv
<1>2. CASE Unreadable \/ Return
  <2>1. Saved' = 0
    BY <1>2 DEF Unreadable, Return, SavedInv, Saved
  <2>2. Len(parts') \in Nat /\ pc' = "save"
    BY <1>0, <1>2 DEF Unreadable, Return, TypeOK
  <2> QED
    BY <2>1, <2>2 DEF SavedInv
<1>3. CASE SavePart
  <2>1. pc = "save" /\ pc' = pc /\ parts' = parts /\ Saved < Len(parts)
        /\ room' = Append(room, "part")
    BY <1>3 DEF SavePart
  <2>2. Saved' = Saved + 1 /\ Saved \in Nat
    BY <1>0, <2>1, OneMoreSaved, SavedTyped
  <2>3. Len(parts) \in Nat /\ parts' = parts
    BY <1>0, <2>1 DEF TypeOK
  <2>4. pc' = "save" /\ Saved' <= Len(parts')
    BY <2>1, <2>2, <2>3
  <2> QED
    BY <2>4 DEF SavedInv
<1>4. CASE UNCHANGED <<pc, parts, room>>
  BY <1>4 DEF SavedInv, Saved
<1>5. ASSUME NEW i \in DOMAIN worker, Worker(i) PROVE SavedInv'
  BY <1>1, <1>4, <1>5 DEF Worker, Acquire, Convert, ConvertFails, ConvertPanics
<1> QED
  BY <1>1, <1>2, <1>3, <1>4, <1>5
  DEF Next, Segments, Download, Root, AfterWait, OtherSegment, ForwardSegment, Fetched,
      FetchFails, UseInline, FlattenFails, SendRoot, SendRootFails, ForwardFails, Merge, vars

(* The goroutines that have not finished, and those that wait for a slot.  *)
Running == {i \in DOMAIN worker : worker[i] # "finished"}
Waiting == {i \in DOMAIN worker : worker[i] = "waiting"}

LEMMA RunningFinite ==
  TypeOK => /\ IsFiniteSet(Running) /\ Cardinality(Running) \in Nat
            /\ IsFiniteSet(Waiting) /\ Cardinality(Waiting) \in Nat
<1> SUFFICES ASSUME TypeOK PROVE /\ IsFiniteSet(Running) /\ Cardinality(Running) \in Nat
                                 /\ IsFiniteSet(Waiting) /\ Cardinality(Waiting) \in Nat
  OBVIOUS
<1>1. DOMAIN worker = 1..Len(flat) /\ Len(flat) \in Nat
  BY DEF TypeOK
<1>2. IsFiniteSet(1..Len(flat))
  BY <1>1, FS_Interval
<1>3. Running \in SUBSET (1..Len(flat)) /\ Waiting \in SUBSET (1..Len(flat))
  BY <1>1 DEF Running, Waiting
<1>4. IsFiniteSet(Running) /\ IsFiniteSet(Waiting)
  BY <1>2, <1>3, FS_Subset
<1> QED
  BY <1>4, FS_CardinalityType

(* What is left to do is counted in naturals.                              *)
LEMMA LeftTyped ==
  IInv /\ SavedInv =>
    /\ SegmentsLeft \in Nat /\ ForwardLeft \in Nat /\ WorkLeft \in Nat
    /\ pc \notin {"save", "crashed"} => SegmentsLeft > 0
<1> SUFFICES ASSUME IInv, SavedInv
             PROVE /\ SegmentsLeft \in Nat /\ ForwardLeft \in Nat /\ WorkLeft \in Nat
                   /\ pc \notin {"save", "crashed"} => SegmentsLeft > 0
  OBVIOUS
<1>0. TypeOK /\ ControlInv
  BY DEF IInv
<1>1. Len(msg.segments) \in Nat /\ seg \in 0..Len(msg.segments)
  BY <1>0, ForwardAssumption DEF TypeOK
<1>2. SegmentsLeft \in Nat /\ (pc \notin {"save", "crashed"} => SegmentsLeft > 0)
  BY <1>1 DEF SegmentsLeft
<1>3. ForwardLeft \in Nat
  BY <1>0 DEF TypeOK, ForwardLeft
<1>4. WorkLeft \in Nat
  <2>1. Saved \in Nat /\ Len(parts) \in Nat
    BY <1>0, SavedTyped DEF TypeOK
  <2>2. Cardinality(Running) \in Nat /\ Cardinality(Waiting) \in Nat
    BY <1>0, RunningFinite
  <2> QED
    BY <2>1, <2>2 DEF WorkLeft, SavedInv, Running, Waiting
<1> QED
  BY <1>2, <1>3, <1>4

(* A goroutine takes a slot, or finishes.                                  *)
LEMMA WorkersAdvance ==
  ASSUME IInv, SavedInv, NEW i \in DOMAIN worker, Acquire(i) \/ Convert(i) \/ ConvertFails(i)
  PROVE  UNCHANGED <<SegmentsLeft, ForwardLeft>> /\ WorkLeft' < WorkLeft
<1>0. TypeOK /\ ControlInv
  BY DEF IInv
<1>1. pc # "save" /\ UNCHANGED <<pc, msg, seg, attempt>>
  <2>1. flat # <<>>
    BY <1>0, ConvertingFinite
  <2> QED
    BY <1>0, <2>1 DEF ControlInv, Acquire, Convert, ConvertFails
<1>2. /\ IsFiniteSet(Running) /\ Cardinality(Running) \in Nat
      /\ IsFiniteSet(Waiting) /\ Cardinality(Waiting) \in Nat
  BY <1>0, RunningFinite
<1>3. UNCHANGED <<SegmentsLeft, ForwardLeft>>
  BY <1>1 DEF SegmentsLeft, ForwardLeft
<1>4. /\ WorkLeft = Cardinality(Running) + Cardinality(Waiting)
      /\ WorkLeft' = Cardinality(Running') + Cardinality(Waiting')
  BY <1>1 DEF WorkLeft, Running, Waiting
<1>5. CASE Acquire(i)
  <2>1. i \in Waiting /\ Running' = Running /\ Waiting' = Waiting \ {i}
    BY <1>0, <1>5 DEF Acquire, TypeOK, Running, Waiting
  <2>2. Cardinality(Waiting') = Cardinality(Waiting) - 1
    BY <1>2, <2>1, FS_RemoveElement
  <2> QED
    BY <1>2, <1>3, <1>4, <2>1, <2>2
<1>6. CASE Convert(i) \/ ConvertFails(i)
  <2>1. i \in Running /\ Running' = Running \ {i} /\ Waiting' = Waiting
    BY <1>0, <1>6 DEF Convert, ConvertFails, TypeOK, Running, Waiting
  <2>2. Cardinality(Running') = Cardinality(Running) - 1
    BY <1>2, <2>1, FS_RemoveElement
  <2> QED
    BY <1>2, <1>3, <1>4, <2>1, <2>2
<1> QED
  BY <1>5, <1>6

(* ConversionAdvances: every step leaves less to do, in the order of       *)
(* segments, forward and work, whatever the answers, the failures and the  *)
(* schedule of the goroutines (OnebotToMatrix, DownloadForwardMsg,         *)
(* convertForwardMessage).                                                 *)
THEOREM EveryStepAdvances == Spec => ConversionAdvances
<1> DEFINE Less == \/ SegmentsLeft' < SegmentsLeft
                   \/ SegmentsLeft' = SegmentsLeft /\ ForwardLeft' < ForwardLeft
                   \/ UNCHANGED <<SegmentsLeft, ForwardLeft>> /\ WorkLeft' < WorkLeft
<1>1. IInv /\ SavedInv /\ [Next]_vars => [Less]_vars
  <2> SUFFICES ASSUME IInv, SavedInv, Next PROVE Less
    OBVIOUS
  <2>0. TypeOK /\ ControlInv /\ TypeOK' /\ SavedInv'
    BY NextInv, NextSavedInv DEF IInv
  <2>1. SegmentsLeft \in Nat /\ (pc \notin {"save", "crashed"} => SegmentsLeft > 0)
    BY LeftTyped
  <2>2. msg' = msg /\ Len(msg.segments) \in Nat /\ seg \in 0..Len(msg.segments)
    <3>1. msg' = msg
      BY DEF Next, Segments, Download, Root, AfterWait, Worker, Unreadable, OtherSegment,
             ForwardSegment, Return, Fetched, FetchFails, UseInline, FlattenFails, SendRoot,
             SendRootFails, ForwardFails, Merge, SavePart, Acquire, Convert, ConvertFails,
             ConvertPanics
    <3> QED
      BY <2>0, <3>1, ForwardAssumption DEF TypeOK
  <2>3. CASE Unreadable \/ Return \/ \E i \in DOMAIN worker : ConvertPanics(i)
    <3>1. pc \notin {"save", "crashed"}
      <4>1. CASE \E i \in DOMAIN worker : ConvertPanics(i)
        <5>1. flat # <<>>
          BY <2>0, <4>1, ConvertingFinite
        <5> QED
          BY <2>0, <5>1 DEF ControlInv
      <4> QED
        BY <2>3, <4>1 DEF Unreadable, Return
    <3>2. pc' \in {"save", "crashed"}
      BY <2>3 DEF Unreadable, Return, ConvertPanics
    <3> QED
      BY <2>1, <3>1, <3>2 DEF SegmentsLeft
  <2>4. CASE OtherSegment \/ ForwardSegment
    <3>1. pc = "segments" /\ pc' \in {"segments", "fetch", "inline"} /\ seg' = seg + 1
      BY <2>4 DEF OtherSegment, ForwardSegment
    <3> QED
      BY <2>2, <3>1 DEF SegmentsLeft
  <2>5. CASE Download \/ Root \/ AfterWait
    <3>1. /\ pc \in {"fetch", "inline", "flatten", "workers"}
          /\ pc' \in {"fetch", "inline", "flatten", "workers", "segments"} /\ seg' = seg
      BY <2>5
      DEF Download, Root, AfterWait, Fetched, FetchFails, UseInline, FlattenFails, SendRoot,
          SendRootFails, ForwardFails, Merge
    <3>2. SegmentsLeft' = SegmentsLeft
      BY <2>2, <3>1 DEF SegmentsLeft
    <3>3. ForwardLeft' < ForwardLeft
      <4>1. attempt \in 0..3 /\ (pc = "fetch" => attempt <= 2)
        BY <2>0 DEF TypeOK, ControlInv
      <4>2. CASE FetchFails
        <5>1. pc = "fetch" /\ pc' \in {"fetch", "inline"} /\ attempt' = attempt + 1
          BY <4>2 DEF FetchFails
        <5> QED
          BY <4>1, <5>1 DEF ForwardLeft
      <4>3. CASE Fetched
        <5>1. pc = "fetch" /\ pc' = "flatten"
          BY <4>3 DEF Fetched
        <5> QED
          BY <4>1, <5>1 DEF ForwardLeft
      <4>4. CASE UseInline \/ Root \/ AfterWait
        <5>1. \/ pc = "inline" /\ pc' \in {"flatten", "segments"}
              \/ pc = "flatten" /\ pc' \in {"workers", "segments"}
              \/ pc = "workers" /\ pc' = "segments"
          BY <4>4 DEF UseInline, Root, AfterWait, FlattenFails, SendRoot, SendRootFails,
                      ForwardFails, Merge
        <5> QED
          BY <5>1 DEF ForwardLeft
      <4> QED
        BY <2>5, <4>2, <4>3, <4>4 DEF Download
    <3> QED
      BY <3>2, <3>3
  <2>6. CASE SavePart
    <3>1. /\ pc = "save" /\ UNCHANGED <<pc, msg, seg, attempt, parts>> /\ Saved < Len(parts)
          /\ room' = Append(room, "part")
      BY <2>6 DEF SavePart
    <3>2. Saved' = Saved + 1 /\ Saved \in Nat
      BY <2>0, <3>1, OneMoreSaved, SavedTyped
    <3>3. Len(parts) \in Nat
      BY <2>0 DEF TypeOK
    <3>4. UNCHANGED <<SegmentsLeft, ForwardLeft>>
      BY <3>1 DEF SegmentsLeft, ForwardLeft
    <3>5. WorkLeft = Len(parts) - Saved /\ WorkLeft' = Len(parts) - Saved'
      BY <3>1 DEF WorkLeft
    <3> QED
      BY <3>1, <3>2, <3>3, <3>4, <3>5
  <2>7. ASSUME NEW i \in DOMAIN worker, Acquire(i) \/ Convert(i) \/ ConvertFails(i) PROVE Less
    BY <2>7, WorkersAdvance
  <2> HIDE DEF Less
  <2> QED
    BY <2>3, <2>4, <2>5, <2>6, <2>7 DEF Next, Segments, Worker
<1> QED
  BY <1>1, InitSavedInv, InvHolds, NextSavedInv, PTL DEF Spec, ConversionAdvances

(* A sequence of naturals that never grows settles.                        *)
LEMMA Settles ==
  ASSUME NEW f \in [Nat -> Nat], NEW m \in Nat, \A n \in Nat : n >= m => f[n + 1] <= f[n]
  PROVE  \E k \in Nat : k >= m /\ \A n \in Nat : n >= k => f[n] = f[k]
<1> DEFINE V == {f[n] : n \in {j \in Nat : j >= m}}
           R == {ss \in Nat \X Nat : ss[1] < ss[2]}
<1>1. V \subseteq Nat /\ f[m] \in V
  OBVIOUS
<1>2. PICK v \in V : \A w \in V : ~ (w < v)
  <2>1. IsWellFoundedOn(R, Nat)
    BY NatLessThanWellFounded DEF OpToRel
  <2>2. PICK v \in V : \A w \in V : ~ (<<w, v>> \in R)
    <3> HIDE DEF R, V
    <3> QED
      BY <1>1, <2>1, WFMin
  <2> HIDE DEF V
  <2> QED
    BY <1>1, <2>2
<1>3. PICK k \in Nat : k >= m /\ f[k] = v
  OBVIOUS
<1>4. \A n \in Nat : n >= m => f[n] >= v
  <2>1. ASSUME NEW n \in Nat, n >= m PROVE f[n] >= v
    <3>1. f[n] \in V /\ f[n] \in Nat /\ v \in Nat
      BY <1>1, <2>1
    <3>2. ~ (f[n] < v)
      <4> HIDE DEF V
      <4> QED
        BY <1>2, <3>1
    <3> QED
      BY <3>1, <3>2
  <2> QED
    BY <2>1
<1> HIDE DEF V, R
<1> DEFINE S == {d \in Nat : f[k + d] = f[k]}
<1>5. 0 \in S /\ \A d \in Nat : d \in S => d + 1 \in S
  <2>1. 0 \in S
    BY <1>3
  <2>2. ASSUME NEW d \in Nat, d \in S PROVE d + 1 \in S
    <3>1. k + d \in Nat /\ k + d >= m /\ f[k + d] = v /\ k + (d + 1) = (k + d) + 1
      BY <1>3, <2>2
    <3>2. f[(k + d) + 1] <= v /\ f[(k + d) + 1] >= v /\ f[(k + d) + 1] \in Nat /\ v \in Nat
      BY <1>1, <1>4, <3>1
    <3>3. f[k + (d + 1)] = v
      BY <3>1, <3>2
    <3> QED
      BY <1>3, <3>3
  <2> QED
    BY <2>1, <2>2
<1>6. Nat \subseteq S
  <2> HIDE DEF S
  <2> QED
    BY <1>5, SetInduction
<1>7. ASSUME NEW n \in Nat, n >= k PROVE f[n] = f[k]
  <2>1. n - k \in Nat /\ k + (n - k) = n
    BY <1>7
  <2>2. n - k \in S
    <3> HIDE DEF S
    <3> QED
      BY <1>6, <2>1
  <2>3. f[k + (n - k)] = f[k]
    BY <2>2
  <2> QED
    BY <2>1, <2>3
<1> QED
  BY <1>3, <1>7

(* No descent in the order of ConversionAdvances is endless: three numbers *)
(* cannot become less, in that order, at each of infinitely many steps.    *)
LEMMA NoEndlessDescent ==
  ASSUME NEW a \in [Nat -> Nat], NEW b \in [Nat -> Nat], NEW c \in [Nat -> Nat]
  PROVE  \E n \in Nat : ~ \/ a[n + 1] < a[n]
                          \/ a[n + 1] = a[n] /\ b[n + 1] < b[n]
                          \/ a[n + 1] = a[n] /\ b[n + 1] = b[n] /\ c[n + 1] < c[n]
<1> SUFFICES ASSUME \A n \in Nat : \/ a[n + 1] < a[n]
                                   \/ a[n + 1] = a[n] /\ b[n + 1] < b[n]
                                   \/ /\ a[n + 1] = a[n] /\ b[n + 1] = b[n]
                                      /\ c[n + 1] < c[n]
             PROVE  FALSE
  OBVIOUS
<1>1. PICK i \in Nat : \A n \in Nat : n >= i => a[n] = a[i]
  <2>1. \A n \in Nat : n >= 0 => a[n + 1] <= a[n]
    OBVIOUS
  <2> QED
    BY <2>1, Settles
<1>2. \A n \in Nat : n >= i => a[n + 1] = a[n]
  <2>1. ASSUME NEW n \in Nat, n >= i PROVE a[n + 1] = a[n]
    <3>1. n + 1 >= i /\ n + 1 \in Nat
      BY <2>1
    <3> QED
      BY <1>1, <2>1, <3>1
  <2> QED
    BY <2>1
<1>3. PICK j \in Nat : j >= i /\ \A n \in Nat : n >= j => b[n] = b[j]
  <2>1. \A n \in Nat : n >= i => b[n + 1] <= b[n]
    BY <1>2
  <2> QED
    BY <2>1, Settles
<1>4. \A n \in Nat : n >= j => a[n + 1] = a[n] /\ b[n + 1] = b[n]
  <2>1. ASSUME NEW n \in Nat, n >= j PROVE a[n + 1] = a[n] /\ b[n + 1] = b[n]
    <3>1. n >= i /\ n + 1 >= j /\ n + 1 \in Nat
      BY <1>3, <2>1
    <3> QED
      BY <1>2, <1>3, <2>1, <3>1
  <2> QED
    BY <2>1
<1>5. \A n \in Nat : n >= j => c[n + 1] < c[n]
  BY <1>4
<1>6. PICK k \in Nat : k >= j /\ \A n \in Nat : n >= k => c[n] = c[k]
  <2>1. \A n \in Nat : n >= j => c[n + 1] <= c[n]
    <3>1. ASSUME NEW n \in Nat, n >= j PROVE c[n + 1] <= c[n]
      <4>1. c[n + 1] < c[n] /\ c[n + 1] \in Nat /\ c[n] \in Nat
        BY <1>5, <3>1
      <4> QED
        BY <4>1
    <3> QED
      BY <3>1
  <2> QED
    BY <2>1, Settles
<1>7. c[k + 1] = c[k] /\ c[k + 1] < c[k] /\ c[k] \in Nat
  BY <1>5, <1>6
<1> QED
  BY <1>7

(* What is left to do is a number at each stage, so that no descent of it  *)
(* is endless, and while goroutines run no one waits in vain: one of them  *)
(* converts, or a slot is free for those that wait (wg.Wait returns).      *)
THEOREM NobodyWaitsInVain ==
  Spec => []( /\ SegmentsLeft \in Nat /\ ForwardLeft \in Nat /\ WorkLeft \in Nat
              /\ pc = "workers" => \/ AllFinished
                                   \/ \E i \in DOMAIN worker :
                                        \/ worker[i] = "converting"
                                        \/ worker[i] = "waiting" /\ sem < Concurrency )
<1>1. IInv /\ SavedInv =>
        /\ SegmentsLeft \in Nat /\ ForwardLeft \in Nat /\ WorkLeft \in Nat
        /\ pc = "workers" => \/ AllFinished
                             \/ \E i \in DOMAIN worker :
                                  \/ worker[i] = "converting"
                                  \/ worker[i] = "waiting" /\ sem < Concurrency
  <2> SUFFICES ASSUME IInv, SavedInv, NEW i \in DOMAIN worker, worker[i] # "finished",
                      \A j \in DOMAIN worker : worker[j] # "converting"
               PROVE  worker[i] = "waiting" /\ sem < Concurrency
    BY LeftTyped DEF AllFinished
  <2>1. TypeOK
    BY DEF IInv
  <2>2. Converting = {}
    BY DEF Converting
  <2>3. sem = 0
    BY <2>1, <2>2, FS_EmptySet DEF TypeOK, Converting
  <2> QED
    BY <2>1, <2>3, ForwardAssumption DEF TypeOK
<1> QED
  BY <1>1, InitSavedInv, InvHolds, NextSavedInv, PTL DEF Spec

-----------------------------------------------------------------------------
(* The rows of a message, with any forwards and shares                     *)

(* An ID leads to one event and an event has one ID, and the IDs of roots  *)
(* and of saved parts lead to an event at or before theirs.                *)
UniqueRows == \A r, q \in rows : r.id = q.id \/ r.event = q.event => r = q
Leads(rs, id, e) == \E r \in rs : r.id = id /\ r.event <= e
Roots == Len(room) - Saved

RowsInv ==
  /\ UniqueRows
  /\ \A e \in DOMAIN room \ failed :
       IF room[e] = "root" THEN Leads(rows, <<0>>, e) ELSE Leads(rows, parts[e - Roots].id, e)

(* The row is there, or another of its ID; nothing is lost.                *)
LEMMA InsertedRow ==
  ASSUME TypeOK, RowsInv, NEW id, Insert([id |-> id, event |-> Len(room) + 1])
  PROVE  /\ rows \subseteq rows' /\ failed \subseteq failed'
         /\ Len(room) + 1 \notin failed' => Leads(rows', id, Len(room) + 1)
         /\ UniqueRows'
<1> DEFINE n == Len(room) + 1
           new == [id |-> id, event |-> n]
<1>1. /\ \A r \in rows : r.event # n /\ r.event <= n
      /\ n \notin failed /\ n <= n
  BY DEF TypeOK
<1>2. new.id = id /\ new.event = n
  OBVIOUS
<1>3. Insert(new)
  OBVIOUS
<1> HIDE DEF new, n
<1>4. \/ /\ rows' = IF \E r \in rows : r.id = new.id THEN rows ELSE rows \cup {new}
         /\ failed' = failed
      \/ rows' = rows /\ failed' = failed \cup {n}
  BY <1>2, <1>3 DEF Insert
<1>5. n \notin failed' => \E r \in rows' : r.id = id /\ r.event <= n
  BY <1>1, <1>2, <1>4
<1>6. UniqueRows'
  BY <1>1, <1>2, <1>4 DEF RowsInv, UniqueRows
<1>7. n \notin failed' => Leads(rows', id, n)
  BY <1>5 DEF Leads, n
<1> QED
  BY <1>4, <1>6, <1>7 DEF n

(* Each step keeps RowsInv: rows are added by Insert alone.               *)
LEMMA NextRowsInv == IInv /\ SavedInv /\ RowsInv /\ [Next]_vars => RowsInv'
<1> SUFFICES ASSUME IInv, SavedInv, RowsInv, [Next]_vars PROVE RowsInv'
  OBVIOUS
<1>0. TypeOK /\ ControlInv /\ RoomInv
  BY DEF IInv
<1>a. Len(room) \in Nat /\ DOMAIN room = 1..Len(room)
  BY <1>0 DEF TypeOK
<1>b. rows \subseteq rows' => \A id, e : Leads(rows, id, e) => Leads(rows', id, e)
  BY DEF Leads
<1>1. CASE SendRoot
  <2>1. /\ room' = Append(room, "root") /\ pc = "flatten"
        /\ Insert([id |-> <<0>>, event |-> Len(room) + 1])
    BY <1>0, <1>1 DEF SendRoot, RootRow, TypeOK
  <2>2. /\ rows \subseteq rows' /\ failed \subseteq failed' /\ UniqueRows'
        /\ Len(room) + 1 \notin failed' => Leads(rows', <<0>>, Len(room) + 1)
    BY <1>0, <2>1, InsertedRow
  <2>3. /\ DOMAIN room' = 1..(Len(room) + 1) /\ room'[Len(room) + 1] = "root"
        /\ \A e \in DOMAIN room : room'[e] = "root" /\ room[e] = "root"
    BY <1>0, <1>a, <2>1 DEF RoomInv, TypeOK
  <2>4. ASSUME NEW e \in DOMAIN room', e \notin failed'
        PROVE  room'[e] = "root" /\ Leads(rows', <<0>>, e)
    <3>1. CASE e = Len(room) + 1
      BY <2>2, <2>3, <2>4, <3>1
    <3>2. CASE e # Len(room) + 1
      <4>1. e \in DOMAIN room \ failed
        BY <1>a, <2>2, <2>3, <2>4, <3>2
      <4>2. Leads(rows, <<0>>, e)
        BY <2>3, <4>1 DEF RowsInv
      <4> QED
        BY <1>b, <2>2, <2>3, <4>1, <4>2
    <3> QED
      BY <3>1, <3>2
  <2> QED
    BY <2>2, <2>4 DEF RowsInv
<1>2. CASE SavePart
  <2>1. /\ room' = Append(room, "part") /\ UNCHANGED parts
        /\ Insert([id |-> parts[Saved + 1].id, event |-> Len(room) + 1])
    BY <1>0, <1>2 DEF SavePart, TypeOK
  <2>2. Saved' = Saved + 1 /\ Saved \in Nat /\ Len(room') = Len(room) + 1
    BY <1>0, <1>a, <2>1, OneMoreSaved, SavedTyped
  <2>3. /\ rows \subseteq rows' /\ failed \subseteq failed' /\ UniqueRows'
        /\ Len(room) + 1 \notin failed' => Leads(rows', parts[Saved + 1].id, Len(room) + 1)
    BY <1>0, <2>1, InsertedRow
  <2>4. Roots' = Roots /\ Len(room) + 1 - Roots = Saved + 1
    BY <1>a, <2>2 DEF Roots
  <2>5. /\ DOMAIN room' = 1..(Len(room) + 1) /\ room'[Len(room) + 1] = "part"
        /\ \A e \in DOMAIN room : room'[e] = room[e]
    BY <1>0, <1>a, <2>1 DEF TypeOK
  <2>6. ASSUME NEW e \in DOMAIN room', e \notin failed'
        PROVE  IF room'[e] = "root" THEN Leads(rows', <<0>>, e)
               ELSE Leads(rows', parts[e - Roots].id, e)
    <3>1. CASE e = Len(room) + 1
      <4>1. room'[e] # "root" /\ Leads(rows', parts[Saved + 1].id, e)
        BY <2>3, <2>5, <2>6, <3>1
      <4>2. e - Roots = Saved + 1
        BY <1>a, <2>2, <3>1 DEF Roots
      <4> QED
        BY <4>1, <4>2
    <3>2. CASE e # Len(room) + 1
      <4>1. e \in DOMAIN room \ failed
        BY <1>a, <2>3, <2>5, <2>6, <3>2
      <4>2. IF room[e] = "root" THEN Leads(rows, <<0>>, e) ELSE Leads(rows, parts[e - Roots].id, e)
        BY <4>1 DEF RowsInv
      <4> QED
        BY <1>b, <2>3, <2>5, <4>1, <4>2
    <3> QED
      BY <3>1, <3>2
  <2>7. ASSUME NEW e \in DOMAIN room', e \notin failed'
        PROVE  IF room'[e] = "root" THEN Leads(rows', <<0>>, e)
               ELSE Leads(rows', parts'[e - Roots'].id, e)
    BY <2>1, <2>4, <2>6, <2>7
  <2> QED
    BY <2>3, <2>7 DEF RowsInv
<1>3. CASE pc # "save" /\ UNCHANGED <<room, rows, failed>>
  <2>1. \A e \in DOMAIN room : room[e] = "root"
    BY <1>0, <1>3 DEF RoomInv
  <2>2. \A e \in DOMAIN room \ failed : Leads(rows, <<0>>, e)
    BY <2>1 DEF RowsInv
  <2>3. UniqueRows' /\ rows' = rows
    BY <1>3 DEF RowsInv, UniqueRows, Leads
  <2> QED
    BY <1>3, <2>1, <2>2, <2>3 DEF RowsInv
<1>4. CASE UNCHANGED <<parts, room, rows, failed>>
  BY <1>4 DEF RowsInv, UniqueRows, Leads, Roots, Saved
<1>5. ASSUME NEW i \in DOMAIN worker, Worker(i) PROVE RowsInv'
  BY <1>4, <1>5 DEF Worker, Acquire, Convert, ConvertFails, ConvertPanics
<1> QED
  BY <1>1, <1>2, <1>3, <1>4, <1>5
  DEF Next, Segments, Download, Root, AfterWait, Unreadable, OtherSegment, ForwardSegment,
      Return, Fetched, FetchFails, UseInline, FlattenFails, SendRootFails, ForwardFails, Merge,
      vars

(* IDsKeepTheirEvent: also with several forwards, whose IDs are the same,  *)
(* and with rows the database did not write, an ID leads to one event, and *)
(* the ID of every other event leads to it or to an earlier one (the       *)
(* unique key of the message table).                                       *)
THEOREM EveryIDLeadsToOneEvent == Spec => []IDsKeepTheirEvent
<1>1. Init => RowsInv
  BY DEF Init, RowsInv, UniqueRows
<1>2. IInv /\ RowsInv => IDsKeepTheirEvent
  <2> SUFFICES ASSUME IInv, RowsInv PROVE IDsKeepTheirEvent
    OBVIOUS
  <2>1. UniqueRows
    BY DEF RowsInv
  <2>2. ASSUME NEW e \in DOMAIN room \ failed
        PROVE  \E r \in rows : r.id = EventID(e) /\ r.event <= e
    <3>1. Leads(rows, EventID(e), e)
      BY DEF RowsInv, EventID, Roots
    <3> QED
      BY <3>1 DEF Leads
  <2> QED
    BY <2>1, <2>2 DEF UniqueRows, IDsKeepTheirEvent
<1> QED
  BY <1>1, <1>2, InitSavedInv, InvHolds, NextSavedInv, NextRowsInv, PTL DEF Spec

-----------------------------------------------------------------------------
(* The segments of a message: the inductive invariant of MediaMessage      *)

(* The decoded segments are segments of the message that decode.           *)
DecodedInv ==
  \A i \in DOMAIN segments : segments[i].is # "broken" /\ \E j \in DOMAIN raw : segments[i] = raw[j]

(* Where DownloadMedia goes on to ask the agent, or a link after the       *)
(* agent, the segment does not hang on its link alone.                     *)
SourceInv ==
  /\ step \in {"api", "link"} => ~ LinkOnly(current)
  /\ step = "link" => "api" \in tried

(* The pieces are those of the segments, media of media and no others, and *)
(* at the end there is one for each.                                       *)
PieceInv ==
  /\ \A i \in DOMAIN pieces : pieces[i].as # "content" <=> segments[i].type \in Media
  /\ step = "done" => Len(pieces) = Len(segments)

MediaInv ==
  /\ MediaTypeOK /\ DecodedInv /\ SourceInv /\ PieceInv
  /\ UndecodableIsHarmless /\ FallbacksAreTried

Sources == {"url", "file", "api", "garbled"}

(* generateSegments gives segments of the list, and none that does not     *)
(* decode.                                                                 *)
LEMMA DecodedSegments ==
  ASSUME NEW list \in Seq(MediaSegments)
  PROVE  /\ GenerateSegments(list) \in Seq(MediaSegments)
         /\ \A i \in DOMAIN GenerateSegments(list) :
              /\ GenerateSegments(list)[i].is # "broken"
              /\ \E j \in DOMAIN list : GenerateSegments(list)[i] = list[j]
<1> DEFINE s == [i \in DOMAIN list |-> IF list[i].is = "broken" THEN <<>> ELSE <<list[i]>>]
           r == FlattenSeq(s)
<1>1. s \in Seq(Seq(MediaSegments)) /\ Len(s) = Len(list)
  <2>1. Len(list) \in Nat /\ DOMAIN list = 1..Len(list)
    OBVIOUS
  <2>2. \A i \in 1..Len(list) :
          (IF list[i].is = "broken" THEN <<>> ELSE <<list[i]>>) \in Seq(MediaSegments)
    OBVIOUS
  <2> QED
    BY <2>1, <2>2
<1>2. \A i \in DOMAIN list : s[i] = IF list[i].is = "broken" THEN <<>> ELSE <<list[i]>>
  OBVIOUS
<1>3. GenerateSegments(list) = r
  BY DEF GenerateSegments
<1> HIDE DEF s
<1>4. r \in Seq(MediaSegments) /\ Lists(r, s, Len(list))
  BY <1>1, FlattenSeqLists
<1> HIDE DEF r
<1>5. PICK row, col : ListedBy(r, s, Len(list), row, col)
  BY <1>4 DEF Lists
<1>6. ASSUME NEW i \in DOMAIN r
      PROVE  r[i].is # "broken" /\ \E j \in DOMAIN list : r[i] = list[j]
  <2>1. row[i] \in DOMAIN list
    BY <1>5 DEF ListedBy
  <2>2. col[i] \in DOMAIN s[row[i]] /\ r[i] = s[row[i]][col[i]]
    BY <1>5 DEF ListedBy
  <2>3. list[row[i]].is # "broken"
    <3>1. ASSUME list[row[i]].is = "broken" PROVE FALSE
      <4>1. s[row[i]] = <<>>
        BY <1>2, <2>1, <3>1
      <4> QED
        BY <2>2, <4>1
    <3> QED
      BY <3>1
  <2>4. s[row[i]] = <<list[row[i]]>>
    BY <1>2, <2>1, <2>3
  <2>5. r[i] = list[row[i]]
    BY <2>2, <2>4
  <2> QED
    BY <2>1, <2>3, <2>5
<1> QED
  BY <1>3, <1>4, <1>6

LEMMA InitMediaInv == MediaInit => MediaInv
<1> SUFFICES ASSUME MediaInit PROVE MediaInv
  OBVIOUS
<1>1. raw \in Seq(MediaSegments)
  <2>1. PICK n \in 1..MaxSegments : raw \in [1..n -> MediaSegments]
    BY DEF MediaInit
  <2>2. n \in Nat
    BY SegmentsAssumption
  <2> QED
    BY <2>1, <2>2
<1>2. segments \in Seq(MediaSegments) /\ DecodedInv
  BY <1>1, DecodedSegments DEF MediaInit, DecodedInv
<1>3. pieces \in Seq(PieceType) /\ Len(pieces) = 0 /\ Len(segments) \in Nat
  BY <1>2 DEF MediaInit
<1>4. MediaTypeOK
  BY <1>1, <1>2, <1>3 DEF MediaInit, MediaTypeOK
<1>5. DOMAIN pieces = {}
  BY <1>3
<1> QED
  BY <1>2, <1>4, <1>5
  DEF MediaInit, MediaInv, SourceInv, PieceInv, UndecodableIsHarmless, FallbacksAreTried

(* DownloadMedia goes on with the segment at hand.                         *)
LEMMA GoesOn ==
  ASSUME MediaInv, UNCHANGED <<inputs, pieces>>, Rendering, current.type \in Media,
         step' \in {"prefer", "direct", "api", "link", "upload"}, tried' \subseteq Sources,
         step' \in {"api", "link"} => ~ LinkOnly(current),
         step' = "link" => "api" \in tried'
  PROVE  MediaInv'
<1>1. UNCHANGED <<raw, forwarded, encrypted, segments, pieces>> /\ current' = current
  BY DEF inputs, current
<1>2. MediaTypeOK'
  BY <1>1 DEF MediaInv, MediaTypeOK, Rendering, Sources
<1>3. DecodedInv' /\ UndecodableIsHarmless'
  BY <1>1 DEF MediaInv, DecodedInv, UndecodableIsHarmless
<1>4. SourceInv'
  BY <1>1 DEF SourceInv
<1>5. PieceInv' /\ FallbacksAreTried'
  BY <1>1 DEF MediaInv, PieceInv, FallbacksAreTried
<1> QED
  BY <1>2, <1>3, <1>4, <1>5 DEF MediaInv

(* The segment at hand gets its piece.                                     *)
LEMMA GetsPiece ==
  ASSUME MediaInv, UNCHANGED inputs, Rendering, step' = "walk", tried' \subseteq Sources,
         NEW as \in {"content", "media", "missing", "unsent"}, Piece(as),
         as # "content" <=> current.type \in Media,
         as = "missing" => /\ URL(current) = "http" => tried' \cap {"url", "garbled"} # {}
                           /\ "api" \in tried' \/ LinkOnly(current)
  PROVE  MediaInv'
<1> DEFINE n == Len(pieces)
           piece == [as |-> as, tried |-> tried']
<1>1. /\ UNCHANGED <<raw, forwarded, encrypted, segments>>
      /\ pieces' = Append(pieces, piece) /\ current = segments[n + 1]
  BY DEF inputs, Piece, current
<1>2. piece \in PieceType /\ piece.as = as /\ piece.tried = tried'
  BY DEF PieceType, Sources
<1>3. /\ pieces \in Seq(PieceType) /\ n \in Nat /\ Len(segments) \in Nat /\ n + 1 <= Len(segments)
      /\ DOMAIN pieces = 1..n
  BY DEF MediaInv, MediaTypeOK, Rendering
<1> HIDE DEF piece
<1>4. /\ pieces' \in Seq(PieceType) /\ Len(pieces') = n + 1 /\ DOMAIN pieces' = 1..(n + 1)
      /\ \A i \in DOMAIN pieces : pieces'[i] = pieces[i]
      /\ pieces'[n + 1] = piece
  BY <1>1, <1>2, <1>3
<1>5. \A i \in DOMAIN pieces' : i \in DOMAIN pieces \/ i = n + 1
  BY <1>3, <1>4
<1> HIDE DEF n
<1>6. MediaTypeOK'
  BY <1>1, <1>3, <1>4 DEF MediaInv, MediaTypeOK, Sources
<1>7. DecodedInv' /\ UndecodableIsHarmless' /\ SourceInv'
  BY <1>1 DEF MediaInv, DecodedInv, UndecodableIsHarmless, SourceInv
<1>8. PieceInv'
  BY <1>1, <1>2, <1>4, <1>5 DEF MediaInv, PieceInv
<1>9. ASSUME NEW i \in DOMAIN pieces', pieces'[i].as = "missing"
      PROVE  /\ URL(segments[i]) = "http" => pieces'[i].tried \cap {"url", "garbled"} # {}
             /\ "api" \in pieces'[i].tried \/ LinkOnly(segments[i])
  <2>1. CASE i \in DOMAIN pieces
    BY <1>4, <1>9, <2>1 DEF MediaInv, FallbacksAreTried
  <2>2. CASE i = n + 1
    BY <1>1, <1>2, <1>4, <1>9, <2>2
  <2> QED
    BY <1>5, <1>9, <2>1, <2>2
<1>10. FallbacksAreTried'
  BY <1>1, <1>9 DEF FallbacksAreTried, URL, LinkOnly
<1> QED
  BY <1>6, <1>7, <1>8, <1>10 DEF MediaInv

LEMMA NextMediaInv == MediaInv /\ [MediaNext]_mediaVars => MediaInv'
<1> SUFFICES ASSUME MediaInv, [MediaNext]_mediaVars PROVE MediaInv'
  OBVIOUS
<1>0. MediaTypeOK /\ DecodedInv /\ SourceInv /\ PieceInv
  BY DEF MediaInv
<1>a. tried \subseteq Sources /\ {"url", "file", "api", "garbled"} \subseteq Sources
  BY <1>0 DEF MediaTypeOK, Sources
<1>b. step \notin {"walk", "done", "panicked"} => Rendering /\ current.type \in Media
  BY <1>0 DEF MediaTypeOK
<1>1. CASE GetterPanics
  <2>1. /\ UNCHANGED <<raw, forwarded, encrypted, segments, pieces, tried>>
        /\ step' = "panicked" /\ Rendering /\ current.is # "sound"
    BY <1>1 DEF GetterPanics, inputs
  <2>2. \E i \in DOMAIN raw : raw[i].is = "lacking"
    <3>1. Len(pieces) + 1 \in DOMAIN segments /\ current \in MediaSegments
      BY <1>0, <2>1 DEF MediaTypeOK, Rendering, current
    <3>2. current.is # "broken" /\ \E j \in DOMAIN raw : current = raw[j]
      BY <1>0, <3>1 DEF DecodedInv, current
    <3>3. current.is = "lacking"
      BY <2>1, <3>1, <3>2, SegmentsAssumption DEF SegmentType
    <3> QED
      BY <3>2, <3>3
  <2>3. MediaTypeOK'
    BY <1>0, <2>1 DEF MediaTypeOK, Rendering
  <2> QED
    BY <1>0, <2>1, <2>2, <2>3
    DEF MediaInv, DecodedInv, SourceInv, PieceInv, UndecodableIsHarmless, FallbacksAreTried
<1>2. CASE RenderSegment
  <2>1. /\ UNCHANGED inputs /\ Rendering /\ step' = "walk" /\ tried' \subseteq Sources
        /\ Piece("content") /\ current.type \notin Media
    BY <1>2, <1>a DEF RenderSegment
  <2> QED
    BY <2>1, GetsPiece
<1>3. CASE ConvertMediaMessage
  <2>1. /\ UNCHANGED <<inputs, pieces>> /\ Rendering /\ current.type \in Media
        /\ step' = "prefer" /\ tried' \subseteq Sources
    BY <1>3 DEF ConvertMediaMessage
  <2> QED
    BY <2>1, GoesOn
<1>4. CASE PreferHTTP
  <2>1. /\ UNCHANGED <<inputs, pieces>> /\ Rendering /\ current.type \in Media
        /\ step' \in {"direct", "upload"} /\ tried' \subseteq Sources
    BY <1>4, <1>a, <1>b DEF PreferHTTP, Obtain, TryNext, Skip, PreferredLink
  <2> QED
    BY <2>1, GoesOn
<1>5. CASE DownloadDirect
  <2>1. Rendering /\ current.type \in Media
    BY <1>5, <1>b DEF DownloadDirect
  <2>2. CASE LinkOnly(current) /\ Obtain("url")
    <3>1. UNCHANGED <<inputs, pieces>> /\ step' = "upload" /\ tried' \subseteq Sources
      BY <1>a, <2>2 DEF Obtain, TryNext
    <3> QED
      BY <2>1, <3>1, GoesOn
  <2>3. CASE LinkOnly(current) /\ GiveUp({"url"})
    <3>1. /\ UNCHANGED inputs /\ step' = "walk" /\ tried' \subseteq Sources /\ "url" \in tried'
          /\ Piece("missing")
      BY <1>a, <2>3 DEF GiveUp
    <3>2. tried' \cap {"url", "garbled"} # {}
      BY <3>1
    <3> QED
      BY <2>1, <2>3, <3>1, <3>2, GetsPiece
  <2>4. CASE ~ LinkOnly(current) /\ Skip("api")
    <3>1. UNCHANGED <<inputs, pieces>> /\ step' = "api" /\ tried' \subseteq Sources
      BY <1>a, <2>4 DEF Skip
    <3> QED
      BY <2>1, <2>4, <3>1, GoesOn
  <2> QED
    BY <1>5, <2>2, <2>3, <2>4 DEF DownloadDirect
<1>6. CASE RequestFile
  <2>1. Rendering /\ current.type \in Media /\ ~ LinkOnly(current)
    BY <1>0, <1>6, <1>b DEF RequestFile, SourceInv
  <2>2. CASE Obtain("api") \/ TryNext("api", "link")
    <3>1. /\ UNCHANGED <<inputs, pieces>> /\ step' \in {"upload", "link"}
          /\ tried' \subseteq Sources /\ "api" \in tried'
      BY <1>a, <2>2 DEF Obtain, TryNext
    <3> QED
      BY <2>1, <3>1, GoesOn
  <2>3. CASE GiveUp({"api", "garbled"})
    <3>1. /\ UNCHANGED inputs /\ step' = "walk" /\ tried' \subseteq Sources /\ "api" \in tried'
          /\ "garbled" \in tried' /\ Piece("missing")
      BY <1>a, <2>3 DEF GiveUp
    <3>2. tried' \cap {"url", "garbled"} # {}
      BY <3>1
    <3> QED
      BY <2>1, <3>1, <3>2, GetsPiece
  <2> QED
    BY <1>6, <2>2, <2>3 DEF RequestFile
<1>7. CASE DownloadLink
  <2>1. Rendering /\ current.type \in Media /\ "api" \in tried
    BY <1>0, <1>7, <1>b DEF DownloadLink, SourceInv
  <2>2. CASE Obtain("url")
    <3>1. UNCHANGED <<inputs, pieces>> /\ step' = "upload" /\ tried' \subseteq Sources
      BY <1>a, <2>2 DEF Obtain, TryNext
    <3> QED
      BY <2>1, <3>1, GoesOn
  <2>3. CASE GiveUp({"url"})
    <3>1. /\ UNCHANGED inputs /\ step' = "walk" /\ tried' \subseteq Sources /\ "api" \in tried'
          /\ "url" \in tried' /\ Piece("missing")
      BY <1>a, <2>1, <2>3 DEF GiveUp
    <3>2. tried' \cap {"url", "garbled"} # {}
      BY <3>1
    <3> QED
      BY <2>1, <3>1, <3>2, GetsPiece
  <2>4. CASE URL(current) # "http" /\ GiveUp({})
    <3>1. /\ UNCHANGED inputs /\ step' = "walk" /\ tried' \subseteq Sources /\ "api" \in tried'
          /\ Piece("missing")
      BY <1>a, <2>1, <2>4 DEF GiveUp
    <3> QED
      BY <2>1, <2>4, <3>1, GetsPiece
  <2> QED
    BY <1>7, <2>2, <2>3, <2>4 DEF DownloadLink
<1>8. CASE UploadMedia
  <2>1. /\ UNCHANGED inputs /\ Rendering /\ current.type \in Media /\ step' = "walk"
        /\ tried' \subseteq Sources /\ (Piece("media") \/ Piece("unsent"))
    BY <1>8, <1>a, <1>b DEF UploadMedia
  <2>2. CASE Piece("media")
    BY <2>1, <2>2, GetsPiece
  <2>3. CASE Piece("unsent")
    BY <2>1, <2>3, GetsPiece
  <2> QED
    BY <2>1, <2>2, <2>3
<1>9. CASE Assemble \/ UNCHANGED mediaVars
  <2>1. /\ UNCHANGED <<raw, forwarded, encrypted, segments, pieces, tried>>
        /\ UNCHANGED step \/ (step' = "done" /\ ~ Rendering)
    BY <1>9 DEF Assemble, inputs, mediaVars
  <2>2. ~ Rendering => Len(pieces) = Len(segments)
    BY <1>0 DEF MediaTypeOK, Rendering
  <2>3. MediaTypeOK'
    BY <1>0, <2>1 DEF MediaTypeOK, Rendering, current
  <2>4. PieceInv'
    BY <1>0, <2>1, <2>2 DEF PieceInv
  <2> QED
    BY <1>0, <2>1, <2>3, <2>4
    DEF MediaInv, DecodedInv, SourceInv, current, UndecodableIsHarmless, FallbacksAreTried
<1> QED
  BY <1>1, <1>2, <1>3, <1>4, <1>5, <1>6, <1>7, <1>8, <1>9 DEF MediaNext

LEMMA MediaInvHolds == MediaSpec => []MediaInv
  BY InitMediaInv, NextMediaInv, PTL DEF MediaSpec

(* The variables of a conversion keep their types, pieces are those of the *)
(* segments rendered so far, and sources are asked for media only          *)
(* (renderSegment and DownloadMedia).                                      *)
THEOREM MediaTypeCorrect == MediaSpec => []MediaTypeOK
<1>1. MediaInv => MediaTypeOK
  BY DEF MediaInv
<1> QED
  BY <1>1, MediaInvHolds, PTL

(* A segment that does not decode takes nothing else with it: only one     *)
(* that decodes and lacks a field makes a getter panic (generateSegments). *)
THEOREM BadSegmentsAreHarmless == MediaSpec => []UndecodableIsHarmless
<1>1. MediaInv => UndecodableIsHarmless
  BY DEF MediaInv
<1> QED
  BY <1>1, MediaInvHolds, PTL

(* Media are given up last, after each source that there is                *)
(* (Client.DownloadMedia).                                                 *)
THEOREM AllSourcesAreTried == MediaSpec => []FallbacksAreTried
<1>1. MediaInv => FallbacksAreTried
  BY DEF MediaInv
<1> QED
  BY <1>1, MediaInvHolds, PTL

(* Each segment of a message without a share leaves a trace in it, within  *)
(* the limits that NothingVanishes names (OnebotToMatrix and               *)
(* convertMessageItem).                                                    *)
THEOREM EverySegmentLeavesATrace == MediaSpec => []NothingVanishes
<1>1. MediaInv => NothingVanishes
  <2> SUFFICES ASSUME MediaInv, step = "done", Shares = {}, NEW i \in Positions
               PROVE  /\ Shown(i) = "nothing" =>
                           /\ forwarded /\ segments[i].type \notin Media
                           /\ segments[i].type = "reply" \/ Cardinality(MediaParts) = 1
                      /\ CameThrough(i) /\ ~ encrypted =>
                           \/ Shown(i) = "itself"
                           \/ forwarded /\ segments[i].type \notin Pictures
                      /\ pieces[i].as \in {"missing", "unsent"} => Shown(i) \in {"notice", "mark"}
    BY DEF NothingVanishes
  <2>1. DOMAIN pieces = DOMAIN segments
    BY DEF MediaInv, PieceInv, MediaTypeOK
  <2>2. pieces[i].as # "content" <=> segments[i].type \in Media
    BY <2>1 DEF MediaInv, PieceInv, Positions
  <2>3. i \in MediaParts <=> segments[i].type \in Media
    BY DEF MediaParts, Positions
  <2>4. "reply" \notin Media
    BY DEF Media, Pictures
  <2>5. CASE forwarded
    <3>1. Shown(i) = ShownForwarded(i)
      BY <2>5 DEF Shown
    <3> HIDE DEF Media, Pictures
    <3> QED
      BY <2>2, <2>3, <2>4, <2>5, <3>1 DEF ShownForwarded, CameThrough, Native
  <2>6. CASE ~ forwarded
    <3>1. Shown(i) = ShownPlain(i)
      BY <2>6 DEF Shown
    <3> QED
      BY <2>2, <2>3, <2>6, <3>1 DEF ShownPlain, CameThrough, Native
  <2> QED
    BY <2>5, <2>6
<1> QED
  BY <1>1, MediaInvHolds, PTL
=============================================================================
