--------------------------- MODULE ArticleProofs ---------------------------
(***************************************************************************)
(* The parsers take from every article what the rules of its dictionary     *)
(* take, whatever dictionaries and kinds of text there are and however long *)
(* the article is.                                                          *)
(*                                                                          *)
(* CardAsWritten speaks of the finished card only and is not inductive.     *)
(* ArticleInv says what holds at every moment: the elements are nested as   *)
(* the grammar has it and the pieces name those that were around them       *)
(* (Frame); the flags of the parser are those of the elements open now      *)
(* (Shape), and its lists and buffers are what the article read so far      *)
(* says, less the elements that are still open (Content).  So each handler  *)
(* is compared with what one more tag or one more piece does to the         *)
(* meaning of an article.  The meaning of the old pieces never changes      *)
(* (the Same... lemmas), and a list of the article either stays or grows    *)
(* by a last entry (the ...More and ...Read lemmas).                        *)
(***************************************************************************)
EXTENDS Article, FiniteSetTheorems, SequenceTheorems, WellFoundedInduction, TLAPS

-----------------------------------------------------------------------------
(* Numbers in order.                                                       *)

\* Every set of natural numbers has a least one.
LEMMA Least ==
  ASSUME NEW S, S \subseteq Nat, S # {}
  PROVE  \E x \in S : \A y \in S : x <= y
<1> DEFINE R == {ss \in Nat \X Nat : ss[1] < ss[2]}
<1>1. IsWellFoundedOn(R, Nat)
  BY NatLessThanWellFounded DEF OpToRel
<1> HIDE DEF R
<1>2. PICK x \in S : \A y \in S : <<y, x>> \notin R
  BY <1>1, WFMin
<1>3. ASSUME NEW y \in S PROVE x <= y
  <2>1. <<y, x>> \in Nat \X Nat /\ <<y, x>>[1] = y /\ <<y, x>>[2] = x
    OBVIOUS
  <2>2. ~ (y < x)
    BY <1>2, <2>1 DEF R
  <2> QED
    BY <2>1, <2>2
<1> QED
  BY <1>3

\* A number above all others comes last and moves none of them.
LEMMA NthGrow ==
  ASSUME NEW S, IsFiniteSet(S), S \subseteq Nat, NEW m \in Nat, \A s \in S : s < m
  PROVE  /\ IsFiniteSet(S \cup {m}) /\ Cardinality(S) \in Nat
         /\ Cardinality(S \cup {m}) = Cardinality(S) + 1
         /\ Nth(S \cup {m}, Cardinality(S) + 1) = m
         /\ \A k \in 1..Cardinality(S) : Nth(S \cup {m}, k) = Nth(S, k)
<1> DEFINE T == S \cup {m}
           n == Cardinality(S)
           Up(U, y) == {z \in U : z <= y}
           At(U, k) == {y \in U : Cardinality(Up(U, y)) = k}
<1>1. m \notin S /\ n \in Nat /\ IsFiniteSet(T) /\ Cardinality(T) = n + 1
  BY FS_CardinalityType, FS_AddElement
<1>2. ASSUME NEW y \in S PROVE Up(T, y) = Up(S, y) /\ Cardinality(Up(S, y)) <= n
  <2>1. Up(T, y) = Up(S, y)
    OBVIOUS
  <2>2. Up(S, y) \in SUBSET S
    OBVIOUS
  <2> QED
    BY <2>1, <2>2, FS_Subset
<1>3. Up(T, m) = T
  <2>1. \A z \in T : z <= m
    OBVIOUS
  <2> QED
    BY <2>1
<1>4. \A U, k : Nth(U, k) = CHOOSE x \in At(U, k) : TRUE
  BY DEF Nth
<1> HIDE DEF Up
<1>5. At(T, n + 1) = {m}
  <2>1. \A y \in T : Cardinality(Up(T, y)) = n + 1 => y = m
    BY <1>1, <1>2
  <2>2. Cardinality(Up(T, m)) = n + 1
    BY <1>1, <1>3
  <2> QED
    BY <2>1, <2>2
<1>6. ASSUME NEW k \in 1..n PROVE At(T, k) = At(S, k)
  <2>1. \A y \in S : Up(T, y) = Up(S, y)
    BY <1>2
  <2>2. Cardinality(Up(T, m)) # k
    <3>1. k \in Int /\ k <= n
      BY <1>1, <1>6
    <3>2. Cardinality(Up(T, m)) = n + 1
      BY <1>1, <1>3
    <3> HIDE DEF n
    <3> QED
      BY <1>1, <3>1, <3>2
  <2> QED
    BY <2>1, <2>2
<1> HIDE DEF At
<1>7. Nth(T, n + 1) = m
  BY <1>5, <1>4
<1>8. \A k \in 1..n : Nth(T, k) = Nth(S, k)
  BY <1>6, <1>4
<1> QED
  BY <1>1, <1>7, <1>8

\* The k-th number of a set is in it, and they grow from the least to the greatest.
InOrder(S) ==
  /\ \A k \in 1..Cardinality(S) : Nth(S, k) \in S
  /\ \A j, k \in 1..Cardinality(S) : j < k => Nth(S, j) < Nth(S, k)
  /\ \A s \in S : \E k \in 1..Cardinality(S) : s = Nth(S, k)

\* The numbers of a finite set can be told in order.
LEMMA NthIn ==
  ASSUME NEW S, NEW b \in Nat, S \subseteq 1..b
  PROVE  IsFiniteSet(S) /\ Cardinality(S) \in Nat /\ InOrder(S)
<1> DEFINE Bad == {k \in Nat : \E T \in SUBSET (1..k) : ~ InOrder(T)}
<1>1. \A k \in Nat : \A T \in SUBSET (1..k) :
         IsFiniteSet(T) /\ Cardinality(T) \in Nat /\ T \subseteq Nat
  <2> SUFFICES ASSUME NEW k \in Nat, NEW T \in SUBSET (1..k)
               PROVE  IsFiniteSet(T) /\ Cardinality(T) \in Nat /\ T \subseteq Nat
    OBVIOUS
  <2>1. IsFiniteSet(1..k)
    BY FS_Interval
  <2>2. IsFiniteSet(T)
    BY <2>1, FS_Subset
  <2> QED
    BY <2>2, FS_CardinalityType
<1>2. ASSUME Bad # {} PROVE FALSE
  <2>1. PICK k \in Bad : \A j \in Bad : k <= j
    BY <1>2, Least
  <2>2. PICK T \in SUBSET (1..k) : ~ InOrder(T)
    BY <2>1
  <2>3. k # 0
    <3> SUFFICES ASSUME k = 0 PROVE FALSE
      OBVIOUS
    <3>1. T = {}
      BY <2>2
    <3>2. Cardinality(T) = 0
      BY <3>1, FS_EmptySet
    <3> QED
      BY <2>2, <3>1, <3>2 DEF InOrder
  <2>4. k - 1 \in Nat /\ k - 1 \notin Bad
    BY <2>1, <2>3
  <2>5. k \in T
    <3>1. k \notin T => T \in SUBSET (1..(k - 1))
      BY <2>1
    <3> QED
      BY <2>2, <2>4, <3>1
  <2> DEFINE U == T \ {k}
             n == Cardinality(U)
  <2>6. U \in SUBSET (1..(k - 1)) /\ T = U \cup {k} /\ \A s \in U : s < k
    BY <2>1, <2>5
  <2>7. InOrder(U) /\ IsFiniteSet(U) /\ U \subseteq Nat
    BY <1>1, <2>4, <2>6
  <2> HIDE DEF U
  <2>8. /\ n \in Nat /\ Cardinality(T) = n + 1 /\ Nth(T, n + 1) = k
        /\ \A j \in 1..n : Nth(T, j) = Nth(U, j)
    BY <2>1, <2>6, <2>7, NthGrow
  <2>9. \A j \in 1..n : Nth(U, j) \in U
    BY <2>7 DEF InOrder
  <2> HIDE DEF n
  <2>10. \A j \in 1..Cardinality(T) : Nth(T, j) \in T
    BY <2>5, <2>6, <2>8, <2>9
  <2>11. \A i, j \in 1..Cardinality(T) : i < j => Nth(T, i) < Nth(T, j)
    <3> SUFFICES ASSUME NEW i \in 1..(n + 1), NEW j \in 1..(n + 1), i < j
                 PROVE  Nth(T, i) < Nth(T, j)
      BY <2>8
    <3>1. i \in 1..n
      BY <2>8
    <3>2. CASE j = n + 1
      BY <2>6, <2>8, <2>9, <3>1, <3>2
    <3>3. CASE j \in 1..n
      BY <2>7, <2>8, <3>1, <3>3 DEF InOrder, n
    <3> QED
      BY <2>8, <3>2, <3>3
  <2>12. ASSUME NEW s \in T PROVE \E j \in 1..Cardinality(T) : s = Nth(T, j)
    <3>1. CASE s = k
      BY <2>8, <3>1
    <3>2. CASE s \in U
      <4>1. PICK j \in 1..n : s = Nth(U, j)
        BY <2>7, <3>2 DEF InOrder, n
      <4> QED
        BY <2>8, <4>1
    <3> QED
      BY <2>6, <3>1, <3>2
  <2> QED
    BY <2>2, <2>10, <2>11, <2>12 DEF InOrder
<1>3. S \in SUBSET (1..b) /\ b \notin Bad
  BY <1>2
<1> QED
  BY <1>1, <1>3

\* A list with one entry more.
IsList(s, n) == s = [k \in 1..n |-> s[k]]

\* A list is extended by an entry if its other entries stay.
LEMMA Extended ==
  ASSUME NEW n \in Nat, NEW s, NEW t, IsList(s, n), IsList(t, n + 1),
         \A k \in 1..n : t[k] = s[k]
  PROVE  t = Append(s, t[n + 1])
<1> DEFINE T == {t[k] : k \in 1..(n + 1)}
           u == Append(s, t[n + 1])
<1>1. s \in Seq(T) /\ Len(s) = n
  <2>1. \A k \in 1..n : s[k] \in T
    OBVIOUS
  <2> QED
    BY <2>1 DEF IsList
<1>2. t \in Seq(T) /\ Len(t) = n + 1 /\ t[n + 1] \in T
  BY IsASeq DEF IsList
<1>3. /\ u \in Seq(T) /\ Len(u) = n + 1 /\ u[n + 1] = t[n + 1]
      /\ \A k \in 1..n : u[k] = s[k]
  BY <1>1, <1>2, AppendProperties
<1> HIDE DEF u, T
<1>4. \A k \in 1..(n + 1) : u[k] = t[k]
  <2>1. \A k \in 1..(n + 1) : k \in 1..n \/ k = n + 1
    OBVIOUS
  <2> QED
    BY <1>3, <2>1
<1> QED
  BY <1>2, <1>3, <1>4, SeqEqual DEF u

\* An article with one piece more.
Grown(P, a, x, b) == a \in Seq(P) /\ x \in P /\ b = Append(a, x)

\* The places of the longer article, and what is at them.
LEMMA GrownAt ==
  ASSUME NEW P, NEW a, NEW x, NEW b, Grown(P, a, x, b)
  PROVE  /\ Len(a) \in Nat /\ Len(b) = Len(a) + 1 /\ DOMAIN a = 1..Len(a)
         /\ DOMAIN b = 1..(Len(a) + 1) /\ Places(b) = Places(a) \cup {Len(a) + 1}
         /\ b \in Seq(P) /\ b[Len(a) + 1] = x /\ \A i \in 1..Len(a) : b[i] = a[i]
<1>1. /\ Len(a) \in Nat /\ Len(b) = Len(a) + 1 /\ DOMAIN a = 1..Len(a)
      /\ b \in Seq(P) /\ b[Len(a) + 1] = x /\ \A i \in 1..Len(a) : b[i] = a[i]
  BY AppendProperties, LenProperties DEF Grown
<1>2. DOMAIN b = 1..(Len(a) + 1)
  BY <1>1, LenProperties
<1> QED
  BY <1>1, <1>2 DEF Places

\* The old pieces read the same.
LEMMA ReadKept ==
  ASSUME NEW P, NEW a, NEW x, NEW b, Grown(P, a, x, b), NEW S, S \subseteq Places(a)
  PROVE  Read(b, S) = Read(a, S)
<1>1. /\ Len(a) \in Nat /\ S \subseteq 1..Len(a) /\ \A i \in 1..Len(a) : b[i] = a[i]
  <2>1. /\ Len(a) \in Nat /\ DOMAIN a = 1..Len(a) /\ \A i \in 1..Len(a) : b[i] = a[i]
    BY GrownAt
  <2> QED
    BY <2>1 DEF Places
<1>2. \A k \in 1..Cardinality(S) : Nth(S, k) \in 1..Len(a)
  BY <1>1, NthIn DEF InOrder
<1>3. \A i \in 1..Len(a) : Piece(b, i) = Piece(a, i)
  BY <1>1 DEF Piece
<1> QED
  BY <1>2, <1>3 DEF Read

\* The new piece is read after the old ones.
LEMMA ReadMore ==
  ASSUME NEW P, NEW a, NEW x, NEW b, Grown(P, a, x, b), NEW S, S \subseteq Places(a),
         NEW m, m = Len(a) + 1
  PROVE  Read(b, S \cup {m}) = Append(Read(a, S), Piece(b, m))
<1> DEFINE n == Cardinality(S)
           s == Read(a, S)
           t == Read(b, S \cup {m})
<1>1. /\ Len(a) \in Nat /\ S \subseteq 1..Len(a) /\ \A i \in 1..Len(a) : b[i] = a[i]
      /\ m \in Nat /\ \A i \in S : i < m
      /\ b[m] = x
  <2>1. /\ Len(a) \in Nat /\ DOMAIN a = 1..Len(a) /\ \A i \in 1..Len(a) : b[i] = a[i]
        /\ b[m] = x
    BY GrownAt
  <2>2. S \subseteq 1..Len(a)
    BY <2>1 DEF Places
  <2> QED
    BY <2>1, <2>2
<1>2. /\ n \in Nat /\ IsFiniteSet(S) /\ S \subseteq Nat
      /\ \A k \in 1..n : Nth(S, k) \in 1..Len(a)
  <2>1. n \in Nat /\ IsFiniteSet(S) /\ InOrder(S)
    BY <1>1, NthIn
  <2>2. \A k \in 1..n : Nth(S, k) \in S
    BY <2>1 DEF InOrder
  <2>3. S \subseteq Nat
    BY <1>1
  <2> HIDE DEF n
  <2> QED
    BY <1>1, <2>1, <2>2, <2>3
<1>3. /\ Cardinality(S \cup {m}) = n + 1 /\ Nth(S \cup {m}, n + 1) = m
      /\ \A k \in 1..n : Nth(S \cup {m}, k) = Nth(S, k)
  BY <1>1, <1>2, NthGrow
<1>4. \A i \in 1..Len(a) : Piece(b, i) = Piece(a, i)
  BY <1>1 DEF Piece
<1>5. s = [k \in 1..n |-> Piece(a, Nth(S, k))]
  BY DEF Read
<1>6. t = [k \in 1..(n + 1) |-> Piece(b, Nth(S \cup {m}, k))]
  BY <1>3 DEF Read
<1>7. n + 1 \in 1..(n + 1) /\ \A k \in 1..n : k \in 1..(n + 1)
  BY <1>2
<1> HIDE DEF n, s, t
<1>8. IsList(s, n) /\ IsList(t, n + 1)
  BY <1>5, <1>6 DEF IsList
<1>9. \A k \in 1..n : t[k] = s[k]
  <2> SUFFICES ASSUME NEW k \in 1..n PROVE t[k] = s[k]
    OBVIOUS
  <2>1. t[k] = Piece(b, Nth(S \cup {m}, k)) /\ s[k] = Piece(a, Nth(S, k))
    BY <1>5, <1>6, <1>7
  <2> QED
    BY <1>2, <1>3, <1>4, <2>1
<1>10. t[n + 1] = Piece(b, m)
  BY <1>1, <1>3, <1>6, <1>7
<1>11. t = Append(s, t[n + 1])
  BY <1>2, <1>8, <1>9, Extended
<1> QED
  BY <1>10, <1>11 DEF s, t

\* The texts of closed elements stay; a further element comes last.
LEMMA ReadEachKept ==
  ASSUME NEW a, NEW b, NEW t \in Nat, NEW N, N \subseteq 1..t,
         \A n \in N : Text(b, n) = Text(a, n)
  PROVE  ReadEach(b, N) = ReadEach(a, N)
<1>1. \A k \in 1..Cardinality(N) : Nth(N, k) \in N
  BY NthIn DEF InOrder
<1> QED
  BY <1>1 DEF ReadEach

\* The text of an element after all the others comes last.
LEMMA ReadEachMore ==
  ASSUME NEW a, NEW t \in Nat, NEW N, N \subseteq 1..t, NEW n \in 1..t, \A o \in N : o < n
  PROVE  ReadEach(a, N \cup {n}) = Append(ReadEach(a, N), Text(a, n))
<1> DEFINE c == Cardinality(N)
           r == ReadEach(a, N)
           s == ReadEach(a, N \cup {n})
<1>1. n \in Nat /\ N \subseteq Nat
  OBVIOUS
<1>2. c \in Nat /\ IsFiniteSet(N)
  BY NthIn
<1>3. /\ Cardinality(N \cup {n}) = c + 1 /\ Nth(N \cup {n}, c + 1) = n
      /\ \A k \in 1..c : Nth(N \cup {n}, k) = Nth(N, k)
  BY <1>1, <1>2, NthGrow
<1>4. r = [k \in 1..c |-> Text(a, Nth(N, k))]
  BY DEF ReadEach
<1>5. s = [k \in 1..(c + 1) |-> Text(a, Nth(N \cup {n}, k))]
  BY <1>3 DEF ReadEach
<1>6. c + 1 \in 1..(c + 1) /\ \A k \in 1..c : k \in 1..(c + 1)
  BY <1>2
<1> HIDE DEF c, r, s
<1>7. IsList(r, c) /\ IsList(s, c + 1)
  BY <1>4, <1>5 DEF IsList
<1>8. s[c + 1] = Text(a, n) /\ \A k \in 1..c : s[k] = r[k]
  BY <1>3, <1>4, <1>5, <1>6
<1>9. s = Append(r, s[c + 1])
  BY <1>2, <1>7, <1>8, Extended
<1> QED
  BY <1>8, <1>9 DEF r, s

\* A list is empty if there is nothing to list.
LEMMA ReadLength ==
  ASSUME NEW a, NEW t \in Nat, NEW S, S \subseteq 1..t
  PROVE  /\ Len(Read(a, S)) = Cardinality(S) /\ Cardinality(S) \in Nat
         /\ Read(a, S) = <<>> <=> S = {}
         /\ S # {} => Read(a, S)[1] = Piece(a, Nth(S, 1)) /\ Nth(S, 1) \in S
                      /\ \A i \in S : Nth(S, 1) <= i
<1>1. IsFiniteSet(S) /\ Cardinality(S) \in Nat /\ InOrder(S)
  BY NthIn
<1> DEFINE n == Cardinality(S)
           r == Read(a, S)
<1>2. r = [k \in 1..n |-> Piece(a, Nth(S, k))] /\ Len(r) = n
  BY <1>1 DEF Read
<1>3. n = 0 <=> S = {}
  BY <1>1, FS_EmptySet
<1>4. r = <<>> <=> n = 0
  <2> HIDE DEF n, r
  <2>1. r = <<>> => n = 0
    BY <1>2
  <2>2. n = 0 => 1..n = {}
    OBVIOUS
  <2>3. n = 0 => r = <<>>
    BY <1>2, <2>2
  <2> QED
    BY <2>1, <2>3
<1>5. ASSUME S # {}
      PROVE  r[1] = Piece(a, Nth(S, 1)) /\ Nth(S, 1) \in S /\ \A i \in S : Nth(S, 1) <= i
  <2>1. S \subseteq Int /\ n \in Nat /\ n # 0
    <3>1. S \subseteq Int
      OBVIOUS
    <3>2. n \in Nat
      BY <1>1
    <3>3. n # 0
      BY <1>3, <1>5
    <3> QED
      BY <3>1, <3>2, <3>3
  <2>2. 1 \in 1..n
    <3> HIDE DEF n
    <3> QED
      BY <2>1
  <2>3. Nth(S, 1) \in S
    BY <1>1, <2>2 DEF InOrder
  <2>4. r[1] = Piece(a, Nth(S, 1))
    BY <1>2, <2>2
  <2>5. ASSUME NEW i \in S PROVE Nth(S, 1) <= i
    <3>1. PICK k \in 1..n : i = Nth(S, k)
      BY <1>1 DEF InOrder
    <3>2. 1 < k => Nth(S, 1) < Nth(S, k)
      BY <1>1, <2>2 DEF InOrder
    <3>3. k = 1 \/ 1 < k
      BY <1>1
    <3>4. i \in Int /\ Nth(S, 1) \in Int
      BY <2>1, <2>3
    <3> QED
      BY <2>2, <3>1, <3>2, <3>3, <3>4
  <2> QED
    BY <2>3, <2>4, <2>5
<1> QED
  BY <1>1, <1>2, <1>3, <1>4, <1>5

-----------------------------------------------------------------------------
(* What has been read of an article says the same whatever comes after it. *)

\* The elements around an old piece.
LEMMA SameElements ==
  ASSUME NEW P, NEW a, NEW x, NEW b, Grown(P, a, x, b), NEW i \in 1..Len(a)
  PROVE  /\ b[i] = a[i] /\ (Plain(b, i) <=> Plain(a, i))
         /\ \A els : In(b, i, els) <=> In(a, i, els)
         /\ \A n : InElement(b, i, n) <=> InElement(a, i, n)
         /\ (Indented(b, i) <=> Indented(a, i)) /\ (Grammar(b, i) <=> Grammar(a, i))
         /\ (Bold(b, i) <=> Bold(a, i)) /\ (Lozenge(b, i) <=> Lozenge(a, i))
         /\ (Free(b, i) <=> Free(a, i)) /\ (Separates(b, i) <=> Separates(a, i))
<1>1. b[i] = a[i]
  BY GrownAt
<1> QED
  BY <1>1 DEF Plain, In, InElement, Indented, Grammar, Bold, Lozenge, Free, Separates

\* Whether an old piece is shown, and whether it is a number.
LEMMA SameShown ==
  ASSUME NEW P, NEW a, NEW x, NEW b, Grown(P, a, x, b), NEW i \in 1..Len(a)
  PROVE  /\ Shown(b, i) <=> Shown(a, i)
         /\ Numbers(b, i) <=> Numbers(a, i)
         /\ Body(b, i) <=> Body(a, i)
<1>1. Len(a) \in Nat
  BY GrownAt
<1>2. \A k \in 1..i : k \in 1..Len(a)
  BY <1>1
<1>3. \A k \in 1..i : Separates(b, k) <=> Separates(a, k)
  BY <1>2, SameElements
<1>4. Shown(b, i) <=> Shown(a, i)
  BY <1>3, SameElements DEF Shown
<1> QED
  BY <1>4, SameElements DEF Numbers, Body

\* Whether an old piece begins a definition or names the part of speech.
LEMMA SameBegins ==
  ASSUME NEW P, NEW a, NEW x, NEW b, Grown(P, a, x, b), NEW i \in 1..Len(a)
  PROVE  /\ Begins(b, i) <=> Begins(a, i)
         /\ NamesExplanatory(b, i) <=> NamesExplanatory(a, i)
<1>1. Len(a) \in Nat
  BY GrownAt
<1>2. \A k \in 1..(i - 1) : k \in 1..Len(a)
  BY <1>1
<1>3. \A k \in 1..(i - 1) : /\ Numbers(b, k) <=> Numbers(a, k)
                            /\ Body(b, k) <=> Body(a, k)
                            /\ Indented(b, k) <=> Indented(a, k)
  BY <1>2, SameShown, SameElements
<1>4. /\ Numbers(b, i) <=> Numbers(a, i)
      /\ Body(b, i) <=> Body(a, i)
      /\ Indented(b, i) <=> Indented(a, i)
      /\ Shown(b, i) <=> Shown(a, i)
      /\ \A els : In(b, i, els) <=> In(a, i, els)
  BY SameShown, SameElements
<1> QED
  BY <1>3, <1>4 DEF Begins, NamesExplanatory

\* Whether an old piece belongs to a definition.
LEMMA SameParts ==
  ASSUME NEW P, NEW a, NEW x, NEW b, Grown(P, a, x, b), NEW i \in 1..Len(a), NEW o
  PROVE  PartOf(b, i, o) <=> PartOf(a, i, o)
<1>1. Len(a) \in Nat
  BY GrownAt
<1>2. \A k \in 1..i : k \in 1..Len(a)
  BY <1>1
<1>3. \A k \in 1..i : Begins(b, k) <=> Begins(a, k)
  BY <1>2, SameBegins
<1> QED
  BY <1>3 DEF PartOf

\* Where the bold text of an old piece begins, and whether it is a number.
LEMMA SameOpening ==
  ASSUME NEW P, NEW a, NEW x, NEW b, Grown(P, a, x, b), NEW i \in 1..Len(a)
  PROVE  /\ Opening(b, i) = Opening(a, i)
         /\ Bold(a, i) => Opening(a, i) \in 1..i
         /\ NumberBold(b, i) <=> NumberBold(a, i)
<1> DEFINE S(c) == {k \in 1..i : \E y \in c[i].within : y.el = "strong" /\ y \in c[k].within}
<1>1. Len(a) \in Nat /\ i \in 1..i
  BY GrownAt
<1>2. \A k \in 1..i : k \in 1..Len(a) /\ b[k] = a[k]
  BY <1>1, GrownAt
<1>3. S(b) = S(a)
  BY <1>1, <1>2
<1>4. Opening(b, i) = Min(S(b)) /\ Opening(a, i) = Min(S(a))
  BY DEF Opening
<1>5. ASSUME Bold(a, i) PROVE Opening(a, i) \in 1..i
  <2>1. S(a) # {} /\ S(a) \subseteq Nat
    BY <1>1, <1>5 DEF Bold, In
  <2> HIDE DEF S
  <2>2. \E y \in S(a) : \A k \in S(a) : y <= k
    BY <2>1, Least
  <2>3. Min(S(a)) \in S(a)
    BY <2>2 DEF Min
  <2> QED
    BY <1>4, <2>3 DEF S
<1> HIDE DEF S
<1>6. Opening(b, i) = Opening(a, i)
  BY <1>3, <1>4
<1>7. Bold(b, i) <=> Bold(a, i)
  BY SameElements
<1> QED
  BY <1>2, <1>5, <1>6, <1>7 DEF NumberBold

-----------------------------------------------------------------------------
(* The elements around a text.                                             *)

BlockEls == {"p", "ms", "table"}
InlineEls == {"hw", "alt", "phr", "strong", "v-ex", "abbr", "label", "accent"}
Marks == [el : BlockEls \cup InlineEls, nr : Nat]
Texted == [kind : Kinds, within : SUBSET Marks]

\* The outermost of the elements o, and the one in it.
Block(o) == IF o = <<>> THEN "none" ELSE o[1].el
Inline(o) == IF Len(o) < 2 THEN "none" ELSE o[2].el

\* The open elements are nested as the grammar has it, and numbered as they were
\* opened: a paragraph or table, a part of a paragraph, and accents or labels in it.
Nesting ==
  /\ dict \in Dictionaries /\ tags \in Nat /\ open \in Seq(Marks)
  /\ \A k \in 1..Len(open) : open[k].nr \in 1..tags
  /\ \A j, k \in 1..Len(open) : j < k => open[j].nr < open[k].nr
  /\ Block(open) \in {"none"} \cup Blocks[dict]
  /\ Inline(open) \in {"none", "hw"} \cup Inlines[dict]
  /\ Block(open) = "table" => Len(open) = 1
  /\ \A k \in 3..Len(open) :
       open[k].el \in {"accent", "label"} /\ (open[k].el = "label" => Inline(open) = "v-ex")

\* The elements of each dictionary.
LEMMA Markup ==
  ASSUME dict \in Dictionaries
  PROVE  /\ dict \in {"explanatory", "rbs10", "klyshka"}
         /\ Blocks[dict] \subseteq BlockEls /\ Inlines[dict] \subseteq InlineEls \ {"hw"}
         /\ dict = "klyshka" => Blocks[dict] = {"p"} /\ Inlines[dict] = {"accent"}
         /\ dict = "rbs10" => /\ Blocks[dict] = {"p", "ms"}
                              /\ Inlines[dict] = {"strong", "abbr", "label", "accent"}
         /\ dict = "explanatory" =>
              /\ Blocks[dict] = {"p", "ms", "table"}
              /\ Inlines[dict] = {"alt", "phr", "strong", "v-ex", "abbr", "label", "accent"}
BY ArticleAssumption DEF Blocks, Inlines, BlockEls, InlineEls

\* What the grammar asks of the elements around, in terms of the two.
LEMMA Surroundings ==
  ASSUME Nesting
  PROVE  /\ Len(open) \in Nat /\ DOMAIN open = 1..Len(open) /\ (open = <<>> <=> Len(open) = 0)
         /\ Block(open) = "none" <=> Len(open) = 0
         /\ Inline(open) = "none" <=> Len(open) < 2
         /\ Len(open) > 0 => /\ open[1] \in Marks /\ open[1].el = Block(open)
                             /\ Block(open) \in BlockEls
         /\ Len(open) > 1 => /\ open[2] \in Marks /\ open[2].el = Inline(open)
                             /\ Inline(open) \in InlineEls /\ Block(open) # "table"
         /\ \A k \in 1..Len(open) : open[k] \in Marks
         /\ \A k \in 3..Len(open) : k \in 1..Len(open)
<1>1. /\ Len(open) \in Nat /\ DOMAIN open = 1..Len(open) /\ (open = <<>> <=> Len(open) = 0)
      /\ \A k \in 1..Len(open) : open[k] \in Marks
  BY LenProperties, EmptySeq DEF Nesting
<1>2. Len(open) > 0 => /\ open[1] \in Marks /\ open[1].el = Block(open)
                       /\ Block(open) \in BlockEls
  <2> SUFFICES ASSUME Len(open) > 0
               PROVE  open[1] \in Marks /\ open[1].el = Block(open) /\ Block(open) \in BlockEls
    OBVIOUS
  <2>1. open[1] \in Marks /\ open[1].el = Block(open)
    BY <1>1 DEF Block
  <2>2. Block(open) # "none"
    BY <2>1 DEF Marks, BlockEls, InlineEls
  <2> QED
    BY <2>1, <2>2, Markup DEF Nesting
<1>3. Len(open) > 1 => /\ open[2] \in Marks /\ open[2].el = Inline(open)
                       /\ Inline(open) \in InlineEls /\ Block(open) # "table"
  <2> SUFFICES ASSUME Len(open) > 1
               PROVE  /\ open[2] \in Marks /\ open[2].el = Inline(open)
                      /\ Inline(open) \in InlineEls /\ Block(open) # "table"
    OBVIOUS
  <2>1. open[2] \in Marks /\ open[2].el = Inline(open)
    BY <1>1 DEF Inline
  <2>2. Inline(open) # "none"
    BY <2>1 DEF Marks, BlockEls, InlineEls
  <2>3. Inline(open) \in InlineEls
    BY <2>1, <2>2, Markup DEF Nesting, InlineEls
  <2> QED
    BY <1>1, <2>1, <2>3 DEF Nesting
<1>4. Block(open) = "none" <=> Len(open) = 0
  BY <1>1, <1>2 DEF Block, BlockEls
<1>5. Inline(open) = "none" <=> Len(open) < 2
  BY <1>1, <1>3 DEF Inline, InlineEls
<1> QED
  BY <1>1, <1>2, <1>3, <1>4, <1>5

\* Elements are around a text as the grammar nests them.
LEMMA AroundText ==
  ASSUME Nesting
  PROVE  /\ Around = {open[k].el : k \in 1..Len(open)}
         /\ InBlock <=> Len(open) = 1 /\ Block(open) \in {"p", "ms"}
         /\ \A e \in InlineEls \ {"accent", "label"} : e \in Around <=> Inline(open) = e
         /\ "table" \in Around <=> Block(open) = "table"
         /\ Around = {} <=> Len(open) = 0
<1> USE Surroundings
<1>1. Around = {open[k].el : k \in 1..Len(open)}
  BY DEF Around
<1>2. \A k \in 1..Len(open) : /\ k = 1 => open[k].el = Block(open)
                              /\ k = 2 => open[k].el = Inline(open)
                              /\ k = 1 \/ k = 2 \/ k \in 3..Len(open)
  OBVIOUS
<1>3. Around = {} <=> Len(open) = 0
  <2>1. Len(open) > 0 => open[1].el \in Around
    BY <1>1
  <2> QED
    BY <1>1, <2>1
<1>4. InBlock <=> Len(open) = 1 /\ Block(open) \in {"p", "ms"}
  <2>1. ASSUME Len(open) = 1 PROVE Around = {Block(open)}
    BY <1>1, <2>1
  <2>2. ASSUME Len(open) > 1 PROVE Around \notin {{"p"}, {"ms"}}
    <3>1. Inline(open) \in Around /\ Inline(open) \in InlineEls
      BY <1>1, <2>2
    <3> QED
      BY <3>1 DEF InlineEls
  <2>3. Len(open) = 1 => Block(open) \in BlockEls
    OBVIOUS
  <2>4. Len(open) = 0 \/ Len(open) = 1 \/ Len(open) > 1
    OBVIOUS
  <2>5. Len(open) = 1 => (InBlock <=> Block(open) \in {"p", "ms"})
    <3>1. {Block(open)} \in {{"p"}, {"ms"}} <=> Block(open) \in {"p", "ms"}
      OBVIOUS
    <3> QED
      BY <2>1, <3>1 DEF InBlock
  <2>6. Len(open) # 1 => ~ InBlock
    BY <1>3, <2>2, <2>4 DEF InBlock
  <2> QED
    BY <2>5, <2>6
<1>5. ASSUME NEW e \in InlineEls \ {"accent", "label"} PROVE e \in Around <=> Inline(open) = e
  <2>1. ASSUME e \in Around PROVE Inline(open) = e
    <3>1. PICK k \in 1..Len(open) : open[k].el = e
      BY <1>1, <2>1
    <3>2. k # 1
      BY <1>2, <3>1 DEF BlockEls, InlineEls
    <3>3. ~ (k \in 3..Len(open))
      BY <3>1 DEF Nesting
    <3> QED
      BY <1>2, <3>1, <3>2, <3>3
  <2>2. ASSUME Inline(open) = e PROVE e \in Around
    <3>1. Len(open) > 1
      BY <2>2 DEF Inline, InlineEls
    <3> QED
      BY <1>1, <2>2, <3>1
  <2> QED
    BY <2>1, <2>2
<1>6. "table" \in Around <=> Block(open) = "table"
  <2>1. ASSUME "table" \in Around PROVE Block(open) = "table"
    <3>1. PICK k \in 1..Len(open) : open[k].el = "table"
      BY <1>1, <2>1
    <3>2. k # 2
      BY <1>2, <3>1 DEF InlineEls
    <3>3. ~ (k \in 3..Len(open))
      BY <3>1 DEF Nesting
    <3> QED
      BY <1>2, <3>1, <3>2, <3>3
  <2>2. ASSUME Block(open) = "table" PROVE "table" \in Around
    <3>1. Len(open) > 0 /\ open[1].el = "table"
      BY <2>2
    <3> QED
      BY <1>1, <3>1
  <2> QED
    BY <2>1, <2>2
<1> QED
  BY <1>1, <1>3, <1>4, <1>5, <1>6

\* A tag opens a paragraph or table, a part of a paragraph, or something in a part.
LEMMA Opened ==
  ASSUME Nesting, NEW e \in Elements, StartTag(e)
  PROVE  /\ open' \in Seq(Marks) /\ Len(open') = Len(open) + 1
         /\ \A k \in 1..Len(open) : open'[k] = open[k]
         /\ open'[Len(open) + 1] = [el |-> e, nr |-> tags + 1]
         /\ \/ /\ Len(open) = 0 /\ e \in Blocks[dict] /\ Block(open') = e
               /\ Inline(open') = "none" /\ (tags = 0 => e = "p")
            \/ /\ Len(open) = 1 /\ Block(open) \in {"p", "ms"} /\ Block(open') = Block(open)
               /\ Inline(open') = e /\ (pieces = <<>> => e = "hw")
               /\ (pieces # <<>> => e \in Inlines[dict])
            \/ /\ Len(open) > 1 /\ Block(open') = Block(open) /\ Inline(open') = Inline(open)
               /\ e \in {"accent", "label"} /\ (e = "label" => Inline(open) = "v-ex")
               /\ pieces = <<>> => Inline(open) = "v-ex"
<1> USE Surroundings
<1>1. /\ open' = Append(open, [el |-> e, nr |-> tags + 1])
      /\ MayOpen(e)
  BY DEF StartTag
<1>2. \/ Len(open) = 0 /\ e \in Blocks[dict] /\ (tags = 0 => e = "p")
      \/ /\ Len(open) = 1 /\ Block(open) \in {"p", "ms"}
         /\ (pieces = <<>> => e = "hw") /\ (pieces # <<>> => e \in Inlines[dict])
      \/ /\ Len(open) > 1
         /\ e \in {"accent", "label"} /\ (e = "label" => Inline(open) = "v-ex")
         /\ pieces = <<>> => Inline(open) = "v-ex"
  <2>1. CASE AtTop /\ IF tags = 0 THEN e = "p" ELSE e \in Blocks[dict]
    <3>1. "p" \in Blocks[dict]
      BY Markup DEF Nesting
    <3> QED
      BY <2>1, <3>1 DEF AtTop
  <2>2. CASE InBlock /\ IF pieces = <<>> THEN e = "hw" ELSE e \in Inlines[dict]
    BY <2>2, AroundText
  <2>3. CASE /\ Around # {} /\ Around \cap {"accent", "table"} = {}
             /\ pieces # <<>> /\ ~ InBlock /\ e = "accent"
    <3>1. Len(open) # 0 /\ Block(open) # "table"
      BY <2>3, AroundText
    <3>2. Len(open) # 1
      BY <2>3, <3>1, AroundText DEF BlockEls
    <3> QED
      BY <2>3, <3>1, <3>2
  <2>4. CASE "v-ex" \in Around /\ "accent" \notin Around /\ e = "label"
    <3>1. Inline(open) = "v-ex"
      BY <2>4, AroundText DEF InlineEls
    <3> QED
      BY <2>4, <3>1
  <2> QED
    BY <1>1, <2>1, <2>2, <2>3, <2>4 DEF MayOpen
<1>3. [el |-> e, nr |-> tags + 1] \in Marks
  <2>1. e \in BlockEls \cup InlineEls
    BY <1>2, Markup DEF Nesting, InlineEls
  <2> QED
    BY <2>1 DEF Marks, Nesting
<1>4. /\ open' \in Seq(Marks) /\ Len(open') = Len(open) + 1
      /\ \A k \in 1..Len(open) : open'[k] = open[k]
      /\ open'[Len(open) + 1] = [el |-> e, nr |-> tags + 1]
  BY <1>1, <1>3, AppendProperties DEF Nesting
<1>5. open' # <<>> /\ Block(open') = open'[1].el
  BY <1>4, EmptySeq DEF Block
<1>6. Len(open') > 1 => Inline(open') = open'[2].el
  BY <1>4 DEF Inline
<1>7. CASE Len(open) = 0
  BY <1>2, <1>4, <1>5, <1>7 DEF Inline
<1>8. CASE Len(open) = 1
  BY <1>2, <1>4, <1>5, <1>6, <1>8
<1>9. CASE Len(open) > 1
  <2>1. Block(open') = Block(open) /\ Inline(open') = Inline(open)
    BY <1>4, <1>5, <1>6, <1>9
  <2> QED
    BY <1>2, <1>4, <1>9, <2>1
<1> QED
  BY <1>7, <1>8, <1>9

\* An end tag closes the innermost element.
LEMMA Ended ==
  ASSUME Nesting, EndTag
  PROVE  /\ Len(open) > 0 /\ open' \in Seq(Marks) /\ Len(open') = Len(open) - 1
         /\ \A k \in 1..Len(open') : k \in 1..Len(open) /\ open'[k] = open[k]
         /\ \/ /\ Len(open) = 1 /\ Block(open') = "none" /\ Inline(open') = "none"
               /\ open[Len(open)].el = Block(open)
            \/ /\ Len(open) = 2 /\ Block(open') = Block(open) /\ Inline(open') = "none"
               /\ open[Len(open)].el = Inline(open)
            \/ /\ Len(open) > 2 /\ Block(open') = Block(open) /\ Inline(open') = Inline(open)
               /\ open[Len(open)].el \in {"accent", "label"}
               /\ open[Len(open)].el = "label" => Inline(open) = "v-ex"
<1> USE Surroundings
<1>1. open # <<>> /\ Len(open) > 0 /\ open' = SubSeq(open, 1, Len(open) - 1)
  BY DEF EndTag
<1>2. /\ open' \in Seq(Marks) /\ Len(open') = Len(open) - 1
      /\ \A k \in 1..Len(open') : open'[k] = open[k]
  <2> DEFINE n == Len(open) - 1
             s == SubSeq(open, 1, n)
  <2>1. n \in Int /\ n >= 0 /\ \A k \in 1..n : k \in 1..Len(open)
    BY <1>1
  <2>2. s \in Seq(Marks) /\ Len(s) = n /\ \A k \in 1..n : s[k] = open[k]
    <3>1. 1 \in Int /\ \A k \in 1..n : open[k] \in Marks
      BY <2>1
    <3> HIDE DEF s, n
    <3>2. /\ SubSeq(open, 1, n) \in Seq(Marks)
          /\ Len(SubSeq(open, 1, n)) = IF 1 <= n THEN n - 1 + 1 ELSE 0
          /\ \A i \in 1..(n - 1 + 1) : SubSeq(open, 1, n)[i] = open[1 + i - 1]
      BY <2>1, <3>1, SubSeqProperties
    <3>3. /\ n - 1 + 1 = n /\ (\A i \in 1..n : 1 + i - 1 = i)
          /\ (IF 1 <= n THEN n ELSE 0) = n
      BY <2>1
    <3> QED
      BY <3>2, <3>3 DEF s
  <2> QED
    BY <1>1, <2>2
<1>3. \A k \in 1..Len(open') : k \in 1..Len(open)
  BY <1>2
<1>4. CASE Len(open) = 1
  <2>1. open' = <<>>
    BY <1>2, <1>4, EmptySeq
  <2> QED
    BY <1>2, <1>3, <1>4, <2>1 DEF Block, Inline
<1>5. CASE Len(open) = 2
  <2>1. open' # <<>> /\ open'[1] = open[1]
    <3>1. Len(open') = 1
      BY <1>2, <1>5
    <3>2. 1 \in 1..Len(open') /\ open' # <<>>
      BY <3>1
    <3> QED
      BY <1>2, <3>2
  <2> QED
    BY <1>2, <1>3, <1>5, <2>1 DEF Block, Inline
<1>6. CASE Len(open) > 2
  <2>1. open' # <<>> /\ open'[1] = open[1] /\ open'[2] = open[2] /\ Len(open) \in 3..Len(open)
    BY <1>2, <1>6, EmptySeq
  <2>2. Block(open') = Block(open) /\ Inline(open') = Inline(open)
    BY <1>2, <1>6, <2>1 DEF Block, Inline
  <2> QED
    BY <1>2, <1>3, <1>6, <2>1, <2>2 DEF Nesting
<1> QED
  BY <1>1, <1>2, <1>3, <1>4, <1>5, <1>6

\* The pieces name the elements around them, as they are open or have been.
Marked ==
  /\ pieces \in Seq(Texted)
  /\ \A i \in 1..Len(pieces) : \A y \in pieces[i].within :
       /\ y.nr \in 1..tags
       /\ \A k \in 1..Len(open) : y.nr = open[k].nr => y = open[k]
       /\ y.el \in {"phr", "strong", "v-ex"} /\ Len(open) > 1 => y.nr <= open[2].nr

\* An article begins with its headword, and no element is left empty.
Beginning ==
  /\ last \in {"none", "start", "text", "end", "over"}
  /\ tags = 0 => open = <<>> /\ last = "none"
  /\ last = "none" => tags = 0
  /\ pieces = <<>> => /\ last \in {"none", "start"} /\ Len(open) = tags
                      /\ Block(open) \in {"none", "p"} /\ Inline(open) \in {"none", "hw"}
  /\ last = "start" => open # <<>>
  /\ last = "over" => open = <<>>
  /\ pieces # <<>> => In(pieces, 1, {"hw"})
  /\ Inline(open) = "hw" => \A i \in 1..Len(pieces) : In(pieces, i, {"hw"})

\* The bounds of the model.
Bounds ==
  /\ tags <= MaxTags /\ Len(pieces) <= MaxPieces
  /\ \A i \in 1..Len(pieces) : pieces[i].kind \in Texts

Frame == Nesting /\ Marked /\ Beginning /\ Bounds

\* Nothing is open and nothing read before an article is fed.
LEMMA InitFrame == Init => Frame
<1> SUFFICES ASSUME Init PROVE Frame
  OBVIOUS
<1>1. /\ open = <<>> /\ tags = 0 /\ last = "none" /\ pieces = <<>> /\ dict \in Dictionaries
      /\ Len(open) = 0 /\ Len(pieces) = 0 /\ open \in Seq(Marks) /\ pieces \in Seq(Texted)
  BY EmptySeq DEF Init
<1>2. Block(open) = "none" /\ Inline(open) = "none"
  BY <1>1 DEF Block, Inline
<1>3. Nesting
  BY <1>1, <1>2 DEF Nesting
<1>4. Marked /\ Beginning
  BY <1>1, <1>2 DEF Marked, Beginning
<1>5. Bounds
  BY <1>1, ArticleAssumption DEF Bounds
<1> QED
  BY <1>3, <1>4, <1>5 DEF Frame

\* The pieces are as many as there are places.
LEMMA Read0 ==
  ASSUME Frame
  PROVE  /\ Len(pieces) \in Nat /\ Places(pieces) = 1..Len(pieces)
         /\ pieces = <<>> <=> Len(pieces) = 0
         /\ \A i \in 1..Len(pieces) : pieces[i] \in Texted
BY LenProperties, EmptySeq DEF Frame, Marked, Places

\* A start tag keeps the article well nested.
LEMMA StartFrame ==
  ASSUME Frame, NEW e \in Elements, StartTag(e)
  PROVE  Frame'
<1> USE DEF Frame
<1>1. /\ tags' = tags + 1 /\ last' = "start" /\ dict' = dict /\ pieces' = pieces
      /\ last # "over" /\ tags < MaxTags /\ tags \in Nat
  BY DEF StartTag, Nesting
<1> DEFINE n == Len(open)
<1>2. /\ n \in Nat /\ (Block(open) = "none" <=> n = 0)
      /\ n > 1 => Inline(open) \in InlineEls /\ Block(open) # "table"
      /\ (Inline(open) = "none" <=> n < 2)
  BY Surroundings
<1>3. /\ open' \in Seq(Marks) /\ Len(open') = n + 1
      /\ \A k \in 1..n : open'[k] = open[k]
      /\ open'[n + 1] = [el |-> e, nr |-> tags + 1]
  BY Opened
<1>4. \/ /\ n = 0 /\ e \in Blocks[dict] /\ Block(open') = e
         /\ Inline(open') = "none" /\ (tags = 0 => e = "p")
      \/ /\ n = 1 /\ Block(open) \in {"p", "ms"} /\ Block(open') = Block(open)
         /\ Inline(open') = e /\ (pieces = <<>> => e = "hw")
         /\ (pieces # <<>> => e \in Inlines[dict])
      \/ /\ n > 1 /\ Block(open') = Block(open) /\ Inline(open') = Inline(open)
         /\ e \in {"accent", "label"} /\ (e = "label" => Inline(open) = "v-ex")
         /\ pieces = <<>> => Inline(open) = "v-ex"
  BY Opened
<1>5. pieces = <<>> => Inline(open) \in {"none", "hw"} /\ n = tags
  BY DEF Beginning
<1>6. \A k \in 1..(n + 1) : k \in 1..n \/ k = n + 1
  BY <1>2
<1>7. \A k \in 1..n : open[k].nr \in 1..tags /\ open[k] \in Marks
  BY Surroundings DEF Nesting
<1>8. open # <<>> <=> n > 0
  BY Surroundings
<1>9. open' # <<>>
  BY <1>2, <1>3, EmptySeq
<1> HIDE DEF n
<1>10. Nesting'
  <2>1. \A k \in 1..(n + 1) : open'[k].nr \in 1..(tags + 1)
    BY <1>1, <1>3, <1>6, <1>7
  <2>2. ASSUME NEW j \in 1..(n + 1), NEW k \in 1..(n + 1), j < k
        PROVE  open'[j].nr < open'[k].nr
    <3>1. j \in 1..n /\ open'[j].nr \in 1..tags
      BY <1>2, <1>3, <1>7, <2>2
    <3>2. CASE k = n + 1
      BY <1>1, <1>3, <3>1, <3>2
    <3>3. CASE k \in 1..n
      BY <1>3, <2>2, <3>1, <3>3 DEF Nesting, n
    <3> QED
      BY <1>6, <3>2, <3>3
  <2>3. /\ Block(open') \in {"none"} \cup Blocks[dict]
        /\ Inline(open') \in {"none", "hw"} \cup Inlines[dict]
    BY <1>4 DEF Nesting
  <2>4. Block(open') = "table" => n + 1 = 1
    BY <1>2, <1>4
  <2>5. ASSUME NEW k \in 3..(n + 1)
        PROVE  /\ open'[k].el \in {"accent", "label"}
               /\ open'[k].el = "label" => Inline(open') = "v-ex"
    <3>1. n > 1 /\ Inline(open') = Inline(open) /\ k \in 1..(n + 1)
      BY <1>2, <1>4
    <3>2. CASE k = n + 1
      BY <1>3, <1>4, <3>1, <3>2
    <3>3. CASE k \in 1..n
      <4>1. k \in 3..Len(open)
        BY <1>2, <3>3 DEF n
      <4> QED
        BY <1>3, <3>1, <3>3, <4>1 DEF Nesting
    <3> QED
      BY <1>6, <3>1, <3>2, <3>3
  <2> QED
    BY <1>1, <1>3, <2>1, <2>2, <2>3, <2>4, <2>5 DEF Nesting
<1>11. Marked'
  <2> SUFFICES ASSUME NEW i \in 1..Len(pieces), NEW y \in pieces[i].within
               PROVE  /\ y.nr \in 1..(tags + 1)
                      /\ \A k \in 1..(n + 1) : y.nr = open'[k].nr => y = open'[k]
                      /\ y.el \in {"phr", "strong", "v-ex"} /\ n + 1 > 1 => y.nr <= open'[2].nr
    BY <1>1, <1>3 DEF Marked
  <2>1. /\ y.nr \in 1..tags
        /\ \A k \in 1..n : y.nr = open[k].nr => y = open[k]
        /\ y.el \in {"phr", "strong", "v-ex"} /\ n > 1 => y.nr <= open[2].nr
    BY DEF Marked, n
  <2>2. \A k \in 1..(n + 1) : y.nr = open'[k].nr => y = open'[k]
    BY <1>1, <1>3, <1>6, <2>1
  <2>3. ASSUME y.el \in {"phr", "strong", "v-ex"}, n + 1 > 1 PROVE y.nr <= open'[2].nr
    <3>1. CASE n = 1
      BY <1>1, <1>3, <2>1, <3>1
    <3>2. CASE n > 1
      <4>1. open'[2] = open[2]
        BY <1>2, <1>3, <3>2
      <4> QED
        BY <2>1, <2>3, <3>2, <4>1
    <3> QED
      BY <1>2, <2>3, <3>1, <3>2
  <2> QED
    BY <1>1, <2>1, <2>2, <2>3
<1>12. Beginning'
  <2>1. ASSUME pieces = <<>>
        PROVE  /\ n + 1 = tags + 1 /\ Block(open') \in {"none", "p"}
               /\ Inline(open') \in {"none", "hw"}
    <3>1. Block(open) \in {"none", "p"}
      BY <2>1 DEF Beginning
    <3> QED
      BY <1>2, <1>4, <1>5, <2>1, <3>1
  <2>2. Inline(open') = "hw" => Inline(open) = "hw" \/ pieces = <<>>
    BY <1>4, Markup DEF Nesting
  <2>3. Inline(open') = "hw" => \A i \in 1..Len(pieces) : In(pieces, i, {"hw"})
    <3>1. pieces = <<>> => Len(pieces) = 0
      BY EmptySeq
    <3> QED
      BY <2>2, <3>1 DEF Beginning
  <2> QED
    BY <1>1, <1>3, <1>9, <2>1, <2>3 DEF Beginning
<1>13. Bounds'
  BY <1>1, ArticleAssumption DEF Bounds
<1> QED
  BY <1>10, <1>11, <1>12, <1>13

\* An end tag keeps the article well nested.
LEMMA EndFrame ==
  ASSUME Frame, EndTag
  PROVE  Frame'
<1> USE DEF Frame
<1>1. /\ tags' = tags /\ last' = "end" /\ dict' = dict /\ pieces' = pieces
      /\ last # "start" /\ open # <<>> /\ tags \in Nat
  BY DEF EndTag, Nesting
<1> DEFINE n == Len(open')
<1>2. /\ Len(open) \in Nat /\ open' \in Seq(Marks) /\ n = Len(open) - 1 /\ n \in Nat
      /\ \A k \in 1..n : k \in 1..Len(open) /\ open'[k] = open[k]
  BY Ended, Surroundings
<1>3. \/ Len(open) = 1 /\ Block(open') = "none" /\ Inline(open') = "none"
      \/ Len(open) = 2 /\ Block(open') = Block(open) /\ Inline(open') = "none"
      \/ Len(open) > 2 /\ Block(open') = Block(open) /\ Inline(open') = Inline(open)
  BY Ended
<1>4. pieces # <<>> /\ tags # 0
  BY <1>1 DEF Beginning
<1> HIDE DEF n
<1>5. Nesting'
  <2>1. \A k \in 1..n : open'[k].nr \in 1..tags
    BY <1>2 DEF Nesting
  <2>2. \A j, k \in 1..n : j < k => open'[j].nr < open'[k].nr
    BY <1>2 DEF Nesting
  <2>3. /\ Block(open') \in {"none"} \cup Blocks[dict]
        /\ Inline(open') \in {"none", "hw"} \cup Inlines[dict]
    BY <1>3 DEF Nesting
  <2>4. Block(open') = "table" => n = 1
    <3>1. Block(open) = "table" => Len(open) = 1
      BY DEF Nesting
    <3> QED
      BY <1>2, <1>3, <3>1
  <2>5. ASSUME NEW k \in 3..n
        PROVE  /\ open'[k].el \in {"accent", "label"}
               /\ open'[k].el = "label" => Inline(open') = "v-ex"
    <3>1. k \in 1..n /\ k \in 3..Len(open) /\ Len(open) = n + 1 /\ n \in 3..n
      BY <1>2
    <3>5. Len(open) # 1 /\ Len(open) # 2
      BY <3>1
    <3>2. open'[k] = open[k]
      BY <1>2, <3>1
    <3>4. Inline(open') = Inline(open)
      BY <1>3, <3>5, Zenon
    <3>3. /\ open[k].el \in {"accent", "label"}
          /\ open[k].el = "label" => Inline(open) = "v-ex"
      BY <3>1 DEF Nesting
    <3> QED
      BY <3>2, <3>3, <3>4
  <2> QED
    BY <1>1, <1>2, <2>1, <2>2, <2>3, <2>4, <2>5 DEF Nesting, n
<1>6. Marked'
  <2> SUFFICES ASSUME NEW i \in 1..Len(pieces), NEW y \in pieces[i].within
               PROVE  /\ y.nr \in 1..tags
                      /\ \A k \in 1..n : y.nr = open'[k].nr => y = open'[k]
                      /\ y.el \in {"phr", "strong", "v-ex"} /\ n > 1 => y.nr <= open'[2].nr
    BY <1>1 DEF Marked, n
  <2>1. n > 1 => Len(open) > 1 /\ open'[2] = open[2]
    BY <1>2
  <2> QED
    BY <1>2, <2>1 DEF Marked
<1>7. Beginning'
  BY <1>1, <1>3, <1>4 DEF Beginning
<1>8. Bounds'
  BY <1>1 DEF Bounds
<1> QED
  BY <1>5, <1>6, <1>7, <1>8

\* What a text just read says of the elements around it.
Fed(x) ==
  /\ Grown(Texted, pieces, x, pieces')
  /\ x.within = {open[k] : k \in 1..Len(open)}

\* A text comes inside a paragraph or table, of a kind that may be there.
LEMMA TextRead ==
  ASSUME Frame, NEW kind \in Texts, Data(kind)
  PROVE  LET m == Len(pieces) + 1
             x == [kind |-> kind, within |-> {open[k] : k \in 1..Len(open)}]
         IN  /\ Fed(x) /\ kind \in Kinds
             /\ Len(open) > 0 /\ open' = open /\ tags' = tags /\ dict' = dict
             /\ pieces = <<>> => Inline(open) = "hw"
             /\ kind = "number" => Inline(open) = "strong"
             /\ kind = "bars" => /\ dict = "explanatory" /\ Len(open) = 1
                                 /\ Block(open) \in {"p", "ms"}
             /\ kind = "lozenge" => /\ dict = "rbs10" /\ Len(open) = 1
                                    /\ Block(open) \in {"p", "ms"}
             /\ parser' = HandleData([kind |-> kind, at |-> m])
<1> DEFINE x == [kind |-> kind, within |-> {open[k] : k \in 1..Len(open)}]
<1>1. /\ pieces' = Append(pieces, x) /\ open' = open /\ tags' = tags /\ dict' = dict
      /\ open # <<>> /\ MayHold(kind) /\ (pieces = <<>> => "hw" \in Around)
      /\ parser' = HandleData([kind |-> kind, at |-> Len(pieces) + 1])
  BY Surroundings DEF Data, Frame
<1>2. kind \in Kinds
  BY ArticleAssumption
<1>3. x \in Texted
  <2>1. x.within \subseteq Marks
    BY Surroundings DEF Frame
  <2> QED
    BY <1>2, <2>1 DEF Texted
<1>4. Fed(x)
  BY <1>1, <1>3 DEF Fed, Grown, Frame, Marked
<1>5. /\ "hw" \in Around => Inline(open) = "hw"
      /\ "strong" \in Around => Inline(open) = "strong"
      /\ InBlock => Len(open) = 1 /\ Block(open) \in {"p", "ms"}
  BY AroundText DEF Frame, InlineEls
<1>6. /\ kind = "number" => "strong" \in Around
      /\ kind = "bars" => dict = "explanatory" /\ InBlock
      /\ kind = "lozenge" => dict = "rbs10" /\ InBlock
  BY <1>1 DEF MayHold
<1>7. Len(open) > 0
  BY <1>1, Surroundings DEF Frame
<1> QED
  BY <1>1, <1>2, <1>4, <1>5, <1>6, <1>7

\* What a piece says of the elements around it is what is open when it is read.
LEMMA TextSays ==
  ASSUME Frame, NEW x, Fed(x)
  PROVE  LET b == pieces'
             m == Len(pieces) + 1
         IN  /\ b[m].kind = x.kind
             /\ \A els : In(b, m, els) <=> \E k \in 1..Len(open) : open[k].el \in els
             /\ \A n : InElement(b, m, n) <=> \E k \in 1..Len(open) : open[k].nr = n
             /\ \A e \in InlineEls \ {"accent", "label"} : In(b, m, {e}) <=> Inline(open) = e
             /\ In(b, m, {"table"}) <=> Block(open) = "table"
             /\ Indented(b, m) <=> Block(open) = "ms"
             /\ Grammar(b, m) <=> Len(open) > 0 /\ open[1].nr = 1
             /\ Plain(b, m) <=> /\ Block(open) # "table"
                                /\ Inline(open) \in {"none", "accent"}
<1> DEFINE b == pieces'
           m == Len(pieces) + 1
<1>1. b[m] = x /\ x.within = {open[k] : k \in 1..Len(open)}
  BY GrownAt DEF Fed
<1> HIDE DEF b, m
<1>2. \A els : In(b, m, els) <=> \E k \in 1..Len(open) : open[k].el \in els
  BY <1>1 DEF In
<1>3. \A n : InElement(b, m, n) <=> \E k \in 1..Len(open) : open[k].nr = n
  BY <1>1 DEF InElement
<1>4. \A e : In(b, m, {e}) <=> e \in Around
  BY <1>2, AroundText DEF Frame
<1>5. \A e \in InlineEls \ {"accent", "label"} : In(b, m, {e}) <=> Inline(open) = e
  BY <1>4, AroundText DEF Frame
<1>6. In(b, m, {"table"}) <=> Block(open) = "table"
  BY <1>4, AroundText DEF Frame
<1>7. /\ Len(open) \in Nat
      /\ \A k \in 1..Len(open) : /\ k = 1 => open[k].el = Block(open)
                                 /\ k = 2 => open[k].el = Inline(open)
                                 /\ k = 1 \/ k = 2 \/ k \in 3..Len(open)
      /\ \A k \in 1..Len(open) : open[k].nr \in Nat
      /\ Len(open) > 0 => 1 \in 1..Len(open) /\ Block(open) \in BlockEls
      /\ Len(open) > 1 => 2 \in 1..Len(open) /\ Inline(open) \in InlineEls
      /\ Inline(open) = "none" <=> Len(open) < 2
      /\ Block(open) = "none" <=> Len(open) = 0
  BY Surroundings DEF Frame, Marks
<1>8. \A k \in 3..Len(open) : /\ open[k].el \in {"accent", "label"}
                              /\ open[k].el = "label" => Inline(open) = "v-ex"
  BY DEF Frame, Nesting
<1>9. Indented(b, m) <=> Block(open) = "ms"
  <2>1. Indented(b, m) <=> \E k \in 1..Len(open) : open[k].el = "ms"
    BY <1>2 DEF Indented
  <2>2. ASSUME NEW k \in 1..Len(open), open[k].el = "ms" PROVE Block(open) = "ms"
    <3>1. k # 2
      BY <1>7, <2>2 DEF InlineEls
    <3> QED
      BY <1>7, <1>8, <2>2, <3>1
  <2>3. Block(open) = "ms" => 1 \in 1..Len(open) /\ open[1].el = "ms"
    BY <1>7
  <2> QED
    BY <2>1, <2>2, <2>3
<1>10. Grammar(b, m) <=> Len(open) > 0 /\ open[1].nr = 1
  <2>1. Grammar(b, m) <=> \E k \in 1..Len(open) : open[k].nr = 1
    BY <1>3 DEF Grammar
  <2>2. ASSUME NEW k \in 1..Len(open), open[k].nr = 1 PROVE Len(open) > 0 /\ open[1].nr = 1
    <3>1. Len(open) > 0 /\ 1 \in 1..Len(open)
      BY <1>7
    <3>2. 1 < k => open[1].nr < open[k].nr
      BY <3>1 DEF Frame, Nesting
    <3>3. open[1].nr \in 1..tags
      BY <3>1 DEF Frame, Nesting
    <3> QED
      BY <1>7, <2>2, <3>1, <3>2, <3>3
  <2> QED
    BY <1>7, <2>1, <2>2
<1>11. Plain(b, m) <=> Block(open) # "table" /\ Inline(open) \in {"none", "accent"}
  <2>1. Plain(b, m) <=> \A k \in 1..Len(open) : open[k].el \in {"p", "ms", "accent"}
    BY <1>1 DEF Plain
  <2>2. ASSUME Block(open) # "table", Inline(open) \in {"none", "accent"},
               NEW k \in 1..Len(open)
        PROVE  open[k].el \in {"p", "ms", "accent"}
    <3>1. CASE k = 1
      BY <1>7, <2>2, <3>1 DEF BlockEls
    <3>2. CASE k = 2
      BY <1>7, <2>2, <3>2 DEF InlineEls
    <3>3. CASE k \in 3..Len(open)
      BY <1>8, <2>2, <3>3
    <3> QED
      BY <1>7, <3>1, <3>2, <3>3
  <2>3. ASSUME \A k \in 1..Len(open) : open[k].el \in {"p", "ms", "accent"}
        PROVE  Block(open) # "table" /\ Inline(open) \in {"none", "accent"}
    <3>1. Block(open) # "table"
      BY <1>7, <2>3
    <3>2. Len(open) > 1 => Inline(open) \in InlineEls /\ Inline(open) \in {"p", "ms", "accent"}
      BY <1>7, <2>3
    <3> QED
      BY <1>7, <3>1, <3>2 DEF InlineEls
  <2> QED
    BY <2>1, <2>2, <2>3
<1>12. b[m].kind = x.kind
  BY <1>1
<1> QED
  BY <1>2, <1>3, <1>5, <1>6, <1>9, <1>10, <1>11, <1>12 DEF b, m

\* A text keeps the article well nested.
LEMMA DataFrame ==
  ASSUME Frame, NEW kind \in Texts, Data(kind)
  PROVE  Frame'
<1> DEFINE m == Len(pieces) + 1
           x == [kind |-> kind, within |-> {open[k] : k \in 1..Len(open)}]
<1>1. /\ Fed(x) /\ Len(open) > 0 /\ open' = open /\ tags' = tags /\ dict' = dict
      /\ pieces = <<>> => Inline(open) = "hw"
  BY TextRead
<1>2. last' = "text" /\ Len(pieces) < MaxPieces
  BY DEF Data
<1>3. /\ Len(pieces) \in Nat /\ Len(pieces') = m /\ pieces' \in Seq(Texted)
      /\ pieces'[m] = x /\ \A i \in 1..Len(pieces) : pieces'[i] = pieces[i]
  BY <1>1, GrownAt DEF Fed
<1>4. x.within = {open[k] : k \in 1..Len(open)} /\ x.kind = kind
  OBVIOUS
<1>5. \A i \in 1..m : i \in 1..Len(pieces) \/ i = m
  BY <1>3
<1>6. In(pieces', m, {"hw"}) <=> Inline(open) = "hw"
  BY <1>1, TextSays DEF InlineEls
<1>7. \A i \in 1..Len(pieces) : In(pieces', i, {"hw"}) <=> In(pieces, i, {"hw"})
  BY <1>3 DEF In
<1> HIDE DEF x
<1>8. Nesting'
  BY <1>1 DEF Frame, Nesting
<1>9. Marked'
  <2> SUFFICES ASSUME NEW i \in 1..m, NEW y \in pieces'[i].within
               PROVE  /\ y.nr \in 1..tags
                      /\ \A k \in 1..Len(open) : y.nr = open[k].nr => y = open[k]
                      /\ y.el \in {"phr", "strong", "v-ex"} /\ Len(open) > 1 => y.nr <= open[2].nr
    BY <1>1, <1>3 DEF Marked
  <2>1. CASE i \in 1..Len(pieces)
    BY <1>3, <2>1 DEF Frame, Marked
  <2>2. CASE i = m
    <3>1. PICK j \in 1..Len(open) : y = open[j]
      BY <1>3, <1>4, <2>2
    <3>2. open[j].nr \in 1..tags
      BY DEF Frame, Nesting
    <3>3. ASSUME NEW k \in 1..Len(open), y.nr = open[k].nr PROVE y = open[k]
      <4>1. /\ j < k => open[j].nr < open[k].nr
            /\ k < j => open[k].nr < open[j].nr
        BY DEF Frame, Nesting
      <4>2. open[j].nr \in Int /\ open[k].nr \in Int /\ j \in Int /\ k \in Int
        BY DEF Frame, Nesting
      <4> QED
        BY <3>1, <3>3, <4>1, <4>2
    <3>4. ASSUME y.el \in {"phr", "strong", "v-ex"}, Len(open) > 1 PROVE y.nr <= open[2].nr
      <4>1. ~ (j \in 3..Len(open))
        BY <3>1, <3>4 DEF Frame, Nesting
      <4>2. j = 1 \/ j = 2
        BY <4>1
      <4>3. 1 \in 1..Len(open) /\ 2 \in 1..Len(open)
        BY <3>4, Surroundings DEF Frame
      <4>4. open[1].nr < open[2].nr /\ open[1].nr \in Int /\ open[2].nr \in Int
        BY <4>3 DEF Frame, Nesting
      <4> QED
        BY <3>1, <4>2, <4>4
    <3> QED
      BY <3>1, <3>2, <3>3, <3>4
  <2> QED
    BY <1>5, <2>1, <2>2
<1>10. Beginning'
  <2>1. pieces' # <<>> /\ (pieces = <<>> <=> Len(pieces) = 0)
    BY <1>3, EmptySeq DEF Frame, Marked
  <2>2. In(pieces', 1, {"hw"})
    <3>1. CASE pieces = <<>>
      BY <1>1, <1>6, <2>1, <3>1
    <3>2. CASE pieces # <<>>
      <4>1. 1 \in 1..Len(pieces)
        BY <1>3, <2>1, <3>2
      <4> QED
        BY <1>7, <3>2, <4>1 DEF Frame, Beginning
    <3> QED
      BY <3>1, <3>2
  <2>3. Inline(open) = "hw" => \A i \in 1..m : In(pieces', i, {"hw"})
    BY <1>5, <1>6, <1>7 DEF Frame, Beginning
  <2>4. tags # 0
    BY <1>1 DEF Frame, Nesting
  <2> QED
    BY <1>1, <1>2, <1>3, <2>1, <2>2, <2>3, <2>4 DEF Frame, Beginning
<1>11. Bounds'
  <2>1. Len(pieces') <= MaxPieces
    BY <1>2, <1>3, ArticleAssumption
  <2>2. \A i \in 1..m : pieces'[i].kind \in Texts
    BY <1>3, <1>4, <1>5 DEF Frame, Bounds
  <2> QED
    BY <1>1, <1>3, <2>1, <2>2 DEF Frame, Bounds
<1> QED
  BY <1>8, <1>9, <1>10, <1>11 DEF Frame

\* The end of parse_article leaves the article as it is.
LEMMA FinalizeFrame ==
  ASSUME Frame, Finalize
  PROVE  Frame'
<1>1. /\ open = <<>> /\ last = "end" /\ last' = "over"
      /\ UNCHANGED <<dict, parser, open, tags, pieces>>
  BY DEF Finalize
<1>2. Nesting' /\ Marked' /\ Bounds'
  BY <1>1 DEF Frame, Nesting, Marked, Bounds
<1>3. Beginning'
  BY <1>1 DEF Frame, Beginning
<1> QED
  BY <1>2, <1>3 DEF Frame

-----------------------------------------------------------------------------
(* Texts of elements.                                                      *)

Parts == {"phr", "strong", "v-ex"}

\* The elements that hold some pieces, but for one still open.
Pending(o, el) == IF Inline(o) = el THEN {o[2].nr} ELSE {}
Complete(a, o, el, S) == Holding(a, el, S) \ Pending(o, el)

\* Of no pieces and no elements there is nothing to read.
LEMMA Nothing == ASSUME NEW a PROVE Read(a, {}) = <<>> /\ ReadEach(a, {}) = <<>>
<1>1. Cardinality({}) = 0 /\ 1..0 = {}
  BY FS_EmptySet
<1> QED
  BY <1>1 DEF Read, ReadEach

\* Elements that hold pieces have been opened, and keep their name while they are open.
LEMMA HeldBy ==
  ASSUME Frame, NEW el, NEW S, S \subseteq Places(pieces)
  PROVE  /\ Holding(pieces, el, S) \subseteq 1..tags
         /\ \A n \in Holding(pieces, el, S) :
              \A k \in 1..Len(open) : open[k].nr = n => open[k].el = el
         /\ el \in Parts /\ Len(open) > 1 =>
              \A n \in Holding(pieces, el, S) : n <= open[2].nr
<1>1. ASSUME NEW n \in Holding(pieces, el, S)
      PROVE  \E i \in 1..Len(pieces) : \E y \in pieces[i].within : y.el = el /\ y.nr = n
  BY <1>1, Read0 DEF Holding
<1> QED
  BY <1>1 DEF Frame, Marked, Parts

\* The text of an element grows by what is read in it.
LEMMA TextGrows ==
  ASSUME Frame, NEW x, Fed(x), NEW n
  PROVE  LET m == Len(pieces) + 1
         IN  /\ InElement(pieces', m, n) =>
                  Text(pieces', n) = Append(Text(pieces, n), Piece(pieces', m))
             /\ ~ InElement(pieces', m, n) => Text(pieces', n) = Text(pieces, n)
<1> DEFINE m == Len(pieces) + 1
           S == {i \in Places(pieces) : InElement(pieces, i, n)}
           T == {i \in Places(pieces') : InElement(pieces', i, n)}
<1>1. Grown(Texted, pieces, x, pieces')
  BY DEF Fed
<1>2. /\ Places(pieces') = Places(pieces) \cup {m} /\ Places(pieces) = 1..Len(pieces)
      /\ Len(pieces) \in Nat
  BY <1>1, GrownAt DEF Places
<1>3. \A i \in Places(pieces) : InElement(pieces', i, n) <=> InElement(pieces, i, n)
  BY <1>1, <1>2, SameElements
<1>4. T = IF InElement(pieces', m, n) THEN S \cup {m} ELSE S
  BY <1>2, <1>3
<1>5. Text(pieces', n) = Read(pieces', T) /\ Text(pieces, n) = Read(pieces, S)
  BY DEF Text
<1>6. S \subseteq Places(pieces)
  OBVIOUS
<1> HIDE DEF S, T
<1>7. Read(pieces', S) = Read(pieces, S)
  BY <1>1, <1>6, ReadKept
<1>8. Read(pieces', S \cup {m}) = Append(Read(pieces, S), Piece(pieces', m))
  <2>1. m = Len(pieces) + 1
    OBVIOUS
  <2> HIDE DEF m
  <2> QED
    BY <1>1, <1>6, <2>1, ReadMore
<1> QED
  BY <1>4, <1>5, <1>7, <1>8

\* What is read inside an element adds nothing to those that are complete.
LEMMA CompleteRead ==
  ASSUME Frame, NEW x, Fed(x), NEW el \in Parts, NEW S, S \subseteq Places(pieces)
  PROVE  LET N == Complete(pieces, open, el, S)
         IN  /\ Complete(pieces', open, el, S) = N
             /\ Complete(pieces', open, el, S \cup {Len(pieces) + 1}) = N
             /\ ReadEach(pieces', N) = ReadEach(pieces, N)
<1> DEFINE m == Len(pieces) + 1
           N == Complete(pieces, open, el, S)
<1>1. Grown(Texted, pieces, x, pieces')
  BY DEF Fed
<1>2. /\ Places(pieces) = 1..Len(pieces) /\ Len(pieces) \in Nat
      /\ \A i \in 1..Len(pieces) : pieces'[i] = pieces[i]
      /\ pieces'[m].within = {open[k] : k \in 1..Len(open)}
  <2>1. /\ Places(pieces) = 1..Len(pieces) /\ Len(pieces) \in Nat
    BY Read0
  <2>2. pieces'[Len(pieces) + 1] = x
    BY <1>1, GrownAt
  <2>3. \A i \in 1..Len(pieces) : pieces'[i] = pieces[i]
    BY <1>1, GrownAt
  <2> QED
    BY <2>1, <2>2, <2>3 DEF Fed
<1>3. \A i \in S : pieces'[i] = pieces[i]
  BY <1>2
<1>4. UNION {pieces'[i].within : i \in S} = UNION {pieces[i].within : i \in S}
  BY <1>3
<1>5. Holding(pieces', el, S) = Holding(pieces, el, S)
  BY <1>4 DEF Holding
<1>6. ASSUME NEW k \in 1..Len(open), open[k].el = el
      PROVE  k = 2 /\ Inline(open) = el
  <2>1. k # 1
    <3>1. k = 1 => open[k].el \in BlockEls
      BY Surroundings DEF Frame
    <3> QED
      BY <1>6, <3>1 DEF BlockEls, Parts
  <2>2. ~ (k \in 3..Len(open))
    BY <1>6 DEF Frame, Nesting, Parts
  <2>3. k = 2
    BY <2>1, <2>2
  <2> QED
    BY <1>6, <2>3 DEF Inline
<1>7. \A n \in Holding(pieces', el, S \cup {m}) :
         n \in Holding(pieces', el, S) \/ n \in Pending(open, el)
  <2> SUFFICES ASSUME NEW i \in S \cup {m}, NEW y \in pieces'[i].within, y.el = el
               PROVE  y.nr \in Holding(pieces', el, S) \/ y.nr \in Pending(open, el)
    BY DEF Holding
  <2>1. CASE i \in S
    BY <2>1 DEF Holding
  <2>2. CASE i = m
    <3>1. PICK k \in 1..Len(open) : y = open[k]
      BY <1>2, <2>2
    <3> QED
      BY <1>6, <3>1 DEF Pending
  <2> QED
    BY <2>1, <2>2
<1>8. Holding(pieces', el, S) \subseteq Holding(pieces', el, S \cup {m})
  BY DEF Holding
<1>10. N \subseteq 1..tags
  BY HeldBy DEF Complete
<1>11. ASSUME NEW n \in N PROVE Text(pieces', n) = Text(pieces, n)
  <2>1. n \in Holding(pieces, el, S) /\ n \notin Pending(open, el)
    BY DEF Complete
  <2>2. \A k \in 1..Len(open) : open[k].nr = n => open[k].el = el
    BY <2>1, HeldBy
  <2>3. \A k \in 1..Len(open) : open[k].nr # n
    BY <1>6, <2>1, <2>2 DEF Pending
  <2>4. ~ InElement(pieces', m, n)
    BY <2>3, TextSays
  <2> QED
    BY <2>4, TextGrows
<1>12. Complete(pieces', open, el, S) = N
  BY <1>5 DEF Complete
<1>13. Complete(pieces', open, el, S \cup {m}) = N
  BY <1>5, <1>7, <1>8 DEF Complete
<1>14. tags \in Nat
  BY DEF Frame, Nesting
<1> HIDE DEF N
<1>15. ReadEach(pieces', N) = ReadEach(pieces, N)
  BY <1>10, <1>11, <1>14, ReadEachKept
<1> QED
  BY <1>12, <1>13, <1>15 DEF N

\* An element just opened has no text yet.
LEMMA NoText ==
  ASSUME Frame
  PROVE  Text(pieces, tags + 1) = <<>>
<1>1. \A i \in Places(pieces) : ~ InElement(pieces, i, tags + 1)
  BY Read0 DEF Frame, Marked, Nesting, InElement
<1>2. {i \in Places(pieces) : InElement(pieces, i, tags + 1)} = {}
  BY <1>1
<1> QED
  BY <1>2, Nothing DEF Text

\* A start tag completes no element.
LEMMA CompleteStart ==
  ASSUME Frame, NEW e \in Elements, StartTag(e), NEW el \in Parts,
         NEW S, S \subseteq Places(pieces)
  PROVE  Complete(pieces, open', el, S) = Complete(pieces, open, el, S)
<1>1. Holding(pieces, el, S) \subseteq 1..tags /\ tags \in Nat
  BY HeldBy DEF Frame, Nesting
<1>2. /\ \A k \in 1..Len(open) : open'[k] = open[k]
      /\ open'[Len(open) + 1].nr = tags + 1
  <2>1. open'[Len(open) + 1] = [el |-> e, nr |-> tags + 1]
    BY Opened DEF Frame
  <2> QED
    BY <2>1, Opened DEF Frame
<1>3. \/ Len(open) = 0 /\ Inline(open') = "none"
      \/ Len(open) = 1
      \/ Len(open) > 1 /\ Inline(open') = Inline(open)
  BY Opened DEF Frame
<1>4. CASE Len(open) > 1
  <2>1. Inline(open') = Inline(open) /\ open'[2] = open[2]
    <3>1. Len(open) \in Nat
      BY Surroundings DEF Frame
    <3> QED
      BY <1>2, <1>3, <1>4, <3>1
  <2> QED
    BY <2>1 DEF Complete, Pending
<1>5. CASE Len(open) < 2
  <2>1. Inline(open) = "none"
    BY <1>5 DEF Inline
  <2>2. Pending(open, el) = {}
    BY <2>1 DEF Pending, Parts
  <2>3. Pending(open', el) \subseteq {tags + 1}
    <3>1. CASE Len(open) = 1
      BY <1>2, <3>1 DEF Pending
    <3>2. CASE Inline(open') = "none"
      BY <3>2 DEF Pending, Parts
    <3> QED
      BY <1>3, <1>5, <3>1, <3>2
  <2>4. tags + 1 \notin 1..tags
    BY <1>1
  <2> QED
    BY <1>1, <2>2, <2>3, <2>4 DEF Complete
<1> QED
  BY <1>4, <1>5, Surroundings DEF Frame

\* The end of an element completes it; other end tags complete none of its kind.
LEMMA CompleteEnd ==
  ASSUME Frame, EndTag, NEW el \in Parts, NEW S, S \subseteq Places(pieces)
  PROVE  LET N == Complete(pieces, open, el, S)
             n == open[2].nr
         IN  /\ Inline(open) # el \/ Len(open) # 2 => Complete(pieces, open', el, S) = N
             /\ Inline(open) = el /\ Len(open) = 2 =>
                  /\ (\E i \in S : InElement(pieces, i, n)) =>
                        ReadEach(pieces, Complete(pieces, open', el, S))
                          = Append(ReadEach(pieces, N), Text(pieces, n))
                  /\ ~ (\E i \in S : InElement(pieces, i, n)) =>
                        Complete(pieces, open', el, S) = N
<1> DEFINE N == Complete(pieces, open, el, S)
           n == open[2].nr
           H == Holding(pieces, el, S)
<1>1. H \subseteq 1..tags /\ tags \in Nat
  BY HeldBy DEF Frame, Nesting
<1>2. \/ Len(open) = 1 /\ Inline(open') = "none"
      \/ Len(open) = 2 /\ Inline(open') = "none"
      \/ Len(open) > 2 /\ Inline(open') = Inline(open)
  BY Ended DEF Frame
<1>3. /\ Len(open) \in Nat /\ Len(open') = Len(open) - 1
      /\ \A k \in 1..Len(open') : open'[k] = open[k]
      /\ Inline(open) = "none" <=> Len(open) < 2
  BY Ended, Surroundings DEF Frame
<1>4. ASSUME Inline(open) # el \/ Len(open) # 2
      PROVE  Complete(pieces, open', el, S) = N
  <2>1. CASE Len(open) > 2
    <3>1. open'[2] = open[2] /\ Inline(open') = Inline(open)
      BY <1>2, <1>3, <2>1
    <3> QED
      BY <3>1 DEF Complete, Pending
  <2>2. CASE Len(open) < 3
    <3>1. Inline(open') = "none" /\ Inline(open) # el
      <4>1. Len(open) < 2 => Inline(open) = "none"
        BY <1>3
      <4> QED
        BY <1>2, <1>3, <1>4, <2>2, <4>1 DEF Parts
    <3> QED
      BY <3>1 DEF Complete, Pending, Parts
  <2> QED
    BY <1>3, <2>1, <2>2
<1>5. ASSUME Inline(open) = el, Len(open) = 2
      PROVE  /\ N = H \ {n} /\ Complete(pieces, open', el, S) = H
             /\ n \in 1..tags /\ \A o \in N : o < n
  <2>1. N = H \ {n}
    BY <1>5 DEF Complete, Pending
  <2>2. Pending(open', el) = {}
    BY <1>2, <1>5 DEF Pending, Parts
  <2>3. n \in 1..tags
    BY <1>5 DEF Frame, Nesting
  <2>4. \A o \in H : o <= n
    BY <1>5, HeldBy
  <2>5. \A o \in N : o < n
    <3> HIDE DEF N, H, n
    <3> QED
      BY <1>1, <2>1, <2>3, <2>4
  <2> QED
    BY <2>1, <2>2, <2>3, <2>5 DEF Complete
<1>6. ASSUME Inline(open) = el, Len(open) = 2
      PROVE  n \in H <=> \E i \in S : InElement(pieces, i, n)
  <2>1. n \in H => \E i \in S : InElement(pieces, i, n)
    BY DEF Holding, InElement
  <2>2. ASSUME NEW i \in S, InElement(pieces, i, n) PROVE n \in H
    <3>1. PICK y \in pieces[i].within : y.nr = n
      BY <2>2 DEF InElement
    <3>2. i \in 1..Len(pieces) /\ 2 \in 1..Len(open)
      BY <1>6, Read0
    <3>3. y = open[2]
      BY <3>1, <3>2 DEF Frame, Marked
    <3>4. y.el = el
      BY <1>6, <3>3 DEF Inline
    <3> QED
      BY <3>1, <3>4 DEF Holding
  <2> QED
    BY <2>1, <2>2
<1> HIDE DEF N, n, H
<1>7. ASSUME Inline(open) = el, Len(open) = 2, n \in H
      PROVE  ReadEach(pieces, Complete(pieces, open', el, S))
               = Append(ReadEach(pieces, N), Text(pieces, n))
  <2>1. N \cup {n} = H /\ N \subseteq 1..tags /\ n \in 1..tags /\ \A o \in N : o < n
    BY <1>1, <1>5, <1>7
  <2>2. ReadEach(pieces, N \cup {n}) = Append(ReadEach(pieces, N), Text(pieces, n))
    BY <1>1, <2>1, ReadEachMore
  <2> QED
    BY <1>5, <1>7, <2>1, <2>2
<1>8. ASSUME Inline(open) = el, Len(open) = 2, n \notin H
      PROVE  Complete(pieces, open', el, S) = N
  BY <1>5, <1>8
<1> QED
  BY <1>4, <1>6, <1>7, <1>8 DEF N, n

-----------------------------------------------------------------------------
(* Flags and the headword.                                                 *)

Flagged == {"hw", "alt", "phr", "strong", "v-ex", "abbr"}

\* Parts of a paragraph that a flag may stand for are opened in a paragraph only.
LEMMA FlagStart ==
  ASSUME Frame, NEW e \in Elements, StartTag(e)
  PROVE  /\ \A f \in Flagged : Inline(open') = f <=> e = f \/ Inline(open) = f
         /\ e \in Flagged => /\ Len(open) = 1 /\ Inline(open) = "none"
                             /\ Block(open) \in {"p", "ms"} /\ open'[2].nr = tags + 1
         /\ e = "hw" <=> Len(open) = 1 /\ pieces = <<>>
         /\ e \in BlockEls <=> Len(open) = 0
         /\ e \in BlockEls \cup InlineEls
<1> USE DEF Flagged
<1>1. dict \in Dictionaries /\ (pieces = <<>> => Inline(open) # "v-ex")
  BY DEF Frame, Nesting, Beginning
<1>2. /\ Len(open) \in Nat /\ (Inline(open) = "none" <=> Len(open) < 2)
  BY Surroundings DEF Frame
<1>3. /\ Blocks[dict] \subseteq BlockEls /\ Inlines[dict] \subseteq InlineEls \ {"hw"}
  BY <1>1, Markup
<1>4. open'[Len(open) + 1].nr = tags + 1
  <2>1. open'[Len(open) + 1] = [el |-> e, nr |-> tags + 1]
    BY Opened DEF Frame
  <2> QED
    BY <2>1
<1>5. \/ /\ Len(open) = 0 /\ e \in Blocks[dict] /\ Inline(open') = "none"
      \/ /\ Len(open) = 1 /\ Block(open) \in {"p", "ms"}
         /\ Inline(open') = e /\ (pieces = <<>> => e = "hw")
         /\ (pieces # <<>> => e \in Inlines[dict])
      \/ /\ Len(open) > 1 /\ Inline(open') = Inline(open)
         /\ e \in {"accent", "label"} /\ (e = "label" => Inline(open) = "v-ex")
         /\ pieces = <<>> => Inline(open) = "v-ex"
  BY Opened DEF Frame
<1>6. CASE Len(open) = 0
  BY <1>2, <1>3, <1>5, <1>6 DEF BlockEls
<1>7. CASE Len(open) = 1
  BY <1>2, <1>3, <1>4, <1>5, <1>7 DEF BlockEls, InlineEls
<1>8. CASE Len(open) > 1
  BY <1>1, <1>2, <1>3, <1>5, <1>8 DEF BlockEls, InlineEls
<1>9. Len(open) = 0 \/ Len(open) = 1 \/ Len(open) > 1
  <2>1. \A l \in Nat : l = 0 \/ l = 1 \/ l > 1
    OBVIOUS
  <2> QED
    BY <1>2, <2>1
<1> QED
  BY <1>6, <1>7, <1>8, <1>9, Zenon

\* Which flags an end tag may clear.
LEMMA FlagEnd ==
  ASSUME Frame, EndTag
  PROVE  LET el == open[Len(open)].el
         IN  /\ \A f \in Flagged : Inline(open') = f <=> Inline(open) = f /\ Len(open) # 2
             /\ el \in Flagged <=> Len(open) = 2 /\ Inline(open) \in Flagged
             /\ el \in BlockEls <=> Len(open) = 1
             /\ Len(open) = 1 => el = Block(open) /\ Inline(open) = "none"
             /\ Len(open) = 2 => el = Inline(open)
             /\ Len(open) # 1 /\ Len(open) # 2 => /\ el \in {"accent", "label"}
                                                  /\ el = "label" => Inline(open) = "v-ex"
             /\ el \in BlockEls \cup InlineEls
             /\ pieces # <<>>
             /\ parser' = HandleEnd(Tag(el))
<1> USE DEF Flagged
<1> DEFINE el == open[Len(open)].el
<1>1. /\ Len(open) \in Nat /\ (Inline(open) = "none" <=> Len(open) < 2)
      /\ Len(open) > 0 => Block(open) \in BlockEls
      /\ Len(open) > 1 => Inline(open) \in InlineEls
  BY Surroundings DEF Frame
<1>2. /\ Len(open) > 0
      /\ \/ Len(open) = 1 /\ Inline(open') = "none" /\ el = Block(open)
         \/ Len(open) = 2 /\ Inline(open') = "none" /\ el = Inline(open)
         \/ /\ Len(open) > 2 /\ Inline(open') = Inline(open)
            /\ el \in {"accent", "label"} /\ (el = "label" => Inline(open) = "v-ex")
  BY Ended DEF Frame
<1>3. pieces # <<>> /\ parser' = HandleEnd(Tag(el))
  BY DEF EndTag, Frame, Beginning
<1> HIDE DEF el
<1>4. CASE Len(open) = 1
  BY <1>1, <1>2, <1>3, <1>4 DEF BlockEls, el
<1>5. CASE Len(open) = 2
  BY <1>1, <1>2, <1>3, <1>5 DEF BlockEls, InlineEls, el
<1>6. CASE Len(open) > 2
  BY <1>1, <1>2, <1>3, <1>6 DEF BlockEls, InlineEls, el
<1> QED
  BY <1>1, <1>2, <1>4, <1>5, <1>6

\* The pieces of the headword, and the rest.
OfHeadword(a) == {i \in Places(a) : In(a, i, {"hw"})}
NotOfHeadword(a) == {i \in Places(a) : ~ In(a, i, {"hw"})}

\* A text goes to the headword if it is in it, and else to the rest.
LEMMA HeadwordRead ==
  ASSUME Frame, NEW x, Fed(x)
  PROVE  LET b == pieces'
             m == Len(pieces) + 1
         IN  /\ Inline(open) = "hw" =>
                  /\ Read(b, OfHeadword(b)) = Append(Read(pieces, OfHeadword(pieces)), Piece(b, m))
                  /\ Read(b, NotOfHeadword(b)) = Read(pieces, NotOfHeadword(pieces))
             /\ Inline(open) # "hw" =>
                  /\ Read(b, OfHeadword(b)) = Read(pieces, OfHeadword(pieces))
                  /\ Read(b, NotOfHeadword(b))
                       = Append(Read(pieces, NotOfHeadword(pieces)), Piece(b, m))
<1> DEFINE b == pieces'
           m == Len(pieces) + 1
           S == OfHeadword(pieces)
           T == NotOfHeadword(pieces)
<1>1. Grown(Texted, pieces, x, b)
  BY DEF Fed
<1>2. /\ Places(b) = Places(pieces) \cup {m} /\ Places(pieces) = 1..Len(pieces)
      /\ Len(pieces) \in Nat
  BY <1>1, GrownAt DEF Places
<1>3. \A i \in Places(pieces) : In(b, i, {"hw"}) <=> In(pieces, i, {"hw"})
  BY <1>1, <1>2, SameElements
<1>4. In(b, m, {"hw"}) <=> Inline(open) = "hw"
  BY TextSays DEF InlineEls
<1>5. m = Len(pieces) + 1 /\ S \subseteq Places(pieces) /\ T \subseteq Places(pieces)
  BY DEF OfHeadword, NotOfHeadword
<1> HIDE DEF m
<1>6. /\ Inline(open) = "hw" => OfHeadword(b) = S \cup {m} /\ NotOfHeadword(b) = T
      /\ Inline(open) # "hw" => OfHeadword(b) = S /\ NotOfHeadword(b) = T \cup {m}
  BY <1>2, <1>3, <1>4 DEF OfHeadword, NotOfHeadword
<1> HIDE DEF S, T, b
<1>7. /\ Read(b, S) = Read(pieces, S) /\ Read(b, S \cup {m}) = Append(Read(pieces, S), Piece(b, m))
  BY <1>1, <1>5, ReadKept, ReadMore
<1>8. /\ Read(b, T) = Read(pieces, T) /\ Read(b, T \cup {m}) = Append(Read(pieces, T), Piece(b, m))
  BY <1>1, <1>5, ReadKept, ReadMore
<1> QED
  BY <1>6, <1>7, <1>8 DEF S, T, b, m

-----------------------------------------------------------------------------
(* The list of synonyms.                                                   *)

\* _KlyshkaParser has the headword and the rest of what has been read; in_hw is
\* set inside the headword and seen_hw after it.
KlyshkaInv ==
  dict = "klyshka" =>
    parser = [head |-> Read(pieces, OfHeadword(pieces)),
              body |-> Read(pieces, NotOfHeadword(pieces)),
              in |-> IF Inline(open) = "hw" THEN {"hw"} ELSE {},
              done |-> pieces # <<>> /\ Inline(open) # "hw"]

\* A new _KlyshkaParser has read nothing.
LEMMA KlyshkaInit == Init => KlyshkaInv
<1> SUFFICES ASSUME Init, dict = "klyshka" PROVE KlyshkaInv
  BY DEF KlyshkaInv
<1>1. parser = NewKlyshka /\ open = <<>> /\ pieces = <<>>
  BY DEF Init, New
<1>2. Len(open) = 0 /\ Places(pieces) = {}
  BY <1>1, EmptySeq DEF Places
<1>3. OfHeadword(pieces) = {} /\ NotOfHeadword(pieces) = {} /\ Inline(open) = "none"
  BY <1>2 DEF OfHeadword, NotOfHeadword, Inline
<1> QED
  BY <1>1, <1>3, Nothing DEF KlyshkaInv, NewKlyshka

\* Each of its handlers keeps that.
LEMMA KlyshkaStep ==
  ASSUME Frame, KlyshkaInv, [Next]_vars
  PROVE  KlyshkaInv'
<1> SUFFICES ASSUME dict' = "klyshka"
             PROVE  parser' = [head |-> Read(pieces', OfHeadword(pieces')),
                               body |-> Read(pieces', NotOfHeadword(pieces')),
                               in |-> IF Inline(open') = "hw" THEN {"hw"} ELSE {},
                               done |-> pieces' # <<>> /\ Inline(open') # "hw"]
  BY DEF KlyshkaInv
<1>1. dict = "klyshka"
  BY DEF Next, StartTag, Data, EndTag, Finalize, vars
<1> DEFINE H == Read(pieces, OfHeadword(pieces))
           R == Read(pieces, NotOfHeadword(pieces))
<1>2. /\ parser.head = H /\ parser.body = R
      /\ parser.in = IF Inline(open) = "hw" THEN {"hw"} ELSE {}
      /\ parser.done <=> pieces # <<>> /\ Inline(open) # "hw"
      /\ parser = [head |-> H, body |-> R, in |-> parser.in, done |-> parser.done]
      /\ parser.done \in BOOLEAN
  <2> DEFINE f == IF Inline(open) = "hw" THEN {"hw"} ELSE {}
             d == pieces # <<>> /\ Inline(open) # "hw"
  <2>1. parser = [head |-> H, body |-> R, in |-> f, done |-> d] /\ d \in BOOLEAN
    BY <1>1 DEF KlyshkaInv
  <2> HIDE DEF H, R, f, d
  <2>2. parser.head = H /\ parser.body = R /\ parser.in = f /\ parser.done = d
    BY <2>1
  <2> QED
    BY <2>1, <2>2 DEF f, d
<1>3. ASSUME NEW e \in Elements, StartTag(e) PROVE KlyshkaInv'
  <2>1. parser' = KlyshkaStart(parser, e) /\ pieces' = pieces
    BY <1>1, <1>3 DEF StartTag, HandleStart
  <2>2. /\ Inline(open') = "hw" <=> e = "hw" \/ Inline(open) = "hw"
        /\ e = "hw" => pieces = <<>>
    BY <1>3, FlagStart DEF Flagged
  <2> HIDE DEF H, R
  <2>3. CASE e = "hw"
    <3>1. parser' = [head |-> H, body |-> R, in |-> {"hw"}, done |-> parser.done]
      BY <1>2, <2>1, <2>3 DEF KlyshkaStart
    <3> QED
      BY <1>2, <2>1, <2>2, <2>3, <3>1 DEF KlyshkaInv, H, R
  <2>4. CASE e # "hw"
    BY <1>2, <2>1, <2>2, <2>4 DEF KlyshkaInv, KlyshkaStart, H, R
  <2> QED
    BY <2>3, <2>4
<1>4. ASSUME NEW kind \in Texts, Data(kind) PROVE KlyshkaInv'
  <2> DEFINE m == Len(pieces) + 1
             x == [kind |-> kind, within |-> {open[k] : k \in 1..Len(open)}]
  <2>1. /\ Fed(x) /\ open' = open /\ (pieces = <<>> => Inline(open) = "hw")
        /\ parser' = HandleData([kind |-> kind, at |-> m])
    BY <1>4, TextRead
  <2>2. pieces'[m].kind = x.kind
    BY <2>1, TextSays
  <2>3. [kind |-> kind, at |-> m] = Piece(pieces', m)
    BY <2>2 DEF Piece
  <2>4. parser' = KlyshkaData(parser, Piece(pieces', m))
    BY <1>1, <2>1, <2>3 DEF HandleData
  <2>5. pieces' # <<>>
    <3>1. Len(pieces') = Len(pieces) + 1 /\ Len(pieces) \in Nat
      BY <2>1, GrownAt DEF Fed
    <3> QED
      BY <3>1, EmptySeq
  <2>6. /\ Inline(open) = "hw" =>
             /\ Read(pieces', OfHeadword(pieces')) = Append(H, Piece(pieces', m))
             /\ Read(pieces', NotOfHeadword(pieces')) = R
        /\ Inline(open) # "hw" =>
             /\ Read(pieces', OfHeadword(pieces')) = H
             /\ Read(pieces', NotOfHeadword(pieces')) = Append(R, Piece(pieces', m))
    BY <2>1, HeadwordRead
  <2> HIDE DEF H, R, m
  <2>7. CASE Inline(open) = "hw"
    <3>1. parser' = [head |-> Append(H, Piece(pieces', m)), body |-> R,
                     in |-> {"hw"}, done |-> FALSE]
      BY <1>2, <2>4, <2>7 DEF KlyshkaData
    <3> QED
      BY <2>1, <2>6, <2>7, <3>1 DEF KlyshkaInv
  <2>8. CASE Inline(open) # "hw"
    <3>1. parser' = [head |-> H, body |-> Append(R, Piece(pieces', m)),
                     in |-> {}, done |-> TRUE]
      BY <1>2, <2>1, <2>4, <2>8 DEF KlyshkaData
    <3> QED
      BY <2>1, <2>5, <2>6, <2>8, <3>1 DEF KlyshkaInv
  <2> QED
    BY <2>7, <2>8
<1>5. ASSUME EndTag PROVE KlyshkaInv'
  <2> DEFINE el == open[Len(open)].el
  <2>1. pieces' = pieces /\ pieces # <<>>
    BY <1>5, FlagEnd DEF EndTag
  <2>2. /\ Inline(open') = "hw" <=> Inline(open) = "hw" /\ Len(open) # 2
        /\ el = "hw" <=> Len(open) = 2 /\ Inline(open) = "hw"
        /\ el \in Headings => Len(open) = 2 /\ el = Inline(open)
    <3>1. \A f \in Flagged : Inline(open') = f <=> Inline(open) = f /\ Len(open) # 2
      BY <1>5, FlagEnd
    <3>2. /\ el \in Flagged <=> Len(open) = 2 /\ Inline(open) \in Flagged
          /\ Len(open) = 2 => el = Inline(open)
      BY <1>5, FlagEnd
    <3> QED
      BY <3>1, <3>2 DEF Flagged, Headings
  <2>3. Inline(open) \in {"none", "hw", "accent"}
    BY <1>1, Markup DEF Frame, Nesting
  <2>4. parser' = KlyshkaEnd(parser, Tag(el))
    BY <1>1, <1>5, FlagEnd DEF HandleEnd
  <2>5. Tag(el) = "strong" <=> el = "hw"
    <3>1. el \in BlockEls \cup InlineEls
      BY <1>5, FlagEnd
    <3> HIDE DEF el
    <3>2. Tag(el) = "strong" <=> el \in Headings
      BY <3>1 DEF Tag, BlockEls, InlineEls, Paragraphs, Abbrs, Headings
    <3> QED
      BY <2>2, <2>3, <3>2 DEF Headings
  <2> HIDE DEF el, H, R
  <2>6. CASE el = "hw"
    <3>1. parser' = [head |-> H, body |-> R, in |-> {}, done |-> TRUE]
      BY <1>2, <2>2, <2>4, <2>5, <2>6 DEF KlyshkaEnd
    <3> QED
      BY <2>1, <2>2, <2>6, <3>1 DEF KlyshkaInv, H, R
  <2>7. CASE el # "hw"
    <3>1. parser' = parser
      BY <2>4, <2>5, <2>7 DEF KlyshkaEnd
    <3>2. Inline(open') = "hw" <=> Inline(open) = "hw"
      BY <2>2, <2>7
    <3> QED
      BY <1>2, <2>1, <3>1, <3>2 DEF KlyshkaInv, H, R
  <2> QED
    BY <2>6, <2>7
<1>6. ASSUME Finalize \/ UNCHANGED vars PROVE KlyshkaInv'
  BY <1>6 DEF Finalize, vars, KlyshkaInv
<1>7. KlyshkaInv'
  BY <1>3, <1>4, <1>5, <1>6 DEF Next
<1> QED
  BY <1>7 DEF KlyshkaInv

-----------------------------------------------------------------------------
(* What one more text says of an article of an explanatory dictionary.     *)

Separated(a) == \E i \in Places(a) : Separates(a, i)
Numbered(a) == \E i \in Places(a) : Numbers(a, i)
InFirst(o) == Len(o) > 0 /\ o[1].nr = 1

\* Whether a text just read separates, is shown, is a number, or is of the body.
LEMMA ReadExplanatory ==
  ASSUME Frame, NEW x, Fed(x), x.kind = "bars" => Len(open) = 1 /\ Block(open) \in {"p", "ms"}
  PROVE  LET b == pieces'
             m == Len(pieces) + 1
         IN  /\ Separates(b, m) <=> x.kind = "bars"
             /\ Separated(b) <=> Separated(pieces) \/ x.kind = "bars"
             /\ Shown(b, m) <=> /\ Block(open) # "table" /\ ~ Separated(pieces)
                                /\ x.kind # "bars"
             /\ Numbers(b, m) <=> /\ Shown(b, m) /\ x.kind = "number"
                                  /\ Inline(open) = "strong" /\ ~ InFirst(open)
             /\ Body(b, m) <=> /\ Shown(b, m) /\ Inline(open) \in {"none", "accent"}
                               /\ ~ InFirst(open)
             /\ Numbered(b) <=> Numbered(pieces) \/ Numbers(b, m)
<1> DEFINE b == pieces'
           m == Len(pieces) + 1
<1>1. Grown(Texted, pieces, x, b)
  BY DEF Fed
<1>2. /\ Places(b) = Places(pieces) \cup {m} /\ Places(pieces) = 1..Len(pieces)
      /\ Len(pieces) \in Nat /\ b[m].kind = x.kind
  <2>1. b[m] = x
    BY <1>1, GrownAt
  <2> QED
    BY <1>1, <2>1, GrownAt, Read0
<1>3. \A i \in 1..Len(pieces) : /\ Separates(b, i) <=> Separates(pieces, i)
                                /\ Numbers(b, i) <=> Numbers(pieces, i)
  BY <1>1, SameElements, SameShown
<1>4. /\ In(b, m, {"table"}) <=> Block(open) = "table"
      /\ In(b, m, {"hw"}) <=> Inline(open) = "hw"
      /\ In(b, m, {"alt"}) <=> Inline(open) = "alt"
      /\ In(b, m, {"strong"}) <=> Inline(open) = "strong"
      /\ Grammar(b, m) <=> InFirst(open)
      /\ Plain(b, m) <=> Block(open) # "table" /\ Inline(open) \in {"none", "accent"}
  BY TextSays DEF InlineEls, InFirst
<1>5. In(b, m, {"table", "hw", "alt"})
        <=> In(b, m, {"table"}) \/ In(b, m, {"hw"}) \/ In(b, m, {"alt"})
  BY DEF In
<1>6. Inline(open) = "none" <=> Len(open) < 2
  BY Surroundings DEF Frame
<1>7. m \in 1..m /\ \A i \in 1..m : i \in 1..Len(pieces) \/ i = m
  BY <1>2
<1>8. \A i \in 1..Len(pieces) : i \in 1..m
  BY <1>2
<1> HIDE DEF b, m
<1>9. x.kind = "bars" => Block(open) # "table" /\ Inline(open) = "none"
  <2>1. \A l : l = 1 => l < 2
    OBVIOUS
  <2> QED
    BY <1>6, <2>1
<1>10. Separates(b, m) <=> x.kind = "bars"
  BY <1>2, <1>4, <1>5, <1>9 DEF Separates
<1>11. Separated(b) <=> Separated(pieces) \/ x.kind = "bars"
  BY <1>2, <1>3, <1>10 DEF Separated
<1>12. Shown(b, m) <=> Block(open) # "table" /\ ~ Separated(pieces) /\ x.kind # "bars"
  <2>1. (\A c \in 1..m : ~ Separates(b, c)) <=> ~ Separated(pieces) /\ x.kind # "bars"
    BY <1>2, <1>3, <1>7, <1>8, <1>10 DEF Separated
  <2> QED
    BY <1>4, <2>1 DEF Shown
<1>13. Numbers(b, m) <=> /\ Shown(b, m) /\ x.kind = "number"
                         /\ Inline(open) = "strong" /\ ~ InFirst(open)
  BY <1>2, <1>4 DEF Numbers
<1>14. Body(b, m) <=> /\ Shown(b, m) /\ Inline(open) \in {"none", "accent"}
                      /\ ~ InFirst(open)
  BY <1>4, <1>12 DEF Body
<1>15. Numbered(b) <=> Numbered(pieces) \/ Numbers(b, m)
  BY <1>2, <1>3 DEF Numbered
<1> QED
  BY <1>10, <1>11, <1>12, <1>13, <1>14, <1>15 DEF b, m

\* The beginning of the definition that a text opens, if it does.
LEMMA ReadBegins ==
  ASSUME Frame, NEW x, Fed(x)
  PROVE  LET b == pieces'
             m == Len(pieces) + 1
         IN  /\ Begins(b, m) <=> \/ Numbers(b, m)
                                 \/ Body(b, m) /\ Block(open) = "ms" /\ Beginnings(pieces) = {}
             /\ Begins(b, m) => Beginnings(b) = Beginnings(pieces) \cup {m}
             /\ ~ Begins(b, m) => Beginnings(b) = Beginnings(pieces)
             /\ Numbered(pieces) => Beginnings(pieces) # {}
<1> DEFINE b == pieces'
           m == Len(pieces) + 1
           Opens(i) == Numbers(pieces, i) \/ (Body(pieces, i) /\ Indented(pieces, i))
           S == {i \in 1..Len(pieces) : Opens(i)}
<1>1. Grown(Texted, pieces, x, b)
  BY DEF Fed
<1>2. /\ Places(b) = Places(pieces) \cup {m} /\ Places(pieces) = 1..Len(pieces)
      /\ Len(pieces) \in Nat
  BY <1>1, GrownAt, Read0
<1>3. \A i \in 1..Len(pieces) : Begins(b, i) <=> Begins(pieces, i)
  BY <1>1, SameBegins
<1>4. Indented(b, m) <=> Block(open) = "ms"
  BY TextSays
<1>5. S # {} => Beginnings(pieces) # {}
  <2> SUFFICES ASSUME S # {} PROVE Beginnings(pieces) # {}
    OBVIOUS
  <2>1. S \subseteq Nat
    OBVIOUS
  <2> HIDE DEF S
  <2>2. PICK i \in S : \A j \in S : i <= j
    BY <2>1, Least
  <2>3. i \in 1..Len(pieces) /\ Opens(i)
    BY DEF S
  <2>4. ASSUME NEW j \in 1..(i - 1), Opens(j) PROVE FALSE
    <3>1. j \in 1..Len(pieces) /\ j < i /\ j \in Int /\ i \in Int
      BY <1>2, <2>3
    <3>2. j \in S
      BY <2>4, <3>1 DEF S
    <3>3. i <= j
      BY <2>2, <3>2
    <3> QED
      BY <3>1, <3>3
  <2>5. \A j \in 1..(i - 1) : /\ ~ Numbers(pieces, j)
                              /\ ~ (Body(pieces, j) /\ Indented(pieces, j))
    BY <2>4
  <2>6. Begins(pieces, i)
    BY <2>3, <2>5 DEF Begins
  <2> QED
    BY <1>2, <2>3, <2>6 DEF Beginnings
<1>6. Beginnings(pieces) # {} => S # {}
  BY <1>2 DEF Beginnings, Begins
<1>7. (\A j \in 1..(m - 1) : /\ ~ Numbers(b, j)
                             /\ ~ (Body(b, j) /\ Indented(b, j)))
        <=> S = {}
  <2>1. 1..(m - 1) = 1..Len(pieces)
    BY <1>2
  <2>2. \A j \in 1..Len(pieces) : /\ Numbers(b, j) <=> Numbers(pieces, j)
                                  /\ Body(b, j) <=> Body(pieces, j)
                                  /\ Indented(b, j) <=> Indented(pieces, j)
    BY <1>1, SameShown, SameElements
  <2> QED
    BY <2>1, <2>2
<1>8. Numbered(pieces) => S # {}
  BY <1>2 DEF Numbered
<1> HIDE DEF S, m, b
<1>9. Begins(b, m) <=> \/ Numbers(b, m)
                       \/ Body(b, m) /\ Block(open) = "ms" /\ Beginnings(pieces) = {}
  BY <1>4, <1>5, <1>6, <1>7 DEF Begins
<1>10. /\ Begins(b, m) => Beginnings(b) = Beginnings(pieces) \cup {m}
       /\ ~ Begins(b, m) => Beginnings(b) = Beginnings(pieces)
  BY <1>2, <1>3 DEF Beginnings
<1> QED
  BY <1>5, <1>8, <1>9, <1>10 DEF m, b

\* A definition as far as it has been read.
SoFar(a, o, d) ==
  [number |-> IF Numbers(a, d) THEN d ELSE None,
   text |-> Read(a, {i \in Places(a) : PartOf(a, i, d) /\ Body(a, i)}),
   examples |-> ReadEach(a, Complete(a, o, "v-ex",
                                     {i \in Places(a) : PartOf(a, i, d) /\ Shown(a, i)}))]
Definitions(a, o) ==
  [k \in 1..Cardinality(Beginnings(a)) |-> SoFar(a, o, Nth(Beginnings(a), k))]

\* A definition with another text, or with other examples.
LEMMA Changed ==
  ASSUME NEW n, NEW t, NEW e, NEW u, NEW d, d = [number |-> n, text |-> t, examples |-> e]
  PROVE  /\ d.number = n /\ d.text = t /\ d.examples = e
         /\ [d EXCEPT !.text = u] = [number |-> n, text |-> u, examples |-> e]
         /\ [d EXCEPT !.examples = u] = [number |-> n, text |-> t, examples |-> u]
OBVIOUS

\* The definitions begun before grow by a text of the body that belongs to them.
LEMMA SoFarRead ==
  ASSUME Frame, NEW x, Fed(x), NEW d \in 1..Len(pieces)
  PROVE  LET b == pieces'
             m == Len(pieces) + 1
             s == SoFar(pieces, open, d)
         IN  SoFar(b, open, d)
               = IF PartOf(b, m, d) /\ Body(b, m)
                 THEN [s EXCEPT !.text = Append(s.text, Piece(b, m))] ELSE s
<1> DEFINE b == pieces'
           m == Len(pieces) + 1
           S == {i \in Places(pieces) : PartOf(pieces, i, d) /\ Body(pieces, i)}
           T == {i \in Places(pieces) : PartOf(pieces, i, d) /\ Shown(pieces, i)}
           St == {i \in Places(b) : PartOf(b, i, d) /\ Body(b, i)}
           Tt == {i \in Places(b) : PartOf(b, i, d) /\ Shown(b, i)}
<1>1. Grown(Texted, pieces, x, b)
  BY DEF Fed
<1>2. /\ Places(b) = Places(pieces) \cup {m} /\ Places(pieces) = 1..Len(pieces)
      /\ Len(pieces) \in Nat /\ m = Len(pieces) + 1
  BY <1>1, GrownAt, Read0
<1>3. \A i \in 1..Len(pieces) : /\ PartOf(b, i, d) <=> PartOf(pieces, i, d)
                                /\ Body(b, i) <=> Body(pieces, i)
                                /\ Shown(b, i) <=> Shown(pieces, i)
  BY <1>1, SameParts, SameShown
<1>4. Numbers(b, d) <=> Numbers(pieces, d)
  BY <1>1, SameShown
<1>5. S \subseteq Places(pieces) /\ T \subseteq Places(pieces)
  OBVIOUS
<1>6. St = IF PartOf(b, m, d) /\ Body(b, m) THEN S \cup {m} ELSE S
  BY <1>2, <1>3
<1>7. Tt = T \/ Tt = T \cup {m}
  BY <1>2, <1>3
<1> HIDE DEF S, T, St, Tt, m
<1>8. Read(b, S) = Read(pieces, S) /\ Read(b, S \cup {m}) = Append(Read(pieces, S), Piece(b, m))
  <2>1. m = Len(pieces) + 1
    BY <1>2
  <2> HIDE DEF b
  <2>2. Read(b, S) = Read(pieces, S)
    BY <1>1, <1>5, ReadKept
  <2> QED
    BY <1>1, <1>5, <2>1, <2>2, ReadMore
<1>9. ReadEach(b, Complete(b, open, "v-ex", Tt))
        = ReadEach(pieces, Complete(pieces, open, "v-ex", T))
  <2>1. /\ Complete(b, open, "v-ex", T) = Complete(pieces, open, "v-ex", T)
        /\ Complete(b, open, "v-ex", T \cup {m}) = Complete(pieces, open, "v-ex", T)
        /\ ReadEach(b, Complete(pieces, open, "v-ex", T))
             = ReadEach(pieces, Complete(pieces, open, "v-ex", T))
    BY <1>5, CompleteRead DEF Parts, m, b
  <2> QED
    BY <1>7, <2>1
<1> DEFINE s == SoFar(pieces, open, d)
<1>10. s = [number |-> IF Numbers(pieces, d) THEN d ELSE None, text |-> Read(pieces, S),
            examples |-> ReadEach(pieces, Complete(pieces, open, "v-ex", T))]
  BY DEF SoFar, S, T
<1>11. SoFar(b, open, d)
         = [number |-> IF Numbers(b, d) THEN d ELSE None, text |-> Read(b, St),
            examples |-> ReadEach(b, Complete(b, open, "v-ex", Tt))]
  BY DEF SoFar, St, Tt
<1> HIDE DEF s, b
<1>12. CASE PartOf(b, m, d) /\ Body(b, m)
  <2>1. SoFar(b, open, d)
          = [number |-> IF Numbers(pieces, d) THEN d ELSE None,
             text |-> Append(Read(pieces, S), Piece(b, m)),
             examples |-> ReadEach(pieces, Complete(pieces, open, "v-ex", T))]
    BY <1>4, <1>6, <1>8, <1>9, <1>11, <1>12
  <2> DEFINE n == IF Numbers(pieces, d) THEN d ELSE None
             t == Read(pieces, S)
             e == ReadEach(pieces, Complete(pieces, open, "v-ex", T))
             u == Append(s.text, Piece(b, m))
  <2>2. SoFar(b, open, d) = [s EXCEPT !.text = Append(s.text, Piece(b, m))]
    <3>1. s = [number |-> n, text |-> t, examples |-> e]
      BY <1>10
    <3>2. SoFar(b, open, d) = [number |-> n, text |-> Append(t, Piece(b, m)), examples |-> e]
      BY <2>1
    <3> HIDE DEF n, t, e, u
    <3>3. s.text = t /\ [s EXCEPT !.text = u] = [number |-> n, text |-> u, examples |-> e]
      BY <3>1, Changed
    <3> QED
      BY <3>2, <3>3 DEF u
  <2> QED
    BY <1>12, <2>2 DEF s, b, m
<1>13. CASE ~ (PartOf(b, m, d) /\ Body(b, m))
  <2>1. SoFar(b, open, d) = s
    BY <1>4, <1>6, <1>8, <1>9, <1>10, <1>11, <1>13
  <2> QED
    BY <1>13, <2>1 DEF s, b, m
<1> QED
  BY <1>12, <1>13

-----------------------------------------------------------------------------
(* Lists of definitions.                                                   *)

\* The last number of a set.
LEMMA NthLast ==
  ASSUME NEW t \in Nat, NEW S, S \subseteq 1..t
  PROVE  LET n == Cardinality(S)
         IN  /\ n \in Nat /\ (n = 0 <=> S = {})
             /\ n # 0 => Nth(S, n) \in S /\ \A s \in S : s <= Nth(S, n)
             /\ \A k \in 1..n : Nth(S, k) \in S /\ (k # n => Nth(S, k) < Nth(S, n))
<1> DEFINE n == Cardinality(S)
<1>1. IsFiniteSet(S) /\ n \in Nat /\ InOrder(S)
  BY NthIn
<1>2. n = 0 <=> S = {}
  BY <1>1, FS_EmptySet
<1>3. /\ \A k \in 1..n : Nth(S, k) \in S
      /\ \A j, k \in 1..n : j < k => Nth(S, j) < Nth(S, k)
      /\ \A s \in S : \E k \in 1..n : s = Nth(S, k)
  BY <1>1 DEF InOrder
<1>4. \A s \in S : s \in Int
  OBVIOUS
<1> HIDE DEF n
<1>5. \A k \in 1..n : Nth(S, k) \in S /\ (k # n => Nth(S, k) < Nth(S, n))
  BY <1>1, <1>3
<1>6. ASSUME n # 0 PROVE Nth(S, n) \in S /\ \A s \in S : s <= Nth(S, n)
  <2>1. n \in 1..n
    BY <1>1, <1>6
  <2>2. Nth(S, n) \in S /\ Nth(S, n) \in Int
    BY <1>3, <1>4, <2>1
  <2>3. ASSUME NEW s \in S PROVE s <= Nth(S, n)
    <3>1. PICK k \in 1..n : s = Nth(S, k)
      BY <1>3
    <3>2. k # n => s < Nth(S, n)
      BY <1>5, <3>1
    <3>3. s \in Int
      BY <1>4
    <3> QED
      BY <2>2, <3>1, <3>2, <3>3
  <2> QED
    BY <2>2, <2>3
<1> QED
  BY <1>1, <1>2, <1>5, <1>6 DEF n

\* A list has as many entries as it lists.
LEMMA ListLength ==
  ASSUME NEW n \in Nat, NEW s, IsList(s, n)
  PROVE  Len(s) = n /\ DOMAIN s = 1..n /\ (s = <<>> <=> n = 0)
<1> DEFINE r == [k \in 1..n |-> s[k]]
<1>1. s = r /\ DOMAIN r = 1..n /\ Len(r) = n
  BY DEF IsList
<1>2. s = <<>> => n = 0
  BY <1>1
<1>3. n = 0 => s = <<>>
  <2>1. n = 0 => 1..n = {}
    OBVIOUS
  <2> QED
    BY <1>1, <2>1
<1> QED
  BY <1>1, <1>2, <1>3

\* A list that differs in its last entry only.
LEMMA LastChanged ==
  ASSUME NEW n \in Nat, n # 0, NEW s, NEW t, IsList(s, n), IsList(t, n),
         \A k \in 1..n : k # n => t[k] = s[k]
  PROVE  t = [s EXCEPT ![n] = t[n]]
<1> DEFINE u == [s EXCEPT ![n] = t[n]]
<1>1. DOMAIN s = 1..n /\ n \in 1..n
  BY ListLength
<1>2. u = [k \in 1..n |-> IF k = n THEN t[n] ELSE s[k]]
  BY <1>1
<1>3. t = [k \in 1..n |-> t[k]]
  BY DEF IsList
<1>4. \A k \in 1..n : (IF k = n THEN t[n] ELSE s[k]) = t[k]
  OBVIOUS
<1> HIDE DEF u
<1>5. u = [k \in 1..n |-> t[k]]
  BY <1>2, <1>4
<1> QED
  BY <1>3, <1>5 DEF u

\* The definitions as a list.
LEMMA DefinitionsList ==
  ASSUME Frame, NEW o
  PROVE  LET n == Cardinality(Beginnings(pieces))
             ds == Definitions(pieces, o)
         IN  /\ n \in Nat /\ IsList(ds, n) /\ Len(ds) = n
             /\ ds = <<>> <=> Beginnings(pieces) = {}
             /\ n = 0 <=> ds = <<>>
             /\ \A k \in 1..n : ds[k] = SoFar(pieces, o, Nth(Beginnings(pieces), k))
<1> DEFINE n == Cardinality(Beginnings(pieces))
           ds == Definitions(pieces, o)
<1>1. Beginnings(pieces) \subseteq 1..Len(pieces) /\ Len(pieces) \in Nat
  BY Read0 DEF Beginnings
<1>2. n \in Nat /\ (n = 0 <=> Beginnings(pieces) = {})
  BY <1>1, NthLast
<1>3. ds = [k \in 1..n |-> SoFar(pieces, o, Nth(Beginnings(pieces), k))]
  BY DEF Definitions
<1> HIDE DEF ds, n
<1>4. IsList(ds, n)
  BY <1>3 DEF IsList
<1>5. Len(ds) = n /\ (ds = <<>> <=> n = 0)
  BY <1>2, <1>4, ListLength
<1>6. \A k \in 1..n : ds[k] = SoFar(pieces, o, Nth(Beginnings(pieces), k))
  BY <1>3
<1> QED
  BY <1>2, <1>4, <1>5, <1>6 DEF ds, n

\* The definition that a text begins.
LEMMA SoFarNew ==
  ASSUME Frame, NEW x, Fed(x), Begins(pieces', Len(pieces) + 1)
  PROVE  LET b == pieces'
             m == Len(pieces) + 1
         IN  SoFar(b, open, m)
               = [Definition(IF Numbers(b, m) THEN m ELSE None,
                             IF Body(b, m) THEN <<Piece(b, m)>> ELSE <<>>)
                    EXCEPT !.examples = <<>>]
<1> DEFINE b == pieces'
           m == Len(pieces) + 1
           St == {i \in Places(b) : PartOf(b, i, m) /\ Body(b, i)}
           Tt == {i \in Places(b) : PartOf(b, i, m) /\ Shown(b, i)}
<1>1. Grown(Texted, pieces, x, b) /\ m = Len(pieces) + 1
  BY DEF Fed
<1>2. Places(b) = 1..Len(pieces) \cup {m} /\ Len(pieces) \in Nat
  BY <1>1, GrownAt, Read0
<1>3. \A i \in 1..Len(pieces) : ~ PartOf(b, i, m)
  BY <1>2 DEF PartOf
<1>4. PartOf(b, m, m)
  BY <1>2 DEF PartOf
<1>5. St = IF Body(b, m) THEN {} \cup {m} ELSE {}
  BY <1>2, <1>3, <1>4
<1>6. Tt = {} \/ Tt = {} \cup {m}
  BY <1>2, <1>3, <1>4
<1> HIDE DEF St, Tt, m, b
<1>7. Read(b, {}) = <<>> /\ Read(b, {} \cup {m}) = <<Piece(b, m)>>
  <2>1. Read(b, {} \cup {m}) = Append(Read(pieces, {}), Piece(b, m))
    BY <1>1, ReadMore
  <2>2. Read(b, {}) = <<>> /\ Read(pieces, {}) = <<>>
    BY Nothing
  <2>3. \A p : Append(<<>>, p) = <<p>>
    OBVIOUS
  <2> QED
    BY <2>1, <2>2, <2>3
<1>8. Complete(b, open, "v-ex", Tt) = {}
  <2>1. /\ Complete(b, open, "v-ex", {}) = Complete(pieces, open, "v-ex", {})
        /\ Complete(b, open, "v-ex", {} \cup {m}) = Complete(pieces, open, "v-ex", {})
    BY CompleteRead DEF Parts, m, b
  <2>2. Complete(pieces, open, "v-ex", {}) = {}
    BY DEF Complete, Holding
  <2> QED
    BY <1>6, <2>1, <2>2
<1>9. SoFar(b, open, m)
        = [number |-> IF Numbers(b, m) THEN m ELSE None, text |-> Read(b, St),
           examples |-> ReadEach(b, Complete(b, open, "v-ex", Tt))]
  BY DEF SoFar, St, Tt
<1>10. SoFar(b, open, m)
        = [number |-> IF Numbers(b, m) THEN m ELSE None,
           text |-> IF Body(b, m) THEN <<Piece(b, m)>> ELSE <<>>, examples |-> <<>>]
  BY <1>5, <1>7, <1>8, <1>9, Nothing
<1> QED
  BY <1>10 DEF Definition, b, m

\* A text begins a definition, is added to the last one, or changes none.
LEMMA DefinitionsRead ==
  ASSUME Frame, NEW x, Fed(x)
  PROVE  LET b == pieces'
             m == Len(pieces) + 1
             ds == Definitions(pieces, open)
             n == Len(ds)
         IN  /\ Begins(b, m) =>
                  Definitions(b, open)
                    = Append(ds, Definition(IF Numbers(b, m) THEN m ELSE None,
                                            IF Body(b, m) THEN <<Piece(b, m)>> ELSE <<>>))
             /\ ~ Begins(b, m) /\ Body(b, m) /\ ds # <<>> =>
                  Definitions(b, open)
                    = [ds EXCEPT ![n] = [ds[n] EXCEPT !.text = Append(ds[n].text, Piece(b, m))]]
             /\ ~ Begins(b, m) /\ ~ (Body(b, m) /\ ds # <<>>) => Definitions(b, open) = ds
<1> DEFINE b == pieces'
           m == Len(pieces) + 1
           B == Beginnings(pieces)
           C == Beginnings(b)
           n == Cardinality(B)
           ds == Definitions(pieces, open)
           es == Definitions(b, open)
<1>1. Grown(Texted, pieces, x, b) /\ m = Len(pieces) + 1
  BY DEF Fed
<1>2. Len(pieces) \in Nat /\ B \subseteq 1..Len(pieces)
  BY Read0 DEF Beginnings
<1>3. /\ n \in Nat /\ IsList(ds, n) /\ Len(ds) = n /\ (n = 0 <=> ds = <<>>)
      /\ \A k \in 1..n : ds[k] = SoFar(pieces, open, Nth(B, k))
  BY DefinitionsList
<1>4. \A k \in 1..n : Nth(B, k) \in B /\ (k # n => Nth(B, k) < Nth(B, n))
  BY <1>2, NthLast
<1>5. n # 0 => Nth(B, n) \in B /\ \A s \in B : s <= Nth(B, n)
  BY <1>2, NthLast
<1>6. /\ Begins(b, m) => C = B \cup {m}
      /\ ~ Begins(b, m) => C = B
  BY ReadBegins
<1>7. es = [k \in 1..Cardinality(C) |-> SoFar(b, open, Nth(C, k))]
  BY DEF Definitions
<1>8. \A i \in 1..Len(pieces) : Begins(b, i) <=> i \in B
  BY <1>1, SameBegins, Read0 DEF Beginnings
<1>9. \A d \in 1..Len(pieces) :
        SoFar(b, open, d)
          = IF PartOf(b, m, d) /\ Body(b, m)
            THEN [SoFar(pieces, open, d) EXCEPT
                     !.text = Append(SoFar(pieces, open, d).text, Piece(b, m))]
            ELSE SoFar(pieces, open, d)
  BY SoFarRead
<1>10. \A c \in 1..m : c \in 1..Len(pieces) \/ c = m
  BY <1>1, <1>2
<1>11. B \subseteq Nat /\ IsFiniteSet(B) /\ m \in Nat /\ \A s \in B : s < m
  BY <1>1, <1>2, NthIn
<1> HIDE DEF b, m, B, C, n, ds, es
<1>12. ASSUME Begins(b, m)
       PROVE  es = Append(ds, Definition(IF Numbers(b, m) THEN m ELSE None,
                                         IF Body(b, m) THEN <<Piece(b, m)>> ELSE <<>>))
  <2>1. /\ Cardinality(C) = n + 1 /\ Nth(C, n + 1) = m
        /\ \A k \in 1..n : Nth(C, k) = Nth(B, k)
    <3>1. /\ Cardinality(B \cup {m}) = Cardinality(B) + 1
          /\ Nth(B \cup {m}, Cardinality(B) + 1) = m
          /\ \A k \in 1..Cardinality(B) : Nth(B \cup {m}, k) = Nth(B, k)
      BY <1>11, NthGrow
    <3> QED
      BY <1>6, <1>12, <3>1 DEF n
  <2>2. \A d \in 1..Len(pieces) : ~ PartOf(b, m, d)
    BY <1>1, <1>2, <1>12 DEF PartOf
  <2>3. \A k \in 1..n : es[k] = ds[k]
    <3> SUFFICES ASSUME NEW k \in 1..n PROVE es[k] = ds[k]
      OBVIOUS
    <3>1. k \in 1..(n + 1)
      BY <1>3
    <3>2. es[k] = SoFar(b, open, Nth(B, k))
      BY <1>7, <2>1, <3>1
    <3>3. Nth(B, k) \in 1..Len(pieces)
      BY <1>2, <1>4
    <3>4. SoFar(b, open, Nth(B, k)) = SoFar(pieces, open, Nth(B, k))
      BY <1>9, <2>2, <3>3
    <3> QED
      BY <1>3, <3>2, <3>4
  <2>4. IsList(es, n + 1)
    BY <1>7, <2>1 DEF IsList
  <2>5. es = Append(ds, es[n + 1])
    BY <1>3, <2>3, <2>4, Extended
  <2>6. es[n + 1] = SoFar(b, open, m)
    BY <1>3, <1>7, <2>1
  <2>7. SoFar(b, open, m)
          = Definition(IF Numbers(b, m) THEN m ELSE None,
                       IF Body(b, m) THEN <<Piece(b, m)>> ELSE <<>>)
    <3>1. SoFar(b, open, m)
            = [Definition(IF Numbers(b, m) THEN m ELSE None,
                          IF Body(b, m) THEN <<Piece(b, m)>> ELSE <<>>)
                 EXCEPT !.examples = <<>>]
      BY <1>12, SoFarNew DEF b, m
    <3> QED
      BY <3>1 DEF Definition
  <2> QED
    BY <2>5, <2>6, <2>7
<1>13. ASSUME ~ Begins(b, m), Body(b, m), ds # <<>>
       PROVE  es = [ds EXCEPT ![n] = [ds[n] EXCEPT !.text = Append(ds[n].text, Piece(b, m))]]
  <2>1. C = B /\ n # 0 /\ n \in 1..n
    BY <1>3, <1>6, <1>13
  <2>2. IsList(es, n) /\ \A k \in 1..n : es[k] = SoFar(b, open, Nth(B, k))
    BY <1>7, <2>1 DEF IsList, n
  <2>3. \A k \in 1..n : k # n => ~ PartOf(b, m, Nth(B, k))
    <3> SUFFICES ASSUME NEW k \in 1..n, k # n, PartOf(b, m, Nth(B, k)) PROVE FALSE
      OBVIOUS
    <3>1. /\ Nth(B, n) \in 1..m /\ Begins(b, Nth(B, n)) /\ Nth(B, n) \in Int
          /\ Nth(B, k) \in Int /\ Nth(B, k) < Nth(B, n)
      <4>1. Nth(B, n) \in B /\ Nth(B, k) \in B /\ Nth(B, k) < Nth(B, n)
        BY <1>4, <2>1
      <4>2. Nth(B, n) \in 1..Len(pieces) /\ Nth(B, k) \in 1..Len(pieces)
        BY <1>2, <4>1
      <4>3. Begins(b, Nth(B, n))
        BY <1>8, <4>1, <4>2
      <4>4. \A i \in 1..Len(pieces) : i \in 1..m /\ i \in Int
        BY <1>1, <1>2
      <4> QED
        BY <4>1, <4>2, <4>3, <4>4
    <3>2. Nth(B, n) <= Nth(B, k)
      BY <3>1 DEF PartOf
    <3> QED
      BY <3>1, <3>2
  <2>4. PartOf(b, m, Nth(B, n))
    <3>1. Nth(B, n) \in 1..Len(pieces) /\ \A s \in B : s <= Nth(B, n)
      BY <1>2, <1>5, <2>1
    <3>2. m >= Nth(B, n)
      BY <1>1, <1>2, <3>1
    <3>3. \A c \in 1..m : Begins(b, c) => c \in B
      BY <1>8, <1>10, <1>13
    <3> QED
      BY <3>1, <3>2, <3>3 DEF PartOf
  <2>5. \A k \in 1..n : k # n => es[k] = ds[k]
    BY <1>2, <1>3, <1>4, <1>9, <2>2, <2>3
  <2>6. es[n] = [ds[n] EXCEPT !.text = Append(ds[n].text, Piece(b, m))]
    BY <1>2, <1>3, <1>4, <1>9, <1>13, <2>1, <2>2, <2>4
  <2>7. es = [ds EXCEPT ![n] = es[n]]
    BY <1>3, <2>1, <2>2, <2>5, LastChanged
  <2> QED
    BY <2>6, <2>7
<1>14. ASSUME ~ Begins(b, m), ~ (Body(b, m) /\ ds # <<>>)
       PROVE  es = ds
  <2>1. C = B
    BY <1>6, <1>14
  <2>2. IsList(es, n) /\ \A k \in 1..n : es[k] = SoFar(b, open, Nth(B, k))
    BY <1>7, <2>1 DEF IsList, n
  <2>3. ASSUME NEW k \in 1..n PROVE es[k] = ds[k]
    <3>1. ~ Body(b, m)
      BY <1>3, <1>14
    <3>2. Nth(B, k) \in 1..Len(pieces)
      BY <1>2, <1>4
    <3> QED
      BY <1>3, <1>9, <2>2, <3>1, <3>2
  <2> QED
    BY <1>3, <2>2, <2>3 DEF IsList
<1> QED
  BY <1>3, <1>12, <1>13, <1>14 DEF b, m, ds, es

\* The text of the example or phrase being read is shown as a whole or not at
\* all, and belongs to the current definition.
Settled ==
  Inline(open) \in {"phr", "v-ex"} =>
    \A i \in 1..Len(pieces) : InElement(pieces, i, open[2].nr) =>
      /\ Shown(pieces, i) <=> ~ Separated(pieces)
      /\ \A c \in Beginnings(pieces) : c <= i

\* A start tag changes no definition.
LEMMA DefinitionsStart ==
  ASSUME Frame, NEW e \in Elements, StartTag(e)
  PROVE  Definitions(pieces, open') = Definitions(pieces, open)
<1>1. ASSUME NEW d PROVE SoFar(pieces, open', d) = SoFar(pieces, open, d)
  <2> DEFINE T == {i \in Places(pieces) : PartOf(pieces, i, d) /\ Shown(pieces, i)}
  <2>1. T \subseteq Places(pieces) /\ "v-ex" \in Parts
    BY DEF Parts
  <2>2. Complete(pieces, open', "v-ex", T) = Complete(pieces, open, "v-ex", T)
    <3> HIDE DEF T
    <3> QED
      BY <2>1, CompleteStart
  <2> QED
    BY <2>2 DEF SoFar
<1> QED
  BY <1>1 DEF Definitions

\* An element has no text if no piece is in it.
LEMMA TextEmpty ==
  ASSUME Frame, NEW n
  PROVE  Text(pieces, n) = <<>> <=> \A i \in Places(pieces) : ~ InElement(pieces, i, n)
<1> DEFINE S == {i \in Places(pieces) : InElement(pieces, i, n)}
<1>1. S \subseteq 1..Len(pieces) /\ Len(pieces) \in Nat
  BY Read0
<1>2. Text(pieces, n) = Read(pieces, S)
  BY DEF Text
<1>3. S = {} <=> \A i \in Places(pieces) : ~ InElement(pieces, i, n)
  OBVIOUS
<1> HIDE DEF S
<1> QED
  BY <1>1, <1>2, <1>3, ReadLength

\* The end of an example adds it to the definition that its text belongs to.
LEMMA SoFarEnd ==
  ASSUME Frame, EndTag, NEW d
  PROVE  LET n == open[2].nr
             s == SoFar(pieces, open, d)
             has == \E i \in Places(pieces) : /\ PartOf(pieces, i, d) /\ Shown(pieces, i)
                                              /\ InElement(pieces, i, n)
         IN  /\ ~ (Inline(open) = "v-ex" /\ Len(open) = 2 /\ has) =>
                  SoFar(pieces, open', d) = s
             /\ Inline(open) = "v-ex" /\ Len(open) = 2 /\ has =>
                  SoFar(pieces, open', d)
                    = [s EXCEPT !.examples = Append(s.examples, Text(pieces, n))]
<1> DEFINE n == open[2].nr
           s == SoFar(pieces, open, d)
           T == {i \in Places(pieces) : PartOf(pieces, i, d) /\ Shown(pieces, i)}
           has == \E i \in T : InElement(pieces, i, n)
           N == Complete(pieces, open, "v-ex", T)
           M == Complete(pieces, open', "v-ex", T)
           r == IF Numbers(pieces, d) THEN d ELSE None
           t == Read(pieces, {i \in Places(pieces) : PartOf(pieces, i, d) /\ Body(pieces, i)})
           u == Append(ReadEach(pieces, N), Text(pieces, n))
<1>1. T \subseteq Places(pieces) /\ "v-ex" \in Parts
  BY DEF Parts
<1>2. has <=> \E i \in Places(pieces) : /\ PartOf(pieces, i, d) /\ Shown(pieces, i)
                                        /\ InElement(pieces, i, n)
  OBVIOUS
<1>3. s = [number |-> r, text |-> t, examples |-> ReadEach(pieces, N)]
  BY DEF SoFar
<1>4. SoFar(pieces, open', d) = [number |-> r, text |-> t, examples |-> ReadEach(pieces, M)]
  BY DEF SoFar
<1> HIDE DEF T
<1>5. /\ Inline(open) # "v-ex" \/ Len(open) # 2 => M = N
      /\ Inline(open) = "v-ex" /\ Len(open) = 2 /\ has => ReadEach(pieces, M) = u
      /\ Inline(open) = "v-ex" /\ Len(open) = 2 /\ ~ has => M = N
  BY <1>1, CompleteEnd
<1> HIDE DEF n, s, has, N, M, r, t
<1>6. s.examples = ReadEach(pieces, N)
  BY <1>3
<1>7. u = Append(s.examples, Text(pieces, n))
  BY <1>6
<1> HIDE DEF u
<1>8. [s EXCEPT !.examples = u] = [number |-> r, text |-> t, examples |-> u]
  BY <1>3, Changed
<1>9. ~ (Inline(open) = "v-ex" /\ Len(open) = 2 /\ has) => SoFar(pieces, open', d) = s
  BY <1>3, <1>4, <1>5
<1>10. Inline(open) = "v-ex" /\ Len(open) = 2 /\ has =>
         SoFar(pieces, open', d) = [s EXCEPT !.examples = u]
  BY <1>4, <1>5, <1>8
<1> QED
  BY <1>2, <1>7, <1>9, <1>10 DEF s, n

\* The end of an example adds it to the last definition, if it is shown.
LEMMA DefinitionsEnd ==
  ASSUME Frame, Settled, EndTag
  PROVE  LET t == Text(pieces, open[2].nr)
             ds == Definitions(pieces, open)
             n == Len(ds)
             ends == /\ Inline(open) = "v-ex" /\ Len(open) = 2 /\ ds # <<>>
                     /\ ~ Separated(pieces) /\ t # <<>>
         IN  /\ ~ ends => Definitions(pieces, open') = ds
             /\ ends => Definitions(pieces, open')
                          = [ds EXCEPT ![n] = [ds[n] EXCEPT
                                                  !.examples = Append(ds[n].examples, t)]]
<1> DEFINE t == Text(pieces, open[2].nr)
           B == Beginnings(pieces)
           n == Cardinality(B)
           ds == Definitions(pieces, open)
           es == Definitions(pieces, open')
           here == Inline(open) = "v-ex" /\ Len(open) = 2
           Has(d) == \E i \in Places(pieces) : /\ PartOf(pieces, i, d) /\ Shown(pieces, i)
                                               /\ InElement(pieces, i, open[2].nr)
<1>1. /\ n \in Nat /\ IsList(ds, n) /\ Len(ds) = n /\ (n = 0 <=> ds = <<>>)
      /\ \A k \in 1..n : ds[k] = SoFar(pieces, open, Nth(B, k))
  BY DefinitionsList
<1>2. /\ IsList(es, n)
      /\ \A k \in 1..n : es[k] = SoFar(pieces, open', Nth(B, k))
  BY DefinitionsList
<1>3. B \subseteq 1..Len(pieces) /\ Len(pieces) \in Nat /\ Places(pieces) = 1..Len(pieces)
  BY Read0 DEF Beginnings
<1>4. /\ n # 0 => Nth(B, n) \in B /\ \A s \in B : s <= Nth(B, n)
      /\ \A k \in 1..n : Nth(B, k) \in B /\ (k # n => Nth(B, k) < Nth(B, n))
  BY <1>3, NthLast
<1>5. t = <<>> <=> \A i \in Places(pieces) : ~ InElement(pieces, i, open[2].nr)
  BY TextEmpty
<1>6. \A d : /\ ~ (here /\ Has(d)) => SoFar(pieces, open', d) = SoFar(pieces, open, d)
             /\ here /\ Has(d) =>
                  SoFar(pieces, open', d)
                    = [SoFar(pieces, open, d) EXCEPT
                         !.examples = Append(SoFar(pieces, open, d).examples, t)]
  BY SoFarEnd
<1>7. here => \A i \in 1..Len(pieces) : InElement(pieces, i, open[2].nr) =>
         /\ Shown(pieces, i) <=> ~ Separated(pieces)
         /\ \A c \in B : c <= i
  BY DEF Settled
<1>8. \A c \in 1..Len(pieces) : Begins(pieces, c) <=> c \in B
  BY <1>3 DEF Beginnings
<1> HIDE DEF B, n, ds, es, t
<1>9. ASSUME here, NEW k \in 1..n, k # n PROVE ~ Has(Nth(B, k))
  <2> SUFFICES ASSUME NEW i \in 1..Len(pieces), PartOf(pieces, i, Nth(B, k)),
                      InElement(pieces, i, open[2].nr)
               PROVE  FALSE
    BY <1>3
  <2>1. Nth(B, k) \in B /\ Nth(B, n) \in B /\ Nth(B, k) < Nth(B, n)
    <3>1. n # 0
      BY <1>1
    <3> QED
      BY <1>4, <1>9, <3>1
  <2>2. Nth(B, n) <= i
    BY <1>7, <1>9, <2>1
  <2>6. Nth(B, n) \in 1..Len(pieces) /\ Nth(B, k) \in 1..Len(pieces)
    BY <1>3, <2>1
  <2>3. Nth(B, n) \in 1..i /\ Begins(pieces, Nth(B, n))
    BY <1>3, <1>8, <2>1, <2>2, <2>6
  <2>4. Nth(B, n) <= Nth(B, k)
    BY <2>3 DEF PartOf
  <2>5. Nth(B, n) \in Int /\ Nth(B, k) \in Int
    BY <1>3, <2>6
  <2> QED
    BY <2>1, <2>4, <2>5
<1>10. ASSUME here, n # 0 PROVE Has(Nth(B, n)) <=> ~ Separated(pieces) /\ t # <<>>
  <2>1. Has(Nth(B, n)) => ~ Separated(pieces) /\ t # <<>>
    BY <1>3, <1>5, <1>7, <1>10
  <2>2. ASSUME ~ Separated(pieces), t # <<>> PROVE Has(Nth(B, n))
    <3>1. PICK i \in 1..Len(pieces) : InElement(pieces, i, open[2].nr)
      BY <1>3, <1>5, <2>2
    <3>2. Shown(pieces, i) /\ \A c \in B : c <= i
      BY <1>7, <1>10, <2>2, <3>1
    <3>3. PartOf(pieces, i, Nth(B, n))
      <4>1. Nth(B, n) \in B /\ \A s \in B : s <= Nth(B, n)
        BY <1>4, <1>10
      <4>2. i >= Nth(B, n)
        BY <1>3, <3>2, <4>1
      <4>3. \A c \in 1..i : c \in 1..Len(pieces)
        BY <1>3
      <4> QED
        BY <1>8, <4>1, <4>2, <4>3 DEF PartOf
    <3> QED
      BY <1>3, <3>1, <3>2, <3>3
  <2> QED
    BY <2>1, <2>2
<1>11. ASSUME ~ (here /\ ds # <<>> /\ ~ Separated(pieces) /\ t # <<>>) PROVE es = ds
  <2>1. ASSUME NEW k \in 1..n PROVE es[k] = ds[k]
    <3>1. n # 0
      BY <1>1
    <3>2. ~ (here /\ Has(Nth(B, k)))
      <4> HIDE DEF Has, here
      <4> QED
        BY <1>1, <1>9, <1>10, <1>11, <3>1
    <3>3. SoFar(pieces, open', Nth(B, k)) = SoFar(pieces, open, Nth(B, k))
      <4> HIDE DEF Has, here
      <4> QED
        BY <1>6, <3>2
    <3> QED
      BY <1>1, <1>2, <3>3
  <2> QED
    BY <1>1, <1>2, <2>1 DEF IsList
<1>12. ASSUME here, ds # <<>>, ~ Separated(pieces), t # <<>>
       PROVE  es = [ds EXCEPT ![n] = [ds[n] EXCEPT !.examples = Append(ds[n].examples, t)]]
  <2> HIDE DEF Has, here
  <2>1. n # 0 /\ n \in 1..n
    BY <1>1, <1>12
  <2>2. \A k \in 1..n : k # n => es[k] = ds[k]
    BY <1>1, <1>2, <1>6, <1>9, <1>12
  <2>3. es[n] = [ds[n] EXCEPT !.examples = Append(ds[n].examples, t)]
    BY <1>1, <1>2, <1>6, <1>10, <1>12, <2>1
  <2>4. es = [ds EXCEPT ![n] = es[n]]
    BY <1>1, <1>2, <2>1, <2>2, LastChanged
  <2> QED
    BY <2>3, <2>4
<1> QED
  BY <1>1, <1>11, <1>12 DEF ds, es, t

-----------------------------------------------------------------------------

\* A start tag keeps what is being read settled.
LEMMA SettledStart ==
  ASSUME Frame, Settled, NEW e \in Elements, StartTag(e)
  PROVE  Settled'
<1>1. pieces' = pieces
  BY DEF StartTag
<1>2. \A f \in {"phr", "v-ex"} : Inline(open') = f <=> e = f \/ Inline(open) = f
  BY FlagStart DEF Flagged
<1>3. e \in {"phr", "v-ex"} => Len(open) = 1 /\ open'[2].nr = tags + 1
  BY FlagStart DEF Flagged
<1> SUFFICES ASSUME Inline(open') \in {"phr", "v-ex"}, NEW i \in 1..Len(pieces),
                    InElement(pieces, i, open'[2].nr)
             PROVE  /\ Shown(pieces, i) <=> ~ Separated(pieces)
                    /\ \A c \in Beginnings(pieces) : c <= i
  BY <1>1 DEF Settled
<1>4. CASE e \in {"phr", "v-ex"}
  <2>1. ~ InElement(pieces, i, tags + 1)
    BY DEF Frame, Marked, Nesting, InElement
  <2> QED
    BY <1>3, <1>4, <2>1
<1>5. CASE e \notin {"phr", "v-ex"}
  <2>1. Inline(open) \in {"phr", "v-ex"}
    BY <1>2, <1>5
  <2>2. open'[2] = open[2]
    <3>1. Len(open) \in Nat /\ ~ (Len(open) < 2)
      BY <2>1, Surroundings DEF Frame
    <3>2. 2 \in 1..Len(open)
      BY <3>1
    <3> QED
      BY <3>2, Opened DEF Frame
  <2> QED
    BY <2>1, <2>2 DEF Settled
<1> QED
  BY <1>4, <1>5

\* An end tag keeps it settled.
LEMMA SettledEnd ==
  ASSUME Frame, Settled, EndTag
  PROVE  Settled'
<1>1. pieces' = pieces
  BY DEF EndTag
<1> SUFFICES ASSUME Inline(open') \in {"phr", "v-ex"}
             PROVE  Inline(open) \in {"phr", "v-ex"} /\ open'[2] = open[2]
  BY <1>1 DEF Settled
<1>2. Inline(open') \in Flagged
  BY DEF Flagged
<1>3. Inline(open) = Inline(open') /\ Len(open) # 2
  BY <1>2, FlagEnd
<1>4. Len(open) \in Nat /\ ~ (Len(open) < 2) /\ Len(open') = Len(open) - 1
  BY <1>3, Surroundings, Ended DEF Frame
<1>5. 2 \in 1..Len(open')
  BY <1>3, <1>4
<1> QED
  BY <1>3, <1>5, Ended DEF Frame

\* A text keeps it settled: what it is in was opened after the last definition began.
LEMMA SettledData ==
  ASSUME Frame, Settled, NEW kind \in Texts, Data(kind), dict = "explanatory"
  PROVE  Settled'
<1> DEFINE m == Len(pieces) + 1
           x == [kind |-> kind, within |-> {open[k] : k \in 1..Len(open)}]
           b == pieces'
<1>1. /\ Fed(x) /\ open' = open /\ (kind = "bars" => Len(open) = 1 /\ Block(open) \in {"p", "ms"})
      /\ (kind = "number" => Inline(open) = "strong")
  BY TextRead
<1>2. x.kind = kind
  OBVIOUS
<1> HIDE DEF x
<1> SUFFICES ASSUME Inline(open) \in {"phr", "v-ex"}, NEW i \in 1..Len(b),
                    InElement(b, i, open[2].nr)
             PROVE  /\ Shown(b, i) <=> ~ Separated(b)
                    /\ \A c \in Beginnings(b) : c <= i
  BY <1>1 DEF Settled
<1>3. Grown(Texted, pieces, x, b)
  BY <1>1 DEF Fed
<1>4. Len(b) = m /\ Len(pieces) \in Nat /\ Places(pieces) = 1..Len(pieces)
  BY <1>3, GrownAt, Read0
<1>5. kind # "bars" /\ kind # "number" /\ Block(open) # "table"
  <2>1. Len(open) \in Nat /\ ~ (Len(open) < 2)
    BY Surroundings DEF Frame
  <2>2. Len(open) > 1
    BY <2>1
  <2>3. Len(open) # 1
    BY <2>2
  <2> QED
    BY <1>1, <2>2, <2>3, Surroundings DEF Frame
<1>6. /\ Separated(b) <=> Separated(pieces)
      /\ Shown(b, m) <=> ~ Separated(pieces)
      /\ ~ Numbers(b, m) /\ ~ Body(b, m)
  BY <1>1, <1>2, <1>5, ReadExplanatory
<1>7. ~ Begins(b, m) /\ Beginnings(b) = Beginnings(pieces)
  <2>1. ~ Begins(b, m)
    BY <1>1, <1>6, ReadBegins
  <2> QED
    BY <1>1, <2>1, ReadBegins
<1>8. CASE i = m
  <2>1. \A c \in Beginnings(pieces) : c <= m
    BY <1>4 DEF Beginnings
  <2> QED
    BY <1>6, <1>7, <1>8, <2>1
<1>9. CASE i \in 1..Len(pieces)
  <2>1. InElement(pieces, i, open[2].nr)
    BY <1>3, <1>9, SameElements
  <2>2. Shown(b, i) <=> Shown(pieces, i)
    BY <1>3, <1>9, SameShown
  <2> QED
    BY <1>6, <1>7, <1>9, <2>1, <2>2 DEF Settled
<1> QED
  BY <1>4, <1>8, <1>9

-----------------------------------------------------------------------------
(* What the handlers of _ExplanatoryParser do to the parser.               *)

Fields ==
  {"head", "pos", "defs", "phrases", "in", "tables", "title", "exampleBuf", "phraseBuf",
   "sawDef", "done", "firstP", "depth", "ms", "sep"}

\* p becomes q at a start tag.
Started(p, e, q) ==
  /\ DOMAIN q = Fields
  /\ q.head = p.head /\ q.pos = p.pos /\ q.defs = p.defs /\ q.phrases = p.phrases
  /\ q.sawDef = p.sawDef /\ q.done = p.done /\ q.firstP = p.firstP /\ q.sep = p.sep
  /\ q.in = IF e \in Headings \cup {"v-ex"} THEN p.in \cup {e}
            ELSE IF e \in Abbrs THEN p.in \cup {"v-abbr"} ELSE p.in
  /\ q.tables = IF e = "table" THEN 1 ELSE 0
  /\ q.title = IF e \in Abbrs THEN e ELSE p.title
  /\ q.exampleBuf = IF e = "v-ex" THEN <<>> ELSE p.exampleBuf
  /\ q.phraseBuf = IF e = "phr" THEN <<>> ELSE p.phraseBuf
  /\ q.depth = IF e \in Paragraphs THEN p.depth + 1 ELSE p.depth
  /\ q.ms = IF e \in Paragraphs THEN e = "ms" ELSE p.ms

\* handle_starttag of _ExplanatoryParser.
LEMMA StartFields ==
  ASSUME NEW p, DOMAIN p = Fields, NEW e \in BlockEls \cup InlineEls, p.tables = 0,
         e = "strong" => p.in \cap {"hw", "alt", "phr"} = {}
  PROVE  Started(p, e, ExplanatoryStart(p, e))
<1> USE DEF Started, Fields, Paragraphs, Abbrs, Headings, BlockEls, InlineEls
<1> DEFINE q == ExplanatoryStart(p, e)
<1>10. q = ExplanatoryStart(p, e)
  OBVIOUS
<1> SUFFICES Started(p, e, q)
  BY DEF q
<1> HIDE DEF q
<1>1. CASE e = "table"
  <2>1. q = [p EXCEPT !.tables = p.tables + 1]
    BY <1>1, <1>10 DEF ExplanatoryStart
  <2> QED
    BY <1>1, <2>1
<1>2. CASE e \in Paragraphs
  <2>1. q = [p EXCEPT !.depth = p.depth + 1, !.ms = (e = "ms")]
    BY <1>2, <1>10 DEF ExplanatoryStart
  <2> QED
    BY <1>2, <2>1
<1>3. CASE e \in {"hw", "alt", "strong"}
  <2>1. q = [p EXCEPT !.in = p.in \cup {e}]
    BY <1>3, <1>10 DEF ExplanatoryStart
  <2> QED
    BY <1>3, <2>1
<1>4. CASE e = "phr"
  <2>1. q = [p EXCEPT !.in = p.in \cup {e}, !.phraseBuf = <<>>]
    BY <1>4, <1>10 DEF ExplanatoryStart
  <2> QED
    BY <1>4, <2>1
<1>5. CASE e = "v-ex"
  <2>1. q = [p EXCEPT !.in = p.in \cup {e}, !.exampleBuf = <<>>]
    BY <1>5, <1>10 DEF ExplanatoryStart
  <2> QED
    BY <1>5, <2>1
<1>6. CASE e \in Abbrs
  <2>1. q = [p EXCEPT !.in = p.in \cup {"v-abbr"}, !.title = e]
    BY <1>6, <1>10 DEF ExplanatoryStart
  <2> QED
    BY <1>6, <2>1
<1>7. CASE e = "accent"
  <2>1. q = p
    BY <1>7, <1>10 DEF ExplanatoryStart
  <2> QED
    BY <1>7, <2>1
<1> QED
  BY <1>1, <1>2, <1>3, <1>4, <1>5, <1>6, <1>7

\* Elements of the same tag are told apart by their class.
LEMMA Tags ==
  ASSUME NEW e \in BlockEls \cup InlineEls
  PROVE  /\ Tag(e) = "table" <=> e = "table"
         /\ Tag(e) = "p" <=> e \in Paragraphs
         /\ Tag(e) = "strong" <=> e \in Headings
         /\ Tag(e) = "v-ex" <=> e = "v-ex"
         /\ Tag(e) = "v-abbr" <=> e \in Abbrs
BY DEF Tag, Paragraphs, Abbrs, Headings, BlockEls, InlineEls

\* A definition's last entry with one example more.
WithExample(ds, t) == [ds EXCEPT ![Len(ds)] = [ds[Len(ds)] EXCEPT
                                                 !.examples = Append(ds[Len(ds)].examples, t)]]

\* p becomes q at an end tag.
EndedFields(p, e, q) ==
  /\ DOMAIN q = Fields
  /\ q.head = p.head /\ q.pos = p.pos /\ q.sawDef = p.sawDef /\ q.sep = p.sep
  /\ q.ms = p.ms
  /\ q.in = IF e \in Headings \cup {"v-ex"} THEN p.in \ {e}
            ELSE IF e \in Abbrs THEN p.in \ {"v-abbr"} ELSE p.in
  /\ q.tables = 0
  /\ q.title = IF e \in Abbrs THEN "" ELSE p.title
  /\ q.exampleBuf = IF e = "v-ex" THEN <<>> ELSE p.exampleBuf
  /\ q.phraseBuf = IF e = "phr" THEN <<>> ELSE p.phraseBuf
  /\ q.phrases = IF e = "phr" /\ p.phraseBuf # <<>>
                 THEN Append(p.phrases, p.phraseBuf) ELSE p.phrases
  /\ q.defs = IF e = "v-ex" /\ p.exampleBuf # <<>> /\ p.defs # <<>>
              THEN WithExample(p.defs, p.exampleBuf) ELSE p.defs
  /\ q.done = IF e = "hw" THEN TRUE ELSE p.done
  /\ q.depth = IF e \in Paragraphs THEN IF p.depth > 0 THEN p.depth - 1 ELSE 0
               ELSE p.depth
  /\ q.firstP = IF e \in Paragraphs THEN p.firstP /\ ~ (p.done /\ q.depth = 0)
                ELSE p.firstP

\* handle_endtag of _ExplanatoryParser.
LEMMA EndFields ==
  ASSUME NEW p, DOMAIN p = Fields, NEW e \in BlockEls \cup InlineEls,
         p.tables = IF e = "table" THEN 1 ELSE 0,
         e \in Headings => \A f \in Headings : f \in p.in <=> f = e
  PROVE  EndedFields(p, e, ExplanatoryEnd(p, Tag(e)))
<1> USE DEF EndedFields, Fields, Paragraphs, Abbrs, Headings, BlockEls, InlineEls
<1> DEFINE tag == Tag(e)
           q == ExplanatoryEnd(p, tag)
<1>0. /\ tag = "table" <=> e = "table"
      /\ tag = "p" <=> e \in Paragraphs
      /\ tag = "strong" <=> e \in Headings
      /\ tag = "v-ex" <=> e = "v-ex"
      /\ tag = "v-abbr" <=> e \in Abbrs
  BY Tags
<1>9. q = ExplanatoryEnd(p, tag)
  OBVIOUS
<1> SUFFICES EndedFields(p, e, q)
  BY DEF q, tag
<1> HIDE DEF tag, q
<1>1. CASE e = "table"
  <2>1. q = [p EXCEPT !.tables = 0]
    BY <1>0, <1>1, <1>9 DEF ExplanatoryEnd
  <2> QED
    BY <1>1, <2>1
<1>2. CASE e \in Paragraphs
  <2> DEFINE deep == IF p.depth > 0 THEN p.depth - 1 ELSE 0
  <2>1. q = [p EXCEPT !.depth = deep, !.firstP = p.firstP /\ ~ (p.done /\ deep = 0)]
    BY <1>0, <1>2, <1>9 DEF ExplanatoryEnd, EndParagraph
  <2>2. q.depth = deep
    <3> HIDE DEF deep
    <3> QED
      BY <2>1
  <2> HIDE DEF deep
  <2>3. /\ DOMAIN q = Fields
        /\ q.head = p.head /\ q.pos = p.pos /\ q.sawDef = p.sawDef /\ q.sep = p.sep
        /\ q.ms = p.ms /\ q.in = p.in /\ q.tables = p.tables /\ q.title = p.title
        /\ q.exampleBuf = p.exampleBuf /\ q.phraseBuf = p.phraseBuf
        /\ q.phrases = p.phrases /\ q.defs = p.defs /\ q.done = p.done
        /\ q.firstP = (p.firstP /\ ~ (p.done /\ deep = 0))
    BY <2>1
  <2> QED
    BY <1>2, <2>2, <2>3 DEF deep
<1>3. CASE e \in Headings
  <2>0. q = EndHeading(p)
    BY <1>0, <1>3, <1>9 DEF ExplanatoryEnd
  <2>1. CASE e = "hw"
    <3>1. q = [p EXCEPT !.in = p.in \ {"hw"}, !.done = TRUE]
      BY <2>0, <2>1 DEF EndHeading
    <3> QED
      BY <2>1, <3>1
  <2>2. CASE e = "alt"
    <3>1. q = [p EXCEPT !.in = p.in \ {"alt"}]
      BY <2>0, <2>2 DEF EndHeading
    <3> QED
      BY <2>2, <3>1
  <2>3. CASE e = "phr"
    <3> DEFINE v == IF p.phraseBuf # <<>> THEN Append(p.phrases, p.phraseBuf) ELSE p.phrases
    <3>1. q = [p EXCEPT !.in = p.in \ {"phr"}, !.phraseBuf = <<>>, !.phrases = v]
      BY <2>0, <2>3 DEF EndHeading
    <3>2. v = IF p.phraseBuf # <<>> THEN Append(p.phrases, p.phraseBuf) ELSE p.phrases
      OBVIOUS
    <3> HIDE DEF v
    <3> QED
      BY <2>3, <3>1, <3>2
  <2>4. CASE e = "strong"
    <3>1. q = [p EXCEPT !.in = p.in \ {"strong"}]
      BY <2>0, <2>4 DEF EndHeading
    <3> QED
      BY <2>4, <3>1
  <2> QED
    BY <1>3, <2>1, <2>2, <2>3, <2>4
<1>4. CASE e = "v-ex"
  <2> DEFINE ended == [p EXCEPT !.in = p.in \ {"v-ex"}, !.exampleBuf = <<>>]
             v == IF p.exampleBuf # <<>> /\ p.defs # <<>>
                  THEN WithExample(p.defs, p.exampleBuf) ELSE p.defs
  <2>1. q = EndExample(p)
    BY <1>0, <1>4, <1>9 DEF ExplanatoryEnd
  <2>2. DOMAIN ended = Fields /\ ended.defs = p.defs
    OBVIOUS
  <2>3. ended = [ended EXCEPT !.defs = p.defs]
    BY <2>2
  <2>4. q = [ended EXCEPT !.defs = v]
    <3>1. CASE p.exampleBuf = <<>> \/ p.defs = <<>>
      BY <2>1, <2>3, <3>1 DEF EndExample
    <3>2. CASE ~ (p.exampleBuf = <<>> \/ p.defs = <<>>)
      <4>1. q = [ended EXCEPT !.defs[Len(p.defs)].examples = Append(@, p.exampleBuf)]
        BY <2>1, <3>2 DEF EndExample
      <4> QED
        BY <2>2, <3>2, <4>1 DEF WithExample
    <3> QED
      BY <3>1, <3>2
  <2>5. v = IF p.exampleBuf # <<>> /\ p.defs # <<>>
            THEN WithExample(p.defs, p.exampleBuf) ELSE p.defs
    OBVIOUS
  <2> HIDE DEF v
  <2> QED
    BY <1>4, <2>4, <2>5
<1>5. CASE e \in Abbrs
  <2>1. q = [p EXCEPT !.in = p.in \ {"v-abbr"}, !.title = ""]
    BY <1>0, <1>5, <1>9 DEF ExplanatoryEnd
  <2> QED
    BY <1>5, <2>1
<1>6. CASE e = "accent"
  <2>1. q = p
    BY <1>0, <1>6, <1>9 DEF ExplanatoryEnd
  <2> QED
    BY <1>6, <2>1
<1> QED
  BY <1>1, <1>2, <1>3, <1>4, <1>5, <1>6

\* p becomes q at a text d that goes to the field to.
DataRead(p, d, to, q) ==
  /\ DOMAIN q = Fields
  /\ q.phrases = p.phrases /\ q.in = p.in /\ q.tables = p.tables /\ q.title = p.title
  /\ q.done = p.done /\ q.firstP = p.firstP /\ q.depth = p.depth /\ q.ms = p.ms
  /\ q.head = IF to = "head" THEN Append(p.head, d) ELSE p.head
  /\ q.sep = IF to = "separator" THEN TRUE ELSE p.sep
  /\ q.exampleBuf = IF to = "example" THEN Append(p.exampleBuf, d) ELSE p.exampleBuf
  /\ q.phraseBuf = IF to = "phrase" THEN Append(p.phraseBuf, d) ELSE p.phraseBuf
  /\ q.pos = IF to = "pos" THEN Append(p.pos, [title |-> p.title, at |-> d.at]) ELSE p.pos
  /\ q.sawDef = IF to = "number" THEN TRUE ELSE p.sawDef
  /\ to \notin {"number", "body"} => q.defs = p.defs
  /\ to = "number" => q.defs = Append(p.defs, Definition(d.at, <<>>))
  /\ to = "body" => q.defs =
       IF p.defs # <<>>
       THEN LET n == Len(p.defs)
            IN  [p.defs EXCEPT ![n] = [p.defs[n] EXCEPT !.text = Append(p.defs[n].text, d)]]
       ELSE IF p.ms /\ ~ p.sawDef THEN <<Definition(None, <<d>>)>> ELSE p.defs

\* handle_data of _ExplanatoryParser.
LEMMA DataFields ==
  ASSUME NEW p, DOMAIN p = Fields, NEW d
  PROVE  DataRead(p, d, Destination(p, d), ExplanatoryData(p, d))
<1> USE DEF DataRead, Fields
<1> DEFINE q == ExplanatoryData(p, d)
           to == Destination(p, d)
<1>9. to \in {"head", "separator", "example", "phrase", "pos", "number", "body", "nowhere"}
  BY DEF Destination
<1>10. q = ExplanatoryData(p, d) /\ to = Destination(p, d)
  OBVIOUS
<1> SUFFICES DataRead(p, d, to, q)
  BY DEF q, to
<1> HIDE DEF q, to
<1>1. CASE to = "head"
  <2>1. q = [p EXCEPT !.head = Append(p.head, d)]
    BY <1>1, <1>10 DEF ExplanatoryData
  <2> QED
    BY <1>1, <2>1
<1>2. CASE to = "separator"
  <2>1. q = [p EXCEPT !.sep = TRUE]
    BY <1>2, <1>10 DEF ExplanatoryData
  <2> QED
    BY <1>2, <2>1
<1>3. CASE to = "example"
  <2>1. q = [p EXCEPT !.exampleBuf = Append(p.exampleBuf, d)]
    BY <1>3, <1>10 DEF ExplanatoryData
  <2> QED
    BY <1>3, <2>1
<1>4. CASE to = "phrase"
  <2>1. q = [p EXCEPT !.phraseBuf = Append(p.phraseBuf, d)]
    BY <1>4, <1>10 DEF ExplanatoryData
  <2> QED
    BY <1>4, <2>1
<1>5. CASE to = "pos"
  <2>1. q = [p EXCEPT !.pos = Append(p.pos, [title |-> p.title, at |-> d.at])]
    BY <1>5, <1>10 DEF ExplanatoryData
  <2> QED
    BY <1>5, <2>1
<1>6. CASE to = "number"
  <2>1. q = [p EXCEPT !.sawDef = TRUE, !.defs = Append(p.defs, Definition(d.at, <<>>))]
    BY <1>6, <1>10 DEF ExplanatoryData
  <2> HIDE DEF Definition
  <2> QED
    BY <1>6, <2>1
<1>7. CASE to = "body"
  <2> DEFINE n == Len(p.defs)
             more == [p.defs EXCEPT ![n] = [p.defs[n] EXCEPT !.text = Append(p.defs[n].text, d)]]
             v == IF p.defs # <<>> THEN more
                  ELSE IF p.ms /\ ~ p.sawDef THEN <<Definition(None, <<d>>)>> ELSE p.defs
  <2>1. q = AddBody(p, d)
    BY <1>7, <1>10 DEF ExplanatoryData
  <2>2. q = [p EXCEPT !.defs = v] \/ (q = p /\ v = p.defs)
    <3>1. CASE p.defs # <<>>
      <4>1. q = [p EXCEPT !.defs[Len(p.defs)].text = Append(@, d)]
        BY <2>1, <3>1 DEF AddBody
      <4> QED
        BY <3>1, <4>1
    <3>2. CASE p.defs = <<>> /\ p.ms /\ ~ p.sawDef
      BY <2>1, <3>2 DEF AddBody
    <3>3. CASE p.defs = <<>> /\ ~ (p.ms /\ ~ p.sawDef)
      <4>1. q = p
        BY <2>1, <3>3 DEF AddBody
      <4>2. v = p.defs
        BY <3>3
      <4> HIDE DEF v
      <4> QED
        BY <4>1, <4>2
    <3> QED
      BY <3>1, <3>2, <3>3
  <2>3. v = IF p.defs # <<>> THEN more
            ELSE IF p.ms /\ ~ p.sawDef THEN <<Definition(None, <<d>>)>> ELSE p.defs
    OBVIOUS
  <2> HIDE DEF v
  <2>4. /\ DOMAIN q = Fields
        /\ q.phrases = p.phrases /\ q.in = p.in /\ q.tables = p.tables /\ q.title = p.title
        /\ q.done = p.done /\ q.firstP = p.firstP /\ q.depth = p.depth /\ q.ms = p.ms
        /\ q.head = p.head /\ q.sep = p.sep /\ q.exampleBuf = p.exampleBuf
        /\ q.phraseBuf = p.phraseBuf /\ q.pos = p.pos /\ q.sawDef = p.sawDef /\ q.defs = v
    BY <2>2
  <2> QED
    BY <1>7, <2>3, <2>4
<1>8. CASE to = "nowhere"
  <2>1. q = p
    BY <1>8, <1>10 DEF ExplanatoryData
  <2> QED
    BY <1>8, <2>1
<1> QED
  BY <1>1, <1>2, <1>3, <1>4, <1>5, <1>6, <1>7, <1>8, <1>9

-----------------------------------------------------------------------------
(* The part of speech.                                                     *)

Candidates == [title : Abbrs, at : Nat]
Naming(q) == {n \in DOMAIN q : q[n].title = "abbr"}

\* The first of the candidates q with the right title stands first of the places S.
Names(q, S) ==
  /\ q \in Seq(Candidates)
  /\ Naming(q) = {} <=> S = {}
  /\ S # {} => q[Min(Naming(q))].at = Min(S)

\* A number above all others does not change which is the first.
LEMMA FirstMore ==
  ASSUME NEW l \in Nat, NEW S, S \subseteq 1..l, NEW m, m = l + 1
  PROVE  IF S = {} THEN Min(S \cup {m}) = m
         ELSE Min(S \cup {m}) = Min(S) /\ Min(S) \in S
<1>1. ASSUME S = {} PROVE Min(S \cup {m}) = m
  <2>1. S \cup {m} = {m} /\ m \in Nat
    BY <1>1
  <2>2. \A x \in {m} : x = m
    OBVIOUS
  <2> QED
    BY <2>1, <2>2 DEF Min
<1>2. ASSUME S # {} PROVE Min(S \cup {m}) = Min(S) /\ Min(S) \in S
  <2>1. S \subseteq Nat
    OBVIOUS
  <2>2. PICK x \in S : \A y \in S : x <= y
    BY <1>2, <2>1, Least
  <2>3. x < m /\ x \in Int /\ \A y \in S \cup {m} : y \in Int
    OBVIOUS
  <2>6. \A y \in S : (\A z \in S : y <= z) => y = x
    BY <2>2, <2>3
  <2>7. \A y \in S \cup {m} : (\A z \in S \cup {m} : y <= z) => y = x
    BY <2>2, <2>3
  <2>8. x \in S \cup {m} /\ \A y \in S \cup {m} : x <= y
    BY <2>2, <2>3
  <2>4. Min(S) = x
    BY <2>2, <2>6, Zenon DEF Min
  <2> DEFINE T == S \cup {m}
  <2> HIDE DEF T
  <2>9. /\ x \in T /\ \A y \in T : x <= y
        /\ \A y \in T : (\A z \in T : y <= z) => y = x
    BY <2>7, <2>8 DEF T
  <2>10. Min(T) = x
    BY <2>9, Zenon DEF Min
  <2>5. Min(S \cup {m}) = x
    BY <2>10 DEF T
  <2> QED
    BY <2>4, <2>5
<1> QED
  BY <1>1, <1>2

\* One more candidate.
LEMMA NamesMore ==
  ASSUME NEW l \in Nat, NEW S, S \subseteq 1..l, NEW m, m = l + 1,
         NEW q, Names(q, S), NEW c \in Candidates, c.at = m
  PROVE  /\ c.title = "abbr" => Names(Append(q, c), S \cup {m})
         /\ c.title # "abbr" => Names(Append(q, c), S)
<1> DEFINE k == Len(q)
           r == Append(q, c)
           N == Naming(q)
<1>1. /\ q \in Seq(Candidates) /\ k \in Nat /\ DOMAIN q = 1..k
  BY DEF Names
<1>2. /\ r \in Seq(Candidates) /\ Len(r) = k + 1 /\ DOMAIN r = 1..(k + 1)
      /\ r[k + 1] = c /\ \A n \in 1..k : r[n] = q[n]
  <2>1. r \in Seq(Candidates) /\ Len(r) = k + 1
    BY <1>1
  <2>2. r[k + 1] = c /\ \A n \in 1..k : r[n] = q[n]
    BY <1>1
  <2> HIDE DEF r
  <2> QED
    BY <2>1, <2>2
<1>3. N \subseteq 1..k /\ N = {n \in 1..k : q[n].title = "abbr"}
  BY <1>1 DEF Naming
<1>4. Naming(r) = {n \in 1..(k + 1) : r[n].title = "abbr"}
  BY <1>2 DEF Naming
<1>5. (N = {} <=> S = {}) /\ (S # {} => q[Min(N)].at = Min(S))
  BY DEF Names
<1>6. \A n \in 1..(k + 1) : n \in 1..k \/ n = k + 1
  BY <1>1
<1>7. k + 1 \in 1..(k + 1) /\ \A n \in 1..k : n \in 1..(k + 1)
  BY <1>1
<1> HIDE DEF k, r, N
<1>8. IF N = {} THEN Min(N \cup {k + 1}) = k + 1
      ELSE Min(N \cup {k + 1}) = Min(N) /\ Min(N) \in N
  BY <1>1, <1>3, FirstMore
<1>9. IF S = {} THEN Min(S \cup {m}) = m ELSE Min(S \cup {m}) = Min(S) /\ Min(S) \in S
  BY FirstMore
<1>10. ASSUME c.title = "abbr" PROVE Names(r, S \cup {m})
  <2>1. Naming(r) = N \cup {k + 1}
    BY <1>2, <1>3, <1>4, <1>6, <1>7, <1>10
  <2>2. r[Min(N \cup {k + 1})].at = Min(S \cup {m})
    <3>1. CASE S = {}
      BY <1>2, <1>5, <1>8, <1>9, <3>1
    <3>2. CASE S # {}
      <4>1. Min(N) \in 1..k
        BY <1>3, <1>5, <1>8, <3>2
      <4> QED
        BY <1>2, <1>5, <1>8, <1>9, <3>2, <4>1
    <3> QED
      BY <3>1, <3>2
  <2>3. Naming(r) # {} /\ S \cup {m} # {}
    BY <2>1
  <2> QED
    BY <1>2, <2>1, <2>2, <2>3 DEF Names
<1>11. ASSUME c.title # "abbr" PROVE Names(r, S)
  <2>1. Naming(r) = N
    BY <1>2, <1>3, <1>4, <1>6, <1>7, <1>11
  <2>2. S # {} => Min(N) \in 1..k
    BY <1>3, <1>5, <1>8
  <2> QED
    BY <1>2, <1>5, <2>1, <2>2 DEF Names
<1> QED
  BY <1>10, <1>11 DEF r

\* The candidate that is taken in the end.
LEMMA NamesPart ==
  ASSUME NEW p, NEW S, Names(p.pos, S)
  PROVE  PartOfSpeech(p) = FirstOf(S)
BY DEF Names, Naming, PartOfSpeech, FirstOf, None

-----------------------------------------------------------------------------
(* The flags of _ExplanatoryParser.                                        *)

ShownPlaces(a) == {i \in Places(a) : Shown(a, i)}
NamedExplanatory(a) == {i \in Places(a) : NamesExplanatory(a, i)}
Single == {"hw", "alt", "phr", "strong", "v-ex"}

\* The flags of _ExplanatoryParser tell which elements are open.
Shape ==
  dict = "explanatory" =>
    /\ DOMAIN parser = Fields
    /\ parser.in \subseteq Single \cup {"v-abbr"}
    /\ \A f \in Single : f \in parser.in <=> Inline(open) = f
    /\ Inline(open) \in Abbrs => "v-abbr" \in parser.in /\ parser.title = Inline(open)
    /\ "v-abbr" \in parser.in => \E k \in 2..Len(open) : open[k].el \in Abbrs
    /\ parser.tables = IF Block(open) = "table" THEN 1 ELSE 0
    /\ parser.depth = IF Block(open) \in Paragraphs THEN 1 ELSE 0
    /\ Block(open) \in Paragraphs => (parser.ms <=> Block(open) = "ms")
    /\ parser.done <=> pieces # <<>> /\ Inline(open) # "hw"
    /\ parser.firstP <=> tags = 0 \/ InFirst(open)
    /\ InFirst(open) => Block(open) # "table"

\* A start tag keeps the flags right.
LEMMA ShapeStart ==
  ASSUME Frame, Shape, NEW e \in Elements, StartTag(e), dict = "explanatory"
  PROVE  /\ Shape'
         /\ parser.tables = 0 /\ e \in BlockEls \cup InlineEls
         /\ e = "strong" => parser.in \cap {"hw", "alt", "phr"} = {}
<1>1. /\ parser' = ExplanatoryStart(parser, e) /\ pieces' = pieces /\ tags' = tags + 1
      /\ dict' = dict /\ tags \in Nat
  BY DEF StartTag, HandleStart, Frame, Nesting
<1>2. /\ \A f \in Flagged : Inline(open') = f <=> e = f \/ Inline(open) = f
      /\ e \in Flagged => /\ Len(open) = 1 /\ Inline(open) = "none"
                          /\ Block(open) \in {"p", "ms"}
      /\ e = "hw" <=> Len(open) = 1 /\ pieces = <<>>
      /\ e \in BlockEls <=> Len(open) = 0
      /\ e \in BlockEls \cup InlineEls
  BY FlagStart
<1>3. /\ Len(open) \in Nat /\ Len(open') = Len(open) + 1
      /\ \A k \in 1..Len(open) : open'[k] = open[k]
      /\ open'[Len(open) + 1] = [el |-> e, nr |-> tags + 1]
      /\ \/ /\ Len(open) = 0 /\ Block(open') = e
            /\ Inline(open') = "none" /\ (tags = 0 => e = "p")
         \/ /\ Len(open) = 1 /\ Block(open) \in {"p", "ms"} /\ Block(open') = Block(open)
            /\ Inline(open') = e
         \/ /\ Len(open) > 1 /\ Block(open') = Block(open) /\ Inline(open') = Inline(open)
            /\ e \in {"accent", "label"} /\ (e = "label" => Inline(open) = "v-ex")
  BY Opened, Surroundings DEF Frame
<1>4. /\ Block(open) = "none" <=> Len(open) = 0
      /\ Inline(open) = "none" <=> Len(open) < 2
      /\ Len(open) > 1 => Block(open) # "table"
  BY Surroundings DEF Frame
<1>5. /\ DOMAIN parser = Fields
      /\ parser.in \subseteq Single \cup {"v-abbr"}
      /\ \A f \in Single : f \in parser.in <=> Inline(open) = f
      /\ Inline(open) \in Abbrs => "v-abbr" \in parser.in /\ parser.title = Inline(open)
      /\ "v-abbr" \in parser.in => \E k \in 2..Len(open) : open[k].el \in Abbrs
      /\ parser.tables = IF Block(open) = "table" THEN 1 ELSE 0
      /\ parser.depth = IF Block(open) \in Paragraphs THEN 1 ELSE 0
      /\ Block(open) \in Paragraphs => (parser.ms <=> Block(open) = "ms")
      /\ parser.done <=> pieces # <<>> /\ Inline(open) # "hw"
      /\ parser.firstP <=> tags = 0 \/ InFirst(open)
      /\ InFirst(open) => Block(open) # "table"
  BY DEF Shape
<1>6. parser.tables = 0
  <2>1. Block(open) # "table"
    BY <1>3, <1>4
  <2> QED
    BY <1>5, <2>1
<1>7. ASSUME e = "strong" PROVE parser.in \cap {"hw", "alt", "phr"} = {}
  <2>1. Inline(open) = "none"
    BY <1>2, <1>7 DEF Flagged
  <2> QED
    BY <1>5, <2>1 DEF Single
<1> DEFINE q == parser'
<1>8. /\ DOMAIN q = Fields
      /\ q.done = parser.done /\ q.firstP = parser.firstP
      /\ q.in = IF e \in Headings \cup {"v-ex"} THEN parser.in \cup {e}
                ELSE IF e \in Abbrs THEN parser.in \cup {"v-abbr"} ELSE parser.in
      /\ q.tables = IF e = "table" THEN 1 ELSE 0
      /\ q.title = IF e \in Abbrs THEN e ELSE parser.title
      /\ q.depth = IF e \in Paragraphs THEN parser.depth + 1 ELSE parser.depth
      /\ q.ms = IF e \in Paragraphs THEN e = "ms" ELSE parser.ms
  <2>1. Started(parser, e, q)
    BY <1>1, <1>2, <1>5, <1>6, <1>7, StartFields
  <2> QED
    BY <2>1 DEF Started
<1> HIDE DEF q
<1>9. Headings \cup {"v-ex"} = Single /\ "v-abbr" \notin Single /\ Single \subseteq Flagged
  BY DEF Headings, Single, Flagged
<1>10. Len(open) = 0 \/ Len(open) = 1 \/ Len(open) > 1
  <2>1. \A l \in Nat : l = 0 \/ l = 1 \/ l > 1
    OBVIOUS
  <2> QED
    BY <1>3, <2>1
<1>11. q.in \subseteq Single \cup {"v-abbr"}
  BY <1>5, <1>8, <1>9
<1>12. \A f \in Single : f \in q.in <=> Inline(open') = f
  BY <1>2, <1>5, <1>8, <1>9
<1>13. Inline(open') \in Abbrs => "v-abbr" \in q.in /\ q.title = Inline(open')
  <2>1. CASE Len(open) = 1
    BY <1>3, <1>8, <2>1 DEF Abbrs, Headings
  <2>2. CASE Len(open) = 0
    BY <1>3, <2>2 DEF Abbrs
  <2>3. CASE Len(open) > 1
    <3> SUFFICES ASSUME Inline(open) \in Abbrs
                 PROVE  "v-abbr" \in q.in /\ q.title = Inline(open)
      BY <1>3, <2>3
    <3>1. e = "accent"
      BY <1>3, <2>3 DEF Abbrs
    <3> QED
      BY <1>5, <1>8, <3>1 DEF Abbrs, Headings
  <2> QED
    BY <1>10, <2>1, <2>2, <2>3
<1>14. ASSUME "v-abbr" \in q.in PROVE \E k \in 2..Len(open') : open'[k].el \in Abbrs
  <2>1. CASE e \in Abbrs
    <3>1. Len(open) # 0
      BY <1>2, <2>1 DEF Abbrs, BlockEls
    <3>2. Len(open) + 1 \in 2..Len(open') /\ open'[Len(open) + 1].el = e
      BY <1>3, <3>1
    <3> QED
      BY <2>1, <3>2
  <2>2. CASE e \notin Abbrs
    <3>1. PICK k \in 2..Len(open) : open[k].el \in Abbrs
      BY <1>5, <1>8, <1>9, <1>14, <2>2
    <3>2. k \in 1..Len(open) /\ k \in 2..Len(open')
      BY <1>3
    <3> QED
      BY <1>3, <3>1, <3>2
  <2> QED
    BY <2>1, <2>2
<1>15. /\ q.tables = IF Block(open') = "table" THEN 1 ELSE 0
       /\ q.depth = IF Block(open') \in Paragraphs THEN 1 ELSE 0
       /\ Block(open') \in Paragraphs => (q.ms <=> Block(open') = "ms")
  <2>1. CASE Len(open) = 0
    <3>1. Block(open') = e /\ Block(open) = "none"
      BY <1>3, <1>4, <2>1
    <3>2. parser.depth = 0
      BY <1>5, <3>1 DEF Paragraphs
    <3>3. q.depth = IF e \in Paragraphs THEN 1 ELSE 0
      BY <1>8, <3>2
    <3>4. e \in Paragraphs => q.ms = (e = "ms")
      BY <1>8
    <3>5. q.tables = IF e = "table" THEN 1 ELSE 0
      BY <1>8
    <3> QED
      BY <3>1, <3>3, <3>4, <3>5
  <2>2. CASE Len(open) # 0
    <3>1. e \notin BlockEls /\ Block(open') = Block(open) /\ Block(open) # "table"
      BY <1>2, <1>3, <1>4, <2>2
    <3>2. e \notin Paragraphs /\ e # "table"
      BY <3>1 DEF BlockEls, Paragraphs
    <3> QED
      BY <1>5, <1>8, <3>1, <3>2
  <2> QED
    BY <2>1, <2>2
<1>16. q.done <=> pieces # <<>> /\ Inline(open') # "hw"
  <2>1. e = "hw" => pieces = <<>>
    BY <1>2
  <2>2. Inline(open') = "hw" <=> e = "hw" \/ Inline(open) = "hw"
    BY <1>2 DEF Flagged
  <2> QED
    BY <1>5, <1>8, <2>1, <2>2
<1>18. InFirst(open') => Block(open') # "table"
  <2>1. CASE Len(open) = 0
    <3>1. open'[1].nr = tags + 1 /\ Block(open') = e /\ (tags = 0 => e = "p")
      BY <1>3, <2>1
    <3> QED
      BY <1>1, <3>1 DEF InFirst
  <2>2. CASE Len(open) # 0
    <3>1. Block(open') = Block(open)
      BY <1>3, <2>2
    <3>2. Block(open) # "table"
      BY <1>3, <1>4, <2>2
    <3> QED
      BY <3>1, <3>2
  <2> QED
    BY <2>1, <2>2
<1>17. q.firstP <=> tags + 1 = 0 \/ InFirst(open')
  <2>1. CASE Len(open) = 0
    <3>1. Len(open') > 0 /\ open'[1].nr = tags + 1 /\ ~ InFirst(open)
      BY <1>3, <2>1 DEF InFirst
    <3> QED
      BY <1>1, <1>5, <1>8, <3>1 DEF InFirst
  <2>2. CASE Len(open) # 0
    <3>1. Len(open') > 0 /\ open'[1] = open[1] /\ Len(open) > 0
      <4>1. 1 \in 1..Len(open)
        BY <1>3, <2>2
      <4> QED
        BY <1>3, <2>2, <4>1
    <3>2. tags # 0
      <4>1. 1 \in 1..Len(open)
        BY <1>3, <2>2
      <4>2. open[1].nr \in 1..tags
        BY <4>1 DEF Frame, Nesting
      <4> QED
        BY <4>2
    <3> QED
      BY <1>1, <1>5, <1>8, <3>1, <3>2 DEF InFirst
  <2> QED
    BY <2>1, <2>2
<1> QED
  BY <1>1, <1>2, <1>6, <1>7, <1>8, <1>11, <1>12, <1>13, <1>14, <1>15, <1>16, <1>17, <1>18
  DEF Shape, q

\* An end tag keeps the flags right.
LEMMA ShapeEnd ==
  ASSUME Frame, Shape, EndTag, dict = "explanatory"
  PROVE  LET e == open[Len(open)].el
         IN  /\ Shape'
             /\ parser.tables = IF e = "table" THEN 1 ELSE 0
             /\ e \in Headings => \A f \in Headings : f \in parser.in <=> f = e
<1> DEFINE e == open[Len(open)].el
<1>1. /\ parser' = ExplanatoryEnd(parser, Tag(e)) /\ pieces' = pieces /\ tags' = tags
      /\ dict' = dict /\ tags \in Nat
  BY DEF EndTag, HandleEnd, Frame, Nesting
<1>2. /\ \A f \in Flagged : Inline(open') = f <=> Inline(open) = f /\ Len(open) # 2
      /\ e \in Flagged <=> Len(open) = 2 /\ Inline(open) \in Flagged
      /\ e \in BlockEls <=> Len(open) = 1
      /\ Len(open) = 1 => e = Block(open) /\ Inline(open) = "none"
      /\ Len(open) = 2 => e = Inline(open)
      /\ Len(open) # 1 /\ Len(open) # 2 => /\ e \in {"accent", "label"}
                                           /\ e = "label" => Inline(open) = "v-ex"
      /\ e \in BlockEls \cup InlineEls
      /\ pieces # <<>>
  BY FlagEnd
<1>3. /\ Len(open) \in Nat /\ Len(open) > 0 /\ Len(open') = Len(open) - 1
      /\ \A k \in 1..Len(open') : k \in 1..Len(open) /\ open'[k] = open[k]
      /\ \/ Len(open) = 1 /\ Block(open') = "none" /\ Inline(open') = "none"
         \/ Len(open) = 2 /\ Block(open') = Block(open) /\ Inline(open') = "none"
         \/ Len(open) > 2 /\ Block(open') = Block(open) /\ Inline(open') = Inline(open)
  BY Ended, Surroundings DEF Frame
<1>4. /\ Len(open) > 1 => Block(open) # "table"
      /\ Inline(open) = "none" <=> Len(open) < 2
      /\ Len(open) > 0 => Block(open) \in BlockEls
  BY Surroundings DEF Frame
<1>5. /\ DOMAIN parser = Fields
      /\ parser.in \subseteq Single \cup {"v-abbr"}
      /\ \A f \in Single : f \in parser.in <=> Inline(open) = f
      /\ Inline(open) \in Abbrs => "v-abbr" \in parser.in /\ parser.title = Inline(open)
      /\ "v-abbr" \in parser.in => \E k \in 2..Len(open) : open[k].el \in Abbrs
      /\ parser.tables = IF Block(open) = "table" THEN 1 ELSE 0
      /\ parser.depth = IF Block(open) \in Paragraphs THEN 1 ELSE 0
      /\ Block(open) \in Paragraphs => (parser.ms <=> Block(open) = "ms")
      /\ parser.done <=> pieces # <<>> /\ Inline(open) # "hw"
      /\ parser.firstP <=> tags = 0 \/ InFirst(open)
      /\ InFirst(open) => Block(open) # "table"
  BY DEF Shape
<1>6. \/ Len(open) = 1 /\ Len(open) # 2
      \/ Len(open) = 2 /\ Len(open) # 1
      \/ Len(open) > 2 /\ Len(open) > 1 /\ Len(open) # 1 /\ Len(open) # 2
  <2>1. \A l \in Nat : l > 0 => \/ l = 1 /\ l # 2
                                \/ l = 2 /\ l # 1
                                \/ l > 2 /\ l > 1 /\ l # 1 /\ l # 2
    OBVIOUS
  <2> QED
    BY <1>3, <2>1
<1>15. e = open[Len(open)].el
  OBVIOUS
<1> HIDE DEF e
<1>7. parser.tables = IF e = "table" THEN 1 ELSE 0
  <2>1. CASE Len(open) = 1
    BY <1>2, <1>5, <2>1
  <2>2. CASE Len(open) # 1
    <3>1. e # "table" /\ Block(open) # "table"
      <4>1. Len(open) > 1
        BY <1>3, <2>2
      <4> QED
        BY <1>2, <1>4, <2>2, <4>1 DEF BlockEls
    <3> QED
      BY <1>5, <3>1
  <2> QED
    BY <2>1, <2>2
<1>8. e \in Headings => \A f \in Headings : f \in parser.in <=> f = e
  <2> SUFFICES ASSUME e \in Headings PROVE \A f \in Headings : f \in parser.in <=> f = e
    OBVIOUS
  <2>1. e \in Flagged /\ Headings \subseteq Single
    BY DEF Headings, Flagged, Single
  <2>2. e = Inline(open)
    BY <1>2, <2>1
  <2> QED
    BY <1>5, <2>1, <2>2
<1> DEFINE q == parser'
<1>9. /\ DOMAIN q = Fields /\ q.ms = parser.ms
      /\ q.in = IF e \in Headings \cup {"v-ex"} THEN parser.in \ {e}
                ELSE IF e \in Abbrs THEN parser.in \ {"v-abbr"} ELSE parser.in
      /\ q.tables = 0
      /\ q.title = IF e \in Abbrs THEN "" ELSE parser.title
      /\ q.done = IF e = "hw" THEN TRUE ELSE parser.done
      /\ q.depth = IF e \in Paragraphs THEN IF parser.depth > 0 THEN parser.depth - 1 ELSE 0
                   ELSE parser.depth
      /\ q.firstP = IF e \in Paragraphs THEN parser.firstP /\ ~ (parser.done /\ q.depth = 0)
                    ELSE parser.firstP
  <2>1. EndedFields(parser, e, q)
    BY <1>1, <1>2, <1>5, <1>7, <1>8, EndFields
  <2> QED
    BY <2>1 DEF EndedFields
<1> HIDE DEF q
<1>10. Headings \cup {"v-ex"} = Single /\ "v-abbr" \notin Single /\ Single \subseteq Flagged
  BY DEF Headings, Single, Flagged
<1>11. CASE Len(open) = 1
  <2>1. /\ e = Block(open) /\ e \in BlockEls /\ Inline(open) = "none" /\ Len(open') = 0
        /\ Block(open') = "none" /\ Inline(open') = "none"
    BY <1>2, <1>3, <1>6, <1>11
  <2>2. e \notin Single /\ e \notin Abbrs /\ e # "hw"
    BY <2>1 DEF BlockEls, Single, Abbrs
  <2>3. q.in = parser.in /\ q.title = parser.title /\ q.done = parser.done
    BY <1>9, <1>10, <2>2
  <2>4. "v-abbr" \notin q.in
    <3>1. 2..1 = {}
      OBVIOUS
    <3> QED
      BY <1>5, <1>11, <2>3, <3>1
  <2>5. \A f \in Single : f \in q.in <=> Inline(open') = f
    BY <1>5, <2>1, <2>3
  <2>6. q.depth = 0 /\ parser.done
    <3>1. parser.done
      BY <1>2, <1>5, <2>1
    <3>2. q.depth = 0
      <4>1. CASE e \in Paragraphs
        <5>1. parser.depth = 1
          BY <1>5, <2>1, <4>1
        <5>2. q.depth = IF parser.depth > 0 THEN parser.depth - 1 ELSE 0
          BY <1>9, <4>1
        <5> QED
          BY <5>1, <5>2
      <4>2. CASE e \notin Paragraphs
        <5>1. parser.depth = 0
          BY <1>5, <2>1, <4>2
        <5> QED
          BY <1>9, <4>2, <5>1
      <4> QED
        BY <4>1, <4>2
    <3> QED
      BY <3>1, <3>2
  <2>7. q.firstP <=> FALSE
    <3>1. CASE e \in Paragraphs
      BY <1>9, <2>6, <3>1
    <3>2. CASE e \notin Paragraphs
      <4>1. e = "table"
        BY <2>1, <3>2 DEF BlockEls, Paragraphs
      <4>2. 1 \in 1..Len(open)
        BY <1>11
      <4>4. open[1].nr \in 1..tags
        BY <4>2 DEF Frame, Nesting
      <4>3. ~ (tags = 0 \/ InFirst(open))
        BY <1>5, <2>1, <4>1, <4>4
      <4> QED
        BY <1>5, <1>9, <3>2, <4>3
    <3> QED
      BY <3>1, <3>2
  <2>8. tags # 0 /\ ~ InFirst(open')
    <3>1. 1 \in 1..Len(open)
      BY <1>11
    <3>2. open[1].nr \in 1..tags
      BY <3>1 DEF Frame, Nesting
    <3> QED
      BY <2>1, <3>2 DEF InFirst
  <2> QED
    BY <1>1, <1>2, <1>7, <1>8, <1>9, <2>1, <2>3, <2>4, <2>5, <2>6, <2>7, <2>8, <1>5
    DEF Shape, q, Abbrs, Paragraphs, e
<1>12. CASE Len(open) = 2
  <2>1. e = Inline(open) /\ Inline(open') = "none" /\ Block(open') = Block(open) /\ Len(open') = 1
    BY <1>2, <1>3, <1>6, <1>12
  <2>2. e \notin BlockEls /\ Block(open) # "table"
    BY <1>2, <1>4, <1>6, <1>12
  <2>3. e \notin Paragraphs /\ e \in InlineEls
    BY <1>2, <2>2 DEF BlockEls, Paragraphs
  <2>4. \A f \in Single : f \notin q.in
    <3> SUFFICES ASSUME NEW f \in Single, f \in q.in PROVE FALSE
      OBVIOUS
    <3>1. f \in parser.in
      BY <1>9
    <3>2. f = e
      BY <1>5, <2>1, <3>1
    <3> QED
      BY <1>9, <1>10, <3>2
  <2>5. "v-abbr" \notin q.in
    <3> SUFFICES ASSUME "v-abbr" \in q.in PROVE FALSE
      OBVIOUS
    <3>1. "v-abbr" \in parser.in /\ e \notin Abbrs
      BY <1>9, <1>10 DEF Abbrs, Single
    <3>2. PICK k \in 2..Len(open) : open[k].el \in Abbrs
      BY <1>5, <3>1
    <3>3. k = Len(open)
      BY <1>12
    <3> QED
      BY <1>15, <3>1, <3>2, <3>3
  <2>6. q.done
    <3>1. CASE e = "hw"
      BY <1>9, <3>1
    <3>2. CASE e # "hw"
      BY <1>2, <1>5, <1>9, <2>1, <3>2
    <3> QED
      BY <3>1, <3>2
  <2>7. q.firstP = parser.firstP /\ q.depth = parser.depth
    BY <1>9, <2>3
  <2>8. InFirst(open') <=> InFirst(open)
    <3>1. 1 \in 1..Len(open') /\ Len(open') > 0 /\ Len(open) > 0
      BY <1>12, <2>1
    <3>2. open'[1] = open[1]
      BY <1>3, <3>1
    <3> QED
      BY <3>1, <3>2 DEF InFirst
  <2>9. q.in \subseteq Single \cup {"v-abbr"}
    BY <1>5, <1>9
  <2> QED
    BY <1>1, <1>2, <1>5, <1>7, <1>8, <1>9, <2>1, <2>2, <2>4, <2>5, <2>6, <2>7, <2>8, <2>9
    DEF Shape, q, Abbrs, Single, e
<1>13. CASE Len(open) > 2
  <2>1. /\ Block(open') = Block(open) /\ Inline(open') = Inline(open) /\ e \in {"accent", "label"}
        /\ e = "label" => Inline(open) = "v-ex"
        /\ Block(open) # "table"
    BY <1>2, <1>3, <1>4, <1>6, <1>13
  <2>2. e \notin Paragraphs /\ e \notin Single /\ e # "hw" /\ e # "table"
    BY <2>1 DEF Paragraphs, Single
  <2>3. /\ q.in = IF e = "label" THEN parser.in \ {"v-abbr"} ELSE parser.in
        /\ q.title = IF e = "label" THEN "" ELSE parser.title
        /\ q.done = parser.done /\ q.firstP = parser.firstP /\ q.depth = parser.depth
    BY <1>9, <1>10, <2>1, <2>2 DEF Abbrs
  <2>4. \A f \in Single : f \in q.in <=> Inline(open') = f
    BY <1>5, <1>10, <2>1, <2>3
  <2>5. Inline(open') \in Abbrs => "v-abbr" \in q.in /\ q.title = Inline(open')
    <3>1. Inline(open) \in Abbrs => e # "label"
      BY <2>1 DEF Abbrs
    <3> QED
      BY <1>5, <2>1, <2>3, <3>1
  <2>6. ASSUME "v-abbr" \in q.in PROVE \E k \in 2..Len(open') : open'[k].el \in Abbrs
    <3>1. "v-abbr" \in parser.in /\ e = "accent"
      BY <2>1, <2>3, <2>6
    <3>2. PICK k \in 2..Len(open) : open[k].el \in Abbrs
      BY <1>5, <3>1
    <3>3. k # Len(open)
      BY <1>15, <3>1, <3>2 DEF Abbrs
    <3>4. k \in 2..Len(open') /\ k \in 1..Len(open')
      BY <1>3, <3>3
    <3> QED
      BY <1>3, <3>2, <3>4
  <2>7. InFirst(open') <=> InFirst(open)
    <3>1. 1 \in 1..Len(open') /\ Len(open') > 0
      BY <1>3, <1>13
    <3>2. open'[1] = open[1]
      BY <1>3, <3>1
    <3> QED
      BY <1>3, <3>1, <3>2 DEF InFirst
  <2>8. q.in \subseteq Single \cup {"v-abbr"}
    BY <1>5, <1>9
  <2> QED
    BY <1>1, <1>5, <1>7, <1>8, <1>9, <2>1, <2>3, <2>4, <2>5, <2>6, <2>7, <2>8 DEF Shape, q, e
<1> QED
  BY <1>6, <1>11, <1>12, <1>13

\* A text keeps the flags right.
LEMMA ShapeData ==
  ASSUME Frame, Shape, NEW kind \in Texts, Data(kind), dict = "explanatory"
  PROVE  Shape'
<1> DEFINE d == [kind |-> kind, at |-> Len(pieces) + 1]
           x == [kind |-> kind, within |-> {open[k] : k \in 1..Len(open)}]
<1>1. /\ parser' = ExplanatoryData(parser, d) /\ open' = open /\ tags' = tags /\ dict' = dict
      /\ pieces = <<>> => Inline(open) = "hw"
  BY TextRead DEF HandleData
<1>2. pieces' # <<>>
  <2>1. Fed(x)
    BY TextRead
  <2>2. Len(pieces') = Len(pieces) + 1 /\ Len(pieces) \in Nat
    BY <2>1, GrownAt DEF Fed
  <2> QED
    BY <2>2, EmptySeq
<1>3. DOMAIN parser = Fields
  BY DEF Shape
<1> HIDE DEF d
<1>4. /\ DOMAIN parser' = Fields
      /\ parser'.in = parser.in /\ parser'.tables = parser.tables
      /\ parser'.title = parser.title /\ parser'.done = parser.done
      /\ parser'.firstP = parser.firstP /\ parser'.depth = parser.depth
      /\ parser'.ms = parser.ms
  <2>1. DataRead(parser, d, Destination(parser, d), parser')
    BY <1>1, <1>3, DataFields
  <2> QED
    BY <2>1 DEF DataRead
<1> QED
  BY <1>1, <1>2, <1>4 DEF Shape

-----------------------------------------------------------------------------
(* What _ExplanatoryParser has read.                                       *)

\* The text of the part being read, if it is shown.
Buffer(a, o, el) ==
  IF Inline(o) = el /\ ~ Separated(a) THEN Text(a, o[2].nr) ELSE <<>>

\* The fields of _ExplanatoryParser have what the article has said so far.
Content ==
  dict = "explanatory" =>
    /\ parser.head = Read(pieces, OfHeadword(pieces))
    /\ parser.sep <=> Separated(pieces)
    /\ parser.sawDef <=> Numbered(pieces)
    /\ parser.defs = Definitions(pieces, open)
    /\ parser.phrases = ReadEach(pieces, Complete(pieces, open, "phr", ShownPlaces(pieces)))
    /\ parser.phraseBuf = Buffer(pieces, open, "phr")
    /\ parser.exampleBuf = Buffer(pieces, open, "v-ex")
    /\ Names(parser.pos, NamedExplanatory(pieces))

\* A start tag empties the buffer of its own element only.
LEMMA BufferStart ==
  ASSUME Frame, NEW e \in Elements, StartTag(e), NEW el \in {"phr", "v-ex"}
  PROVE  Buffer(pieces, open', el) = IF e = el THEN <<>> ELSE Buffer(pieces, open, el)
<1>1. /\ Inline(open') = el <=> e = el \/ Inline(open) = el
      /\ e = el => Len(open) = 1 /\ Inline(open) = "none" /\ open'[2].nr = tags + 1
  BY FlagStart DEF Flagged
<1>2. CASE e = el
  <2>1. open'[2].nr = tags + 1 /\ Text(pieces, tags + 1) = <<>>
    BY <1>1, <1>2, NoText
  <2> QED
    BY <1>2, <2>1 DEF Buffer
<1>3. CASE e # el
  <2>1. CASE Inline(open) = el
    <3>1. Len(open) \in Nat /\ ~ (Len(open) < 2)
      BY <2>1, Surroundings DEF Frame
    <3>2. 2 \in 1..Len(open)
      BY <3>1
    <3>3. open'[2] = open[2]
      BY <3>2, Opened DEF Frame
    <3> QED
      BY <1>1, <1>3, <2>1, <3>3 DEF Buffer
  <2>2. CASE Inline(open) # el
    BY <1>1, <1>3, <2>2 DEF Buffer
  <2> QED
    BY <2>1, <2>2
<1> QED
  BY <1>2, <1>3

\* An end tag empties the buffer of its own element only.
LEMMA BufferEnd ==
  ASSUME Frame, EndTag, NEW el \in {"phr", "v-ex"}
  PROVE  Buffer(pieces, open', el)
           = IF open[Len(open)].el = el THEN <<>> ELSE Buffer(pieces, open, el)
<1> DEFINE e == open[Len(open)].el
<1>1. /\ Inline(open') = el <=> Inline(open) = el /\ Len(open) # 2
      /\ e = el => Len(open) = 2
      /\ Len(open) = 2 => e = Inline(open)
  BY FlagEnd DEF Flagged
<1> HIDE DEF e
<1>2. CASE Inline(open') = el
  <2>1. Len(open) \in Nat /\ ~ (Len(open) < 2) /\ Len(open') = Len(open) - 1 /\ Len(open) # 2
    BY <1>1, <1>2, Surroundings, Ended DEF Frame
  <2>2. 2 \in 1..Len(open')
    BY <2>1
  <2>3. open'[2] = open[2]
    BY <2>2, Ended DEF Frame
  <2> QED
    BY <1>1, <1>2, <2>3 DEF Buffer, e
<1>3. CASE Inline(open') # el
  BY <1>1, <1>3 DEF Buffer, e
<1> QED
  BY <1>2, <1>3

\* A text is added to the buffer of the element it is in, if it is shown.
LEMMA BufferRead ==
  ASSUME Frame, NEW x, Fed(x), NEW el \in {"phr", "v-ex"},
         x.kind = "bars" => Len(open) = 1 /\ Block(open) \in {"p", "ms"}
  PROVE  LET b == pieces'
             m == Len(pieces) + 1
         IN  Buffer(b, open, el)
               = IF Inline(open) = el /\ Shown(b, m)
                 THEN Append(Buffer(pieces, open, el), Piece(b, m))
                 ELSE Buffer(pieces, open, el)
<1> DEFINE b == pieces'
           m == Len(pieces) + 1
<1>1. CASE Inline(open) = el
  <2>1. Len(open) \in Nat /\ ~ (Len(open) < 2)
    BY <1>1, Surroundings DEF Frame
  <2>7. \A l \in Nat : ~ (l < 2) => 2 \in 1..l /\ l > 1 /\ l # 1
    OBVIOUS
  <2>2. 2 \in 1..Len(open) /\ Len(open) > 1 /\ Len(open) # 1
    BY <2>1, <2>7
  <2>3. x.kind # "bars" /\ Block(open) # "table"
    BY <2>2, Surroundings DEF Frame
  <2>4. /\ Separated(b) <=> Separated(pieces)
        /\ Shown(b, m) <=> ~ Separated(pieces)
    BY <2>3, ReadExplanatory
  <2>5. InElement(b, m, open[2].nr)
    BY <2>2, TextSays
  <2>6. Text(b, open[2].nr) = Append(Text(pieces, open[2].nr), Piece(b, m))
    BY <2>5, TextGrows
  <2> HIDE DEF b, m
  <2>8. Buffer(b, open, el)
          = IF Inline(open) = el /\ Shown(b, m)
            THEN Append(Buffer(pieces, open, el), Piece(b, m))
            ELSE Buffer(pieces, open, el)
    BY <1>1, <2>4, <2>6 DEF Buffer
  <2> QED
    BY <2>8 DEF b, m
<1>2. CASE Inline(open) # el
  BY <1>2 DEF Buffer
<1> QED
  BY <1>1, <1>2

\* A start tag adds nothing to what the parser has.
LEMMA ContentStart ==
  ASSUME Frame, Shape, Content, NEW e \in Elements, StartTag(e), dict = "explanatory"
  PROVE  Content'
<1>1. /\ parser' = ExplanatoryStart(parser, e) /\ pieces' = pieces /\ dict' = dict
  BY DEF StartTag, HandleStart
<1>2. DOMAIN parser = Fields
  BY DEF Shape
<1>3. /\ parser.tables = 0 /\ e \in BlockEls \cup InlineEls
      /\ e = "strong" => parser.in \cap {"hw", "alt", "phr"} = {}
  BY ShapeStart
<1>4. Started(parser, e, parser')
  BY <1>1, <1>2, <1>3, StartFields
<1>5. Definitions(pieces, open') = Definitions(pieces, open)
  BY DefinitionsStart
<1>6. Complete(pieces, open', "phr", ShownPlaces(pieces))
        = Complete(pieces, open, "phr", ShownPlaces(pieces))
  <2>1. ShownPlaces(pieces) \subseteq Places(pieces)
    BY DEF ShownPlaces
  <2> QED
    BY <2>1, CompleteStart DEF Parts
<1>7. /\ Buffer(pieces, open', "phr") = IF e = "phr" THEN <<>> ELSE Buffer(pieces, open, "phr")
      /\ Buffer(pieces, open', "v-ex") = IF e = "v-ex" THEN <<>> ELSE Buffer(pieces, open, "v-ex")
  BY BufferStart
<1>8. /\ parser'.head = parser.head /\ parser'.pos = parser.pos /\ parser'.defs = parser.defs
      /\ parser'.phrases = parser.phrases /\ parser'.sawDef = parser.sawDef
      /\ parser'.sep = parser.sep
      /\ parser'.exampleBuf = IF e = "v-ex" THEN <<>> ELSE parser.exampleBuf
      /\ parser'.phraseBuf = IF e = "phr" THEN <<>> ELSE parser.phraseBuf
  BY <1>4 DEF Started
<1> QED
  BY <1>1, <1>5, <1>6, <1>7, <1>8 DEF Content

\* An end tag adds a phrase or an example that is complete.
LEMMA ContentEnd ==
  ASSUME Frame, Shape, Settled, Content, EndTag, dict = "explanatory"
  PROVE  Content'
<1> DEFINE e == open[Len(open)].el
           t == Text(pieces, open[2].nr)
           ds == Definitions(pieces, open)
           S == ShownPlaces(pieces)
           N == Complete(pieces, open, "phr", S)
           M == Complete(pieces, open', "phr", S)
<1>1. /\ parser' = ExplanatoryEnd(parser, Tag(e)) /\ pieces' = pieces /\ dict' = dict
  BY DEF EndTag, HandleEnd
<1>2. DOMAIN parser = Fields
  BY DEF Shape
<1>3. /\ parser.tables = IF e = "table" THEN 1 ELSE 0
      /\ e \in Headings => \A f \in Headings : f \in parser.in <=> f = e
      /\ e \in BlockEls \cup InlineEls
  BY ShapeEnd, FlagEnd
<1>4. EndedFields(parser, e, parser')
  BY <1>1, <1>2, <1>3, EndFields
<1>5. /\ e = "phr" <=> Inline(open) = "phr" /\ Len(open) = 2
      /\ e = "v-ex" <=> Inline(open) = "v-ex" /\ Len(open) = 2
  <2>1. /\ e \in Flagged <=> Len(open) = 2 /\ Inline(open) \in Flagged
        /\ Len(open) = 2 => e = Inline(open)
    BY FlagEnd
  <2> QED
    BY <2>1 DEF Flagged
<1>6. \A el \in {"phr", "v-ex"} :
        Buffer(pieces, open', el) = IF e = el THEN <<>> ELSE Buffer(pieces, open, el)
  BY BufferEnd
<1>7. LET ends == /\ Inline(open) = "v-ex" /\ Len(open) = 2 /\ ds # <<>>
                  /\ ~ Separated(pieces) /\ t # <<>>
      IN  Definitions(pieces, open') = IF ends THEN WithExample(ds, t) ELSE ds
  BY DefinitionsEnd DEF WithExample
<1>8. S \subseteq Places(pieces) /\ "phr" \in Parts
  BY DEF ShownPlaces, Parts
<1>9. t = <<>> <=> \A i \in Places(pieces) : ~ InElement(pieces, i, open[2].nr)
  BY TextEmpty
<1>10. Places(pieces) = 1..Len(pieces)
  BY Read0
<1> HIDE DEF S
<1>11. /\ Inline(open) # "phr" \/ Len(open) # 2 => M = N
       /\ Inline(open) = "phr" /\ Len(open) = 2 =>
            /\ (\E i \in S : InElement(pieces, i, open[2].nr)) =>
                 ReadEach(pieces, M) = Append(ReadEach(pieces, N), t)
            /\ ~ (\E i \in S : InElement(pieces, i, open[2].nr)) => M = N
  BY <1>8, CompleteEnd
<1>12. Inline(open) = "phr" =>
         ((\E i \in S : InElement(pieces, i, open[2].nr)) <=> ~ Separated(pieces) /\ t # <<>>)
  BY <1>9, <1>10 DEF Settled, S, ShownPlaces
<1>13. /\ parser'.head = parser.head /\ parser'.pos = parser.pos
       /\ parser'.sawDef = parser.sawDef /\ parser'.sep = parser.sep
       /\ parser'.exampleBuf = IF e = "v-ex" THEN <<>> ELSE parser.exampleBuf
       /\ parser'.phraseBuf = IF e = "phr" THEN <<>> ELSE parser.phraseBuf
       /\ parser'.phrases = IF e = "phr" /\ parser.phraseBuf # <<>>
                            THEN Append(parser.phrases, parser.phraseBuf) ELSE parser.phrases
       /\ parser'.defs = IF e = "v-ex" /\ parser.exampleBuf # <<>> /\ parser.defs # <<>>
                         THEN WithExample(parser.defs, parser.exampleBuf) ELSE parser.defs
  BY <1>4 DEF EndedFields
<1>14. /\ parser.head = Read(pieces, OfHeadword(pieces))
       /\ parser.sep <=> Separated(pieces)
       /\ parser.sawDef <=> Numbered(pieces)
       /\ parser.defs = ds
       /\ parser.phrases = ReadEach(pieces, N)
       /\ parser.phraseBuf = Buffer(pieces, open, "phr")
       /\ parser.exampleBuf = Buffer(pieces, open, "v-ex")
       /\ Names(parser.pos, NamedExplanatory(pieces))
  BY DEF Content, S
<1>15. \A el \in {"phr", "v-ex"} : Inline(open) = el =>
         Buffer(pieces, open, el) = IF ~ Separated(pieces) THEN t ELSE <<>>
  BY DEF Buffer
<1> HIDE DEF e, t, ds, N, M
<1>16. parser'.defs = Definitions(pieces, open')
  BY <1>5, <1>7, <1>13, <1>14, <1>15
<1>17. parser'.phrases = ReadEach(pieces, M)
  BY <1>5, <1>11, <1>12, <1>13, <1>14, <1>15
<1> QED
  BY <1>1, <1>6, <1>13, <1>14, <1>16, <1>17 DEF Content, M, S

\* Where a text goes, by what the article says of it.
LEMMA Goes ==
  ASSUME Frame, Shape, Content, NEW kind \in Texts, Data(kind), dict = "explanatory"
  PROVE  LET b == pieces'
             m == Len(pieces) + 1
             to == Destination(parser, [kind |-> kind, at |-> m])
         IN  /\ to = "head" <=> Inline(open) = "hw"
             /\ to = "separator" => Separated(b)
             /\ Separated(b) => Separated(pieces) \/ to = "separator"
             /\ to = "example" <=> Inline(open) = "v-ex" /\ Shown(b, m)
             /\ to = "phrase" <=> Inline(open) = "phr" /\ Shown(b, m)
             /\ to = "pos" <=> Inline(open) \in Abbrs /\ Shown(b, m) /\ ~ Numbered(pieces)
             /\ to = "number" <=> Numbers(b, m)
             /\ to = "body" <=> Body(b, m)
<1> DEFINE b == pieces'
           m == Len(pieces) + 1
           d == [kind |-> kind, at |-> m]
           to == Destination(parser, d)
           x == [kind |-> kind, within |-> {open[k] : k \in 1..Len(open)}]
           in == Inline(open)
<1>1. /\ Fed(x) /\ Len(open) > 0
      /\ pieces = <<>> => in = "hw"
      /\ kind = "number" => in = "strong"
      /\ kind = "bars" => Len(open) = 1 /\ Block(open) \in {"p", "ms"}
  BY TextRead
<1>2. x.kind = kind /\ d.kind = kind
  OBVIOUS
<1> HIDE DEF x
<1>3. /\ Separated(b) <=> Separated(pieces) \/ kind = "bars"
      /\ Shown(b, m) <=> Block(open) # "table" /\ ~ Separated(pieces) /\ kind # "bars"
      /\ Numbers(b, m) <=> Shown(b, m) /\ kind = "number" /\ in = "strong" /\ ~ InFirst(open)
      /\ Body(b, m) <=> Shown(b, m) /\ in \in {"none", "accent"} /\ ~ InFirst(open)
  BY <1>1, <1>2, ReadExplanatory
<1>4. /\ Len(open) \in Nat /\ (in = "none" <=> Len(open) < 2)
      /\ Len(open) > 1 => in \in InlineEls /\ Block(open) # "table"
  BY Surroundings DEF Frame
<1>5. /\ in = "none" \/ (in \in InlineEls /\ Block(open) # "table" /\ kind # "bars")
  <2>1. CASE Len(open) > 1
    <3>1. Len(open) # 1
      BY <2>1
    <3> QED
      BY <1>1, <1>4, <2>1, <3>1
  <2>2. CASE ~ (Len(open) > 1)
    BY <1>4, <2>2
  <2> QED
    BY <2>1, <2>2
<1>6. kind = "bars" => in = "none" /\ Block(open) # "table"
  <2>1. Len(open) = 1 => Len(open) < 2
    OBVIOUS
  <2> QED
    BY <1>1, <1>4, <2>1
<1>7. in = "hw" => ~ Separated(pieces)
  BY Read0 DEF Frame, Beginning, Separated, Separates, In
<1>8. /\ \A f \in Single : f \in parser.in <=> in = f
      /\ in \in Abbrs => "v-abbr" \in parser.in
      /\ parser.tables > 0 <=> Block(open) = "table"
      /\ parser.done <=> pieces # <<>> /\ in # "hw"
      /\ parser.firstP <=> tags = 0 \/ InFirst(open)
  BY DEF Shape
<1>9. "v-abbr" \in parser.in => in \in Abbrs \/ in = "v-ex"
  <2> SUFFICES ASSUME "v-abbr" \in parser.in PROVE in \in Abbrs \/ in = "v-ex"
    OBVIOUS
  <2>1. PICK k \in 2..Len(open) : open[k].el \in Abbrs
    BY DEF Shape
  <2>2. CASE k = 2
    <3>1. Len(open) > 1 /\ open[2].el = in
      BY <1>4, <2>2, Surroundings DEF Frame
    <3> QED
      BY <2>1, <2>2, <3>1
  <2>3. CASE k \in 3..Len(open)
    BY <2>1, <2>3 DEF Frame, Nesting, Abbrs
  <2> QED
    BY <1>4, <2>1, <2>2, <2>3
<1>10. tags # 0
  <2>1. 1 \in 1..Len(open)
    BY <1>1, <1>4
  <2> QED
    BY <2>1 DEF Frame, Nesting
<1>11. (parser.sep <=> Separated(pieces)) /\ (parser.sawDef <=> Numbered(pieces))
  BY DEF Content
<1> HIDE DEF b, m, d, in
<1>12. /\ "hw" \in parser.in <=> in = "hw"
       /\ "alt" \in parser.in <=> in = "alt"
       /\ "phr" \in parser.in <=> in = "phr"
       /\ "strong" \in parser.in <=> in = "strong"
       /\ "v-ex" \in parser.in <=> in = "v-ex"
  BY <1>8 DEF Single
<1>13. in \in {"none", "hw", "alt", "phr", "strong", "v-ex", "accent"} \cup Abbrs
  BY <1>5 DEF InlineEls, Abbrs
<1>14. \A f \in {"none", "hw", "alt", "phr", "strong", "v-ex", "accent"} : f \notin Abbrs
  BY DEF Abbrs
<1>15. to = IF Block(open) = "table" \/ Separated(pieces) THEN "nowhere"
            ELSE IF in = "hw" THEN "head"
            ELSE IF in = "alt" THEN "nowhere"
            ELSE IF kind = "bars" THEN "separator"
            ELSE IF in = "v-ex" THEN "example"
            ELSE IF in = "phr" THEN "phrase"
            ELSE IF in \in Abbrs THEN IF Numbered(pieces) THEN "nowhere" ELSE "pos"
            ELSE IF InFirst(open) THEN "nowhere"
            ELSE IF in = "strong" THEN IF kind = "number" THEN "number" ELSE "nowhere"
            ELSE "body"
  <2>1. in \in Abbrs \/ in = "v-ex" \/ "v-abbr" \notin parser.in
    BY <1>9
  <2>2. parser.firstP <=> InFirst(open)
    BY <1>8, <1>10
  <2>3. in # "hw" => parser.done
    BY <1>1, <1>8 DEF in
  <2> QED
    BY <1>2, <1>8, <1>11, <1>12, <2>1, <2>2, <2>3 DEF Destination
<1> HIDE DEF to
<1>16. /\ to = "head" <=> in = "hw"
       /\ to = "separator" => Separated(b)
       /\ Separated(b) => Separated(pieces) \/ to = "separator"
  BY <1>1, <1>3, <1>5, <1>6, <1>7, <1>15
<1>17. /\ to = "example" <=> in = "v-ex" /\ Shown(b, m)
       /\ to = "phrase" <=> in = "phr" /\ Shown(b, m)
       /\ to = "pos" <=> in \in Abbrs /\ Shown(b, m) /\ ~ Numbered(pieces)
  BY <1>3, <1>5, <1>14, <1>15
<1>18. /\ to = "number" <=> Numbers(b, m)
       /\ to = "body" <=> Body(b, m)
  BY <1>3, <1>5, <1>13, <1>14, <1>15
<1> QED
  BY <1>16, <1>17, <1>18 DEF b, m, d, to, in

\* A text is added where the article has it.
LEMMA ContentData ==
  ASSUME Frame, Shape, Content, NEW kind \in Texts, Data(kind), dict = "explanatory"
  PROVE  Content'
<1> DEFINE b == pieces'
           m == Len(pieces) + 1
           d == [kind |-> kind, at |-> m]
           to == Destination(parser, d)
           x == [kind |-> kind, within |-> {open[k] : k \in 1..Len(open)}]
           in == Inline(open)
           ds == Definitions(pieces, open)
<1>1. /\ Fed(x) /\ Len(open) > 0 /\ open' = open /\ dict' = dict
      /\ kind = "bars" => Len(open) = 1 /\ Block(open) \in {"p", "ms"}
      /\ parser' = ExplanatoryData(parser, d)
  BY TextRead DEF HandleData
<1>2. /\ x.kind = kind /\ d = Piece(b, m) /\ d.at = m
  <2>1. x.kind = kind
    OBVIOUS
  <2>2. b[m].kind = x.kind
    BY <1>1, TextSays
  <2> QED
    BY <2>1, <2>2 DEF Piece
<1> HIDE DEF x
<1>3. DataRead(parser, d, to, parser')
  <2>1. DOMAIN parser = Fields
    BY DEF Shape
  <2> QED
    BY <1>1, <2>1, DataFields
<1>4. /\ to = "head" <=> in = "hw"
      /\ to = "separator" => Separated(b)
      /\ Separated(b) => Separated(pieces) \/ to = "separator"
      /\ to = "example" <=> in = "v-ex" /\ Shown(b, m)
      /\ to = "phrase" <=> in = "phr" /\ Shown(b, m)
      /\ to = "pos" <=> in \in Abbrs /\ Shown(b, m) /\ ~ Numbered(pieces)
      /\ to = "number" <=> Numbers(b, m)
      /\ to = "body" <=> Body(b, m)
  BY Goes
<1>5. Grown(Texted, pieces, x, b)
  BY <1>1 DEF Fed
<1>6. /\ Places(b) = Places(pieces) \cup {m} /\ Places(pieces) = 1..Len(pieces)
      /\ Len(pieces) \in Nat
  BY <1>5, GrownAt, Read0
<1>7. /\ Separated(b) <=> Separated(pieces) \/ kind = "bars"
      /\ Numbered(b) <=> Numbered(pieces) \/ Numbers(b, m)
      /\ Shown(b, m) => Block(open) # "table"
      /\ Numbers(b, m) => in = "strong"
      /\ Body(b, m) => Shown(b, m) /\ in \in {"none", "accent"}
  BY <1>1, <1>2, ReadExplanatory
<1>8. /\ in = "hw" => Read(b, OfHeadword(b)) = Append(Read(pieces, OfHeadword(pieces)), Piece(b, m))
      /\ in # "hw" => Read(b, OfHeadword(b)) = Read(pieces, OfHeadword(pieces))
  BY <1>1, HeadwordRead
<1>9. \A el \in {"phr", "v-ex"} :
        Buffer(b, open, el) = IF in = el /\ Shown(b, m)
                              THEN Append(Buffer(pieces, open, el), Piece(b, m))
                              ELSE Buffer(pieces, open, el)
  BY <1>1, <1>2, BufferRead
<1>10. /\ parser.head = Read(pieces, OfHeadword(pieces))
       /\ parser.sep <=> Separated(pieces)
       /\ parser.sawDef <=> Numbered(pieces)
       /\ parser.defs = ds
       /\ parser.phrases = ReadEach(pieces, Complete(pieces, open, "phr", ShownPlaces(pieces)))
       /\ parser.phraseBuf = Buffer(pieces, open, "phr")
       /\ parser.exampleBuf = Buffer(pieces, open, "v-ex")
       /\ Names(parser.pos, NamedExplanatory(pieces))
  BY DEF Content
<1>11. /\ in \in Abbrs => parser.title = in
       /\ Block(open) \in Paragraphs => (parser.ms <=> Block(open) = "ms")
  BY DEF Shape
<1>12. m = Len(pieces) + 1
  OBVIOUS
<1> HIDE DEF b, m, d, to, in, ds
<1>13. /\ parser'.head = IF to = "head" THEN Append(parser.head, d) ELSE parser.head
       /\ parser'.sep = IF to = "separator" THEN TRUE ELSE parser.sep
       /\ parser'.exampleBuf = IF to = "example" THEN Append(parser.exampleBuf, d)
                               ELSE parser.exampleBuf
       /\ parser'.phraseBuf = IF to = "phrase" THEN Append(parser.phraseBuf, d)
                              ELSE parser.phraseBuf
       /\ parser'.pos = IF to = "pos" THEN Append(parser.pos, [title |-> parser.title, at |-> d.at])
                        ELSE parser.pos
       /\ parser'.sawDef = IF to = "number" THEN TRUE ELSE parser.sawDef
       /\ parser'.phrases = parser.phrases
  BY <1>3 DEF DataRead
<1>14. /\ parser'.head = Read(b, OfHeadword(b))
       /\ parser'.sep <=> Separated(b)
       /\ parser'.sawDef <=> Numbered(b)
  BY <1>2, <1>4, <1>7, <1>8, <1>10, <1>13
<1>15. /\ parser'.phraseBuf = Buffer(b, open, "phr")
       /\ parser'.exampleBuf = Buffer(b, open, "v-ex")
  BY <1>2, <1>4, <1>9, <1>10, <1>13
<1>16. parser'.phrases = ReadEach(b, Complete(b, open, "phr", ShownPlaces(b)))
  <2> DEFINE S == ShownPlaces(pieces)
             N == Complete(pieces, open, "phr", S)
  <2>1. S \subseteq Places(pieces) /\ "phr" \in Parts
    BY DEF ShownPlaces, Parts
  <2>2. \A i \in Places(pieces) : Shown(b, i) <=> Shown(pieces, i)
    BY <1>5, <1>6, SameShown
  <2>3. ShownPlaces(b) = S \/ ShownPlaces(b) = S \cup {Len(pieces) + 1}
    BY <1>6, <1>12, <2>2 DEF ShownPlaces
  <2> HIDE DEF S
  <2>4. /\ Complete(b, open, "phr", S) = N
        /\ Complete(b, open, "phr", S \cup {Len(pieces) + 1}) = N
        /\ ReadEach(b, N) = ReadEach(pieces, N)
    BY <1>1, <2>1, CompleteRead DEF b
  <2>5. Complete(b, open, "phr", ShownPlaces(b)) = N
    BY <2>3, <2>4
  <2>6. parser'.phrases = ReadEach(pieces, N)
    BY <1>10, <1>13 DEF S
  <2> QED
    BY <2>4, <2>5, <2>6
<1>17. Names(parser'.pos, NamedExplanatory(b))
  <2> DEFINE S == NamedExplanatory(pieces)
             c == [title |-> parser.title, at |-> d.at]
  <2>1. S \subseteq 1..Len(pieces)
    BY <1>6 DEF NamedExplanatory
  <2>2. \A i \in 1..Len(pieces) : NamesExplanatory(b, i) <=> NamesExplanatory(pieces, i)
    BY <1>5, SameBegins
  <2>3. NamesExplanatory(b, m) <=> in = "abbr" /\ Shown(b, m) /\ ~ Numbered(pieces)
    <3>1. /\ In(b, m, {"abbr"}) <=> in = "abbr"
          /\ In(b, m, {"v-ex"}) <=> in = "v-ex"
      BY <1>1, TextSays DEF InlineEls, b, m, in
    <3>2. 1..(m - 1) = 1..Len(pieces)
      BY <1>6, <1>12
    <3>3. \A i \in 1..Len(pieces) : Numbers(b, i) <=> Numbers(pieces, i)
      BY <1>5, SameShown
    <3>4. (\A i \in 1..(m - 1) : ~ Numbers(b, i)) <=> ~ Numbered(pieces)
      BY <1>6, <3>2, <3>3 DEF Numbered
    <3> QED
      BY <3>1, <3>4 DEF NamesExplanatory
  <2>4. NamedExplanatory(b) = IF NamesExplanatory(b, m) THEN S \cup {m} ELSE S
    BY <1>6, <2>2 DEF NamedExplanatory
  <2> HIDE DEF S
  <2>5. CASE to = "pos"
    <3>1. in \in Abbrs /\ parser.title = in /\ Shown(b, m) /\ ~ Numbered(pieces)
      BY <1>4, <1>11, <2>5
    <3>2. c \in Candidates /\ c.at = m /\ c.title = in
      BY <1>2, <1>6, <1>12, <3>1 DEF Candidates
    <3>3. parser'.pos = Append(parser.pos, c)
      BY <1>13, <2>5
    <3> HIDE DEF c
    <3>4. /\ c.title = "abbr" => Names(Append(parser.pos, c), S \cup {m})
          /\ c.title # "abbr" => Names(Append(parser.pos, c), S)
      <4>1. Names(parser.pos, S)
        BY <1>10 DEF S
      <4> QED
        BY <1>6, <1>12, <2>1, <3>2, <4>1, NamesMore
    <3> QED
      BY <2>3, <2>4, <3>1, <3>2, <3>3, <3>4
  <2>6. CASE to # "pos"
    <3>1. ~ NamesExplanatory(b, m)
      BY <1>4, <2>3, <2>6 DEF Abbrs
    <3> QED
      BY <1>10, <1>13, <2>4, <2>6, <3>1 DEF S
  <2> QED
    BY <2>5, <2>6
<1>18. parser'.defs = Definitions(b, open)
  <2> DEFINE n == Len(ds)
             new == Definition(IF Numbers(b, m) THEN m ELSE None,
                               IF Body(b, m) THEN <<Piece(b, m)>> ELSE <<>>)
             more == [ds EXCEPT ![n] = [ds[n] EXCEPT !.text = Append(ds[n].text, Piece(b, m))]]
  <2>1. /\ Begins(b, m) => Definitions(b, open) = Append(ds, new)
        /\ ~ Begins(b, m) /\ Body(b, m) /\ ds # <<>> => Definitions(b, open) = more
        /\ ~ Begins(b, m) /\ ~ (Body(b, m) /\ ds # <<>>) => Definitions(b, open) = ds
    BY <1>1, DefinitionsRead DEF b, m, ds
  <2>2. /\ Begins(b, m) <=> \/ Numbers(b, m)
                            \/ Body(b, m) /\ Block(open) = "ms" /\ Beginnings(pieces) = {}
        /\ Numbered(pieces) => Beginnings(pieces) # {}
    BY <1>1, ReadBegins DEF b, m
  <2>3. ds = <<>> <=> Beginnings(pieces) = {}
    BY DefinitionsList DEF ds
  <2>4. /\ to \notin {"number", "body"} => parser'.defs = ds
        /\ to = "number" => parser'.defs = Append(ds, Definition(m, <<>>))
        /\ to = "body" => parser'.defs =
             IF ds # <<>> THEN more
             ELSE IF parser.ms /\ ~ parser.sawDef THEN <<Definition(None, <<Piece(b, m)>>)>> ELSE ds
    <3>1. /\ to \notin {"number", "body"} => parser'.defs = parser.defs
          /\ to = "number" => parser'.defs = Append(parser.defs, Definition(d.at, <<>>))
          /\ to = "body" => parser'.defs =
               IF parser.defs # <<>>
               THEN LET k == Len(parser.defs)
                    IN  [parser.defs EXCEPT ![k] = [parser.defs[k] EXCEPT
                                                      !.text = Append(parser.defs[k].text, d)]]
               ELSE IF parser.ms /\ ~ parser.sawDef THEN <<Definition(None, <<d>>)>>
               ELSE parser.defs
      BY <1>3 DEF DataRead
    <3> QED
      BY <1>2, <1>10, <3>1
  <2> HIDE DEF more, n
  <2>5. CASE Numbers(b, m)
    <3>1. ~ Body(b, m)
      BY <1>7, <2>5
    <3>2. new = Definition(m, <<>>)
      BY <2>5, <3>1
    <3> HIDE DEF new
    <3> QED
      BY <1>4, <2>1, <2>2, <2>4, <2>5, <3>2
  <2>6. CASE Body(b, m) /\ ds # <<>>
    <3>1. ~ Numbers(b, m)
      BY <1>7, <2>6
    <3> HIDE DEF new
    <3> QED
      BY <1>4, <2>1, <2>2, <2>3, <2>4, <2>6, <3>1
  <2>7. CASE Body(b, m) /\ ds = <<>>
    <3>1. ~ Numbers(b, m) /\ Beginnings(pieces) = {} /\ ~ parser.sawDef
      BY <1>7, <1>10, <2>2, <2>3, <2>7
    <3>2. parser.ms <=> Block(open) = "ms"
      <4>1. Block(open) \in Paragraphs
        BY <1>1, <1>7, <2>7, Surroundings DEF Frame, BlockEls, Paragraphs
      <4> QED
        BY <1>11, <4>1
    <3>3. Begins(b, m) <=> Block(open) = "ms"
      BY <2>2, <2>7, <3>1
    <3>4. new = Definition(None, <<Piece(b, m)>>)
      BY <2>7, <3>1
    <3>5. Append(ds, new) = <<new>>
      BY <2>7
    <3> HIDE DEF new
    <3> QED
      BY <1>4, <2>1, <2>4, <2>7, <3>1, <3>2, <3>3, <3>4, <3>5
  <2>8. CASE ~ Numbers(b, m) /\ ~ Body(b, m)
    <3> HIDE DEF new
    <3> QED
      BY <1>4, <2>1, <2>2, <2>4, <2>8
  <2> QED
    BY <2>5, <2>6, <2>7, <2>8
<1> QED
  BY <1>1, <1>14, <1>15, <1>16, <1>17, <1>18 DEF Content, b

-----------------------------------------------------------------------------

\* What _ExplanatoryParser has at every moment.
Explanatory == Shape /\ Content /\ (dict = "explanatory" => Settled)

\* A new _ExplanatoryParser has read nothing.
LEMMA ExplanatoryInit == Init => Explanatory
<1> SUFFICES ASSUME Init, dict = "explanatory" PROVE Shape /\ Content /\ Settled
  BY DEF Explanatory, Shape, Content
<1>1. /\ parser = NewExplanatory /\ open = <<>> /\ pieces = <<>> /\ tags = 0
      /\ Len(open) = 0 /\ Len(pieces) = 0 /\ Places(pieces) = {}
  BY EmptySeq DEF Init, New, Places
<1>2. Block(open) = "none" /\ Inline(open) = "none" /\ ~ InFirst(open)
  BY <1>1 DEF Block, Inline, InFirst
<1>3. DOMAIN parser = Fields
  BY <1>1 DEF NewExplanatory, Fields
<1>4. Shape
  BY <1>1, <1>2, <1>3 DEF Shape, NewExplanatory, Single, Abbrs, Paragraphs
<1>5. /\ OfHeadword(pieces) = {} /\ Beginnings(pieces) = {} /\ ShownPlaces(pieces) = {}
      /\ NamedExplanatory(pieces) = {} /\ ~ Separated(pieces) /\ ~ Numbered(pieces)
  BY <1>1 DEF OfHeadword, Beginnings, ShownPlaces, NamedExplanatory, Separated, Numbered
<1>6. Definitions(pieces, open) = <<>>
  <2>1. Frame
    BY InitFrame
  <2> QED
    BY <1>5, <2>1, DefinitionsList
<1>7. Complete(pieces, open, "phr", {}) = {}
  BY DEF Complete, Holding
<1>8. Names(<<>>, {})
  BY EmptySeq DEF Names, Naming
<1>9. Content
  BY <1>1, <1>2, <1>5, <1>6, <1>7, <1>8, Nothing DEF Content, NewExplanatory, Buffer
<1>10. Settled
  BY <1>2 DEF Settled
<1> QED
  BY <1>4, <1>9, <1>10

\* Each of its handlers keeps that.
LEMMA ExplanatoryStep ==
  ASSUME Frame, Explanatory, [Next]_vars
  PROVE  Explanatory'
<1> SUFFICES ASSUME dict' = "explanatory" PROVE Shape' /\ Content' /\ Settled'
  BY DEF Explanatory, Shape, Content
<1>1. dict = "explanatory"
  BY DEF Next, StartTag, Data, EndTag, Finalize, vars
<1>2. Shape /\ Content /\ Settled
  BY <1>1 DEF Explanatory
<1>3. ASSUME NEW e \in Elements, StartTag(e) PROVE Shape' /\ Content' /\ Settled'
  BY <1>1, <1>2, <1>3, ShapeStart, ContentStart, SettledStart
<1>4. ASSUME NEW k \in Texts, Data(k) PROVE Shape' /\ Content' /\ Settled'
  BY <1>1, <1>2, <1>4, ShapeData, ContentData, SettledData
<1>5. ASSUME EndTag PROVE Shape' /\ Content' /\ Settled'
  BY <1>1, <1>2, <1>5, ShapeEnd, ContentEnd, SettledEnd
<1>6. ASSUME Finalize \/ UNCHANGED vars PROVE Shape' /\ Content' /\ Settled'
  <2>1. UNCHANGED <<dict, parser, open, tags, pieces>>
    BY <1>6 DEF Finalize, vars
  <2> QED
    BY <1>2, <2>1 DEF Shape, Content, Settled
<1> QED
  BY <1>3, <1>4, <1>5, <1>6 DEF Next

-----------------------------------------------------------------------------
(* Translations of rbs10.                                                  *)

NumberedBold(a) == \E i \in Places(a) : NumberBold(a, i)
Lozenged(a) == \E i \in Places(a) : Lozenge(a, i)

\* The translation being read, and those that have ended.
Run(a) == {i \in Places(a) : Free(a, i) /\ ~ Broken(a, i, Len(a) + 1)}
Closed(a) == {s \in Starting(a) : Broken(a, s, Len(a) + 1)}
TranslationsOf(a, S) == [k \in 1..Cardinality(S) |-> Translation(a, Nth(S, k))]

\* Text of a translation breaks none.
LEMMA FreeOf == ASSUME NEW a, NEW i, Free(a, i) PROVE ~ Breaks(a, i)
BY DEF Free, Plain, Breaks, NumberBold, PhraseBold, Bold, In

\* Translations that stay the same are listed the same.
LEMMA TranslationsKept ==
  ASSUME NEW a, NEW b, NEW t \in Nat, NEW S, S \subseteq 1..t,
         \A s \in S : Translation(b, s) = Translation(a, s)
  PROVE  TranslationsOf(b, S) = TranslationsOf(a, S)
<1>1. \A k \in 1..Cardinality(S) : Nth(S, k) \in S
  BY NthIn DEF InOrder
<1> QED
  BY <1>1 DEF TranslationsOf

\* A translation after all the others comes last.
LEMMA TranslationsMore ==
  ASSUME NEW a, NEW t \in Nat, NEW S, S \subseteq 1..t, NEW n \in 1..t, \A o \in S : o < n
  PROVE  TranslationsOf(a, S \cup {n}) = Append(TranslationsOf(a, S), Translation(a, n))
<1> DEFINE c == Cardinality(S)
           r == TranslationsOf(a, S)
           s == TranslationsOf(a, S \cup {n})
<1>1. n \in Nat /\ S \subseteq Nat
  OBVIOUS
<1>2. c \in Nat /\ IsFiniteSet(S)
  BY NthIn
<1>3. /\ Cardinality(S \cup {n}) = c + 1 /\ Nth(S \cup {n}, c + 1) = n
      /\ \A k \in 1..c : Nth(S \cup {n}, k) = Nth(S, k)
  BY <1>1, <1>2, NthGrow
<1>4. r = [k \in 1..c |-> Translation(a, Nth(S, k))]
  BY DEF TranslationsOf
<1>5. s = [k \in 1..(c + 1) |-> Translation(a, Nth(S \cup {n}, k))]
  BY <1>3 DEF TranslationsOf
<1>6. c + 1 \in 1..(c + 1) /\ \A k \in 1..c : k \in 1..(c + 1)
  BY <1>2
<1> HIDE DEF c, r, s
<1>7. IsList(r, c) /\ IsList(s, c + 1)
  BY <1>4, <1>5 DEF IsList
<1>8. s[c + 1] = Translation(a, n) /\ \A k \in 1..c : s[k] = r[k]
  BY <1>3, <1>4, <1>5, <1>6
<1>9. s = Append(r, s[c + 1])
  BY <1>2, <1>7, <1>8, Extended
<1> QED
  BY <1>8, <1>9 DEF r, s

\* The number in force does not change where no bold text is a number or phrase.
LEMMA InForceStays ==
  ASSUME NEW a, NEW s \in Nat, NEW l \in Nat, 0 < s, s <= l,
         \A i \in s..l : ~ NumberBold(a, i) /\ ~ PhraseBold(a, i)
  PROVE  NumberAfter(a, l) = NumberAfter(a, s - 1)
<1>1. \A i \in 1..l : i \in 1..(s - 1) \/ i \in s..l
  OBVIOUS
<1>2. \A i \in 1..(s - 1) : i \in 1..l
  OBVIOUS
<1>3. ASSUME NEW c \in 1..(s - 1)
      PROVE  (\A i \in (c + 1)..l : ~ PhraseBold(a, i))
               <=> \A i \in (c + 1)..(s - 1) : ~ PhraseBold(a, i)
  <2>1. \A i \in (c + 1)..l : i \in (c + 1)..(s - 1) \/ i \in s..l
    OBVIOUS
  <2>2. \A i \in (c + 1)..(s - 1) : i \in (c + 1)..l
    OBVIOUS
  <2> QED
    BY <2>1, <2>2
<1>4. InForce(a, l) = InForce(a, s - 1)
  BY <1>1, <1>2, <1>3 DEF InForce
<1> QED
  BY <1>4 DEF NumberAfter

\* The translation being read is the text after the last break.
LEMMA RunBegins ==
  ASSUME NEW a, NEW l \in Nat, Len(a) = l, Places(a) = 1..l,
         NEW s \in Run(a), \A i \in Run(a) : s <= i
  PROVE  /\ s \in 1..l
         /\ Run(a) = {i \in Places(a) : i >= s /\ Free(a, i) /\ ~ Broken(a, s, i)}
         /\ NumberOf(a, s) = NumberAfter(a, l)
         /\ Counts(a, s) <=> NumberAfter(a, l) # None \/ ~ NumberedBold(a)
         /\ \A i \in Run(a) : Counts(a, i) => i = s
         /\ \A c \in Closed(a) : c < s
<1>1. s \in 1..l /\ Free(a, s) /\ ~ Broken(a, s, l + 1)
  BY DEF Run
<1>2. \A i \in s..l : ~ Breaks(a, i)
  <2>1. \A i \in s..l : i = s \/ i \in (s + 1)..((l + 1) - 1)
    BY <1>1
  <2> QED
    BY <1>1, <2>1, FreeOf DEF Broken
<1>3. \A i \in 1..l : i >= s => ~ Broken(a, s, i) /\ ~ Broken(a, i, l + 1)
  <2> SUFFICES ASSUME NEW i \in 1..l, i >= s
               PROVE  ~ Broken(a, s, i) /\ ~ Broken(a, i, l + 1)
    OBVIOUS
  <2>1. \A j \in (s + 1)..(i - 1) : j \in s..l
    BY <1>1
  <2>2. \A j \in (i + 1)..((l + 1) - 1) : j \in s..l
    BY <1>1
  <2> QED
    BY <1>2, <2>1, <2>2 DEF Broken
<1>4. Run(a) = {i \in Places(a) : i >= s /\ Free(a, i) /\ ~ Broken(a, s, i)}
  <2>1. \A i \in Run(a) : i \in 1..l /\ i >= s /\ Free(a, i)
    BY <1>1 DEF Run
  <2>2. \A i \in 1..l : i >= s /\ Free(a, i) => i \in Run(a)
    BY <1>3 DEF Run
  <2> QED
    BY <1>3, <2>1, <2>2
<1>5. NumberOf(a, s) = NumberAfter(a, l)
  <2>1. \A i \in s..l : ~ NumberBold(a, i) /\ ~ PhraseBold(a, i)
    BY <1>2 DEF Breaks
  <2>2. NumberAfter(a, l) = NumberAfter(a, s - 1)
    BY <1>1, <2>1, InForceStays
  <2> QED
    BY <2>2 DEF NumberOf
<1>6. (\A i \in 1..(s - 1) : ~ NumberBold(a, i)) <=> ~ NumberedBold(a)
  <2>1. \A i \in 1..l : i \in 1..(s - 1) \/ i \in s..l
    BY <1>1
  <2>2. \A i \in 1..(s - 1) : i \in 1..l
    BY <1>1
  <2> QED
    BY <1>2, <2>1, <2>2 DEF NumberedBold, Breaks
<1>7. Starts(a, s)
  <2> SUFFICES ASSUME NEW c \in 1..(s - 1), Free(a, c) PROVE Broken(a, c, s)
    BY <1>1 DEF Starts
  <2>1. c \in 1..l /\ ~ (s <= c)
    BY <1>1
  <2>2. Broken(a, c, l + 1)
    BY <2>1 DEF Run
  <2>3. PICK i \in (c + 1)..((l + 1) - 1) : Breaks(a, i)
    BY <2>2 DEF Broken
  <2>4. i \in (c + 1)..(s - 1)
    <3>1. ~ (i \in s..l)
      BY <1>2, <2>3
    <3> QED
      BY <1>1, <2>1, <3>1
  <2> QED
    BY <2>3, <2>4 DEF Broken
<1>8. Counts(a, s) <=> NumberAfter(a, l) # None \/ ~ NumberedBold(a)
  BY <1>5, <1>6, <1>7 DEF Counts
<1>9. ASSUME NEW i \in Run(a), Counts(a, i) PROVE i = s
  <2>1. i \in 1..l /\ s <= i
    BY DEF Run
  <2>2. ~ Broken(a, s, i)
    BY <1>3, <2>1
  <2>3. s \notin 1..(i - 1)
    BY <1>1, <1>9, <2>2 DEF Counts, Starts
  <2> QED
    BY <1>1, <2>1, <2>3
<1>10. ASSUME NEW c \in Closed(a) PROVE c < s
  <2>1. c \in 1..l /\ Broken(a, c, l + 1)
    BY DEF Closed, Starting
  <2>2. ~ (c >= s)
    BY <1>3, <2>1
  <2> QED
    BY <1>1, <2>1, <2>2
<1> QED
  BY <1>1, <1>4, <1>5, <1>8, <1>9, <1>10

\* What _flush_def makes of the translation being read.
LEMMA Flushed ==
  ASSUME NEW a, NEW l \in Nat, Len(a) = l, Places(a) = 1..l
  PROVE  LET kept == Run(a) # {} /\ (NumberAfter(a, l) # None \/ ~ NumberedBold(a))
             done == TranslationsOf(a, Closed(a))
         IN  Translations(a)
               = IF kept THEN Append(done, Definition(NumberAfter(a, l), Read(a, Run(a))))
                 ELSE done
<1> DEFINE kept == Run(a) # {} /\ (NumberAfter(a, l) # None \/ ~ NumberedBold(a))
<1>1. Translations(a) = TranslationsOf(a, Starting(a))
  BY DEF Translations, TranslationsOf
<1>2. Closed(a) \subseteq Starting(a) /\ Starting(a) \subseteq 1..l
  BY DEF Closed, Starting
<1>3. \A i \in Starting(a) : i \in Closed(a) \/ i \in Run(a)
  BY DEF Closed, Run, Starting, Counts, Starts
<1>4. CASE Run(a) = {}
  <2>1. Starting(a) = Closed(a)
    BY <1>2, <1>3, <1>4
  <2> QED
    BY <1>1, <1>4, <2>1
<1>5. CASE Run(a) # {}
  <2>1. Run(a) \subseteq Nat
    BY DEF Run
  <2>2. PICK s \in Run(a) : \A i \in Run(a) : s <= i
    BY <1>5, <2>1, Least
  <2>3. /\ s \in 1..l
        /\ Run(a) = {i \in Places(a) : i >= s /\ Free(a, i) /\ ~ Broken(a, s, i)}
        /\ NumberOf(a, s) = NumberAfter(a, l)
        /\ Counts(a, s) <=> NumberAfter(a, l) # None \/ ~ NumberedBold(a)
        /\ \A i \in Run(a) : Counts(a, i) => i = s
        /\ \A c \in Closed(a) : c < s
    BY <2>2, RunBegins
  <2>4. Starting(a) = IF kept THEN Closed(a) \cup {s} ELSE Closed(a)
    <3>1. s \in Starting(a) <=> Counts(a, s)
      BY <2>3 DEF Starting
    <3>2. \A i \in Starting(a) : i \in Closed(a) \/ i = s
      BY <1>3, <2>3 DEF Starting
    <3>3. s \notin Closed(a)
      BY <2>3
    <3> QED
      BY <1>2, <1>5, <2>3, <3>1, <3>2, <3>3
  <2>5. Translation(a, s) = Definition(NumberAfter(a, l), Read(a, Run(a)))
    BY <2>3 DEF Translation
  <2>6. Closed(a) \subseteq 1..l
    BY <1>2
  <2>7. TranslationsOf(a, Closed(a) \cup {s})
          = Append(TranslationsOf(a, Closed(a)), Translation(a, s))
    BY <2>3, <2>6, TranslationsMore
  <2> HIDE DEF kept
  <2>8. Translations(a) = IF kept THEN Append(TranslationsOf(a, Closed(a)), Translation(a, s))
                          ELSE TranslationsOf(a, Closed(a))
    BY <1>1, <2>4, <2>7
  <2> QED
    BY <2>5, <2>8 DEF kept
<1> QED
  BY <1>4, <1>5

-----------------------------------------------------------------------------
(* Translations of an article with one piece more.                         *)

\* Whether an old piece breaks a translation.
LEMMA SameBreaks ==
  ASSUME NEW P, NEW a, NEW x, NEW b, Grown(P, a, x, b), NEW i \in 1..Len(a)
  PROVE  /\ PhraseBold(b, i) <=> PhraseBold(a, i)
         /\ Breaks(b, i) <=> Breaks(a, i)
<1>1. Len(a) \in Nat
  BY GrownAt
<1>2. \A k \in 1..(i - 1) : k \in 1..Len(a)
  BY <1>1
<1>3. \A k \in 1..(i - 1) : Lozenge(b, k) <=> Lozenge(a, k)
  BY <1>2, SameElements
<1>4. /\ NumberBold(b, i) <=> NumberBold(a, i)
      /\ Bold(b, i) <=> Bold(a, i)
      /\ Indented(b, i) <=> Indented(a, i)
      /\ Lozenge(b, i) <=> Lozenge(a, i)
  BY SameOpening, SameElements
<1>5. PhraseBold(b, i) <=> PhraseBold(a, i)
  BY <1>3, <1>4 DEF PhraseBold
<1> QED
  BY <1>4, <1>5 DEF Breaks

\* Whether the text between two old pieces is broken.
LEMMA SameBroken ==
  ASSUME NEW P, NEW a, NEW x, NEW b, Grown(P, a, x, b), NEW i \in 1..Len(a),
         NEW j \in 1..(Len(a) + 1)
  PROVE  Broken(b, i, j) <=> Broken(a, i, j)
<1>1. Len(a) \in Nat
  BY GrownAt
<1>2. \A k \in (i + 1)..(j - 1) : k \in 1..Len(a)
  BY <1>1
<1> QED
  BY <1>2, SameBreaks DEF Broken

\* A further piece breaks the translations before it or not.
LEMMA BrokenMore ==
  ASSUME NEW P, NEW a, NEW x, NEW b, Grown(P, a, x, b), NEW i \in 1..Len(a),
         NEW m, m = Len(a) + 1
  PROVE  Broken(b, i, m + 1) <=> Broken(a, i, m) \/ Breaks(b, m)
<1>1. Len(a) \in Nat /\ m \in 1..(Len(a) + 1)
  BY GrownAt
<1>2. \A k \in (i + 1)..((m + 1) - 1) : k \in (i + 1)..(m - 1) \/ k = m
  BY <1>1
<1>3. m \in (i + 1)..((m + 1) - 1) /\ \A k \in (i + 1)..(m - 1) : k \in (i + 1)..((m + 1) - 1)
  BY <1>1
<1>4. Broken(b, i, m + 1) <=> Broken(b, i, m) \/ Breaks(b, m)
  BY <1>2, <1>3 DEF Broken
<1> QED
  BY <1>1, <1>4, SameBroken

\* The number in force at an old piece.
LEMMA SameNumber ==
  ASSUME NEW P, NEW a, NEW x, NEW b, Grown(P, a, x, b), NEW k \in 0..Len(a)
  PROVE  NumberAfter(b, k) = NumberAfter(a, k)
<1>1. Len(a) \in Nat
  BY GrownAt
<1>2. \A i \in 1..k : i \in 1..Len(a)
  BY <1>1
<1>3. \A i \in 1..k : \A j \in (i + 1)..k : j \in 1..Len(a)
  BY <1>1
<1>4. \A i \in 1..k : /\ NumberBold(b, i) <=> NumberBold(a, i)
                      /\ \A j \in (i + 1)..k : PhraseBold(b, j) <=> PhraseBold(a, j)
  BY <1>2, <1>3, SameOpening, SameBreaks
<1>5. InForce(b, k) = InForce(a, k)
  BY <1>4 DEF InForce
<1>6. ASSUME InForce(a, k) # {} PROVE Max(InForce(a, k)) \in 1..k
  <2> DEFINE S == InForce(a, k)
             T == {k - i : i \in S}
  <2>1. S \subseteq 1..k /\ S # {}
    BY <1>6 DEF InForce
  <2> HIDE DEF S
  <2>2. T \subseteq Nat /\ T # {}
    BY <1>1, <2>1
  <2>3. PICK t \in T : \A y \in T : t <= y
    BY <2>2, Least
  <2>4. PICK i \in S : t = k - i
    BY <2>3
  <2>5. \A y \in S : k - i <= k - y
    BY <2>3, <2>4
  <2>6. \A y \in S : i >= y
    BY <1>1, <2>1, <2>5
  <2>7. Max(S) \in S
    BY <2>6 DEF Max
  <2> QED
    BY <2>1, <2>7 DEF S
<1>7. InForce(a, k) # {} => Opening(b, Max(InForce(a, k))) = Opening(a, Max(InForce(a, k)))
  BY <1>2, <1>6, SameOpening
<1> QED
  BY <1>5, <1>7 DEF NumberAfter

\* Whether an old piece begins a translation that counts.
LEMMA SameCounts ==
  ASSUME NEW P, NEW a, NEW x, NEW b, Grown(P, a, x, b), NEW i \in 1..Len(a)
  PROVE  /\ Counts(b, i) <=> Counts(a, i)
         /\ NumberOf(b, i) = NumberOf(a, i)
<1>1. Len(a) \in Nat /\ i \in 1..(Len(a) + 1) /\ i - 1 \in 0..Len(a)
  BY GrownAt
<1>2. \A k \in 1..(i - 1) : k \in 1..Len(a)
  BY <1>1
<1>3. \A k \in 1..(i - 1) : /\ Free(b, k) <=> Free(a, k)
                            /\ Broken(b, k, i) <=> Broken(a, k, i)
                            /\ NumberBold(b, k) <=> NumberBold(a, k)
  BY <1>1, <1>2, SameElements, SameBroken, SameOpening
<1>4. NumberOf(b, i) = NumberOf(a, i)
  BY <1>1, SameNumber DEF NumberOf
<1>5. Free(b, i) <=> Free(a, i)
  BY SameElements
<1>6. Starts(b, i) <=> Starts(a, i)
  BY <1>3, <1>5 DEF Starts
<1> QED
  BY <1>3, <1>4, <1>6 DEF Counts

\* A translation that has ended stays, and so does every one if the further
\* piece is not of a translation.
LEMMA SameTranslation ==
  ASSUME NEW P, NEW a, NEW x, NEW b, Grown(P, a, x, b), NEW s \in 1..Len(a),
         NEW m, m = Len(a) + 1, Broken(a, s, m) \/ ~ Free(b, m)
  PROVE  Translation(b, s) = Translation(a, s)
<1> DEFINE S == {i \in Places(a) : i >= s /\ Free(a, i) /\ ~ Broken(a, s, i)}
           T == {i \in Places(b) : i >= s /\ Free(b, i) /\ ~ Broken(b, s, i)}
<1>1. /\ Len(a) \in Nat /\ m \in 1..(Len(a) + 1) /\ Places(a) = 1..Len(a)
      /\ Places(b) = Places(a) \cup {m}
  BY GrownAt DEF Places
<1>2. \A i \in 1..Len(a) : i \in 1..(Len(a) + 1)
  BY <1>1
<1>3. \A i \in 1..Len(a) : /\ Free(b, i) <=> Free(a, i)
                           /\ Broken(b, s, i) <=> Broken(a, s, i)
  BY <1>2, SameElements, SameBroken
<1>4. Broken(b, s, m) <=> Broken(a, s, m)
  BY <1>1, SameBroken
<1>5. S = T
  BY <1>1, <1>3, <1>4
<1>6. S \subseteq Places(a)
  OBVIOUS
<1>7. Translation(b, s) = Definition(NumberOf(b, s), Read(b, T))
  BY DEF Translation
<1>8. Translation(a, s) = Definition(NumberOf(a, s), Read(a, S))
  BY DEF Translation
<1> HIDE DEF S, T
<1>9. Read(b, S) = Read(a, S)
  BY <1>6, ReadKept
<1> QED
  BY <1>5, <1>7, <1>8, <1>9, SameCounts

\* One more piece of the translation being read.
LEMMA FreeRead ==
  ASSUME NEW P, NEW a, NEW x, NEW b, Grown(P, a, x, b), NEW m, m = Len(a) + 1, Free(b, m)
  PROVE  /\ Read(b, Run(b)) = Append(Read(a, Run(a)), Piece(b, m))
         /\ TranslationsOf(b, Closed(b)) = TranslationsOf(a, Closed(a))
<1>1. /\ Len(a) \in Nat /\ Len(b) = m /\ Places(a) = 1..Len(a) /\ Places(b) = Places(a) \cup {m}
  BY GrownAt DEF Places
<1>2. ~ Breaks(b, m)
  BY FreeOf
<1>3. \A i \in 1..Len(a) : Broken(b, i, m + 1) <=> Broken(a, i, m)
  BY <1>2, BrokenMore
<1>4. ~ Broken(b, m, m + 1)
  <2>1. (m + 1)..((m + 1) - 1) = {}
    BY <1>1
  <2> QED
    BY <2>1 DEF Broken
<1>5. \A i \in 1..Len(a) : (Free(b, i) <=> Free(a, i)) /\ (Counts(b, i) <=> Counts(a, i))
  BY SameElements, SameCounts
<1>6. Run(b) = Run(a) \cup {m}
  BY <1>1, <1>3, <1>4, <1>5 DEF Run
<1>7. Closed(b) = Closed(a)
  BY <1>1, <1>3, <1>4, <1>5 DEF Closed, Starting
<1>8. Run(a) \subseteq Places(a)
  BY DEF Run
<1>9. Read(b, Run(a) \cup {m}) = Append(Read(a, Run(a)), Piece(b, m))
  <2> DEFINE S == Run(a)
  <2>1. S \subseteq Places(a)
    BY <1>8
  <2> HIDE DEF S
  <2>2. Read(b, S \cup {m}) = Append(Read(a, S), Piece(b, m))
    BY <2>1, ReadMore
  <2> QED
    BY <2>2 DEF S
<1>10. Closed(a) \subseteq 1..Len(a) /\ \A s \in Closed(a) : Broken(a, s, m)
  BY <1>1 DEF Closed, Starting
<1>11. \A s \in Closed(a) : Translation(b, s) = Translation(a, s)
  BY <1>10, SameTranslation
<1>12. TranslationsOf(b, Closed(a)) = TranslationsOf(a, Closed(a))
  BY <1>1, <1>10, <1>11, TranslationsKept
<1> QED
  BY <1>6, <1>7, <1>9, <1>12

\* A piece that ends the translation being read.
LEMMA BreakRead ==
  ASSUME NEW P, NEW a, NEW x, NEW b, Grown(P, a, x, b), NEW m, m = Len(a) + 1, Breaks(b, m)
  PROVE  /\ Read(b, Run(b)) = <<>>
         /\ TranslationsOf(b, Closed(b)) = Translations(a)
<1>1. /\ Len(a) \in Nat /\ Len(b) = m /\ Places(a) = 1..Len(a) /\ Places(b) = Places(a) \cup {m}
  BY GrownAt DEF Places
<1>2. ~ Free(b, m)
  BY FreeOf
<1>3. \A i \in 1..Len(a) : Broken(b, i, m + 1)
  BY BrokenMore
<1>4. \A i \in 1..Len(a) : Counts(b, i) <=> Counts(a, i)
  BY SameCounts
<1>5. ~ Counts(b, m)
  BY <1>2 DEF Counts, Starts
<1>6. Run(b) = {}
  BY <1>1, <1>2, <1>3 DEF Run
<1>7. Closed(b) = Starting(a)
  BY <1>1, <1>3, <1>4, <1>5 DEF Closed, Starting
<1>8. Starting(a) \subseteq 1..Len(a)
  BY <1>1 DEF Starting
<1>9. \A s \in Starting(a) : Translation(b, s) = Translation(a, s)
  BY <1>2, <1>8, SameTranslation
<1>10. TranslationsOf(b, Starting(a)) = TranslationsOf(a, Starting(a))
  BY <1>1, <1>8, <1>9, TranslationsKept
<1> QED
  BY <1>6, <1>7, <1>10, Nothing DEF Translations, TranslationsOf

\* A piece of the headword, of an abbreviation or of bold text that says nothing.
LEMMA OtherRead ==
  ASSUME NEW P, NEW a, NEW x, NEW b, Grown(P, a, x, b), NEW m, m = Len(a) + 1,
         ~ Free(b, m), ~ Breaks(b, m)
  PROVE  /\ Read(b, Run(b)) = Read(a, Run(a))
         /\ TranslationsOf(b, Closed(b)) = TranslationsOf(a, Closed(a))
<1>1. /\ Len(a) \in Nat /\ Len(b) = m /\ Places(a) = 1..Len(a) /\ Places(b) = Places(a) \cup {m}
  BY GrownAt DEF Places
<1>2. \A i \in 1..Len(a) : Broken(b, i, m + 1) <=> Broken(a, i, m)
  BY BrokenMore
<1>3. \A i \in 1..Len(a) : (Free(b, i) <=> Free(a, i)) /\ (Counts(b, i) <=> Counts(a, i))
  BY SameElements, SameCounts
<1>4. ~ Counts(b, m)
  BY DEF Counts, Starts
<1>5. Run(b) = Run(a)
  BY <1>1, <1>2, <1>3 DEF Run
<1>6. Closed(b) = Closed(a)
  BY <1>1, <1>2, <1>3, <1>4 DEF Closed, Starting
<1>7. Run(a) \subseteq Places(a) /\ Closed(a) \subseteq 1..Len(a)
  BY <1>1 DEF Run, Closed, Starting
<1>8. \A s \in Closed(a) : Translation(b, s) = Translation(a, s)
  BY <1>7, SameTranslation
<1>9. TranslationsOf(b, Closed(a)) = TranslationsOf(a, Closed(a))
  BY <1>1, <1>7, <1>8, TranslationsKept
<1>10. Read(b, Run(a)) = Read(a, Run(a))
  BY <1>7, ReadKept
<1> QED
  BY <1>5, <1>6, <1>9, <1>10

\* The number in force after one more piece.
LEMMA NumberRead ==
  ASSUME NEW P, NEW a, NEW x, NEW b, Grown(P, a, x, b), NEW m, m = Len(a) + 1
  PROVE  /\ NumberBold(b, m) => NumberAfter(b, m) = Opening(b, m)
         /\ PhraseBold(b, m) => NumberAfter(b, m) = None
         /\ ~ NumberBold(b, m) /\ ~ PhraseBold(b, m) => NumberAfter(b, m) = NumberAfter(a, Len(a))
         /\ NumberedBold(b) <=> NumberedBold(a) \/ NumberBold(b, m)
         /\ Lozenged(b) <=> Lozenged(a) \/ Lozenge(b, m)
<1>1. /\ Len(a) \in Nat /\ Places(a) = 1..Len(a) /\ Places(b) = Places(a) \cup {m}
  BY GrownAt DEF Places
<1>2. ASSUME NumberBold(b, m) PROVE NumberAfter(b, m) = Opening(b, m)
  <2>1. (m + 1)..m = {} /\ m \in 1..m /\ \A i \in 1..m : i <= m
    BY <1>1
  <2>2. m \in InForce(b, m) /\ \A i \in InForce(b, m) : m >= i
    BY <1>1, <1>2, <2>1 DEF InForce
  <2>4. \A y \in InForce(b, m) : y \in Int
    BY DEF InForce
  <2>3. \A y \in InForce(b, m) : (\A i \in InForce(b, m) : y >= i) => y = m
    BY <1>1, <2>2, <2>4
  <2>5. Max(InForce(b, m)) = m
    BY <2>2, <2>3, Zenon DEF Max
  <2> QED
    BY <2>2, <2>5 DEF NumberAfter
<1>3. ASSUME PhraseBold(b, m) PROVE NumberAfter(b, m) = None
  <2>1. \A i \in 1..m : i # m => m \in (i + 1)..m
    BY <1>1
  <2>2. ~ NumberBold(b, m)
    BY <1>3 DEF PhraseBold
  <2>3. InForce(b, m) = {}
    BY <1>3, <2>1, <2>2 DEF InForce
  <2> QED
    BY <2>3 DEF NumberAfter
<1>4. ASSUME ~ NumberBold(b, m), ~ PhraseBold(b, m)
      PROVE  NumberAfter(b, m) = NumberAfter(a, Len(a))
  <2>1. \A i \in m..m : ~ NumberBold(b, i) /\ ~ PhraseBold(b, i)
    BY <1>1, <1>4
  <2>2. NumberAfter(b, m) = NumberAfter(b, m - 1)
    <3>1. m \in Nat /\ 0 < m /\ m <= m
      BY <1>1
    <3> HIDE DEF NumberAfter
    <3> QED
      BY <2>1, <3>1, InForceStays
  <2>3. m - 1 = Len(a) /\ Len(a) \in 0..Len(a)
    BY <1>1
  <2> QED
    BY <2>2, <2>3, SameNumber
<1>5. \A i \in 1..Len(a) : /\ NumberBold(b, i) <=> NumberBold(a, i)
                           /\ Lozenge(b, i) <=> Lozenge(a, i)
  BY SameElements, SameOpening
<1> QED
  BY <1>1, <1>2, <1>3, <1>4, <1>5 DEF NumberedBold, Lozenged

-----------------------------------------------------------------------------
(* What the handlers of _Rbs10Parser do to the parser.                     *)

Rbs10Fields ==
  {"head", "pos", "defs", "phrases", "in", "title", "defBuf", "boldBuf", "num",
   "sawDef", "done", "ms", "phraseArea"}
Rbs10Els == {"p", "ms", "hw", "strong", "abbr", "label", "accent"}

\* What the bold text being read turns out to be at its end.
IsNumber(p) == p.boldBuf # <<>> /\ p.boldBuf[1].kind = "number"
IsPhrase(p) ==
  p.boldBuf # <<>> /\ p.boldBuf[1].kind # "number" /\ p.done /\ (p.ms \/ p.phraseArea)

\* The definitions, the text buffered for one, its number, and whether there
\* was a number, once that bold text has ended.
WithBuffered(p) == IF Kept(p) THEN Append(p.defs, Definition(p.num, p.defBuf)) ELSE p.defs
DefsAhead(p) == IF IsNumber(p) \/ IsPhrase(p) THEN WithBuffered(p) ELSE p.defs
BufAhead(p) == IF IsNumber(p) \/ IsPhrase(p) THEN <<>> ELSE p.defBuf
NumAhead(p) ==
  IF IsNumber(p) THEN p.boldBuf[1].at ELSE IF IsPhrase(p) THEN None ELSE p.num
SawAhead(p) == p.sawDef \/ IsNumber(p)

\* p becomes q at a start tag.
Rbs10Started(p, e, q) ==
  /\ DOMAIN q = Rbs10Fields
  /\ q.head = p.head /\ q.pos = p.pos /\ q.defs = p.defs /\ q.phrases = p.phrases
  /\ q.defBuf = p.defBuf /\ q.num = p.num /\ q.sawDef = p.sawDef /\ q.done = p.done
  /\ q.phraseArea = p.phraseArea
  /\ q.in = IF e \in {"hw", "strong"} THEN p.in \cup {e}
            ELSE IF e \in Abbrs THEN p.in \cup {"v-abbr"} ELSE p.in
  /\ q.title = IF e \in Abbrs THEN e ELSE p.title
  /\ q.boldBuf = IF e = "strong" THEN <<>> ELSE p.boldBuf
  /\ q.ms = IF e \in Paragraphs THEN e = "ms" ELSE p.ms

\* handle_starttag of _Rbs10Parser.
LEMMA Rbs10StartFields ==
  ASSUME NEW p, DOMAIN p = Rbs10Fields, NEW e \in Rbs10Els, e = "strong" => "hw" \notin p.in
  PROVE  Rbs10Started(p, e, Rbs10Start(p, e))
<1> USE DEF Rbs10Started, Rbs10Fields, Paragraphs, Abbrs, Rbs10Els
<1> DEFINE q == Rbs10Start(p, e)
<1>9. q = Rbs10Start(p, e)
  OBVIOUS
<1> SUFFICES Rbs10Started(p, e, q)
  BY DEF q
<1> HIDE DEF q
<1>1. CASE e \in Paragraphs
  <2>1. q = [p EXCEPT !.ms = (e = "ms")]
    BY <1>1, <1>9 DEF Rbs10Start
  <2> QED
    BY <1>1, <2>1
<1>2. CASE e = "hw"
  <2>1. q = [p EXCEPT !.in = p.in \cup {"hw"}]
    BY <1>2, <1>9 DEF Rbs10Start
  <2> QED
    BY <1>2, <2>1
<1>3. CASE e = "strong"
  <2>1. q = [p EXCEPT !.in = p.in \cup {"strong"}, !.boldBuf = <<>>]
    BY <1>3, <1>9 DEF Rbs10Start
  <2> QED
    BY <1>3, <2>1
<1>4. CASE e \in Abbrs
  <2>1. q = [p EXCEPT !.in = p.in \cup {"v-abbr"}, !.title = e]
    BY <1>4, <1>9 DEF Rbs10Start
  <2> QED
    BY <1>4, <2>1
<1>5. CASE e = "accent"
  <2>1. q = p
    BY <1>5, <1>9 DEF Rbs10Start
  <2> QED
    BY <1>5, <2>1
<1> QED
  BY <1>1, <1>2, <1>3, <1>4, <1>5

\* _flush_def
FlushedFields(p, q) ==
  /\ DOMAIN q = Rbs10Fields
  /\ q.head = p.head /\ q.pos = p.pos /\ q.phrases = p.phrases /\ q.in = p.in
  /\ q.title = p.title /\ q.boldBuf = p.boldBuf /\ q.num = p.num /\ q.sawDef = p.sawDef
  /\ q.done = p.done /\ q.ms = p.ms /\ q.phraseArea = p.phraseArea
  /\ q.defBuf = <<>> /\ q.defs = WithBuffered(p)

\* The text buffered becomes a definition, if it is kept.
LEMMA FlushFields ==
  ASSUME NEW p, DOMAIN p = Rbs10Fields
  PROVE  FlushedFields(p, FlushDef(p))
<1> DEFINE q == FlushDef(p)
           v == WithBuffered(p)
<1>1. q = [p EXCEPT !.defBuf = <<>>, !.defs = v]
  BY DEF FlushDef, WithBuffered
<1> HIDE DEF q, v
<1>2. FlushedFields(p, q)
  BY <1>1 DEF FlushedFields, Rbs10Fields, v
<1> QED
  BY <1>2 DEF q

\* p becomes q at an end tag.
Rbs10Ended(p, e, q) ==
  /\ DOMAIN q = Rbs10Fields
  /\ q.head = p.head /\ q.pos = p.pos /\ q.ms = p.ms /\ q.phraseArea = p.phraseArea
  /\ q.in = IF e \in {"hw", "strong"} THEN p.in \ {e}
            ELSE IF e \in Abbrs THEN p.in \ {"v-abbr"} ELSE p.in
  /\ q.title = IF e \in Abbrs THEN "" ELSE p.title
  /\ q.done = IF e = "hw" THEN TRUE ELSE p.done
  /\ q.boldBuf = IF e = "strong" THEN <<>> ELSE p.boldBuf
  /\ q.phrases = IF e = "strong" /\ IsPhrase(p) THEN Append(p.phrases, p.boldBuf) ELSE p.phrases
  /\ q.defs = IF e = "strong" THEN DefsAhead(p) ELSE p.defs
  /\ q.defBuf = IF e = "strong" THEN BufAhead(p) ELSE p.defBuf
  /\ q.num = IF e = "strong" THEN NumAhead(p) ELSE p.num
  /\ q.sawDef <=> IF e = "strong" THEN SawAhead(p) ELSE p.sawDef

\* handle_endtag of _Rbs10Parser.
LEMMA Rbs10EndFields ==
  ASSUME NEW p, DOMAIN p = Rbs10Fields, NEW e \in Rbs10Els,
         p.in \subseteq {"hw", "strong", "v-abbr"},
         e \in {"hw", "strong"} => \A f \in {"hw", "strong"} : f \in p.in <=> f = e
  PROVE  Rbs10Ended(p, e, Rbs10End(p, Tag(e)))
<1> USE DEF Rbs10Fields, Paragraphs, Abbrs, Rbs10Els
<1> DEFINE tag == Tag(e)
           q == Rbs10End(p, tag)
<1>0. /\ tag = "strong" <=> e \in {"hw", "strong"}
      /\ tag = "v-abbr" <=> e \in Abbrs
  BY DEF Tag, Headings
<1>9. q = Rbs10End(p, tag)
  OBVIOUS
<1> SUFFICES Rbs10Ended(p, e, q)
  BY DEF q, tag
<1> HIDE DEF tag, q
<1>1. CASE e = "hw"
  <2>1. q = [p EXCEPT !.in = p.in \ {"hw"}, !.done = TRUE]
    BY <1>0, <1>1, <1>9 DEF Rbs10End
  <2> QED
    BY <1>1, <2>1 DEF Rbs10Ended
<1>2. CASE e = "strong"
  <2> DEFINE ended == [p EXCEPT !.in = p.in \ {"strong"}, !.boldBuf = <<>>]
             r == FlushDef(ended)
  <2>1. q = EndBold(p)
    BY <1>0, <1>2, <1>9 DEF Rbs10End
  <2>2. /\ DOMAIN ended = Rbs10Fields /\ ended.in = p.in \ {"strong"} /\ ended.boldBuf = <<>>
        /\ ended.head = p.head /\ ended.pos = p.pos /\ ended.phrases = p.phrases
        /\ ended.title = p.title /\ ended.num = p.num /\ ended.sawDef = p.sawDef
        /\ ended.done = p.done /\ ended.ms = p.ms /\ ended.phraseArea = p.phraseArea
        /\ ended.defBuf = p.defBuf /\ ended.defs = p.defs
    OBVIOUS
  <2>3. q = CASE IsNumber(p) -> [r EXCEPT !.num = p.boldBuf[1].at, !.sawDef = TRUE]
              [] IsPhrase(p) -> [r EXCEPT !.phrases = Append(r.phrases, p.boldBuf), !.num = None]
              [] OTHER -> ended
    BY <2>1 DEF EndBold, IsNumber, IsPhrase
  <2> HIDE DEF ended
  <2>4. FlushedFields(ended, r)
    BY <2>2, FlushFields
  <2>5. WithBuffered(ended) = WithBuffered(p)
    BY <2>2 DEF WithBuffered, Kept
  <2> HIDE DEF r
  <2>6. /\ DOMAIN r = Rbs10Fields
        /\ r.head = p.head /\ r.pos = p.pos /\ r.phrases = p.phrases /\ r.in = p.in \ {"strong"}
        /\ r.title = p.title /\ r.boldBuf = <<>> /\ r.num = p.num /\ r.sawDef = p.sawDef
        /\ r.done = p.done /\ r.ms = p.ms /\ r.phraseArea = p.phraseArea
        /\ r.defBuf = <<>> /\ r.defs = WithBuffered(p)
    BY <2>2, <2>4, <2>5 DEF FlushedFields
  <2>7. IsNumber(p) => ~ IsPhrase(p)
    BY DEF IsNumber, IsPhrase
  <2> DEFINE n == p.boldBuf[1].at
             ds == WithBuffered(p)
             ph == Append(p.phrases, p.boldBuf)
  <2>11. p.boldBuf[1].at = n /\ WithBuffered(p) = ds /\ Append(p.phrases, p.boldBuf) = ph
    OBVIOUS
  <2> HIDE DEF n, ds, ph
  <2>8. CASE IsNumber(p)
    <3>1. q = [r EXCEPT !.num = n, !.sawDef = TRUE]
      BY <2>3, <2>7, <2>8, <2>11
    <3>2. /\ DOMAIN q = Rbs10Fields /\ q.head = p.head /\ q.pos = p.pos /\ q.ms = p.ms
          /\ q.phraseArea = p.phraseArea /\ q.in = p.in \ {"strong"} /\ q.title = p.title
          /\ q.done = p.done /\ q.boldBuf = <<>> /\ q.phrases = p.phrases
          /\ q.defs = ds /\ q.defBuf = <<>> /\ q.num = n /\ q.sawDef = TRUE
      BY <2>6, <2>11, <3>1
    <3> QED
      BY <1>2, <2>7, <2>8, <2>11, <3>2
      DEF Rbs10Ended, DefsAhead, BufAhead, NumAhead, SawAhead
  <2>9. CASE IsPhrase(p)
    <3>1. q = [r EXCEPT !.phrases = ph, !.num = None]
      BY <2>3, <2>6, <2>7, <2>9, <2>11
    <3>2. /\ DOMAIN q = Rbs10Fields /\ q.head = p.head /\ q.pos = p.pos /\ q.ms = p.ms
          /\ q.phraseArea = p.phraseArea /\ q.in = p.in \ {"strong"} /\ q.title = p.title
          /\ q.done = p.done /\ q.boldBuf = <<>> /\ q.phrases = ph
          /\ q.defs = ds /\ q.defBuf = <<>> /\ q.num = None /\ q.sawDef = p.sawDef
      BY <2>6, <2>11, <3>1
    <3> QED
      BY <1>2, <2>7, <2>9, <2>11, <3>2
      DEF Rbs10Ended, DefsAhead, BufAhead, NumAhead, SawAhead
  <2>10. CASE ~ IsNumber(p) /\ ~ IsPhrase(p)
    <3>1. q = ended
      BY <2>3, <2>10
    <3> QED
      BY <1>2, <2>2, <2>10, <3>1
      DEF Rbs10Ended, DefsAhead, BufAhead, NumAhead, SawAhead
  <2> QED
    BY <2>8, <2>9, <2>10
<1>3. CASE e \in Abbrs
  <2>1. q = [p EXCEPT !.in = p.in \ {"v-abbr"}, !.title = ""]
    BY <1>0, <1>3, <1>9 DEF Rbs10End
  <2> QED
    BY <1>3, <2>1 DEF Rbs10Ended
<1>4. CASE e \in Paragraphs \cup {"accent"}
  <2>1. q = p
    BY <1>0, <1>4, <1>9 DEF Rbs10End
  <2> QED
    BY <1>4, <2>1 DEF Rbs10Ended
<1> QED
  BY <1>1, <1>2, <1>3, <1>4

\* What becomes of a text.
Rbs10To(p, d) ==
  IF "hw" \in p.in THEN "head"
  ELSE IF "strong" \in p.in THEN "bold"
  ELSE IF "v-abbr" \in p.in THEN IF p.sawDef \/ p.phraseArea THEN "nowhere" ELSE "pos"
  ELSE IF ~ p.done THEN "nowhere"
  ELSE IF d.kind = "lozenge" THEN "lozenge" ELSE "translation"

\* p becomes q at a text d that goes to the field to.
Rbs10Read(p, d, to, q) ==
  /\ DOMAIN q = Rbs10Fields
  /\ q.phrases = p.phrases /\ q.in = p.in /\ q.title = p.title /\ q.num = p.num
  /\ q.sawDef = p.sawDef /\ q.done = p.done /\ q.ms = p.ms
  /\ q.head = IF to = "head" THEN Append(p.head, d) ELSE p.head
  /\ q.boldBuf = IF to = "bold" THEN Append(p.boldBuf, d) ELSE p.boldBuf
  /\ q.pos = IF to = "pos" THEN Append(p.pos, [title |-> p.title, at |-> d.at]) ELSE p.pos
  /\ q.phraseArea = IF to = "lozenge" THEN TRUE ELSE p.phraseArea
  /\ q.defs = IF to = "lozenge" THEN WithBuffered(p) ELSE p.defs
  /\ q.defBuf = IF to = "lozenge" THEN <<>>
                ELSE IF to = "translation" THEN Append(p.defBuf, d) ELSE p.defBuf

\* handle_data of _Rbs10Parser.
LEMMA Rbs10DataFields ==
  ASSUME NEW p, DOMAIN p = Rbs10Fields, NEW d
  PROVE  Rbs10Read(p, d, Rbs10To(p, d), Rbs10Data(p, d))
<1> USE DEF Rbs10Read, Rbs10Fields
<1> DEFINE q == Rbs10Data(p, d)
           to == Rbs10To(p, d)
<1>9. to \in {"head", "bold", "pos", "nowhere", "lozenge", "translation"}
  BY DEF Rbs10To
<1>10. q = CASE to = "head" -> [p EXCEPT !.head = Append(p.head, d)]
             [] to = "bold" -> [p EXCEPT !.boldBuf = Append(p.boldBuf, d)]
             [] to = "pos" -> [p EXCEPT !.pos = Append(p.pos, [title |-> p.title, at |-> d.at])]
             [] to = "nowhere" -> p
             [] to = "lozenge" -> [FlushDef(p) EXCEPT !.phraseArea = TRUE]
             [] to = "translation" -> [p EXCEPT !.defBuf = Append(p.defBuf, d)]
  BY DEF Rbs10Data, Rbs10To
<1> SUFFICES Rbs10Read(p, d, to, q)
  BY DEF q, to
<1> HIDE DEF q, to
<1>1. CASE to = "head"
  <2>1. q = [p EXCEPT !.head = Append(p.head, d)]
    BY <1>1, <1>10
  <2> QED
    BY <1>1, <2>1
<1>2. CASE to = "bold"
  <2>1. q = [p EXCEPT !.boldBuf = Append(p.boldBuf, d)]
    BY <1>2, <1>10
  <2> QED
    BY <1>2, <2>1
<1>3. CASE to = "pos"
  <2>1. q = [p EXCEPT !.pos = Append(p.pos, [title |-> p.title, at |-> d.at])]
    BY <1>3, <1>10
  <2> QED
    BY <1>3, <2>1
<1>4. CASE to = "nowhere"
  <2>1. q = p
    BY <1>4, <1>10
  <2> QED
    BY <1>4, <2>1
<1>5. CASE to = "lozenge"
  <2> DEFINE r == FlushDef(p)
  <2>1. q = [r EXCEPT !.phraseArea = TRUE]
    BY <1>5, <1>10
  <2>2. FlushedFields(p, r)
    BY FlushFields
  <2> HIDE DEF r
  <2> QED
    BY <1>5, <2>1, <2>2 DEF FlushedFields
<1>6. CASE to = "translation"
  <2>1. q = [p EXCEPT !.defBuf = Append(p.defBuf, d)]
    BY <1>6, <1>10
  <2> QED
    BY <1>6, <2>1
<1> QED
  BY <1>1, <1>2, <1>3, <1>4, <1>5, <1>6, <1>9

-----------------------------------------------------------------------------
(* The flags of _Rbs10Parser.                                              *)

\* The flags that are set in a part of a paragraph.
FlagsOf(in) == IF in \in {"hw", "strong"} THEN {in}
               ELSE IF in \in Abbrs THEN {"v-abbr"} ELSE {}

\* The flags of _Rbs10Parser tell which elements are open.
Rbs10Shape ==
  dict = "rbs10" =>
    /\ DOMAIN parser = Rbs10Fields
    /\ parser.in = FlagsOf(Inline(open))
    /\ Inline(open) \in Abbrs => parser.title = Inline(open)
    /\ Block(open) \in Paragraphs => (parser.ms <=> Block(open) = "ms")
    /\ parser.done <=> pieces # <<>> /\ Inline(open) # "hw"

\* What may be open in an article of rbs10.
LEMMA Rbs10Markup ==
  ASSUME Frame, dict = "rbs10"
  PROVE  /\ Block(open) \in {"none", "p", "ms"}
         /\ Inline(open) \in {"none", "hw", "strong", "abbr", "label", "accent"}
         /\ \A k \in 3..Len(open) : open[k].el = "accent"
<1>1. /\ Block(open) \in {"none", "p", "ms"}
      /\ Inline(open) \in {"none", "hw", "strong", "abbr", "label", "accent"}
  BY Markup DEF Frame, Nesting
<1>2. \A k \in 3..Len(open) : /\ open[k].el \in {"accent", "label"}
                              /\ open[k].el = "label" => Inline(open) = "v-ex"
  BY DEF Frame, Nesting
<1> QED
  BY <1>1, <1>2

\* A start tag keeps the flags right.
LEMMA Rbs10ShapeStart ==
  ASSUME Frame, Rbs10Shape, NEW e \in Elements, StartTag(e), dict = "rbs10"
  PROVE  /\ Rbs10Shape' /\ Rbs10Started(parser, e, parser')
         /\ e \in Rbs10Els
         /\ e = "strong" <=> Inline(open) # "strong" /\ Inline(open') = "strong"
<1>1. /\ parser' = Rbs10Start(parser, e) /\ pieces' = pieces /\ dict' = dict
  BY DEF StartTag, HandleStart
<1>2. /\ Len(open) \in Nat
      /\ \/ /\ Len(open) = 0 /\ e \in {"p", "ms"} /\ Block(open') = e
            /\ Inline(open') = "none"
         \/ /\ Len(open) = 1 /\ Block(open) \in {"p", "ms"} /\ Block(open') = Block(open)
            /\ Inline(open') = e /\ e \in {"hw", "strong", "abbr", "label", "accent"}
            /\ e = "hw" => pieces = <<>>
         \/ /\ Len(open) > 1 /\ Block(open') = Block(open) /\ Inline(open') = Inline(open)
            /\ e = "accent"
  <2>1. Blocks[dict] = {"p", "ms"} /\ Inlines[dict] = {"strong", "abbr", "label", "accent"}
    BY Markup DEF Frame, Nesting
  <2>2. Inline(open) # "v-ex"
    BY Rbs10Markup
  <2>3. \/ /\ Len(open) = 0 /\ e \in Blocks[dict] /\ Block(open') = e
           /\ Inline(open') = "none"
        \/ /\ Len(open) = 1 /\ Block(open) \in {"p", "ms"} /\ Block(open') = Block(open)
           /\ Inline(open') = e /\ (pieces = <<>> => e = "hw")
           /\ (pieces # <<>> => e \in Inlines[dict])
        \/ /\ Len(open) > 1 /\ Block(open') = Block(open) /\ Inline(open') = Inline(open)
           /\ e \in {"accent", "label"} /\ (e = "label" => Inline(open) = "v-ex")
    BY Opened DEF Frame
  <2>4. Len(open) \in Nat
    BY Surroundings DEF Frame
  <2> QED
    BY <2>1, <2>2, <2>3, <2>4
<1>3. /\ Inline(open) = "none" <=> Len(open) < 2
      /\ Block(open) = "none" <=> Len(open) = 0
  BY Surroundings DEF Frame
<1>4. e \in Rbs10Els
  BY <1>2 DEF Rbs10Els
<1>5. /\ DOMAIN parser = Rbs10Fields
      /\ parser.in = FlagsOf(Inline(open))
      /\ Inline(open) \in Abbrs => parser.title = Inline(open)
      /\ Block(open) \in Paragraphs => (parser.ms <=> Block(open) = "ms")
      /\ parser.done <=> pieces # <<>> /\ Inline(open) # "hw"
  BY DEF Rbs10Shape
<1>6. Len(open) = 0 \/ Len(open) = 1 => Inline(open) = "none"
  <2>1. \A l : l = 0 \/ l = 1 => l < 2
    OBVIOUS
  <2> QED
    BY <1>3, <2>1
<1>7. Inline(open) = "none" => parser.in = {}
  BY <1>5 DEF FlagsOf, Abbrs
<1>8. e = "strong" => "hw" \notin parser.in
  BY <1>2, <1>6, <1>7
<1>9. Rbs10Started(parser, e, parser')
  BY <1>1, <1>4, <1>5, <1>8, Rbs10StartFields
<1>10. e = "strong" <=> Inline(open) # "strong" /\ Inline(open') = "strong"
  BY <1>2, <1>6
<1>11. /\ DOMAIN parser' = Rbs10Fields /\ (parser'.done <=> parser.done)
       /\ parser'.in = IF e \in {"hw", "strong"} THEN parser.in \cup {e}
                       ELSE IF e \in Abbrs THEN parser.in \cup {"v-abbr"} ELSE parser.in
       /\ parser'.title = IF e \in Abbrs THEN e ELSE parser.title
       /\ parser'.ms = IF e \in Paragraphs THEN e = "ms" ELSE parser.ms
  BY <1>9 DEF Rbs10Started
<1>12. CASE Len(open) = 0
  <2>1. e \in Paragraphs /\ e \notin {"hw", "strong"} /\ e \notin Abbrs /\ Inline(open) = "none"
    BY <1>2, <1>6, <1>12 DEF Paragraphs, Abbrs
  <2>2. Inline(open') = "none" /\ Block(open') = e
    BY <1>2, <1>12
  <2> QED
    BY <1>1, <1>4, <1>5, <1>7, <1>9, <1>10, <1>11, <2>1, <2>2 DEF Rbs10Shape, FlagsOf, Abbrs
<1>13. CASE Len(open) = 1
  <2>1. e \notin Paragraphs /\ Inline(open) = "none" /\ parser.in = {}
    BY <1>2, <1>6, <1>7, <1>13 DEF Paragraphs
  <2>2. Inline(open') = e /\ Block(open') = Block(open) /\ (e = "hw" => pieces = <<>>)
    BY <1>2, <1>13
  <2>3. parser'.in = FlagsOf(e)
    BY <1>11, <2>1 DEF FlagsOf
  <2>4. parser'.done <=> pieces # <<>> /\ e # "hw"
    BY <1>5, <1>11, <2>1, <2>2
  <2> QED
    BY <1>1, <1>4, <1>5, <1>9, <1>10, <1>11, <2>1, <2>2, <2>3, <2>4 DEF Rbs10Shape
<1>14. CASE Len(open) > 1
  <2>3. \A l : l > 1 => l # 0 /\ l # 1
    OBVIOUS
  <2>4. Len(open) # 0 /\ Len(open) # 1
    BY <1>14, <2>3
  <2>1. e \notin Paragraphs /\ e \notin {"hw", "strong"} /\ e \notin Abbrs
    BY <1>2, <2>4 DEF Paragraphs, Abbrs
  <2>2. Inline(open') = Inline(open) /\ Block(open') = Block(open)
    BY <1>2, <2>4
  <2> QED
    BY <1>1, <1>4, <1>5, <1>9, <1>10, <1>11, <2>1, <2>2 DEF Rbs10Shape
<1> QED
  BY <1>2, <1>12, <1>13, <1>14

\* An end tag keeps the flags right.
LEMMA Rbs10ShapeEnd ==
  ASSUME Frame, Rbs10Shape, EndTag, dict = "rbs10"
  PROVE  LET e == open[Len(open)].el
         IN  /\ Rbs10Shape' /\ Rbs10Ended(parser, e, parser')
             /\ e = "strong" <=> Inline(open) = "strong" /\ Len(open) = 2
             /\ Inline(open) = "strong" /\ Len(open) # 2 => Inline(open') = "strong"
             /\ Inline(open') = "strong" => Inline(open) = "strong" /\ Len(open) # 2
<1> DEFINE e == open[Len(open)].el
<1>1. /\ parser' = Rbs10End(parser, Tag(e)) /\ pieces' = pieces /\ dict' = dict
      /\ pieces # <<>>
  BY FlagEnd DEF EndTag, HandleEnd
<1>2. /\ Len(open) \in Nat
      /\ \/ /\ Len(open) = 1 /\ Len(open) # 2 /\ e \in {"p", "ms"}
            /\ Block(open') = "none" /\ Inline(open') = "none" /\ Inline(open) = "none"
         \/ /\ Len(open) = 2 /\ Block(open') = Block(open) /\ Inline(open') = "none"
            /\ e = Inline(open) /\ e \in {"hw", "strong", "abbr", "label", "accent"}
         \/ /\ Len(open) > 2 /\ Len(open) # 2
            /\ Block(open') = Block(open) /\ Inline(open') = Inline(open)
            /\ e = "accent"
  <2>1. \A l : /\ l = 1 => l # 2 /\ l < 2
               /\ l = 2 => ~ (l < 2) /\ l > 0
    OBVIOUS
  <2>2. /\ Len(open) \in Nat /\ (Inline(open) = "none" <=> Len(open) < 2)
        /\ Len(open) > 0 => Block(open) \in BlockEls
    BY Surroundings DEF Frame
  <2>3. \/ Len(open) = 1 /\ Block(open') = "none" /\ Inline(open') = "none" /\ e = Block(open)
        \/ /\ Len(open) = 2 /\ Block(open') = Block(open) /\ Inline(open') = "none"
           /\ e = Inline(open)
        \/ /\ Len(open) > 2 /\ Block(open') = Block(open) /\ Inline(open') = Inline(open)
           /\ e \in {"accent", "label"} /\ (e = "label" => Inline(open) = "v-ex")
    BY Ended DEF Frame
  <2>4. /\ Block(open) \in {"none", "p", "ms"}
        /\ Inline(open) \in {"none", "hw", "strong", "abbr", "label", "accent"}
    BY Rbs10Markup
  <2>5. Len(open) = 1 => Block(open) # "none"
    BY <2>2 DEF BlockEls
  <2>6. \A l \in Nat : l > 2 => l # 2
    OBVIOUS
  <2> HIDE DEF e
  <2> QED
    BY <2>1, <2>2, <2>3, <2>4, <2>5, <2>6
<1> HIDE DEF e
<1>4. e \in Rbs10Els
  BY <1>2 DEF Rbs10Els
<1>5. /\ DOMAIN parser = Rbs10Fields
      /\ parser.in = FlagsOf(Inline(open))
      /\ Inline(open) \in Abbrs => parser.title = Inline(open)
      /\ Block(open) \in Paragraphs => (parser.ms <=> Block(open) = "ms")
      /\ parser.done <=> pieces # <<>> /\ Inline(open) # "hw"
  BY DEF Rbs10Shape
<1>6. parser.in \subseteq {"hw", "strong", "v-abbr"}
  BY <1>5 DEF FlagsOf
<1>7. e \in {"hw", "strong"} => parser.in = {e}
  BY <1>2, <1>5 DEF FlagsOf
<1>8. e \in {"hw", "strong"} => \A f \in {"hw", "strong"} : f \in parser.in <=> f = e
  BY <1>7
<1>9. Rbs10Ended(parser, e, parser')
  BY <1>1, <1>4, <1>5, <1>6, <1>8, Rbs10EndFields
<1>10. /\ e = "strong" <=> Inline(open) = "strong" /\ Len(open) = 2
       /\ Inline(open) = "strong" /\ Len(open) # 2 => Inline(open') = "strong"
       /\ Inline(open') = "strong" => Inline(open) = "strong" /\ Len(open) # 2
  BY <1>2
<1>11. /\ DOMAIN parser' = Rbs10Fields
       /\ parser'.done <=> e = "hw" \/ parser.done
       /\ parser'.in = IF e \in {"hw", "strong"} THEN parser.in \ {e}
                       ELSE IF e \in Abbrs THEN parser.in \ {"v-abbr"} ELSE parser.in
       /\ parser'.title = IF e \in Abbrs THEN "" ELSE parser.title
       /\ parser'.ms = parser.ms
  BY <1>9 DEF Rbs10Ended
<1>12. CASE Len(open) = 1
  <2>1. /\ Block(open') = "none" /\ Inline(open') = "none" /\ Inline(open) = "none"
        /\ e \in {"p", "ms"}
    BY <1>2, <1>12
  <2>2. parser'.in = {} /\ parser'.done
    BY <1>1, <1>5, <1>11, <2>1 DEF FlagsOf, Abbrs
  <2> QED
    BY <1>1, <1>9, <1>10, <1>11, <2>1, <2>2 DEF Rbs10Shape, FlagsOf, Abbrs, Paragraphs, e
<1>13. CASE Len(open) = 2
  <2>1. Inline(open') = "none" /\ e = Inline(open) /\ Block(open') = Block(open)
    BY <1>2, <1>13
  <2>2. parser'.in = {}
    BY <1>5, <1>11, <2>1 DEF FlagsOf
  <2>3. parser'.done
    BY <1>1, <1>5, <1>11, <2>1
  <2> QED
    BY <1>1, <1>5, <1>9, <1>10, <1>11, <2>1, <2>2, <2>3 DEF Rbs10Shape, FlagsOf, Abbrs, e
<1>14. CASE Len(open) > 2
  <2>3. \A l : l > 2 => l # 1 /\ l # 2
    OBVIOUS
  <2>4. Len(open) # 1 /\ Len(open) # 2
    BY <1>14, <2>3
  <2>1. Inline(open') = Inline(open) /\ e = "accent" /\ Block(open') = Block(open)
    BY <1>2, <2>4
  <2>2. e \notin Abbrs /\ e \notin {"hw", "strong"}
    BY <2>1 DEF Abbrs
  <2> QED
    BY <1>1, <1>5, <1>9, <1>10, <1>11, <2>1, <2>2 DEF Rbs10Shape, e
<1> QED
  BY <1>2, <1>12, <1>13, <1>14

\* A text keeps the flags right.
LEMMA Rbs10ShapeData ==
  ASSUME Frame, Rbs10Shape, NEW kind \in Texts, Data(kind), dict = "rbs10"
  PROVE  LET d == [kind |-> kind, at |-> Len(pieces) + 1]
         IN  Rbs10Shape' /\ Rbs10Read(parser, d, Rbs10To(parser, d), parser')
<1> DEFINE d == [kind |-> kind, at |-> Len(pieces) + 1]
           x == [kind |-> kind, within |-> {open[k] : k \in 1..Len(open)}]
<1>1. /\ parser' = Rbs10Data(parser, d) /\ open' = open /\ dict' = dict
      /\ pieces = <<>> => Inline(open) = "hw"
  BY TextRead DEF HandleData
<1>2. pieces' # <<>>
  <2>1. Fed(x)
    BY TextRead
  <2>2. Len(pieces') = Len(pieces) + 1 /\ Len(pieces) \in Nat
    BY <2>1, GrownAt DEF Fed
  <2> QED
    BY <2>2, EmptySeq
<1>3. DOMAIN parser = Rbs10Fields
  BY DEF Rbs10Shape
<1> HIDE DEF d
<1>4. Rbs10Read(parser, d, Rbs10To(parser, d), parser')
  BY <1>1, <1>3, Rbs10DataFields
<1>5. /\ DOMAIN parser' = Rbs10Fields
      /\ parser'.in = parser.in /\ parser'.title = parser.title /\ parser'.done = parser.done
      /\ parser'.ms = parser.ms
  BY <1>4 DEF Rbs10Read
<1> QED
  BY <1>1, <1>2, <1>4, <1>5 DEF Rbs10Shape, d

-----------------------------------------------------------------------------
(* Bold text, and what else one more text says of an article of rbs10.     *)

Phrased(a) == {i \in Places(a) : PhraseBold(a, i)}
NamedRbs10(a) == {i \in Places(a) : NamesRbs10(a, i)}
BoldText(a, o) == IF Inline(o) = "strong" THEN Text(a, o[2].nr) ELSE <<>>

\* The bold text that is open is a number or phrase as a whole or not at all.
BoldSettled ==
  Inline(open) = "strong" =>
    \A i \in 1..Len(pieces) : InElement(pieces, i, open[2].nr) =>
      /\ NumberBold(pieces, i) <=> BoldText(pieces, open)[1].kind = "number"
      /\ PhraseBold(pieces, i) <=> /\ BoldText(pieces, open)[1].kind # "number"
                                   /\ Block(open) = "ms" \/ Lozenged(pieces)

\* Bold text is known by its first piece.
LEMMA BoldRead ==
  ASSUME Frame, NEW kind \in Texts, Data(kind), Inline(open) = "strong"
  PROVE  LET b == pieces'
             m == Len(pieces) + 1
             t == BoldText(pieces, open)
             u == BoldText(b, open)
         IN  /\ u = Append(t, Piece(b, m)) /\ u # <<>>
             /\ u[1] = IF t = <<>> THEN Piece(b, m) ELSE t[1]
             /\ Bold(b, m) /\ Opening(b, m) = u[1].at
             /\ NumberBold(b, m) <=> u[1].kind = "number"
             /\ PhraseBold(b, m) <=> /\ u[1].kind # "number"
                                     /\ Block(open) = "ms" \/ Lozenged(pieces)
             /\ InElement(b, m, open[2].nr)
<1> DEFINE b == pieces'
           m == Len(pieces) + 1
           nr == open[2].nr
           S == {i \in Places(pieces) : InElement(pieces, i, nr)}
           T == {i \in Places(b) : InElement(b, i, nr)}
           t == BoldText(pieces, open)
           u == BoldText(b, open)
           x == [kind |-> kind, within |-> {open[k] : k \in 1..Len(open)}]
<1>1. Fed(x) /\ open' = open /\ Frame'
  BY TextRead, DataFrame
<1>2. Grown(Texted, pieces, x, b) /\ x.within = {open[k] : k \in 1..Len(open)}
  BY <1>1 DEF Fed
<1>3. /\ Len(pieces) \in Nat /\ Len(b) = m /\ Places(pieces) = 1..Len(pieces)
      /\ Places(b) = Places(pieces) \cup {m} /\ b[m] = x
      /\ \A i \in 1..Len(pieces) : b[i] = pieces[i]
  <2> HIDE DEF x, b
  <2>1. /\ Len(pieces) \in Nat /\ Len(b) = Len(pieces) + 1 /\ DOMAIN pieces = 1..Len(pieces)
        /\ Places(b) = Places(pieces) \cup {Len(pieces) + 1} /\ b[Len(pieces) + 1] = x
        /\ \A i \in 1..Len(pieces) : b[i] = pieces[i]
    BY <1>2, GrownAt
  <2> QED
    BY <2>1 DEF Places
<1>4. Len(open) \in Nat /\ Len(open) > 1 /\ 2 \in 1..Len(open) /\ open[2].el = "strong"
  <2>1. Len(open) \in Nat /\ ~ (Len(open) < 2) /\ (Len(open) > 1 => open[2].el = Inline(open))
    BY Surroundings DEF Frame
  <2> QED
    BY <2>1
<1>5. InElement(b, m, nr) /\ Bold(b, m) /\ (Indented(b, m) <=> Block(open) = "ms")
  <2>1. /\ InElement(b, m, nr) <=> \E k \in 1..Len(open) : open[k].nr = nr
        /\ In(b, m, {"strong"}) <=> Inline(open) = "strong"
        /\ Indented(b, m) <=> Block(open) = "ms"
    BY <1>1, TextSays DEF InlineEls
  <2> QED
    BY <1>4, <2>1 DEF Bold
<1>6. t = Read(pieces, S) /\ u = Read(b, T)
  BY DEF BoldText, Text
<1>7. \A i \in 1..Len(pieces) : InElement(b, i, nr) <=> InElement(pieces, i, nr)
  BY <1>2, SameElements
<1>8. T = S \cup {m} /\ S \subseteq 1..Len(pieces) /\ T \subseteq 1..m
  BY <1>3, <1>5, <1>7
<1>9. ASSUME NEW y \in b[m].within, y.el = "strong" PROVE y = open[2]
  <2>1. PICK k \in 1..Len(open) : y = open[k]
    BY <1>2, <1>3
  <2>2. k # 1
    <3>1. k = 1 => open[k].el \in BlockEls
      BY <1>4, Surroundings DEF Frame
    <3> QED
      BY <1>9, <2>1, <3>1 DEF BlockEls
  <2>3. ~ (k \in 3..Len(open))
    BY <1>9, <2>1 DEF Frame, Nesting
  <2>4. k = 2
    BY <2>2, <2>3
  <2> QED
    BY <2>1, <2>4
<1>10. \A i \in 1..m : InElement(b, i, nr) <=> open[2] \in b[i].within
  <2> SUFFICES ASSUME NEW i \in 1..m PROVE InElement(b, i, nr) <=> open[2] \in b[i].within
    OBVIOUS
  <2>1. \A y \in b[i].within : \A k \in 1..Len(open) : y.nr = open[k].nr => y = open[k]
    BY <1>1, <1>3 DEF Frame, Marked
  <2>2. \A y \in b[i].within : y.nr = nr => y = open[2]
    BY <1>4, <2>1
  <2> QED
    BY <2>2 DEF InElement
<1>11. open[2] \in b[m].within
  BY <1>3, <1>5, <1>10
<1>12. {i \in 1..m : \E y \in b[m].within : y.el = "strong" /\ y \in b[i].within} = T
  <2>1. 1..m = Places(b)
    BY <1>3
  <2>2. \A i \in 1..m : (\E y \in b[m].within : y.el = "strong" /\ y \in b[i].within)
                          <=> InElement(b, i, nr)
    BY <1>4, <1>9, <1>10, <1>11
  <2> QED
    BY <2>1, <2>2
<1>13. Opening(b, m) = Min(T)
  BY <1>12 DEF Opening
<1>14. \A i \in 1..Len(pieces) : Piece(b, i) = Piece(pieces, i)
  BY <1>3 DEF Piece
<1>15. u = Append(t, Piece(b, m))
  <2>1. Text(b, nr) = Append(Text(pieces, nr), Piece(b, m))
    BY <1>1, <1>5, TextGrows
  <2> QED
    BY <2>1 DEF BoldText
<1>16. \A i \in 1..(m - 1) : (Lozenge(b, i) <=> Lozenge(pieces, i)) /\ i \in 1..Len(pieces)
  <2>1. 1..(m - 1) = 1..Len(pieces)
    BY <1>3
  <2> QED
    BY <1>2, <2>1, SameElements
<1>17. (\E i \in 1..(m - 1) : Lozenge(b, i)) <=> Lozenged(pieces)
  <2>1. 1..(m - 1) = 1..Len(pieces)
    BY <1>3
  <2> QED
    BY <1>3, <1>16, <2>1 DEF Lozenged
<1> HIDE DEF S, T, t, u, x, b, m
<1>18. m \in Nat /\ m = Len(pieces) + 1 /\ m \in T /\ T # {} /\ T \subseteq Int
  BY <1>3, <1>8 DEF m
<1> DEFINE f == Nth(T, 1)
<1>19. u # <<>> /\ u[1] = Piece(b, f) /\ f \in T /\ \A i \in T : f <= i
  BY <1>6, <1>8, <1>18, ReadLength
<1> HIDE DEF f
<1>20. Min(T) = f
  <2>1. \A y \in T : (\A i \in T : y <= i) => y = f
    BY <1>18, <1>19
  <2> QED
    BY <1>19, <2>1, Zenon DEF Min
<1>21. Opening(b, m) = f /\ u[1].at = f /\ u[1].kind = b[f].kind
  BY <1>13, <1>19, <1>20 DEF Piece
<1>22. u[1] = IF t = <<>> THEN Piece(b, m) ELSE t[1]
  <2>1. t = <<>> <=> S = {}
    BY <1>3, <1>6, <1>8, ReadLength
  <2>2. CASE S = {}
    BY <1>8, <1>19, <2>1, <2>2
  <2>3. CASE S # {}
    <3> DEFINE g == Nth(S, 1)
    <3>1. t[1] = Piece(pieces, g) /\ g \in S /\ \A i \in S : g <= i
      BY <1>3, <1>6, <1>8, <2>3, ReadLength
    <3> HIDE DEF g
    <3>2. g \in T /\ g \in 1..Len(pieces) /\ g < m
      BY <1>3, <1>8, <1>18, <3>1
    <3>3. f <= g /\ f # m
      BY <1>18, <1>19, <3>2
    <3>4. f \in S
      BY <1>8, <1>19, <3>3
    <3>5. f = g
      BY <1>18, <1>19, <3>1, <3>2, <3>3, <3>4
    <3> QED
      BY <1>14, <1>19, <2>1, <2>3, <3>1, <3>2, <3>5
  <2> QED
    BY <2>2, <2>3
<1>23. NumberBold(b, m) <=> u[1].kind = "number"
  BY <1>5, <1>21 DEF NumberBold
<1>24. PhraseBold(b, m) <=> u[1].kind # "number" /\ (Block(open) = "ms" \/ Lozenged(pieces))
  BY <1>5, <1>17, <1>23 DEF PhraseBold
<1> QED
  BY <1>5, <1>15, <1>19, <1>21, <1>22, <1>23, <1>24 DEF b, m, t, u, nr

\* The kinds of text of an article of rbs10.
LEMMA Rbs10Says ==
  ASSUME Frame, NEW kind \in Texts, Data(kind), dict = "rbs10"
  PROVE  LET b == pieces'
             m == Len(pieces) + 1
             in == Inline(open)
         IN  /\ in = "strong" <=> Bold(b, m)
             /\ Lozenge(b, m) <=> kind = "lozenge"
             /\ kind = "lozenge" => in = "none"
             /\ Free(b, m) <=> in \in {"none", "accent"} /\ kind # "lozenge"
             /\ in # "strong" => ~ NumberBold(b, m) /\ ~ PhraseBold(b, m)
             /\ NamesRbs10(b, m) <=> /\ in = "abbr"
                                     /\ ~ NumberedBold(pieces) /\ ~ Lozenged(pieces)
<1> DEFINE b == pieces'
           m == Len(pieces) + 1
           x == [kind |-> kind, within |-> {open[k] : k \in 1..Len(open)}]
<1>1. Fed(x) /\ x.kind = kind
  BY TextRead
<1>2. kind = "lozenge" => Inline(open) = "none"
  <2>1. kind = "lozenge" => Len(open) = 1
    BY TextRead
  <2>2. Len(open) = 1 => Len(open) < 2
    OBVIOUS
  <2> QED
    BY <2>1, <2>2 DEF Inline
<1> HIDE DEF x
<1>3. /\ b[m].kind = kind
      /\ In(b, m, {"strong"}) <=> Inline(open) = "strong"
      /\ In(b, m, {"abbr"}) <=> Inline(open) = "abbr"
      /\ Plain(b, m) <=> Block(open) # "table" /\ Inline(open) \in {"none", "accent"}
  BY <1>1, TextSays DEF InlineEls
<1>4. Block(open) # "table"
  BY Rbs10Markup
<1>5. Grown(Texted, pieces, x, b) /\ Len(pieces) \in Nat /\ Places(pieces) = 1..Len(pieces)
  BY <1>1, Read0 DEF Fed
<1>6. 1..(m - 1) = 1..Len(pieces)
  BY <1>5
<1>7. \A i \in 1..Len(pieces) : /\ NumberBold(b, i) <=> NumberBold(pieces, i)
                                /\ Lozenge(b, i) <=> Lozenge(pieces, i)
  BY <1>5, SameOpening, SameElements
<1>8. (\A i \in 1..(m - 1) : ~ NumberBold(b, i) /\ ~ Lozenge(b, i))
        <=> ~ NumberedBold(pieces) /\ ~ Lozenged(pieces)
  BY <1>5, <1>6, <1>7 DEF NumberedBold, Lozenged
<1> HIDE DEF b, m
<1>9. Lozenge(b, m) <=> kind = "lozenge"
  BY <1>2, <1>3, <1>4 DEF Lozenge
<1>10. Free(b, m) <=> Inline(open) \in {"none", "accent"} /\ kind # "lozenge"
  BY <1>3, <1>4, <1>9 DEF Free
<1>11. Bold(b, m) <=> Inline(open) = "strong"
  BY <1>3 DEF Bold
<1>12. Inline(open) # "strong" => ~ NumberBold(b, m) /\ ~ PhraseBold(b, m)
  BY <1>11 DEF NumberBold, PhraseBold
<1>13. NamesRbs10(b, m) <=> Inline(open) = "abbr" /\ ~ NumberedBold(pieces) /\ ~ Lozenged(pieces)
  BY <1>3, <1>8 DEF NamesRbs10
<1> QED
  BY <1>2, <1>9, <1>10, <1>11, <1>12, <1>13 DEF b, m

\* Old names and phrases stay.
LEMMA SameNamed ==
  ASSUME NEW P, NEW a, NEW x, NEW b, Grown(P, a, x, b), NEW i \in 1..Len(a)
  PROVE  NamesRbs10(b, i) <=> NamesRbs10(a, i)
<1>1. Len(a) \in Nat
  BY GrownAt
<1>2. \A k \in 1..(i - 1) : k \in 1..Len(a)
  BY <1>1
<1>3. \A k \in 1..(i - 1) : /\ NumberBold(b, k) <=> NumberBold(a, k)
                            /\ Lozenge(b, k) <=> Lozenge(a, k)
  BY <1>2, SameOpening, SameElements
<1>4. In(b, i, {"abbr"}) <=> In(a, i, {"abbr"})
  BY SameElements
<1> QED
  BY <1>3, <1>4 DEF NamesRbs10

-----------------------------------------------------------------------------
(* What _Rbs10Parser has read.                                             *)

\* The fields of _Rbs10Parser have what the article has said so far.  Bold text
\* counts as soon as it is read, for the parser once it ends: the buffer, the
\* definitions and the number are those that the parser will have then.
Rbs10Content ==
  dict = "rbs10" =>
    /\ parser.head = Read(pieces, OfHeadword(pieces))
    /\ parser.boldBuf = BoldText(pieces, open)
    /\ parser.phraseArea <=> Lozenged(pieces)
    /\ parser.phrases = ReadEach(pieces, Complete(pieces, open, "strong", Phrased(pieces)))
    /\ Names(parser.pos, NamedRbs10(pieces))
    /\ BufAhead(parser) = Read(pieces, Run(pieces))
    /\ DefsAhead(parser) = TranslationsOf(pieces, Closed(pieces))
    /\ NumAhead(parser) = NumberAfter(pieces, Len(pieces))
    /\ SawAhead(parser) <=> NumberedBold(pieces)

\* Outside bold text nothing is pending.
LEMMA NotAhead ==
  ASSUME NEW p, p.boldBuf = <<>>
  PROVE  /\ ~ IsNumber(p) /\ ~ IsPhrase(p)
         /\ DefsAhead(p) = p.defs /\ BufAhead(p) = p.defBuf /\ NumAhead(p) = p.num
         /\ SawAhead(p) <=> p.sawDef
BY DEF IsNumber, IsPhrase, DefsAhead, BufAhead, NumAhead, SawAhead

\* What the bold text turns out to be depends on its first piece only.
LEMMA AheadSame ==
  ASSUME NEW p, NEW q, q.defs = p.defs, q.defBuf = p.defBuf, q.num = p.num, q.sawDef = p.sawDef,
         IsNumber(q) <=> IsNumber(p), IsPhrase(q) <=> IsPhrase(p),
         IsNumber(p) => q.boldBuf[1] = p.boldBuf[1]
  PROVE  /\ DefsAhead(q) = DefsAhead(p) /\ BufAhead(q) = BufAhead(p) /\ NumAhead(q) = NumAhead(p)
         /\ SawAhead(q) <=> SawAhead(p)
BY DEF DefsAhead, BufAhead, NumAhead, SawAhead, WithBuffered, Kept

\* A definition comes of the buffered text as the article has it.
LEMMA Buffered ==
  ASSUME Frame, NEW ds, NEW buf, NEW num, NEW saw,
         ds = TranslationsOf(pieces, Closed(pieces)), buf = Read(pieces, Run(pieces)),
         num = NumberAfter(pieces, Len(pieces)), saw <=> NumberedBold(pieces)
  PROVE  Translations(pieces)
           = IF buf # <<>> /\ (num # None \/ ~ saw) THEN Append(ds, Definition(num, buf)) ELSE ds
<1> DEFINE l == Len(pieces)
           kept == Run(pieces) # {} /\ (NumberAfter(pieces, l) # None \/ ~ NumberedBold(pieces))
<1>1. l \in Nat /\ Places(pieces) = 1..l
  BY Read0
<1>2. Run(pieces) \subseteq 1..l
  BY <1>1 DEF Run
<1>3. buf = <<>> <=> Run(pieces) = {}
  <2> HIDE DEF l
  <2> QED
    BY <1>1, <1>2, ReadLength
<1>4. Translations(pieces)
        = IF kept THEN Append(ds, Definition(num, buf)) ELSE ds
  BY <1>1, Flushed
<1> QED
  BY <1>3, <1>4

\* A start tag of bold text finds none open.
LEMMA BoldStart ==
  ASSUME Frame, NEW e \in Elements, StartTag(e)
  PROVE  /\ BoldText(pieces, open') = IF e = "strong" THEN <<>> ELSE BoldText(pieces, open)
         /\ e = "strong" \/ e \in Paragraphs => BoldText(pieces, open) = <<>>
<1>1. /\ Inline(open') = "strong" <=> e = "strong" \/ Inline(open) = "strong"
      /\ e = "strong" => Len(open) = 1 /\ Inline(open) = "none" /\ open'[2].nr = tags + 1
      /\ e \in BlockEls <=> Len(open) = 0
  BY FlagStart DEF Flagged
<1>2. CASE e = "strong"
  <2>1. open'[2].nr = tags + 1 /\ Text(pieces, tags + 1) = <<>>
    BY <1>1, <1>2, NoText
  <2> QED
    BY <1>1, <1>2, <2>1 DEF BoldText
<1>3. CASE e # "strong"
  <2>1. CASE Inline(open) = "strong"
    <3>1. Len(open) \in Nat /\ ~ (Len(open) < 2)
      BY <2>1, Surroundings DEF Frame
    <3>2. 2 \in 1..Len(open) /\ Len(open) # 0
      BY <3>1
    <3>3. open'[2] = open[2]
      BY <3>2, Opened DEF Frame
    <3>4. e \notin Paragraphs
      BY <1>1, <3>2 DEF BlockEls, Paragraphs
    <3> QED
      BY <1>1, <1>3, <2>1, <3>3, <3>4 DEF BoldText
  <2>2. CASE Inline(open) # "strong"
    BY <1>1, <1>3, <2>2 DEF BoldText
  <2> QED
    BY <2>1, <2>2
<1> QED
  BY <1>2, <1>3

\* Bold text ends with its own end tag.
LEMMA BoldEnd ==
  ASSUME Frame, EndTag
  PROVE  LET e == open[Len(open)].el
         IN  /\ BoldText(pieces, open') = IF e = "strong" THEN <<>> ELSE BoldText(pieces, open)
             /\ e = "hw" => BoldText(pieces, open) = <<>>
<1> DEFINE e == open[Len(open)].el
<1>1. /\ Inline(open') = "strong" <=> Inline(open) = "strong" /\ Len(open) # 2
      /\ e = "strong" => Len(open) = 2
      /\ e = "hw" => Len(open) = 2
      /\ Len(open) = 2 => e = Inline(open)
  <2>1. /\ \A f \in Flagged : Inline(open') = f <=> Inline(open) = f /\ Len(open) # 2
        /\ e \in Flagged <=> Len(open) = 2 /\ Inline(open) \in Flagged
        /\ Len(open) = 2 => e = Inline(open)
    BY FlagEnd
  <2> QED
    BY <2>1 DEF Flagged
<1> HIDE DEF e
<1>2. CASE Inline(open') = "strong"
  <2>1. Len(open) \in Nat /\ ~ (Len(open) < 2) /\ Len(open') = Len(open) - 1 /\ Len(open) # 2
    BY <1>1, <1>2, Surroundings, Ended DEF Frame
  <2>2. 2 \in 1..Len(open')
    BY <2>1
  <2>3. open'[2] = open[2]
    BY <2>2, Ended DEF Frame
  <2> QED
    BY <1>1, <1>2, <2>3 DEF BoldText, e
<1>3. CASE Inline(open') # "strong"
  BY <1>1, <1>3 DEF BoldText, e
<1> QED
  BY <1>2, <1>3

\* A start tag keeps the bold text settled.
LEMMA BoldSettledStart ==
  ASSUME Frame, BoldSettled, NEW e \in Elements, StartTag(e)
  PROVE  BoldSettled'
<1>1. pieces' = pieces
  BY DEF StartTag
<1>2. /\ Inline(open') = "strong" <=> e = "strong" \/ Inline(open) = "strong"
      /\ e = "strong" => open'[2].nr = tags + 1
  BY FlagStart DEF Flagged
<1>3. CASE e = "strong"
  <2>1. Text(pieces, tags + 1) = <<>>
    BY NoText
  <2>2. \A i \in Places(pieces) : ~ InElement(pieces, i, tags + 1)
    BY <2>1, TextEmpty
  <2>3. Places(pieces) = 1..Len(pieces)
    BY Read0
  <2> QED
    BY <1>1, <1>2, <1>3, <2>2, <2>3 DEF BoldSettled
<1>4. CASE e # "strong" /\ Inline(open) = "strong"
  <2>1. Len(open) \in Nat /\ ~ (Len(open) < 2)
    BY <1>4, Surroundings DEF Frame
  <2>2. 2 \in 1..Len(open) /\ Len(open) > 1 /\ Len(open) # 0
    BY <2>1
  <2>3. open'[2] = open[2]
    BY <2>2, Opened DEF Frame
  <2>4. Block(open') = Block(open)
    <3>1. \A l \in Nat : ~ (l < 2) => l # 0 /\ l # 1
      OBVIOUS
    <3>2. Len(open) # 1
      BY <2>1, <3>1
    <3> QED
      BY <2>2, <3>2, Opened DEF Frame
  <2>5. BoldText(pieces, open') = BoldText(pieces, open)
    BY <1>4, BoldStart
  <2> QED
    BY <1>1, <1>4, <2>3, <2>4, <2>5 DEF BoldSettled
<1>5. CASE e # "strong" /\ Inline(open) # "strong"
  BY <1>2, <1>5 DEF BoldSettled
<1> QED
  BY <1>3, <1>4, <1>5

\* An end tag keeps the bold text settled.
LEMMA BoldSettledEnd ==
  ASSUME Frame, BoldSettled, EndTag
  PROVE  BoldSettled'
<1> SUFFICES ASSUME Inline(open') = "strong" PROVE BoldSettled'
  BY DEF BoldSettled
<1>1. pieces' = pieces
  BY DEF EndTag
<1>2. /\ Inline(open) = "strong" /\ Len(open) # 2
      /\ open[Len(open)].el \in Flagged => Len(open) = 2
  <2>1. /\ \A f \in Flagged : Inline(open') = f <=> Inline(open) = f /\ Len(open) # 2
        /\ open[Len(open)].el \in Flagged <=> Len(open) = 2 /\ Inline(open) \in Flagged
    BY FlagEnd
  <2> QED
    BY <2>1 DEF Flagged
<1>3. /\ Len(open) \in Nat /\ ~ (Len(open) < 2) /\ Len(open') = Len(open) - 1
  BY <1>2, Surroundings, Ended DEF Frame
<1>4. 2 \in 1..Len(open') /\ Len(open) > 2
  BY <1>2, <1>3
<1>5. open'[2] = open[2]
  BY <1>4, Ended DEF Frame
<1>6. Block(open') = Block(open)
  <2>1. \A l \in Nat : l > 2 => l # 1
    OBVIOUS
  <2>2. Len(open) # 1
    BY <1>3, <1>4, <2>1
  <2> QED
    BY <2>2, Ended DEF Frame
<1>7. BoldText(pieces, open') = BoldText(pieces, open)
  <2>1. open[Len(open)].el # "strong"
    BY <1>2 DEF Flagged
  <2> QED
    BY <2>1, BoldEnd
<1> QED
  BY <1>1, <1>2, <1>5, <1>6, <1>7 DEF BoldSettled

\* A text keeps the bold text settled: the first piece of bold text decides for the others.
LEMMA BoldSettledData ==
  ASSUME Frame, BoldSettled, NEW kind \in Texts, Data(kind), dict = "rbs10"
  PROVE  BoldSettled'
<1> DEFINE x == [kind |-> kind, within |-> {open[k] : k \in 1..Len(open)}]
           b == pieces'
           m == Len(pieces) + 1
           t == BoldText(pieces, open)
           u == BoldText(b, open)
<1>1. Fed(x) /\ open' = open
  BY TextRead
<1> HIDE DEF x
<1> SUFFICES ASSUME Inline(open) = "strong" PROVE BoldSettled'
  BY <1>1 DEF BoldSettled
<1>2. Grown(Texted, pieces, x, b)
  BY <1>1 DEF Fed
<1>3. /\ Len(pieces) \in Nat /\ Len(b) = m
  BY <1>2, GrownAt
<1>4. \A i \in 1..m : i \in 1..Len(pieces) \/ i = m
  BY <1>3
<1>5. /\ u[1] = IF t = <<>> THEN Piece(b, m) ELSE t[1]
      /\ NumberBold(b, m) <=> u[1].kind = "number"
      /\ PhraseBold(b, m) <=> u[1].kind # "number" /\ (Block(open) = "ms" \/ Lozenged(pieces))
  BY BoldRead
<1>6. ~ Lozenge(b, m)
  BY Rbs10Says
<1>7. m = Len(pieces) + 1
  OBVIOUS
<1>12. t = <<>> <=> \A i \in 1..Len(pieces) : ~ InElement(pieces, i, open[2].nr)
  BY TextEmpty, Read0 DEF BoldText
<1> HIDE DEF m, b, t, u
<1>8. Lozenged(b) <=> Lozenged(pieces)
  BY <1>2, <1>6, <1>7, NumberRead
<1>9. ASSUME NEW i \in 1..m, InElement(b, i, open[2].nr)
      PROVE  /\ NumberBold(b, i) <=> u[1].kind = "number"
             /\ PhraseBold(b, i) <=> u[1].kind # "number" /\ (Block(open) = "ms" \/ Lozenged(b))
  <2>1. CASE i = m
    BY <1>5, <1>8, <2>1
  <2>2. CASE i \in 1..Len(pieces)
    <3>1. /\ NumberBold(b, i) <=> NumberBold(pieces, i)
          /\ PhraseBold(b, i) <=> PhraseBold(pieces, i)
          /\ InElement(pieces, i, open[2].nr)
      BY <1>2, <1>9, <2>2, SameOpening, SameBreaks, SameElements
    <3>2. t # <<>>
      BY <1>12, <2>2, <3>1
    <3>3. /\ NumberBold(pieces, i) <=> t[1].kind = "number"
          /\ PhraseBold(pieces, i) <=> /\ t[1].kind # "number"
                                       /\ Block(open) = "ms" \/ Lozenged(pieces)
      BY <2>2, <3>1 DEF BoldSettled, t
    <3> QED
      BY <1>5, <1>8, <3>1, <3>2, <3>3
  <2> QED
    BY <1>4, <2>1, <2>2
<1> QED
  BY <1>1, <1>3, <1>9 DEF BoldSettled, u, b

\* A start tag adds nothing to what the parser has.
LEMMA Rbs10ContentStart ==
  ASSUME Frame, Rbs10Shape, Rbs10Content, NEW e \in Elements, StartTag(e), dict = "rbs10"
  PROVE  Rbs10Content'
<1>1. Rbs10Started(parser, e, parser')
  BY Rbs10ShapeStart
<1>2. pieces' = pieces
  BY DEF StartTag
<1>3. /\ BoldText(pieces, open') = IF e = "strong" THEN <<>> ELSE BoldText(pieces, open)
      /\ e = "strong" \/ e \in Paragraphs => BoldText(pieces, open) = <<>>
  BY BoldStart
<1>4. /\ parser.head = Read(pieces, OfHeadword(pieces))
      /\ parser.boldBuf = BoldText(pieces, open)
      /\ parser.phraseArea <=> Lozenged(pieces)
      /\ parser.phrases = ReadEach(pieces, Complete(pieces, open, "strong", Phrased(pieces)))
      /\ Names(parser.pos, NamedRbs10(pieces))
      /\ BufAhead(parser) = Read(pieces, Run(pieces))
      /\ DefsAhead(parser) = TranslationsOf(pieces, Closed(pieces))
      /\ NumAhead(parser) = NumberAfter(pieces, Len(pieces))
      /\ SawAhead(parser) <=> NumberedBold(pieces)
  BY DEF Rbs10Content
<1>5. Complete(pieces, open', "strong", Phrased(pieces))
        = Complete(pieces, open, "strong", Phrased(pieces))
  <2>1. Phrased(pieces) \subseteq Places(pieces) /\ "strong" \in Parts
    BY DEF Phrased, Parts
  <2> QED
    BY <2>1, CompleteStart
<1>6. /\ parser'.head = parser.head /\ parser'.pos = parser.pos /\ parser'.defs = parser.defs
      /\ parser'.phrases = parser.phrases /\ parser'.defBuf = parser.defBuf
      /\ parser'.num = parser.num /\ parser'.sawDef = parser.sawDef
      /\ parser'.done = parser.done /\ parser'.phraseArea = parser.phraseArea
      /\ parser'.boldBuf = IF e = "strong" THEN <<>> ELSE parser.boldBuf
      /\ parser'.ms = IF e \in Paragraphs THEN e = "ms" ELSE parser.ms
  BY <1>1 DEF Rbs10Started
<1>7. /\ DefsAhead(parser') = DefsAhead(parser) /\ BufAhead(parser') = BufAhead(parser)
      /\ NumAhead(parser') = NumAhead(parser)
      /\ SawAhead(parser') <=> SawAhead(parser)
  <2>1. CASE e = "strong" \/ e \in Paragraphs
    <3>1. parser.boldBuf = <<>> /\ parser'.boldBuf = <<>>
      BY <1>3, <1>4, <1>6, <2>1
    <3> QED
      BY <1>6, <3>1, NotAhead
  <2>2. CASE e # "strong" /\ e \notin Paragraphs
    <3>1. parser'.boldBuf = parser.boldBuf /\ parser'.ms = parser.ms
      BY <1>6, <2>2
    <3>2. /\ IsNumber(parser') <=> IsNumber(parser)
          /\ IsPhrase(parser') <=> IsPhrase(parser)
      BY <1>6, <3>1 DEF IsNumber, IsPhrase
    <3> QED
      BY <1>6, <3>1, <3>2, AheadSame
  <2> QED
    BY <2>1, <2>2
<1>8. parser'.boldBuf = BoldText(pieces, open')
  BY <1>3, <1>4, <1>6
<1> QED
  BY <1>2, <1>4, <1>5, <1>6, <1>7, <1>8 DEF Rbs10Content

\* Bold text that has ended is a phrase of the article, or none.
LEMMA PhraseEnded ==
  ASSUME Frame, Rbs10Shape, Rbs10Content, BoldSettled, dict = "rbs10",
         Inline(open) = "strong", Len(open) = 2
  PROVE  IsPhrase(parser) <=> \E i \in Phrased(pieces) : InElement(pieces, i, open[2].nr)
<1> DEFINE t == BoldText(pieces, open)
           n == open[2].nr
<1>1. /\ parser.boldBuf = t /\ (parser.phraseArea <=> Lozenged(pieces))
  BY DEF Rbs10Content
<1>2. Places(pieces) = 1..Len(pieces) /\ (pieces = <<>> <=> Len(pieces) = 0) /\ Len(pieces) \in Nat
  BY Read0
<1>3. t = <<>> <=> \A i \in Places(pieces) : ~ InElement(pieces, i, n)
  BY TextEmpty DEF BoldText
<1>4. \A i \in Places(pieces) : InElement(pieces, i, n) =>
        (PhraseBold(pieces, i) <=> t[1].kind # "number" /\ (Block(open) = "ms" \/ Lozenged(pieces)))
  BY <1>2 DEF BoldSettled
<1>5. Block(open) \in Paragraphs
  <2>1. Len(open) > 0
    OBVIOUS
  <2>2. Block(open) \in BlockEls /\ Block(open) \in {"none", "p", "ms"}
    BY <2>1, Rbs10Markup, Surroundings DEF Frame
  <2> QED
    BY <2>2 DEF BlockEls, Paragraphs
<1> HIDE DEF t, n
<1>6. /\ parser.ms <=> Block(open) = "ms"
      /\ parser.done <=> pieces # <<>>
  BY <1>5 DEF Rbs10Shape
<1>7. (\E i \in Phrased(pieces) : InElement(pieces, i, n))
        <=> t # <<>> /\ t[1].kind # "number" /\ (Block(open) = "ms" \/ Lozenged(pieces))
  BY <1>3, <1>4 DEF Phrased
<1>8. t # <<>> => parser.done
  <2>1. Len(pieces) = 0 => 1..Len(pieces) = {}
    OBVIOUS
  <2> QED
    BY <1>2, <1>3, <1>6, <2>1
<1>9. IsPhrase(parser) <=> /\ t # <<>> /\ t[1].kind # "number"
                           /\ Block(open) = "ms" \/ Lozenged(pieces)
  BY <1>1, <1>6, <1>8 DEF IsPhrase
<1> QED
  BY <1>7, <1>9 DEF n

\* An end tag adds a phrase, or flushes the translation before a number or phrase.
LEMMA Rbs10ContentEnd ==
  ASSUME Frame, Rbs10Shape, Rbs10Content, BoldSettled, EndTag, dict = "rbs10"
  PROVE  Rbs10Content'
<1> DEFINE e == open[Len(open)].el
           S == Phrased(pieces)
           n == open[2].nr
<1>1. /\ Rbs10Ended(parser, e, parser')
      /\ e = "strong" <=> Inline(open) = "strong" /\ Len(open) = 2
  BY Rbs10ShapeEnd
<1>2. pieces' = pieces
  BY DEF EndTag
<1>3. /\ BoldText(pieces, open') = IF e = "strong" THEN <<>> ELSE BoldText(pieces, open)
      /\ e = "hw" => BoldText(pieces, open) = <<>>
  BY BoldEnd
<1>4. /\ parser.head = Read(pieces, OfHeadword(pieces))
      /\ parser.boldBuf = BoldText(pieces, open)
      /\ parser.phraseArea <=> Lozenged(pieces)
      /\ parser.phrases = ReadEach(pieces, Complete(pieces, open, "strong", S))
      /\ Names(parser.pos, NamedRbs10(pieces))
      /\ BufAhead(parser) = Read(pieces, Run(pieces))
      /\ DefsAhead(parser) = TranslationsOf(pieces, Closed(pieces))
      /\ NumAhead(parser) = NumberAfter(pieces, Len(pieces))
      /\ SawAhead(parser) <=> NumberedBold(pieces)
  BY DEF Rbs10Content
<1>5. /\ ~ (Inline(open) = "strong" /\ Len(open) = 2) =>
            Complete(pieces, open', "strong", S) = Complete(pieces, open, "strong", S)
      /\ Inline(open) = "strong" /\ Len(open) = 2 =>
           /\ (\E i \in S : InElement(pieces, i, n)) =>
                 ReadEach(pieces, Complete(pieces, open', "strong", S))
                   = Append(ReadEach(pieces, Complete(pieces, open, "strong", S)), Text(pieces, n))
           /\ ~ (\E i \in S : InElement(pieces, i, n)) =>
                 Complete(pieces, open', "strong", S) = Complete(pieces, open, "strong", S)
  <2>1. S \subseteq Places(pieces) /\ "strong" \in Parts
    BY DEF Phrased, Parts
  <2> HIDE DEF S
  <2> QED
    BY <2>1, CompleteEnd
<1>6. Inline(open) = "strong" /\ Len(open) = 2 =>
        (IsPhrase(parser) <=> \E i \in S : InElement(pieces, i, n))
  BY PhraseEnded
<1> HIDE DEF e, S
<1>7. /\ parser'.head = parser.head /\ parser'.pos = parser.pos
      /\ parser'.ms = parser.ms /\ parser'.phraseArea = parser.phraseArea
      /\ parser'.done = IF e = "hw" THEN TRUE ELSE parser.done
      /\ parser'.boldBuf = IF e = "strong" THEN <<>> ELSE parser.boldBuf
      /\ parser'.phrases = IF e = "strong" /\ IsPhrase(parser)
                           THEN Append(parser.phrases, parser.boldBuf) ELSE parser.phrases
      /\ parser'.defs = IF e = "strong" THEN DefsAhead(parser) ELSE parser.defs
      /\ parser'.defBuf = IF e = "strong" THEN BufAhead(parser) ELSE parser.defBuf
      /\ parser'.num = IF e = "strong" THEN NumAhead(parser) ELSE parser.num
      /\ parser'.sawDef <=> IF e = "strong" THEN SawAhead(parser) ELSE parser.sawDef
  BY <1>1 DEF Rbs10Ended
<1>8. parser'.phrases = ReadEach(pieces, Complete(pieces, open', "strong", S))
  <2>1. CASE e = "strong" /\ IsPhrase(parser)
    <3>1. parser.boldBuf = Text(pieces, n)
      BY <1>1, <1>4, <2>1 DEF BoldText
    <3> HIDE DEF n
    <3> QED
      BY <1>1, <1>4, <1>5, <1>6, <1>7, <2>1, <3>1
  <2>2. CASE ~ (e = "strong" /\ IsPhrase(parser))
    <3> HIDE DEF n
    <3> QED
      BY <1>1, <1>4, <1>5, <1>6, <1>7, <2>2
  <2> QED
    BY <2>1, <2>2
<1>9. /\ DefsAhead(parser') = DefsAhead(parser) /\ BufAhead(parser') = BufAhead(parser)
      /\ NumAhead(parser') = NumAhead(parser)
      /\ SawAhead(parser') <=> SawAhead(parser)
  <2>1. CASE e = "strong"
    <3>1. parser'.boldBuf = <<>>
      BY <1>7, <2>1
    <3>2. /\ DefsAhead(parser') = parser'.defs /\ BufAhead(parser') = parser'.defBuf
          /\ NumAhead(parser') = parser'.num /\ (SawAhead(parser') <=> parser'.sawDef)
      BY <3>1, NotAhead
    <3> QED
      BY <1>7, <2>1, <3>2
  <2>2. CASE e = "hw"
    <3>1. e # "strong" /\ parser.boldBuf = <<>> /\ parser'.boldBuf = <<>>
      BY <1>3, <1>4, <1>7, <2>2
    <3>2. /\ DefsAhead(parser') = parser'.defs /\ BufAhead(parser') = parser'.defBuf
          /\ NumAhead(parser') = parser'.num /\ (SawAhead(parser') <=> parser'.sawDef)
      BY <3>1, NotAhead
    <3>3. /\ DefsAhead(parser) = parser.defs /\ BufAhead(parser) = parser.defBuf
          /\ NumAhead(parser) = parser.num /\ (SawAhead(parser) <=> parser.sawDef)
      BY <3>1, NotAhead
    <3> QED
      BY <1>7, <3>1, <3>2, <3>3
  <2>3. CASE e # "strong" /\ e # "hw"
    <3>1. /\ parser'.boldBuf = parser.boldBuf /\ parser'.done = parser.done
          /\ parser'.defs = parser.defs /\ parser'.defBuf = parser.defBuf
          /\ parser'.num = parser.num /\ (parser'.sawDef <=> parser.sawDef)
      BY <1>7, <2>3
    <3>2. /\ IsNumber(parser') <=> IsNumber(parser)
          /\ IsPhrase(parser') <=> IsPhrase(parser)
      BY <1>7, <3>1 DEF IsNumber, IsPhrase
    <3> QED
      BY <3>1, <3>2 DEF DefsAhead, BufAhead, NumAhead, SawAhead, WithBuffered, Kept
  <2> QED
    BY <2>1, <2>2, <2>3
<1>10. parser'.boldBuf = BoldText(pieces, open')
  BY <1>3, <1>4, <1>7
<1> QED
  BY <1>2, <1>4, <1>7, <1>8, <1>9, <1>10 DEF Rbs10Content, S

\* What the parser will have, once the bold text has ended, of an article.
Foreseen(p, a) ==
  /\ BufAhead(p) = Read(a, Run(a))
  /\ DefsAhead(p) = TranslationsOf(a, Closed(a))
  /\ NumAhead(p) = NumberAfter(a, Len(a))
  /\ SawAhead(p) <=> NumberedBold(a)

\* Bold text.
LEMMA Rbs10Bold ==
  ASSUME Frame, Rbs10Shape, Rbs10Content, NEW kind \in Texts, Data(kind), dict = "rbs10",
         Inline(open) = "strong"
  PROVE  Foreseen(parser', pieces')
<1> DEFINE b == pieces'
           m == Len(pieces) + 1
           d == [kind |-> kind, at |-> m]
           to == Rbs10To(parser, d)
           x == [kind |-> kind, within |-> {open[k] : k \in 1..Len(open)}]
           t == BoldText(pieces, open)
           u == BoldText(b, open)
           q == parser'
<1>1. Fed(x)
  BY TextRead
<1> HIDE DEF x
<1>2. Grown(Texted, pieces, x, b) /\ m = Len(pieces) + 1 /\ Len(b) = m
  <2>1. Grown(Texted, pieces, x, b)
    BY <1>1 DEF Fed
  <2>2. Len(b) = Len(pieces) + 1
    BY <2>1, GrownAt
  <2> QED
    BY <2>1, <2>2
<1>3. /\ u = Append(t, Piece(b, m)) /\ u # <<>>
      /\ u[1] = IF t = <<>> THEN Piece(b, m) ELSE t[1]
      /\ Opening(b, m) = u[1].at
      /\ NumberBold(b, m) <=> u[1].kind = "number"
      /\ PhraseBold(b, m) <=> u[1].kind # "number" /\ (Block(open) = "ms" \/ Lozenged(pieces))
  BY BoldRead
<1>4. ~ Free(b, m) /\ ~ Lozenge(b, m)
  BY Rbs10Says
<1>5. d = Piece(b, m)
  <2>1. x.kind = kind
    BY DEF x
  <2>2. b[m].kind = x.kind
    BY <1>1, TextSays
  <2> QED
    BY <2>1, <2>2 DEF Piece
<1>6. /\ parser.boldBuf = t /\ (parser.phraseArea <=> Lozenged(pieces))
      /\ BufAhead(parser) = Read(pieces, Run(pieces))
      /\ DefsAhead(parser) = TranslationsOf(pieces, Closed(pieces))
      /\ NumAhead(parser) = NumberAfter(pieces, Len(pieces))
      /\ SawAhead(parser) <=> NumberedBold(pieces)
  BY DEF Rbs10Content
<1>7. parser.done /\ (parser.ms <=> Block(open) = "ms")
  <2>1. pieces # <<>>
    BY TextRead
  <2>2. Block(open) \in Paragraphs
    <3>1. Len(open) > 0
      BY TextRead
    <3>2. Block(open) \in BlockEls /\ Block(open) \in {"none", "p", "ms"}
      BY <3>1, Rbs10Markup, Surroundings DEF Frame
    <3> QED
      BY <3>2 DEF BlockEls, Paragraphs
  <2> QED
    BY <2>1, <2>2 DEF Rbs10Shape
<1>8. Rbs10Read(parser, d, to, q) /\ to = "bold"
  <2>1. parser.in = {"strong"}
    BY DEF Rbs10Shape, FlagsOf
  <2>2. to = "bold"
    BY <2>1 DEF Rbs10To
  <2> QED
    BY <2>2, Rbs10ShapeData
<1> HIDE DEF b, m, d, to, t, u, q
<1>9. /\ q.num = parser.num /\ q.sawDef = parser.sawDef /\ q.done = parser.done
      /\ q.ms = parser.ms /\ q.boldBuf = u /\ q.phraseArea = parser.phraseArea
      /\ q.defs = parser.defs /\ q.defBuf = parser.defBuf
  BY <1>3, <1>5, <1>6, <1>8 DEF Rbs10Read
<1>10. /\ IsNumber(q) <=> NumberBold(b, m)
       /\ IsPhrase(q) <=> PhraseBold(b, m)
  BY <1>3, <1>6, <1>7, <1>9 DEF IsNumber, IsPhrase
<1>11. Breaks(b, m) <=> IsNumber(q) \/ IsPhrase(q)
  BY <1>4, <1>10 DEF Breaks
<1>12. /\ IsNumber(q) => NumberAfter(b, m) = u[1].at
       /\ IsPhrase(q) => NumberAfter(b, m) = None
       /\ ~ IsNumber(q) /\ ~ IsPhrase(q) => NumberAfter(b, m) = NumberAfter(pieces, Len(pieces))
       /\ NumberedBold(b) <=> NumberedBold(pieces) \/ IsNumber(q)
  <2>1. /\ NumberBold(b, m) => NumberAfter(b, m) = Opening(b, m)
        /\ PhraseBold(b, m) => NumberAfter(b, m) = None
        /\ ~ NumberBold(b, m) /\ ~ PhraseBold(b, m) =>
             NumberAfter(b, m) = NumberAfter(pieces, Len(pieces))
        /\ NumberedBold(b) <=> NumberedBold(pieces) \/ NumberBold(b, m)
    BY <1>2, NumberRead
  <2> QED
    BY <1>3, <1>10, <2>1
<1>13. /\ Breaks(b, m) => /\ Read(b, Run(b)) = <<>>
                          /\ TranslationsOf(b, Closed(b)) = Translations(pieces)
       /\ ~ Breaks(b, m) => /\ Read(b, Run(b)) = Read(pieces, Run(pieces))
                            /\ TranslationsOf(b, Closed(b)) = TranslationsOf(pieces, Closed(pieces))
  BY <1>2, <1>4, BreakRead, OtherRead
<1>14. CASE t = <<>>
  <2>1. /\ BufAhead(parser) = parser.defBuf /\ DefsAhead(parser) = parser.defs
        /\ NumAhead(parser) = parser.num /\ (SawAhead(parser) <=> parser.sawDef)
    BY <1>6, <1>14, NotAhead
  <2>2. Translations(pieces) = WithBuffered(parser)
    <3>1. Translations(pieces)
            = IF parser.defBuf # <<>> /\ (parser.num # None \/ ~ parser.sawDef)
              THEN Append(parser.defs, Definition(parser.num, parser.defBuf)) ELSE parser.defs
      BY <1>6, <2>1, Buffered
    <3> QED
      BY <3>1 DEF WithBuffered, Kept
  <2>3. WithBuffered(q) = WithBuffered(parser)
    BY <1>9 DEF WithBuffered, Kept
  <2>4. /\ DefsAhead(q) = IF Breaks(b, m) THEN Translations(pieces) ELSE parser.defs
        /\ BufAhead(q) = IF Breaks(b, m) THEN <<>> ELSE parser.defBuf
    BY <1>9, <1>11, <2>2, <2>3 DEF DefsAhead, BufAhead
  <2>5. /\ NumAhead(q) = IF IsNumber(q) THEN u[1].at ELSE IF IsPhrase(q) THEN None ELSE parser.num
        /\ SawAhead(q) <=> parser.sawDef \/ IsNumber(q)
    BY <1>9 DEF NumAhead, SawAhead
  <2>6. NumAhead(q) = NumberAfter(b, m)
    BY <1>6, <1>12, <2>1, <2>5
  <2> QED
    BY <1>2, <1>6, <1>12, <1>13, <2>1, <2>4, <2>5, <2>6 DEF Foreseen, b, q
<1>15. CASE t # <<>>
  <2>1. /\ IsNumber(q) <=> IsNumber(parser)
        /\ IsPhrase(q) <=> IsPhrase(parser)
        /\ q.boldBuf[1] = parser.boldBuf[1]
    BY <1>3, <1>6, <1>9, <1>15 DEF IsNumber, IsPhrase
  <2>2. /\ DefsAhead(q) = DefsAhead(parser) /\ BufAhead(q) = BufAhead(parser)
        /\ NumAhead(q) = NumAhead(parser) /\ (SawAhead(q) <=> SawAhead(parser))
    BY <1>9, <2>1, AheadSame
  <2>3. Breaks(b, m) => BufAhead(parser) = <<>>
    BY <1>11, <2>1 DEF BufAhead
  <2>4. Breaks(b, m) => Translations(pieces) = DefsAhead(parser)
    <3>1. Translations(pieces)
            = IF BufAhead(parser) # <<>> /\ (NumAhead(parser) # None \/ ~ SawAhead(parser))
              THEN Append(DefsAhead(parser), Definition(NumAhead(parser), BufAhead(parser)))
              ELSE DefsAhead(parser)
      BY <1>6, Buffered
    <3> QED
      BY <2>3, <3>1
  <2>5. NumAhead(parser) = NumberAfter(b, m)
    <3>1. NumAhead(parser) = IF IsNumber(q) THEN u[1].at ELSE IF IsPhrase(q) THEN None
                             ELSE parser.num
      BY <1>9, <2>1 DEF NumAhead
    <3>2. ~ IsNumber(q) /\ ~ IsPhrase(q) => NumAhead(parser) = NumberAfter(pieces, Len(pieces))
      BY <1>6
    <3> QED
      BY <1>12, <3>1, <3>2
  <2>6. SawAhead(parser) <=> NumberedBold(b)
    BY <1>6, <1>12, <2>1 DEF SawAhead
  <2> QED
    BY <1>2, <1>6, <1>13, <2>2, <2>3, <2>4, <2>5, <2>6 DEF Foreseen, b, q
<1> QED
  BY <1>14, <1>15

\* Where a text goes that is not bold.
LEMMA Rbs10Goes ==
  ASSUME Frame, Rbs10Shape, Rbs10Content, NEW kind \in Texts, Data(kind), dict = "rbs10",
         Inline(open) # "strong"
  PROVE  LET b == pieces'
             m == Len(pieces) + 1
             to == Rbs10To(parser, [kind |-> kind, at |-> m])
             in == Inline(open)
         IN  /\ to = "head" <=> in = "hw"
             /\ to # "bold"
             /\ to = "pos" <=> in \in Abbrs /\ ~ NumberedBold(pieces) /\ ~ Lozenged(pieces)
             /\ to = "lozenge" <=> Lozenge(b, m)
             /\ to = "translation" <=> Free(b, m)
<1> DEFINE b == pieces'
           m == Len(pieces) + 1
           d == [kind |-> kind, at |-> m]
           to == Rbs10To(parser, d)
           in == Inline(open)
<1>1. /\ Lozenge(b, m) <=> kind = "lozenge"
      /\ kind = "lozenge" => in = "none"
      /\ Free(b, m) <=> in \in {"none", "accent"} /\ kind # "lozenge"
  BY Rbs10Says
<1>2. in \in {"none", "hw", "abbr", "label", "accent"}
  BY Rbs10Markup
<1>3. parser.in = FlagsOf(in) /\ (parser.done <=> pieces # <<>> /\ in # "hw")
  BY DEF Rbs10Shape
<1>4. in # "hw" => parser.done
  BY <1>3, TextRead
<1>5. parser.boldBuf = <<>>
  BY DEF Rbs10Content, BoldText
<1>6. (parser.sawDef <=> NumberedBold(pieces)) /\ (parser.phraseArea <=> Lozenged(pieces))
  <2>1. SawAhead(parser) <=> parser.sawDef
    BY <1>5, NotAhead
  <2> QED
    BY <2>1 DEF Rbs10Content
<1>7. /\ "hw" \in parser.in <=> in = "hw"
      /\ "strong" \notin parser.in
      /\ "v-abbr" \in parser.in <=> in \in Abbrs
  BY <1>2, <1>3 DEF FlagsOf, Abbrs
<1>8. d.kind = kind
  OBVIOUS
<1> HIDE DEF b, m, d, in
<1> QED
  BY <1>1, <1>2, <1>4, <1>6, <1>7, <1>8 DEF Rbs10To, Abbrs, b, m, d, in

\* Text that is not bold.
LEMMA Rbs10Plain ==
  ASSUME Frame, Rbs10Shape, Rbs10Content, NEW kind \in Texts, Data(kind), dict = "rbs10",
         Inline(open) # "strong"
  PROVE  Foreseen(parser', pieces')
<1> DEFINE b == pieces'
           m == Len(pieces) + 1
           d == [kind |-> kind, at |-> m]
           to == Rbs10To(parser, d)
           x == [kind |-> kind, within |-> {open[k] : k \in 1..Len(open)}]
           q == parser'
<1>1. Fed(x)
  BY TextRead
<1> HIDE DEF x
<1>2. Grown(Texted, pieces, x, b) /\ m = Len(pieces) + 1 /\ Len(b) = m
  <2>1. Grown(Texted, pieces, x, b)
    BY <1>1 DEF Fed
  <2>2. Len(b) = Len(pieces) + 1
    BY <2>1, GrownAt
  <2> QED
    BY <2>1, <2>2
<1>3. d = Piece(b, m)
  <2>1. x.kind = kind
    BY DEF x
  <2>2. b[m].kind = x.kind
    BY <1>1, TextSays
  <2> QED
    BY <2>1, <2>2 DEF Piece
<1>4. ~ NumberBold(b, m) /\ ~ PhraseBold(b, m)
  BY Rbs10Says
<1>5. /\ to = "lozenge" <=> Lozenge(b, m)
      /\ to = "translation" <=> Free(b, m)
      /\ to # "bold"
  BY Rbs10Goes
<1>6. /\ parser.boldBuf = <<>>
      /\ BufAhead(parser) = Read(pieces, Run(pieces))
      /\ DefsAhead(parser) = TranslationsOf(pieces, Closed(pieces))
      /\ NumAhead(parser) = NumberAfter(pieces, Len(pieces))
      /\ SawAhead(parser) <=> NumberedBold(pieces)
  BY DEF Rbs10Content, BoldText
<1>7. /\ parser.defBuf = Read(pieces, Run(pieces))
      /\ parser.defs = TranslationsOf(pieces, Closed(pieces))
      /\ parser.num = NumberAfter(pieces, Len(pieces))
      /\ parser.sawDef <=> NumberedBold(pieces)
  BY <1>6, NotAhead
<1>8. Rbs10Read(parser, d, to, q)
  BY Rbs10ShapeData
<1> HIDE DEF b, m, d, to, q
<1>9. /\ q.num = parser.num /\ q.sawDef = parser.sawDef /\ q.boldBuf = <<>>
      /\ q.defs = IF to = "lozenge" THEN WithBuffered(parser) ELSE parser.defs
      /\ q.defBuf = IF to = "lozenge" THEN <<>>
                    ELSE IF to = "translation" THEN Append(parser.defBuf, d) ELSE parser.defBuf
  BY <1>5, <1>6, <1>8 DEF Rbs10Read
<1>10. /\ DefsAhead(q) = q.defs /\ BufAhead(q) = q.defBuf /\ NumAhead(q) = q.num
       /\ SawAhead(q) <=> q.sawDef
  BY <1>9, NotAhead
<1>11. /\ NumberAfter(b, m) = NumberAfter(pieces, Len(pieces))
       /\ NumberedBold(b) <=> NumberedBold(pieces)
  BY <1>2, <1>4, NumberRead
<1>12. Breaks(b, m) <=> to = "lozenge"
  BY <1>4, <1>5 DEF Breaks
<1>13. q.defBuf = Read(b, Run(b)) /\ q.defs = TranslationsOf(b, Closed(b))
  <2>1. CASE to = "lozenge"
    <3>1. Translations(pieces)
            = IF parser.defBuf # <<>> /\ (parser.num # None \/ ~ parser.sawDef)
              THEN Append(parser.defs, Definition(parser.num, parser.defBuf)) ELSE parser.defs
      BY <1>7, Buffered
    <3>2. Translations(pieces) = WithBuffered(parser)
      BY <3>1 DEF WithBuffered, Kept
    <3>3. /\ Read(b, Run(b)) = <<>>
          /\ TranslationsOf(b, Closed(b)) = Translations(pieces)
      BY <1>2, <1>12, <2>1, BreakRead
    <3> QED
      BY <1>9, <2>1, <3>2, <3>3
  <2>2. CASE to = "translation"
    <3>1. /\ Read(b, Run(b)) = Append(Read(pieces, Run(pieces)), Piece(b, m))
          /\ TranslationsOf(b, Closed(b)) = TranslationsOf(pieces, Closed(pieces))
      BY <1>2, <1>5, <2>2, FreeRead
    <3> QED
      BY <1>3, <1>7, <1>9, <2>2, <3>1
  <2>3. CASE to # "lozenge" /\ to # "translation"
    <3>1. /\ Read(b, Run(b)) = Read(pieces, Run(pieces))
          /\ TranslationsOf(b, Closed(b)) = TranslationsOf(pieces, Closed(pieces))
      BY <1>2, <1>5, <1>12, <2>3, OtherRead
    <3> QED
      BY <1>7, <1>9, <2>3, <3>1
  <2> QED
    BY <2>1, <2>2, <2>3
<1> QED
  BY <1>2, <1>7, <1>9, <1>10, <1>11, <1>13 DEF Foreseen, b, q

\* A text is added where the article has it.
LEMMA Rbs10ContentData ==
  ASSUME Frame, Rbs10Shape, Rbs10Content, NEW kind \in Texts, Data(kind), dict = "rbs10"
  PROVE  Rbs10Content'
<1> DEFINE b == pieces'
           m == Len(pieces) + 1
           d == [kind |-> kind, at |-> m]
           to == Rbs10To(parser, d)
           x == [kind |-> kind, within |-> {open[k] : k \in 1..Len(open)}]
           in == Inline(open)
           q == parser'
<1>1. Fed(x) /\ open' = open
  BY TextRead
<1>18. x.kind = kind
  OBVIOUS
<1> HIDE DEF x
<1>2. /\ Grown(Texted, pieces, x, b) /\ m = Len(pieces) + 1 /\ Len(pieces) \in Nat
      /\ Places(b) = Places(pieces) \cup {m} /\ Places(pieces) = 1..Len(pieces)
  <2>1. Grown(Texted, pieces, x, b)
    BY <1>1 DEF Fed
  <2> QED
    BY <2>1, GrownAt, Read0
<1>3. d = Piece(b, m) /\ d.at = m
  <2>2. b[m].kind = x.kind
    BY <1>1, TextSays
  <2> QED
    BY <1>18, <2>2 DEF Piece
<1>4. /\ Lozenge(b, m) <=> kind = "lozenge"
      /\ kind = "lozenge" => in = "none"
      /\ NamesRbs10(b, m) <=> in = "abbr" /\ ~ NumberedBold(pieces) /\ ~ Lozenged(pieces)
  BY Rbs10Says
<1>5. /\ to = "head" <=> in = "hw"
      /\ to = "bold" <=> in = "strong"
      /\ to = "pos" <=> in \in Abbrs /\ ~ NumberedBold(pieces) /\ ~ Lozenged(pieces)
      /\ to = "lozenge" <=> Lozenge(b, m)
  <2>1. CASE in = "strong"
    <3>1. parser.in = {"strong"}
      BY <2>1 DEF Rbs10Shape, FlagsOf
    <3>2. to = "bold"
      BY <3>1 DEF Rbs10To
    <3> HIDE DEF to
    <3> QED
      BY <1>4, <2>1, <3>2 DEF Abbrs
  <2>2. CASE in # "strong"
    BY <2>2, Rbs10Goes
  <2> QED
    BY <2>1, <2>2
<1>6. Foreseen(q, b)
  BY Rbs10Bold, Rbs10Plain
<1>7. Rbs10Read(parser, d, to, q)
  BY Rbs10ShapeData
<1>8. /\ parser.head = Read(pieces, OfHeadword(pieces))
      /\ parser.boldBuf = BoldText(pieces, open)
      /\ parser.phraseArea <=> Lozenged(pieces)
      /\ parser.phrases = ReadEach(pieces, Complete(pieces, open, "strong", Phrased(pieces)))
      /\ Names(parser.pos, NamedRbs10(pieces))
  BY DEF Rbs10Content
<1>9. in \in Abbrs => parser.title = in
  BY DEF Rbs10Shape
<1>10. /\ in = "hw" =>
            Read(b, OfHeadword(b)) = Append(Read(pieces, OfHeadword(pieces)), Piece(b, m))
       /\ in # "hw" => Read(b, OfHeadword(b)) = Read(pieces, OfHeadword(pieces))
  BY <1>1, HeadwordRead
<1>11. Lozenged(b) <=> Lozenged(pieces) \/ Lozenge(b, m)
  BY <1>2, NumberRead
<1>12. BoldText(b, open) = IF in = "strong" THEN Append(BoldText(pieces, open), Piece(b, m))
                           ELSE BoldText(pieces, open)
  <2>1. CASE in = "strong"
    BY <2>1, BoldRead
  <2>2. CASE in # "strong"
    BY <2>2 DEF BoldText
  <2> QED
    BY <2>1, <2>2
<1> HIDE DEF b, m, d, to, in, q
<1>13. /\ q.head = IF to = "head" THEN Append(parser.head, d) ELSE parser.head
       /\ q.boldBuf = IF to = "bold" THEN Append(parser.boldBuf, d) ELSE parser.boldBuf
       /\ q.pos = IF to = "pos" THEN Append(parser.pos, [title |-> parser.title, at |-> d.at])
                  ELSE parser.pos
       /\ q.phraseArea = IF to = "lozenge" THEN TRUE ELSE parser.phraseArea
       /\ q.phrases = parser.phrases
  BY <1>7 DEF Rbs10Read
<1>14. /\ q.head = Read(b, OfHeadword(b))
       /\ q.boldBuf = BoldText(b, open)
       /\ q.phraseArea <=> Lozenged(b)
  BY <1>3, <1>5, <1>8, <1>10, <1>11, <1>12, <1>13
<1>15. q.phrases = ReadEach(b, Complete(b, open, "strong", Phrased(b)))
  <2> DEFINE S == Phrased(pieces)
             N == Complete(pieces, open, "strong", S)
  <2>1. S \subseteq Places(pieces) /\ "strong" \in Parts
    BY DEF Phrased, Parts
  <2>2. \A i \in Places(pieces) : PhraseBold(b, i) <=> PhraseBold(pieces, i)
    BY <1>2, SameBreaks
  <2>3. Phrased(b) = S \/ Phrased(b) = S \cup {Len(pieces) + 1}
    BY <1>2, <2>2 DEF Phrased
  <2> HIDE DEF S
  <2>4. /\ Complete(b, open, "strong", S) = N
        /\ Complete(b, open, "strong", S \cup {Len(pieces) + 1}) = N
        /\ ReadEach(b, N) = ReadEach(pieces, N)
    BY <1>1, <2>1, CompleteRead DEF b
  <2>5. Complete(b, open, "strong", Phrased(b)) = N
    BY <2>3, <2>4
  <2>6. q.phrases = ReadEach(pieces, N)
    BY <1>8, <1>13 DEF S
  <2> QED
    BY <2>4, <2>5, <2>6
<1>16. Names(q.pos, NamedRbs10(b))
  <2> DEFINE S == NamedRbs10(pieces)
             c == [title |-> parser.title, at |-> d.at]
  <2>1. S \subseteq 1..Len(pieces)
    BY <1>2 DEF NamedRbs10
  <2>2. \A i \in 1..Len(pieces) : NamesRbs10(b, i) <=> NamesRbs10(pieces, i)
    BY <1>2, SameNamed
  <2>4. NamedRbs10(b) = IF NamesRbs10(b, m) THEN S \cup {m} ELSE S
    BY <1>2, <2>2 DEF NamedRbs10
  <2>7. Names(parser.pos, S)
    BY <1>8
  <2> HIDE DEF S
  <2>5. CASE to = "pos"
    <3>1. in \in Abbrs /\ parser.title = in /\ ~ NumberedBold(pieces) /\ ~ Lozenged(pieces)
      BY <1>5, <1>9, <2>5
    <3>2. c \in Candidates /\ c.at = m /\ c.title = in
      BY <1>2, <1>3, <3>1 DEF Candidates
    <3>3. q.pos = Append(parser.pos, c)
      BY <1>13, <2>5
    <3> HIDE DEF c
    <3>4. /\ c.title = "abbr" => Names(Append(parser.pos, c), S \cup {m})
          /\ c.title # "abbr" => Names(Append(parser.pos, c), S)
      BY <1>2, <2>1, <2>7, <3>2, NamesMore
    <3> QED
      BY <1>4, <2>4, <3>1, <3>2, <3>3, <3>4
  <2>6. CASE to # "pos"
    <3>1. ~ NamesRbs10(b, m)
      BY <1>4, <1>5, <2>6 DEF Abbrs
    <3> QED
      BY <1>13, <2>4, <2>6, <2>7, <3>1
  <2> QED
    BY <2>5, <2>6
<1> QED
  BY <1>1, <1>6, <1>14, <1>15, <1>16 DEF Rbs10Content, Foreseen, b, q

-----------------------------------------------------------------------------

\* What _Rbs10Parser has at every moment.
Rbs10 == Rbs10Shape /\ Rbs10Content /\ (dict = "rbs10" => BoldSettled)

\* A new _Rbs10Parser has read nothing.
LEMMA Rbs10Init == Init => Rbs10
<1> SUFFICES ASSUME Init, dict = "rbs10" PROVE Rbs10Shape /\ Rbs10Content /\ BoldSettled
  BY DEF Rbs10, Rbs10Shape, Rbs10Content
<1>1. /\ parser = NewRbs10 /\ open = <<>> /\ pieces = <<>>
      /\ Len(open) = 0 /\ Len(pieces) = 0 /\ Places(pieces) = {}
  BY EmptySeq DEF Init, New, Places
<1>2. Block(open) = "none" /\ Inline(open) = "none"
  BY <1>1 DEF Block, Inline
<1>3. DOMAIN parser = Rbs10Fields
  BY <1>1 DEF NewRbs10, Rbs10Fields
<1>4. Rbs10Shape
  BY <1>1, <1>2, <1>3 DEF Rbs10Shape, NewRbs10, FlagsOf, Abbrs, Paragraphs
<1>5. /\ OfHeadword(pieces) = {} /\ Phrased(pieces) = {} /\ NamedRbs10(pieces) = {}
      /\ Run(pieces) = {} /\ Closed(pieces) = {}
      /\ ~ Lozenged(pieces) /\ ~ NumberedBold(pieces)
  BY <1>1 DEF OfHeadword, Phrased, NamedRbs10, Run, Closed, Starting, Lozenged, NumberedBold
<1>6. NumberAfter(pieces, Len(pieces)) = None
  <2>1. InForce(pieces, 0) = {}
    BY DEF InForce
  <2> QED
    BY <1>1, <2>1 DEF NumberAfter
<1>7. TranslationsOf(pieces, {}) = <<>>
  <2>1. Cardinality({}) = 0
    BY FS_EmptySet
  <2>2. 1..0 = {}
    OBVIOUS
  <2> QED
    BY <2>1, <2>2 DEF TranslationsOf
<1>8. Complete(pieces, open, "strong", {}) = {}
  BY DEF Complete, Holding
<1>9. Names(<<>>, {})
  BY EmptySeq DEF Names, Naming
<1>10. /\ parser.head = <<>> /\ parser.boldBuf = <<>> /\ ~ parser.phraseArea
       /\ parser.phrases = <<>> /\ parser.pos = <<>> /\ parser.defBuf = <<>>
       /\ parser.defs = <<>> /\ parser.num = None /\ ~ parser.sawDef
  BY <1>1 DEF NewRbs10
<1>11. /\ DefsAhead(parser) = <<>> /\ BufAhead(parser) = <<>> /\ NumAhead(parser) = None
       /\ ~ SawAhead(parser)
  BY <1>10, NotAhead
<1>12. BoldText(pieces, open) = <<>>
  BY <1>2 DEF BoldText
<1>13. Rbs10Content
  BY <1>5, <1>6, <1>7, <1>8, <1>9, <1>10, <1>11, <1>12, Nothing DEF Rbs10Content
<1>14. BoldSettled
  BY <1>2 DEF BoldSettled
<1> QED
  BY <1>4, <1>13, <1>14

\* Each of its handlers keeps that.
LEMMA Rbs10Step ==
  ASSUME Frame, Rbs10, [Next]_vars
  PROVE  Rbs10'
<1> SUFFICES ASSUME dict' = "rbs10" PROVE Rbs10Shape' /\ Rbs10Content' /\ BoldSettled'
  BY DEF Rbs10, Rbs10Shape, Rbs10Content
<1>1. dict = "rbs10"
  BY DEF Next, StartTag, Data, EndTag, Finalize, vars
<1>2. Rbs10Shape /\ Rbs10Content /\ BoldSettled
  BY <1>1 DEF Rbs10
<1>3. ASSUME NEW e \in Elements, StartTag(e) PROVE Rbs10Shape' /\ Rbs10Content' /\ BoldSettled'
  BY <1>1, <1>2, <1>3, Rbs10ShapeStart, Rbs10ContentStart, BoldSettledStart
<1>4. ASSUME NEW k \in Texts, Data(k) PROVE Rbs10Shape' /\ Rbs10Content' /\ BoldSettled'
  BY <1>1, <1>2, <1>4, Rbs10ShapeData, Rbs10ContentData, BoldSettledData
<1>5. ASSUME EndTag PROVE Rbs10Shape' /\ Rbs10Content' /\ BoldSettled'
  BY <1>1, <1>2, <1>5, Rbs10ShapeEnd, Rbs10ContentEnd, BoldSettledEnd
<1>6. ASSUME Finalize \/ UNCHANGED vars PROVE Rbs10Shape' /\ Rbs10Content' /\ BoldSettled'
  <2>1. UNCHANGED <<dict, parser, open, tags, pieces>>
    BY <1>6 DEF Finalize, vars
  <2> QED
    BY <1>2, <2>1 DEF Rbs10Shape, Rbs10Content, BoldSettled
<1> QED
  BY <1>3, <1>4, <1>5, <1>6 DEF Next

-----------------------------------------------------------------------------
(* The card.                                                               *)

\* All pieces of an article.
Whole(a) == [i \in DOMAIN a |-> Piece(a, i)]

\* The n-th of consecutive numbers.
LEMMA NthConsecutive ==
  ASSUME NEW f \in Nat, NEW l \in Nat, NEW n \in Nat, n # 0, f + n - 1 \in f..l
  PROVE  Nth(f..l, n) = f + n - 1
<1>1. \A y \in f..l : {z \in f..l : z <= y} = f..y
  OBVIOUS
<1>2. \A y \in f..l : Cardinality(f..y) = y - f + 1
  <2> SUFFICES ASSUME NEW y \in f..l PROVE Cardinality(f..y) = y - f + 1
    OBVIOUS
  <2>1. y \in Int /\ f \in Int /\ ~ (f > y)
    OBVIOUS
  <2>2. Cardinality(f..y) = IF f > y THEN 0 ELSE y - f + 1
    BY <2>1, FS_Interval
  <2> QED
    BY <2>1, <2>2
<1>3. \A y \in f..l : Cardinality({z \in f..l : z <= y}) = n <=> y = f + n - 1
  <2> SUFFICES ASSUME NEW y \in f..l
               PROVE  Cardinality({z \in f..l : z <= y}) = n <=> y = f + n - 1
    OBVIOUS
  <2>1. Cardinality({z \in f..l : z <= y}) = y - f + 1
    BY <1>1, <1>2
  <2> QED
    BY <2>1
<1> DEFINE c == f + n - 1
<1>4. {y \in f..l : Cardinality({z \in f..l : z <= y}) = n} = {c}
  BY <1>3
<1> QED
  BY <1>4 DEF Nth

\* The whole article, with and without its first piece.
LEMMA WholeRead ==
  ASSUME NEW a, NEW l \in Nat, DOMAIN a = 1..l, l # 0
  PROVE  /\ Whole(a) = Read(a, Places(a))
         /\ Tail(Whole(a)) = Read(a, Places(a) \ {1})
<1>1. Cardinality(1..l) = l
  <2>1. 1 \in Int /\ l \in Int /\ ~ (1 > l)
    OBVIOUS
  <2>2. Cardinality(1..l) = IF 1 > l THEN 0 ELSE l - 1 + 1
    BY <2>1, FS_Interval
  <2> QED
    BY <2>1, <2>2
<1>2. Cardinality(2..l) = l - 1
  <2>1. 2 \in Int /\ l \in Int
    OBVIOUS
  <2>2. Cardinality(2..l) = IF 2 > l THEN 0 ELSE l - 2 + 1
    BY <2>1, FS_Interval
  <2> QED
    BY <2>1, <2>2
<1>3. \A k \in 1..l : Nth(1..l, k) = k
  <2> SUFFICES ASSUME NEW k \in 1..l PROVE Nth(1..l, k) = k
    OBVIOUS
  <2>1. k \in Nat /\ k # 0 /\ 1 \in Nat /\ 1 + k - 1 \in 1..l /\ 1 + k - 1 = k
    OBVIOUS
  <2>2. Nth(1..l, k) = 1 + k - 1
    BY <2>1, NthConsecutive
  <2> QED
    BY <2>1, <2>2
<1>4. \A k \in 1..(l - 1) : Nth(2..l, k) = k + 1
  <2> SUFFICES ASSUME NEW k \in 1..(l - 1) PROVE Nth(2..l, k) = k + 1
    OBVIOUS
  <2>1. k \in Nat /\ k # 0 /\ 2 \in Nat /\ 2 + k - 1 \in 2..l /\ 2 + k - 1 = k + 1
    OBVIOUS
  <2>2. Nth(2..l, k) = 2 + k - 1
    BY <2>1, NthConsecutive
  <2> QED
    BY <2>1, <2>2
<1>5. Whole(a) = Read(a, 1..l)
  BY <1>1, <1>3 DEF Whole, Read
<1>6. Read(a, 2..l) = [k \in 1..(l - 1) |-> Piece(a, k + 1)]
  BY <1>2, <1>4 DEF Read
<1>7. Tail(Whole(a)) = [k \in 1..(l - 1) |-> Piece(a, k + 1)]
  <2> DEFINE P(i) == Piece(a, i)
             w == [i \in 1..l |-> P(i)]
  <2>1. Whole(a) = w
    BY DEF Whole
  <2> HIDE DEF P
  <2>2. Len(w) = l
    OBVIOUS
  <2> DEFINE T == {P(i) : i \in 1..l}
  <2>3. w \in Seq(T)
    OBVIOUS
  <2>4. \A k \in 1..(l - 1) : w[k + 1] = P(k + 1)
    OBVIOUS
  <2> HIDE DEF w, T
  <2>6. w # <<>>
    BY <2>2, EmptySeq
  <2>7. /\ Tail(w) \in Seq(T) /\ Len(Tail(w)) = Len(w) - 1
        /\ \A k \in 1..Len(Tail(w)) : Tail(w)[k] = w[k + 1]
    BY <2>3, <2>6, HeadTailProperties
  <2> DEFINE v == Tail(w)
  <2>8. v = [k \in 1..Len(v) |-> v[k]]
    <3> HIDE DEF v
    <3>1. v \in Seq(T)
      BY <2>7 DEF v
    <3> QED
      BY <3>1
  <2>5. Tail(w) = [k \in 1..(l - 1) |-> P(k + 1)]
    BY <2>2, <2>4, <2>7, <2>8
  <2> QED
    BY <2>1, <2>5 DEF P
<1>8. Places(a) = 1..l /\ Places(a) \ {1} = 2..l
  BY DEF Places
<1> QED
  BY <1>5, <1>6, <1>7, <1>8

\* _build_card leaves out a headword that is one piece without an accent mark
\* inside, and shows the rest if there is no definition.
LEMMA CardBuilt ==
  ASSUME Frame, pieces # <<>>, NEW mark, NEW defs, NEW phrases, NEW pos
  PROVE  BuildCard(Read(pieces, OfHeadword(pieces)), mark, defs, phrases, pos, Whole(pieces))
           = [phrases |-> phrases, pos |-> pos, defs |-> OrWhole(pieces, mark, defs)]
<1> DEFINE H == OfHeadword(pieces)
           l == Len(pieces)
           head == Read(pieces, H)
           all == Whole(pieces)
           begins == Len(head) = 1 /\ head[1] = all[1] /\ mark # "inside"
           plain == IF ~ begins THEN all
                    ELSE IF mark = "last" THEN <<Mark>> \o Tail(all) ELSE Tail(all)
           others == Read(pieces, Places(pieces) \ H)
<1>1. l \in Nat /\ l # 0 /\ Places(pieces) = 1..l /\ DOMAIN pieces = 1..l /\ 1 \in 1..l
  <2>1. l \in Nat /\ l # 0 /\ Places(pieces) = 1..l
    BY Read0
  <2> QED
    BY <2>1 DEF Places
<1>2. H \subseteq 1..l /\ 1 \in H /\ H # {}
  BY <1>1 DEF OfHeadword, Frame, Beginning
<1>3. /\ all = Read(pieces, Places(pieces)) /\ Tail(all) = Read(pieces, Places(pieces) \ {1})
      /\ all[1] = Piece(pieces, 1)
  <2>1. all = Read(pieces, Places(pieces)) /\ Tail(all) = Read(pieces, Places(pieces) \ {1})
    BY <1>1, WholeRead
  <2> QED
    BY <1>1, <2>1 DEF Whole
<1>4. Len(head) = Cardinality(H) /\ Cardinality(H) \in Nat /\ head[1] = Piece(pieces, 1)
  <2> DEFINE g == Nth(H, 1)
  <2> HIDE DEF H
  <2>1. /\ Len(head) = Cardinality(H) /\ Cardinality(H) \in Nat
        /\ head[1] = Piece(pieces, g) /\ g \in H /\ \A i \in H : g <= i
    BY <1>1, <1>2, ReadLength
  <2> HIDE DEF g
  <2>2. g = 1
    BY <1>1, <1>2, <2>1
  <2> QED
    BY <2>1, <2>2
<1>5. IsFiniteSet(H)
  <2> HIDE DEF H
  <2> QED
    BY <1>1, <1>2, NthIn
<1>6. Cardinality(H) = 1 <=> H = {1}
  <2>1. Cardinality(H) = 1 <=> \E y : H = {y}
    BY <1>5, FS_Singleton
  <2>2. \A y : H = {y} => y = 1
    BY <1>2
  <2> QED
    BY <2>1, <2>2
<1>7. Cardinality(H) # 0
  BY <1>2, <1>5, FS_EmptySet
<1>8. Rest(pieces, mark) = IF Cardinality(H) > 1 \/ mark = "inside"
                            THEN Read(pieces, Places(pieces))
                            ELSE IF mark = "last" THEN <<Mark>> \o others ELSE others
  BY DEF Rest, OfHeadword
<1> HIDE DEF H, head, all
<1>9. plain = Rest(pieces, mark)
  <2>1. CASE Cardinality(H) = 1
    <3>1. ~ (Cardinality(H) > 1)
      BY <2>1
    <3>2. begins <=> mark # "inside"
      BY <1>3, <1>4, <2>1
    <3>3. others = Tail(all)
      BY <1>3, <1>6, <2>1
    <3> HIDE DEF others, begins
    <3> QED
      BY <1>3, <1>8, <3>1, <3>2, <3>3
  <2>2. CASE Cardinality(H) # 1
    <3>1. Cardinality(H) > 1
      BY <1>4, <1>7, <2>2
    <3>2. plain = all
      BY <1>4, <2>2
    <3> QED
      BY <1>3, <1>8, <3>1, <3>2
  <2> QED
    BY <2>1, <2>2
<1>10. BuildCard(head, mark, defs, phrases, pos, all)
         = [phrases |-> phrases, pos |-> pos,
            defs |-> IF defs # <<>> \/ plain = <<>> THEN defs ELSE <<Definition(None, plain)>>]
  BY DEF BuildCard
<1> HIDE DEF plain
<1>11. BuildCard(head, mark, defs, phrases, pos, all)
         = [phrases |-> phrases, pos |-> pos, defs |-> OrWhole(pieces, mark, defs)]
  BY <1>9, <1>10 DEF OrWhole
<1> QED
  BY <1>11 DEF head, H, all

\* When no element is open, none is left to be completed.
LEMMA AllComplete ==
  ASSUME NEW a, NEW el, el # "none", NEW S
  PROVE  Complete(a, <<>>, el, S) = Holding(a, el, S)
BY EmptySeq DEF Complete, Pending, Inline

\* When no element is open, the definitions are those of the article.
LEMMA DefinitionsComplete ==
  ASSUME NEW a
  PROVE  Definitions(a, <<>>) = Meanings(a)
<1>1. \A d : SoFar(a, <<>>, d) = Meaning(a, d)
  <2> SUFFICES ASSUME NEW d PROVE SoFar(a, <<>>, d) = Meaning(a, d)
    OBVIOUS
  <2> DEFINE part == {i \in Places(a) : PartOf(a, i, d)}
             T == {i \in Places(a) : PartOf(a, i, d) /\ Body(a, i)}
             S == {i \in Places(a) : PartOf(a, i, d) /\ Shown(a, i)}
  <2>1. {i \in part : Body(a, i)} = T /\ {i \in part : Shown(a, i)} = S
    OBVIOUS
  <2> HIDE DEF T, S
  <2>2. Complete(a, <<>>, "v-ex", S) = Holding(a, "v-ex", S)
    BY AllComplete
  <2>3. SoFar(a, <<>>, d) = [number |-> IF Numbers(a, d) THEN d ELSE None, text |-> Read(a, T),
                             examples |-> ReadEach(a, Complete(a, <<>>, "v-ex", S))]
    BY DEF SoFar, T, S
  <2>4. Meaning(a, d) = [number |-> IF Numbers(a, d) THEN d ELSE None, text |-> Read(a, T),
                         examples |-> ReadEach(a, Holding(a, "v-ex", S))]
    BY <2>1 DEF Meaning
  <2> QED
    BY <2>2, <2>3, <2>4
<1> QED
  BY <1>1 DEF Definitions, Meanings

\* The card that parse_article builds is the card of the article.
LEMMA CardRead ==
  ASSUME Frame, KlyshkaInv, Explanatory, Rbs10, Finalize
  PROVE  (MeaningsAsWritten /\ TranslationsAsWritten /\ SynonymsAsWritten)'
<1> DEFINE all == [i \in DOMAIN pieces |-> [kind |-> pieces[i].kind, at |-> i]]
<1>1. open = <<>> /\ pieces' = pieces /\ dict' = dict
  BY DEF Finalize
<1> DEFINE mark == accent'
<1>9. card' = Card(mark, all)
  BY DEF Finalize
<1> HIDE DEF mark
<1>2. pieces # <<>>
  BY DEF Finalize, Frame, Beginning
<1>3. all = Whole(pieces)
  BY DEF Whole, Piece
<1> HIDE DEF all
<1>4. \A defs, phrases, pos :
        LET c == BuildCard(Read(pieces, OfHeadword(pieces)), mark, defs, phrases, pos, all)
        IN  c.defs = OrWhole(pieces, mark, defs) /\ c.phrases = phrases /\ c.pos = pos
  <2> TAKE defs, phrases, pos
  <2>1. BuildCard(Read(pieces, OfHeadword(pieces)), mark, defs, phrases, pos, all)
          = [phrases |-> phrases, pos |-> pos, defs |-> OrWhole(pieces, mark, defs)]
    BY <1>2, <1>3, CardBuilt
  <2> QED
    BY <2>1
<1>5. Inline(open) = "none"
  BY <1>1, EmptySeq DEF Inline
<1>6. MeaningsAsWritten'
  <2> SUFFICES ASSUME dict = "explanatory"
               PROVE  /\ card'.defs = OrWhole(pieces, mark, Meanings(pieces))
                      /\ card'.phrases = ReadEach(pieces, Holding(pieces, "phr",
                                           {i \in DOMAIN pieces : Shown(pieces, i)}))
                      /\ card'.pos = FirstOf({i \in DOMAIN pieces : NamesExplanatory(pieces, i)})
    BY <1>1 DEF MeaningsAsWritten, mark
  <2>1. /\ parser.head = Read(pieces, OfHeadword(pieces))
        /\ parser.defs = Definitions(pieces, <<>>)
        /\ parser.phrases = ReadEach(pieces, Complete(pieces, <<>>, "phr", ShownPlaces(pieces)))
        /\ Names(parser.pos, NamedExplanatory(pieces))
    BY <1>1 DEF Explanatory, Content
  <2>2. card' = BuildCard(parser.head, mark, parser.defs, parser.phrases,
                          PartOfSpeech(parser), all)
    BY <1>9 DEF Card, ExplanatoryCard
  <2>3. /\ card'.defs = OrWhole(pieces, mark, parser.defs) /\ card'.phrases = parser.phrases
        /\ card'.pos = PartOfSpeech(parser)
    BY <1>4, <2>1, <2>2
  <2>4. parser.defs = Meanings(pieces)
    BY <2>1, DefinitionsComplete
  <2>5. parser.phrases = ReadEach(pieces, Holding(pieces, "phr", ShownPlaces(pieces)))
    <3>1. Complete(pieces, <<>>, "phr", ShownPlaces(pieces))
            = Holding(pieces, "phr", ShownPlaces(pieces))
      BY AllComplete
    <3> QED
      BY <2>1, <3>1
  <2>6. PartOfSpeech(parser) = FirstOf(NamedExplanatory(pieces))
    BY <2>1, NamesPart
  <2> QED
    BY <2>3, <2>4, <2>5, <2>6 DEF ShownPlaces, NamedExplanatory, Places
<1>7. TranslationsAsWritten'
  <2> SUFFICES ASSUME dict = "rbs10"
               PROVE  /\ card'.defs = OrWhole(pieces, mark, Translations(pieces))
                      /\ card'.phrases = ReadEach(pieces, Holding(pieces, "strong",
                                           {i \in DOMAIN pieces : PhraseBold(pieces, i)}))
                      /\ card'.pos = FirstOf({i \in DOMAIN pieces : NamesRbs10(pieces, i)})
    BY <1>1 DEF TranslationsAsWritten, mark
  <2>1. /\ parser.head = Read(pieces, OfHeadword(pieces))
        /\ parser.boldBuf = <<>>
        /\ parser.phrases = ReadEach(pieces, Complete(pieces, <<>>, "strong", Phrased(pieces)))
        /\ Names(parser.pos, NamedRbs10(pieces))
        /\ BufAhead(parser) = Read(pieces, Run(pieces))
        /\ DefsAhead(parser) = TranslationsOf(pieces, Closed(pieces))
        /\ NumAhead(parser) = NumberAfter(pieces, Len(pieces))
        /\ SawAhead(parser) <=> NumberedBold(pieces)
        /\ DOMAIN parser = Rbs10Fields
    BY <1>1, <1>5 DEF Rbs10, Rbs10Shape, Rbs10Content, BoldText
  <2>2. card' = BuildCard(parser.head, mark, FlushDef(parser).defs, parser.phrases,
                          PartOfSpeech(parser), all)
    BY <1>9 DEF Card, Rbs10Card
  <2>3. FlushDef(parser).defs = Translations(pieces)
    <3>1. FlushDef(parser).defs = WithBuffered(parser)
      BY <2>1, FlushFields DEF FlushedFields
    <3>2. /\ DefsAhead(parser) = parser.defs /\ BufAhead(parser) = parser.defBuf
          /\ NumAhead(parser) = parser.num /\ (SawAhead(parser) <=> parser.sawDef)
      BY <2>1, NotAhead
    <3>3. Translations(pieces)
            = IF parser.defBuf # <<>> /\ (parser.num # None \/ ~ parser.sawDef)
              THEN Append(parser.defs, Definition(parser.num, parser.defBuf)) ELSE parser.defs
      BY <2>1, <3>2, Buffered
    <3> QED
      BY <3>1, <3>3 DEF WithBuffered, Kept
  <2>4. /\ card'.defs = OrWhole(pieces, mark, Translations(pieces)) /\ card'.phrases = parser.phrases
        /\ card'.pos = PartOfSpeech(parser)
    BY <1>4, <2>1, <2>2, <2>3
  <2>5. parser.phrases = ReadEach(pieces, Holding(pieces, "strong", Phrased(pieces)))
    <3>1. Complete(pieces, <<>>, "strong", Phrased(pieces))
            = Holding(pieces, "strong", Phrased(pieces))
      BY AllComplete
    <3> QED
      BY <2>1, <3>1
  <2>6. PartOfSpeech(parser) = FirstOf(NamedRbs10(pieces))
    BY <2>1, NamesPart
  <2> QED
    BY <2>4, <2>5, <2>6 DEF Phrased, NamedRbs10, Places
<1>8. SynonymsAsWritten'
  <2> DEFINE rest == Read(pieces, NotOfHeadword(pieces))
             defs == IF rest = <<>> THEN <<>> ELSE <<Definition(None, rest)>>
  <2> SUFFICES ASSUME dict = "klyshka" PROVE card'.defs = OrWhole(pieces, mark, defs)
    BY <1>1 DEF SynonymsAsWritten, NotOfHeadword, Places, mark
  <2>1. parser.head = Read(pieces, OfHeadword(pieces)) /\ parser.body = rest
    BY DEF KlyshkaInv
  <2>2. card' = BuildCard(parser.head, mark, defs, <<>>, None, all)
    BY <1>9, <2>1 DEF Card, KlyshkaCard
  <2> HIDE DEF defs
  <2> QED
    BY <1>4, <2>1, <2>2
<1> QED
  BY <1>6, <1>7, <1>8

-----------------------------------------------------------------------------
(* The theorems.                                                           *)

\* What a parser has at every moment, it has of the pieces read so far.
ArticleInv ==
  Frame /\ Explanatory /\ Rbs10 /\ KlyshkaInv /\ CardAsWritten /\ accent \in Accents

\* The invariant holds in every state in which any article has been fed to its
\* parser, up to any bound: html.parser may call the handlers in any order that
\* the markup allows.
THEOREM ArticleInvariance == Spec => []ArticleInv
<1>1. Init => ArticleInv
  <2>1. Init => CardAsWritten /\ accent \in Accents
    BY DEF Init, CardAsWritten, Accents
  <2> QED
    BY <2>1, InitFrame, ExplanatoryInit, Rbs10Init, KlyshkaInit DEF ArticleInv
<1>2. ArticleInv /\ [Next]_vars => ArticleInv'
  <2> SUFFICES ASSUME ArticleInv, [Next]_vars PROVE ArticleInv'
    OBVIOUS
  <2>1. Frame /\ Explanatory /\ Rbs10 /\ KlyshkaInv /\ CardAsWritten /\ accent \in Accents
    BY DEF ArticleInv
  <2>2. Frame'
    <3>1. ASSUME UNCHANGED vars PROVE Frame'
      BY <2>1, <3>1 DEF vars, Frame, Nesting, Marked, Beginning, Bounds
    <3> QED
      BY <2>1, <3>1, StartFrame, DataFrame, EndFrame, FinalizeFrame DEF Next
  <2>3. Explanatory' /\ Rbs10' /\ KlyshkaInv'
    BY <2>1, ExplanatoryStep, Rbs10Step, KlyshkaStep
  <2>4. CardAsWritten'
    <3>1. ASSUME NEW e \in Elements, StartTag(e) PROVE CardAsWritten'
      BY <3>1 DEF StartTag, CardAsWritten
    <3>2. ASSUME NEW k \in Texts, Data(k) PROVE CardAsWritten'
      BY <3>2 DEF Data, CardAsWritten
    <3>3. ASSUME EndTag PROVE CardAsWritten'
      BY <3>3 DEF EndTag, CardAsWritten
    <3>4. ASSUME Finalize PROVE CardAsWritten'
      BY <2>1, <3>4, CardRead DEF CardAsWritten
    <3>5. ASSUME UNCHANGED vars PROVE CardAsWritten'
      BY <2>1, <3>5
      DEF vars, CardAsWritten, MeaningsAsWritten, TranslationsAsWritten, SynonymsAsWritten
    <3> QED
      BY <3>1, <3>2, <3>3, <3>4, <3>5 DEF Next
  <2>5. accent' \in Accents
    <3>1. UNCHANGED accent \/ Finalize
      BY DEF Next, vars, StartTag, Data, EndTag
    <3> QED
      BY <2>1, <3>1 DEF Finalize
  <2> QED
    BY <2>2, <2>3, <2>4, <2>5 DEF ArticleInv
<1> QED
  BY <1>1, <1>2, PTL DEF Spec

\* The card that parse_article returns has what the rules of its dictionary take
\* from the article, and nothing else, for every article of the markup of MayOpen
\* and MayHold.  What the rules leave out is said at MeaningsAsWritten (with the
\* separator go the words before it in its piece) and at TranslationsAsWritten
\* (translations of phrases are left out after a number only; the text of the
\* first paragraph is a translation); whether the headword is shown where there is
\* no definition depends on its accent mark (Rest).  Within the rules no flag of a
\* parser is left set too long or cleared too early, and no buffer loses, splits
\* or repeats a text.
THEOREM CardsAreAsWritten == Spec => []CardAsWritten
<1>1. ArticleInv => CardAsWritten
  BY DEF ArticleInv
<1> QED
  BY <1>1, ArticleInvariance, PTL

\* The state of the article and of its parser is well formed: the counters of
\* paragraphs and tables are 0 or 1, and no flag is left when all elements are closed.
THEOREM TypeCorrect == Spec => []TypeOK
<1>1. ArticleInv => TypeOK
  <2> SUFFICES ASSUME ArticleInv PROVE TypeOK
    OBVIOUS
  <2>1. Frame /\ Explanatory /\ Rbs10 /\ KlyshkaInv /\ accent \in Accents
    BY DEF ArticleInv
  <2>2. dict \in Dictionaries /\ dict \in {"explanatory", "rbs10", "klyshka"}
    BY <2>1, Markup DEF Frame, Nesting
  <2>3. tags \in 0..MaxTags /\ Len(pieces) \in 0..MaxPieces
    <3>1. tags \in Nat /\ tags <= MaxTags /\ Len(pieces) <= MaxPieces
      BY <2>1 DEF Frame, Nesting, Bounds
    <3>2. Len(pieces) \in Nat /\ MaxTags \in Nat /\ MaxPieces \in Nat
      BY <2>1, Read0, ArticleAssumption
    <3> QED
      BY <3>1, <3>2
  <2>4. \A i \in DOMAIN pieces : pieces[i].kind \in Texts
    <3>1. DOMAIN pieces = 1..Len(pieces)
      BY <2>1, Read0 DEF Places
    <3> QED
      BY <2>1, <3>1 DEF Frame, Bounds
  <2>5. open = <<>> => Inline(open) = "none" /\ Len(open) = 0
    BY EmptySeq DEF Inline
  <2>6. CASE dict = "explanatory"
    <3>1. /\ parser.in \subseteq Single \cup {"v-abbr"}
          /\ \A f \in Single : f \in parser.in <=> Inline(open) = f
          /\ "v-abbr" \in parser.in => \E k \in 2..Len(open) : open[k].el \in Abbrs
          /\ parser.tables = IF Block(open) = "table" THEN 1 ELSE 0
          /\ parser.depth = IF Block(open) \in Paragraphs THEN 1 ELSE 0
      BY <2>1, <2>6 DEF Explanatory, Shape
    <3>2. open = <<>> => parser.in = {}
      <4> SUFFICES ASSUME open = <<>> PROVE parser.in = {}
        OBVIOUS
      <4>1. 2..Len(open) = {}
        BY <2>5
      <4>2. "v-abbr" \notin parser.in
        BY <3>1, <4>1
      <4>3. \A f \in Single : f \notin parser.in
        BY <2>5, <3>1 DEF Single
      <4> QED
        BY <3>1, <4>2, <4>3
    <3>3. parser.in \subseteq {"hw", "alt", "phr", "strong", "v-ex", "v-abbr"}
      BY <3>1 DEF Single
    <3>4. parser.depth \in 0..1 /\ parser.tables \in 0..1
      BY <3>1
    <3> QED
      BY <2>1, <2>2, <2>3, <2>4, <3>2, <3>3, <3>4 DEF TypeOK
  <2>7. CASE dict = "rbs10"
    <3>1. parser.in = FlagsOf(Inline(open))
      BY <2>1, <2>7 DEF Rbs10, Rbs10Shape
    <3>2. parser.in \subseteq {"hw", "alt", "phr", "strong", "v-ex", "v-abbr"}
      BY <3>1 DEF FlagsOf
    <3>3. open = <<>> => parser.in = {}
      BY <2>5, <3>1 DEF FlagsOf, Abbrs
    <3> QED
      BY <2>1, <2>2, <2>3, <2>4, <2>7, <3>2, <3>3 DEF TypeOK
  <2>8. CASE dict = "klyshka"
    <3>1. parser.in = IF Inline(open) = "hw" THEN {"hw"} ELSE {}
      BY <2>1, <2>8 DEF KlyshkaInv
    <3> QED
      BY <2>1, <2>2, <2>3, <2>4, <2>5, <2>8, <3>1 DEF TypeOK
  <2> QED
    BY <2>2, <2>6, <2>7, <2>8
<1> QED
  BY <1>1, ArticleInvariance, PTL
=============================================================================
