----------------------------- MODULE Json5Proofs -----------------------------
(***************************************************************************)
(* Proofs about Json5: on a text of any length prep overwrites bytes with   *)
(* blanks and nothing else, never gets far beyond its end, advances with    *)
(* every turn, and blanks exactly the comments and the trailing commas.     *)
(***************************************************************************)
EXTENDS Json5, SequenceTheorems, FiniteSetTheorems, WellFoundedInduction, TLAPS

(* Only the loop that follows a comma is entered three bytes past the end,  *)
(* from a block comment that ends in a star.                                *)
InnerInv == loop \notin {"comma", "done"} => i =< Len(text) + 2

PrepInv == TypeOK /\ InnerInv

-----------------------------------------------------------------------------
(* Overwriting changes no length.                                           *)
LEMMA SameLength ==
    ASSUME TypeOK
    PROVE  /\ Len(text) \in Nat /\ DOMAIN text = 1..Len(text)
           /\ Len(s) = Len(text) /\ DOMAIN s = 1..Len(text)
<1>1. Len(text) \in Nat /\ DOMAIN text = 1..Len(text)
  BY DEF TypeOK
<1>2. s \in [1..Len(text) -> Bytes]
  BY <1>1 DEF TypeOK
<1>3. s \in Seq(Bytes) /\ Len(s) = Len(text)
  BY <1>1, <1>2
<1> QED
  BY <1>1, <1>2, <1>3

(* What is overwritten are bytes of the text.                               *)
LEMMA OverwriteBlanks ==
    ASSUME TypeOK, text' = text, NEW K, Overwrite(K) \/ s' = s
    PROVE  /\ s' \in [DOMAIN text' -> Bytes]
           /\ \A k \in DOMAIN text' : s'[k] \in {text'[k], Blank}
<1>1. DOMAIN s = DOMAIN text
  BY DEF TypeOK
<1>2. Blank \in Bytes
  BY DEF Bytes
<1> QED
  BY <1>1, <1>2 DEF TypeOK, Overwrite

(* Every turn of a loop stays within its bounds.                            *)
LEMMA PrepStep == PrepInv /\ [Next]_vars => PrepInv'
<1> SUFFICES ASSUME PrepInv, [Next]_vars PROVE PrepInv'
  OBVIOUS
<1> DEFINE n == Len(text)
<1>1. TypeOK /\ n \in Nat /\ Len(s) = n
  BY SameLength DEF PrepInv
<1>2. /\ i \in 1..(n + 3) /\ j \in 0..n
      /\ loop \in {"top", "string", "comma", "line", "block", "done"}
      /\ loop \notin {"comma", "done"} => i =< n + 2
  BY DEF PrepInv, TypeOK, InnerInv
<1> DEFINE Bounds(l, k) ==
      /\ k \in 1..(n + 3) /\ l \in {"top", "string", "comma", "line", "block", "done"}
      /\ l \notin {"comma", "done"} => k =< n + 2
<1>3. ASSUME Bounds(loop', i'), j' \in 0..n, text' = text,
             s' = s \/ \E K : Overwrite(K)
      PROVE  PrepInv'
  <2>1. /\ s' \in [DOMAIN text' -> Bytes]
        /\ \A k \in DOMAIN text' : s'[k] \in {text'[k], Blank}
    BY <1>1, <1>3, OverwriteBlanks
  <2>2. text' \in Seq(Bytes) /\ Len(text') =< MaxLen
    BY <1>1, <1>3 DEF TypeOK
  <2> QED
    BY <1>3, <2>1, <2>2 DEF PrepInv, TypeOK, InnerInv
<1>4. ASSUME NEW k \in 1..(n + 2), Return(k) PROVE Bounds(loop', i')
  BY <1>1, <1>4 DEF Return, Goto
<1>5. ASSUME More PROVE i \in 1..n
  BY <1>1, <1>2, <1>5 DEF More
<1>6. ASSUME Slash, i \in 1..n
      PROVE  Bounds(loop', i') /\ (s' = s \/ \E K : Overwrite(K))
  <2>1. CASE i < Len(s) /\ s[i + 1] \in {"/", "*"}
    BY <1>1, <1>6, <2>1 DEF Slash, Goto
  <2>2. CASE ~(i < Len(s) /\ s[i + 1] \in {"/", "*"})
    <3>1. Return(i + 1) /\ s' = s /\ i + 1 \in 1..(n + 2)
      BY <1>1, <1>6, <2>2 DEF Slash
    <3> QED
      BY <1>4, <3>1
  <2> QED
    BY <2>1, <2>2
<1>7. CASE TopOther \/ TopComma \/ StringByte
  <2>1. i \in 1..n
    BY <1>5, <1>7 DEF TopOther, TopComma, StringByte, AtByte
  <2>2. /\ loop' \in {"top", "string", "comma"} /\ i' \in {i + 1, i + 2}
        /\ j' \in {i, j} /\ text' = text /\ s' = s
    BY <1>7 DEF TopOther, TopComma, StringByte, Goto
  <2>3. Bounds(loop', i') /\ j' \in 0..n
    BY <1>1, <1>2, <2>1, <2>2
  <2> QED
    BY <1>3, <2>2, <2>3
<1>8. CASE TopSlash
  <2>1. i \in 1..n /\ Slash /\ j' = j /\ text' = text
    BY <1>5, <1>8 DEF TopSlash, AtByte
  <2> QED
    BY <1>2, <1>3, <1>6, <2>1
<1>9. CASE CommaByte
  <2>1. i \in 1..n /\ text' = text
    BY <1>5, <1>9 DEF CommaByte
  <2>2. CASE Slash /\ j' = j
    BY <1>2, <1>3, <1>6, <2>1, <2>2
  <2>3. CASE ~(Slash /\ j' = j)
    <3>1. /\ loop' \in {"top", "comma"} /\ i' \in {i, i + 1} /\ j' \in {0, j}
          /\ s' = s \/ Overwrite({j})
      BY <1>9, <2>3 DEF CommaByte, Goto
    <3>2. Bounds(loop', i') /\ j' \in 0..n
      BY <1>1, <1>2, <2>1, <3>1
    <3> QED
      BY <1>3, <2>1, <3>1, <3>2
  <2> QED
    BY <2>2, <2>3
<1>10. CASE LineComment
  <2>1. text' = text /\ j' = j /\ i \in 1..(n + 2)
    BY <1>1, <1>2, <1>10 DEF LineComment
  <2>2. Bounds(loop', i') /\ (s' = s \/ \E K : Overwrite(K))
    <3>1. CASE More /\ ~isNL(s[i])
      BY <1>1, <1>5, <1>10, <3>1 DEF LineComment, Goto
    <3>2. CASE ~(More /\ ~isNL(s[i]))
      BY <1>4, <1>10, <2>1, <3>2 DEF LineComment
    <3> QED
      BY <3>1, <3>2
  <2> QED
    BY <1>2, <1>3, <2>1, <2>2
<1>11. CASE BlockByte
  <2>1. text' = text /\ j' = j /\ i \in 1..(n + 2)
    BY <1>1, <1>2, <1>11 DEF BlockByte
  <2>2. Bounds(loop', i') /\ (s' = s \/ \E K : Overwrite(K))
    <3>1. CASE More /\ s[i] # "*"
      BY <1>1, <1>5, <1>11, <3>1 DEF BlockByte, Goto
    <3>2. CASE ~(More /\ s[i] # "*")
      BY <1>4, <1>11, <2>1, <3>2 DEF BlockByte
    <3> QED
      BY <3>1, <3>2
  <2> QED
    BY <1>2, <1>3, <2>1, <2>2
<1>12. CASE BlockStar
  <2>1. text' = text /\ j' = j /\ i \in 1..n
    BY <1>5, <1>12 DEF BlockStar, AtByte
  <2>2. Bounds(loop', i') /\ \E K : Overwrite(K)
    <3>1. CASE i < Len(s) /\ s[i + 1] = "/"
      <4>1. Return(i + 1) /\ i + 1 \in 1..(n + 2) /\ Overwrite({i, i + 1})
        BY <1>1, <1>12, <2>1, <3>1 DEF BlockStar
      <4> QED
        BY <1>4, <4>1
    <3>2. CASE ~(i < Len(s) /\ s[i + 1] = "/")
      BY <1>1, <1>12, <2>1, <3>2 DEF BlockStar, Goto
    <3> QED
      BY <3>1, <3>2
  <2> QED
    BY <1>2, <1>3, <2>1, <2>2
<1>13. CASE End \/ UNCHANGED vars
  <2>1. Bounds(loop', i') /\ j' \in 0..n /\ text' = text /\ s' = s
    BY <1>1, <1>2, <1>13 DEF End, Goto, vars
  <2> QED
    BY <1>3, <2>1
<1> QED
  BY <1>7, <1>8, <1>9, <1>10, <1>11, <1>12, <1>13 DEF Next

(* On every text, however long and whatever its quotes, slashes and stars,  *)
(* prep replaces bytes by blanks and nothing else, keeps the length, and    *)
(* looks at no byte beyond the end (json5.go 21-88).                        *)
THEOREM PrepTypeCorrect == Spec => []TypeOK
<1>1. Init => PrepInv
  <2> SUFFICES ASSUME Init PROVE PrepInv
    OBVIOUS
  <2>1. PICK n \in 0..MaxLen : text \in [1..n -> Bytes]
    BY DEF Init
  <2>2. text \in Seq(Bytes) /\ Len(text) = n /\ DOMAIN text = 1..n /\ n \in Nat
    BY <2>1
  <2> QED
    BY <2>1, <2>2, MaxLenAssumption DEF Init, PrepInv, TypeOK, InnerInv
<1>2. PrepInv => TypeOK
  BY DEF PrepInv
<1> QED
  BY <1>1, <1>2, PrepStep, PTL DEF Spec

-----------------------------------------------------------------------------
(* A set of natural numbers has a least element. *)
LEMMA LeastElement ==
    ASSUME NEW K \in SUBSET Nat, K # {}
    PROVE  \E k \in K : \A l \in K : k <= l
<1> DEFINE R == {p \in Nat \X Nat : p[1] < p[2]}
<1>1. IsWellFoundedOn(R, Nat)
  <2>1. R = OpToRel(<, Nat)
    BY DEF OpToRel
  <2> QED
    BY <2>1, NatLessThanWellFounded, Zenon
<1>2. \E k \in K : \A l \in K : ~(<<l, k>> \in R)
  <2> HIDE DEF R
  <2> QED
    BY <1>1, WFMin
<1>3. PICK k \in K : \A l \in K : ~(<<l, k>> \in R)
  BY <1>2
<1>4. \A l \in K : k <= l
  <2> SUFFICES ASSUME NEW l \in K, l < k PROVE FALSE
    OBVIOUS
  <2>1. <<l, k>> \in Nat \X Nat /\ <<l, k>>[1] = l /\ <<l, k>>[2] = k
    OBVIOUS
  <2>2. <<l, k>> \in R
    BY <2>1
  <2> QED
    BY <1>3, <2>2
<1> QED
  BY <1>4

(* First is what its name says. *)
LEMMA FirstIsLeast ==
    ASSUME NEW K \in SUBSET Nat, K # {}, NEW o
    PROVE  First(K, o) \in K /\ \A l \in K : First(K, o) <= l
<1>1. \E k \in K : \A l \in K : k <= l
  BY LeastElement
<1> QED
  BY <1>1 DEF First

LEMMA LeastIsFirst ==
    ASSUME NEW K \in SUBSET Nat, NEW k \in K, \A l \in K : k <= l, NEW o
    PROVE  First(K, o) = k
<1>1. First(K, o) \in K /\ First(K, o) <= k
  BY FirstIsLeast
<1>2. k <= First(K, o)
  BY <1>1
<1>3. k \in Nat /\ First(K, o) \in Nat
  BY <1>1
<1> QED
  BY <1>1, <1>2, <1>3

-----------------------------------------------------------------------------
(* The four kinds of tokens. *)
LEMMA StringToken ==
    ASSUME NEW t, NEW n, t[n] = Quote
    PROVE  /\ TokenEnd(t, n) = First({k \in (n + 1)..Len(t) : ClosesString(t, n, k)}, Len(t))
           /\ ~OpensComment(t, n)
BY DEF TokenEnd, OpensComment, Opens, Quote

LEMMA LineToken ==
    ASSUME NEW t, NEW n, Opens(t, n, "/")
    PROVE  TokenEnd(t, n) = First({k \in (n + 1)..Len(t) : isNL(t[k])}, Len(t) + 1) - 1
BY DEF TokenEnd, Opens, Quote

LEMMA BlockToken ==
    ASSUME NEW t, NEW n, Opens(t, n, "*")
    PROVE  TokenEnd(t, n) = First({k \in (n + 1)..Len(t) : ClosesBlock(t, n, k)}, Len(t))
BY DEF TokenEnd, Opens, Quote

LEMMA ByteToken ==
    ASSUME NEW t, NEW n, t[n] # Quote, ~OpensComment(t, n)
    PROVE  TokenEnd(t, n) = n
BY DEF TokenEnd, OpensComment

(* A token ends within the text and not before it begins. *)
LEMMA TokenEndRange ==
    ASSUME NEW t \in Seq(Bytes), NEW n \in 1..Len(t)
    PROVE  TokenEnd(t, n) \in n..Len(t)
<1>1. Len(t) \in Nat
  OBVIOUS
<1>2. ASSUME NEW K \in SUBSET ((n + 1)..Len(t)) PROVE First(K, Len(t)) \in n..Len(t)
  <2>1. CASE K = {}
    BY <1>1, <2>1 DEF First
  <2>2. CASE K # {}
    <3>1. K \in SUBSET Nat
      BY <1>1
    <3>2. First(K, Len(t)) \in (n + 1)..Len(t)
      BY <2>2, <3>1, FirstIsLeast
    <3> QED
      BY <1>1, <3>2
  <2> QED
    BY <2>1, <2>2
<1>3. ASSUME NEW K \in SUBSET ((n + 1)..Len(t)) PROVE First(K, Len(t) + 1) - 1 \in n..Len(t)
  <2>1. CASE K = {}
    BY <1>1, <2>1 DEF First
  <2>2. CASE K # {}
    <3>1. K \in SUBSET Nat
      BY <1>1
    <3>2. First(K, Len(t) + 1) \in (n + 1)..Len(t)
      BY <2>2, <3>1, FirstIsLeast
    <3> QED
      BY <1>1, <3>2
  <2> QED
    BY <2>1, <2>2
<1>4. CASE t[n] = Quote
  BY <1>2, <1>4, StringToken
<1>5. CASE Opens(t, n, "/")
  BY <1>3, <1>5, LineToken
<1>6. CASE Opens(t, n, "*")
  BY <1>2, <1>6, BlockToken
<1>7. CASE t[n] # Quote /\ ~OpensComment(t, n)
  BY <1>1, <1>7, ByteToken
<1> QED
  BY <1>4, <1>5, <1>6, <1>7 DEF OpensComment

LEMMA TokenInText ==
    ASSUME NEW t \in Seq(Bytes), NEW n \in 1..Len(t), NEW k \in n..TokenEnd(t, n)
    PROVE  k \in 1..Len(t)
<1>1. TokenEnd(t, n) \in n..Len(t)
  BY TokenEndRange
<1>2. Len(t) \in Nat
  BY LenProperties
<1> QED
  BY <1>1, <1>2

(* A byte is escaped by an escape before it that is not escaped itself. *)
LEMMA FirstNotEscaped ==
    ASSUME NEW t, NEW n \in Nat
    PROVE  ~Escaped(t, n, n + 1)
<1>1. {m \in (n + 1)..((n + 1) - 1) : \A l \in m..((n + 1) - 1) : t[l] = Escape} = {}
  OBVIOUS
<1>2. Cardinality({}) = 0
  BY FS_EmptySet
<1> QED
  BY <1>1, <1>2 DEF Escaped

LEMMA EscapedStep ==
    ASSUME NEW t, NEW n \in Nat, NEW k \in Nat, n < k
    PROVE  Escaped(t, n, k + 1) <=> t[k] = Escape /\ ~Escaped(t, n, k)
<1> DEFINE Run(x) == {m \in (n + 1)..(x - 1) : \A l \in m..(x - 1) : t[l] = Escape}
<1>1. CASE t[k] # Escape
  <2>1. Run(k + 1) = {}
    <3> SUFFICES ASSUME NEW m \in Run(k + 1) PROVE FALSE
      OBVIOUS
    <3>1. k \in m..((k + 1) - 1)
      OBVIOUS
    <3> QED
      BY <1>1, <3>1
  <2>2. Cardinality({}) = 0
    BY FS_EmptySet
  <2>3. Cardinality(Run(k + 1)) % 2 # 1
    <3>1. Cardinality(Run(k + 1)) = 0
      BY <2>1, <2>2, Zenon
    <3> HIDE DEF Run
    <3> QED
      BY <3>1
  <2> QED
    BY <1>1, <2>3 DEF Escaped
<1>2. CASE t[k] = Escape
  <2>1. Run(k + 1) = Run(k) \cup {k} /\ k \notin Run(k)
    <3>1. (k + 1) - 1 = k
      OBVIOUS
    <3>2. ASSUME NEW m \in (n + 1)..(k - 1)
          PROVE  (\A l \in m..k : t[l] = Escape) <=> (\A l \in m..(k - 1) : t[l] = Escape)
      <4>1. m..k = (m..(k - 1)) \cup {k}
        OBVIOUS
      <4> QED
        BY <1>2, <4>1
    <3>3. \A l \in k..k : t[l] = Escape
      BY <1>2
    <3>4. (n + 1)..k = ((n + 1)..(k - 1)) \cup {k}
      OBVIOUS
    <3>5. k \notin (n + 1)..(k - 1)
      OBVIOUS
    <3> QED
      BY <3>1, <3>2, <3>3, <3>4, <3>5
  <2>2. IsFiniteSet(Run(k)) /\ Cardinality(Run(k)) \in Nat
    <3>1. IsFiniteSet((n + 1)..(k - 1))
      BY FS_Interval
    <3>2. Run(k) \in SUBSET ((n + 1)..(k - 1))
      OBVIOUS
    <3> HIDE DEF Run
    <3> QED
      BY <3>1, <3>2, FS_Subset, FS_CardinalityType
  <2>3. Cardinality(Run(k + 1)) = Cardinality(Run(k)) + 1
    <3> HIDE DEF Run
    <3> QED
      BY <2>1, <2>2, FS_AddElement
  <2>4. (Cardinality(Run(k)) + 1) % 2 = 1 <=> Cardinality(Run(k)) % 2 # 1
    <3> HIDE DEF Run
    <3> QED
      BY <2>2
  <2> QED
    BY <1>2, <2>3, <2>4 DEF Escaped
<1> QED
  BY <1>1, <1>2

-----------------------------------------------------------------------------
(* The tokens of a row do not overlap: what lies in a token is in a comment *)
(* if the token is one, and only its first byte begins a token.             *)
LEMMA TokenCovers ==
    ASSUME NEW t \in Seq(Bytes), NEW B \in SUBSET (1..Len(t)), Row(t, B),
           NEW b \in B, NEW k \in b..TokenEnd(t, b)
    PROVE  /\ k \in B <=> k = b
           /\ Comment(t, B, k) <=> OpensComment(t, b)
<1>1. Len(t) \in Nat /\ b \in Nat
  OBVIOUS
<1>2. \A n \in B : TokenEnd(t, n) \in n..Len(t) /\ n \in Nat
  BY TokenEndRange
<1>3. \A n \in B : \A x \in (n + 1)..TokenEnd(t, n) : x \notin B
  BY DEF Row
<1>4. k \in B <=> k = b
  <2>1. k = b \/ k \in (b + 1)..TokenEnd(t, b)
    BY <1>1, <1>2
  <2> QED
    BY <1>3, <2>1
<1>5. ASSUME NEW n \in B, k \in n..TokenEnd(t, n) PROVE n = b
  <2>1. CASE n < b
    <3>1. b \in (n + 1)..TokenEnd(t, n)
      BY <1>1, <1>2, <1>5, <2>1
    <3> QED
      BY <1>3, <3>1
  <2>2. CASE b < n
    <3>1. n \in (b + 1)..TokenEnd(t, b)
      BY <1>1, <1>2, <1>5, <2>2
    <3> QED
      BY <1>3, <3>1
  <2>3. n \in Nat
    BY <1>2
  <2> QED
    BY <1>1, <2>1, <2>2, <2>3
<1>6. Comment(t, B, k) <=> OpensComment(t, b)
  BY <1>5 DEF Comment
<1> QED
  BY <1>4, <1>6

IsComma(u, k) == u[k] = ","

(* What cleaning makes of a token that is no comma. *)
LEMMA CleanToken ==
    ASSUME NEW t \in Seq(Bytes), NEW B \in SUBSET (1..Len(t)), Row(t, B),
           NEW b \in B, ~IsComma(t, b), NEW k \in b..TokenEnd(t, b)
    PROVE  Clean(t, B)[k] = IF OpensComment(t, b) THEN Blank ELSE t[k]
<1>1. k \in 1..Len(t)
  BY TokenInText
<1>2. DOMAIN t = 1..Len(t)
  BY LenProperties
<1>3. /\ k \in B <=> k = b
      /\ Comment(t, B, k) <=> OpensComment(t, b)
  BY TokenCovers
<1>4. ~Trailing(t, B, k)
  BY <1>3 DEF Trailing, IsComma
<1> QED
  BY <1>1, <1>2, <1>3, <1>4 DEF Clean

(* The tokens of t up to p. *)
RowUpTo(t, B, p) ==
    /\ B \subseteq 1..(p - 1)
    /\ p > 1 => 1 \in B
    /\ \A n \in B :
         /\ TokenEnd(t, n) < p
         /\ TokenEnd(t, n) + 1 \in B \cup {p}
         /\ \A k \in (n + 1)..TokenEnd(t, n) : k \notin B

LEMMA OneMoreToken ==
    ASSUME NEW t \in Seq(Bytes), NEW p \in 1..Len(t), NEW B, RowUpTo(t, B, p)
    PROVE  RowUpTo(t, B \cup {p}, TokenEnd(t, p) + 1)
<1> DEFINE q == TokenEnd(t, p) + 1
<1>1. Len(t) \in Nat /\ p \in Nat /\ p > 0
  BY LenProperties
<1>2. TokenEnd(t, p) \in p..Len(t)
  BY TokenEndRange
<1>3. q \in Nat /\ p < q /\ (q - 1) = TokenEnd(t, p)
  BY <1>1, <1>2
<1>4. B \subseteq 1..(p - 1) /\ p \notin B
  BY <1>1 DEF RowUpTo
<1>5. B \cup {p} \subseteq 1..(q - 1)
  BY <1>1, <1>3, <1>4
<1>6. 1 \in B \cup {p}
  BY <1>1 DEF RowUpTo
<1>7. ASSUME NEW n \in B
      PROVE  /\ TokenEnd(t, n) < q
             /\ TokenEnd(t, n) + 1 \in (B \cup {p}) \cup {q}
             /\ \A k \in (n + 1)..TokenEnd(t, n) : k \notin B \cup {p}
  <2>1. /\ TokenEnd(t, n) < p
        /\ TokenEnd(t, n) + 1 \in B \cup {p}
        /\ \A k \in (n + 1)..TokenEnd(t, n) : k \notin B
    BY DEF RowUpTo
  <2>2. n \in 1..Len(t)
    BY <1>1, <1>4
  <2>3. TokenEnd(t, n) \in n..Len(t)
    BY <2>2, TokenEndRange
  <2>4. TokenEnd(t, n) \in Nat
    BY <1>1, <2>2, <2>3
  <2>5. \A k \in (n + 1)..TokenEnd(t, n) : k # p
    BY <1>1, <2>1, <2>2, <2>4
  <2> QED
    BY <1>1, <1>3, <2>1, <2>4, <2>5
<1>8. /\ TokenEnd(t, p) < q
      /\ \A k \in (p + 1)..TokenEnd(t, p) : k \notin B \cup {p}
  BY <1>1, <1>2, <1>3, <1>4
<1> QED
  BY <1>5, <1>6, <1>7, <1>8 DEF RowUpTo

(* Every text is a row of tokens. *)
LEMMA TextIsRow ==
    ASSUME NEW t \in Seq(Bytes)
    PROVE  \E B \in SUBSET DOMAIN t : Row(t, B)
<1> DEFINE Left(q) == \E B : RowUpTo(t, B, (Len(t) + 1) - q)
           K == {q \in 0..Len(t) : Left(q)}
<1>1. Len(t) \in Nat /\ DOMAIN t = 1..Len(t) /\ (t = <<>> <=> Len(t) = 0)
  BY LenProperties, EmptySeq
<1>2. K \in SUBSET Nat
  BY <1>1
<1>3. K # {}
  <2>1. (Len(t) + 1) - Len(t) = 1
    BY <1>1
  <2>2. RowUpTo(t, {}, 1)
    BY DEF RowUpTo
  <2>3. Len(t) \in K
    BY <1>1, <2>1, <2>2
  <2> QED
    BY <2>3
<1>4. PICK q \in K : \A r \in K : q <= r
  <2> HIDE DEF K
  <2> QED
    BY <1>2, <1>3, LeastElement
<1> DEFINE p == (Len(t) + 1) - q
<1>5. q \in 0..Len(t) /\ p \in 1..(Len(t) + 1)
  BY <1>1
<1>6. PICK B : RowUpTo(t, B, p)
  OBVIOUS
<1>7. p = Len(t) + 1
  <2> SUFFICES ASSUME p # Len(t) + 1 PROVE FALSE
    OBVIOUS
  <2>1. p \in 1..Len(t)
    BY <1>1, <1>5
  <2>2. TokenEnd(t, p) \in p..Len(t)
    BY <2>1, TokenEndRange
  <2> DEFINE r == Len(t) - TokenEnd(t, p)
  <2>3. r \in 0..Len(t) /\ r < q /\ (Len(t) + 1) - r = TokenEnd(t, p) + 1
    BY <1>1, <1>5, <2>1, <2>2
  <2>4. RowUpTo(t, B \cup {p}, TokenEnd(t, p) + 1)
    BY <1>6, <2>1, OneMoreToken
  <2>5. r \in K
    BY <2>3, <2>4
  <2>6. q <= r
    BY <1>4, <2>5
  <2> QED
    BY <1>5, <2>3, <2>6
<1>8. RowUpTo(t, B, Len(t) + 1)
  BY <1>6, <1>7
<1>9. B \subseteq 1..Len(t)
  BY <1>1, <1>8 DEF RowUpTo
<1>10. Row(t, B)
  <2>1. t # <<>> => 1 \in B
    BY <1>1, <1>8 DEF RowUpTo
  <2>2. ASSUME NEW n \in B
        PROVE  TokenEnd(t, n) = Len(t) \/ TokenEnd(t, n) + 1 \in B
    <3>1. TokenEnd(t, n) + 1 \in B \cup {Len(t) + 1}
      BY <1>8 DEF RowUpTo
    <3>2. TokenEnd(t, n) \in n..Len(t) /\ n \in 1..Len(t)
      BY <1>9, TokenEndRange
    <3> QED
      BY <1>1, <3>1, <3>2
  <2> QED
    BY <1>8, <2>1, <2>2 DEF Row, RowUpTo
<1> QED
  BY <1>1, <1>9, <1>10

-----------------------------------------------------------------------------
(* How far a text t that has become u is clean, when c is the comma whose   *)
(* fate is open, or 0: up to a boundary p, where a token begins or the text *)
(* ends, all but the comma is clean, and the comma is followed by comments  *)
(* and white space.                                                         *)
InQuestion(t, B, u, c, p) ==
    /\ c \in B /\ c < p /\ IsComma(t, c) /\ IsComma(u, c)
    /\ \A m \in (c + 1)..(p - 1) : Comment(t, B, m) \/ isWS(t[m])

CleanTo(t, B, u, c, p) ==
    /\ p \in B \/ p = Len(t) + 1
    /\ \A k \in 1..(p - 1) : k # c => u[k] = Clean(t, B)[k]
    /\ c # 0 => InQuestion(t, B, u, c, p)

(* A token that is no comma has been passed over or overwritten. *)
LEMMA PassToken ==
    ASSUME NEW t \in Seq(Bytes), NEW B \in SUBSET (1..Len(t)), Row(t, B),
           NEW b \in B, ~IsComma(t, b), NEW u, NEW v, NEW c \in 0..Len(t),
           CleanTo(t, B, u, c, b),
           c # 0 => OpensComment(t, b) \/ isWS(t[b]),
           \A k \in 1..(b - 1) : v[k] = u[k],
           \A k \in b..TokenEnd(t, b) : v[k] = IF OpensComment(t, b) THEN Blank ELSE t[k]
    PROVE  CleanTo(t, B, v, c, TokenEnd(t, b) + 1)
<1> DEFINE e == TokenEnd(t, b)
<1>1. b \in 1..Len(t) /\ Len(t) \in Nat
  BY LenProperties
<1>2. e \in b..Len(t)
  BY TokenEndRange
<1>3. e \in Nat /\ b \in Nat /\ b > 0 /\ b <= e /\ e <= Len(t)
  BY <1>1, <1>2
<1>4. e + 1 \in B \/ e + 1 = Len(t) + 1
  <2>1. e = Len(t) \/ e + 1 \in B
    BY DEF Row
  <2> QED
    BY <2>1
<1>5. ASSUME NEW k \in 1..((e + 1) - 1), k # c PROVE v[k] = Clean(t, B)[k]
  <2>1. k \in 1..(b - 1) \/ k \in b..e
    BY <1>3
  <2>2. CASE k \in 1..(b - 1)
    BY <1>5, <2>2 DEF CleanTo
  <2>3. CASE k \in b..e
    BY <2>3, CleanToken
  <2> QED
    BY <2>1, <2>2, <2>3
<1>6. ASSUME c # 0 PROVE InQuestion(t, B, v, c, e + 1)
  <2>1. InQuestion(t, B, u, c, b)
    BY <1>6 DEF CleanTo
  <2>2. c \in B /\ c \in 1..(b - 1) /\ IsComma(t, c) /\ IsComma(u, c)
    BY <1>3, <1>6, <2>1 DEF InQuestion
  <2>3. c < e + 1 /\ v[c] = u[c]
    BY <1>3, <2>2
  <2>4. IsComma(v, c)
    BY <2>2, <2>3 DEF IsComma
  <2>5. ASSUME NEW m \in (c + 1)..((e + 1) - 1) PROVE Comment(t, B, m) \/ isWS(t[m])
    <3>1. m \in (c + 1)..(b - 1) \/ m \in b..e
      BY <1>3, <2>2
    <3>2. CASE m \in (c + 1)..(b - 1)
      BY <2>1, <3>2 DEF InQuestion
    <3>3. CASE m \in b..e /\ OpensComment(t, b)
      BY <3>3, TokenCovers
    <3>4. CASE m \in b..e /\ ~OpensComment(t, b)
      <4>1. isWS(t[b]) /\ t[b] # Quote
        BY <1>6, <3>4 DEF isWS, isNL, Quote, Blank
      <4>2. e = b
        BY <3>4, <4>1, ByteToken
      <4> QED
        BY <1>3, <3>4, <4>1, <4>2
    <3> QED
      BY <3>1, <3>2, <3>3, <3>4
  <2> QED
    BY <2>2, <2>3, <2>4, <2>5 DEF InQuestion
<1> QED
  BY <1>4, <1>5, <1>6 DEF CleanTo

(* A comma begins to be in question. *)
LEMMA PassComma ==
    ASSUME NEW t \in Seq(Bytes), NEW B \in SUBSET (1..Len(t)), Row(t, B),
           NEW b \in B, IsComma(t, b), NEW u, IsComma(u, b), CleanTo(t, B, u, 0, b)
    PROVE  CleanTo(t, B, u, b, b + 1)
<1>1. b \in 1..Len(t) /\ Len(t) \in Nat
  BY LenProperties
<1>2. TokenEnd(t, b) = b
  <2>1. t[b] # Quote /\ ~OpensComment(t, b)
    BY DEF Quote, OpensComment, Opens, IsComma
  <2> QED
    BY <2>1, ByteToken
<1>3. b + 1 \in B \/ b + 1 = Len(t) + 1
  BY <1>2 DEF Row
<1>4. ASSUME NEW k \in 1..((b + 1) - 1), k # b PROVE u[k] = Clean(t, B)[k]
  <2>1. k \in 1..(b - 1) /\ k # 0
    BY <1>1, <1>4
  <2> QED
    BY <2>1 DEF CleanTo
<1>5. InQuestion(t, B, u, b, b + 1)
  BY <1>1 DEF InQuestion
<1> QED
  BY <1>3, <1>4, <1>5 DEF CleanTo

(* A comma in question is no comment, and is trailing only if a bracket     *)
(* follows.                                                                 *)
LEMMA CommaIsClean ==
    ASSUME NEW t \in Seq(Bytes), NEW B \in SUBSET (1..Len(t)), Row(t, B),
           NEW b \in B, IsComma(t, b)
    PROVE  Clean(t, B)[b] = IF Trailing(t, B, b) THEN Blank ELSE t[b]
<1>1. DOMAIN t = 1..Len(t)
  BY LenProperties
<1>2. TokenEnd(t, b) \in b..Len(t) /\ Len(t) \in Nat /\ b \in 1..Len(t)
  BY TokenEndRange, LenProperties
<1>3. b \in b..TokenEnd(t, b)
  BY <1>2
<1>4. ~OpensComment(t, b)
  BY DEF OpensComment, Opens, IsComma
<1>5. ~Comment(t, B, b)
  BY <1>3, <1>4, TokenCovers
<1> QED
  BY <1>1, <1>2, <1>5 DEF Clean

IsClosing(u, k) == u[k] = "}"

(* A bracket, a slash or white space leave the comma in question. *)
Settles(u, k) == u[k] \notin {"}", "/"} /\ ~isWS(u[k])

(* The comma is followed by something else: it stays. *)
LEMMA CommaStays ==
    ASSUME NEW t \in Seq(Bytes), NEW B \in SUBSET (1..Len(t)), Row(t, B),
           NEW u, NEW c, c # 0, NEW p \in 1..(Len(t) + 1), CleanTo(t, B, u, c, p),
           p = Len(t) + 1 \/ Settles(t, p)
    PROVE  CleanTo(t, B, u, 0, p)
<1>1. Len(t) \in Nat
  BY LenProperties
<1>2. InQuestion(t, B, u, c, p)
  BY DEF CleanTo
<1>3. c \in B /\ c < p /\ IsComma(t, c) /\ IsComma(u, c)
  BY <1>2 DEF InQuestion
<1>4. ASSUME NEW n \in B, OpensComment(t, n) = FALSE PROVE ~Comment(t, B, n)
  <2>1. TokenEnd(t, n) \in n..Len(t) /\ n \in 1..Len(t)
    BY TokenEndRange
  <2>2. n \in n..TokenEnd(t, n)
    BY <1>1, <2>1
  <2> QED
    BY <1>4, <2>2, TokenCovers
<1>5. ~Trailing(t, B, c)
  <2> SUFFICES ASSUME NEW n \in B, n > c, IsClosing(t, n),
                      \A m \in (c + 1)..(n - 1) : Comment(t, B, m) \/ isWS(t[m])
               PROVE  FALSE
    BY DEF Trailing, IsClosing
  <2>1. n \in Nat /\ c \in Nat /\ p \in Nat /\ n \in 1..Len(t)
    BY <1>1, <1>3
  <2>2. ~Comment(t, B, n) /\ ~isWS(t[n])
    <3>1. OpensComment(t, n) = FALSE
      BY DEF IsClosing, OpensComment, Opens
    <3>2. ~isWS(t[n])
      BY DEF IsClosing, isWS, isNL, Blank
    <3> QED
      BY <1>4, <3>1, <3>2
  <2>3. CASE n < p
    <3>1. n \in (c + 1)..(p - 1)
      BY <2>1, <2>3
    <3> QED
      BY <1>2, <2>2, <3>1 DEF InQuestion
  <2>4. CASE n = p
    <3>1. Settles(t, p)
      BY <1>1, <2>1, <2>4
    <3> QED
      BY <2>4, <3>1 DEF IsClosing, Settles
  <2>5. CASE p < n
    <3>1. p \in (c + 1)..(n - 1) /\ p # Len(t) + 1
      BY <1>1, <1>3, <2>1, <2>5
    <3>2. p \in B /\ Settles(t, p)
      BY <3>1 DEF CleanTo
    <3>3. OpensComment(t, p) = FALSE /\ ~isWS(t[p])
      BY <3>2 DEF Settles, OpensComment, Opens
    <3>4. ~Comment(t, B, p)
      BY <1>4, <3>2, <3>3
    <3> QED
      BY <3>1, <3>3, <3>4
  <2> QED
    BY <2>1, <2>3, <2>4, <2>5
<1>6. u[c] = Clean(t, B)[c]
  BY <1>3, <1>5, CommaIsClean DEF IsComma
<1>7. \A k \in 1..(p - 1) : u[k] = Clean(t, B)[k]
  BY <1>6 DEF CleanTo
<1> QED
  BY <1>7 DEF CleanTo

(* The comma is followed by a closing bracket: it is overwritten. *)
LEMMA CommaGoes ==
    ASSUME NEW t \in Seq(Bytes), NEW B \in SUBSET (1..Len(t)), Row(t, B),
           NEW u, NEW v, NEW c, c # 0, NEW p \in B, CleanTo(t, B, u, c, p), IsClosing(t, p),
           v[c] = Blank, \A k \in 1..(p - 1) : k # c => v[k] = u[k]
    PROVE  CleanTo(t, B, v, 0, p)
<1>1. InQuestion(t, B, u, c, p)
  BY DEF CleanTo
<1>2. c \in B /\ c < p /\ IsComma(t, c)
  BY <1>1 DEF InQuestion
<1>3. \A m \in (c + 1)..(p - 1) : Comment(t, B, m) \/ isWS(t[m])
  BY <1>1 DEF InQuestion
<1>4. p > c
  BY <1>2
<1>5. Trailing(t, B, c)
  BY <1>2, <1>3, <1>4 DEF Trailing, IsComma, IsClosing
<1>6. v[c] = Clean(t, B)[c]
  BY <1>2, <1>5, CommaIsClean
<1>7. \A k \in 1..(p - 1) : v[k] = Clean(t, B)[k]
  BY <1>6 DEF CleanTo
<1> QED
  BY <1>7 DEF CleanTo

(* What is clean up to p does not depend on the rest. *)
LEMMA CleanToAgrees ==
    ASSUME NEW t \in Seq(Bytes), NEW B \in SUBSET (1..Len(t)), NEW u, NEW v, NEW c \in 0..Len(t),
           NEW p \in 1..(Len(t) + 1), CleanTo(t, B, u, c, p), \A k \in 1..(p - 1) : v[k] = u[k]
    PROVE  CleanTo(t, B, v, c, p)
<1>1. Len(t) \in Nat
  BY LenProperties
<1>2. ASSUME c # 0 PROVE InQuestion(t, B, v, c, p)
  <2>1. InQuestion(t, B, u, c, p)
    BY <1>2 DEF CleanTo
  <2>2. c \in 1..(p - 1)
    BY <1>1, <1>2, <2>1 DEF InQuestion
  <2>3. IsComma(v, c)
    BY <2>1, <2>2 DEF InQuestion, IsComma
  <2> QED
    BY <2>1, <2>3 DEF InQuestion
<1> QED
  BY <1>2 DEF CleanTo

(* What is clean to the end is the clean text. *)
LEMMA CleanToEnd ==
    ASSUME NEW t \in Seq(Bytes), NEW B, NEW u, DOMAIN u = DOMAIN t, u = [k \in DOMAIN u |-> u[k]],
           CleanTo(t, B, u, 0, Len(t) + 1)
    PROVE  u = Clean(t, B)
<1>1. Len(t) \in Nat /\ DOMAIN t = 1..Len(t)
  BY LenProperties
<1>2. \A k \in 1..Len(t) : u[k] = Clean(t, B)[k]
  BY <1>1 DEF CleanTo
<1> QED
  BY <1>1, <1>2 DEF Clean

(* Where a walk that looks for the end of a token finds it. *)
LEMMA StringEnds ==
    ASSUME NEW t \in Seq(Bytes), NEW b \in 1..Len(t), t[b] = Quote
    PROVE  /\ \A e \in (b + 1)..Len(t) :
                ClosesString(t, b, e) /\ (\A k \in (b + 1)..Len(t) : k < e => ~ClosesString(t, b, k))
                => TokenEnd(t, b) = e
           /\ (\A k \in (b + 1)..Len(t) : ~ClosesString(t, b, k)) => TokenEnd(t, b) = Len(t)
<1> DEFINE K == {k \in (b + 1)..Len(t) : ClosesString(t, b, k)}
<1>1. TokenEnd(t, b) = First(K, Len(t))
  BY StringToken
<1>2. K \in SUBSET Nat /\ Len(t) \in Nat
  BY LenProperties
<1>3. ASSUME NEW e \in (b + 1)..Len(t), ClosesString(t, b, e),
             \A k \in (b + 1)..Len(t) : k < e => ~ClosesString(t, b, k)
      PROVE  TokenEnd(t, b) = e
  <2>1. e \in K
    BY <1>3
  <2>2. \A l \in K : e <= l
    BY <1>2, <1>3
  <2> HIDE DEF K
  <2> QED
    BY <1>1, <1>2, <2>1, <2>2, LeastIsFirst
<1>4. ASSUME \A k \in (b + 1)..Len(t) : ~ClosesString(t, b, k) PROVE TokenEnd(t, b) = Len(t)
  BY <1>1, <1>4 DEF First
<1> QED
  BY <1>3, <1>4

LEMMA LineEnds ==
    ASSUME NEW t \in Seq(Bytes), NEW b \in 1..Len(t), Opens(t, b, "/")
    PROVE  /\ \A e \in (b + 1)..Len(t) :
                isNL(t[e]) /\ (\A k \in (b + 1)..Len(t) : k < e => ~isNL(t[k]))
                => TokenEnd(t, b) = e - 1
           /\ (\A k \in (b + 1)..Len(t) : ~isNL(t[k])) => TokenEnd(t, b) = Len(t)
<1> DEFINE K == {k \in (b + 1)..Len(t) : isNL(t[k])}
<1>1. TokenEnd(t, b) = First(K, Len(t) + 1) - 1
  BY LineToken
<1>2. K \in SUBSET Nat /\ Len(t) \in Nat
  BY LenProperties
<1>3. ASSUME NEW e \in (b + 1)..Len(t), isNL(t[e]),
             \A k \in (b + 1)..Len(t) : k < e => ~isNL(t[k])
      PROVE  TokenEnd(t, b) = e - 1
  <2>1. e \in K
    BY <1>3
  <2>2. \A l \in K : e <= l
    BY <1>2, <1>3
  <2> HIDE DEF K
  <2>3. First(K, Len(t) + 1) = e
    BY <1>2, <2>1, <2>2, LeastIsFirst
  <2> QED
    BY <1>1, <2>3
<1>4. ASSUME \A k \in (b + 1)..Len(t) : ~isNL(t[k]) PROVE TokenEnd(t, b) = Len(t)
  <2>1. First(K, Len(t) + 1) = Len(t) + 1
    BY <1>4 DEF First
  <2> QED
    BY <1>1, <1>2, <2>1
<1> QED
  BY <1>3, <1>4

LEMMA BlockEnds ==
    ASSUME NEW t \in Seq(Bytes), NEW b \in 1..Len(t), Opens(t, b, "*")
    PROVE  /\ \A e \in (b + 1)..Len(t) :
                ClosesBlock(t, b, e) /\ (\A k \in (b + 1)..Len(t) : k < e => ~ClosesBlock(t, b, k))
                => TokenEnd(t, b) = e
           /\ \A e \in (b + 1)..Len(t) :
                (\A k \in (b + 1)..Len(t) : k <= e => ~ClosesBlock(t, b, k)) => TokenEnd(t, b) >= e
           /\ (\A k \in (b + 1)..Len(t) : ~ClosesBlock(t, b, k)) => TokenEnd(t, b) = Len(t)
<1> DEFINE K == {k \in (b + 1)..Len(t) : ClosesBlock(t, b, k)}
<1>1. TokenEnd(t, b) = First(K, Len(t))
  BY BlockToken
<1>2. K \in SUBSET Nat /\ Len(t) \in Nat
  BY LenProperties
<1>3. ASSUME NEW e \in (b + 1)..Len(t), ClosesBlock(t, b, e),
             \A k \in (b + 1)..Len(t) : k < e => ~ClosesBlock(t, b, k)
      PROVE  TokenEnd(t, b) = e
  <2>1. e \in K
    BY <1>3
  <2>2. \A l \in K : e <= l
    BY <1>2, <1>3
  <2> HIDE DEF K
  <2> QED
    BY <1>1, <1>2, <2>1, <2>2, LeastIsFirst
<1>4. ASSUME \A k \in (b + 1)..Len(t) : ~ClosesBlock(t, b, k) PROVE TokenEnd(t, b) = Len(t)
  BY <1>1, <1>4 DEF First
<1>5. ASSUME NEW e \in (b + 1)..Len(t),
             \A k \in (b + 1)..Len(t) : k <= e => ~ClosesBlock(t, b, k)
      PROVE  TokenEnd(t, b) >= e
  <2>1. CASE K = {}
    BY <1>2, <1>4, <2>1
  <2>2. CASE K # {}
    <3>1. First(K, Len(t)) \in K
      <4> HIDE DEF K
      <4> QED
        BY <1>2, <2>2, FirstIsLeast
    <3> QED
      BY <1>1, <1>2, <1>5, <3>1
  <2> QED
    BY <2>1, <2>2
<1> QED
  BY <1>3, <1>4, <1>5

-----------------------------------------------------------------------------
(* Where the walk stands, loop by loop: a text t with the tokens B has      *)
(* become u, the position is x, and c is the comma in question.             *)
Rest(t, u, p) == \A k \in p..Len(t) : u[k] = t[k]

At(t, x, p) == x = p \/ (p = Len(t) + 1 /\ x > Len(t))

(* Between two tokens, or at the last byte of a block comment just blanked. *)
InTop(t, B, u, x, c) ==
    /\ c = 0
    /\ \E p \in 1..(Len(t) + 1) :
         /\ CleanTo(t, B, u, 0, p) /\ Rest(t, u, p)
         /\ At(t, x, p) \/ (x = p - 1 /\ u[x] = Blank)

InComma(t, B, u, x, c) ==
    /\ c # 0
    /\ \E p \in 1..(Len(t) + 1) :
         CleanTo(t, B, u, c, p) /\ Rest(t, u, p) /\ At(t, x, p)

InString(t, B, u, x, c) ==
    /\ c = 0
    /\ \E b \in B :
         /\ CleanTo(t, B, u, 0, b) /\ Rest(t, u, b)
         /\ t[b] = Quote /\ b < x
         /\ x <= Len(t) => ~Escaped(t, b, x)
         /\ \A k \in (b + 1)..Len(t) : k < x => ~ClosesString(t, b, k)

(* The mark of a comment is blanked at once, its bytes one by one. *)
Blanked(t, B, u, x, c, b) ==
    /\ CleanTo(t, B, u, c, b) /\ b < x
    /\ \A k \in b..Len(t) : u[k] = IF k < x \/ k = b + 1 THEN Blank ELSE t[k]

InLine(t, B, u, x, c) ==
    \E b \in B :
        /\ Opens(t, b, "/") /\ Blanked(t, B, u, x, c, b)
        /\ \A k \in (b + 1)..Len(t) : k < x => ~isNL(t[k])

InBlock(t, B, u, x, c) ==
    \E b \in B :
        /\ Opens(t, b, "*") /\ Blanked(t, B, u, x, c, b)
        /\ \A k \in (b + 1)..Len(t) : k <= x => ~ClosesBlock(t, b, k)

Walk(t, B, l, u, x, c) ==
    /\ l = "top" => InTop(t, B, u, x, c)
    /\ l = "comma" => InComma(t, B, u, x, c)
    /\ l = "string" => InString(t, B, u, x, c)
    /\ l = "line" => InLine(t, B, u, x, c)
    /\ l = "block" => InBlock(t, B, u, x, c)
    /\ l = "done" => u = Clean(t, B)

Blanks(t, u, v, K) == \A k \in 1..Len(t) : v[k] = IF k \in K THEN Blank ELSE u[k]

IsSlash(u, k) == u[k] = "/"

(* At a byte that is no blank, the outer loop is at a token. *)
LEMMA TopAtToken ==
    ASSUME NEW t \in Seq(Bytes), NEW B \in SUBSET (1..Len(t)), NEW u, NEW x \in 1..Len(t), NEW c,
           InTop(t, B, u, x, c), u[x] # Blank
    PROVE  c = 0 /\ x \in B /\ CleanTo(t, B, u, 0, x) /\ Rest(t, u, x) /\ u[x] = t[x]
<1>1. Len(t) \in Nat
  BY LenProperties
<1>2. PICK p \in 1..(Len(t) + 1) :
         CleanTo(t, B, u, 0, p) /\ Rest(t, u, p) /\ At(t, x, p)
  BY DEF InTop
<1>3. p = x /\ x # Len(t) + 1
  BY <1>1, <1>2 DEF At
<1>4. x \in B
  BY <1>2, <1>3 DEF CleanTo
<1>5. u[x] = t[x]
  <2>1. x \in x..Len(t)
    BY <1>1
  <2> QED
    BY <1>2, <1>3, <2>1 DEF Rest
<1> QED
  BY <1>2, <1>3, <1>4, <1>5 DEF InTop

LEMMA CommaAtToken ==
    ASSUME NEW t \in Seq(Bytes), NEW B \in SUBSET (1..Len(t)), NEW u, NEW x \in 1..Len(t), NEW c,
           InComma(t, B, u, x, c)
    PROVE  c # 0 /\ x \in B /\ CleanTo(t, B, u, c, x) /\ Rest(t, u, x) /\ u[x] = t[x]
<1>1. Len(t) \in Nat
  BY LenProperties
<1>2. PICK p \in 1..(Len(t) + 1) :
         CleanTo(t, B, u, c, p) /\ Rest(t, u, p) /\ At(t, x, p)
  BY DEF InComma
<1>3. p = x /\ x # Len(t) + 1
  BY <1>1, <1>2 DEF At
<1>4. x \in B
  BY <1>2, <1>3 DEF CleanTo
<1>5. u[x] = t[x]
  <2>1. x \in x..Len(t)
    BY <1>1
  <2> QED
    BY <1>2, <1>3, <2>1 DEF Rest
<1> QED
  BY <1>2, <1>3, <1>4, <1>5 DEF InComma

(* A byte that is a token is passed over. *)
LEMMA PassByte ==
    ASSUME NEW t \in Seq(Bytes), NEW B \in SUBSET (1..Len(t)), Row(t, B),
           NEW b \in B, ~IsComma(t, b), ~IsSlash(t, b), t[b] # Quote, NEW u, NEW c \in 0..Len(t),
           CleanTo(t, B, u, c, b), c # 0 => isWS(t[b]), Rest(t, u, b)
    PROVE  CleanTo(t, B, u, c, b + 1) /\ Rest(t, u, b + 1) /\ b + 1 \in 1..(Len(t) + 1)
<1>1. Len(t) \in Nat /\ b \in 1..Len(t)
  BY LenProperties
<1>2. ~OpensComment(t, b)
  BY DEF OpensComment, Opens, IsSlash
<1>3. TokenEnd(t, b) = b
  BY <1>2, ByteToken
<1>4. \A k \in b..b : u[k] = t[k]
  <2>1. b \in b..Len(t)
    BY <1>1
  <2>2. u[b] = t[b]
    BY <2>1 DEF Rest
  <2>3. \A k \in b..b : k = b
    BY <1>1
  <2> QED
    BY <2>2, <2>3
<1>5. \A k \in b..TokenEnd(t, b) : u[k] = IF OpensComment(t, b) THEN Blank ELSE t[k]
  BY <1>2, <1>3, <1>4
<1>6. CleanTo(t, B, u, c, TokenEnd(t, b) + 1)
  BY <1>5, PassToken
<1>7. Rest(t, u, b + 1) /\ b + 1 \in 1..(Len(t) + 1)
  BY <1>1 DEF Rest
<1> QED
  BY <1>3, <1>6, <1>7

-----------------------------------------------------------------------------
(* The turns of the loops. *)
LEMMA TopPasses ==
    ASSUME NEW t \in Seq(Bytes), NEW B \in SUBSET (1..Len(t)), Row(t, B), NEW u,
           NEW x \in 1..Len(t), NEW c, InTop(t, B, u, x, c),
           ~IsComma(u, x), ~IsSlash(u, x), u[x] # Quote
    PROVE  InTop(t, B, u, x + 1, 0)
<1>1. Len(t) \in Nat
  BY LenProperties
<1>2. PICK p \in 1..(Len(t) + 1) :
         /\ CleanTo(t, B, u, 0, p) /\ Rest(t, u, p)
         /\ At(t, x, p) \/ (x = p - 1 /\ u[x] = Blank)
  BY DEF InTop
<1>3. CASE x = p - 1
  <2>1. At(t, x + 1, p)
    BY <1>1, <1>3 DEF At
  <2> QED
    BY <1>2, <2>1 DEF InTop
<1>4. CASE At(t, x, p)
  <2>1. p = x /\ x # Len(t) + 1
    BY <1>1, <1>4 DEF At
  <2>2. x \in B
    BY <1>2, <2>1 DEF CleanTo
  <2>3. u[x] = t[x]
    <3>1. x \in x..Len(t)
      BY <1>1
    <3> QED
      BY <1>2, <2>1, <3>1 DEF Rest
  <2>4. ~IsComma(t, x) /\ ~IsSlash(t, x) /\ t[x] # Quote
    BY <2>3 DEF IsComma, IsSlash
  <2>5. CleanTo(t, B, u, 0, x) /\ Rest(t, u, x) /\ 0 \in 0..Len(t)
    BY <1>1, <1>2, <2>1
  <2>6. CleanTo(t, B, u, 0, x + 1) /\ Rest(t, u, x + 1) /\ x + 1 \in 1..(Len(t) + 1)
    BY <2>2, <2>4, <2>5, PassByte
  <2>7. At(t, x + 1, x + 1)
    BY DEF At
  <2> QED
    BY <2>6, <2>7 DEF InTop
<1> QED
  BY <1>2, <1>3, <1>4

LEMMA TopQuote ==
    ASSUME NEW t \in Seq(Bytes), NEW B \in SUBSET (1..Len(t)), NEW u,
           NEW x \in 1..Len(t), NEW c, InTop(t, B, u, x, c), u[x] = Quote
    PROVE  InString(t, B, u, x + 1, 0)
<1>1. Len(t) \in Nat /\ x \in Nat
  BY LenProperties
<1>2. u[x] # Blank
  BY DEF Quote, Blank
<1>3. x \in B /\ CleanTo(t, B, u, 0, x) /\ Rest(t, u, x) /\ u[x] = t[x]
  BY <1>2, TopAtToken
<1>4. ~Escaped(t, x, x + 1)
  BY <1>1, FirstNotEscaped
<1>5. \A k \in (x + 1)..Len(t) : ~(k < x + 1)
  BY <1>1
<1>6. x < x + 1
  BY <1>1
<1>7. t[x] = Quote
  BY <1>3
<1> QED
  BY <1>3, <1>4, <1>5, <1>6, <1>7 DEF InString

LEMMA TopAtComma ==
    ASSUME NEW t \in Seq(Bytes), NEW B \in SUBSET (1..Len(t)), Row(t, B), NEW u,
           NEW x \in 1..Len(t), NEW c, InTop(t, B, u, x, c), IsComma(u, x)
    PROVE  InComma(t, B, u, x + 1, x)
<1>1. Len(t) \in Nat
  BY LenProperties
<1>2. u[x] # Blank
  BY DEF IsComma, Blank
<1>3. x \in B /\ CleanTo(t, B, u, 0, x) /\ Rest(t, u, x) /\ u[x] = t[x]
  BY <1>2, TopAtToken
<1>4. IsComma(t, x)
  BY <1>3 DEF IsComma
<1>5. CleanTo(t, B, u, x, x + 1)
  BY <1>3, <1>4, PassComma
<1>6. Rest(t, u, x + 1) /\ x + 1 \in 1..(Len(t) + 1) /\ x # 0
  BY <1>1, <1>3 DEF Rest
<1>7. At(t, x + 1, x + 1)
  BY DEF At
<1> QED
  BY <1>5, <1>6, <1>7 DEF InComma

(* A slash begins a comment, whose mark is blanked. *)
LEMMA AtSlash ==
    ASSUME NEW t \in Seq(Bytes), NEW B \in SUBSET (1..Len(t)), Plain(t, B), NEW u,
           NEW v, NEW x \in B, NEW c \in 0..Len(t),
           CleanTo(t, B, u, c, x), Rest(t, u, x), IsSlash(u, x)
    PROVE  /\ x < Len(t) /\ u[x + 1] \in {"/", "*"}
           /\ Blanks(t, u, v, {x, x + 1}) =>
                /\ u[x + 1] = "/" => InLine(t, B, v, x + 1, c)
                /\ u[x + 1] # "/" => InBlock(t, B, v, x + 1, c)
<1>1. Len(t) \in Nat /\ x \in 1..Len(t)
  BY LenProperties
<1>2. x \in x..Len(t)
  BY <1>1
<1>3. t[x] = u[x]
  BY <1>2 DEF Rest
<1>4. OpensComment(t, x)
  BY <1>3 DEF Plain, IsSlash
<1>5. x < Len(t) /\ t[x + 1] \in {"/", "*"}
  BY <1>4 DEF OpensComment, Opens
<1>6. x + 1 \in x..Len(t)
  BY <1>1, <1>5
<1>7. u[x + 1] = t[x + 1]
  BY <1>6 DEF Rest
<1>8. ASSUME Blanks(t, u, v, {x, x + 1}) PROVE Blanked(t, B, v, x + 1, c, x)
  <2>1. \A k \in 1..(x - 1) : v[k] = u[k]
    BY <1>1, <1>8 DEF Blanks
  <2>2. x \in 1..(Len(t) + 1)
    BY <1>1
  <2>3. CleanTo(t, B, v, c, x)
    BY <2>1, <2>2, CleanToAgrees
  <2>4. \A k \in x..Len(t) : v[k] = IF k < x + 1 \/ k = x + 1 THEN Blank ELSE t[k]
    <3> SUFFICES ASSUME NEW k \in x..Len(t)
                 PROVE  v[k] = IF k < x + 1 \/ k = x + 1 THEN Blank ELSE t[k]
      OBVIOUS
    <3>1. k \in 1..Len(t) /\ (k \in {x, x + 1} <=> k < x + 1 \/ k = x + 1)
      BY <1>1
    <3>2. v[k] = IF k \in {x, x + 1} THEN Blank ELSE u[k]
      BY <1>8, <3>1 DEF Blanks
    <3>3. u[k] = t[k]
      BY DEF Rest
    <3> QED
      BY <3>1, <3>2, <3>3
  <2> QED
    BY <1>1, <2>3, <2>4 DEF Blanked
<1>9. ASSUME u[x + 1] = "/", Blanked(t, B, v, x + 1, c, x) PROVE InLine(t, B, v, x + 1, c)
  <2>1. Opens(t, x, "/")
    BY <1>3, <1>5, <1>7, <1>9 DEF Opens, IsSlash
  <2>2. \A k \in (x + 1)..Len(t) : ~(k < x + 1)
    BY <1>1
  <2> QED
    BY <1>9, <2>1, <2>2 DEF InLine
<1>10. ASSUME u[x + 1] # "/", Blanked(t, B, v, x + 1, c, x) PROVE InBlock(t, B, v, x + 1, c)
  <2>1. Opens(t, x, "*")
    BY <1>3, <1>5, <1>7, <1>10 DEF Opens, IsSlash
  <2>2. \A k \in (x + 1)..Len(t) : k <= x + 1 => ~(k > x + 2)
    BY <1>1
  <2>3. \A k \in (x + 1)..Len(t) : k <= x + 1 => ~ClosesBlock(t, x, k)
    BY <2>2 DEF ClosesBlock
  <2> QED
    BY <1>10, <2>1, <2>3 DEF InBlock
<1> QED
  BY <1>5, <1>7, <1>8, <1>9, <1>10

LEMMA StringTurn ==
    ASSUME NEW t \in Seq(Bytes), NEW B \in SUBSET (1..Len(t)), Row(t, B), NEW u,
           NEW x \in 1..Len(t), NEW c, InString(t, B, u, x, c)
    PROVE  /\ u[x] = Quote => InTop(t, B, u, x + 1, 0)
           /\ u[x] # Quote => InString(t, B, u, IF u[x] = Escape THEN x + 2 ELSE x + 1, 0)
<1>1. Len(t) \in Nat /\ x \in Nat /\ x <= Len(t)
  BY LenProperties
<1>2. PICK b \in B :
         /\ CleanTo(t, B, u, 0, b) /\ Rest(t, u, b)
         /\ t[b] = Quote /\ b < x
         /\ x <= Len(t) => ~Escaped(t, b, x)
         /\ \A k \in (b + 1)..Len(t) : k < x => ~ClosesString(t, b, k)
  BY DEF InString
<1>3. b \in 1..Len(t) /\ b \in Nat
  OBVIOUS
<1>4. x \in b..Len(t) /\ x \in (b + 1)..Len(t)
  BY <1>1, <1>2, <1>3
<1>5. u[x] = t[x] /\ ~Escaped(t, b, x)
  BY <1>1, <1>2, <1>4 DEF Rest
<1>6. ASSUME u[x] = Quote PROVE InTop(t, B, u, x + 1, 0)
  <2>1. ClosesString(t, b, x)
    BY <1>5, <1>6 DEF ClosesString
  <2>2. TokenEnd(t, b) = x
    BY <1>2, <1>3, <1>4, <2>1, StringEnds
  <2>3. ~OpensComment(t, b) /\ ~IsComma(t, b)
    BY <1>2, StringToken DEF IsComma, Quote
  <2>4. \A k \in b..x : u[k] = t[k]
    BY <1>1, <1>2, <1>3 DEF Rest
  <2>5. \A k \in b..TokenEnd(t, b) : u[k] = IF OpensComment(t, b) THEN Blank ELSE t[k]
    BY <2>2, <2>3, <2>4
  <2>6. 0 \in 0..Len(t)
    BY <1>1
  <2>7. CleanTo(t, B, u, 0, TokenEnd(t, b) + 1)
    BY <1>2, <2>3, <2>5, <2>6, PassToken
  <2>8. CleanTo(t, B, u, 0, x + 1)
    BY <2>2, <2>7
  <2>9. Rest(t, u, x + 1) /\ x + 1 \in 1..(Len(t) + 1)
    BY <1>1, <1>2, <1>3 DEF Rest
  <2>10. At(t, x + 1, x + 1)
    BY DEF At
  <2> QED
    BY <2>8, <2>9, <2>10 DEF InTop
<1>7. ASSUME u[x] # Quote PROVE ~ClosesString(t, b, x)
  BY <1>5, <1>7 DEF ClosesString
<1>8. Escaped(t, b, x + 1) <=> u[x] = Escape
  BY <1>1, <1>2, <1>3, <1>5, EscapedStep
<1>9. ASSUME u[x] # Quote, u[x] # Escape PROVE InString(t, B, u, x + 1, 0)
  <2>1. ~Escaped(t, b, x + 1)
    BY <1>8, <1>9
  <2>2. \A k \in (b + 1)..Len(t) : k < x + 1 => ~ClosesString(t, b, k)
    <3> SUFFICES ASSUME NEW k \in (b + 1)..Len(t), k < x + 1 PROVE ~ClosesString(t, b, k)
      OBVIOUS
    <3>1. k < x \/ k = x
      BY <1>1, <1>3
    <3> QED
      BY <1>2, <1>7, <1>9, <3>1
  <2>3. b < x + 1
    BY <1>1, <1>2, <1>3
  <2> QED
    BY <1>2, <2>1, <2>2, <2>3 DEF InString
<1>10. ASSUME u[x] # Quote, u[x] = Escape PROVE InString(t, B, u, x + 2, 0)
  <2>1. Escaped(t, b, x + 1)
    BY <1>8, <1>10
  <2>2. ~Escaped(t, b, x + 2)
    <3>1. (x + 1) + 1 = x + 2 /\ x + 1 \in Nat /\ b < x + 1
      BY <1>1, <1>2, <1>3
    <3>2. Escaped(t, b, (x + 1) + 1) <=> t[x + 1] = Escape /\ ~Escaped(t, b, x + 1)
      BY <1>3, <3>1, EscapedStep
    <3> QED
      BY <2>1, <3>1, <3>2
  <2>3. \A k \in (b + 1)..Len(t) : k < x + 2 => ~ClosesString(t, b, k)
    <3> SUFFICES ASSUME NEW k \in (b + 1)..Len(t), k < x + 2 PROVE ~ClosesString(t, b, k)
      OBVIOUS
    <3>1. k < x \/ k = x \/ k = x + 1
      BY <1>1, <1>3
    <3>2. ~ClosesString(t, b, x + 1)
      BY <2>1 DEF ClosesString
    <3> QED
      BY <1>2, <1>7, <1>10, <3>1, <3>2
  <2>4. b < x + 2
    BY <1>1, <1>2, <1>3
  <2> QED
    BY <1>2, <2>2, <2>3, <2>4 DEF InString
<1> QED
  BY <1>6, <1>9, <1>10

LEMMA CommaTurn ==
    ASSUME NEW t \in Seq(Bytes), NEW B \in SUBSET (1..Len(t)), Row(t, B), NEW u, NEW v,
           NEW x \in 1..Len(t), NEW c \in 0..Len(t), InComma(t, B, u, x, c)
    PROVE  /\ IsClosing(u, x) /\ Blanks(t, u, v, {c}) => InTop(t, B, v, x, 0)
           /\ isWS(u[x]) => InComma(t, B, u, x + 1, c)
           /\ Settles(u, x) => InTop(t, B, u, x, 0)
<1>1. Len(t) \in Nat /\ x \in Nat /\ x \in 1..(Len(t) + 1)
  BY LenProperties
<1>2. c # 0 /\ x \in B /\ CleanTo(t, B, u, c, x) /\ Rest(t, u, x) /\ u[x] = t[x]
  BY CommaAtToken
<1>3. c \in 1..(x - 1)
  <2>1. InQuestion(t, B, u, c, x)
    BY <1>2 DEF CleanTo
  <2> QED
    BY <1>1, <1>2, <2>1 DEF InQuestion
<1>4. At(t, x, x)
  BY DEF At
<1>5. ASSUME IsClosing(u, x), Blanks(t, u, v, {c}) PROVE InTop(t, B, v, x, 0)
  <2>1. IsClosing(t, x)
    BY <1>2, <1>5 DEF IsClosing
  <2>2. v[c] = Blank
    BY <1>2, <1>5 DEF Blanks
  <2>3. \A k \in 1..Len(t) : k # c => v[k] = u[k]
    BY <1>5 DEF Blanks
  <2>4. \A k \in 1..(x - 1) : k # c => v[k] = u[k]
    BY <1>1, <2>3
  <2>5. CleanTo(t, B, v, 0, x)
    BY <1>2, <2>1, <2>2, <2>4, CommaGoes
  <2>6. Rest(t, v, x)
    BY <1>1, <1>2, <1>3, <2>3 DEF Rest
  <2> QED
    BY <1>1, <1>4, <2>5, <2>6 DEF InTop
<1>6. ASSUME isWS(u[x]) PROVE InComma(t, B, u, x + 1, c)
  <2>1. isWS(t[x])
    BY <1>2, <1>6
  <2>2. ~IsComma(t, x) /\ ~IsSlash(t, x) /\ t[x] # Quote
    BY <2>1 DEF isWS, isNL, Blank, IsComma, IsSlash, Quote
  <2>3. CleanTo(t, B, u, c, x + 1) /\ Rest(t, u, x + 1) /\ x + 1 \in 1..(Len(t) + 1)
    BY <1>2, <2>1, <2>2, PassByte
  <2>4. At(t, x + 1, x + 1)
    BY DEF At
  <2> QED
    BY <1>2, <2>3, <2>4 DEF InComma
<1>7. ASSUME Settles(u, x) PROVE InTop(t, B, u, x, 0)
  <2>1. Settles(t, x)
    BY <1>2, <1>7 DEF Settles
  <2>2. CleanTo(t, B, u, 0, x)
    BY <1>1, <1>2, <2>1, CommaStays
  <2> QED
    BY <1>1, <1>2, <1>4, <2>2 DEF InTop
<1> QED
  BY <1>5, <1>6, <1>7

(* The bytes of a comment are blanked from x up to y. *)
LEMMA BlankMore ==
    ASSUME NEW t \in Seq(Bytes), NEW B \in SUBSET (1..Len(t)), NEW u, NEW v, NEW x \in Nat,
           NEW c \in 0..Len(t), NEW b \in B, Blanked(t, B, u, x, c, b), NEW y \in Nat, x < y,
           NEW K, Blanks(t, u, v, K), \A k \in 1..Len(t) : k \in K <=> x <= k /\ k < y
    PROVE  Blanked(t, B, v, y, c, b)
<1>1. Len(t) \in Nat /\ b \in 1..Len(t) /\ b \in 1..(Len(t) + 1)
  BY LenProperties
<1>2. b < x /\ CleanTo(t, B, u, c, b)
  BY DEF Blanked
<1>3. \A k \in 1..(b - 1) : v[k] = u[k]
  BY <1>1, <1>2 DEF Blanks
<1>4. CleanTo(t, B, v, c, b)
  BY <1>1, <1>2, <1>3, CleanToAgrees
<1>5. ASSUME NEW k \in b..Len(t)
      PROVE  v[k] = IF k < y \/ k = b + 1 THEN Blank ELSE t[k]
  <2>1. k \in 1..Len(t)
    BY <1>1
  <2>2. v[k] = IF k \in K THEN Blank ELSE u[k]
    BY <2>1 DEF Blanks
  <2>3. u[k] = IF k < x \/ k = b + 1 THEN Blank ELSE t[k]
    BY DEF Blanked
  <2>4. k \in K <=> x <= k /\ k < y
    BY <2>1
  <2>5. k < y <=> k \in K \/ k < x
    BY <2>1, <2>4
  <2> QED
    BY <2>2, <2>3, <2>5
<1>6. b < y
  BY <1>1, <1>2
<1> QED
  BY <1>4, <1>5, <1>6 DEF Blanked

(* A comment is blank to its end. *)
LEMMA PassComment ==
    ASSUME NEW t \in Seq(Bytes), NEW B \in SUBSET (1..Len(t)), Row(t, B), NEW u, NEW x \in Nat,
           NEW c \in 0..Len(t), NEW b \in B, Blanked(t, B, u, x, c, b), OpensComment(t, b),
           NEW e \in Nat, e = TokenEnd(t, b), e > b, x = e + 1 \/ (e = Len(t) /\ x > e)
    PROVE  /\ CleanTo(t, B, u, c, e + 1) /\ Rest(t, u, e + 1)
           /\ e + 1 \in 1..(Len(t) + 1)
<1>1. Len(t) \in Nat /\ b \in 1..Len(t)
  BY LenProperties
<1>2. e \in b..Len(t)
  BY TokenEndRange
<1>3. CleanTo(t, B, u, c, b)
  BY DEF Blanked
<1>4. ~IsComma(t, b)
  BY DEF IsComma, OpensComment, Opens
<1>5. \A k \in b..e : u[k] = Blank
  BY <1>1, <1>2 DEF Blanked
<1>6. \A k \in b..TokenEnd(t, b) : u[k] = IF OpensComment(t, b) THEN Blank ELSE t[k]
  BY <1>5
<1>7. CleanTo(t, B, u, c, TokenEnd(t, b) + 1)
  BY <1>3, <1>4, <1>6, PassToken
<1>8. Rest(t, u, e + 1)
  BY <1>1, <1>2 DEF Rest, Blanked
<1> QED
  BY <1>1, <1>2, <1>7, <1>8

(* The next byte of a comment is still raw, but for the second of its mark. *)
LEMMA BlankedAt ==
    ASSUME NEW t \in Seq(Bytes), NEW B \in SUBSET (1..Len(t)), NEW u, NEW x \in 1..Len(t), NEW c,
           NEW b \in B, Blanked(t, B, u, x, c, b)
    PROVE  /\ x \in (b + 1)..Len(t)
           /\ u[x] = IF x = b + 1 THEN Blank ELSE t[x]
<1>1. Len(t) \in Nat /\ b \in 1..Len(t)
  BY LenProperties
<1> QED
  BY <1>1 DEF Blanked

(* Where the walk goes on when consumeComment returns k. *)
Returned(t, B, u, k, c) ==
    IF c = 0 THEN InTop(t, B, u, k, 0) ELSE InComma(t, B, u, k + 1, c)

LEMMA ReturnsAtEnd ==
    ASSUME NEW t \in Seq(Bytes), NEW B \in SUBSET (1..Len(t)), NEW u, NEW x \in Nat,
           NEW c \in 0..Len(t), CleanTo(t, B, u, c, Len(t) + 1), x > Len(t)
    PROVE  Returned(t, B, u, x, c)
<1>1. Len(t) \in Nat
  BY LenProperties
<1>2. Rest(t, u, Len(t) + 1)
  BY <1>1 DEF Rest
<1>3. At(t, x, Len(t) + 1) /\ At(t, x + 1, Len(t) + 1) /\ Len(t) + 1 \in 1..(Len(t) + 1)
  BY <1>1 DEF At
<1> QED
  BY <1>2, <1>3 DEF Returned, InTop, InComma

LEMMA LineTurn ==
    ASSUME NEW t \in Seq(Bytes), NEW B \in SUBSET (1..Len(t)), Row(t, B), NEW u, NEW v,
           NEW x \in Nat, NEW c \in 0..Len(t), InLine(t, B, u, x, c)
    PROVE  /\ x <= Len(t) /\ ~isNL(u[x]) /\ Blanks(t, u, v, {x}) => InLine(t, B, v, x + 1, c)
           /\ ~(x <= Len(t) /\ ~isNL(u[x])) => Returned(t, B, u, x, c)
<1>1. Len(t) \in Nat
  BY LenProperties
<1>2. PICK b \in B :
         /\ Opens(t, b, "/") /\ Blanked(t, B, u, x, c, b)
         /\ \A k \in (b + 1)..Len(t) : k < x => ~isNL(t[k])
  BY DEF InLine
<1>3. b \in 1..Len(t) /\ b < x /\ OpensComment(t, b)
  BY <1>2 DEF Blanked, OpensComment
<1>4. b < Len(t) /\ ~isNL(t[b + 1]) /\ ~isNL(Blank)
  BY <1>2 DEF Opens, isNL, Blank
<1>5. ASSUME x <= Len(t) PROVE x \in (b + 1)..Len(t) /\ (isNL(t[x]) <=> isNL(u[x]))
  <2>1. x \in 1..Len(t)
    BY <1>1, <1>3, <1>5
  <2>2. x \in (b + 1)..Len(t) /\ u[x] = IF x = b + 1 THEN Blank ELSE t[x]
    BY <1>2, <2>1, BlankedAt
  <2> QED
    BY <1>4, <2>2
<1>6. ASSUME x <= Len(t), ~isNL(u[x]), Blanks(t, u, v, {x}) PROVE InLine(t, B, v, x + 1, c)
  <2>1. \A k \in 1..Len(t) : k \in {x} <=> x <= k /\ k < x + 1
    BY <1>1
  <2>2. x + 1 \in Nat /\ x < x + 1
    OBVIOUS
  <2>3. Blanked(t, B, v, x + 1, c, b)
    BY <1>2, <1>6, <2>1, <2>2, BlankMore
  <2>4. ASSUME NEW k \in (b + 1)..Len(t), k < x + 1 PROVE ~isNL(t[k])
    <3>1. k < x \/ k = x
      BY <1>3, <2>4
    <3> QED
      BY <1>2, <1>5, <1>6, <3>1
  <2> QED
    BY <1>2, <2>3, <2>4 DEF InLine
<1>7. ASSUME x <= Len(t), isNL(u[x]) PROVE Returned(t, B, u, x, c)
  <2>1. x \in (b + 1)..Len(t) /\ isNL(t[x])
    BY <1>5, <1>7
  <2>2. TokenEnd(t, b) = x - 1
    BY <1>2, <1>3, <2>1, LineEnds
  <2>3. x # b + 1
    BY <1>4, <2>1
  <2>4. x - 1 \in Nat /\ x - 1 > b /\ x = (x - 1) + 1 /\ x # Len(t) + 1 /\ x \in 1..(Len(t) + 1)
    BY <1>1, <1>3, <2>1, <2>3
  <2>5. CleanTo(t, B, u, c, (x - 1) + 1) /\ Rest(t, u, (x - 1) + 1)
    BY <1>2, <1>3, <2>2, <2>4, PassComment
  <2>6. CleanTo(t, B, u, c, x) /\ Rest(t, u, x)
    BY <2>4, <2>5
  <2>7. x \in B
    BY <2>4, <2>6 DEF CleanTo
  <2>8. ~IsComma(t, x) /\ ~IsSlash(t, x) /\ t[x] # Quote /\ isWS(t[x])
    BY <2>1 DEF isNL, isWS, IsComma, IsSlash, Quote
  <2>9. CleanTo(t, B, u, c, x + 1) /\ Rest(t, u, x + 1) /\ x + 1 \in 1..(Len(t) + 1)
    BY <2>6, <2>7, <2>8, PassByte
  <2>10. At(t, x, x) /\ At(t, x + 1, x + 1)
    BY DEF At
  <2> QED
    BY <2>4, <2>6, <2>9, <2>10 DEF Returned, InTop, InComma
<1>8. ASSUME ~(x <= Len(t)) PROVE Returned(t, B, u, x, c)
  <2>1. \A k \in (b + 1)..Len(t) : ~isNL(t[k])
    BY <1>1, <1>2, <1>3, <1>8
  <2>2. TokenEnd(t, b) = Len(t)
    BY <1>2, <1>3, <2>1, LineEnds
  <2>3. Len(t) > b /\ x > Len(t)
    BY <1>1, <1>3, <1>4, <1>8
  <2>4. CleanTo(t, B, u, c, Len(t) + 1)
    BY <1>1, <1>2, <1>3, <2>2, <2>3, PassComment
  <2> QED
    BY <2>3, <2>4, ReturnsAtEnd
<1> QED
  BY <1>6, <1>7, <1>8

IsStar(u, k) == u[k] = "*"

LEMMA BlockTurn ==
    ASSUME NEW t \in Seq(Bytes), NEW B \in SUBSET (1..Len(t)), Row(t, B), NEW u, NEW v,
           NEW x \in Nat, NEW c \in 0..Len(t), InBlock(t, B, u, x, c)
    PROVE  /\ x <= Len(t) /\ ~IsStar(u, x) /\ Blanks(t, u, v, {x}) => InBlock(t, B, v, x + 1, c)
           /\ x > Len(t) => Returned(t, B, u, x, c)
<1>1. Len(t) \in Nat
  BY LenProperties
<1>2. PICK b \in B :
         /\ Opens(t, b, "*") /\ Blanked(t, B, u, x, c, b)
         /\ \A k \in (b + 1)..Len(t) : k <= x => ~ClosesBlock(t, b, k)
  BY DEF InBlock
<1>3. b \in 1..Len(t) /\ b < x /\ OpensComment(t, b)
  BY <1>2 DEF Blanked, OpensComment
<1>4. b < Len(t)
  BY <1>2 DEF Opens
<1>5. ASSUME x <= Len(t), ~IsStar(u, x), Blanks(t, u, v, {x}) PROVE InBlock(t, B, v, x + 1, c)
  <2>1. \A k \in 1..Len(t) : k \in {x} <=> x <= k /\ k < x + 1
    BY <1>1
  <2>2. x + 1 \in Nat /\ x < x + 1 /\ x \in 1..Len(t)
    BY <1>1, <1>3, <1>5
  <2>3. Blanked(t, B, v, x + 1, c, b)
    BY <1>2, <1>5, <2>1, <2>2, BlankMore
  <2>4. u[x] = IF x = b + 1 THEN Blank ELSE t[x]
    BY <1>2, <2>2, BlankedAt
  <2>5. ~ClosesBlock(t, b, x + 1)
    <3> SUFFICES ASSUME ClosesBlock(t, b, x + 1) PROVE FALSE
      OBVIOUS
    <3>1. x + 1 > b + 2 /\ IsStar(t, (x + 1) - 1)
      BY DEF ClosesBlock, IsStar
    <3>2. x # b + 1 /\ (x + 1) - 1 = x
      BY <1>3, <3>1
    <3>3. IsStar(u, x)
      BY <2>4, <3>1, <3>2 DEF IsStar
    <3> QED
      BY <1>5, <3>3
  <2>6. ASSUME NEW k \in (b + 1)..Len(t), k <= x + 1 PROVE ~ClosesBlock(t, b, k)
    <3>1. k <= x \/ k = x + 1
      BY <1>3, <2>6
    <3> QED
      BY <1>2, <2>5, <3>1
  <2> QED
    BY <1>2, <2>3, <2>6 DEF InBlock
<1>6. ASSUME x > Len(t) PROVE Returned(t, B, u, x, c)
  <2>1. \A k \in (b + 1)..Len(t) : ~ClosesBlock(t, b, k)
    BY <1>1, <1>2, <1>3, <1>6
  <2>2. TokenEnd(t, b) = Len(t)
    BY <1>2, <1>3, <2>1, BlockEnds
  <2>3. Len(t) > b
    BY <1>1, <1>3, <1>4
  <2>4. CleanTo(t, B, u, c, Len(t) + 1)
    BY <1>1, <1>2, <1>3, <1>6, <2>2, <2>3, PassComment
  <2> QED
    BY <1>6, <2>4, ReturnsAtEnd
<1> QED
  BY <1>5, <1>6

LEMMA StarTurn ==
    ASSUME NEW t \in Seq(Bytes), NEW B \in SUBSET (1..Len(t)), Row(t, B), Plain(t, B),
           NEW u, NEW v, NEW x \in 1..Len(t), NEW c \in 0..Len(t), InBlock(t, B, u, x, c),
           IsStar(u, x)
    PROVE  /\ x < Len(t) /\ IsSlash(u, x + 1) /\ Blanks(t, u, v, {x, x + 1})
                => Returned(t, B, v, x + 1, c)
           /\ ~(x < Len(t) /\ IsSlash(u, x + 1)) /\ Blanks(t, u, v, {x})
                => InBlock(t, B, v, x + 2, c)
<1>1. Len(t) \in Nat /\ x \in Nat /\ x <= Len(t)
  BY LenProperties
<1>2. PICK b \in B :
         /\ Opens(t, b, "*") /\ Blanked(t, B, u, x, c, b)
         /\ \A k \in (b + 1)..Len(t) : k <= x => ~ClosesBlock(t, b, k)
  BY DEF InBlock
<1>3. b \in 1..Len(t) /\ b < x /\ OpensComment(t, b)
  BY <1>2 DEF Blanked, OpensComment
<1>4. x \in (b + 1)..Len(t) /\ u[x] = IF x = b + 1 THEN Blank ELSE t[x]
  BY <1>2, BlankedAt
<1>5. x # b + 1
  BY <1>4 DEF IsStar, Blank
<1>6. IsStar(t, x)
  BY <1>4, <1>5 DEF IsStar
<1>7. ASSUME x < Len(t) PROVE u[x + 1] = t[x + 1]
  <2>1. x + 1 \in b..Len(t) /\ ~(x + 1 < x) /\ x + 1 # b + 1
    BY <1>1, <1>3, <1>7
  <2> QED
    BY <1>2, <2>1 DEF Blanked
<1>8. ASSUME x < Len(t), IsSlash(u, x + 1), Blanks(t, u, v, {x, x + 1})
      PROVE  Returned(t, B, v, x + 1, c)
  <2>1. \A k \in 1..Len(t) : k \in {x, x + 1} <=> x <= k /\ k < x + 2
    BY <1>1
  <2>2. x + 2 \in Nat /\ x < x + 2 /\ x + 1 \in (b + 1)..Len(t)
    BY <1>1, <1>3, <1>8
  <2>3. Blanked(t, B, v, x + 2, c, b)
    BY <1>1, <1>2, <1>8, <2>1, <2>2, BlankMore
  <2>4. ClosesBlock(t, b, x + 1)
    <3>1. x + 1 > b + 2 /\ (x + 1) - 1 = x
      BY <1>1, <1>3, <1>5
    <3>2. IsSlash(t, x + 1)
      BY <1>7, <1>8 DEF IsSlash
    <3> QED
      BY <1>6, <3>1, <3>2 DEF ClosesBlock, IsSlash, IsStar
  <2>5. \A k \in (b + 1)..Len(t) : k < x + 1 => ~ClosesBlock(t, b, k)
    BY <1>1, <1>2, <1>3
  <2>6. TokenEnd(t, b) = x + 1
    BY <1>2, <1>3, <2>2, <2>4, <2>5, BlockEnds
  <2>7. x + 1 \in Nat /\ x + 1 > b /\ x + 2 = (x + 1) + 1
    BY <1>1, <1>3
  <2>8. /\ CleanTo(t, B, v, c, (x + 1) + 1) /\ Rest(t, v, (x + 1) + 1)
        /\ (x + 1) + 1 \in 1..(Len(t) + 1)
    BY <1>3, <2>2, <2>3, <2>6, <2>7, PassComment
  <2>9. v[x + 1] = Blank
    <3>1. x + 1 \in 1..Len(t)
      BY <1>1, <1>8
    <3> QED
      BY <1>8, <3>1 DEF Blanks
  <2>10. x + 1 = ((x + 1) + 1) - 1 /\ At(t, (x + 1) + 1, (x + 1) + 1)
    BY <1>1 DEF At
  <2> QED
    BY <2>8, <2>9, <2>10 DEF Returned, InTop, InComma
<1>9. ASSUME ~(x < Len(t) /\ IsSlash(u, x + 1)), Blanks(t, u, v, {x})
      PROVE  InBlock(t, B, v, x + 2, c)
  <2>1. TokenEnd(t, b) >= x
    BY <1>2, <1>3, <1>4, BlockEnds
  <2>2. x \in (b + 2)..TokenEnd(t, b)
    <3>1. TokenEnd(t, b) \in b..Len(t)
      BY <1>3, TokenEndRange
    <3> QED
      BY <1>1, <1>3, <1>5, <2>1, <3>1
  <2>3. x = Len(t) \/ IsSlash(t, x + 1)
    BY <1>2, <1>6, <2>2 DEF Plain, IsStar, IsSlash
  <2>4. x = Len(t)
    <3>1. ASSUME x < Len(t) PROVE FALSE
      BY <1>7, <1>9, <2>3, <3>1 DEF IsSlash
    <3> QED
      BY <1>1, <3>1
  <2>5. \A k \in 1..Len(t) : k \in {x} <=> x <= k /\ k < x + 2
    BY <1>1, <2>4
  <2>6. x + 2 \in Nat /\ x < x + 2
    BY <1>1
  <2>7. Blanked(t, B, v, x + 2, c, b)
    BY <1>1, <1>2, <1>9, <2>5, <2>6, BlankMore
  <2>8. \A k \in (b + 1)..Len(t) : ~ClosesBlock(t, b, k)
    BY <1>1, <1>2, <1>3, <2>4
  <2> QED
    BY <1>2, <2>7, <2>8 DEF InBlock
<1> QED
  BY <1>8, <1>9

(* The text is used up in the outer loop, after a comma or in a string. *)
LEMMA WalkEnds ==
    ASSUME NEW t \in Seq(Bytes), NEW B \in SUBSET (1..Len(t)), Row(t, B), NEW u,
           DOMAIN u = DOMAIN t, u = [k \in DOMAIN u |-> u[k]],
           NEW x \in Nat, x > Len(t), NEW c \in 0..Len(t),
           InTop(t, B, u, x, c) \/ InComma(t, B, u, x, c) \/ InString(t, B, u, x, c)
    PROVE  u = Clean(t, B)
<1>1. Len(t) \in Nat /\ Len(t) + 1 \in 1..(Len(t) + 1) /\ 0 \in 0..Len(t)
  BY LenProperties
<1> SUFFICES CleanTo(t, B, u, 0, Len(t) + 1)
  BY CleanToEnd
<1>2. ASSUME NEW p \in 1..(Len(t) + 1), At(t, x, p) PROVE p = Len(t) + 1
  BY <1>1, <1>2 DEF At
<1>3. CASE InTop(t, B, u, x, c)
  <2>1. PICK p \in 1..(Len(t) + 1) :
           CleanTo(t, B, u, 0, p) /\ (At(t, x, p) \/ x = p - 1)
    BY <1>3 DEF InTop
  <2>2. x # p - 1
    BY <1>1
  <2> QED
    BY <1>2, <2>1, <2>2
<1>4. CASE InComma(t, B, u, x, c)
  <2>1. PICK p \in 1..(Len(t) + 1) : CleanTo(t, B, u, c, p) /\ At(t, x, p)
    BY <1>4 DEF InComma
  <2>2. CleanTo(t, B, u, c, Len(t) + 1) /\ c # 0
    BY <1>2, <1>4, <2>1 DEF InComma
  <2> QED
    BY <1>1, <2>2, CommaStays
<1>5. CASE InString(t, B, u, x, c)
  <2>1. PICK b \in B :
           /\ CleanTo(t, B, u, 0, b) /\ Rest(t, u, b) /\ t[b] = Quote
           /\ \A k \in (b + 1)..Len(t) : k < x => ~ClosesString(t, b, k)
    BY <1>5 DEF InString
  <2>2. b \in 1..Len(t)
    OBVIOUS
  <2>3. \A k \in (b + 1)..Len(t) : ~ClosesString(t, b, k)
    BY <1>1, <2>1, <2>2
  <2>4. TokenEnd(t, b) = Len(t)
    BY <2>1, <2>2, <2>3, StringEnds
  <2>5. ~OpensComment(t, b) /\ ~IsComma(t, b)
    BY <2>1, StringToken DEF IsComma, Quote
  <2>6. \A k \in b..TokenEnd(t, b) : u[k] = IF OpensComment(t, b) THEN Blank ELSE t[k]
    BY <2>1, <2>4, <2>5 DEF Rest
  <2>7. CleanTo(t, B, u, 0, TokenEnd(t, b) + 1)
    BY <1>1, <2>1, <2>5, <2>6, PassToken
  <2> QED
    BY <2>4, <2>7
<1> QED
  BY <1>3, <1>4, <1>5

(* Every turn of a loop leads from one place of the walk to another. *)
LEMMA WalkStep ==
    ASSUME PrepInv, NEW B \in SUBSET (1..Len(text)), Row(text, B), Plain(text, B),
           Walk(text, B, loop, s, i, j), [Next]_vars
    PROVE  Walk(text, B, loop', s', i', j')
<1> DEFINE n == Len(text)
<1>1. text \in Seq(Bytes) /\ n \in Nat /\ DOMAIN text = 1..n /\ Len(s) = n /\ DOMAIN s = 1..n
  BY SameLength DEF PrepInv, TypeOK
<1>2. i \in Nat /\ i > 0 /\ j \in 0..n
  BY <1>1 DEF PrepInv, TypeOK
<1>3. ASSUME More PROVE i \in 1..n
  BY <1>1, <1>2, <1>3 DEF More
<1>4. ASSUME NEW K, Overwrite(K) PROVE Blanks(text, s, s', K)
  BY <1>1, <1>4 DEF Overwrite, Blanks
<1>5. /\ loop' = "top" /\ InTop(text, B, s', i', j') => Walk(text, B, loop', s', i', j')
      /\ loop' = "comma" /\ InComma(text, B, s', i', j') => Walk(text, B, loop', s', i', j')
      /\ loop' = "string" /\ InString(text, B, s', i', j') => Walk(text, B, loop', s', i', j')
      /\ loop' = "line" /\ InLine(text, B, s', i', j') => Walk(text, B, loop', s', i', j')
      /\ loop' = "block" /\ InBlock(text, B, s', i', j') => Walk(text, B, loop', s', i', j')
      /\ loop' = "done" /\ s' = Clean(text, B) => Walk(text, B, loop', s', i', j')
  BY DEF Walk
<1>6. ASSUME NEW k, Return(k), j' = j, Returned(text, B, s', k, j)
      PROVE  Walk(text, B, loop', s', i', j')
  BY <1>5, <1>6 DEF Return, Returned, Goto
<1>7. ASSUME Slash, j' = j, i \in B, CleanTo(text, B, s, j, i), Rest(text, s, i), IsSlash(s, i)
      PROVE  Walk(text, B, loop', s', i', j')
  <2>1. /\ i < n /\ s[i + 1] \in {"/", "*"}
        /\ Blanks(text, s, s', {i, i + 1}) =>
             /\ s[i + 1] = "/" => InLine(text, B, s', i + 1, j)
             /\ s[i + 1] # "/" => InBlock(text, B, s', i + 1, j)
    BY <1>1, <1>2, <1>7, AtSlash
  <2>2. /\ Overwrite({i, i + 1})
        /\ loop' = (IF s[i + 1] = "/" THEN "line" ELSE "block") /\ i' = i + 1
    BY <1>1, <1>7, <2>1 DEF Slash, Goto
  <2>3. Blanks(text, s, s', {i, i + 1})
    BY <1>4, <2>2
  <2> QED
    BY <1>5, <1>7, <2>1, <2>2, <2>3
<1>8. CASE TopOther
  <2>1. i \in 1..n /\ InTop(text, B, s, i, j)
    BY <1>3, <1>8 DEF TopOther, AtByte, Walk
  <2>2. j = 0 /\ j' = j /\ s' = s /\ i' = i + 1
    BY <1>8, <2>1 DEF TopOther, Goto, InTop
  <2>3. CASE s[i] = Quote
    <3>1. loop' = "string" /\ InString(text, B, s, i + 1, 0)
      BY <1>1, <1>8, <2>1, <2>3, TopQuote DEF TopOther, Goto
    <3> QED
      BY <1>5, <2>2, <3>1
  <2>4. CASE s[i] # Quote
    <3>1. loop' = "top" /\ ~IsComma(s, i) /\ ~IsSlash(s, i)
      BY <1>8, <2>4 DEF TopOther, Goto, AtByte, IsComma, IsSlash, Blank, Escape
    <3>2. InTop(text, B, s, i + 1, 0)
      BY <1>1, <2>1, <2>4, <3>1, TopPasses
    <3> QED
      BY <1>5, <2>2, <3>1, <3>2
  <2> QED
    BY <2>3, <2>4
<1>9. CASE TopSlash
  <2>1. i \in 1..n /\ InTop(text, B, s, i, j) /\ IsSlash(s, i) /\ Slash /\ j' = j
    BY <1>3, <1>9 DEF TopSlash, AtByte, Walk, IsSlash
  <2>2. s[i] # Blank
    BY <2>1 DEF IsSlash, Blank
  <2>3. j = 0 /\ i \in B /\ CleanTo(text, B, s, 0, i) /\ Rest(text, s, i)
    BY <1>1, <2>1, <2>2, TopAtToken
  <2> QED
    BY <1>7, <2>1, <2>3
<1>10. CASE TopComma
  <2>1. i \in 1..n /\ InTop(text, B, s, i, j) /\ IsComma(s, i)
    BY <1>3, <1>10 DEF TopComma, AtByte, Walk, IsComma
  <2>2. InComma(text, B, s, i + 1, i)
    BY <1>1, <2>1, TopAtComma
  <2> QED
    BY <1>5, <1>10, <2>2 DEF TopComma, Goto
<1>11. CASE StringByte
  <2>1. i \in 1..n /\ InString(text, B, s, i, j)
    BY <1>3, <1>11 DEF StringByte, Walk
  <2>2. /\ s[i] = Quote => InTop(text, B, s, i + 1, 0)
        /\ s[i] # Quote => InString(text, B, s, IF s[i] = Escape THEN i + 2 ELSE i + 1, 0)
    BY <1>1, <2>1, StringTurn
  <2>3. j' = 0 /\ s' = s
    BY <1>11, <2>1 DEF StringByte, InString
  <2> QED
    BY <1>5, <1>11, <2>2, <2>3 DEF StringByte, Goto
<1>12. CASE CommaByte
  <2>1. i \in 1..n /\ InComma(text, B, s, i, j)
    BY <1>3, <1>12 DEF CommaByte, Walk
  <2>2. /\ IsClosing(s, i) /\ Blanks(text, s, s', {j}) => InTop(text, B, s', i, 0)
        /\ isWS(s[i]) => InComma(text, B, s, i + 1, j)
        /\ Settles(s, i) => InTop(text, B, s, i, 0)
    BY <1>1, <1>2, <2>1, CommaTurn
  <2>3. CASE IsClosing(s, i)
    <3>1. Overwrite({j}) /\ loop' = "top" /\ i' = i /\ j' = 0
      BY <1>12, <2>3 DEF CommaByte, IsClosing, isWS, isNL, Blank, Goto
    <3> QED
      BY <1>4, <1>5, <2>2, <2>3, <3>1
  <2>4. CASE IsSlash(s, i)
    <3>1. Slash /\ j' = j
      BY <1>12, <2>4 DEF CommaByte, IsSlash, isWS, isNL, Blank
    <3>2. i \in B /\ CleanTo(text, B, s, j, i) /\ Rest(text, s, i)
      BY <1>1, <2>1, CommaAtToken
    <3> QED
      BY <1>7, <2>4, <3>1, <3>2
  <2>5. CASE isWS(s[i])
    <3>1. loop' = "comma" /\ i' = i + 1 /\ s' = s /\ j' = j
      BY <1>12, <2>5 DEF CommaByte, isWS, isNL, Blank, Goto
    <3> QED
      BY <1>5, <2>2, <2>5, <3>1
  <2>6. CASE Settles(s, i)
    <3>1. loop' = "top" /\ i' = i /\ s' = s /\ j' = 0
      BY <1>12, <2>6 DEF CommaByte, Settles, Goto
    <3> QED
      BY <1>5, <2>2, <2>6, <3>1
  <2> QED
    BY <2>3, <2>4, <2>5, <2>6 DEF IsClosing, IsSlash, Settles
<1>13. CASE LineComment
  <2>1. InLine(text, B, s, i, j) /\ j' = j
    BY <1>13 DEF LineComment, Walk
  <2>2. /\ i <= n /\ ~isNL(s[i]) /\ Blanks(text, s, s', {i}) => InLine(text, B, s', i + 1, j)
        /\ ~(i <= n /\ ~isNL(s[i])) => Returned(text, B, s, i, j)
    BY <1>1, <1>2, <2>1, LineTurn
  <2>3. CASE More /\ ~isNL(s[i])
    <3>1. Overwrite({i}) /\ loop' = "line" /\ i' = i + 1 /\ i <= n
      BY <1>1, <1>13, <2>3 DEF LineComment, Goto, More
    <3> QED
      BY <1>4, <1>5, <2>1, <2>2, <2>3, <3>1
  <2>4. CASE ~(More /\ ~isNL(s[i]))
    <3>1. Return(i) /\ s' = s
      BY <1>13, <2>4 DEF LineComment
    <3>2. ~(i <= n /\ ~isNL(s[i]))
      BY <1>1, <2>4 DEF More
    <3> QED
      BY <1>6, <2>1, <2>2, <3>1, <3>2
  <2> QED
    BY <2>3, <2>4
<1>14. CASE BlockByte
  <2>1. InBlock(text, B, s, i, j) /\ j' = j
    BY <1>14 DEF BlockByte, Walk
  <2>2. /\ i <= n /\ ~IsStar(s, i) /\ Blanks(text, s, s', {i}) => InBlock(text, B, s', i + 1, j)
        /\ i > n => Returned(text, B, s, i, j)
    BY <1>1, <1>2, <2>1, BlockTurn
  <2>3. CASE More /\ s[i] # "*"
    <3>1. Overwrite({i}) /\ loop' = "block" /\ i' = i + 1 /\ i <= n /\ ~IsStar(s, i)
      BY <1>1, <1>14, <2>3 DEF BlockByte, Goto, More, IsStar
    <3> QED
      BY <1>4, <1>5, <2>1, <2>2, <3>1
  <2>4. CASE ~(More /\ s[i] # "*")
    <3>1. Return(i) /\ s' = s /\ ~More
      BY <1>14, <2>4 DEF BlockByte
    <3>2. i > n
      BY <1>1, <1>2, <3>1 DEF More
    <3> QED
      BY <1>6, <2>1, <2>2, <3>1, <3>2
  <2> QED
    BY <2>3, <2>4
<1>15. CASE BlockStar
  <2>1. i \in 1..n /\ InBlock(text, B, s, i, j) /\ j' = j /\ IsStar(s, i)
    BY <1>3, <1>15 DEF BlockStar, AtByte, Walk, IsStar
  <2>2. /\ i < n /\ IsSlash(s, i + 1) /\ Blanks(text, s, s', {i, i + 1})
             => Returned(text, B, s', i + 1, j)
        /\ ~(i < n /\ IsSlash(s, i + 1)) /\ Blanks(text, s, s', {i})
             => InBlock(text, B, s', i + 2, j)
    BY <1>1, <1>2, <2>1, StarTurn
  <2>3. CASE i < Len(s) /\ s[i + 1] = "/"
    <3>1. Overwrite({i, i + 1}) /\ Return(i + 1) /\ i < n /\ IsSlash(s, i + 1)
      BY <1>1, <1>15, <2>3 DEF BlockStar, IsSlash
    <3>2. Returned(text, B, s', i + 1, j)
      BY <1>4, <2>2, <3>1
    <3> QED
      BY <1>6, <2>1, <3>1, <3>2
  <2>4. CASE ~(i < Len(s) /\ s[i + 1] = "/")
    <3>1. /\ Overwrite({i}) /\ loop' = "block" /\ i' = i + 2
          /\ ~(i < n /\ IsSlash(s, i + 1))
      BY <1>1, <1>15, <2>4 DEF BlockStar, IsSlash, Goto
    <3> QED
      BY <1>4, <1>5, <2>1, <2>2, <3>1
  <2> QED
    BY <2>3, <2>4
<1>16. CASE End
  <2>1. i > n /\ loop' = "done" /\ s' = s
    BY <1>1, <1>2, <1>16 DEF End, More, Goto
  <2>2. InTop(text, B, s, i, j) \/ InComma(text, B, s, i, j) \/ InString(text, B, s, i, j)
    BY <1>16 DEF End, Walk
  <2>3. DOMAIN s = DOMAIN text /\ s = [k \in DOMAIN s |-> s[k]]
    BY DEF PrepInv, TypeOK
  <2>4. s = Clean(text, B)
    BY <1>1, <1>2, <2>1, <2>2, <2>3, WalkEnds
  <2> QED
    BY <1>5, <2>1, <2>4
<1>17. CASE UNCHANGED vars
  BY <1>17 DEF vars
<1> QED
  BY <1>8, <1>9, <1>10, <1>11, <1>12, <1>13, <1>14, <1>15, <1>16, <1>17 DEF Next

CleanInv ==
    \A B \in SUBSET DOMAIN text :
        Row(text, B) /\ Plain(text, B) => Walk(text, B, loop, s, i, j)

(* On every text without a stray slash and without a star inside a block    *)
(* comment, however long, prep leaves what Clean says: comments and         *)
(* trailing commas are blank, and every other byte, those of the strings    *)
(* with their quotes and escapes among them, is as it was (json5.go 21-88). *)
THEOREM PrepCleans == Spec => []Cleaned
<1>1. Init => PrepInv /\ CleanInv
  <2> SUFFICES ASSUME Init PROVE PrepInv /\ CleanInv
    OBVIOUS
  <2>1. PICK n \in 0..MaxLen : text \in [1..n -> Bytes]
    BY DEF Init
  <2>2. text \in Seq(Bytes) /\ Len(text) = n /\ DOMAIN text = 1..n /\ n \in Nat
    BY <2>1
  <2>3. PrepInv
    BY <2>1, <2>2, MaxLenAssumption DEF Init, PrepInv, TypeOK, InnerInv
  <2>4. ASSUME NEW B \in SUBSET DOMAIN text, Row(text, B)
        PROVE  Walk(text, B, loop, s, i, j)
    <3>1. 1 \in B \/ 1 = Len(text) + 1
      <4>1. text = <<>> <=> Len(text) = 0
        BY <2>2, EmptySeq
      <4> QED
        BY <2>2, <2>4, <4>1 DEF Row
    <3>2. CleanTo(text, B, s, 0, 1)
      BY <3>1 DEF CleanTo
    <3>3. Rest(text, s, 1) /\ At(text, i, 1) /\ 1 \in 1..(Len(text) + 1)
      BY <2>2 DEF Init, Rest, At
    <3>4. InTop(text, B, s, i, j)
      BY <3>2, <3>3 DEF InTop, Init
    <3> QED
      BY <3>4 DEF Walk, Init
  <2> QED
    BY <2>3, <2>4 DEF CleanInv
<1>2. PrepInv /\ CleanInv /\ [Next]_vars => CleanInv'
  <2> SUFFICES ASSUME PrepInv, CleanInv, [Next]_vars,
                      NEW B \in SUBSET DOMAIN text', Row(text', B), Plain(text', B)
               PROVE  Walk(text', B, loop', s', i', j')
    BY DEF CleanInv
  <2>1. text' = text
    BY DEF Next, TopOther, TopSlash, TopComma, StringByte, CommaByte, LineComment, BlockByte,
           BlockStar, End, vars
  <2>2. DOMAIN text = 1..Len(text)
    BY SameLength DEF PrepInv
  <2>3. B \in SUBSET (1..Len(text)) /\ Row(text, B) /\ Plain(text, B)
    BY <2>1, <2>2
  <2>4. Walk(text, B, loop, s, i, j)
    BY <2>1, <2>3, <2>2 DEF CleanInv
  <2>5. Walk(text, B, loop', s', i', j')
    BY <2>3, <2>4, WalkStep
  <2> QED
    BY <2>1, <2>5
<1>3. PrepInv /\ CleanInv => Cleaned
  <2> SUFFICES ASSUME PrepInv, CleanInv, loop = "done", Plain(text, Tokens(text))
               PROVE  s = Clean(text, Tokens(text))
    BY DEF Cleaned
  <2>1. text \in Seq(Bytes)
    BY DEF PrepInv, TypeOK
  <2>2. Tokens(text) \in SUBSET DOMAIN text /\ Row(text, Tokens(text))
    BY <2>1, TextIsRow DEF Tokens
  <2>3. Walk(text, Tokens(text), loop, s, i, j)
    BY <2>2 DEF CleanInv
  <2> QED
    BY <2>3 DEF Walk
<1> QED
  BY <1>1, <1>2, <1>3, PrepStep, PTL DEF Spec

-----------------------------------------------------------------------------
(* How far prep has come: the position first, and at one position the outer *)
(* loop comes after the inner ones and the end after all.                   *)
Rank(l) == IF l = "done" THEN 2 ELSE IF l = "top" THEN 1 ELSE 0

Progress == 3 * i + Rank(loop)

(* No text makes prep turn in circles: every turn of a loop brings it       *)
(* further, a loop that is left without moving on (json5.go 70-84) and a    *)
(* comment that runs into the end (lines 22-46) too, and there is a bound   *)
(* to that, so that it ends after at most three turns for each byte and a   *)
(* few more.                                                                *)
THEOREM PrepAdvances ==
    Spec => /\ [][Progress' > Progress]_vars
            /\ [](Progress \in 0..(3 * Len(text) + 11))
<1>1. Init => PrepInv
  <2> SUFFICES ASSUME Init PROVE PrepInv
    OBVIOUS
  <2>1. PICK n \in 0..MaxLen : text \in [1..n -> Bytes]
    BY DEF Init
  <2>2. text \in Seq(Bytes) /\ Len(text) = n /\ DOMAIN text = 1..n /\ n \in Nat
    BY <2>1
  <2> QED
    BY <2>1, <2>2, MaxLenAssumption DEF Init, PrepInv, TypeOK, InnerInv
<1>2. PrepInv => Progress \in 0..(3 * Len(text) + 11)
  <2> SUFFICES ASSUME PrepInv PROVE Progress \in 0..(3 * Len(text) + 11)
    OBVIOUS
  <2>1. Len(text) \in Nat /\ i \in 1..(Len(text) + 3)
    BY SameLength DEF PrepInv, TypeOK
  <2> QED
    BY <2>1 DEF Progress, Rank
<1>3. PrepInv /\ [Next]_vars => [Progress' > Progress]_vars
  <2> SUFFICES ASSUME PrepInv, Next PROVE Progress' > Progress
    BY DEF vars
  <2>1. i \in Nat /\ i' \in Nat
    <3>1. PrepInv'
      BY PrepStep
    <3> QED
      BY <3>1 DEF PrepInv, TypeOK
  <2>2. /\ loop = "done" => Progress = 3 * i + 2
        /\ loop = "top" => Progress = 3 * i + 1
        /\ loop \notin {"done", "top"} => Progress = 3 * i
        /\ loop' = "done" => Progress' = 3 * i' + 2
        /\ loop' = "top" => Progress' = 3 * i' + 1
        /\ loop' \notin {"done", "top"} => Progress' = 3 * i'
    BY <2>1 DEF Progress, Rank
  <2>3. ASSUME NEW k \in Nat, loop # "done", loop = "top" => k > i, k >= i, Return(k)
        PROVE  Progress' > Progress
    <3>1. (loop' = "top" /\ i' = k) \/ (loop' = "comma" /\ i' = k + 1)
      BY <2>3 DEF Return, Goto
    <3> QED
      BY <2>1, <2>2, <2>3, <3>1
  <2>4. ASSUME Slash, loop # "done" PROVE Progress' > Progress
    <3>1. CASE i < Len(s) /\ s[i + 1] \in {"/", "*"}
      <4>1. loop' \in {"line", "block"} /\ i' = i + 1
        BY <2>4, <3>1 DEF Slash, Goto
      <4> QED
        BY <2>1, <2>2, <2>4, <4>1
    <3>2. CASE ~(i < Len(s) /\ s[i + 1] \in {"/", "*"})
      <4>1. Return(i + 1) /\ i + 1 \in Nat /\ i + 1 > i /\ i + 1 >= i
        BY <2>1, <2>4, <3>2 DEF Slash
      <4> QED
        BY <2>3, <2>4, <4>1
    <3> QED
      BY <3>1, <3>2
  <2>5. CASE TopOther \/ TopComma \/ StringByte
    <3>1. loop \in {"top", "string"} /\ loop' # "done" /\ i' \in {i + 1, i + 2}
      BY <2>5 DEF TopOther, TopComma, StringByte, AtByte, Goto
    <3> QED
      BY <2>1, <2>2, <3>1
  <2>6. CASE TopSlash
    BY <2>4, <2>6 DEF TopSlash, AtByte
  <2>7. CASE CommaByte
    <3>1. loop = "comma" /\ (Slash \/ (loop' = "top" /\ i' = i) \/ (loop' = "comma" /\ i' = i + 1))
      BY <2>7 DEF CommaByte, Goto
    <3> QED
      BY <2>1, <2>2, <2>4, <3>1
  <2>8. CASE LineComment \/ BlockByte
    <3>1. /\ loop \in {"line", "block"}
          /\ Return(i) \/ (loop' \in {"line", "block"} /\ i' = i + 1)
      BY <2>8 DEF LineComment, BlockByte, Goto
    <3>2. CASE Return(i)
      BY <2>1, <2>3, <3>1, <3>2
    <3>3. CASE loop' \in {"line", "block"} /\ i' = i + 1
      BY <2>1, <2>2, <3>1, <3>3
    <3> QED
      BY <3>1, <3>2, <3>3
  <2>9. CASE BlockStar
    <3>1. loop = "block" /\ (Return(i + 1) \/ (loop' = "block" /\ i' = i + 2))
      BY <2>9 DEF BlockStar, AtByte, Goto
    <3>2. CASE Return(i + 1)
      BY <2>1, <2>3, <3>1, <3>2
    <3>3. CASE loop' = "block" /\ i' = i + 2
      BY <2>1, <2>2, <3>1, <3>3
    <3> QED
      BY <3>1, <3>2, <3>3
  <2>10. CASE End
    <3>1. loop \in {"top", "string", "comma"} /\ loop' = "done" /\ i' = i
      BY <2>10 DEF End, Goto
    <3> QED
      BY <2>1, <2>2, <3>1
  <2> QED
    BY <2>5, <2>6, <2>7, <2>8, <2>9, <2>10 DEF Next
<1> QED
  BY <1>1, <1>2, <1>3, PrepStep, PTL DEF Spec
=============================================================================
