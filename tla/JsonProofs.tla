------------------------------ MODULE JsonProofs ------------------------------
(***************************************************************************)
(* Proof that the parser accepts the texts of the grammar of JSON and no   *)
(* others, whatever the bound on their length.  The grammar is turned into *)
(* equations between sets of texts, and these into what each token leaves  *)
(* to come; the parser's place and stack say what that is.                 *)
(***************************************************************************)
EXTENDS JsonParser, TLAPS, SequenceTheorems, WellFoundedInduction

Strings == Seq(Tokens)

One(t) == {<<t>>}
Cat(A, B) == {a \o b : a \in A, b \in B}

(* A text of two parts.                                                    *)
LEMMA CatMember ==
  ASSUME NEW A, NEW B, NEW r
  PROVE  r \in Cat(A, B) <=> \E a \in A, b \in B : r = a \o b
BY DEF Cat

(* Concatenation stays among the texts.                                    *)
LEMMA CatIsString ==
  ASSUME NEW A \in SUBSET Strings, NEW B \in SUBSET Strings
  PROVE  Cat(A, B) \in SUBSET Strings
<1>1. ASSUME NEW r \in Cat(A, B) PROVE r \in Strings
  <2>1. PICK a \in A, b \in B : r = a \o b
    BY CatMember
  <2>. QED
    BY <2>1, ConcatProperties DEF Strings
<1>. QED
  BY <1>1

(* A token is a text.                                                      *)
LEMMA OneIsString == \A t \in Tokens : <<t>> \in Strings /\ One(t) \in SUBSET Strings
BY DEF One, Strings

(* Concatenation of sets of texts is associative,                          *)
LEMMA CatAssociates ==
  ASSUME NEW A \in SUBSET Strings, NEW B \in SUBSET Strings, NEW C \in SUBSET Strings
  PROVE  Cat(Cat(A, B), C) = Cat(A, Cat(B, C))
<1>1. \A a \in A, b \in B, c \in C : (a \o b) \o c = a \o (b \o c)
  BY ConcatAssociative DEF Strings
<1>2. ASSUME NEW r \in Cat(Cat(A, B), C) PROVE r \in Cat(A, Cat(B, C))
  <2>1. PICK ab \in Cat(A, B), c \in C : r = ab \o c
    BY CatMember
  <2>2. PICK a \in A, b \in B : ab = a \o b
    BY CatMember
  <2>3. b \o c \in Cat(B, C) /\ r = a \o (b \o c)
    BY <1>1, <2>1, <2>2, CatMember
  <2>. QED
    BY <2>3, CatMember
<1>3. ASSUME NEW r \in Cat(A, Cat(B, C)) PROVE r \in Cat(Cat(A, B), C)
  <2>1. PICK a \in A, bc \in Cat(B, C) : r = a \o bc
    BY CatMember
  <2>2. PICK b \in B, c \in C : bc = b \o c
    BY CatMember
  <2>3. a \o b \in Cat(A, B) /\ r = (a \o b) \o c
    BY <1>1, <2>1, <2>2, CatMember
  <2>. QED
    BY <2>3, CatMember
<1>. QED
  BY <1>2, <1>3

(* and distributes over a union on the left.                               *)
LEMMA CatOfUnion ==
  ASSUME NEW A, NEW B, NEW C
  PROVE  Cat(A \cup B, C) = Cat(A, C) \cup Cat(B, C)
BY DEF Cat

(* What a first token leaves to come.                                      *)
LEMMA StartsWith ==
  ASSUME NEW t \in Tokens, NEW u \in Tokens, NEW r \in Strings, NEW B \in SUBSET Strings
  PROVE  <<t>> \o r \in Cat(One(u), B) <=> t = u /\ r \in B
<1>1. ASSUME <<t>> \o r \in Cat(One(u), B) PROVE t = u /\ r \in B
  <2>1. PICK b \in B : <<t>> \o r = <<u>> \o b
    BY <1>1 DEF Cat, One
  <2>2. <<t>> \in Seq(Tokens) /\ <<u>> \in Seq(Tokens) /\ b \in Seq(Tokens) /\ r \in Seq(Tokens)
    BY DEF Strings
  <2>3. (<<t>> \o r)[1] = t /\ (<<u>> \o b)[1] = u
    BY <2>2
  <2>4. t = u
    BY <2>1, <2>3
  <2>5. r = b
    BY <2>1, <2>2, <2>4, ConcatSimplifications
  <2>. QED
    BY <2>4, <2>5
<1>2. ASSUME t = u, r \in B PROVE <<t>> \o r \in Cat(One(u), B)
  BY <1>2 DEF Cat, One
<1>. QED
  BY <1>1, <1>2
-----------------------------------------------------------------------------
Less == {p \in Nat \X Nat : p[1] < p[2]}
(* A set of numbers has a least one.                                       *)
LEMMA LeastOf ==
  ASSUME NEW T \in SUBSET Nat, T # {}
  PROVE  \E n \in T : \A m \in T : n <= m
<1>1. OpToRel(<, Nat) = Less
  BY DEF OpToRel, Less
<1>2. IsWellFoundedOn(Less, Nat)
  BY <1>1, NatLessThanWellFounded, Zenon
<1>3. PICK n \in T : \A m \in T : ~ (<<m, n>> \in Less)
  BY <1>2, WFMin
<1>4. \A m, k \in Nat : m < k => <<m, k>> \in Less
  BY DEF Less
<1>5. ASSUME NEW m \in T PROVE n <= m
  <2>1. m \in Nat /\ n \in Nat /\ ~ (m < n)
    BY <1>3, <1>4
  <2>. QED
    BY <2>1
<1>. QED
  BY <1>5

(* Induction over the natural numbers: the hypothesis is a set, since no   *)
(* prover takes a theorem about all predicates.                            *)
LEMMA Induction ==
  ASSUME NEW H \in SUBSET Nat,
         \A n \in Nat : (\A m \in Nat : m < n => m \in H) => n \in H
  PROVE  H = Nat
<1>1. SUFFICES ASSUME Nat \ H # {} PROVE FALSE
  OBVIOUS
<1> DEFINE T == Nat \ H
<1>2. T \in SUBSET Nat /\ T # {}
  BY <1>1
<1> HIDE DEF T
<1>3. PICK n \in T : \A m \in T : n <= m
  BY <1>2, LeastOf
<1>. QED
  BY <1>3 DEF T

Longer(table, n) == Append(table, OfLength(table, n))

IsRun(g, n) == g = [i \in 0 .. n |-> IF i = 0 THEN <<>> ELSE Longer(g[i - 1], i)]

(* Two runs of the table agree where both are defined,                     *)
LEMMA RunsAgree ==
  ASSUME NEW n \in Nat, NEW m \in Nat, NEW g, NEW h, IsRun(g, n), IsRun(h, m)
  PROVE  \A i \in Nat : i <= n /\ i <= m => g[i] = h[i]
<1> DEFINE H == {i \in Nat : i <= n /\ i <= m => g[i] = h[i]}
<1>0. /\ \A i \in 0 .. n : g[i] = IF i = 0 THEN <<>> ELSE Longer(g[i - 1], i)
      /\ \A i \in 0 .. m : h[i] = IF i = 0 THEN <<>> ELSE Longer(h[i - 1], i)
  BY DEF IsRun
<1>1. ASSUME NEW i \in Nat, \A j \in Nat : j < i => j \in H PROVE i \in H
  <2>1. CASE i = 0
    BY <1>0, <2>1
  <2>2. CASE i > 0 /\ i <= n /\ i <= m
    <3>1. i - 1 \in H
      BY <1>1, <2>2
    <3>2. g[i - 1] = h[i - 1]
      BY <3>1, <2>2
    <3>. QED
      BY <1>0, <2>2, <3>2
  <2>. QED
    BY <2>1, <2>2
<1> HIDE DEF H
<1>2. H \in SUBSET Nat
  BY DEF H
<1>3. H = Nat
  BY <1>1, <1>2, Induction
<1>. QED
  BY <1>3 DEF H

(* and there is one of any length; so the recursion defines the table.     *)
LEMMA RunExists == \A n \in Nat : \E g : IsRun(g, n)
<1> DEFINE H == {n \in Nat : \E g : IsRun(g, n)}
<1>1. ASSUME NEW n \in Nat, \A j \in Nat : j < n => j \in H PROVE n \in H
  <2>1. CASE n = 0
    <3> DEFINE g == [i \in 0 .. n |-> <<>>]
    <3>1. IsRun(g, n)
      BY <2>1 DEF IsRun
    <3>. QED
      BY <3>1
  <2>2. CASE n > 0
    <3>1. n - 1 \in H
      BY <1>1, <2>2
    <3>2. PICK g : IsRun(g, n - 1)
      BY <3>1
    <3>3. \A i \in 0 .. n - 1 : g[i] = IF i = 0 THEN <<>> ELSE Longer(g[i - 1], i)
      BY <3>2 DEF IsRun
    <3> DEFINE h == [i \in 0 .. n |-> IF i < n THEN g[i] ELSE Longer(g[n - 1], n)]
    <3>4. ASSUME NEW i \in 0 .. n
          PROVE  h[i] = IF i = 0 THEN <<>> ELSE Longer(h[i - 1], i)
      <4>1. CASE i = n
        <5>1. h[i] = Longer(g[n - 1], n) /\ h[i - 1] = g[n - 1]
          BY <4>1, <2>2
        <5>. QED
          BY <4>1, <5>1, <2>2
      <4>2. CASE i < n
        <5>1. h[i] = g[i] /\ (i # 0 => h[i - 1] = g[i - 1])
          BY <4>2, <2>2
        <5>2. g[i] = IF i = 0 THEN <<>> ELSE Longer(g[i - 1], i)
          BY <3>3, <4>2
        <5>. QED
          BY <5>1, <5>2
      <4>. QED
        BY <4>1, <4>2
    <3>5. h = [i \in 0 .. n |-> h[i]]
      OBVIOUS
    <3> HIDE DEF h
    <3>6. IsRun(h, n)
      BY <3>4, <3>5 DEF IsRun
    <3>. QED
      BY <3>6
  <2>. QED
    BY <2>1, <2>2
<1> HIDE DEF H
<1>2. H \in SUBSET Nat
  BY DEF H
<1>3. H = Nat
  BY <1>1, <1>2, Induction
<1>. QED
  BY <1>3 DEF H

(* The table of the grammar is what its recursion says.                    *)
LEMMA GrammarUnfolds ==
  Grammar = [n \in Nat |-> IF n = 0 THEN <<>> ELSE Longer(Grammar[n - 1], n)]
<1> DEFINE run(n) == CHOOSE g : IsRun(g, n)
           F == [n \in Nat |-> run(n)[n]]
<1>1. \A n \in Nat : IsRun(run(n), n)
  BY RunExists
<1> HIDE DEF run
<1>2. ASSUME NEW n \in Nat PROVE F[n] = IF n = 0 THEN <<>> ELSE Longer(F[n - 1], n)
  <2>1. run(n)[n] = IF n = 0 THEN <<>> ELSE Longer(run(n)[n - 1], n)
    BY <1>1 DEF IsRun
  <2>2. n # 0 => run(n)[n - 1] = run(n - 1)[n - 1]
    <3>1. SUFFICES ASSUME n # 0 PROVE run(n)[n - 1] = run(n - 1)[n - 1]
      OBVIOUS
    <3>2. n - 1 \in Nat /\ n - 1 <= n /\ n - 1 <= n - 1
      BY <3>1
    <3>3. IsRun(run(n), n) /\ IsRun(run(n - 1), n - 1)
      BY <1>1, <3>2
    <3>. QED
      BY <3>2, <3>3, RunsAgree
  <2>. QED
    BY <2>1, <2>2
<1>3. F = [n \in Nat |-> F[n]]
  OBVIOUS
<1> HIDE DEF F
<1>4. F = [n \in Nat |-> IF n = 0 THEN <<>> ELSE Longer(F[n - 1], n)]
  BY <1>2, <1>3
<1>5. \E f : f = [n \in Nat |-> IF n = 0 THEN <<>> ELSE Longer(f[n - 1], n)]
  BY <1>4
<1>6. Grammar = CHOOSE f : f = [n \in Nat |-> IF n = 0 THEN <<>> ELSE Longer(f[n - 1], n)]
  BY DEF Grammar, Longer
<1>. QED
  BY <1>5, <1>6
-----------------------------------------------------------------------------
(* The texts of n tokens, and a row of the table with those.               *)
StringsOf(n) == [1 .. n -> Tokens]
RowOf(n) == [values : SUBSET StringsOf(n), items : SUBSET StringsOf(n),
             members : SUBSET StringsOf(n)]
Rows == UNION {RowOf(n) : n \in Nat}

(* The texts of n tokens are those of length n.                            *)
LEMMA StringLengths ==
  /\ \A n \in Nat : \A s \in StringsOf(n) : s \in Strings /\ Len(s) = n
  /\ \A s \in Strings : s \in StringsOf(Len(s)) /\ Len(s) \in Nat
BY DEF StringsOf, Strings

(* Lengths add up.                                                         *)
LEMMA ConcatLengths ==
  ASSUME NEW m \in Nat, NEW n \in Nat, NEW s \in StringsOf(m), NEW t \in StringsOf(n)
  PROVE  s \o t \in StringsOf(m + n)
<1>1. s \in Strings /\ t \in Strings /\ Len(s) = m /\ Len(t) = n
  BY StringLengths
<1>2. s \o t \in Strings /\ Len(s \o t) = m + n
  BY <1>1, ConcatProperties DEF Strings
<1>. QED
  BY <1>2, StringLengths

(* Texts of one and of two tokens.                                         *)
LEMMA TokenStrings ==
  /\ \A t \in Tokens : <<t>> \in StringsOf(1)
  /\ \A t, u \in Tokens : <<t, u>> \in StringsOf(2)
BY DEF StringsOf

(* A list is a first element, a comma and a rest.                          *)
LEMMA ListsMember ==
  ASSUME NEW A, NEW B, NEW r
  PROVE  r \in Lists(A, B) <=> \E a \in A, b \in B : r = Joined(a, b)
BY DEF Lists

(* A row for n tokens holds texts of n tokens.                             *)
LEMMA RowTypes ==
  ASSUME NEW n \in Nat \ {0}, NEW table, \A k \in 1 .. n - 1 : table[k] \in RowOf(k)
  PROVE  OfLength(table, n) \in RowOf(n)
<1>1. {"begin-object", "end-object", "begin-array", "end-array", "colon", "comma",
       "string", "scalar"} \subseteq Tokens
  BY DEF Tokens
<1>2. ASSUME NEW k \in Nat, NEW s \in StringsOf(k), NEW t \in Tokens, NEW u \in Tokens
      PROVE  Within(t, s, u) \in StringsOf(k + 2)
  <2>1. <<t>> \o s \in StringsOf(1 + k)
    BY TokenStrings, ConcatLengths
  <2>2. (<<t>> \o s) \o <<u>> \in StringsOf((1 + k) + 1)
    BY <2>1, TokenStrings, ConcatLengths
  <2>. QED
    BY <2>2 DEF Within
<1>3. Values(table, n) \subseteq StringsOf(n)
  <2>1. CASE n = 1
    BY <1>1, <2>1, TokenStrings DEF Values
  <2>2. CASE n = 2
    BY <1>1, <2>2, TokenStrings DEF Values
  <2>3. CASE n # 1 /\ n # 2
    <3>1. n - 2 \in 1 .. n - 1 /\ (n - 2) + 2 = n /\ n - 2 \in Nat
      BY <2>3
    <3>2. /\ table[n - 2].items \subseteq StringsOf(n - 2)
          /\ table[n - 2].members \subseteq StringsOf(n - 2)
      BY <3>1 DEF RowOf
    <3>3. ASSUME NEW s \in StringsOf(n - 2)
          PROVE  /\ Within("begin-array", s, "end-array") \in StringsOf(n)
                 /\ Within("begin-object", s, "end-object") \in StringsOf(n)
      BY <1>1, <1>2, <3>1
    <3>. QED
      BY <2>3, <3>2, <3>3 DEF Values
  <2>. QED
    BY <2>1, <2>2, <2>3
<1>4. ASSUME NEW k \in 1 .. n PROVE Member(table, k) \subseteq StringsOf(k)
  <2>1. CASE k < 3
    BY <2>1 DEF Member
  <2>2. CASE k >= 3
    <3>1. k - 2 \in 1 .. n - 1 /\ 2 + (k - 2) = k /\ k - 2 \in Nat
      BY <2>2
    <3>2. table[k - 2].values \subseteq StringsOf(k - 2)
      BY <3>1 DEF RowOf
    <3>3. ASSUME NEW v \in table[k - 2].values PROVE Named(v) \in StringsOf(k)
      <4>1. <<"colon">> \o v \in StringsOf(1 + (k - 2))
        BY <1>1, <3>1, <3>2, TokenStrings, ConcatLengths
      <4>2. 1 + (k - 2) \in Nat /\ 1 + (1 + (k - 2)) = k
        BY <3>1
      <4>3. <<"string">> \o (<<"colon">> \o v) \in StringsOf(1 + (1 + (k - 2)))
        BY <1>1, <4>1, <4>2, TokenStrings, ConcatLengths
      <4>. QED
        BY <4>2, <4>3 DEF Named
    <3>. QED
      BY <2>2, <3>3 DEF Member
  <2>. QED
    BY <2>1, <2>2
<1>5. ASSUME NEW k \in 1 .. n - 2, NEW A \in SUBSET StringsOf(k),
             NEW B \in SUBSET StringsOf(n - k - 1)
      PROVE  Lists(A, B) \subseteq StringsOf(n)
  <2>1. ASSUME NEW f \in A, NEW r \in B PROVE Joined(f, r) \in StringsOf(n)
    <3>1. k \in Nat /\ n - k - 1 \in Nat /\ k + 1 \in Nat /\ (k + 1) + (n - k - 1) = n
      OBVIOUS
    <3>2. f \o <<"comma">> \in StringsOf(k + 1)
      BY <1>1, <3>1, TokenStrings, ConcatLengths
    <3>3. (f \o <<"comma">>) \o r \in StringsOf((k + 1) + (n - k - 1))
      BY <3>1, <3>2, ConcatLengths
    <3>. QED
      BY <3>1, <3>3 DEF Joined
  <2>2. ASSUME NEW s \in Lists(A, B) PROVE s \in StringsOf(n)
    BY <2>1, ListsMember
  <2>. QED
    BY <2>2
<1>6. ASSUME NEW k \in 1 .. n - 2
      PROVE  /\ Lists(table[k].values, table[n - k - 1].items) \subseteq StringsOf(n)
             /\ Lists(Member(table, k), table[n - k - 1].members) \subseteq StringsOf(n)
  <2>1. k \in 1 .. n - 1 /\ n - k - 1 \in 1 .. n - 1 /\ k \in 1 .. n
    OBVIOUS
  <2>2. table[k] \in RowOf(k) /\ table[n - k - 1] \in RowOf(n - k - 1)
    BY <2>1
  <2>. QED
    BY <1>4, <1>5, <2>1, <2>2 DEF RowOf
<1>7. n \in 1 .. n
  OBVIOUS
<1>. QED
  BY <1>3, <1>4, <1>6, <1>7 DEF OfLength, RowOf
-----------------------------------------------------------------------------
Row(n) == Grammar[n][n]

(* The table for n tokens has n rows, which later ones keep.               *)
LEMMA TableRows ==
  \A n \in Nat : /\ Grammar[n] \in Seq(Rows) /\ Len(Grammar[n]) = n
                 /\ \A k \in 1 .. n : Grammar[n][k] = Row(k) /\ Row(k) \in RowOf(k)
<1> DEFINE Good(n) == /\ Grammar[n] \in Seq(Rows) /\ Len(Grammar[n]) = n
                      /\ \A k \in 1 .. n : Grammar[n][k] = Row(k) /\ Row(k) \in RowOf(k)
           H == {n \in Nat : Good(n)}
<1>0. \A n \in Nat : Grammar[n] = IF n = 0 THEN <<>> ELSE Longer(Grammar[n - 1], n)
  BY GrammarUnfolds
<1>1. ASSUME NEW n \in Nat, \A j \in Nat : j < n => j \in H PROVE n \in H
  <2>1. CASE n = 0
    <3>1. Grammar[n] = <<>> /\ 1 .. n = {}
      BY <1>0, <2>1
    <3>. QED
      BY <2>1, <3>1, EmptySeq
  <2>2. CASE n > 0
    <3>1. n - 1 \in Nat /\ Good(n - 1)
      BY <1>1, <2>2
    <3>2. Grammar[n] = Append(Grammar[n - 1], OfLength(Grammar[n - 1], n))
      <4>1. Grammar[n] = Longer(Grammar[n - 1], n)
        BY <1>0, <2>2
      <4>. QED
        BY <4>1 DEF Longer
    <3>3. OfLength(Grammar[n - 1], n) \in RowOf(n)
      <4>1. \A k \in 1 .. n - 1 : Grammar[n - 1][k] \in RowOf(k)
        BY <3>1
      <4>. QED
        BY <4>1, <2>2, RowTypes
    <3>4. OfLength(Grammar[n - 1], n) \in Rows
      BY <3>3 DEF Rows
    <3>5. /\ Grammar[n] \in Seq(Rows) /\ Len(Grammar[n]) = n
          /\ \A k \in 1 .. n - 1 : Grammar[n][k] = Grammar[n - 1][k]
          /\ Grammar[n][n] = OfLength(Grammar[n - 1], n)
      BY <3>1, <3>2, <3>4, AppendProperties
    <3>6. Row(n) \in RowOf(n)
      BY <3>3, <3>5 DEF Row
    <3>7. ASSUME NEW k \in 1 .. n PROVE Grammar[n][k] = Row(k) /\ Row(k) \in RowOf(k)
      <4>1. CASE k = n
        BY <3>6, <4>1 DEF Row
      <4>2. CASE k # n
        BY <3>1, <3>5, <4>2
      <4>. QED
        BY <4>1, <4>2
    <3>. QED
      BY <3>5, <3>7
  <2>. QED
    BY <2>1, <2>2
<1>2. H \in SUBSET Nat
  OBVIOUS
<1> HIDE DEF H
<1>3. H = Nat
  BY <1>1, <1>2, Induction
<1>. QED
  BY <1>3 DEF H

(* A row is made from the rows before it.                                  *)
LEMMA RowUnfolds ==
  ASSUME NEW n \in Nat \ {0}
  PROVE  /\ Row(n) = OfLength(Grammar[n - 1], n)
         /\ \A k \in 1 .. n - 1 : Grammar[n - 1][k] = Row(k)
<1>1. Grammar[n] = Append(Grammar[n - 1], OfLength(Grammar[n - 1], n))
  BY GrammarUnfolds DEF Longer
<1>2. n - 1 \in Nat
  OBVIOUS
<1>3. Grammar[n - 1] \in Seq(Rows) /\ Len(Grammar[n - 1]) = n - 1
  BY <1>2, TableRows
<1>4. \A k \in 1 .. n - 1 : Grammar[n - 1][k] = Row(k)
  BY <1>2, TableRows
<1>5. OfLength(Grammar[n - 1], n) \in RowOf(n)
  <2>1. \A k \in 1 .. n - 1 : Grammar[n - 1][k] \in RowOf(k)
    BY <1>2, TableRows
  <2>. QED
    BY <2>1, RowTypes
<1>6. OfLength(Grammar[n - 1], n) \in Rows
  BY <1>5 DEF Rows
<1>. QED
  BY <1>1, <1>3, <1>4, <1>6, AppendProperties DEF Row

(* Of the table at n - 1 the grammar uses rows before n only.              *)
LEMMA RowsBefore ==
  ASSUME NEW n \in Nat \ {0}
  PROVE  /\ Row(n) = OfLength(Grammar[n - 1], n)
         /\ n > 2 => Grammar[n - 1][n - 2] = Row(n - 2)
         /\ \A k \in 1 .. n - 2 : /\ Grammar[n - 1][k] = Row(k)
                                  /\ Grammar[n - 1][n - k - 1] = Row(n - k - 1)
<1>1. \A k \in 1 .. n - 1 : Grammar[n - 1][k] = Row(k)
  BY RowUnfolds
<1>2. n > 2 => n - 2 \in 1 .. n - 1
  OBVIOUS
<1>3. \A k \in 1 .. n - 2 : k \in 1 .. n - 1 /\ n - k - 1 \in 1 .. n - 1
  OBVIOUS
<1>4. n > 2 => Grammar[n - 1][n - 2] = Row(n - 2)
  BY <1>1, <1>2
<1>5. \A k \in 1 .. n - 2 : /\ Grammar[n - 1][k] = Row(k)
                            /\ Grammar[n - 1][n - k - 1] = Row(n - k - 1)
  BY <1>1, <1>3
<1>. QED
  BY <1>4, <1>5, RowUnfolds

(* What the grammar says of the values of n tokens.                        *)
LEMMA ValuesOfRow ==
  ASSUME NEW n \in Nat \ {0}, NEW s
  PROVE  s \in Row(n).values <=>
           \/ n = 1 /\ s \in {<<"string">>, <<"scalar">>}
           \/ n = 2 /\ s \in {<<"begin-array", "end-array">>, <<"begin-object", "end-object">>}
           \/ n > 2 /\ \E i \in Row(n - 2).items : s = Within("begin-array", i, "end-array")
           \/ n > 2 /\ \E m \in Row(n - 2).members : s = Within("begin-object", m, "end-object")
<1> DEFINE table == Grammar[n - 1]
<1>1. Row(n) = OfLength(table, n) /\ (n > 2 => table[n - 2] = Row(n - 2))
  BY RowsBefore
<1> HIDE DEF table
<1>2. Row(n).values = Values(table, n)
  BY <1>1 DEF OfLength
<1>3. CASE n = 1
  <2>1. Row(n).values = {<<"string">>, <<"scalar">>}
    BY <1>2, <1>3 DEF Values
  <2>2. n # 2 /\ ~(n > 2)
    BY <1>3
  <2>. QED
    BY <1>3, <2>1, <2>2
<1>4. CASE n = 2
  <2>1. n # 1 /\ ~(n > 2)
    BY <1>4
  <2>2. Row(n).values = {<<"begin-array", "end-array">>, <<"begin-object", "end-object">>}
    BY <1>2, <1>4, <2>1, Zenon DEF Values
  <2>. QED
    BY <1>4, <2>1, <2>2
<1>5. CASE n > 2
  <2>1. n # 1 /\ n # 2 /\ table[n - 2] = Row(n - 2)
    BY <1>1, <1>5
  <2>2. Row(n).values = {Within("begin-array", i, "end-array") : i \in Row(n - 2).items}
                          \cup {Within("begin-object", m, "end-object") :
                                    m \in Row(n - 2).members}
    BY <1>2, <2>1, Zenon DEF Values
  <2>. QED
    BY <1>5, <2>1, <2>2
<1>6. n = 1 \/ n = 2 \/ n > 2
  OBVIOUS
<1>. QED
  BY <1>3, <1>4, <1>5, <1>6

(* What it says of the lists of values.                                    *)
LEMMA ItemsOfRow ==
  ASSUME NEW n \in Nat \ {0}, NEW s
  PROVE  s \in Row(n).items <=>
           \/ s \in Row(n).values
           \/ \E k \in 1 .. n - 2 : \E v \in Row(k).values, i \in Row(n - k - 1).items :
                s = Joined(v, i)
<1> DEFINE table == Grammar[n - 1]
<1>1. /\ Row(n) = OfLength(table, n)
      /\ \A k \in 1 .. n - 2 : table[k] = Row(k) /\ table[n - k - 1] = Row(n - k - 1)
  BY RowsBefore
<1> HIDE DEF table
<1>2. Row(n).values = Values(table, n)
  BY <1>1 DEF OfLength
<1>3. s \in Row(n).items <=>
        \/ s \in Values(table, n)
        \/ \E k \in 1 .. n - 2 : s \in Lists(table[k].values, table[n - k - 1].items)
  BY <1>1 DEF OfLength
<1>4. ASSUME NEW k \in 1 .. n - 2
      PROVE  s \in Lists(table[k].values, table[n - k - 1].items) <=>
               \E v \in Row(k).values, i \in Row(n - k - 1).items : s = Joined(v, i)
  BY <1>1, ListsMember
<1>. QED
  BY <1>2, <1>3, <1>4

(* And of the lists of members.                                            *)
LEMMA MembersOfRow ==
  ASSUME NEW n \in Nat \ {0}, NEW s
  PROVE  s \in Row(n).members <=>
           \/ n > 2 /\ \E v \in Row(n - 2).values : s = Named(v)
           \/ \E k \in 1 .. n - 2 : \E m \in Row(n - k - 1).members :
                k > 2 /\ \E v \in Row(k - 2).values : s = Joined(Named(v), m)
<1> DEFINE table == Grammar[n - 1]
<1>1. /\ Row(n) = OfLength(table, n)
      /\ \A k \in 1 .. n - 1 : table[k] = Row(k)
      /\ \A k \in 1 .. n - 2 : table[k] = Row(k) /\ table[n - k - 1] = Row(n - k - 1)
  BY RowsBefore, RowUnfolds
<1> HIDE DEF table
<1>2. ASSUME NEW k \in 1 .. n, NEW m
      PROVE  m \in Member(table, k) <=> k > 2 /\ \E v \in Row(k - 2).values : m = Named(v)
  <2>1. k > 2 => table[k - 2] = Row(k - 2)
    BY <1>1
  <2>. QED
    BY <2>1 DEF Member
<1>3. s \in Row(n).members <=>
        \/ s \in Member(table, n)
        \/ \E k \in 1 .. n - 2 : s \in Lists(Member(table, k), table[n - k - 1].members)
  BY <1>1 DEF OfLength
<1>4. ASSUME NEW k \in 1 .. n - 2
      PROVE  s \in Lists(Member(table, k), table[n - k - 1].members) <=>
               \E m \in Row(n - k - 1).members :
                  k > 2 /\ \E v \in Row(k - 2).values : s = Joined(Named(v), m)
  <2>1. k \in 1 .. n
    OBVIOUS
  <2>2. s \in Lists(Member(table, k), table[n - k - 1].members) <=>
          \E a \in Member(table, k), m \in Row(n - k - 1).members : s = Joined(a, m)
    BY <1>1, ListsMember
  <2>. QED
    BY <1>2, <2>1, <2>2
<1>5. n \in 1 .. n
  OBVIOUS
<1>. QED
  BY <1>2, <1>3, <1>4, <1>5
-----------------------------------------------------------------------------
(* The values with nothing inside.                                         *)
FlatValues == {<<"string">>, <<"scalar">>,
               <<"begin-array", "end-array">>, <<"begin-object", "end-object">>}

(* Values, lists of values and lists of members of any length.             *)
AllValues == UNION {Row(n).values : n \in Nat \ {0}}
AllItems == UNION {Row(n).items : n \in Nat \ {0}}
AllMembers == UNION {Row(n).members : n \in Nat \ {0}}

(* A text of a row has its length.                                         *)
LEMMA RowLengths ==
  ASSUME NEW n \in Nat \ {0}, NEW s \in Row(n).values \cup Row(n).items \cup Row(n).members
  PROVE  s \in Strings /\ Len(s) = n
<1>1. n \in 1 .. n /\ n \in Nat
  OBVIOUS
<1>2. Row(n) \in RowOf(n)
  BY <1>1, TableRows
<1>3. s \in StringsOf(n)
  BY <1>2 DEF RowOf
<1>. QED
  BY <1>1, <1>3, StringLengths

(* Values and lists are texts.                                             *)
LEMMA LanguagesAreStrings ==
  AllValues \in SUBSET Strings /\ AllItems \in SUBSET Strings /\ AllMembers \in SUBSET Strings
BY RowLengths DEF AllValues, AllItems, AllMembers

(* The grammar of a value, whatever its length.                            *)
LEMMA ValueRule ==
  ASSUME NEW s
  PROVE  s \in AllValues <=>
           \/ s \in FlatValues
           \/ \E i \in AllItems : s = Within("begin-array", i, "end-array")
           \/ \E m \in AllMembers : s = Within("begin-object", m, "end-object")
<1>1. ASSUME s \in AllValues
      PROVE  \/ s \in FlatValues
             \/ \E i \in AllItems : s = Within("begin-array", i, "end-array")
             \/ \E m \in AllMembers : s = Within("begin-object", m, "end-object")
  <2>1. PICK n \in Nat \ {0} : s \in Row(n).values
    BY <1>1 DEF AllValues
  <2>2. n > 2 => n - 2 \in Nat \ {0}
    OBVIOUS
  <2>3. n > 2 => Row(n - 2).items \subseteq AllItems /\ Row(n - 2).members \subseteq AllMembers
    BY <2>2 DEF AllItems, AllMembers
  <2>4. \/ s \in FlatValues
        \/ n > 2 /\ \E i \in Row(n - 2).items : s = Within("begin-array", i, "end-array")
        \/ n > 2 /\ \E m \in Row(n - 2).members : s = Within("begin-object", m, "end-object")
    BY <2>1, ValuesOfRow DEF FlatValues
  <2>. QED
    BY <2>3, <2>4
<1>2. ASSUME s \in {<<"string">>, <<"scalar">>} PROVE s \in AllValues
  <2>1. 1 \in Nat \ {0}
    OBVIOUS
  <2>2. s \in Row(1).values
    BY <1>2, <2>1, ValuesOfRow
  <2>. QED
    BY <2>1, <2>2 DEF AllValues
<1>3. ASSUME s \in {<<"begin-array", "end-array">>, <<"begin-object", "end-object">>}
      PROVE  s \in AllValues
  <2>1. 2 \in Nat \ {0}
    OBVIOUS
  <2>2. s \in Row(2).values
    BY <1>3, <2>1, ValuesOfRow
  <2>. QED
    BY <2>1, <2>2 DEF AllValues
<1>4. ASSUME NEW n \in Nat \ {0},
             \/ \E i \in Row(n).items : s = Within("begin-array", i, "end-array")
             \/ \E m \in Row(n).members : s = Within("begin-object", m, "end-object")
      PROVE  s \in AllValues
  <2>1. n + 2 \in Nat \ {0} /\ n + 2 > 2 /\ (n + 2) - 2 = n
    OBVIOUS
  <2>2. s \in Row(n + 2).values
    BY <1>4, <2>1, ValuesOfRow
  <2>. QED
    BY <2>1, <2>2 DEF AllValues
<1>5. ASSUME NEW i \in AllItems, s = Within("begin-array", i, "end-array") PROVE s \in AllValues
  BY <1>4, <1>5 DEF AllItems
<1>6. ASSUME NEW m \in AllMembers, s = Within("begin-object", m, "end-object")
      PROVE  s \in AllValues
  BY <1>4, <1>6 DEF AllMembers
<1>7. s \in FlatValues => s \in AllValues
  BY <1>2, <1>3 DEF FlatValues
<1>. QED
  BY <1>1, <1>5, <1>6, <1>7

(* The grammar of a list of values.                                        *)
LEMMA ItemsRule ==
  ASSUME NEW s
  PROVE  s \in AllItems <=>
           \/ s \in AllValues
           \/ \E v \in AllValues, i \in AllItems : s = Joined(v, i)
<1>1. ASSUME s \in AllItems
      PROVE  s \in AllValues \/ \E v \in AllValues, i \in AllItems : s = Joined(v, i)
  <2>1. PICK n \in Nat \ {0} : s \in Row(n).items
    BY <1>1 DEF AllItems
  <2>2. CASE s \in Row(n).values
    BY <2>2 DEF AllValues
  <2>3. ASSUME NEW k \in 1 .. n - 2, NEW v \in Row(k).values, NEW i \in Row(n - k - 1).items,
               s = Joined(v, i)
        PROVE  \E w \in AllValues, j \in AllItems : s = Joined(w, j)
    <3>1. k \in Nat \ {0} /\ n - k - 1 \in Nat \ {0}
      OBVIOUS
    <3>2. v \in AllValues /\ i \in AllItems
      BY <3>1 DEF AllValues, AllItems
    <3>. QED
      BY <2>3, <3>2
  <2>4. \/ s \in Row(n).values
        \/ \E k \in 1 .. n - 2 : \E v \in Row(k).values, i \in Row(n - k - 1).items :
             s = Joined(v, i)
    BY <2>1, ItemsOfRow
  <2>. QED
    BY <2>2, <2>3, <2>4
<1>2. ASSUME s \in AllValues PROVE s \in AllItems
  <2>1. PICK n \in Nat \ {0} : s \in Row(n).values
    BY <1>2 DEF AllValues
  <2>2. s \in Row(n).items
    BY <2>1, ItemsOfRow
  <2>. QED
    BY <2>2 DEF AllItems
<1>3. ASSUME NEW v \in AllValues, NEW i \in AllItems, s = Joined(v, i) PROVE s \in AllItems
  <2>1. PICK k \in Nat \ {0} : v \in Row(k).values
    BY DEF AllValues
  <2>2. PICK m \in Nat \ {0} : i \in Row(m).items
    BY DEF AllItems
  <2> DEFINE n == k + m + 1
  <2>3. n \in Nat \ {0} /\ k \in 1 .. n - 2 /\ n - k - 1 = m
    OBVIOUS
  <2> HIDE DEF n
  <2>4. s \in Row(n).items
    BY <1>3, <2>1, <2>2, <2>3, ItemsOfRow
  <2>. QED
    BY <2>3, <2>4 DEF AllItems
<1>. QED
  BY <1>1, <1>2, <1>3

(* The grammar of a list of members.                                       *)
LEMMA MembersRule ==
  ASSUME NEW s
  PROVE  s \in AllMembers <=>
           \/ \E v \in AllValues : s = Named(v)
           \/ \E v \in AllValues, m \in AllMembers : s = Joined(Named(v), m)
<1>1. ASSUME s \in AllMembers
      PROVE  \/ \E v \in AllValues : s = Named(v)
             \/ \E v \in AllValues, m \in AllMembers : s = Joined(Named(v), m)
  <2>1. PICK n \in Nat \ {0} : s \in Row(n).members
    BY <1>1 DEF AllMembers
  <2>2. ASSUME n > 2, NEW v \in Row(n - 2).values, s = Named(v)
        PROVE  \E w \in AllValues : s = Named(w)
    <3>1. n - 2 \in Nat \ {0}
      BY <2>2
    <3>2. v \in AllValues
      BY <3>1 DEF AllValues
    <3>. QED
      BY <2>2, <3>2
  <2>3. ASSUME NEW k \in 1 .. n - 2, k > 2, NEW v \in Row(k - 2).values,
               NEW m \in Row(n - k - 1).members, s = Joined(Named(v), m)
        PROVE  \E w \in AllValues, j \in AllMembers : s = Joined(Named(w), j)
    <3>1. k - 2 \in Nat \ {0} /\ n - k - 1 \in Nat \ {0}
      BY <2>3
    <3>2. v \in AllValues /\ m \in AllMembers
      BY <3>1 DEF AllValues, AllMembers
    <3>. QED
      BY <2>3, <3>2
  <2>4. \/ n > 2 /\ \E v \in Row(n - 2).values : s = Named(v)
        \/ \E k \in 1 .. n - 2 : \E m \in Row(n - k - 1).members :
             k > 2 /\ \E v \in Row(k - 2).values : s = Joined(Named(v), m)
    BY <2>1, MembersOfRow
  <2>. QED
    BY <2>2, <2>3, <2>4
<1>2. ASSUME NEW v \in AllValues, s = Named(v) PROVE s \in AllMembers
  <2>1. PICK k \in Nat \ {0} : v \in Row(k).values
    BY DEF AllValues
  <2> DEFINE n == k + 2
  <2>2. n \in Nat \ {0} /\ n > 2 /\ n - 2 = k
    OBVIOUS
  <2> HIDE DEF n
  <2>3. s \in Row(n).members
    BY <1>2, <2>1, <2>2, MembersOfRow
  <2>. QED
    BY <2>2, <2>3 DEF AllMembers
<1>3. ASSUME NEW v \in AllValues, NEW m \in AllMembers, s = Joined(Named(v), m)
      PROVE  s \in AllMembers
  <2>1. PICK k \in Nat \ {0} : v \in Row(k).values
    BY DEF AllValues
  <2>2. PICK l \in Nat \ {0} : m \in Row(l).members
    BY DEF AllMembers
  <2> DEFINE j == k + 2
             n == j + l + 1
  <2>3. n \in Nat \ {0} /\ j \in 1 .. n - 2 /\ j > 2 /\ j - 2 = k /\ n - j - 1 = l
    OBVIOUS
  <2> HIDE DEF j, n
  <2>4. s \in Row(n).members
    BY <1>3, <2>1, <2>2, <2>3, MembersOfRow
  <2>. QED
    BY <2>3, <2>4 DEF AllMembers
<1>. QED
  BY <1>1, <1>2, <1>3
-----------------------------------------------------------------------------
(* What a text goes on with behind a member or an item: the end of what it *)
(* is in, or a comma and more of them.                                     *)
Behind(end) ==
  One(end) \cup Cat(One("comma"),
                    Cat(IF end = "end-object" THEN AllMembers ELSE AllItems, One(end)))

(* A key, a colon and what follows.                                        *)
Key(rest) == Cat(One("string"), Cat(One("colon"), rest))

(* Concatenation distributes over a union on either side.                  *)
LEMMA CatIntoUnion ==
  ASSUME NEW A, NEW B, NEW C
  PROVE  Cat(A, B \cup C) = Cat(A, B) \cup Cat(A, C)
BY DEF Cat

(* Concatenation with one token before or behind.                          *)
LEMMA OneBefore ==
  ASSUME NEW A, NEW t, NEW r
  PROVE  r \in Cat(One(t), A) <=> \E a \in A : r = <<t>> \o a
<1>1. \A b : b \in One(t) <=> b = <<t>>
  BY DEF One
<1>2. r \in Cat(One(t), A) <=> \E b \in One(t), a \in A : r = b \o a
  BY CatMember
<1>. QED
  BY <1>1, <1>2

(* And with one token behind.                                              *)
LEMMA OneBehind ==
  ASSUME NEW A, NEW t, NEW r
  PROVE  r \in Cat(A, One(t)) <=> \E a \in A : r = a \o <<t>>
<1>1. \A b : b \in One(t) <=> b = <<t>>
  BY DEF One
<1>2. r \in Cat(A, One(t)) <=> \E a \in A, b \in One(t) : r = a \o b
  BY CatMember
<1>. QED
  BY <1>1, <1>2

(* The tokens of the grammar.                                              *)
LEMMA OneOf ==
  LET good == {"begin-object", "end-object", "begin-array", "end-array", "colon", "comma",
               "string", "scalar"}
  IN good \subseteq Tokens /\ \A t \in good : One(t) \in SUBSET Strings
<1>1. {"begin-object", "end-object", "begin-array", "end-array", "colon", "comma",
       "string", "scalar"} \subseteq Tokens
  BY DEF Tokens
<1>. QED
  BY <1>1, OneIsString

(* Two parts and the comma between them.                                   *)
LEMMA JoinedMember ==
  ASSUME NEW A \in SUBSET Strings, NEW B \in SUBSET Strings, NEW s
  PROVE  s \in Cat(A, Cat(One("comma"), B)) <=> \E a \in A, b \in B : s = Joined(a, b)
<1>1. ASSUME NEW a \in A, NEW b \in B PROVE Joined(a, b) = a \o (<<"comma">> \o b)
  <2>1. a \in Seq(Tokens) /\ b \in Seq(Tokens) /\ <<"comma">> \in Seq(Tokens)
    BY OneOf, OneIsString DEF Strings
  <2>2. (a \o <<"comma">>) \o b = a \o (<<"comma">> \o b)
    BY <2>1, ConcatAssociative
  <2>. QED
    BY <2>2 DEF Joined
<1> DEFINE C == Cat(One("comma"), B)
<1>2. \A c : c \in C <=> \E b \in B : c = <<"comma">> \o b
  BY OneBefore
<1> HIDE DEF C
<1>3. s \in Cat(A, C) <=> \E a \in A, c \in C : s = a \o c
  BY CatMember
<1>4. ASSUME s \in Cat(A, C) PROVE \E a \in A, b \in B : s = Joined(a, b)
  <2>1. PICK a \in A, c \in C : s = a \o c
    BY <1>3, <1>4
  <2>2. PICK b \in B : c = <<"comma">> \o b
    BY <1>2
  <2>. QED
    BY <1>1, <2>1, <2>2
<1>5. ASSUME NEW a \in A, NEW b \in B, s = Joined(a, b) PROVE s \in Cat(A, C)
  <2>1. <<"comma">> \o b \in C
    BY <1>2
  <2>. QED
    BY <1>1, <1>3, <1>5, <2>1
<1>. QED
  BY <1>4, <1>5 DEF C

(* The list of values as an equation between sets.                         *)
LEMMA ItemsJoin == AllItems = AllValues \cup Cat(AllValues, Cat(One("comma"), AllItems))
<1>1. \A s : s \in Cat(AllValues, Cat(One("comma"), AllItems)) <=>
               \E v \in AllValues, i \in AllItems : s = Joined(v, i)
  BY JoinedMember, LanguagesAreStrings
<1>2. \A s : s \in AllItems <=>
               \/ s \in AllValues
               \/ \E v \in AllValues, i \in AllItems : s = Joined(v, i)
  BY ItemsRule
<1>. QED
  BY <1>1, <1>2

NamedValues == Key(AllValues)

(* A member is a key, a colon and a value.                                 *)
LEMMA NamedMember ==
  ASSUME NEW s
  PROVE  s \in NamedValues <=> \E v \in AllValues : s = Named(v)
<1>1. s \in Cat(One("string"), Cat(One("colon"), AllValues)) <=>
        \E a \in Cat(One("colon"), AllValues) : s = <<"string">> \o a
  BY OneBefore
<1>2. \A a : a \in Cat(One("colon"), AllValues) <=> \E v \in AllValues : a = <<"colon">> \o v
  BY OneBefore
<1>. QED
  BY <1>1, <1>2 DEF Named, NamedValues, Key

(* Members are texts.                                                      *)
LEMMA NamedAreStrings == NamedValues \in SUBSET Strings
BY OneOf, LanguagesAreStrings, CatIsString DEF NamedValues, Key

(* The list of members as an equation between sets.                        *)
LEMMA MembersJoin == AllMembers = NamedValues \cup Cat(NamedValues, Cat(One("comma"), AllMembers))
<1>1. \A s : s \in Cat(NamedValues, Cat(One("comma"), AllMembers)) <=>
               \E w \in NamedValues, m \in AllMembers : s = Joined(w, m)
  BY JoinedMember, LanguagesAreStrings, NamedAreStrings
<1>2. \A s : s \in AllMembers <=>
               \/ \E v \in AllValues : s = Named(v)
               \/ \E v \in AllValues, m \in AllMembers : s = Joined(Named(v), m)
  BY MembersRule
<1>3. \A w : w \in NamedValues <=> \E v \in AllValues : w = Named(v)
  BY NamedMember
<1>4. \A s : s \in AllMembers <=>
               \/ s \in NamedValues
               \/ \E w \in NamedValues, m \in AllMembers : s = Joined(w, m)
  BY <1>2, <1>3
<1>. QED
  BY <1>1, <1>4

(* The values as an equation between sets.                                 *)
LEMMA ValuesJoin ==
  AllValues = One("string") \cup One("scalar")
                \cup Cat(One("begin-array"),
                         One("end-array") \cup Cat(AllItems, One("end-array")))
                \cup Cat(One("begin-object"),
                         One("end-object") \cup Cat(AllMembers, One("end-object")))
<1>1. ASSUME NEW A \in SUBSET Strings, NEW t \in Tokens, NEW u \in Tokens, NEW s
      PROVE  s \in Cat(One(t), One(u) \cup Cat(A, One(u))) <=>
               s = <<t, u>> \/ \E a \in A : s = Within(t, a, u)
  <2>1. Cat(One(t), One(u) \cup Cat(A, One(u)))
          = Cat(One(t), One(u)) \cup Cat(One(t), Cat(A, One(u)))
    BY CatIntoUnion
  <2>2. s \in Cat(One(t), One(u)) <=> s = <<t>> \o <<u>>
    <3>1. s \in Cat(One(t), One(u)) <=> \E a \in One(u) : s = <<t>> \o a
      BY OneBefore
    <3>. QED
      BY <3>1 DEF One
  <2>3. <<t>> \o <<u>> = <<t, u>>
    <3>1. <<t>> \in Seq(Tokens) /\ <<u>> \in Seq(Tokens) /\ <<t, u>> \in Seq(Tokens)
      OBVIOUS
    <3>4. Len(<<t>>) = 1 /\ <<t>>[1] = t /\ Len(<<u>>) = 1 /\ <<u>>[1] = u
      OBVIOUS
    <3>2. /\ <<t>> \o <<u>> \in Seq(Tokens) /\ Len(<<t>> \o <<u>>) = 2
          /\ (<<t>> \o <<u>>)[1] = t /\ (<<t>> \o <<u>>)[2] = u
      BY <3>1, <3>4, ConcatProperties
    <3>5. Len(<<t, u>>) = 2 /\ <<t, u>>[1] = t /\ <<t, u>>[2] = u
      OBVIOUS
    <3>3. \A i \in 1 .. 2 : (<<t>> \o <<u>>)[i] = <<t, u>>[i]
      BY <3>2, <3>5
    <3>. QED
      BY <3>1, <3>2, <3>3, <3>5, SeqEqual
  <2>4. Cat(One(t), Cat(A, One(u))) = Cat(Cat(One(t), A), One(u))
    BY OneIsString, CatAssociates
  <2>5. \A c : c \in Cat(One(t), A) <=> \E a \in A : c = <<t>> \o a
    BY OneBefore
  <2>6. s \in Cat(Cat(One(t), A), One(u)) <=> \E c \in Cat(One(t), A) : s = c \o <<u>>
    <3> DEFINE C == Cat(One(t), A)
    <3> HIDE DEF C
    <3>1. s \in Cat(C, One(u)) <=> \E c \in C : s = c \o <<u>>
      BY OneBehind
    <3>. QED
      BY <3>1 DEF C
  <2>7. s \in Cat(Cat(One(t), A), One(u)) <=> \E a \in A : s = Within(t, a, u)
    BY <2>5, <2>6 DEF Within
  <2>. QED
    BY <2>1, <2>2, <2>3, <2>4, <2>7
<1> DEFINE A == One("end-array") \cup Cat(AllItems, One("end-array"))
           O == One("end-object") \cup Cat(AllMembers, One("end-object"))
<1>2. ASSUME NEW s
      PROVE  s \in AllValues <=>
               \/ s \in One("string") \/ s \in One("scalar")
               \/ s \in Cat(One("begin-array"), A) \/ s \in Cat(One("begin-object"), O)
  <2>1. s \in Cat(One("begin-array"), A) <=>
          \/ s = <<"begin-array", "end-array">>
          \/ \E i \in AllItems : s = Within("begin-array", i, "end-array")
    BY <1>1, OneOf, LanguagesAreStrings
  <2>2. s \in Cat(One("begin-object"), O) <=>
          \/ s = <<"begin-object", "end-object">>
          \/ \E m \in AllMembers : s = Within("begin-object", m, "end-object")
    BY <1>1, OneOf, LanguagesAreStrings
  <2>3. (s \in One("string") <=> s = <<"string">>) /\ (s \in One("scalar") <=> s = <<"scalar">>)
    BY DEF One
  <2> HIDE DEF A, O
  <2>. QED
    BY <2>1, <2>2, <2>3, ValueRule DEF FlatValues
<1>. QED
  BY <1>2

(* A list and its end is one of its elements and what goes on behind it.   *)
LEMMA ListsGoOn ==
  ASSUME NEW A \in SUBSET Strings, NEW X \in SUBSET Strings, NEW t \in Tokens,
         A = X \cup Cat(X, Cat(One("comma"), A))
  PROVE  Cat(A, One(t)) = Cat(X, One(t) \cup Cat(One("comma"), Cat(A, One(t))))
<1>1. One(t) \in SUBSET Strings /\ One("comma") \in SUBSET Strings
  BY OneIsString, OneOf
<1>2. Cat(One("comma"), A) \in SUBSET Strings
  BY <1>1, CatIsString
<1>3. Cat(A, One(t)) = Cat(X, One(t)) \cup Cat(Cat(X, Cat(One("comma"), A)), One(t))
  <2>1. Cat(X \cup Cat(X, Cat(One("comma"), A)), One(t))
          = Cat(X, One(t)) \cup Cat(Cat(X, Cat(One("comma"), A)), One(t))
    BY CatOfUnion
  <2>2. A = X \cup Cat(X, Cat(One("comma"), A))
    OBVIOUS
  <2>. QED
    BY <2>1, <2>2, Zenon
<1>4. Cat(Cat(X, Cat(One("comma"), A)), One(t)) = Cat(X, Cat(Cat(One("comma"), A), One(t)))
  BY <1>1, <1>2, CatAssociates
<1>5. Cat(Cat(One("comma"), A), One(t)) = Cat(One("comma"), Cat(A, One(t)))
  BY <1>1, CatAssociates
<1>6. Cat(X, One(t) \cup Cat(One("comma"), Cat(A, One(t))))
        = Cat(X, One(t)) \cup Cat(X, Cat(One("comma"), Cat(A, One(t))))
  BY CatIntoUnion
<1>7. Cat(A, One(t)) = Cat(X, One(t)) \cup Cat(X, Cat(Cat(One("comma"), A), One(t)))
  BY <1>3, <1>4, Zenon
<1>8. Cat(A, One(t)) = Cat(X, One(t)) \cup Cat(X, Cat(One("comma"), Cat(A, One(t))))
  BY <1>5, <1>7, Zenon
<1>. QED
  BY <1>6, <1>8, Zenon

(* A list of values and its end, from its first value.                     *)
LEMMA ItemsGoOn == Cat(AllItems, One("end-array")) = Cat(AllValues, Behind("end-array"))
<1>1. "end-array" \in Tokens /\ AllItems \in SUBSET Strings /\ AllValues \in SUBSET Strings
  BY OneOf, LanguagesAreStrings
<1>2. Cat(AllItems, One("end-array"))
        = Cat(AllValues, One("end-array") \cup Cat(One("comma"), Cat(AllItems, One("end-array"))))
  BY <1>1, ItemsJoin, ListsGoOn
<1>3. Behind("end-array") =
        One("end-array") \cup Cat(One("comma"), Cat(AllItems, One("end-array")))
  BY DEF Behind
<1>. QED
  BY <1>2, <1>3

(* A list of members and its end, from its first member.                   *)
LEMMA MembersGoOn == Cat(AllMembers, One("end-object")) = Cat(NamedValues, Behind("end-object"))
<1>1. "end-object" \in Tokens /\ AllMembers \in SUBSET Strings /\ NamedValues \in SUBSET Strings
  BY OneOf, LanguagesAreStrings, NamedAreStrings
<1>2. Cat(AllMembers, One("end-object"))
        = Cat(NamedValues,
              One("end-object") \cup Cat(One("comma"), Cat(AllMembers, One("end-object"))))
  BY <1>1, MembersJoin, ListsGoOn
<1>3. Behind("end-object")
        = One("end-object") \cup Cat(One("comma"), Cat(AllMembers, One("end-object")))
  BY DEF Behind
<1>. QED
  BY <1>2, <1>3

(* What goes on behind an element are texts.                               *)
LEMMA BehindIsString ==
  Behind("end-object") \in SUBSET Strings /\ Behind("end-array") \in SUBSET Strings
<1>1. ASSUME NEW A \in SUBSET Strings, NEW t \in Tokens
      PROVE  One(t) \cup Cat(One("comma"), Cat(A, One(t))) \in SUBSET Strings
  <2>1. One(t) \in SUBSET Strings /\ One("comma") \in SUBSET Strings
    BY OneIsString, OneOf
  <2>2. Cat(A, One(t)) \in SUBSET Strings
    BY <2>1, CatIsString
  <2>3. Cat(One("comma"), Cat(A, One(t))) \in SUBSET Strings
    BY <2>1, <2>2, CatIsString
  <2>. QED
    BY <2>1, <2>3
<1>2. "end-object" \in Tokens /\ "end-array" \in Tokens
  BY OneOf
<1>. QED
  BY <1>1, <1>2, LanguagesAreStrings DEF Behind
-----------------------------------------------------------------------------
(* A key comes first and a colon behind it.                                *)
LEMMA KeyBegins ==
  ASSUME NEW t \in Tokens, NEW r \in Strings, NEW K \in SUBSET Strings
  PROVE  /\ <<t>> \o r \in Key(K) <=> t = "string" /\ r \in Cat(One("colon"), K)
         /\ <<t>> \o r \in Cat(One("colon"), K) <=> t = "colon" /\ r \in K
         /\ Cat(One("colon"), K) \in SUBSET Strings /\ Key(K) \in SUBSET Strings
<1>1. Cat(One("colon"), K) \in SUBSET Strings
  BY OneOf, CatIsString
<1>2. Key(K) \in SUBSET Strings
  BY <1>1, OneOf, CatIsString DEF Key
<1>3. "string" \in Tokens /\ "colon" \in Tokens
  BY OneOf
<1>. QED
  BY <1>1, <1>2, <1>3, StartsWith DEF Key

(* Behind a key are a colon, and a value of the member.                    *)
LEMMA KeyThen ==
  ASSUME NEW K \in SUBSET Strings
  PROVE  Cat(NamedValues, K) = Key(Cat(AllValues, K))
<1>1. /\ One("string") \in SUBSET Strings /\ One("colon") \in SUBSET Strings
      /\ AllValues \in SUBSET Strings
  BY OneOf, LanguagesAreStrings
<1>2. Cat(One("colon"), AllValues) \in SUBSET Strings
  BY <1>1, CatIsString
<1>3. Cat(Cat(One("string"), Cat(One("colon"), AllValues)), K)
        = Cat(One("string"), Cat(Cat(One("colon"), AllValues), K))
  BY <1>1, <1>2, CatAssociates
<1>4. Cat(Cat(One("colon"), AllValues), K) = Cat(One("colon"), Cat(AllValues, K))
  BY <1>1, CatAssociates
<1>. QED
  BY <1>3, <1>4, Zenon DEF NamedValues, Key

(* A list and its end.                                                     *)
Listed(end) == Cat(IF end = "end-object" THEN AllMembers ELSE AllItems, One(end))

(* Its first element and what comes behind.                                *)
Elements(end, K) ==
  IF end = "end-object" THEN Key(Cat(AllValues, Cat(Behind(end), K)))
  ELSE Cat(AllValues, Cat(Behind(end), K))

(* A list, its end and what follows, from the first element.               *)
LEMMA ListedThen ==
  ASSUME NEW end \in {"end-object", "end-array"}, NEW K \in SUBSET Strings
  PROVE  Cat(Listed(end), K) = Elements(end, K) /\ Listed(end) \in SUBSET Strings
<1>1. Behind(end) \in SUBSET Strings
  BY BehindIsString
<1>2. Cat(Behind(end), K) \in SUBSET Strings
  BY <1>1, CatIsString
<1>3. CASE end = "end-object"
  <2>1. Listed(end) = Cat(NamedValues, Behind(end))
    BY <1>3, MembersGoOn DEF Listed
  <2>2. Cat(Cat(NamedValues, Behind(end)), K) = Cat(NamedValues, Cat(Behind(end), K))
    BY <1>1, NamedAreStrings, CatAssociates
  <2>3. Cat(NamedValues, Cat(Behind(end), K)) = Key(Cat(AllValues, Cat(Behind(end), K)))
    BY <1>2, KeyThen
  <2>4. Cat(NamedValues, Behind(end)) \in SUBSET Strings
    BY <1>1, NamedAreStrings, CatIsString
  <2>. QED
    BY <1>3, <2>1, <2>2, <2>3, <2>4 DEF Elements
<1>4. CASE end = "end-array"
  <2>1. Listed(end) = Cat(AllValues, Behind(end))
    BY <1>4, ItemsGoOn DEF Listed
  <2>2. Cat(Cat(AllValues, Behind(end)), K) = Cat(AllValues, Cat(Behind(end), K))
    BY <1>1, LanguagesAreStrings, CatAssociates
  <2>3. Cat(AllValues, Behind(end)) \in SUBSET Strings
    BY <1>1, LanguagesAreStrings, CatIsString
  <2>. QED
    BY <1>4, <2>1, <2>2, <2>3 DEF Elements
<1>. QED
  BY <1>3, <1>4

(* Behind an element come the end or a comma.                              *)
LEMMA BehindBegins ==
  ASSUME NEW end \in {"end-object", "end-array"}, NEW K \in SUBSET Strings,
         NEW t \in Tokens, NEW r \in Strings
  PROVE  <<t>> \o r \in Cat(Behind(end), K) <=>
           \/ t = end /\ r \in K
           \/ t = "comma" /\ r \in Elements(end, K)
<1>1. end \in Tokens /\ "comma" \in Tokens /\ One("comma") \in SUBSET Strings
  BY OneOf
<1>2. Listed(end) \in SUBSET Strings /\ Cat(Listed(end), K) = Elements(end, K)
  BY ListedThen
<1>3. Behind(end) = One(end) \cup Cat(One("comma"), Listed(end))
  BY DEF Behind, Listed
<1>4. Cat(Behind(end), K) = Cat(One(end), K) \cup Cat(Cat(One("comma"), Listed(end)), K)
  BY <1>3, CatOfUnion
<1>5. Cat(Cat(One("comma"), Listed(end)), K) = Cat(One("comma"), Cat(Listed(end), K))
  BY <1>1, <1>2, CatAssociates
<1>6. Cat(Listed(end), K) \in SUBSET Strings
  BY <1>2, CatIsString
<1>7. <<t>> \o r \in Cat(One(end), K) <=> t = end /\ r \in K
  BY <1>1, StartsWith
<1>8. <<t>> \o r \in Cat(One("comma"), Cat(Listed(end), K)) <=>
        t = "comma" /\ r \in Cat(Listed(end), K)
  BY <1>1, <1>6, StartsWith
<1>. QED
  BY <1>2, <1>4, <1>5, <1>7, <1>8

(* What an object or an array goes on with once it is open.                *)
Inside(end, K) == Cat(One(end), K) \cup Elements(end, K)

(* Behind an opening bracket come the end or a list.                       *)
LEMMA InsideThen ==
  ASSUME NEW end \in {"end-object", "end-array"}, NEW K \in SUBSET Strings
  PROVE  /\ Cat(One(end) \cup Listed(end), K) = Inside(end, K)
         /\ Inside(end, K) \in SUBSET Strings
<1>1. Listed(end) \in SUBSET Strings /\ Cat(Listed(end), K) = Elements(end, K)
  BY ListedThen
<1>2. Cat(One(end) \cup Listed(end), K) = Cat(One(end), K) \cup Cat(Listed(end), K)
  BY CatOfUnion
<1>3. One(end) \in SUBSET Strings
  BY OneOf
<1>4. Cat(One(end), K) \in SUBSET Strings /\ Cat(Listed(end), K) \in SUBSET Strings
  BY <1>1, <1>3, CatIsString
<1>. QED
  BY <1>1, <1>2, <1>4 DEF Inside

(* A value is told by its first token.                                     *)
LEMMA ValueBegins ==
  ASSUME NEW K \in SUBSET Strings, NEW t \in Tokens, NEW r \in Strings
  PROVE  <<t>> \o r \in Cat(AllValues, K) <=>
           \/ t \in {"string", "scalar"} /\ r \in K
           \/ t = "begin-array" /\ r \in Inside("end-array", K)
           \/ t = "begin-object" /\ r \in Inside("end-object", K)
<1> DEFINE A == One("end-array") \cup Listed("end-array")
           O == One("end-object") \cup Listed("end-object")
<1>1. /\ A \in SUBSET Strings /\ Cat(A, K) = Inside("end-array", K)
      /\ O \in SUBSET Strings /\ Cat(O, K) = Inside("end-object", K)
      /\ Cat(A, K) \in SUBSET Strings /\ Cat(O, K) \in SUBSET Strings
  <2>1. /\ One("end-array") \in SUBSET Strings /\ Listed("end-array") \in SUBSET Strings
        /\ One("end-object") \in SUBSET Strings /\ Listed("end-object") \in SUBSET Strings
    BY OneOf, ListedThen
  <2>. QED
    BY <2>1, InsideThen
<1>2. AllValues = One("string") \cup One("scalar") \cup Cat(One("begin-array"), A)
                    \cup Cat(One("begin-object"), O)
  BY ValuesJoin DEF Listed
<1> HIDE DEF A, O
<1>3. Cat(AllValues, K) = Cat(One("string"), K) \cup Cat(One("scalar"), K)
                            \cup Cat(Cat(One("begin-array"), A), K)
                            \cup Cat(Cat(One("begin-object"), O), K)
  <2> DEFINE B == Cat(One("begin-array"), A)
             C == Cat(One("begin-object"), O)
             S == One("string")
             N == One("scalar")
  <2>1. AllValues = S \cup N \cup B \cup C
    BY <1>2
  <2> HIDE DEF B, C, S, N
  <2>2. Cat(S \cup N \cup B \cup C, K) = Cat(S \cup N \cup B, K) \cup Cat(C, K)
    BY CatOfUnion
  <2>3. Cat(S \cup N \cup B, K) = Cat(S \cup N, K) \cup Cat(B, K)
    BY CatOfUnion
  <2>4. Cat(S \cup N, K) = Cat(S, K) \cup Cat(N, K)
    BY CatOfUnion
  <2>5. Cat(AllValues, K) = Cat(S, K) \cup Cat(N, K) \cup Cat(B, K) \cup Cat(C, K)
    BY <2>1, <2>2, <2>3, <2>4
  <2>. QED
    BY <2>5 DEF B, C, S, N
<1>4. /\ "string" \in Tokens /\ "scalar" \in Tokens
      /\ "begin-array" \in Tokens /\ "begin-object" \in Tokens
      /\ One("begin-array") \in SUBSET Strings /\ One("begin-object") \in SUBSET Strings
  BY OneIsString DEF Tokens
<1>5. Cat(Cat(One("begin-array"), A), K) = Cat(One("begin-array"), Cat(A, K))
  BY <1>1, <1>4, CatAssociates
<1>6. Cat(Cat(One("begin-object"), O), K) = Cat(One("begin-object"), Cat(O, K))
  BY <1>1, <1>4, CatAssociates
<1>7. /\ <<t>> \o r \in Cat(One("string"), K) <=> t = "string" /\ r \in K
      /\ <<t>> \o r \in Cat(One("scalar"), K) <=> t = "scalar" /\ r \in K
  BY <1>4, StartsWith
<1>8. <<t>> \o r \in Cat(One("begin-array"), Cat(A, K)) <=> t = "begin-array" /\ r \in Cat(A, K)
  BY <1>1, <1>4, StartsWith
<1>9. <<t>> \o r \in Cat(One("begin-object"), Cat(O, K)) <=> t = "begin-object" /\ r \in Cat(O, K)
  BY <1>1, <1>4, StartsWith
<1>10. <<t>> \o r \in Cat(AllValues, K) <=>
         \/ <<t>> \o r \in Cat(One("string"), K) \/ <<t>> \o r \in Cat(One("scalar"), K)
         \/ <<t>> \o r \in Cat(One("begin-array"), Cat(A, K))
         \/ <<t>> \o r \in Cat(One("begin-object"), Cat(O, K))
  BY <1>3, <1>5, <1>6
<1>. QED
  BY <1>1, <1>7, <1>8, <1>9, <1>10
-----------------------------------------------------------------------------
Ends == {"end-object", "end-array"}

(* L[i] are the texts that close all but the outer objects and arrays      *)
(* from the i-th in: L[0] closes none.                                     *)
IsChain(L, stack) ==
  /\ L[0] = {<<>>}
  /\ \A i \in 0 .. Len(stack) : L[i] \in SUBSET Strings
  /\ \A i \in 1 .. Len(stack) : L[i] = Cat(Behind(stack[i]), L[i - 1])

(* The texts that make what was read a value.                              *)
Expected(place, L, stack) ==
  LET n == Len(stack) IN
  IF place \in {"after", "end"} THEN L[n]
  ELSE IF place = "value" THEN Cat(AllValues, L[n])
  ELSE IF place = "colon" THEN Cat(One("colon"), Cat(AllValues, L[n]))
  ELSE IF place = "key" THEN Key(Cat(AllValues, L[n]))
  ELSE IF place \in {"first-key", "first-item"} THEN Inside(stack[n], L[n - 1])
  ELSE {}

Understood(place, stack, read) ==
  \E L : /\ IsChain(L, stack)
         /\ \A r \in Strings : read \o r \in AllValues <=> r \in Expected(place, L, stack)

JsonShape ==
  /\ json \in {"value", "key", "colon", "first-key", "first-item", "after", "end",
               "accepted", "refused"}
  /\ open \in Seq(Ends) /\ text \in Strings /\ Len(text) <= MaxTokens /\ ended \in BOOLEAN
  /\ json \in {"first-key", "first-item", "after"} => open # <<>>
  /\ json = "first-key" => open[Len(open)] = "end-object"
  /\ json = "first-item" => open[Len(open)] = "end-array"
  /\ json = "end" => open = <<>>

JsonInv ==
  /\ JsonShape
  /\ ended => /\ json \in {"accepted", "refused"}
              /\ json = "accepted" <=> text \in AllValues
  /\ ~ended => json # "accepted" /\ Understood(json, open, text)

-----------------------------------------------------------------------------
(* One more object or array is open,                                       *)
LEMMA ChainGrows ==
  ASSUME NEW stack \in Seq(Ends), NEW L, IsChain(L, stack), NEW end \in Ends
  PROVE  \E C : IsChain(C, Append(stack, end)) /\ C[Len(stack)] = L[Len(stack)]
<1> DEFINE n == Len(stack)
           C == [i \in 0 .. n + 1 |-> IF i = n + 1 THEN Cat(Behind(end), L[n]) ELSE L[i]]
<1>1. n \in Nat /\ L[n] \in SUBSET Strings /\ L[0] = {<<>>}
  BY DEF IsChain
<1>2. Cat(Behind(end), L[n]) \in SUBSET Strings
  BY <1>1, BehindIsString, CatIsString DEF Ends
<1>3. Len(Append(stack, end)) = n + 1
  OBVIOUS
<1>4. C[n + 1] = Cat(Behind(end), L[n]) /\ \A i \in 0 .. n : C[i] = L[i]
  BY <1>1
<1> HIDE DEF C
<1>5. \A i \in 0 .. n + 1 : C[i] \in SUBSET Strings
  <2>1. \A i \in 0 .. n : C[i] \in SUBSET Strings
    BY <1>4 DEF IsChain
  <2>2. \A i \in 0 .. n + 1 : i \in 0 .. n \/ i = n + 1
    BY <1>1
  <2>. QED
    BY <1>2, <1>4, <2>1, <2>2
<1>6. ASSUME NEW i \in 1 .. n + 1
      PROVE  C[i] = Cat(Behind(Append(stack, end)[i]), C[i - 1])
  <2>1. CASE i = n + 1
    <3>1. Append(stack, end)[i] = end /\ i - 1 = n /\ n \in 0 .. n
      BY <1>1, <2>1
    <3>. QED
      BY <1>4, <2>1, <3>1
  <2>2. CASE i # n + 1
    <3>1. /\ Append(stack, end)[i] = stack[i] /\ i \in 1 .. n
          /\ i \in 0 .. n /\ i - 1 \in 0 .. n
      BY <1>1, <2>2
    <3>2. L[i] = Cat(Behind(stack[i]), L[i - 1])
      BY <3>1 DEF IsChain
    <3>. QED
      BY <1>4, <3>1, <3>2
  <2>. QED
    BY <2>1, <2>2
<1>7. C[0] = {<<>>} /\ C[n] = L[n]
  BY <1>1, <1>4
<1>8. IsChain(C, Append(stack, end))
  BY <1>3, <1>5, <1>6, <1>7 DEF IsChain
<1>. QED
  BY <1>7, <1>8

(* or one less.                                                            *)
LEMMA ChainFalls ==
  ASSUME NEW stack \in Seq(Ends), stack # <<>>, NEW L, IsChain(L, stack)
  PROVE  /\ IsChain(L, Front(stack)) /\ Front(stack) \in Seq(Ends)
         /\ Len(Front(stack)) = Len(stack) - 1 /\ Len(stack) - 1 \in Nat
         /\ L[Len(stack)] = Cat(Behind(stack[Len(stack)]), L[Len(stack) - 1])
         /\ L[Len(stack) - 1] \in SUBSET Strings /\ stack[Len(stack)] \in Ends
<1> DEFINE n == Len(stack)
<1>1. n \in Nat \ {0} /\ n \in 1 .. n /\ n - 1 \in 0 .. n /\ n - 1 \in Nat
  OBVIOUS
<1>2. /\ Front(stack) \in Seq(Ends) /\ Len(Front(stack)) = n - 1
      /\ \A i \in 1 .. n - 1 : Front(stack)[i] = stack[i]
  <2>1. 1 \in Int /\ n - 1 \in Int /\ \A i \in 1 .. n - 1 : stack[i] \in Ends
    BY <1>1
  <2>3. /\ SubSeq(stack, 1, n - 1) \in Seq(Ends)
        /\ Len(SubSeq(stack, 1, n - 1)) = IF 1 <= n - 1 THEN n - 1 - 1 + 1 ELSE 0
        /\ \A i \in 1 .. n - 1 - 1 + 1 : SubSeq(stack, 1, n - 1)[i] = stack[1 + i - 1]
    BY <2>1, SubSeqProperties
  <2>4. n - 1 - 1 + 1 = n - 1 /\ (~ (1 <= n - 1) => n - 1 = 0)
    BY <1>1
  <2>5. \A i \in 1 .. n - 1 : 1 + i - 1 = i
    BY <1>1
  <2>2. /\ SubSeq(stack, 1, n - 1) \in Seq(Ends)
        /\ Len(SubSeq(stack, 1, n - 1)) = n - 1
        /\ \A i \in 1 .. n - 1 : SubSeq(stack, 1, n - 1)[i] = stack[i]
    BY <2>3, <2>4, <2>5
  <2>. QED
    BY <2>2 DEF Front
<1>3. \A i \in 0 .. n - 1 : i \in 0 .. n
  BY <1>1
<1>4. \A i \in 1 .. n - 1 : i \in 1 .. n
  BY <1>1
<1>5. IsChain(L, Front(stack))
  BY <1>2, <1>3, <1>4 DEF IsChain
<1>6. stack[n] \in Ends
  BY <1>1
<1>. QED
  BY <1>1, <1>2, <1>5, <1>6 DEF IsChain

(* Behind a value the text closes what is open.                            *)
LEMMA AfterClosing ==
  ASSUME NEW stack, Closed(stack), NEW L
  PROVE  /\ open' = stack /\ Expected(json', L, stack) = L[Len(stack)]
         /\ json' = IF stack = <<>> THEN "end" ELSE "after"
BY DEF Closed, Goes, Expected

(* A value is read as the grammar has it.                                  *)
LEMMA ValueRead ==
  ASSUME open \in Seq(Ends), NEW L, IsChain(L, open), NEW t \in Tokens, Value(t)
  PROVE  \E C : /\ IsChain(C, open')
                /\ \A r \in Strings : <<t>> \o r \in Cat(AllValues, L[Len(open)]) <=>
                                        r \in Expected(json', C, open')
<1> DEFINE n == Len(open)
           K == L[n]
<1>1. n \in Nat /\ K \in SUBSET Strings
  BY DEF IsChain
<1>2. \A r \in Strings : <<t>> \o r \in Cat(AllValues, K) <=>
           \/ t \in {"string", "scalar"} /\ r \in K
           \/ t = "begin-array" /\ r \in Inside("end-array", K)
           \/ t = "begin-object" /\ r \in Inside("end-object", K)
  BY <1>1, ValueBegins
<1>3. ASSUME NEW end \in Ends, NEW place \in {"first-key", "first-item"},
             Goes(place, Append(open, end)),
             \A r \in Strings : <<t>> \o r \in Cat(AllValues, K) <=> r \in Inside(end, K)
      PROVE  \E C : /\ IsChain(C, open')
                    /\ \A r \in Strings : <<t>> \o r \in Cat(AllValues, K) <=>
                                            r \in Expected(json', C, open')
  <2>1. PICK C : IsChain(C, Append(open, end)) /\ C[n] = K
    BY ChainGrows
  <2>2. Len(Append(open, end)) = n + 1 /\ Append(open, end)[n + 1] = end /\ (n + 1) - 1 = n
    BY <1>1
  <2>3. json' = place /\ open' = Append(open, end)
    BY <1>3 DEF Goes
  <2>4. Expected(place, C, Append(open, end)) = Inside(end, K)
    BY <2>1, <2>2 DEF Expected
  <2>. QED
    BY <1>3, <2>1, <2>3, <2>4
<1>4. CASE t = "begin-object" /\ Goes("first-key", Append(open, "end-object"))
  <2>1. \A r \in Strings : <<t>> \o r \in Cat(AllValues, K) <=> r \in Inside("end-object", K)
    BY <1>2, <1>4
  <2>2. "end-object" \in Ends
    BY DEF Ends
  <2>. QED
    BY <1>3, <1>4, <2>1, <2>2
<1>5. CASE t = "begin-array" /\ Goes("first-item", Append(open, "end-array"))
  <2>1. \A r \in Strings : <<t>> \o r \in Cat(AllValues, K) <=> r \in Inside("end-array", K)
    BY <1>2, <1>5
  <2>2. "end-array" \in Ends
    BY DEF Ends
  <2>. QED
    BY <1>3, <1>5, <2>1, <2>2
<1>6. CASE t \in {"string", "scalar"} /\ Closed(open)
  <2>1. open' = open /\ Expected(json', L, open) = K
    BY <1>6, AfterClosing
  <2>2. \A r \in Strings : <<t>> \o r \in Cat(AllValues, K) <=> r \in K
    BY <1>2, <1>6
  <2>. QED
    BY <2>1, <2>2
<1>7. CASE t \notin {"begin-object", "begin-array", "string", "scalar"} /\ Goes("refused", open)
  <2>1. open' = open /\ json' = "refused" /\ Expected("refused", L, open) = {}
    BY <1>7 DEF Goes, Expected
  <2>2. \A r \in Strings : ~ (<<t>> \o r \in Cat(AllValues, K))
    BY <1>2, <1>7
  <2>. QED
    BY <2>1, <2>2
<1>. QED
  BY <1>4, <1>5, <1>6, <1>7 DEF Value
-----------------------------------------------------------------------------
(* A token takes the texts that make a value to those that do behind it.   *)
LEMMA TokenRead ==
  ASSUME JsonShape, NEW L, IsChain(L, open), NEW t \in Tokens,
         \/ ParseValue(t) \/ ParseKey(t) \/ ParseColon(t) \/ ParseFirst(t)
         \/ ParseNext(t) \/ ParseTrailing(t)
  PROVE  \E C : /\ IsChain(C, open')
                /\ \A r \in Strings : <<t>> \o r \in Expected(json, L, open) <=>
                                        r \in Expected(json', C, open')
<1> DEFINE n == Len(open)
           Follows == \E C : /\ IsChain(C, open')
                             /\ \A r \in Strings : <<t>> \o r \in Expected(json, L, open) <=>
                                                     r \in Expected(json', C, open')
<1>0. open \in Seq(Ends) /\ n \in Nat /\ L[n] \in SUBSET Strings
  BY DEF JsonShape, IsChain
<1>1. Cat(AllValues, L[n]) \in SUBSET Strings
  BY <1>0, LanguagesAreStrings, CatIsString
<1>2. ASSUME NEW place, Goes(place, open),
             \A r \in Strings : <<t>> \o r \in Expected(json, L, open) <=>
                                  r \in Expected(place, L, open)
      PROVE  Follows
  BY <1>2 DEF Goes
<1>3. ASSUME Goes("refused", open), \A r \in Strings : ~ (<<t>> \o r \in Expected(json, L, open))
      PROVE  Follows
  <2>1. Expected("refused", L, open) = {}
    BY DEF Expected
  <2>. QED
    BY <1>2, <1>3, <2>1
(* The innermost object or array.                                          *)
<1>4. ASSUME open # <<>>
      PROVE  /\ IsChain(L, Front(open)) /\ n - 1 \in Nat /\ Len(Front(open)) = n - 1
             /\ L[n] = Cat(Behind(open[n]), L[n - 1])
             /\ L[n - 1] \in SUBSET Strings /\ open[n] \in Ends
  BY <1>0, <1>4, ChainFalls
<1>5. ASSUME open # <<>>, Closed(Front(open)),
             \A r \in Strings : <<t>> \o r \in Expected(json, L, open) <=> r \in L[n - 1]
      PROVE  Follows
  <2>1. open' = Front(open) /\ Expected(json', L, Front(open)) = L[Len(Front(open))]
    BY <1>5, AfterClosing
  <2>2. IsChain(L, open') /\ Expected(json', L, open') = L[n - 1]
    BY <1>4, <1>5, <2>1
  <2>. QED
    BY <1>5, <2>2
<1>6. CASE ParseValue(t)
  <2>1. json = "value" /\ Value(t)
    BY <1>6 DEF ParseValue
  <2>2. Expected(json, L, open) = Cat(AllValues, L[n])
    BY <2>1 DEF Expected
  <2>. QED
    BY <1>0, <2>1, <2>2, ValueRead
<1>7. CASE ParseKey(t)
  <2>1. json = "key" /\ Goes(IF t = "string" THEN "colon" ELSE "refused", open)
    BY <1>7 DEF ParseKey
  <2>2. Expected(json, L, open) = Key(Cat(AllValues, L[n]))
    BY <2>1 DEF Expected
  <2>3. \A r \in Strings : <<t>> \o r \in Expected(json, L, open) <=>
                             t = "string" /\ r \in Cat(One("colon"), Cat(AllValues, L[n]))
    BY <1>1, <2>2, KeyBegins
  <2>4. Expected("colon", L, open) = Cat(One("colon"), Cat(AllValues, L[n]))
    BY DEF Expected
  <2>. QED
    BY <1>2, <1>3, <2>1, <2>3, <2>4
<1>8. CASE ParseColon(t)
  <2>1. json = "colon" /\ Goes(IF t = "colon" THEN "value" ELSE "refused", open)
    BY <1>8 DEF ParseColon
  <2>2. Expected(json, L, open) = Cat(One("colon"), Cat(AllValues, L[n]))
    BY <2>1 DEF Expected
  <2>3. \A r \in Strings : <<t>> \o r \in Expected(json, L, open) <=>
                             t = "colon" /\ r \in Cat(AllValues, L[n])
    BY <1>1, <2>2, KeyBegins
  <2>4. Expected("value", L, open) = Cat(AllValues, L[n])
    BY DEF Expected
  <2>. QED
    BY <1>2, <1>3, <2>1, <2>3, <2>4
(* The first turn: the end of it or a first element.                       *)
<1>9. ASSUME json \in {"first-key", "first-item"}, NEW r \in Strings
      PROVE  <<t>> \o r \in Expected(json, L, open) <=>
               \/ t = open[n] /\ r \in L[n - 1]
               \/ <<t>> \o r \in Elements(open[n], L[n - 1])
  <2>1. open # <<>> /\ json \notin {"after", "end", "value", "colon", "key"}
    BY <1>9 DEF JsonShape
  <2>2. Expected(json, L, open) = Cat(One(open[n]), L[n - 1]) \cup Elements(open[n], L[n - 1])
    BY <1>9, <2>1 DEF Expected, Inside
  <2>3. open[n] \in Tokens /\ L[n - 1] \in SUBSET Strings
    BY <1>4, <2>1 DEF Ends, Tokens
  <2>4. <<t>> \o r \in Cat(One(open[n]), L[n - 1]) <=> t = open[n] /\ r \in L[n - 1]
    BY <2>3, StartsWith
  <2>. QED
    BY <2>2, <2>4
<1>10. ASSUME json = "first-key"
       PROVE  /\ open # <<>> /\ open[n] = "end-object"
              /\ Elements(open[n], L[n - 1]) = Key(Cat(AllValues, L[n]))
  BY <1>4, <1>10 DEF JsonShape, Elements
<1>11. ASSUME json = "first-item"
       PROVE  /\ open # <<>> /\ open[n] = "end-array"
              /\ Elements(open[n], L[n - 1]) = Cat(AllValues, L[n])
  BY <1>4, <1>11 DEF JsonShape, Elements
<1>12. CASE json = "first-key" /\ t = "end-object" /\ Closed(Front(open))
  <2>1. \A r \in Strings : ~ (<<t>> \o r \in Key(Cat(AllValues, L[n])))
    BY <1>1, <1>12, KeyBegins
  <2>2. \A r \in Strings : <<t>> \o r \in Expected(json, L, open) <=> r \in L[n - 1]
    BY <1>9, <1>10, <1>12, <2>1
  <2>. QED
    BY <1>5, <1>10, <1>12, <2>2
<1>13. CASE /\ json = "first-key" /\ t # "end-object"
            /\ Goes(IF t = "string" THEN "colon" ELSE "refused", open)
  <2>1. \A r \in Strings : <<t>> \o r \in Key(Cat(AllValues, L[n])) <=>
                             t = "string" /\ r \in Cat(One("colon"), Cat(AllValues, L[n]))
    BY <1>1, KeyBegins
  <2>2. \A r \in Strings : <<t>> \o r \in Expected(json, L, open) <=>
                             t = "string" /\ r \in Cat(One("colon"), Cat(AllValues, L[n]))
    BY <1>9, <1>10, <1>13, <2>1
  <2>3. Expected("colon", L, open) = Cat(One("colon"), Cat(AllValues, L[n]))
    BY DEF Expected
  <2>. QED
    BY <1>2, <1>3, <1>13, <2>2, <2>3
<1>14. CASE json = "first-item" /\ t = "end-array" /\ Closed(Front(open))
  <2>1. \A r \in Strings : ~ (<<t>> \o r \in Cat(AllValues, L[n]))
    BY <1>0, <1>14, ValueBegins
  <2>2. \A r \in Strings : <<t>> \o r \in Expected(json, L, open) <=> r \in L[n - 1]
    BY <1>9, <1>11, <1>14, <2>1
  <2>. QED
    BY <1>5, <1>11, <1>14, <2>2
<1>15. CASE json = "first-item" /\ t # "end-array" /\ Value(t)
  <2>1. \A r \in Strings : <<t>> \o r \in Expected(json, L, open) <=>
                             <<t>> \o r \in Cat(AllValues, L[n])
    BY <1>9, <1>11, <1>15
  <2>2. PICK C : /\ IsChain(C, open')
                 /\ \A r \in Strings : <<t>> \o r \in Cat(AllValues, L[n]) <=>
                                         r \in Expected(json', C, open')
    BY <1>0, <1>15, ValueRead
  <2>. QED
    BY <2>1, <2>2
<1>16. CASE ParseNext(t)
  <2>1. json = "after" /\ open # <<>> /\ Last(open) = open[n]
    BY <1>16 DEF ParseNext, JsonShape, Last
  <2>2. /\ Expected(json, L, open) = Cat(Behind(open[n]), L[n - 1])
        /\ L[n - 1] \in SUBSET Strings /\ open[n] \in {"end-object", "end-array"}
    BY <1>4, <2>1 DEF Expected, Ends
  <2>3. \A r \in Strings : <<t>> \o r \in Expected(json, L, open) <=>
                             \/ t = open[n] /\ r \in L[n - 1]
                             \/ t = "comma" /\ r \in Elements(open[n], L[n - 1])
    BY <2>2, BehindBegins
  <2>4. CASE t = open[n] /\ Closed(Front(open))
    <3>1. \A r \in Strings : <<t>> \o r \in Expected(json, L, open) <=> r \in L[n - 1]
      BY <2>2, <2>3, <2>4
    <3>. QED
      BY <1>5, <2>1, <2>4, <3>1
  <2>5. CASE t = "comma" /\ Goes(IF open[n] = "end-object" THEN "key" ELSE "value", open)
    <3>1. Elements(open[n], L[n - 1]) =
            Expected(IF open[n] = "end-object" THEN "key" ELSE "value", L, open)
      BY <1>4, <2>1 DEF Elements, Expected
    <3>2. \A r \in Strings : <<t>> \o r \in Expected(json, L, open) <=>
                               r \in Elements(open[n], L[n - 1])
      BY <2>2, <2>3, <2>5
    <3>. QED
      BY <1>2, <2>5, <3>1, <3>2
  <2>6. CASE t \notin {open[n], "comma"} /\ Goes("refused", open)
    BY <1>3, <2>3, <2>6
  <2>. QED
    BY <1>16, <2>1, <2>4, <2>5, <2>6 DEF ParseNext
<1>17. CASE ParseTrailing(t)
  <2>1. json = "end" /\ open = <<>> /\ Goes("refused", open)
    BY <1>17 DEF ParseTrailing, JsonShape
  <2>2. Expected(json, L, open) = {<<>>}
    BY <2>1 DEF Expected, IsChain
  <2>3. \A r \in Strings : <<t>> \o r # <<>>
    <3>1. ASSUME NEW r \in Strings PROVE <<t>> \o r # <<>>
      <4>1. <<t>> \in Seq(Tokens) /\ r \in Seq(Tokens) /\ Len(<<t>>) = 1 /\ Len(r) \in Nat
        BY DEF Strings
      <4>2. Len(<<t>> \o r) = 1 + Len(r)
        BY <4>1, ConcatProperties
      <4>. QED
        BY <4>1, <4>2
    <3>. QED
      BY <3>1
  <2>. QED
    BY <1>3, <2>1, <2>2, <2>3
<1>18. CASE ParseFirst(t)
  BY <1>12, <1>13, <1>14, <1>15, <1>18 DEF ParseFirst
<1>. QED
  BY <1>6, <1>7, <1>8, <1>16, <1>17, <1>18
-----------------------------------------------------------------------------
(* At first any value may come.                                            *)
LEMMA JsonInitial == JsonInit => JsonInv
<1> SUFFICES ASSUME JsonInit PROVE JsonInv
  OBVIOUS
<1>1. json = "value" /\ open = <<>> /\ text = <<>> /\ ended = FALSE
  BY DEF JsonInit
<1>2. <<>> \in Strings /\ <<>> \in Seq(Ends) /\ Len(<<>>) = 0 /\ 0 <= MaxTokens
  BY JsonAssumption DEF Strings
<1>3. JsonShape
  BY <1>1, <1>2 DEF JsonShape
<1> DEFINE L == [i \in {0} |-> {<<>>}]
<1>4. L[0] = {<<>>} /\ \A i \in 0 .. 0 : i = 0
  OBVIOUS
<1> HIDE DEF L
<1>5. IsChain(L, <<>>)
  BY <1>2, <1>4 DEF IsChain
<1>6. ASSUME NEW r \in Strings
      PROVE  <<>> \o r \in AllValues <=> r \in Cat(AllValues, {<<>>})
  <2>1. <<>> \o r = r
    BY ConcatEmptySeq DEF Strings
  <2>2. \A v \in AllValues : v \o <<>> = v
    BY LanguagesAreStrings, ConcatEmptySeq DEF Strings
  <2>3. r \in Cat(AllValues, {<<>>}) <=> \E v \in AllValues, b \in {<<>>} : r = v \o b
    BY DEF Cat
  <2>. QED
    BY <2>1, <2>2, <2>3
<1>7. Expected("value", L, <<>>) = Cat(AllValues, {<<>>})
  BY <1>2, <1>4 DEF Expected
<1>8. Understood(json, open, text)
  BY <1>1, <1>5, <1>6, <1>7 DEF Understood
<1>. QED
  BY <1>1, <1>3, <1>8 DEF JsonInv

(* No text of the grammar is empty.                                        *)
LEMMA NothingIsNoValue ==
  ASSUME NEW A \in SUBSET Strings, NEW B \in SUBSET Strings, <<>> \notin A
  PROVE  <<>> \notin Cat(A, B)
<1> SUFFICES ASSUME <<>> \in Cat(A, B) PROVE FALSE
  OBVIOUS
<1>1. PICK a \in A, b \in B : <<>> = a \o b
  BY CatMember
<1>2. a \in Seq(Tokens) /\ b \in Seq(Tokens)
  BY DEF Strings
<1>3. a = <<>>
  BY <1>1, <1>2, ConcatSimplifications
<1>. QED
  BY <1>3

(* A text may end only where the parser says it is at the end.             *)
LEMMA OnlyTheEndIsEmpty ==
  ASSUME JsonShape, NEW L, IsChain(L, open), json \notin {"accepted", "refused"}
  PROVE  <<>> \in Expected(json, L, open) <=> json = "end"
<1> DEFINE n == Len(open)
<1>1. /\ open \in Seq(Ends) /\ n \in Nat /\ L[n] \in SUBSET Strings
      /\ AllValues \in SUBSET Strings
  BY LanguagesAreStrings DEF JsonShape, IsChain
<1>2. <<>> \notin AllValues
  <2>1. \A k \in Nat \ {0} : 0 # k
    OBVIOUS
  <2>. QED
    BY <2>1, RowLengths DEF AllValues
<1>3. \A t : <<>> \notin One(t)
  BY DEF One
<1>4. \A end \in Ends : <<>> \notin Behind(end)
  <2>1. ASSUME NEW end \in Ends PROVE <<>> \notin Behind(end)
    <3>1. Listed(end) \in SUBSET Strings /\ One("comma") \in SUBSET Strings
      <4>1. {<<>>} \in SUBSET Strings
        BY DEF Strings
      <4>. QED
        BY <4>1, ListedThen, OneOf DEF Ends
    <3>2. <<>> \notin Cat(One("comma"), Listed(end))
      BY <1>3, <3>1, NothingIsNoValue
    <3>. QED
      BY <1>3, <3>2 DEF Behind, Listed
  <2>. QED
    BY <2>1
<1>5. <<>> \notin Cat(AllValues, L[n]) /\ Cat(AllValues, L[n]) \in SUBSET Strings
  BY <1>1, <1>2, NothingIsNoValue, CatIsString
<1>6. ASSUME NEW K \in SUBSET Strings
      PROVE  <<>> \notin Key(K) /\ <<>> \notin Cat(One("colon"), K)
  <2>1. One("string") \in SUBSET Strings /\ One("colon") \in SUBSET Strings
    BY OneOf
  <2>2. Cat(One("colon"), K) \in SUBSET Strings
    BY <2>1, CatIsString
  <2>. QED
    BY <1>3, <2>1, <2>2, NothingIsNoValue DEF Key
<1>7. CASE json = "end"
  BY <1>7 DEF Expected, IsChain, JsonShape
<1>8. CASE json = "value"
  BY <1>5, <1>8 DEF Expected
<1>9. CASE json \in {"key", "colon"}
  BY <1>5, <1>6, <1>9 DEF Expected
<1>10. CASE json \in {"after", "first-key", "first-item"}
  <2>1. open # <<>>
    BY <1>10 DEF JsonShape
  <2>2. /\ L[n] = Cat(Behind(open[n]), L[n - 1]) /\ L[n - 1] \in SUBSET Strings
        /\ open[n] \in Ends
    BY <1>1, <2>1, ChainFalls
  <2>3. Behind(open[n]) \in SUBSET Strings
    BY <2>2, BehindIsString DEF Ends
  <2>4. CASE json = "after"
    BY <1>4, <2>2, <2>3, <2>4, NothingIsNoValue DEF Expected
  <2>5. CASE json \in {"first-key", "first-item"}
    <3>1. One(open[n]) \in SUBSET Strings
      BY <2>2, OneOf DEF Ends
    <3>2. <<>> \notin Cat(One(open[n]), L[n - 1])
      BY <1>3, <2>2, <3>1, NothingIsNoValue
    <3>3. <<>> \notin Elements(open[n], L[n - 1])
      BY <1>5, <1>6, <2>2 DEF Elements
    <3>. QED
      BY <2>5, <3>2, <3>3 DEF Expected, Inside
  <2>. QED
    BY <1>10, <2>4, <2>5
<1>. QED
  BY <1>7, <1>8, <1>9, <1>10 DEF JsonShape
-----------------------------------------------------------------------------
(* The stack has what the place of the parser needs.                       *)
LEMMA ReadShape ==
  ASSUME JsonShape, NEW t \in Tokens, ReadToken(t)
  PROVE  JsonShape' /\ json' # "accepted"
<1>1. open \in Seq(Ends) /\ text \in Seq(Tokens) /\ Len(text) < MaxTokens
  BY DEF JsonShape, ReadToken, Strings
<1>2. text' \in Strings /\ Len(text') <= MaxTokens /\ ended' \in BOOLEAN
  BY <1>1, JsonAssumption DEF ReadToken, Strings, JsonShape
<1> DEFINE Good == /\ json' \in {"value", "key", "colon", "first-key", "first-item", "after",
                                "end", "refused"}
                   /\ open' \in Seq(Ends)
                   /\ json' \in {"first-key", "first-item", "after"} => open' # <<>>
                   /\ json' = "first-key" => open'[Len(open')] = "end-object"
                   /\ json' = "first-item" => open'[Len(open')] = "end-array"
                   /\ json' = "end" => open' = <<>>
<1>3. ASSUME NEW place \in {"value", "key", "colon", "refused"}, Goes(place, open) PROVE Good
  BY <1>1, <1>3 DEF Goes
<1>4. ASSUME NEW stack \in Seq(Ends), Closed(stack) PROVE Good
  BY <1>4 DEF Closed, Goes
<1>5. ASSUME NEW end \in Ends, NEW place,
             \/ place = "first-key" /\ end = "end-object"
             \/ place = "first-item" /\ end = "end-array",
             Goes(place, Append(open, end))
      PROVE  Good
  <2>1. /\ Append(open, end) \in Seq(Ends) /\ Append(open, end) # <<>>
        /\ Append(open, end)[Len(Append(open, end))] = end
    BY <1>1, AppendProperties
  <2>2. json' = place /\ open' = Append(open, end)
    BY <1>5 DEF Goes
  <2>. QED
    BY <1>5, <2>1, <2>2
<1>6. ASSUME Value(t) PROVE Good
  <2>1. "end-object" \in Ends /\ "end-array" \in Ends
    BY DEF Ends
  <2>. QED
    BY <1>1, <1>3, <1>4, <1>5, <1>6, <2>1 DEF Value
<1>7. open # <<>> => Front(open) \in Seq(Ends)
  <2>1. \A i \in 1 .. Len(open) - 1 : open[i] \in Ends
    BY <1>1
  <2>. QED
    BY <1>1, <2>1, SubSeqProperties DEF Front
<1>8. Good
  <2>1. CASE ParseValue(t)
    BY <1>6, <2>1 DEF ParseValue
  <2>2. CASE ParseKey(t)
    BY <1>3, <2>2 DEF ParseKey
  <2>3. CASE ParseColon(t)
    BY <1>3, <2>3 DEF ParseColon
  <2>4. CASE ParseFirst(t)
    <3>1. open # <<>>
      BY <2>4 DEF ParseFirst, JsonShape
    <3>. QED
      BY <1>3, <1>4, <1>6, <1>7, <2>4, <3>1 DEF ParseFirst
  <2>5. CASE ParseNext(t)
    <3>1. open # <<>>
      BY <2>5 DEF ParseNext, JsonShape
    <3>. QED
      BY <1>3, <1>4, <1>7, <2>5, <3>1 DEF ParseNext
  <2>6. CASE ParseTrailing(t)
    BY <1>3, <2>6 DEF ParseTrailing
  <2>. QED
    BY <2>1, <2>2, <2>3, <2>4, <2>5, <2>6 DEF ReadToken
<1>. QED
  BY <1>2, <1>8 DEF JsonShape

(* A token or the end keeps what the parser knows of the text.             *)
LEMMA JsonStep == JsonInv /\ JsonNext => JsonInv'
<1> SUFFICES ASSUME JsonInv, JsonNext PROVE JsonInv'
  OBVIOUS
<1>1. ~ended /\ json \notin {"accepted", "refused"} /\ JsonShape
  BY DEF JsonInv, JsonNext, ReadToken, TextEnds, Done
<1>2. PICK L : /\ IsChain(L, open)
               /\ \A r \in Strings : text \o r \in AllValues <=> r \in Expected(json, L, open)
  BY <1>1 DEF JsonInv, Understood
<1>3. text \in Seq(Tokens)
  BY <1>1 DEF JsonShape, Strings
<1>4. ASSUME NEW t \in Tokens, ReadToken(t) PROVE JsonInv'
  <2>1. PICK C : /\ IsChain(C, open')
                 /\ \A r \in Strings : <<t>> \o r \in Expected(json, L, open) <=>
                                         r \in Expected(json', C, open')
    BY <1>1, <1>2, <1>4, TokenRead DEF ReadToken
  <2>2. ASSUME NEW r \in Strings
        PROVE  text' \o r = text \o (<<t>> \o r) /\ <<t>> \o r \in Strings
    <3>1. <<t>> \in Seq(Tokens) /\ r \in Seq(Tokens)
      BY DEF Strings
    <3>2. text' = text \o <<t>>
      BY <1>3, <1>4, AppendIsConcat DEF ReadToken
    <3>3. (text \o <<t>>) \o r = text \o (<<t>> \o r)
      BY <1>3, <3>1, ConcatAssociative
    <3>4. <<t>> \o r \in Seq(Tokens)
      BY <3>1, ConcatProperties
    <3>. QED
      BY <3>2, <3>3, <3>4 DEF Strings
  <2>3. \A r \in Strings : text' \o r \in AllValues <=> r \in Expected(json', C, open')
    BY <1>2, <2>1, <2>2
  <2>4. Understood(json', open', text')
    BY <2>1, <2>3 DEF Understood
  <2>5. JsonShape' /\ json' # "accepted" /\ ~ended'
    BY <1>1, <1>4, ReadShape DEF ReadToken
  <2>. QED
    BY <2>4, <2>5 DEF JsonInv
<1>5. CASE TextEnds
  <2>1. /\ json' = (IF json = "end" THEN "accepted" ELSE "refused")
        /\ ended' = TRUE /\ UNCHANGED <<open, text>>
    BY <1>5 DEF TextEnds, Goes
  <2>2. <<>> \in Expected(json, L, open) <=> json = "end"
    BY <1>1, <1>2, OnlyTheEndIsEmpty
  <2>3. <<>> \in Strings /\ text \o <<>> = text
    BY <1>3, ConcatEmptySeq DEF Strings
  <2>4. text \in AllValues <=> json = "end"
    BY <1>2, <2>2, <2>3
  <2>5. JsonShape'
    BY <1>1, <2>1 DEF JsonShape
  <2>6. text' = text
    BY <2>1
  <2>. QED
    BY <2>1, <2>4, <2>5, <2>6 DEF JsonInv
<1>. QED
  BY <1>4, <1>5 DEF JsonNext

(* The texts of the model are the values that fit in it.                   *)
LEMMA TextsAreValues ==
  ASSUME NEW s
  PROVE  s \in Texts <=> s \in AllValues /\ Len(s) <= MaxTokens
<1>1. MaxTokens \in Nat \ {0}
  BY JsonAssumption
<1>2. \A n \in 1 .. MaxTokens : Grammar[MaxTokens][n] = Row(n)
  BY <1>1, TableRows
<1>3. s \in Texts <=> \E n \in 1 .. MaxTokens : s \in Row(n).values
  BY <1>2 DEF Texts
<1>4. \A n \in 1 .. MaxTokens : n \in Nat \ {0} /\ n <= MaxTokens
  BY <1>1
<1>5. ASSUME NEW n \in Nat \ {0}, s \in Row(n).values PROVE Len(s) = n
  BY <1>5, RowLengths
<1>6. ASSUME s \in Texts PROVE s \in AllValues /\ Len(s) <= MaxTokens
  BY <1>3, <1>4, <1>5, <1>6 DEF AllValues
<1>7. ASSUME s \in AllValues, Len(s) <= MaxTokens PROVE s \in Texts
  <2>1. PICK n \in Nat \ {0} : s \in Row(n).values
    BY <1>7 DEF AllValues
  <2>2. n \in 1 .. MaxTokens
    BY <1>1, <1>5, <1>7, <2>1
  <2>. QED
    BY <1>3, <2>1, <2>2
<1>. QED
  BY <1>6, <1>7

(* And that is what the grammar asks of it.                                *)
LEMMA GrammarFollows == JsonInv => GrammarAccepted
<1> SUFFICES ASSUME JsonInv PROVE GrammarAccepted
  OBVIOUS
<1>1. JsonShape /\ text \in Seq(Tokens) /\ Len(text) <= MaxTokens
  BY DEF JsonInv, JsonShape, Strings
<1>2. json = "accepted" => text \in Texts
  BY <1>1, TextsAreValues DEF JsonInv
<1>3. json = "refused" /\ ended => text \notin Texts
  BY TextsAreValues DEF JsonInv
<1>4. ASSUME json = "refused", ~ended, NEW t \in Texts, IsPrefix(text, t) PROVE FALSE
  <2>1. PICK L : /\ IsChain(L, open)
                 /\ \A r \in Strings : text \o r \in AllValues <=> r \in Expected(json, L, open)
    BY <1>4 DEF JsonInv, Understood
  <2>2. Expected(json, L, open) = {}
    BY <1>4 DEF Expected
  <2>3. t \in AllValues /\ t \in Seq(Tokens)
    BY LanguagesAreStrings, TextsAreValues DEF Strings
  <2>4. PICK r \in Seq(Tokens) : t = text \o r
    <3> DEFINE m == Len(text)
               n == Len(t)
    <3>1. m \in Nat /\ n \in Nat /\ m <= n /\ SubSeq(text, 1, m) = SubSeq(t, 1, m)
      BY <1>1, <1>4, <2>3 DEF IsPrefix
    <3>2. SubSeq(text, 1, m) = text /\ SubSeq(t, 1, n) = t
      BY <1>1, <2>3, SubSeqFull
    <3>3. 1 \in 1 .. n + 1 /\ m \in 1 - 1 .. n /\ n \in m .. n
      BY <3>1
    <3>4. SubSeq(t, 1, m) \o SubSeq(t, m + 1, n) = SubSeq(t, 1, n)
      BY <2>3, <3>3, ConcatAdjacentSubSeq
    <3>5. m + 1 \in Int /\ n \in Int /\ \A i \in m + 1 .. n : t[i] \in Tokens
      BY <2>3, <3>1
    <3>6. SubSeq(t, m + 1, n) \in Seq(Tokens)
      BY <3>5, SubSeqProperties
    <3>7. t = text \o SubSeq(t, m + 1, n)
      BY <3>1, <3>2, <3>4
    <3>. QED
      BY <3>6, <3>7
  <2>. QED
    BY <2>1, <2>2, <2>3, <2>4 DEF Strings
<1>. QED
  BY <1>2, <1>3, <1>4 DEF GrammarAccepted

=============================================================================
