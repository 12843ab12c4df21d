-------------------------- MODULE MarketplaceProofs --------------------------
(***************************************************************************)
(* Proofs about the Marketplace for any members, assets, pools, terms,     *)
(* pages and sweeps of any size.                                           *)
(***************************************************************************)
EXTENDS Marketplace, Sums, SequenceTheorems

-----------------------------------------------------------------------------
(* Pages of token ids.                                                     *)

\* Where an id stands.
LEMMA IdsAt ==
    ASSUME NEW S, NEW pages \in Seq(Seq(S)), NEW i \in Nat \ {0}
    PROVE  \A id : id \in IdsFrom(pages, i) <=>
                \E j \in DOMAIN pages : j >= i /\ \E k \in DOMAIN pages[j] : pages[j][k] = id
  <1>1. DOMAIN pages = 1 .. Len(pages) /\ Len(pages) \in Nat
    OBVIOUS
  <1>2. \A j : j \in i .. Len(pages) <=> j \in DOMAIN pages /\ j >= i
    BY <1>1
  <1> QED BY <1>2 DEF IdsFrom, Range

\* The ids of all pages.
LEMMA OnPagesAt ==
    ASSUME NEW S, NEW pages \in Seq(Seq(S))
    PROVE  \A id : id \in OnPages(pages) <=>
                \E j \in DOMAIN pages : \E k \in DOMAIN pages[j] : pages[j][k] = id
  <1>1. \A j \in DOMAIN pages : j >= 1
    OBVIOUS
  <1>2. \A id : id \in IdsFrom(pages, 1) <=>
            \E j \in DOMAIN pages : j >= 1 /\ \E k \in DOMAIN pages[j] : pages[j][k] = id
    BY IdsAt
  <1> QED BY <1>1, <1>2 DEF OnPages

\* Positions of a page.
LEMMA PageIs ==
    ASSUME NEW S, NEW pages \in Seq(Seq(S))
    PROVE  /\ Len(pages) \in Nat /\ DOMAIN pages = 1 .. Len(pages)
           /\ \A i \in DOMAIN pages :
                /\ pages[i] \in Seq(S) /\ Len(pages[i]) \in Nat
                /\ DOMAIN pages[i] = 1 .. Len(pages[i])
                /\ \A k \in DOMAIN pages[i] : pages[i][k] \in S
  <1>1. Len(pages) \in Nat /\ DOMAIN pages = 1 .. Len(pages)
    OBVIOUS
  <1>2. ASSUME NEW i \in DOMAIN pages
        PROVE  /\ pages[i] \in Seq(S) /\ Len(pages[i]) \in Nat
               /\ DOMAIN pages[i] = 1 .. Len(pages[i])
               /\ \A k \in DOMAIN pages[i] : pages[i][k] \in S
    <2>1. pages[i] \in Seq(S)
      BY <1>1, <1>2, ElementOfSeq
    <2> QED BY <2>1
  <1> QED BY <1>1, <1>2

\* Part of a sequence.
LEMMA SubSeqIs ==
    ASSUME NEW S, NEW s \in Seq(S), NEW m \in 1 .. Len(s) + 1, NEW n \in 0 .. Len(s), m <= n + 1
    PROVE  /\ SubSeq(s, m, n) \in Seq(S)
           /\ Len(SubSeq(s, m, n)) = (n + 1) - m
           /\ \A k \in 1 .. (n + 1) - m : SubSeq(s, m, n)[k] = s[m + k - 1]
  <1>1. Len(s) \in Nat /\ m \in Int /\ n \in Int /\ \A i \in m .. n : s[i] \in S
    OBVIOUS
  <1>2. /\ SubSeq(s, m, n) \in Seq(S)
        /\ Len(SubSeq(s, m, n)) = IF m <= n THEN n - m + 1 ELSE 0
        /\ \A i \in 1 .. n - m + 1 : SubSeq(s, m, n)[i] = s[m + i - 1]
    BY <1>1, SubSeqProperties
  <1>3. n - m + 1 = (n + 1) - m /\ (~ (m <= n) => (n + 1) - m = 0)
    BY <1>1
  <1> QED BY <1>2, <1>3

-----------------------------------------------------------------------------
(* A purchase takes one id.                                                *)

\* RemoveFirst of an id that is there leaves out one position.
LEMMA TakeFromIs ==
    ASSUME NEW S, NEW s \in Seq(S), NEW id \in Range(s)
    PROVE  \E n \in DOMAIN s :
              /\ s[n] = id
              /\ TakeFrom(s, id) \in Seq(S)
              /\ Len(TakeFrom(s, id)) = Len(s) - 1
              /\ \A k \in 1 .. Len(s) - 1 :
                    TakeFrom(s, id)[k] = s[IF k < n THEN k ELSE k + 1]
  <1> DEFINE I == {k \in 1 .. Len(s) : s[k] = id}
             n == Min(I)
  <1>1. Len(s) \in Nat /\ DOMAIN s = 1 .. Len(s)
    OBVIOUS
  <1>2. I # {}
    BY <1>1 DEF Range
  <1>3. n \in I
    <2>1. I \in SUBSET Nat
      BY <1>1
    <2> HIDE DEF I
    <2>2. \E x \in I : \A y \in I : x <= y
      <3>1. IsWellFoundedOn(OpToRel(<, Nat), Nat)
        BY NatLessThanWellFounded
      <3>2. PICK x \in I : \A y \in I : <<y, x>> \notin OpToRel(<, Nat)
        BY <1>2, <2>1, <3>1, WFMin
      <3>3. \A y \in I : ~ (y < x)
        BY <2>1, <3>2 DEF OpToRel
      <3>4. x \in Nat /\ \A y \in I : y \in Nat
        BY <2>1
      <3>5. \A y \in I : x <= y
        BY <3>3, <3>4
      <3> QED BY <3>5
    <2> QED BY <2>2 DEF Min
  <1> HIDE DEF n
  <1>4. TakeFrom(s, id) = RemoveAt(s, n)
    <2>1. SelectInSeq(s, LAMBDA v : v = id) = n
      BY <1>2 DEF SelectInSeq, n
    <2>2. \E k \in 1 .. Len(s) : s[k] = id
      BY <1>2
    <2> QED BY <2>1, <2>2 DEF TakeFrom, RemoveFirst
  <1> HIDE DEF I
  <1>5. n \in 1 .. Len(s) /\ s[n] = id
    BY <1>3 DEF I
  <1> DEFINE a == SubSeq(s, 1, n - 1)
             b == SubSeq(s, n + 1, Len(s))
  <1>6. a \in Seq(S) /\ Len(a) = n - 1 /\ \A k \in 1 .. n - 1 : a[k] = s[k]
    BY <1>1, <1>5
  <1>7. b \in Seq(S) /\ Len(b) = Len(s) - n /\ \A k \in 1 .. Len(s) - n : b[k] = s[n + k]
    <2>1. n + 1 \in 1 .. Len(s) + 1 /\ Len(s) \in 0 .. Len(s) /\ n + 1 <= Len(s) + 1
      BY <1>1, <1>5
    <2>2. \A k \in 1 .. Len(s) - n : b[k] = s[(n + 1) + k - 1]
      BY <1>1, <1>5, <2>1, SubSeqIs
    <2>3. \A k \in 1 .. Len(s) - n : (n + 1) + k - 1 = n + k
      BY <1>1, <1>5
    <2>4. b \in Seq(S) /\ Len(b) = (Len(s) + 1) - (n + 1)
      BY <2>1, SubSeqIs
    <2>5. (Len(s) + 1) - (n + 1) = Len(s) - n
      BY <1>1, <1>5
    <2> HIDE DEF b
    <2> QED BY <2>2, <2>3, <2>4, <2>5
  <1>8. TakeFrom(s, id) = a \o b
    BY <1>4 DEF RemoveAt
  <1> HIDE DEF a, b
  <1>9. /\ a \o b \in Seq(S) /\ Len(a \o b) = Len(s) - 1
        /\ \A k \in 1 .. Len(s) - 1 :
              (a \o b)[k] = IF k <= Len(a) THEN a[k] ELSE b[k - Len(a)]
    <2>1. Len(a) + Len(b) = Len(s) - 1
      BY <1>1, <1>5, <1>6, <1>7
    <2> QED BY <1>6, <1>7, <2>1, ConcatProperties
  <1>10. ASSUME NEW k \in 1 .. Len(s) - 1
         PROVE  (a \o b)[k] = s[IF k < n THEN k ELSE k + 1]
    <2>1. CASE k < n
      BY <1>1, <1>5, <1>6, <1>9, <2>1
    <2>2. CASE ~ (k < n)
      <3>1. k - Len(a) \in 1 .. Len(s) - n /\ n + (k - Len(a)) = k + 1 /\ ~ (k <= Len(a))
        BY <1>1, <1>5, <1>6, <2>2
      <3> QED BY <1>7, <1>9, <2>2, <3>1
    <2> QED BY <2>1, <2>2
  <1> QED BY <1>1, <1>5, <1>8, <1>9, <1>10
-----------------------------------------------------------------------------
(* Restocked ids are cut into pages.                                       *)

\* Division with remainder.
LEMMA DivIs ==
    ASSUME NEW a \in Nat, NEW b \in Nat \ {0}
    PROVE  /\ a \div b \in Nat /\ a % b \in 0 .. b - 1
           /\ a = (a \div b) * b + (a % b)
  OBVIOUS

\* A product of naturals is one.
LEMMA TimesNat == ASSUME NEW a \in Nat, NEW b \in Nat PROVE a * b \in Nat
  OBVIOUS

\* A product grows with its factor.
LEMMA TimesMono ==
    ASSUME NEW a \in Nat, NEW b \in Nat, NEW c \in Nat, a <= b
    PROVE  a * c <= b * c
  OBVIOUS

\* A position of the whole lies on one page.
LEMMA OnePosition ==
    ASSUME NEW i \in Nat, NEW j \in Nat, NEW P \in Nat \ {0},
           NEW k \in 1 .. P, NEW l \in 1 .. P, i * P + k = j * P + l
    PROVE  i = j /\ k = l
  <1>1. ASSUME NEW x \in Nat, NEW y \in Nat, NEW u \in 1 .. P, NEW v \in 1 .. P, x < y
        PROVE  x * P + u < y * P + v
    <2>1. (x + 1) * P <= y * P
      BY <1>1, TimesMono
    <2>2. (x + 1) * P = x * P + P /\ x * P \in Nat /\ y * P \in Nat
      OBVIOUS
    <2> QED BY <2>1, <2>2
  <1>2. ~ (i < j) /\ ~ (j < i)
    <2>1. i * P \in Nat /\ j * P \in Nat
      OBVIOUS
    <2> QED BY <1>1, <2>1
  <1>3. i = j
    BY <1>2
  <1>4. i * P \in Nat
    OBVIOUS
  <1> QED BY <1>3, <1>4

\* Pages of token ids are sequences of sequences.
LEMMA Paged ==
    ASSUME NEW pages \in Seq(Page)
    PROVE  pages \in Seq(Seq(Tokens)) /\ \A i \in DOMAIN pages : pages[i] \in Page
  <1>1. Page \subseteq Seq(Tokens)
    BY DEF Page
  <1>2. DOMAIN pages = 1 .. Len(pages) /\ \A i \in DOMAIN pages : pages[i] \in Page
    BY ElementOfSeq
  <1> QED BY <1>1, <1>2, SeqMonotonic

\* Cut into pages every id stands once, and nothing else.
LEMMA PagesKeepIds ==
    ASSUME NEW ids \in Seq(Tokens), IsInjective(ids)
    PROVE  /\ Pages(ids) \in Seq(Page)
           /\ OnPages(Pages(ids)) = Range(ids)
           /\ OnceEach(Pages(ids))
  <1> DEFINE P == PageSize
             N == Len(ids)
             Q == (N + P - 1) \div P
             g == Pages(ids)
             w(i) == SmallerOf(i * P, N)
  <1>1. P \in Nat \ {0}
    BY MarketplaceAssumption
  <1>2. N \in Nat /\ DOMAIN ids = 1 .. N
    OBVIOUS
  <1>3. N + P - 1 \in Nat
    BY <1>1, <1>2
  <1> HIDE DEF P, N
  <1>4. Q \in Nat /\ Q * P \in Nat /\ Q * P <= N + P - 1 /\ N + P - 1 <= Q * P + (P - 1)
    <2> DEFINE r == (N + P - 1) % P
    <2>1. Q \in Nat /\ r \in 0 .. P - 1 /\ N + P - 1 = Q * P + r
      BY <1>1, <1>3, DivIs
    <2>2. Q * P \in Nat
      BY <1>1, <2>1, TimesNat
    <2> HIDE DEF Q, r
    <2> QED BY <1>1, <1>2, <2>1, <2>2
  <1>5. g = [i \in 1 .. Q |-> SubSeq(ids, (i - 1) * P + 1, w(i))]
    BY DEF Pages, P, N
  <1> HIDE DEF Q, g
  \* The bounds of a page.
  <1>6. ASSUME NEW i \in 1 .. Q
        PROVE  /\ i - 1 \in Nat /\ (i - 1) * P \in Nat
               /\ w(i) \in 0 .. N /\ (i - 1) * P < w(i)
               /\ w(i) <= (i - 1) * P + P
    <2>1. i - 1 \in Nat /\ i \in Nat /\ i <= Q
      BY <1>4
    <2>2. (i - 1) * P \in Nat /\ i * P = (i - 1) * P + P
      BY <1>1, <2>1
    <2>3. i * P <= Q * P
      BY <1>1, <1>4, <2>1, TimesMono
    <2>4. (i - 1) * P < N
      BY <1>1, <1>2, <1>4, <2>2, <2>3
    <2> QED BY <1>1, <1>2, <2>1, <2>2, <2>4 DEF SmallerOf
  <1> HIDE DEF w
  <1>7. ASSUME NEW i \in 1 .. Q
        PROVE  /\ g[i] \in Seq(Tokens)
               /\ Len(g[i]) = w(i) - (i - 1) * P
               /\ Len(g[i]) \in 1 .. P
               /\ \A k \in 1 .. Len(g[i]) :
                    (i - 1) * P + k \in 1 .. N /\ g[i][k] = ids[(i - 1) * P + k]
    <2> DEFINE m == (i - 1) * P + 1
               n == w(i)
    <2>1. g[i] = SubSeq(ids, m, n)
      BY <1>5
    <2>2. m \in 1 .. Len(ids) + 1 /\ n \in 0 .. Len(ids) /\ m <= n + 1
      BY <1>2, <1>6 DEF N
    <2> HIDE DEF m, n
    <2>3. /\ g[i] \in Seq(Tokens) /\ Len(g[i]) = (n + 1) - m
          /\ \A k \in 1 .. (n + 1) - m : g[i][k] = ids[m + k - 1]
      BY <2>1, <2>2, SubSeqIs
    <2>4. /\ (n + 1) - m = w(i) - (i - 1) * P
          /\ (n + 1) - m \in 1 .. P
      BY <1>1, <1>2, <1>6 DEF m, n
    <2>5. ASSUME NEW k \in 1 .. (n + 1) - m
          PROVE  m + k - 1 = (i - 1) * P + k /\ (i - 1) * P + k \in 1 .. N
      <3> DEFINE x == (i - 1) * P
      <3>1. x \in Nat /\ w(i) \in 0 .. N /\ x < w(i)
        BY <1>6
      <3>2. k \in 1 .. w(i) - x
        BY <2>4
      <3>3. m = x + 1
        BY DEF m
      <3> HIDE DEF x
      <3>4. m + k - 1 = x + k /\ x + k \in 1 .. N
        BY <1>2, <3>1, <3>2, <3>3
      <3> QED BY <3>4 DEF x
    <2> QED BY <2>3, <2>4, <2>5
  <1>8. g \in Seq(Page) /\ Len(g) = Q /\ DOMAIN g = 1 .. Q
    <2>1. \A i \in 1 .. Q : g[i] \in Page
      BY <1>7 DEF Page, P
    <2>2. g \in [1 .. Q -> Page]
      BY <1>5, <2>1
    <2> QED BY <1>4, <2>2, IsASeq
  <1>9. g \in Seq(Seq(Tokens))
    BY <1>8, Paged
  <1>10. \A i \in 1 .. Q : DOMAIN g[i] = 1 .. Len(g[i])
    BY <1>7
  <1>11. ASSUME NEW n \in 1 .. N
         PROVE  \E i \in 1 .. Q : \E k \in 1 .. Len(g[i]) : g[i][k] = ids[n]
    <2> DEFINE q == (n - 1) \div P
               r == (n - 1) % P
    <2>1. n - 1 \in Nat
      OBVIOUS
    <2>2. q \in Nat /\ r \in 0 .. P - 1 /\ n - 1 = q * P + r
      BY <1>1, <2>1, DivIs
    <2> HIDE DEF q, r
    <2>3. q * P \in Nat
      BY <1>1, <2>2
    <2>4. q < Q
      <3>1. SUFFICES ASSUME ~ (q < Q) PROVE FALSE
        OBVIOUS
      <3>2. Q * P <= q * P
        BY <1>1, <1>4, <2>2, <3>1, TimesMono
      <3> QED BY <1>1, <1>2, <1>4, <2>2, <2>3, <3>2
    <2>5. q + 1 \in 1 .. Q /\ (q + 1) - 1 = q
      BY <1>4, <2>2, <2>4
    <2>6. Len(g[q + 1]) = w(q + 1) - q * P
      BY <1>7, <2>5
    <2>7. w(q + 1) >= n
      <3>1. (q + 1) * P = q * P + P
        BY <1>1, <2>2
      <3> QED BY <1>1, <1>2, <2>2, <2>3, <3>1 DEF w, SmallerOf
    <2>8. w(q + 1) \in Nat
      BY <1>2, <1>6, <2>5
    <2>9. r + 1 \in 1 .. Len(g[q + 1])
      BY <1>1, <2>2, <2>3, <2>6, <2>7, <2>8
    <2>10. g[q + 1][r + 1] = ids[q * P + (r + 1)]
      BY <1>7, <2>5, <2>9
    <2>11. q * P + (r + 1) = n
      BY <1>1, <2>2, <2>3
    <2> QED BY <2>5, <2>9, <2>10, <2>11
  <1>12. OnPages(g) = Range(ids)
    <2>1. \A id : id \in OnPages(g) <=>
                \E j \in 1 .. Q : \E k \in 1 .. Len(g[j]) : g[j][k] = id
      <3>1. \A id : id \in OnPages(g) <=>
                \E j \in DOMAIN g : \E k \in DOMAIN g[j] : g[j][k] = id
        BY <1>9, OnPagesAt
      <3>2. DOMAIN g = 1 .. Q
        BY <1>8
      <3> QED BY <1>10, <3>1, <3>2
    <2>2. \A id : id \in Range(ids) <=> \E n \in 1 .. N : ids[n] = id
      BY <1>2 DEF Range
    <2>3. ASSUME NEW id \in OnPages(g) PROVE id \in Range(ids)
      <3>1. PICK j \in 1 .. Q : \E k \in 1 .. Len(g[j]) : g[j][k] = id
        BY <2>1
      <3>2. PICK k \in 1 .. Len(g[j]) : g[j][k] = id
        BY <3>1
      <3>3. (j - 1) * P + k \in 1 .. N /\ g[j][k] = ids[(j - 1) * P + k]
        BY <1>7
      <3> QED BY <2>2, <3>2, <3>3
    <2>4. ASSUME NEW id \in Range(ids) PROVE id \in OnPages(g)
      BY <1>11, <2>1, <2>2
    <2> QED BY <2>3, <2>4
  <1>13. OnceEach(g)
    <2> SUFFICES ASSUME NEW i \in 1 .. Q, NEW j \in 1 .. Q,
                        NEW k \in 1 .. Len(g[i]), NEW l \in 1 .. Len(g[j]), g[i][k] = g[j][l]
                 PROVE  i = j /\ k = l
      BY <1>8, <1>10 DEF OnceEach
    <2>1. ids[(i - 1) * P + k] = ids[(j - 1) * P + l]
      BY <1>7
    <2>2. (i - 1) * P + k = (j - 1) * P + l
      BY <1>2, <1>7, <2>1 DEF IsInjective
    <2>3. i - 1 \in Nat /\ j - 1 \in Nat /\ k \in 1 .. P /\ l \in 1 .. P
      <3>1. Len(g[i]) \in 1 .. P /\ Len(g[j]) \in 1 .. P
        BY <1>7
      <3>2. k \in 1 .. P /\ l \in 1 .. P
        BY <1>1, <3>1
      <3>3. i - 1 \in Nat /\ j - 1 \in Nat
        BY <1>6
      <3> QED BY <3>2, <3>3
    <2>4. i - 1 = j - 1 /\ k = l
      BY <1>1, <2>2, <2>3, OnePosition
    <2> QED BY <1>4, <2>4
  <1> QED BY <1>8, <1>12, <1>13 DEF g

\* Pages at hand: where their ids are.
LEMMA Sheets ==
    ASSUME NEW pages \in Seq(Page)
    PROVE  /\ Len(pages) \in Nat /\ DOMAIN pages = 1 .. Len(pages)
           /\ \A i \in DOMAIN pages :
                /\ pages[i] \in Seq(Tokens) /\ Len(pages[i]) \in 0 .. PageSize
                /\ DOMAIN pages[i] = 1 .. Len(pages[i])
                /\ \A k \in DOMAIN pages[i] : pages[i][k] \in Tokens
           /\ OnPages(pages) \subseteq Tokens
           /\ \A id : id \in OnPages(pages) <=>
                \E j \in DOMAIN pages : \E k \in DOMAIN pages[j] : pages[j][k] = id
  <1>1. pages \in Seq(Seq(Tokens)) /\ \A i \in DOMAIN pages : pages[i] \in Page
    BY Paged
  <1>2. /\ Len(pages) \in Nat /\ DOMAIN pages = 1 .. Len(pages)
        /\ \A i \in DOMAIN pages :
                /\ pages[i] \in Seq(Tokens) /\ Len(pages[i]) \in Nat
                /\ DOMAIN pages[i] = 1 .. Len(pages[i])
                /\ \A k \in DOMAIN pages[i] : pages[i][k] \in Tokens
    BY <1>1, PageIs
  <1>3. \A i \in DOMAIN pages : Len(pages[i]) <= PageSize
    BY <1>1 DEF Page
  <1>4. \A id : id \in OnPages(pages) <=>
                \E j \in DOMAIN pages : \E k \in DOMAIN pages[j] : pages[j][k] = id
    BY <1>1, OnPagesAt
  <1>5. \A i \in DOMAIN pages : Len(pages[i]) \in 0 .. PageSize
    BY <1>2, <1>3, MarketplaceAssumption
  <1>6. OnPages(pages) \subseteq Tokens
    BY <1>2, <1>4
  <1> QED BY <1>2, <1>4, <1>5, <1>6

\* The ids of pages of tokens.
LEMMA WhereIds ==
    ASSUME NEW pages \in Seq(Page)
    PROVE  \A id : id \in OnPages(pages) <=>
                \E j \in DOMAIN pages : \E k \in DOMAIN pages[j] : pages[j][k] = id
  BY Sheets

\* One page.
LEMMA OnePage ==
    ASSUME NEW page \in Page, IsInjective(page)
    PROVE  /\ <<page>> \in Seq(Page) /\ OnceEach(<<page>>)
           /\ OnPages(<<page>>) = Range(page)
  <1>1. <<page>> \in Seq(Page) /\ DOMAIN <<page>> = {1} /\ <<page>>[1] = page
    OBVIOUS
  <1>2. OnPages(<<page>>) = Range(page)
    <2>1. \A id : id \in OnPages(<<page>>) <=> \E k \in DOMAIN page : page[k] = id
      <3> DEFINE c == <<page>>
      <3>1. c \in Seq(Page) /\ DOMAIN c = {1} /\ c[1] = page
        BY <1>1
      <3> HIDE DEF c
      <3>2. \A id : id \in OnPages(c) <=> \E j \in DOMAIN c : \E k \in DOMAIN c[j] : c[j][k] = id
        BY <3>1, WhereIds
      <3>3. \A id : id \in OnPages(c) <=> \E k \in DOMAIN page : page[k] = id
        BY <3>1, <3>2
      <3> QED BY <3>3 DEF c
    <2> QED BY <2>1 DEF Range
  <1>3. OnceEach(<<page>>)
    BY <1>1 DEF OnceEach, IsInjective
  <1> QED BY <1>1, <1>2, <1>3

\* Pages added to others.
LEMMA JoinPages ==
    ASSUME NEW a \in Seq(Page), NEW b \in Seq(Page), OnceEach(a), OnceEach(b),
           OnPages(a) \cap OnPages(b) = {}
    PROVE  /\ a \o b \in Seq(Page) /\ OnceEach(a \o b)
           /\ OnPages(a \o b) = OnPages(a) \cup OnPages(b)
  <1> DEFINE c == a \o b
             m == Len(a)
             n == Len(b)
  <1>1. m \in Nat /\ n \in Nat /\ DOMAIN a = 1 .. m /\ DOMAIN b = 1 .. n
    OBVIOUS
  <1>2. /\ c \in Seq(Page) /\ DOMAIN c = 1 .. m + n
        /\ \A i \in 1 .. m + n : c[i] = IF i <= m THEN a[i] ELSE b[i - m]
    <2>1. c \in Seq(Page) /\ Len(c) = m + n
      OBVIOUS
    <2> QED BY <1>1, <2>1, ConcatProperties
  <1> HIDE DEF c, m, n
  <1>3. \A i \in 1 .. m + n : \/ (i \in 1 .. m /\ c[i] = a[i])
                             \/ (i - m \in 1 .. n /\ c[i] = b[i - m])
    BY <1>1, <1>2
  <1>4. /\ \A i \in 1 .. m : i \in 1 .. m + n /\ c[i] = a[i]
        /\ \A i \in 1 .. n : i + m \in 1 .. m + n /\ c[i + m] = b[i]
    BY <1>1, <1>2
  <1>5. /\ \A id : id \in OnPages(a) <=> \E j \in 1 .. m : \E k \in DOMAIN a[j] : a[j][k] = id
        /\ \A id : id \in OnPages(b) <=> \E j \in 1 .. n : \E k \in DOMAIN b[j] : b[j][k] = id
        /\ \A id : id \in OnPages(c) <=>
                    \E j \in 1 .. m + n : \E k \in DOMAIN c[j] : c[j][k] = id
    <2>1. \A id : id \in OnPages(a) <=> \E j \in DOMAIN a : \E k \in DOMAIN a[j] : a[j][k] = id
      BY WhereIds
    <2>2. \A id : id \in OnPages(b) <=> \E j \in DOMAIN b : \E k \in DOMAIN b[j] : b[j][k] = id
      BY WhereIds
    <2>3. \A id : id \in OnPages(c) <=> \E j \in DOMAIN c : \E k \in DOMAIN c[j] : c[j][k] = id
      BY <1>2, WhereIds
    <2> QED BY <1>1, <1>2, <2>1, <2>2, <2>3
  <1>6. OnPages(c) = OnPages(a) \cup OnPages(b)
    <2>1. ASSUME NEW id \in OnPages(c) PROVE id \in OnPages(a) \cup OnPages(b)
      <3>1. PICK j \in 1 .. m + n : \E k \in DOMAIN c[j] : c[j][k] = id
        BY <1>5
      <3>2. CASE j \in 1 .. m /\ c[j] = a[j]
        BY <1>5, <3>1, <3>2
      <3>3. CASE j - m \in 1 .. n /\ c[j] = b[j - m]
        BY <1>5, <3>1, <3>3
      <3> QED BY <1>3, <3>2, <3>3
    <2>2. OnPages(a) \subseteq OnPages(c)
      BY <1>4, <1>5
    <2>3. ASSUME NEW id \in OnPages(b) PROVE id \in OnPages(c)
      <3>1. PICK j \in 1 .. n : \E k \in DOMAIN b[j] : b[j][k] = id
        BY <1>5
      <3> QED BY <1>4, <1>5, <3>1
    <2> QED BY <2>1, <2>2, <2>3
  <1>7. OnceEach(c)
    <2> SUFFICES ASSUME NEW i \in 1 .. m + n, NEW j \in 1 .. m + n,
                        NEW k \in DOMAIN c[i], NEW l \in DOMAIN c[j], c[i][k] = c[j][l]
                 PROVE  i = j /\ k = l
      BY <1>2 DEF OnceEach
    <2>1. CASE i \in 1 .. m /\ j \in 1 .. m /\ c[i] = a[i] /\ c[j] = a[j]
      BY <1>1, <2>1 DEF OnceEach
    <2>2. CASE i - m \in 1 .. n /\ j - m \in 1 .. n /\ c[i] = b[i - m] /\ c[j] = b[j - m]
      <3>1. i - m = j - m /\ k = l
        BY <1>1, <2>2 DEF OnceEach
      <3> QED BY <1>1, <3>1
    <2>3. CASE i \in 1 .. m /\ c[i] = a[i] /\ j - m \in 1 .. n /\ c[j] = b[j - m]
      <3>1. c[i][k] \in OnPages(a) /\ c[j][l] \in OnPages(b)
        BY <1>5, <2>3
      <3> QED BY <3>1
    <2>4. CASE j \in 1 .. m /\ c[j] = a[j] /\ i - m \in 1 .. n /\ c[i] = b[i - m]
      <3>1. c[j][l] \in OnPages(a) /\ c[i][k] \in OnPages(b)
        BY <1>5, <2>4
      <3> QED BY <3>1
    <2> QED BY <1>3, <2>1, <2>2, <2>3, <2>4
  <1> QED BY <1>2, <1>6, <1>7 DEF c

\* The first pages, without those after them.
LEMMA FirstPages ==
    ASSUME NEW pages \in Seq(Page), OnceEach(pages), NEW n \in 0 .. Len(pages)
    PROVE  /\ SubSeq(pages, 1, n) \in Seq(Page) /\ OnceEach(SubSeq(pages, 1, n))
           /\ \A id : id \in OnPages(SubSeq(pages, 1, n)) <=>
                \E i \in 1 .. n : \E k \in DOMAIN pages[i] : pages[i][k] = id
  <1> DEFINE c == SubSeq(pages, 1, n)
  <1>1. Len(pages) \in Nat /\ DOMAIN pages = 1 .. Len(pages) /\ n \in Nat /\ n <= Len(pages)
    OBVIOUS
  <1>2. c \in Seq(Page) /\ DOMAIN c = 1 .. n /\ \A i \in 1 .. n : c[i] = pages[i]
    <2>1. 1 \in 1 .. Len(pages) + 1 /\ 1 <= n + 1 /\ (n + 1) - 1 = n
      BY <1>1
    <2>2. c \in Seq(Page) /\ Len(c) = n /\ \A i \in 1 .. n : c[i] = pages[1 + i - 1]
      BY <2>1, SubSeqIs
    <2> QED BY <2>2
  <1> HIDE DEF c
  <1>3. 1 .. n \subseteq DOMAIN pages
    BY <1>1
  <1>4. OnceEach(c)
    BY <1>2, <1>3 DEF OnceEach
  <1>5. \A id : id \in OnPages(c) <=> \E i \in 1 .. n : \E k \in DOMAIN pages[i] : pages[i][k] = id
    <2>1. \A id : id \in OnPages(c) <=> \E j \in DOMAIN c : \E k \in DOMAIN c[j] : c[j][k] = id
      BY <1>2, WhereIds
    <2> QED BY <1>2, <2>1
  <1> QED BY <1>2, <1>4, <1>5 DEF c

\* No pages, no ids.
LEMMA NoPages == <<>> \in Seq(Page) /\ OnceEach(<<>>) /\ OnPages(<<>>) = {}
  <1>1. <<>> \in Seq(Page) /\ DOMAIN <<>> = {}
    OBVIOUS
  <1>2. OnPages(<<>>) = {}
    <2> DEFINE c == <<>>
    <2>1. c \in Seq(Page) /\ DOMAIN c = {}
      BY <1>1
    <2> HIDE DEF c
    <2>2. \A id : id \in OnPages(c) <=> \E j \in DOMAIN c : \E k \in DOMAIN c[j] : c[j][k] = id
      BY <2>1, WhereIds
    <2>3. OnPages(c) = {}
      BY <2>1, <2>2
    <2> QED BY <2>3 DEF c
  <1> QED BY <1>1, <1>2 DEF OnceEach

\* Ids of one sequence after those of another.
LEMMA JoinIds ==
    ASSUME NEW a \in Seq(Tokens), NEW b \in Seq(Tokens), IsInjective(a), IsInjective(b),
           Range(a) \cap Range(b) = {}
    PROVE  a \o b \in Seq(Tokens) /\ IsInjective(a \o b) /\ Range(a \o b) = Range(a) \cup Range(b)
  <1> DEFINE c == a \o b
             m == Len(a)
             n == Len(b)
  <1>1. m \in Nat /\ n \in Nat /\ DOMAIN a = 1 .. m /\ DOMAIN b = 1 .. n
    OBVIOUS
  <1>2. /\ c \in Seq(Tokens) /\ DOMAIN c = 1 .. m + n
        /\ \A i \in 1 .. m + n : c[i] = IF i <= m THEN a[i] ELSE b[i - m]
    <2>1. c \in Seq(Tokens) /\ Len(c) = m + n
      OBVIOUS
    <2> QED BY <1>1, <2>1, ConcatProperties
  <1> HIDE DEF c, m, n
  <1>3. \A i \in 1 .. m + n : \/ (i \in 1 .. m /\ c[i] = a[i])
                             \/ (i - m \in 1 .. n /\ c[i] = b[i - m])
    BY <1>1, <1>2
  <1>4. /\ \A i \in 1 .. m : i \in 1 .. m + n /\ c[i] = a[i]
        /\ \A i \in 1 .. n : i + m \in 1 .. m + n /\ c[i + m] = b[i]
    BY <1>1, <1>2
  <1>5. Range(c) = Range(a) \cup Range(b)
    <2>1. ASSUME NEW id \in Range(c) PROVE id \in Range(a) \cup Range(b)
      <3>1. PICK i \in 1 .. m + n : c[i] = id
        BY <1>2 DEF Range
      <3> QED BY <1>1, <1>3, <3>1 DEF Range
    <2>2. Range(a) \subseteq Range(c)
      BY <1>1, <1>2, <1>4 DEF Range
    <2>3. ASSUME NEW id \in Range(b) PROVE id \in Range(c)
      <3>1. PICK i \in 1 .. n : b[i] = id
        BY <1>1 DEF Range
      <3>2. i + m \in DOMAIN c /\ c[i + m] = id
        BY <1>2, <1>4, <3>1
      <3> QED BY <3>2 DEF Range
    <2> QED BY <2>1, <2>2, <2>3
  <1>6. IsInjective(c)
    <2> SUFFICES ASSUME NEW i \in 1 .. m + n, NEW j \in 1 .. m + n, c[i] = c[j] PROVE i = j
      BY <1>2 DEF IsInjective
    <2>1. CASE i \in 1 .. m /\ j \in 1 .. m /\ c[i] = a[i] /\ c[j] = a[j]
      BY <1>1, <2>1 DEF IsInjective
    <2>2. CASE i - m \in 1 .. n /\ j - m \in 1 .. n /\ c[i] = b[i - m] /\ c[j] = b[j - m]
      <3>1. i - m = j - m
        BY <1>1, <2>2 DEF IsInjective
      <3> QED BY <1>1, <3>1
    <2>3. CASE i \in 1 .. m /\ c[i] = a[i] /\ j - m \in 1 .. n /\ c[j] = b[j - m]
      BY <1>1, <2>3 DEF Range
    <2>4. CASE j \in 1 .. m /\ c[j] = a[j] /\ i - m \in 1 .. n /\ c[i] = b[i - m]
      BY <1>1, <2>4 DEF Range
    <2> QED BY <1>3, <2>1, <2>2, <2>3, <2>4
  <1> QED BY <1>2, <1>5, <1>6 DEF c

\* A restock adds its ids to the pages, and loses and doubles none.
LEMMA StockedAddsIds ==
    ASSUME NEW pages \in Seq(Page), OnceEach(pages), NEW ids \in Seq(Tokens), IsInjective(ids),
           OnPages(pages) \cap Range(ids) = {}
    PROVE  /\ Stocked(pages, ids) \in Seq(Page) /\ OnceEach(Stocked(pages, ids))
           /\ OnPages(Stocked(pages, ids)) = OnPages(pages) \cup Range(ids)
  <1>1. CASE pages = <<>>
    <2>1. Stocked(pages, ids) = Pages(ids)
      BY <1>1 DEF Stocked
    <2> QED BY <1>1, <2>1, PagesKeepIds, NoPages
  <1>2. CASE pages # <<>>
    <2> DEFINE n == Len(pages)
               f == Front(pages)
               l == Last(pages)
               all == l \o ids
    <2>1. n \in Nat /\ n >= 1 /\ DOMAIN pages = 1 .. n /\ n - 1 \in 0 .. n
      BY <1>2
    <2>2. \A id : id \in OnPages(pages) <=> \E j \in 1 .. n : \E k \in DOMAIN pages[j] : pages[j][k] = id
      BY <2>1, WhereIds
    <2>3. /\ f \in Seq(Page) /\ OnceEach(f)
          /\ \A id : id \in OnPages(f) <=>
                    \E j \in 1 .. n - 1 : \E k \in DOMAIN pages[j] : pages[j][k] = id
      BY <2>1, FirstPages DEF Front
    <2>4. l = pages[n] /\ l \in Seq(Tokens)
      BY <2>1, Sheets DEF Last
    <2> HIDE DEF n, f, l
    <2>5. IsInjective(l) /\ \A id : id \in Range(l) <=> \E k \in DOMAIN pages[n] : pages[n][k] = id
      BY <2>1, <2>4 DEF OnceEach, IsInjective, Range
    <2>6. OnPages(pages) = OnPages(f) \cup Range(l)
      <3>1. \A j : j \in 1 .. n <=> j \in 1 .. n - 1 \/ j = n
        BY <2>1
      <3> QED BY <2>2, <2>3, <2>5, <3>1
    <2>7. OnPages(f) \cap Range(l) = {}
      <3>1. ASSUME NEW id \in OnPages(f), id \in Range(l) PROVE FALSE
        <4>1. PICK j \in 1 .. n - 1 : \E k \in DOMAIN pages[j] : pages[j][k] = id
          BY <2>3
        <4>2. PICK k \in DOMAIN pages[j] : pages[j][k] = id
          BY <4>1
        <4>3. PICK m \in DOMAIN pages[n] : pages[n][m] = id
          BY <2>5, <3>1
        <4>4. j \in 1 .. n /\ n \in 1 .. n /\ j # n
          BY <2>1
        <4> QED BY <2>1, <4>2, <4>3, <4>4 DEF OnceEach
      <3> QED BY <3>1
    <2>8. all \in Seq(Tokens) /\ IsInjective(all) /\ Range(all) = Range(l) \cup Range(ids)
      <3>1. Range(l) \cap Range(ids) = {}
        BY <2>6
      <3> QED BY <2>4, <2>5, <3>1, JoinIds
    <2> HIDE DEF all
    <2>9. /\ Pages(all) \in Seq(Page) /\ OnPages(Pages(all)) = Range(all)
          /\ OnceEach(Pages(all))
      BY <2>8, PagesKeepIds
    <2>10. OnPages(f) \cap OnPages(Pages(all)) = {}
      BY <2>6, <2>7, <2>8, <2>9
    <2>11. Stocked(pages, ids) = f \o Pages(all)
      BY <1>2 DEF Stocked, f, l, all
    <2>12. /\ f \o Pages(all) \in Seq(Page) /\ OnceEach(f \o Pages(all))
           /\ OnPages(f \o Pages(all)) = OnPages(f) \cup OnPages(Pages(all))
      BY <2>3, <2>9, <2>10, JoinPages
    <2> QED BY <2>6, <2>8, <2>9, <2>11, <2>12
  <1> QED BY <1>1, <1>2

-----------------------------------------------------------------------------
(* A purchase out of a page.                                               *)

\* A purchase takes its id from the pages and leaves the rest, each once.
LEMMA TakenOut ==
    ASSUME NEW pages \in Seq(Page), OnceEach(pages),
           NEW n \in DOMAIN pages, NEW id \in Range(pages[n]),
           NEW left, left = [pages EXCEPT ![n] = TakeFrom(pages[n], id)]
    PROVE  /\ left \in Seq(Page) /\ OnceEach(left)
           /\ OnPages(left) = OnPages(pages) \ {id}
  <1> DEFINE s == pages[n]
             r == TakeFrom(s, id)
             skip(a, k) == IF k < a THEN k ELSE k + 1
  <1>1. s \in Seq(Tokens) /\ Len(s) \in 0 .. PageSize /\ DOMAIN s = 1 .. Len(s) /\ Len(s) \in Nat
    BY Sheets
  <1>2. PICK a \in 1 .. Len(s) :
            /\ s[a] = id /\ r \in Seq(Tokens) /\ Len(r) = Len(s) - 1
            /\ \A k \in 1 .. Len(s) - 1 : r[k] = s[skip(a, k)]
    <2>1. id \in Range(s)
      OBVIOUS
    <2> HIDE DEF s
    <2>3. \E a \in DOMAIN s :
              /\ s[a] = id
              /\ TakeFrom(s, id) \in Seq(Tokens)
              /\ Len(TakeFrom(s, id)) = Len(s) - 1
              /\ \A k \in 1 .. Len(s) - 1 :
                    TakeFrom(s, id)[k] = s[IF k < a THEN k ELSE k + 1]
      BY <1>1, <2>1, TakeFromIs, Zenon
    <2>2. PICK a \in DOMAIN s :
            /\ s[a] = id /\ r \in Seq(Tokens) /\ Len(r) = Len(s) - 1
            /\ \A k \in 1 .. Len(s) - 1 : r[k] = s[IF k < a THEN k ELSE k + 1]
      BY <2>3, Zenon
    <2> QED BY <1>1, <2>2
  <1>3. DOMAIN r = 1 .. Len(s) - 1 /\ r \in Page
    <2>1. DOMAIN r = 1 .. Len(r)
      BY <1>2
    <2>2. PageSize \in Nat
      BY MarketplaceAssumption
    <2> QED BY <1>1, <1>2, <2>1, <2>2 DEF Page
  <1> HIDE DEF r, s
  <1>4. /\ \A k \in 1 .. Len(s) - 1 : skip(a, k) \in 1 .. Len(s) /\ skip(a, k) # a
        /\ \A k, l \in 1 .. Len(s) - 1 : skip(a, k) = skip(a, l) => k = l
        /\ \A m \in 1 .. Len(s) : m # a => \E k \in 1 .. Len(s) - 1 : skip(a, k) = m
    <2>1. \A k \in 1 .. Len(s) - 1 : skip(a, k) \in 1 .. Len(s) /\ skip(a, k) # a
      BY <1>1
    <2>2. \A k, l \in 1 .. Len(s) - 1 : skip(a, k) = skip(a, l) => k = l
      BY <1>1
    <2>3. ASSUME NEW m \in 1 .. Len(s), m # a PROVE \E k \in 1 .. Len(s) - 1 : skip(a, k) = m
      <3>1. CASE m < a
        <4>1. m \in 1 .. Len(s) - 1 /\ skip(a, m) = m
          BY <1>1, <3>1
        <4> QED BY <4>1
      <3>2. CASE m > a
        <4>1. m - 1 \in 1 .. Len(s) - 1 /\ skip(a, m - 1) = m
          BY <1>1, <3>2
        <4> QED BY <4>1
      <3> QED BY <1>1, <2>3, <3>1, <3>2
    <2> QED BY <2>1, <2>2, <2>3
  <1> HIDE DEF skip
  <1>5. left \in Seq(Page) /\ DOMAIN left = DOMAIN pages /\ left[n] = r /\ \A j \in DOMAIN pages : j # n => left[j] = pages[j]
    <2>1. left = [pages EXCEPT ![n] = r]
      BY DEF r, s
    <2> QED BY <1>3, <2>1, ExceptSeq
  \* Where the ids that are left were before.
  <1>6. ASSUME NEW j \in DOMAIN pages, NEW k \in DOMAIN left[j]
        PROVE  /\ IF j = n THEN skip(a, k) \in DOMAIN pages[n] /\ skip(a, k) # a /\ left[j][k] = pages[n][skip(a, k)]
                  ELSE k \in DOMAIN pages[j] /\ left[j][k] = pages[j][k]
    BY <1>1, <1>2, <1>3, <1>4, <1>5 DEF s
  <1>7. OnceEach(left)
    <2> SUFFICES ASSUME NEW i \in DOMAIN pages, NEW j \in DOMAIN pages,
                        NEW k \in DOMAIN left[i], NEW l \in DOMAIN left[j], left[i][k] = left[j][l]
                 PROVE  i = j /\ k = l
      BY <1>5 DEF OnceEach
    <2>1. CASE i = n /\ j = n
      <3>1. skip(a, k) = skip(a, l)
        BY <1>6, <2>1 DEF OnceEach
      <3> QED BY <1>3, <1>4, <1>5, <2>1, <3>1
    <2>2. CASE i = n /\ j # n
      BY <1>6, <2>2 DEF OnceEach
    <2>3. CASE i # n /\ j = n
      BY <1>6, <2>3 DEF OnceEach
    <2>4. CASE i # n /\ j # n
      BY <1>6, <2>4 DEF OnceEach
    <2> QED BY <2>1, <2>2, <2>3, <2>4
  <1>8. /\ \A x : x \in OnPages(pages) <=> \E j \in DOMAIN pages : \E k \in DOMAIN pages[j] : pages[j][k] = x
        /\ \A x : x \in OnPages(left) <=> \E j \in DOMAIN pages : \E k \in DOMAIN left[j] : left[j][k] = x
    BY <1>5, WhereIds
  <1>9. ASSUME NEW x \in OnPages(left) PROVE x \in OnPages(pages) /\ x # id
    <2>1. PICK j \in DOMAIN pages : \E k \in DOMAIN left[j] : left[j][k] = x
      BY <1>8
    <2>2. PICK k \in DOMAIN left[j] : left[j][k] = x
      BY <2>1
    <2>3. CASE j = n
      <3>1. skip(a, k) \in DOMAIN pages[n] /\ skip(a, k) # a /\ pages[n][skip(a, k)] = x
        BY <1>6, <2>2, <2>3
      <3>2. a \in DOMAIN pages[n] /\ pages[n][a] = id
        BY <1>1, <1>2 DEF s
      <3>3. x # id
        BY <3>1, <3>2 DEF OnceEach
      <3> QED BY <1>8, <3>1, <3>3
    <2>4. CASE j # n
      <3>1. k \in DOMAIN pages[j] /\ pages[j][k] = x
        BY <1>6, <2>2, <2>4
      <3>2. a \in DOMAIN pages[n] /\ pages[n][a] = id
        BY <1>1, <1>2 DEF s
      <3>3. x # id
        BY <2>4, <3>1, <3>2 DEF OnceEach
      <3> QED BY <1>8, <3>1, <3>3
    <2> QED BY <2>3, <2>4
  <1>10. ASSUME NEW x \in OnPages(pages), x # id PROVE x \in OnPages(left)
    <2>1. PICK j \in DOMAIN pages : \E k \in DOMAIN pages[j] : pages[j][k] = x
      BY <1>8
    <2>2. PICK k \in DOMAIN pages[j] : pages[j][k] = x
      BY <2>1
    <2>3. CASE j = n
      <3>1. k \in 1 .. Len(s) /\ s[k] = x /\ k # a
        BY <1>1, <1>2, <1>10, <2>2, <2>3 DEF s
      <3>2. PICK l \in 1 .. Len(s) - 1 : skip(a, l) = k
        BY <1>4, <3>1
      <3>3. l \in DOMAIN left[n] /\ left[n][l] = x
        BY <1>2, <1>3, <1>5, <3>1, <3>2
      <3> QED BY <1>8, <3>3
    <2>4. CASE j # n
      BY <1>5, <1>8, <2>2, <2>4
    <2> QED BY <2>3, <2>4
  <1> QED BY <1>5, <1>7, <1>9, <1>10

-----------------------------------------------------------------------------
(* A sweep takes the ids at the end.                                       *)

\* As many ids as positions.
LEMMA PageSizeIs ==
    ASSUME NEW s \in Seq(Tokens), IsInjective(s)
    PROVE  IsFiniteSet(Range(s)) /\ Cardinality(Range(s)) = Len(s)
  <1>1. Len(s) \in Nat /\ s \in [1 .. Len(s) -> Range(s)] /\ DOMAIN s = 1 .. Len(s)
    BY DEF Range
  <1>2. s \in Bijection(1 .. Len(s), Range(s))
    BY <1>1 DEF Bijection, Injection, Surjection, IsInjective, Range
  <1>3. ExistsBijection(1 .. Len(s), Range(s))
    BY <1>2 DEF ExistsBijection
  <1>4. Cardinality(Range(s)) = Len(s)
    BY <1>1, <1>3, FS_CountingElements
  <1>5. Range(s) \subseteq 1 .. MaxTokens
    <2>1. \A i \in DOMAIN s : s[i] \in Tokens
      BY <1>1, ElementOfSeq
    <2> QED BY <2>1 DEF Range, Tokens
  <1>6. MaxTokens \in Nat
    BY MarketplaceAssumption
  <1>7. IsFiniteSet(1 .. MaxTokens)
    BY <1>6, FS_Interval
  <1> QED BY <1>4, <1>5, <1>7, FS_Subset

\* What stands from a page on, counted.
LEMMA IdsFromCount ==
    ASSUME NEW pages \in Seq(Page), OnceEach(pages)
    PROVE  /\ \A i \in Nat \ {0} : Cardinality(IdsFrom(pages, i)) \in Nat
           /\ \A i, j \in Nat \ {0} :
                i <= j => Cardinality(IdsFrom(pages, j)) <= Cardinality(IdsFrom(pages, i))
           /\ \A i \in DOMAIN pages :
                Cardinality(IdsFrom(pages, i)) =
                    Cardinality(IdsFrom(pages, i + 1)) + Len(pages[i])
           /\ Cardinality(IdsFrom(pages, Len(pages) + 1)) = 0
  <1> DEFINE n == Len(pages)
             G(i) == IdsFrom(pages, i)
  <1>1. n \in Nat /\ DOMAIN pages = 1 .. n
    OBVIOUS
  <1>2. ASSUME NEW i \in Nat \ {0}
        PROVE  /\ G(i) \subseteq Tokens
               /\ \A id : id \in G(i) <=>
                    \E j \in 1 .. n : j >= i /\ \E k \in DOMAIN pages[j] : pages[j][k] = id
    <2>1. \A id : id \in G(i) <=>
              \E j \in DOMAIN pages : j >= i /\ \E k \in DOMAIN pages[j] : pages[j][k] = id
      BY Paged, IdsAt
    <2>2. \A j \in DOMAIN pages : \A k \in DOMAIN pages[j] : pages[j][k] \in Tokens
      BY Sheets
    <2> QED BY <1>1, <2>1, <2>2
  <1> HIDE DEF G, n
  <1>3. IsFiniteSet(Tokens)
    BY MarketplaceAssumption, FS_Interval DEF Tokens
  <1>4. \A i \in Nat \ {0} : IsFiniteSet(G(i)) /\ Cardinality(G(i)) \in Nat
    BY <1>2, <1>3, FS_Subset, FS_CardinalityType
  <1>5. ASSUME NEW i \in Nat \ {0}, NEW j \in Nat \ {0}, i <= j
        PROVE  Cardinality(G(j)) <= Cardinality(G(i))
    <2>1. G(j) \subseteq G(i)
      BY <1>1, <1>2, <1>5
    <2> QED BY <1>4, <2>1, FS_Subset
  <1>6. ASSUME NEW i \in 1 .. n
        PROVE  Cardinality(G(i)) = Cardinality(G(i + 1)) + Len(pages[i])
    <2>1. pages[i] \in Seq(Tokens) /\ Len(pages[i]) \in Nat
      BY <1>1, Paged DEF Page
    <2>2. IsInjective(pages[i])
      BY <1>1 DEF OnceEach, IsInjective
    <2>3. IsFiniteSet(Range(pages[i])) /\ Cardinality(Range(pages[i])) = Len(pages[i])
      BY <2>1, <2>2, PageSizeIs
    <2>4. i \in Nat \ {0} /\ i + 1 \in Nat \ {0} /\ \A j \in 1 .. n : j >= i <=> j >= i + 1 \/ j = i
      BY <1>1
    <2>5. G(i) = G(i + 1) \cup Range(pages[i])
      BY <1>2, <2>4 DEF Range
    <2>6. G(i + 1) \cap Range(pages[i]) = {}
      <3>1. ASSUME NEW id \in G(i + 1), id \in Range(pages[i]) PROVE FALSE
        <4>1. PICK j \in 1 .. n : j >= i + 1 /\ \E k \in DOMAIN pages[j] : pages[j][k] = id
          BY <1>2, <2>4
        <4>2. PICK k \in DOMAIN pages[j] : pages[j][k] = id
          BY <4>1
        <4>3. PICK l \in DOMAIN pages[i] : pages[i][l] = id
          BY <3>1 DEF Range
        <4>4. j # i
          BY <4>1
        <4> QED BY <1>1, <4>2, <4>3, <4>4 DEF OnceEach
      <3> QED BY <3>1
    <2>7. Cardinality(G(i + 1)) \in Nat /\ IsFiniteSet(G(i + 1)) /\ Cardinality(G(i + 1) \cap Range(pages[i])) = 0
      BY <1>4, <2>4, <2>6, FS_EmptySet
    <2>8. Cardinality(G(i + 1) \cup Range(pages[i])) =
              Cardinality(G(i + 1)) + Cardinality(Range(pages[i])) - Cardinality(G(i + 1) \cap Range(pages[i]))
      BY <2>3, <2>7, FS_Union
    <2> QED BY <2>1, <2>3, <2>5, <2>7, <2>8
  <1>7. Cardinality(G(n + 1)) = 0
    <2>1. G(n + 1) = {}
      BY <1>1, <1>2
    <2> QED BY <2>1, FS_EmptySet
  <1> QED BY <1>1, <1>4, <1>5, <1>6, <1>7 DEF G, n

\* An id is taken if it is at a place that is.
LEMMA TakenWhere ==
    ASSUME NEW pages \in Seq(Page), OnceEach(pages)
    PROVE  /\ TakenBy(pages) \subseteq OnPages(pages)
           /\ \A i \in DOMAIN pages : \A k \in DOMAIN pages[i] :
                pages[i][k] \in TakenBy(pages) <=> Taken(pages, i, k)
  <1>1. ASSUME NEW i \in DOMAIN pages, NEW k \in DOMAIN pages[i],
               pages[i][k] \in TakenBy(pages)
        PROVE  Taken(pages, i, k)
    <2>1. PICK j \in DOMAIN pages :
              \E l \in DOMAIN pages[j] : pages[j][l] = pages[i][k] /\ Taken(pages, j, l)
      BY <1>1 DEF TakenBy
    <2>3. PICK l \in DOMAIN pages[j] : pages[j][l] = pages[i][k] /\ Taken(pages, j, l)
      BY <2>1
    <2>2. j = i /\ l = k
      BY <2>3 DEF OnceEach
    <2> QED BY <2>2, <2>3
  <1>2. ASSUME NEW i \in DOMAIN pages, NEW k \in DOMAIN pages[i], Taken(pages, i, k)
        PROVE  pages[i][k] \in TakenBy(pages)
    <2>1. pages[i][k] \in OnPages(pages)
      BY WhereIds
    <2> QED BY <1>2, <2>1 DEF TakenBy
  <1> QED BY <1>1, <1>2 DEF TakenBy

\* Pages that hold a whole sweep, from each of them on.
Full(pages) == {i \in DOMAIN pages : Cardinality(IdsFrom(pages, i)) >= MaxSweep}

\* The largest of some positions.
LEMMA LargestOf ==
    ASSUME NEW n \in Nat, NEW T \in SUBSET (1 .. n), T # {}
    PROVE  Max(T) \in T /\ \A x \in T : x <= Max(T)
  <1> DEFINE D == {n - x : x \in T}
  <1>1. D \in SUBSET Nat /\ D # {}
    <2>1. \A x \in T : n - x \in Nat
      OBVIOUS
    <2>2. PICK x \in T : TRUE
      OBVIOUS
    <2>3. n - x \in D
      OBVIOUS
    <2> QED BY <2>1, <2>3
  <1>2. IsWellFoundedOn(OpToRel(<, Nat), Nat)
    BY NatLessThanWellFounded
  <1>3. PICK d \in D : \A y \in D : <<y, d>> \notin OpToRel(<, Nat)
    BY <1>1, <1>2, WFMin
  <1>4. \A y \in D : d <= y
    <2>1. d \in Nat /\ \A y \in D : y \in Nat /\ ~ (y < d)
      BY <1>1, <1>3 DEF OpToRel
    <2> QED BY <2>1
  <1>5. PICK x \in T : d = n - x
    OBVIOUS
  <1>6. \A y \in T : x >= y
    <2>1. \A y \in T : n - x <= n - y
      BY <1>4, <1>5
    <2>2. x \in Nat /\ \A y \in T : y \in Nat
      OBVIOUS
    <2> QED BY <2>1, <2>2
  <1>7. \E m \in T : \A y \in T : m >= y
    BY <1>6
  <1>8. Max(T) \in T /\ \A y \in T : Max(T) >= y
    BY <1>7 DEF Max
  <1>9. T \subseteq Nat
    OBVIOUS
  <1> QED BY <1>8, <1>9

\* A sweep leaves exactly the ids it does not take.
LEMMA SweptLeavesRest ==
    ASSUME NEW pages \in Seq(Page), OnceEach(pages)
    PROVE  /\ Swept(pages) \in Seq(Page) /\ OnceEach(Swept(pages))
           /\ OnPages(Swept(pages)) = OnPages(pages) \ TakenBy(pages)
  <1> DEFINE n == Len(pages)
             C(i) == Cardinality(IdsFrom(pages, i))
             full == Full(pages)
             m == Max(full)
             keep == Len(pages[m]) - (MaxSweep - C(m + 1))
             before == SubSeq(pages, 1, m - 1)
             part == SubSeq(pages[m], 1, keep)
  <1>1. n \in Nat /\ DOMAIN pages = 1 .. n
    OBVIOUS
  <1>2. /\ \A i \in Nat \ {0} : C(i) \in Nat
        /\ \A i, j \in Nat \ {0} : i <= j => C(j) <= C(i)
        /\ \A i \in 1 .. n : C(i) = C(i + 1) + Len(pages[i])
        /\ C(n + 1) = 0
    BY <1>1, IdsFromCount
  <1>3. \A i \in 1 .. n : /\ pages[i] \in Seq(Tokens) /\ Len(pages[i]) \in 0 .. PageSize
                         /\ DOMAIN pages[i] = 1 .. Len(pages[i])
    BY <1>1, Sheets
  <1>4. MaxSweep \in Nat \ {0} /\ PageSize \in Nat
    BY MarketplaceAssumption
  <1>5. Swept(pages) =
          IF full = {} THEN <<>>
          ELSE IF keep = 0 THEN before ELSE Append(before, part)
    BY DEF Swept, Full
  <1>6. \A i \in 1 .. n : \A k \in DOMAIN pages[i] :
            Taken(pages, i, k) <=> C(i + 1) + Len(pages[i]) - k < MaxSweep
    BY DEF Taken
  <1>7. full = {i \in 1 .. n : C(i) >= MaxSweep}
    BY <1>1 DEF Full
  <1>8. \A id : id \in OnPages(pages) <=> \E i \in 1 .. n : \E k \in DOMAIN pages[i] : pages[i][k] = id
    BY <1>1, WhereIds
  <1> HIDE DEF C, full, n
  \* Pages of which a sweep takes all.
  <1>9. ASSUME NEW i \in 1 .. n, i \notin full, NEW k \in DOMAIN pages[i] PROVE Taken(pages, i, k)
    <2>1. C(i) < MaxSweep /\ C(i) = C(i + 1) + Len(pages[i])
      <3>1. ~ (C(i) >= MaxSweep)
        BY <1>7, <1>9
      <3>2. C(i) \in Nat /\ C(i) = C(i + 1) + Len(pages[i])
        BY <1>1, <1>2
      <3> QED BY <1>4, <3>1, <3>2
    <2>2. C(i + 1) \in Nat /\ Len(pages[i]) \in Nat /\ k \in 1 .. Len(pages[i])
      <3>1. i + 1 \in Nat \ {0}
        BY <1>1
      <3>2. Len(pages[i]) \in 0 .. PageSize /\ DOMAIN pages[i] = 1 .. Len(pages[i])
        BY <1>3
      <3>3. k \in DOMAIN pages[i]
        OBVIOUS
      <3> QED BY <1>2, <1>4, <3>1, <3>2, <3>3
    <2>3. C(i + 1) + Len(pages[i]) - k < MaxSweep
      BY <1>4, <2>1, <2>2
    <2> QED BY <1>6, <2>3
  <1>10. CASE full = {}
    <2>1. Swept(pages) = <<>>
      BY <1>5, <1>10
    <2>2. OnPages(pages) \subseteq TakenBy(pages)
      BY <1>1, <1>8, <1>9, <1>10, TakenWhere
    <2> QED BY <2>1, <2>2, NoPages
  <1>11. CASE full # {}
    <2>1. m \in full /\ \A i \in full : i <= m
      <3>1. full \in SUBSET (1 .. n)
        BY <1>7
      <3> QED BY <1>1, <1>11, <3>1, LargestOf
    <2> HIDE DEF m
    <2>2. m \in 1 .. n /\ C(m) >= MaxSweep
      BY <1>7, <2>1
    <2>3. C(m + 1) \in Nat /\ C(m + 1) < MaxSweep
      <3>1. CASE m = n
        BY <1>2, <1>4, <3>1
      <3>2. CASE m # n
        <4>1. m + 1 \in 1 .. n /\ ~ (m + 1 <= m)
          BY <1>1, <2>2, <3>2
        <4>2. m + 1 \notin full
          BY <2>1, <4>1
        <4> QED BY <1>2, <1>4, <1>7, <4>1, <4>2
      <3> QED BY <3>1, <3>2
    <2>4. /\ keep \in 0 .. Len(pages[m]) /\ Len(pages[m]) \in Nat
          /\ DOMAIN pages[m] = 1 .. Len(pages[m])
      <3>1. C(m) = C(m + 1) + Len(pages[m]) /\ Len(pages[m]) \in Nat
        BY <1>2, <1>3, <1>4, <2>2
      <3> QED BY <1>3, <1>4, <2>2, <2>3, <3>1
    \* What stays: the pages before it, and its first ids.
    <2>5. ASSUME NEW i \in 1 .. n, NEW k \in DOMAIN pages[i]
          PROVE  ~Taken(pages, i, k) <=> i < m \/ (i = m /\ k <= keep)
      <3>1. CASE i > m
        <4>1. i \notin full
          BY <1>1, <2>1, <2>2, <3>1
        <4> QED BY <1>1, <1>9, <2>2, <3>1, <4>1
      <3>2. CASE i = m
        <4>1. Taken(pages, m, k) <=> C(m + 1) + Len(pages[m]) - k < MaxSweep
          BY <1>6, <3>2
        <4>2. k \in 1 .. Len(pages[m])
          BY <2>4, <3>2
        <4>3. C(m + 1) + Len(pages[m]) - k < MaxSweep <=> ~ (k <= keep)
          BY <1>4, <2>3, <2>4, <4>2
        <4> QED BY <2>2, <3>2, <4>1, <4>3
      <3>3. CASE i < m
        <4>1. C(i + 1) >= C(m) /\ C(i + 1) \in Nat /\ C(m) \in Nat
          <5>1. i + 1 \in Nat \ {0} /\ m \in Nat \ {0} /\ i + 1 <= m
            BY <1>1, <2>2, <3>3
          <5> QED BY <1>2, <5>1
        <4>2. Len(pages[i]) \in Nat /\ k \in 1 .. Len(pages[i])
          BY <1>3, <1>4
        <4>3. ~ (C(i + 1) + Len(pages[i]) - k < MaxSweep)
          BY <1>4, <2>2, <4>1, <4>2
        <4> QED BY <1>6, <3>3, <4>3
      <3> QED BY <1>1, <2>2, <3>1, <3>2, <3>3
    <2> HIDE DEF keep
    <2>6. /\ before \in Seq(Page) /\ OnceEach(before)
          /\ \A id : id \in OnPages(before) <=>
                \E i \in 1 .. m - 1 : \E k \in DOMAIN pages[i] : pages[i][k] = id
      <3>1. m - 1 \in 0 .. Len(pages)
        BY <1>1, <2>2 DEF n
      <3> QED BY <3>1, FirstPages
    <2>7. /\ part \in Page /\ IsInjective(part)
          /\ \A id : id \in Range(part) <=> \E k \in 1 .. keep : pages[m][k] = id
      <3>1. 1 \in 1 .. Len(pages[m]) + 1 /\ 1 <= keep + 1 /\ (keep + 1) - 1 = keep
        BY <2>4
      <3>2. /\ part \in Seq(Tokens) /\ Len(part) = keep
            /\ \A k \in 1 .. keep : part[k] = pages[m][1 + k - 1]
        BY <1>3, <2>2, <2>4, <3>1, SubSeqIs
      <3>3. DOMAIN part = 1 .. keep /\ \A k \in 1 .. keep : part[k] = pages[m][k]
        BY <2>4, <3>2
      <3>4. part \in Page
        BY <1>3, <1>4, <2>2, <2>4, <3>2 DEF Page
      <3>5. IsInjective(part)
        <4>1. m \in DOMAIN pages /\ \A k \in 1 .. keep : k \in DOMAIN pages[m]
          BY <1>1, <2>2, <2>4
        <4>2. \A k, l \in 1 .. keep : pages[m][k] = pages[m][l] => k = l
          BY <4>1 DEF OnceEach
        <4> HIDE DEF part
        <4> QED BY <3>3, <4>2 DEF IsInjective
      <3> QED BY <3>3, <3>4, <3>5 DEF Range
    <2> HIDE DEF before, part
    <2>8. OnPages(pages) \ TakenBy(pages) = OnPages(before) \cup Range(part)
      <3>1. ASSUME NEW id \in OnPages(pages), id \notin TakenBy(pages)
            PROVE  id \in OnPages(before) \cup Range(part)
        <4>1. PICK i \in 1 .. n : \E k \in DOMAIN pages[i] : pages[i][k] = id
          BY <1>8, <3>1
        <4>5. PICK k \in DOMAIN pages[i] : pages[i][k] = id
          BY <4>1
        <4>2. ~Taken(pages, i, k)
          BY <1>1, <3>1, <4>5, TakenWhere
        <4>3. CASE i < m
          <5>1. i \in 1 .. m - 1
            BY <1>1, <2>2, <4>3
          <5> QED BY <2>6, <4>5, <5>1
        <4>4. CASE i = m /\ k <= keep
          <5>1. k \in 1 .. keep
            BY <2>4, <4>4
          <5> QED BY <2>7, <4>4, <4>5, <5>1
        <4> QED BY <2>5, <4>2, <4>3, <4>4
      <3>2. ASSUME NEW id \in OnPages(before)
            PROVE  id \in OnPages(pages) /\ id \notin TakenBy(pages)
        <4>1. PICK i \in 1 .. m - 1 : \E k \in DOMAIN pages[i] : pages[i][k] = id
          BY <2>6
        <4>2. PICK k \in DOMAIN pages[i] : pages[i][k] = id
          BY <4>1
        <4>3. i \in 1 .. n /\ i < m
          BY <1>1, <2>2
        <4> QED BY <1>1, <1>8, <2>5, <4>2, <4>3, TakenWhere
      <3>3. ASSUME NEW id \in Range(part)
            PROVE  id \in OnPages(pages) /\ id \notin TakenBy(pages)
        <4>1. PICK k \in 1 .. keep : pages[m][k] = id
          BY <2>7
        <4>2. k \in DOMAIN pages[m] /\ k <= keep
          BY <2>4
        <4> QED BY <1>1, <1>8, <2>2, <2>5, <4>1, <4>2, TakenWhere
      <3> QED BY <3>1, <3>2, <3>3
    <2>9. CASE keep = 0
      <3>1. Swept(pages) = before
        BY <1>5, <1>11, <2>9 DEF before, keep, m
      <3>2. Range(part) = {}
        BY <2>7, <2>9
      <3> QED BY <2>6, <2>8, <3>1, <3>2
    <2>10. CASE keep # 0
      <3>1. Swept(pages) = before \o <<part>>
        <4>1. Swept(pages) = Append(before, part)
          BY <1>5, <1>11, <2>10 DEF before, keep, m, part
        <4> QED BY <2>6, <2>7, <4>1, AppendIsConcat
      <3>2. OnPages(before) \cap Range(part) = {}
        <4>1. ASSUME NEW id \in OnPages(before), id \in Range(part) PROVE FALSE
          <5>1. PICK i \in 1 .. m - 1 : \E k \in DOMAIN pages[i] : pages[i][k] = id
            BY <2>6
          <5>2. PICK k \in DOMAIN pages[i] : pages[i][k] = id
            BY <5>1
          <5>3. PICK l \in 1 .. keep : pages[m][l] = id
            BY <2>7, <4>1
          <5>4. i \in 1 .. n /\ i # m /\ l \in DOMAIN pages[m]
            BY <1>1, <2>2, <2>4
          <5> QED BY <1>1, <2>2, <5>2, <5>3, <5>4 DEF OnceEach
        <4> QED BY <4>1
      <3>3. <<part>> \in Seq(Page) /\ OnceEach(<<part>>) /\ OnPages(<<part>>) = Range(part)
        BY <2>7, OnePage
      <3>4. /\ before \o <<part>> \in Seq(Page) /\ OnceEach(before \o <<part>>)
            /\ OnPages(before \o <<part>>) = OnPages(before) \cup OnPages(<<part>>)
        BY <2>6, <3>2, <3>3, JoinPages
      <3> QED BY <2>8, <3>1, <3>3, <3>4
    <2> QED BY <2>9, <2>10
  <1> QED BY <1>10, <1>11

-----------------------------------------------------------------------------
(* The slots of open pools, and what they reserve.                         *)

Slot == [pool : Nat, unstocked : Nat]
Slots ==
    {s \in Seq(Slot) :
        \A i, j \in DOMAIN s : s[i].pool = s[j].pool => i = j}

Amounts(s) == [i \in DOMAIN s |-> s[i].unstocked]
SumOf(s) == SumFunctionOnSet(Amounts(s), DOMAIN s)
SumFor(s, p) == SumFunctionOnSet(Amounts(s), {i \in DOMAIN s : s[i].pool = p})

\* Types of slots: one for a pool.
LEMMA SlotsAre ==
    ASSUME NEW s \in Slots
    PROVE  /\ s \in Seq(Slot)
           /\ Len(s) \in Nat /\ DOMAIN s = 1 .. Len(s) /\ IsFiniteSet(DOMAIN s)
           /\ \A i \in DOMAIN s : s[i] \in Slot
           /\ \A i \in DOMAIN s : s[i].pool \in Nat /\ s[i].unstocked \in Nat
           /\ \A i, j \in DOMAIN s : s[i].pool = s[j].pool => i = j
  <1>1. s \in Seq(Slot) /\ Len(s) \in Nat /\ DOMAIN s = 1 .. Len(s)
    BY DEF Slots
  <1>2. IsFiniteSet(DOMAIN s)
    BY <1>1, FS_Interval
  <1>3. \A i \in DOMAIN s : s[i] \in Slot
    BY <1>1, ElementOfSeq
  <1>4. \A i \in DOMAIN s : s[i].pool \in Nat /\ s[i].unstocked \in Nat
    BY <1>3 DEF Slot
  <1> QED BY <1>1, <1>2, <1>3, <1>4 DEF Slots

\* What a pool reserves is in its only slot.
LEMMA SumForIs ==
    ASSUME NEW s \in Slots
    PROVE  /\ \A i \in DOMAIN s : SumFor(s, s[i].pool) = s[i].unstocked
           /\ \A p : (\A i \in DOMAIN s : s[i].pool # p) => SumFor(s, p) = 0
  <1>1. ASSUME NEW i \in DOMAIN s PROVE SumFor(s, s[i].pool) = s[i].unstocked
    <2>1. {j \in DOMAIN s : s[j].pool = s[i].pool} = {i}
      BY DEF Slots
    <2>2. Amounts(s)[i] = s[i].unstocked /\ s[i].unstocked \in Int
      BY SlotsAre DEF Amounts
    <2> QED BY <2>1, <2>2, SumOne DEF SumFor
  <1>2. ASSUME NEW p, \A i \in DOMAIN s : s[i].pool # p PROVE SumFor(s, p) = 0
    <2>1. {i \in DOMAIN s : s[i].pool = p} = {}
      BY <1>2
    <2> QED BY <2>1, SumStep DEF SumFor
  <1> QED BY <1>1, <1>2

\* What slots reserve is a natural, no less than any slot's part.
LEMMA SumOfNat ==
    ASSUME NEW s \in Slots
    PROVE  /\ SumOf(s) \in Nat /\ \A i \in DOMAIN s : s[i].unstocked <= SumOf(s)
           /\ \A p : SumFor(s, p) \in Nat
  <1>1. \A i \in DOMAIN s : Amounts(s)[i] = s[i].unstocked /\ Amounts(s)[i] \in Nat
    BY SlotsAre DEF Amounts
  <1>2. IsFiniteSet(DOMAIN s)
    BY SlotsAre
  <1>3. SumOf(s) \in Nat /\ \A i \in DOMAIN s : Amounts(s)[i] <= SumOf(s)
    BY <1>1, <1>2, SumNat DEF SumOf
  <1>4. ASSUME NEW p PROVE SumFor(s, p) \in Nat
    <2> DEFINE D == {i \in DOMAIN s : s[i].pool = p}
    <2>1. IsFiniteSet(D) /\ \A i \in D : Amounts(s)[i] \in Nat
      BY <1>1, <1>2, FS_Subset
    <2> QED BY <2>1, SumNat DEF SumFor
  <1> QED BY <1>1, <1>3, <1>4

\* Slots are sequences with one slot for a pool.
LEMMA InSlots ==
    ASSUME NEW r \in Seq(Slot), \A i, j \in DOMAIN r : r[i].pool = r[j].pool => i = j
    PROVE  r \in Slots
  BY Zenon DEF Slots

\* What is reserved for a pool is what its slot says.
LEMMA SumForAt ==
    ASSUME NEW s \in Slots, NEW i \in DOMAIN s
    PROVE  SumFor(s, s[i].pool) = s[i].unstocked
  BY SumForIs

\* Nothing is reserved for a pool without a slot.
LEMMA SumForNone ==
    ASSUME NEW s \in Slots, NEW p, \A i \in DOMAIN s : s[i].pool # p
    PROVE  SumFor(s, p) = 0
  <1>1. (\A i \in DOMAIN s : s[i].pool # p) => SumFor(s, p) = 0
    BY SumForIs
  <1> QED BY <1>1

NoSlotOf(s, p) == \A i \in DOMAIN s : s[i].pool # p
SlotAlso(r, s, e) ==
    /\ r \in Slots /\ Len(r) = Len(s) + 1
    /\ SumOf(r) = SumOf(s) + e.unstocked
    /\ SumFor(r, e.pool) = e.unstocked
    /\ \A p : p # e.pool => SumFor(r, p) = SumFor(s, p)

\* A new slot.
LEMMA SlotAdded ==
    ASSUME NEW s \in Slots, NEW e \in Slot,
           NoSlotOf(s, e.pool), NEW r, r = Append(s, e)
    PROVE  SlotAlso(r, s, e)
  <1> DEFINE R == Slot
             m == Len(s)
             q == e.pool
             a == e.unstocked
  <1>1. /\ m \in Nat /\ DOMAIN s = 1 .. m /\ IsFiniteSet(1 .. m)
        /\ \A i \in 1 .. m : s[i].pool \in Nat /\ s[i].unstocked \in Nat
        /\ \A i, j \in 1 .. m : s[i].pool = s[j].pool => i = j
        /\ \A i \in 1 .. m : s[i].pool # q
    BY SlotsAre DEF NoSlotOf
  <1>2. s \in Seq(R) /\ e \in R
    BY SlotsAre
  <1>11. q \in Nat /\ a \in Nat
    BY DEF Slot
  <1>3. /\ r \in Seq(R) /\ Len(r) = m + 1 /\ DOMAIN r = 1 .. m + 1
        /\ \A i \in 1 .. m : r[i] = s[i]
        /\ r[m + 1] = e
    <2> HIDE DEF R
    <2>1. r \in Seq(R) /\ Len(r) = m + 1 /\ (\A i \in 1 .. m : r[i] = s[i]) /\ r[m + 1] = e
      BY <1>2, AppendProperties
    <2> QED BY <1>1, <2>1
  <1>10. e.pool = q /\ e.unstocked = a
    OBVIOUS
  <1> HIDE DEF m
  <1>4. \A i \in 1 .. m + 1 : i \in 1 .. m \/ i = m + 1
    BY <1>1
  <1>5. \A i, j \in 1 .. m + 1 : r[i].pool = r[j].pool => i = j
    <2>1. r[m + 1].pool = q /\ \A i \in 1 .. m : r[i].pool # q
      BY <1>1, <1>3, <1>10
    <2> QED BY <1>1, <1>3, <1>4, <2>1
  <1>6. r \in Slots
    BY <1>3, <1>5, InSlots
  <1>7. SumOf(r) = SumOf(s) + a
    <2> DEFINE f == Amounts(r)
               g == Amounts(s)
    <2>1. \A i \in 1 .. m : f[i] = g[i] /\ g[i] \in Int
      BY <1>1, <1>3, <1>4 DEF Amounts
    <2>2. f[m + 1] = a /\ a \in Int
      BY <1>1, <1>3, <1>10, <1>11 DEF Amounts
    <2>3. SumOf(r) = SumFunctionOnSet(f, DOMAIN r) /\ SumOf(s) = SumFunctionOnSet(g, 1 .. m)
      BY <1>1 DEF SumOf
    <2>4. SumOf(s) \in Nat
      BY SumOfNat
    <2> HIDE DEF f, g
    <2>5. DOMAIN r = (1 .. m) \cup {m + 1} /\ m + 1 \notin 1 .. m
      BY <1>1, <1>3
    <2>6. \A i \in 1 .. m : f[i] \in Int
      BY <2>1
    <2>7. SumFunctionOnSet(f, (1 .. m) \cup {m + 1}) = f[m + 1] + SumFunctionOnSet(f, 1 .. m)
      BY <1>1, <2>2, <2>5, <2>6, SumAdd
    <2>8. SumFunctionOnSet(f, 1 .. m) = SumFunctionOnSet(g, 1 .. m)
      BY <1>1, <2>1, SumSame
    <2>9. SumFunctionOnSet(f, DOMAIN r) = a + SumFunctionOnSet(g, 1 .. m)
      BY <2>2, <2>5, <2>7, <2>8
    <2> QED BY <1>11, <2>3, <2>4, <2>9
  <1>8. SumFor(r, q) = a
    <2>1. m + 1 \in DOMAIN r /\ r[m + 1].pool = q /\ r[m + 1].unstocked = a
      BY <1>1, <1>3, <1>10
    <2>2. SumFor(r, r[m + 1].pool) = r[m + 1].unstocked
      BY <1>6, <2>1, SumForAt
    <2> QED BY <2>1, <2>2
  <1>9. ASSUME NEW p, p # q PROVE SumFor(r, p) = SumFor(s, p)
    <2>1. CASE \E i \in 1 .. m : s[i].pool = p
      <3>1. PICK i \in 1 .. m : s[i].pool = p
        BY <2>1
      <3>2. i \in DOMAIN r /\ r[i] = s[i] /\ i \in DOMAIN s
        BY <1>1, <1>3
      <3>3. SumFor(r, r[i].pool) = r[i].unstocked
        BY <1>6, <3>2, SumForIs
      <3>4. SumFor(s, s[i].pool) = s[i].unstocked
        BY <3>2, SumForIs
      <3> QED BY <3>1, <3>2, <3>3, <3>4
    <2>2. CASE \A i \in 1 .. m : s[i].pool # p
      <3>1. \A i \in DOMAIN r : r[i].pool # p
        BY <1>3, <1>4, <1>9, <1>10, <2>2
      <3>2. SumFor(r, p) = 0
        BY <1>6, <3>1, SumForNone
      <3>3. SumFor(s, p) = 0
        BY <1>1, <2>2, SumForNone
      <3> QED BY <3>2, <3>3
    <2> QED BY <2>1, <2>2
  <1> QED BY <1>3, <1>6, <1>7, <1>8, <1>9 DEF m, SlotAlso

\* Slot i reserves a, and nothing once it is given up.
SlotNow(r, s, i, a) ==
    /\ r \in Slots /\ Len(r) <= Len(s)
    /\ \A j \in DOMAIN r : \E k \in DOMAIN s : r[j].pool = s[k].pool
    /\ SumOf(r) = SumOf(s) - s[i].unstocked + a
    /\ SumFor(r, s[i].pool) = a
    /\ \A p : p # s[i].pool => SumFor(r, p) = SumFor(s, p)

\* A slot that reserves something else.
LEMMA SlotChanged ==
    ASSUME NEW s \in Slots, NEW i \in DOMAIN s, NEW a \in Nat,
           NEW r, r = [s EXCEPT ![i].unstocked = a]
    PROVE  SlotNow(r, s, i, a)
  <1> DEFINE R == Slot
             e == [s[i] EXCEPT !.unstocked = a]
  <1>1. /\ s \in Seq(R) /\ Len(s) \in Nat /\ DOMAIN s = 1 .. Len(s) /\ IsFiniteSet(DOMAIN s)
        /\ \A j \in DOMAIN s : s[j] \in R /\ s[j].unstocked \in Nat
        /\ \A j, k \in DOMAIN s : s[j].pool = s[k].pool => j = k
    BY SlotsAre
  <1>2. e \in R /\ e.pool = s[i].pool /\ e.unstocked = a
    <2>1. s[i] \in Slot
      BY <1>1
    <2> HIDE DEF R
    <2>2. [s[i] EXCEPT !.unstocked = a] \in Slot
      BY <2>1 DEF Slot
    <2>3. [s[i] EXCEPT !.unstocked = a].pool = s[i].pool
      BY <2>1 DEF Slot
    <2>4. [s[i] EXCEPT !.unstocked = a].unstocked = a
      BY <2>1 DEF Slot
    <2> QED BY <2>2, <2>3, <2>4 DEF R
  <1>3. r = [s EXCEPT ![i] = e]
    OBVIOUS
  <1> HIDE DEF e
  <1>4. r \in Seq(R) /\ Len(r) = Len(s) /\ DOMAIN r = DOMAIN s /\ r[i] = e /\ \A j \in DOMAIN s : j # i => r[j] = s[j]
    <2>1. r \in Seq(R) /\ Len(r) = Len(s) /\ \A j \in 1 .. Len(s) : r[j] = IF j = i THEN e ELSE s[j]
      BY <1>1, <1>2, <1>3, ExceptSeq
    <2> QED BY <1>1, <2>1
  <1>5. \A j \in DOMAIN s : r[j].pool = s[j].pool
    BY <1>2, <1>4
  <1>6. r \in Slots
    <2>1. \A j, k \in DOMAIN r : r[j].pool = r[k].pool => j = k
      BY <1>1, <1>4, <1>5
    <2> QED BY <1>4, <2>1, InSlots
  <1>7. SumOf(r) = SumOf(s) - s[i].unstocked + a
    <2> DEFINE f == Amounts(s)
               g == Amounts(r)
    <2>1. \A j \in DOMAIN s : f[j] \in Int /\ g[j] \in Int
      BY <1>1, <1>2, <1>4 DEF Amounts
    <2>2. \A j \in DOMAIN s : i # j => f[j] = g[j]
      BY <1>4 DEF Amounts
    <2>3. f[i] = s[i].unstocked /\ g[i] = a
      BY <1>2, <1>4 DEF Amounts
    <2>4. SumOf(r) = SumFunctionOnSet(g, DOMAIN s) /\ SumOf(s) = SumFunctionOnSet(f, DOMAIN s)
      BY <1>4 DEF SumOf
    <2> HIDE DEF f, g
    <2> DEFINE D == DOMAIN s
    <2>5. IsFiniteSet(D) /\ i \in D /\ (\A j \in D : f[j] \in Int /\ g[j] \in Int)
          /\ \A j \in D : j # i => f[j] = g[j]
      BY <1>1, <2>1, <2>2
    <2> HIDE DEF D
    <2>6. SumFunctionOnSet(g, D) = SumFunctionOnSet(f, D) - f[i] + g[i]
      BY <2>5, SumUpdate
    <2> QED BY <2>3, <2>4, <2>6 DEF D
  <1>8. SumFor(r, s[i].pool) = a
    <2>1. i \in DOMAIN r /\ r[i].pool = s[i].pool /\ r[i].unstocked = a
      BY <1>2, <1>4
    <2>2. SumFor(r, r[i].pool) = r[i].unstocked
      BY <1>6, <2>1, SumForAt
    <2> QED BY <2>1, <2>2
  <1>9. ASSUME NEW p, p # s[i].pool PROVE SumFor(r, p) = SumFor(s, p)
    <2>1. CASE \E j \in DOMAIN s : s[j].pool = p
      <3>1. PICK j \in DOMAIN s : s[j].pool = p
        BY <2>1
      <3>2. r[j] = s[j] /\ j \in DOMAIN r
        BY <1>4, <1>9, <3>1
      <3>3. SumFor(r, r[j].pool) = r[j].unstocked
        BY <1>6, <3>2, SumForIs
      <3>4. SumFor(s, s[j].pool) = s[j].unstocked
        BY SumForIs
      <3> QED BY <3>1, <3>2, <3>3, <3>4
    <2>2. CASE \A j \in DOMAIN s : s[j].pool # p
      <3>1. \A j \in DOMAIN r : r[j].pool # p
        BY <1>4, <1>5, <2>2
      <3>2. SumFor(r, p) = 0
        BY <1>6, <3>1, SumForNone
      <3>3. SumFor(s, p) = 0
        BY <2>2, SumForNone
      <3> QED BY <3>2, <3>3
    <2> QED BY <2>1, <2>2
  <1>10. Len(r) <= Len(s) /\ \A j \in DOMAIN r : \E k \in DOMAIN s : r[j].pool = s[k].pool
    BY <1>1, <1>4, <1>5
  <1> QED BY <1>6, <1>7, <1>8, <1>9, <1>10 DEF SlotNow

\* A slot that is given up.
LEMMA SlotDropped ==
    ASSUME NEW s \in Slots, NEW i \in DOMAIN s,
           NEW r, r = RemoveAt(s, i)
    PROVE  SlotNow(r, s, i, 0)
  <1> DEFINE R == Slot
             m == Len(s)
             x == SubSeq(s, 1, i - 1)
             y == SubSeq(s, i + 1, m)
             h == [k \in 1 .. m - 1 |-> IF k < i THEN k ELSE k + 1]
  <1>1. /\ s \in Seq(R) /\ m \in Nat /\ DOMAIN s = 1 .. m /\ IsFiniteSet(1 .. m) /\ i \in 1 .. m
        /\ \A j \in 1 .. m : s[j] \in R /\ s[j].unstocked \in Nat
        /\ \A j, k \in 1 .. m : s[j].pool = s[k].pool => j = k
    BY SlotsAre
  <1>2. x \in Seq(R) /\ Len(x) = i - 1 /\ \A k \in 1 .. i - 1 : x[k] = s[k]
    <2>1. 1 \in 1 .. Len(s) + 1 /\ i - 1 \in 0 .. Len(s) /\ 1 <= (i - 1) + 1 /\ ((i - 1) + 1) - 1 = i - 1
      BY <1>1
    <2>2. x \in Seq(R) /\ Len(x) = i - 1 /\ \A k \in 1 .. i - 1 : x[k] = s[1 + k - 1]
      BY <1>1, <2>1, SubSeqIs
    <2>3. \A k \in 1 .. i - 1 : 1 + k - 1 = k
      BY <1>1
    <2> QED BY <2>2, <2>3
  <1>3. y \in Seq(R) /\ Len(y) = m - i /\ \A k \in 1 .. m - i : y[k] = s[i + k]
    <2>1. i + 1 \in 1 .. Len(s) + 1 /\ m \in 0 .. Len(s) /\ i + 1 <= m + 1 /\ (m + 1) - (i + 1) = m - i
      BY <1>1
    <2>2. y \in Seq(R) /\ Len(y) = m - i /\ \A k \in 1 .. m - i : y[k] = s[(i + 1) + k - 1]
      BY <1>1, <2>1, SubSeqIs
    <2>3. \A k \in 1 .. m - i : (i + 1) + k - 1 = i + k
      BY <1>1
    <2> QED BY <2>2, <2>3
  <1>4. r = x \o y
    BY DEF RemoveAt
  <1> HIDE DEF x, y, m, R
  <1>5. /\ r \in Seq(R) /\ Len(r) = m - 1 /\ DOMAIN r = 1 .. m - 1
        /\ \A k \in 1 .. m - 1 : r[k] = IF k <= i - 1 THEN x[k] ELSE y[k - (i - 1)]
    <2>1. Len(x) + Len(y) = m - 1
      BY <1>1, <1>2, <1>3
    <2> DEFINE z == x \o y
    <2>2. /\ z \in Seq(R) /\ Len(z) = Len(x) + Len(y)
          /\ \A k \in 1 .. Len(x) + Len(y) : z[k] = IF k <= Len(x) THEN x[k] ELSE y[k - Len(x)]
      BY <1>2, <1>3, ConcatProperties
    <2> HIDE DEF z
    <2>3. DOMAIN z = 1 .. Len(z)
      BY <2>2
    <2>4. r = z /\ Len(x) = i - 1
      BY <1>2, <1>4 DEF z
    <2> QED BY <2>1, <2>2, <2>3, <2>4
  <1>6. /\ \A k \in 1 .. m - 1 : h[k] \in 1 .. m /\ h[k] # i
        /\ \A k, l \in 1 .. m - 1 : h[k] = h[l] => k = l
        /\ \A j \in 1 .. m : j # i => \E k \in 1 .. m - 1 : h[k] = j
    <2>1. \A k \in 1 .. m - 1 : h[k] \in 1 .. m /\ h[k] # i
      BY <1>1
    <2>2. \A k, l \in 1 .. m - 1 : h[k] = h[l] => k = l
      BY <1>1
    <2>3. ASSUME NEW j \in 1 .. m, j # i PROVE \E k \in 1 .. m - 1 : h[k] = j
      <3>1. CASE j < i
        <4>1. j \in 1 .. m - 1 /\ h[j] = j
          BY <1>1, <3>1
        <4> QED BY <4>1
      <3>2. CASE j > i
        <4>1. j - 1 \in 1 .. m - 1 /\ h[j - 1] = j
          BY <1>1, <3>2
        <4> QED BY <4>1
      <3> QED BY <1>1, <2>3, <3>1, <3>2
    <2> QED BY <2>1, <2>2, <2>3
  <1>7. \A k \in 1 .. m - 1 : r[k] = s[h[k]]
    <2> SUFFICES ASSUME NEW k \in 1 .. m - 1 PROVE r[k] = s[h[k]]
      OBVIOUS
    <2>1. CASE k < i
      BY <1>1, <1>2, <1>5, <2>1
    <2>2. CASE ~ (k < i)
      <3>1. k - (i - 1) \in 1 .. m - i /\ i + (k - (i - 1)) = k + 1 /\ ~ (k <= i - 1)
        BY <1>1, <2>2
      <3> QED BY <1>3, <1>5, <2>2, <3>1
    <2> QED BY <2>1, <2>2
  <1> HIDE DEF h
  <1>8. r \in Slots
    <2>1. ASSUME NEW j \in DOMAIN r, NEW k \in DOMAIN r, r[j].pool = r[k].pool PROVE j = k
      <3>1. j \in 1 .. m - 1 /\ k \in 1 .. m - 1
        BY <1>5
      <3>2. r[j] = s[h[j]] /\ r[k] = s[h[k]] /\ h[j] \in 1 .. m /\ h[k] \in 1 .. m
        BY <1>6, <1>7, <3>1
      <3>3. h[j] = h[k]
        BY <1>1, <2>1, <3>2
      <3> QED BY <1>6, <3>1, <3>3
    <2> QED BY <1>5, <2>1, InSlots DEF R
  <1>9. SumOf(r) = SumOf(s) - s[i].unstocked
    <2> DEFINE f == Amounts(s)
               g == Amounts(r)
               D == 1 .. m - 1
    <2>1. \A k \in D : f[h[k]] \in Int /\ g[k] = f[h[k]]
      BY <1>1, <1>5, <1>6, <1>7 DEF Amounts
    <2>2. {h[k] : k \in D} = (1 .. m) \ {i}
      BY <1>6
    <2>3. IsFiniteSet(D) /\ \A k, l \in D : h[k] = h[l] => k = l
      <3>1. 1 \in Int /\ m - 1 \in Int
        BY <1>1
      <3> QED BY <1>6, <3>1, FS_Interval
    <2>4. \A j \in 1 .. m : f[j] = s[j].unstocked /\ f[j] \in Int
      BY <1>1 DEF Amounts
    <2>5. SumOf(r) = SumFunctionOnSet(g, D) /\ SumOf(s) = SumFunctionOnSet(f, 1 .. m)
      BY <1>1, <1>5 DEF SumOf
    <2> HIDE DEF f, g, D
    <2>6. SumFunctionOnSet(g, D) = SumFunctionOnSet(f, {h[k] : k \in D})
      BY <2>1, <2>3, SumRenamed
    <2>7. SumFunctionOnSet(f, 1 .. m) = f[i] + SumFunctionOnSet(f, (1 .. m) \ {i})
      BY <1>1, <2>4, SumTakesOut
    <2>8. SumFunctionOnSet(f, (1 .. m) \ {i}) \in Int
      <3>1. IsFiniteSet((1 .. m) \ {i}) /\ \A j \in (1 .. m) \ {i} : f[j] \in Int
        BY <1>1, <2>4, FS_Subset
      <3> QED BY <3>1, SumInt
    <2>9. f[i] = s[i].unstocked /\ f[i] \in Int
      BY <1>1, <2>4
    <2>10. SumOf(s) = s[i].unstocked + SumOf(r)
      BY <2>2, <2>5, <2>6, <2>7, <2>9
    <2>11. SumOf(r) \in Int /\ s[i].unstocked \in Int
      BY <2>2, <2>5, <2>6, <2>8, <2>9
    <2> QED BY <2>10, <2>11
  <1>10. SumFor(r, s[i].pool) = 0
    <2>1. ASSUME NEW k \in DOMAIN r PROVE r[k].pool # s[i].pool
      <3>1. k \in 1 .. m - 1
        BY <1>5
      <3>2. r[k] = s[h[k]] /\ h[k] \in 1 .. m /\ h[k] # i
        BY <1>6, <1>7, <3>1
      <3> QED BY <1>1, <3>2
    <2> QED BY <1>8, <2>1, SumForNone
  <1>11. ASSUME NEW p, p # s[i].pool PROVE SumFor(r, p) = SumFor(s, p)
    <2>1. CASE \E j \in 1 .. m : s[j].pool = p
      <3>1. PICK j \in 1 .. m : s[j].pool = p
        BY <2>1
      <3>2. PICK k \in 1 .. m - 1 : h[k] = j
        BY <1>6, <1>11, <3>1
      <3>3. r[k] = s[j] /\ k \in DOMAIN r /\ j \in DOMAIN s
        BY <1>1, <1>5, <1>7, <3>2
      <3>4. SumFor(r, r[k].pool) = r[k].unstocked
        BY <1>8, <3>3, SumForIs
      <3>5. SumFor(s, s[j].pool) = s[j].unstocked
        BY <3>3, SumForIs
      <3> QED BY <3>1, <3>3, <3>4, <3>5
    <2>2. CASE \A j \in 1 .. m : s[j].pool # p
      <3>1. \A k \in DOMAIN r : r[k].pool # p
        BY <1>5, <1>6, <1>7, <2>2
      <3>2. SumFor(r, p) = 0
        BY <1>8, <3>1, SumForNone
      <3>3. SumFor(s, p) = 0
        BY <1>1, <2>2, SumForNone
      <3> QED BY <3>2, <3>3
    <2> QED BY <2>1, <2>2
  <1>12. SumOf(r) = SumOf(s) - s[i].unstocked + 0
    <2>1. s[i].unstocked \in Nat /\ SumOf(s) \in Nat
      BY SlotsAre, SumOfNat
    <2> QED BY <1>9, <2>1
  <1>13. Len(r) <= Len(s) /\ \A j \in DOMAIN r : \E k \in DOMAIN s : r[j].pool = s[k].pool
    <2>1. ASSUME NEW j \in 1 .. m - 1 PROVE \E k \in DOMAIN s : r[j].pool = s[k].pool
      <3>1. h[j] \in DOMAIN s /\ r[j] = s[h[j]]
        BY <1>1, <1>6, <1>7
      <3> QED BY <3>1
    <2> QED BY <1>1, <1>5, <2>1 DEF m
  <1> QED BY <1>8, <1>10, <1>11, <1>12, <1>13 DEF SlotNow
-----------------------------------------------------------------------------
(* The rate: sales before the period under way, and in it.                 *)

RatesOf(pool, s, t) ==
    LET R == pool.terms.perPeriod
        P == pool.terms.period
        before == Len(s) - pool.inPeriod
    IN  /\ pool.inPeriod <= R /\ pool.inPeriod <= Len(s) /\ pool.start <= t
        /\ \A k \in DOMAIN s : k <= before => s[k] < pool.start
        /\ \A k \in DOMAIN s : k > before =>
                s[k] >= pool.start /\ s[k] < pool.start + P /\ s[k] <= t
        /\ Cardinality({k \in DOMAIN s : k <= before /\ s[k] + P > pool.start}) <= R

\* Types of a pool.
LEMMA PoolIs ==
    ASSUME NEW pool \in Pool
    PROVE  /\ pool.terms \in Terms /\ pool.terms.size \in Nat
           /\ pool.terms.perPeriod \in Nat \ {0} /\ pool.terms.period \in Nat \ {0}
           /\ pool.stocked \in Nat /\ pool.sold \in Nat /\ pool.start \in Nat
           /\ pool.inPeriod \in Nat /\ pool.closed \in BOOLEAN
  BY DEF Pool, Terms

\* No more of an interval than it is long.
LEMMA PartOfInterval ==
    ASSUME NEW a \in Nat, NEW b \in Nat, a <= b, NEW D, D \subseteq (a + 1) .. b
    PROVE  IsFiniteSet(D) /\ Cardinality(D) \in Nat /\ Cardinality(D) <= b - a
  <1>1. a + 1 \in Int /\ b \in Int
    OBVIOUS
  <1>2. IsFiniteSet((a + 1) .. b) /\ Cardinality((a + 1) .. b) = IF a + 1 > b THEN 0 ELSE b - (a + 1) + 1
    BY <1>1, FS_Interval
  <1>3. IsFiniteSet(D) /\ Cardinality(D) <= Cardinality((a + 1) .. b)
    BY <1>2, FS_Subset
  <1>4. Cardinality(D) \in Nat /\ Cardinality((a + 1) .. b) = b - a
    BY <1>2, <1>3, FS_CardinalityType
  <1> QED BY <1>3, <1>4

\* Sales of a stretch that reach into the period under way.
LEMMA AcrossPeriods ==
    ASSUME NEW s \in Seq(Nat), NEW from \in Nat, NEW c \in Nat, c <= Len(s),
           NEW P \in Nat, NEW R \in Nat, c <= R,
           Cardinality({k \in DOMAIN s : k <= Len(s) - c /\ s[k] + P > from}) <= R,
           NEW W, W \subseteq DOMAIN s, \A k \in W : s[k] + P > from
    PROVE  Cardinality(W) <= 2 * R
  <1> DEFINE m == Len(s)
             b == m - c
             A == {k \in DOMAIN s : k <= b /\ s[k] + P > from}
             B == {k \in W : k > b}
  <1>1. m \in Nat /\ b \in Nat /\ b <= m /\ m - b = c /\ DOMAIN s = 1 .. m
    OBVIOUS
  <1>2. Cardinality(A) <= R
    OBVIOUS
  <1>3. W \subseteq A \cup B
    BY <1>1
  <1>4. A \subseteq 1 .. m /\ B \subseteq (b + 1) .. m
    BY <1>1
  <1> HIDE DEF A, B, m, b
  <1>5. IsFiniteSet(B) /\ Cardinality(B) \in Nat /\ Cardinality(B) <= c
    BY <1>1, <1>4, PartOfInterval
  <1>6. IsFiniteSet(A) /\ Cardinality(A) \in Nat
    <2>1. A \subseteq (0 + 1) .. m /\ 0 <= m /\ 0 \in Nat
      BY <1>1, <1>4
    <2> QED BY <1>1, <2>1, PartOfInterval
  <1>7. IsFiniteSet(A \cup B) /\ Cardinality(A \cup B) \in Nat
        /\ Cardinality(A \cup B) <= Cardinality(A) + Cardinality(B)
    <2>1. IsFiniteSet(A \cup B) /\ IsFiniteSet(A \cap B)
          /\ Cardinality(A \cup B) = Cardinality(A) + Cardinality(B) - Cardinality(A \cap B)
      BY <1>5, <1>6, FS_Union, FS_Intersection
    <2>2. Cardinality(A \cup B) \in Nat /\ Cardinality(A \cap B) \in Nat
      BY <2>1, FS_CardinalityType
    <2> QED BY <1>5, <1>6, <2>1, <2>2
  <1>8. Cardinality(W) <= Cardinality(A \cup B) /\ Cardinality(W) \in Nat
    <2>1. IsFiniteSet(W) /\ Cardinality(W) <= Cardinality(A \cup B)
      BY <1>3, <1>7, FS_Subset
    <2> QED BY <2>1, FS_CardinalityType
  <1> QED BY <1>2, <1>5, <1>6, <1>7, <1>8

\* Stretches as long as a period.
Stretch(s, i, P) == {j \in DOMAIN s : s[j] >= s[i] /\ s[j] < s[i] + P}
StretchesHold(s, P, R) == \A i \in DOMAIN s : Cardinality(Stretch(s, i, P)) <= 2 * R

\* Beginning a new period, or staying in one, keeps the counter true to the sales.
LEMMA RollOver ==
    ASSUME NEW pool \in Pool, NEW s \in Seq(Nat), NEW t \in Nat, RatesOf(pool, s, t),
           NEW r \in Pool, r.terms = pool.terms,
           \/ /\ t < pool.start + pool.terms.period
              /\ r.start = pool.start /\ r.inPeriod = pool.inPeriod
           \/ /\ t >= pool.start + pool.terms.period
              /\ r.start = t /\ r.inPeriod = 0
    PROVE  RatesOf(r, s, t) /\ t < r.start + r.terms.period
  <1> DEFINE P == pool.terms.period
             R == pool.terms.perPeriod
             m == Len(s)
             before == m - pool.inPeriod
  <1>1. /\ P \in Nat \ {0} /\ R \in Nat \ {0} /\ pool.start \in Nat /\ pool.inPeriod \in Nat
        /\ m \in Nat /\ DOMAIN s = 1 .. m
    BY PoolIs
  <1>2. \A k \in 1 .. m : s[k] \in Nat
    BY <1>1, ElementOfSeq
  <1>3. /\ pool.inPeriod <= R /\ pool.inPeriod <= m /\ pool.start <= t
        /\ \A k \in 1 .. m : k <= before => s[k] < pool.start
        /\ \A k \in 1 .. m : k > before => s[k] >= pool.start /\ s[k] < pool.start + P /\ s[k] <= t
    BY <1>1 DEF RatesOf
  <1>4. r.terms.period = P /\ r.terms.perPeriod = R
    OBVIOUS
  <1>5. CASE t < P + pool.start /\ r.start = pool.start /\ r.inPeriod = pool.inPeriod
    BY <1>1, <1>4, <1>5 DEF RatesOf
  <1>6. CASE t >= P + pool.start /\ r.start = t /\ r.inPeriod = 0
    <2> DEFINE A == {k \in 1 .. m : k <= m - 0 /\ s[k] + P > t}
    <2>1. ASSUME NEW k \in 1 .. m PROVE s[k] < t /\ (s[k] + P > t => k \in (before + 1) .. m)
      <3>1. s[k] \in Nat /\ before \in Nat /\ k \in Nat /\ k <= m
        BY <1>1, <1>2, <1>3
      <3>2. CASE k <= before
        <4>1. s[k] < pool.start
          BY <1>3, <3>2
        <4> HIDE DEF P, before
        <4> QED BY <1>1, <1>6, <3>1, <4>1
      <3>3. CASE k > before
        <4>1. s[k] < pool.start + P
          BY <1>3, <3>3
        <4> HIDE DEF P, before
        <4> QED BY <1>1, <1>6, <3>1, <3>3, <4>1
      <3> HIDE DEF before
      <3> QED BY <3>1, <3>2, <3>3
    <2>2. A \subseteq (before + 1) .. m
      <3> HIDE DEF P, before, m
      <3> QED BY <2>1
    <2>3. before \in Nat /\ before <= m /\ m - before = pool.inPeriod
      BY <1>1, <1>3
    <2>4. Cardinality(A) \in Nat /\ Cardinality(A) <= pool.inPeriod
      <3> HIDE DEF A, before, m
      <3> QED BY <1>1, <2>2, <2>3, PartOfInterval
    <2>5. Cardinality(A) <= R
      <3> HIDE DEF A
      <3> QED BY <1>1, <1>3, <2>4
    <2>6. \A k \in 1 .. m : ~ (k > m - 0)
      BY <1>1
    <2>7. r.inPeriod <= R /\ r.inPeriod <= m /\ r.start <= t
      BY <1>1, <1>6
    <2>8. m - r.inPeriod = m - 0
      BY <1>6
    <2>9. Cardinality({k \in DOMAIN s : k <= m - r.inPeriod /\ s[k] + P > r.start}) <= R
      BY <1>1, <1>6, <2>5, <2>8
    <2>10. /\ \A k \in DOMAIN s : k <= m - r.inPeriod => s[k] < r.start
           /\ \A k \in DOMAIN s : ~ (k > m - r.inPeriod)
      BY <1>1, <1>6, <2>1, <2>6, <2>8
    <2>11. RatesOf(r, s, t)
      <3> HIDE DEF A, before
      <3> QED BY <1>4, <2>7, <2>9, <2>10 DEF RatesOf
    <2> QED BY <1>1, <1>4, <1>6, <2>11
  <1> QED BY <1>1, <1>5, <1>6

\* A sale, within the rate of the period under way.
LEMMA SaleAdded ==
    ASSUME NEW pool \in Pool, NEW s \in Seq(Nat), NEW t \in Nat, RatesOf(pool, s, t),
           t < pool.start + pool.terms.period, pool.inPeriod < pool.terms.perPeriod,
           StretchesHold(s, pool.terms.period, pool.terms.perPeriod),
           NEW q \in Pool, q.terms = pool.terms, q.start = pool.start,
           q.inPeriod = pool.inPeriod + 1,
           NEW r, r = Append(s, t)
    PROVE  RatesOf(q, r, t) /\ StretchesHold(r, pool.terms.period, pool.terms.perPeriod)
  <1> DEFINE P == pool.terms.period
             R == pool.terms.perPeriod
             m == Len(s)
             c == pool.inPeriod
             before == m - c
             from == pool.start
  <1>1. /\ P \in Nat \ {0} /\ R \in Nat \ {0} /\ from \in Nat /\ c \in Nat
        /\ m \in Nat /\ DOMAIN s = 1 .. m
    BY PoolIs
  <1>2. \A k \in 1 .. m : s[k] \in Nat
    BY <1>1, ElementOfSeq
  <1>3. /\ c <= m /\ from <= t
        /\ \A k \in 1 .. m : k <= before => s[k] < from
        /\ \A k \in 1 .. m : k > before => s[k] >= from /\ s[k] < from + P /\ s[k] <= t
        /\ Cardinality({k \in 1 .. m : k <= before /\ s[k] + P > from}) <= R
    BY <1>1 DEF RatesOf
  <1>4. /\ r \in Seq(Nat) /\ Len(r) = m + 1 /\ DOMAIN r = 1 .. m + 1
        /\ (\A k \in 1 .. m : r[k] = s[k]) /\ r[m + 1] = t
    <2>1. r \in Seq(Nat) /\ Len(r) = m + 1 /\ (\A k \in 1 .. m : r[k] = s[k]) /\ r[m + 1] = t
      BY AppendProperties
    <2> QED BY <1>1, <2>1
  <1>5. t < from + P /\ c < R
    OBVIOUS
  <1>6. \A k \in 1 .. m + 1 : k \in 1 .. m \/ k = m + 1
    BY <1>1
  <1>7. \A i \in 1 .. m : Cardinality(Stretch(s, i, P)) <= 2 * R
    BY <1>1 DEF StretchesHold
  <1>8. q.terms.period = P /\ q.terms.perPeriod = R /\ q.start = from /\ q.inPeriod = c + 1
    OBVIOUS
  <1> HIDE DEF P, R, m, c, from
  <1>9. {k \in 1 .. m + 1 : k <= before /\ r[k] + P > from} = {k \in 1 .. m : k <= before /\ s[k] + P > from}
    BY <1>1, <1>3, <1>4
  <1>10. before = Len(r) - (c + 1)
    BY <1>1, <1>4
  <1>11. RatesOf(q, r, t)
    <2>1. q.inPeriod <= R /\ q.inPeriod <= Len(r) /\ q.start <= t
      BY <1>1, <1>3, <1>4, <1>5, <1>8
    <2>2. \A k \in DOMAIN r : k <= before => r[k] < from
      BY <1>1, <1>3, <1>4, <1>6
    <2>3. ASSUME NEW k \in DOMAIN r, k > before PROVE r[k] >= from /\ r[k] < from + P /\ r[k] <= t
      BY <1>1, <1>3, <1>4, <1>5, <1>6, <2>3
    <2>4. Cardinality({k \in DOMAIN r : k <= before /\ r[k] + P > from}) <= R
      BY <1>3, <1>4, <1>9
    <2> HIDE DEF before
    <2> QED BY <1>8, <1>10, <2>1, <2>2, <2>3, <2>4 DEF RatesOf
  <1>12. ASSUME NEW i \in 1 .. m + 1 PROVE Cardinality(Stretch(r, i, P)) <= 2 * R
    <2> DEFINE W == Stretch(r, i, P)
    <2>1. \A k \in 1 .. m + 1 : r[k] \in Nat
      BY <1>2, <1>4, <1>6
    <2>2. CASE i = m + 1 \/ m + 1 \in W
      <3>1. ASSUME NEW k \in W PROVE r[k] + P > from
        <4>1. k \in 1 .. m + 1 /\ r[k] >= r[i] /\ r[k] \in Nat /\ r[i] \in Nat
          BY <1>4, <2>1, <3>1 DEF Stretch
        <4>2. CASE i = m + 1
          BY <1>1, <1>3, <1>4, <4>1, <4>2
        <4>3. CASE m + 1 \in W
          <5>1. t < r[i] + P
            BY <1>4, <4>3 DEF Stretch
          <5> DEFINE x == r[k]
                     y == r[i]
          <5>2. x \in Nat /\ y \in Nat /\ x >= y /\ t < y + P /\ from <= t
            BY <1>3, <4>1, <5>1
          <5> HIDE DEF x, y
          <5>3. x + P > from
            BY <1>1, <5>2
          <5> QED BY <5>3 DEF x
        <4> QED BY <2>2, <4>2, <4>3
      <3>2. W \subseteq DOMAIN r
        BY DEF Stretch
      <3>3. c + 1 \in Nat /\ c + 1 <= Len(r) /\ c + 1 <= R
        BY <1>1, <1>3, <1>4, <1>5
      <3>4. Cardinality({k \in DOMAIN r : k <= Len(r) - (c + 1) /\ r[k] + P > from}) <= R
        BY <1>3, <1>4, <1>9, <1>10
      <3> HIDE DEF W
      <3> QED BY <1>1, <1>4, <3>1, <3>2, <3>3, <3>4, AcrossPeriods DEF W
    <2>3. CASE i # m + 1 /\ m + 1 \notin W
      <3>1. i \in 1 .. m
        BY <1>6, <2>3
      <3>2. W = Stretch(s, i, P)
        <4>1. ASSUME NEW j \in W PROVE j \in Stretch(s, i, P)
          <5>1. j \in 1 .. m
            BY <1>4, <1>6, <2>3, <4>1 DEF Stretch
          <5>2. r[j] = s[j] /\ r[i] = s[i]
            BY <1>4, <3>1, <5>1
          <5> QED BY <1>1, <4>1, <5>1, <5>2 DEF Stretch
        <4>2. ASSUME NEW j \in Stretch(s, i, P) PROVE j \in W
          <5>1. j \in 1 .. m /\ j \in 1 .. m + 1
            BY <1>1, <4>2 DEF Stretch
          <5>2. r[j] = s[j] /\ r[i] = s[i]
            BY <1>4, <3>1, <5>1
          <5> QED BY <1>4, <4>2, <5>1, <5>2 DEF Stretch
        <4> QED BY <4>1, <4>2
      <3> QED BY <1>7, <3>1, <3>2
    <2> QED BY <2>2, <2>3
  <1>13. StretchesHold(r, P, R)
    BY <1>4, <1>12 DEF StretchesHold
  <1> QED BY <1>11, <1>13 DEF P, R

\* Time only makes the period under way older.
LEMMA RatesAge ==
    ASSUME NEW pool \in Pool, NEW s \in Seq(Nat), NEW t \in Nat, RatesOf(pool, s, t),
           NEW q \in Pool, q.terms = pool.terms, q.start = pool.start,
           q.inPeriod = pool.inPeriod, NEW u \in Nat, t <= u
    PROVE  RatesOf(q, s, u)
  <1>1. pool.start \in Nat /\ \A k \in DOMAIN s : s[k] \in Nat
    BY PoolIs
  <1>2. /\ \A k \in DOMAIN s : s[k] <= t => s[k] <= u
        /\ pool.start <= t => pool.start <= u
    BY <1>1
  <1> QED BY <1>2 DEF RatesOf

\* A pool that has sold nothing.
LEMMA NoSales ==
    ASSUME NEW pool \in Pool, NEW t \in Nat, pool.inPeriod = 0, pool.start = t
    PROVE  RatesOf(pool, <<>>, t)
           /\ StretchesHold(<<>>, pool.terms.period, pool.terms.perPeriod)
  <1> DEFINE s == <<>>
  <1>1. s \in Seq(Nat) /\ DOMAIN s = {} /\ Len(s) = 0
    OBVIOUS
  <1>2. pool.terms.perPeriod \in Nat
    BY PoolIs
  <1> HIDE DEF s
  <1>3. Cardinality({k \in DOMAIN s : k <= Len(s) - pool.inPeriod
                                     /\ s[k] + pool.terms.period > pool.start}) = 0
    <2>1. {k \in DOMAIN s : k <= Len(s) - pool.inPeriod
                           /\ s[k] + pool.terms.period > pool.start} = {}
      BY <1>1
    <2> QED BY <2>1, FS_EmptySet
  <1>4. pool.inPeriod <= pool.terms.perPeriod /\ pool.inPeriod <= Len(s) /\ pool.start <= t
    BY <1>1, <1>2
  <1>5. RatesOf(pool, s, t)
    BY <1>1, <1>2, <1>3, <1>4 DEF RatesOf
  <1>6. StretchesHold(s, pool.terms.period, pool.terms.perPeriod)
    BY <1>1 DEF StretchesHold
  <1> QED BY <1>5, <1>6 DEF s
-----------------------------------------------------------------------------
(* Custody, of owners o, listings l and stock st.                          *)

Held(o, t) == t \in DOMAIN o /\ o[t] = Market
InStock(st, t) == \E p \in DOMAIN st : t \in OnPages(st[p])

Exact(o, l, st) ==
    /\ \A t \in Tokens : Held(o, t) <=> (l[t] # NoListing \/ InStock(st, t))
    /\ \A p \in DOMAIN st : OnceEach(st[p]) /\ \A t \in OnPages(st[p]) : l[t] = NoListing
    /\ \A p, q \in DOMAIN st : p # q => OnPages(st[p]) \cap OnPages(st[q]) = {}

\* What is on the pages are tokens.
LEMMA IdsAreTokens == ASSUME NEW pages \in Seq(Page) PROVE OnPages(pages) \subseteq Tokens
  BY Sheets

\* The pages of one pool.
LEMMA SeqOfSheets ==
    ASSUME NEW st \in Seq(Seq(Page)), NEW p \in DOMAIN st
    PROVE  st[p] \in Seq(Page)
  BY ElementOfSeq

\* A sequence with one element changed.
LEMMA Changed ==
    ASSUME NEW S, NEW s \in Seq(S), NEW i \in DOMAIN s, NEW e \in S,
           NEW r, r = [s EXCEPT ![i] = e]
    PROVE  /\ r \in Seq(S) /\ Len(r) = Len(s) /\ DOMAIN r = DOMAIN s /\ r[i] = e
           /\ \A j \in DOMAIN s : j # i => r[j] = s[j]
  <1>1. Len(s) \in Nat /\ DOMAIN s = 1 .. Len(s) /\ i \in 1 .. Len(s)
    OBVIOUS
  <1> DEFINE z == [s EXCEPT ![i] = e]
  <1>2. z \in Seq(S) /\ Len(z) = Len(s) /\ \A j \in 1 .. Len(s) : z[j] = IF j = i THEN e ELSE s[j]
    BY <1>1, ExceptSeq
  <1> HIDE DEF z
  <1>3. DOMAIN z = 1 .. Len(s)
    BY <1>2
  <1>4. r = z
    BY DEF z
  <1> QED BY <1>1, <1>2, <1>3, <1>4

\* A sequence with one element more.
LEMMA Appended ==
    ASSUME NEW S, NEW s \in Seq(S), NEW e \in S, NEW r, r = Append(s, e)
    PROVE  /\ r \in Seq(S) /\ Len(r) = Len(s) + 1 /\ r[Len(s) + 1] = e
           /\ DOMAIN r = (DOMAIN s) \cup {Len(s) + 1} /\ Len(s) + 1 \notin DOMAIN s
           /\ \A j \in DOMAIN s : r[j] = s[j]
  <1>1. Len(s) \in Nat /\ DOMAIN s = 1 .. Len(s)
    OBVIOUS
  <1>2. r \in Seq(S) /\ Len(r) = Len(s) + 1 /\ r[Len(s) + 1] = e /\ \A j \in 1 .. Len(s) : r[j] = s[j]
    BY AppendProperties
  <1>3. DOMAIN r = 1 .. Len(s) + 1
    BY <1>2
  <1>4. 1 .. Len(s) + 1 = (1 .. Len(s)) \cup {Len(s) + 1} /\ Len(s) + 1 \notin 1 .. Len(s)
    BY <1>1
  <1> QED BY <1>1, <1>2, <1>3, <1>4

\* Exact custody, pool by pool: what the market owns is listed or stocked, never both, once.
LEMMA ExactIs ==
    ASSUME NEW o, NEW l, NEW st \in Seq(Seq(Page)), DOMAIN o \subseteq Tokens
    PROVE  Exact(o, l, st) <=>
              /\ {t \in DOMAIN o : o[t] = Market} =
                    {t \in Tokens : l[t] # NoListing} \cup UNION {OnPages(st[p]) : p \in DOMAIN st}
              /\ \A p \in DOMAIN st :
                    /\ \A t \in OnPages(st[p]) : l[t] = NoListing
                    /\ \A q \in DOMAIN st \ {p} : OnPages(st[p]) \cap OnPages(st[q]) = {}
                    /\ OnceEach(st[p])
  <1> DEFINE H == {t \in DOMAIN o : o[t] = Market}
             L == {t \in Tokens : l[t] # NoListing}
             U == UNION {OnPages(st[p]) : p \in DOMAIN st}
  <1>1. \A t : t \in U <=> InStock(st, t)
    BY DEF InStock
  <1>2. U \subseteq Tokens
    BY SeqOfSheets, IdsAreTokens
  <1>3. \A t : t \in H <=> Held(o, t)
    BY DEF Held
  <1>4. \A t \in Tokens : t \in L <=> l[t] # NoListing
    OBVIOUS
  <1>5. H \subseteq Tokens /\ L \subseteq Tokens
    OBVIOUS
  <1> HIDE DEF H, L, U
  <1>6. H = L \cup U <=> \A t \in Tokens : Held(o, t) <=> (l[t] # NoListing \/ InStock(st, t))
    BY <1>1, <1>2, <1>3, <1>4, <1>5
  <1>7. (\A p \in DOMAIN st :
            /\ \A t \in OnPages(st[p]) : l[t] = NoListing
            /\ \A q \in DOMAIN st \ {p} : OnPages(st[p]) \cap OnPages(st[q]) = {}
            /\ OnceEach(st[p]))
        <=> /\ \A p \in DOMAIN st : OnceEach(st[p]) /\ \A t \in OnPages(st[p]) : l[t] = NoListing
            /\ \A p, q \in DOMAIN st : p # q => OnPages(st[p]) \cap OnPages(st[q]) = {}
    OBVIOUS
  <1>8. Exact(o, l, st) <=>
            /\ H = L \cup U
            /\ \A p \in DOMAIN st : OnceEach(st[p]) /\ \A t \in OnPages(st[p]) : l[t] = NoListing
            /\ \A p, q \in DOMAIN st : p # q => OnPages(st[p]) \cap OnPages(st[q]) = {}
    BY <1>6 DEF Exact
  <1> QED BY <1>7, <1>8 DEF H, L, U

\* A listed token is on no page.
LEMMA ListedNotStocked ==
    ASSUME NEW o, NEW l, NEW st, Exact(o, l, st), NEW t \in Tokens,
           l[t] # NoListing \/ ~Held(o, t)
    PROVE  ~InStock(st, t)
  BY DEF Exact, InStock

\* What is held stays the same.
LEMMA HeldSame ==
    ASSUME NEW o, NEW l, NEW st, Exact(o, l, st), NEW o2,
           \A t \in Tokens : Held(o2, t) <=> Held(o, t)
    PROVE  Exact(o2, l, st)
  BY DEF Exact

\* A token is listed, or its listing ends.
LEMMA OneListing ==
    ASSUME NEW o, NEW l, NEW st \in Seq(Seq(Page)), Exact(o, l, st),
           NEW x \in Tokens, NEW v, NEW o2, NEW l2,
           ~InStock(st, x), DOMAIN l = Tokens, l2 = [l EXCEPT ![x] = v],
           Held(o2, x) <=> v # NoListing,
           \A t \in Tokens : t # x => (Held(o2, t) <=> Held(o, t))
    PROVE  Exact(o2, l2, st)
  <1>1. l2[x] = v /\ \A t \in Tokens : t # x => l2[t] = l[t]
    OBVIOUS
  <1>2. \A t \in Tokens : Held(o2, t) <=> (l2[t] # NoListing \/ InStock(st, t))
    BY <1>1 DEF Exact
  <1>3. ASSUME NEW p \in DOMAIN st, NEW t \in OnPages(st[p]) PROVE l2[t] = NoListing
    <2>1. t \in Tokens
      BY SeqOfSheets, IdsAreTokens
    <2>2. t # x
      BY DEF InStock
    <2> QED BY <1>1, <2>1, <2>2 DEF Exact
  <1> QED BY <1>2, <1>3 DEF Exact

\* A new pool.
LEMMA OnePoolMore ==
    ASSUME NEW o, NEW l, NEW st \in Seq(Seq(Page)), Exact(o, l, st),
           NEW r, r = Append(st, <<>>)
    PROVE  Exact(o, l, r)
  <1> DEFINE e == <<>>
             n == Len(st) + 1
  <1>1. e \in Seq(Page) /\ OnceEach(e) /\ OnPages(e) = {}
    BY NoPages
  <1> HIDE DEF e
  <1>2. r = Append(st, e)
    BY DEF e
  <1>3. /\ r[n] = e /\ DOMAIN r = (DOMAIN st) \cup {n} /\ n \notin DOMAIN st
        /\ \A j \in DOMAIN st : r[j] = st[j]
    BY <1>1, <1>2, Appended
  <1> HIDE DEF n
  <1>4. \A t : InStock(r, t) <=> InStock(st, t)
    BY <1>1, <1>3 DEF InStock
  <1>5. \A p, q \in DOMAIN r : p # q => OnPages(r[p]) \cap OnPages(r[q]) = {}
    BY <1>1, <1>3 DEF Exact
  <1>6. \A p \in DOMAIN r : OnceEach(r[p]) /\ \A t \in OnPages(r[p]) : l[t] = NoListing
    BY <1>1, <1>3 DEF Exact
  <1> QED BY <1>4, <1>5, <1>6 DEF Exact

\* The pages of one pool change: ids leave custody, new ones enter it.
LEMMA OnePoolChanges ==
    ASSUME NEW o, NEW l, NEW st \in Seq(Seq(Page)), Exact(o, l, st),
           NEW p \in DOMAIN st, NEW pages \in Seq(Page), OnceEach(pages),
           NEW r, r = [st EXCEPT ![p] = pages],
           NEW Out, NEW In, Out \subseteq OnPages(st[p]), In \subseteq Tokens,
           OnPages(pages) = (OnPages(st[p]) \ Out) \cup In,
           NEW o2,
           \A t \in In : ~Held(o, t),
           \A t \in Tokens : Held(o2, t) <=> (Held(o, t) /\ t \notin Out) \/ t \in In
    PROVE  Exact(o2, l, r)
  <1>1. DOMAIN r = DOMAIN st /\ r[p] = pages /\ \A q \in DOMAIN st : q # p => r[q] = st[q]
    BY Changed
  <1>2. \A t \in Tokens : Held(o, t) <=> (l[t] # NoListing \/ InStock(st, t))
    BY DEF Exact
  <1>3. \A t \in In : l[t] = NoListing /\ ~InStock(st, t)
    BY <1>2
  <1>4. \A q \in DOMAIN st : OnPages(st[q]) \subseteq Tokens
    BY SeqOfSheets, IdsAreTokens
  <1>5. \A q \in DOMAIN st : \A t \in OnPages(st[q]) : l[t] = NoListing
    BY DEF Exact
  <1>6. \A q, u \in DOMAIN st : q # u => OnPages(st[q]) \cap OnPages(st[u]) = {}
    BY DEF Exact
  <1>7. ASSUME NEW q \in DOMAIN r PROVE OnceEach(r[q]) /\ \A t \in OnPages(r[q]) : l[t] = NoListing
    <2>1. CASE q = p
      BY <1>1, <1>3, <1>5, <2>1
    <2>2. CASE q # p
      BY <1>1, <2>2 DEF Exact
    <2> QED BY <2>1, <2>2
  <1>8. \A q \in DOMAIN st : q # p => pages \in Seq(Page) /\ OnPages(pages) \cap OnPages(st[q]) = {}
    BY <1>3, <1>6 DEF InStock
  <1>9. \A q, u \in DOMAIN r : q # u => OnPages(r[q]) \cap OnPages(r[u]) = {}
    BY <1>1, <1>6, <1>8
  <1>10. ASSUME NEW t \in Tokens
         PROVE  InStock(r, t) <=> (InStock(st, t) /\ t \notin Out) \/ t \in In
    <2>1. ASSUME InStock(r, t) PROVE (InStock(st, t) /\ t \notin Out) \/ t \in In
      <3>1. PICK q \in DOMAIN st : t \in OnPages(r[q])
        BY <1>1, <2>1 DEF InStock
      <3>2. CASE q = p
        BY <1>1, <3>1, <3>2 DEF InStock
      <3>3. CASE q # p
        BY <1>1, <1>6, <3>1, <3>3 DEF InStock
      <3> QED BY <3>2, <3>3
    <2>2. ASSUME InStock(st, t), t \notin Out PROVE InStock(r, t)
      <3>1. PICK q \in DOMAIN st : t \in OnPages(st[q])
        BY <2>2 DEF InStock
      <3> QED BY <1>1, <2>2, <3>1 DEF InStock
    <2>3. ASSUME t \in In PROVE InStock(r, t)
      BY <1>1, <2>3 DEF InStock
    <2> QED BY <2>1, <2>2, <2>3
  <1>11. \A t \in Tokens : Held(o2, t) <=> (l[t] # NoListing \/ InStock(r, t))
    <2>1. \A t \in Out : l[t] = NoListing
      BY <1>5
    <2> QED BY <1>2, <1>3, <1>10, <2>1
  <1> QED BY <1>7, <1>9, <1>11 DEF Exact

\* How many ids are on pages.
LEMMA CountIds ==
    ASSUME NEW pages \in Seq(Page)
    PROVE  IsFiniteSet(OnPages(pages)) /\ Cardinality(OnPages(pages)) \in Nat
  <1>1. OnPages(pages) \subseteq Tokens
    BY IdsAreTokens
  <1>2. IsFiniteSet(Tokens)
    BY MarketplaceAssumption, FS_Interval DEF Tokens
  <1> QED BY <1>1, <1>2, FS_Subset, FS_CardinalityType
-----------------------------------------------------------------------------
(* The inductive invariant.                                                *)

AddsUp(pool, pages, u) ==
    LET unsold == Cardinality(OnPages(pages))
    IN  IF pool.closed THEN unsold <= pool.stocked - pool.sold /\ u = 0
        ELSE unsold = pool.stocked - pool.sold /\ pool.stocked + u = pool.terms.size

\* A pool with its pages, what its slot reserves and its sales, at time t.
Good(pool, pages, u, s, t) ==
    /\ AddsUp(pool, pages, u)
    /\ RatesOf(pool, s, t)
    /\ StretchesHold(s, pool.terms.period, pool.terms.perPeriod)

PoolTypes(ps, ss, st, b, sa) ==
    /\ ps \in Seq(Pool)
    /\ st \in Seq(Seq(Page)) /\ Len(st) = Len(ps)
    /\ b \in Seq([Members -> Nat]) /\ Len(b) = Len(ps)
    /\ sa \in Seq(Seq(Nat)) /\ Len(sa) = Len(ps)
    /\ ss \in Slots /\ Len(ss) <= MaxOpenPools
    /\ \A i \in DOMAIN ss : ss[i].pool \in DOMAIN ps

PoolsGood(ps, ss, st, sa, t) ==
    \A p \in DOMAIN ps : Good(ps[p], st[p], SumFor(ss, p), sa[p], t)

PoolsInv ==
    /\ PoolTypes(pools, slots, stock, bought, sales)
    /\ PoolsGood(pools, slots, stock, sales, now)

OwnerType(o) == o \in Seq(Members \cup {Market, Treasury}) /\ Len(o) <= MaxTokens

\* A listing charges what was signed.
AsSigned(l) == l.fee <= l.signed.fee /\ l.asset = l.signed.asset

CustodyInv ==
    /\ OwnerType(owner)
    /\ listings \in [Tokens -> Listing \cup {NoListing}]
    /\ Exact(owner, listings, stock)

Config == [paused : BOOLEAN, fee : 0 .. MaxFee, asset : Assets]

TermsInv ==
    /\ \A t \in Tokens : listings[t] # NoListing => AsSigned(listings[t])
    /\ ChargedAsSigned

AllowanceInv ==
    /\ allowance \in Nat /\ lowered \in BOOLEAN
    /\ ~lowered => SumOf(slots) <= allowance

IInv ==
    /\ now \in Nat /\ config \in Config
    /\ PoolsInv /\ CustodyInv /\ TermsInv /\ AllowanceInv

\* Types of the pools' records, as the steps use them.
LEMMA PoolTypesAre ==
    ASSUME NEW ps, NEW ss, NEW st, NEW b, NEW sa, PoolTypes(ps, ss, st, b, sa)
    PROVE  /\ Len(ps) \in Nat /\ DOMAIN ps = 1 .. Len(ps)
           /\ DOMAIN st = DOMAIN ps /\ DOMAIN b = DOMAIN ps /\ DOMAIN sa = DOMAIN ps
           /\ \A p \in DOMAIN ps : /\ ps[p] \in Pool /\ st[p] \in Seq(Page)
                                   /\ b[p] \in [Members -> Nat] /\ sa[p] \in Seq(Nat)
  <1>1. ps \in Seq(Pool) /\ st \in Seq(Seq(Page)) /\ b \in Seq([Members -> Nat]) /\ sa \in Seq(Seq(Nat))
    BY DEF PoolTypes
  <1>2. Len(st) = Len(ps) /\ Len(b) = Len(ps) /\ Len(sa) = Len(ps)
    BY DEF PoolTypes
  <1>3. /\ Len(ps) \in Nat /\ DOMAIN ps = 1 .. Len(ps) /\ DOMAIN st = 1 .. Len(st)
        /\ DOMAIN b = 1 .. Len(b) /\ DOMAIN sa = 1 .. Len(sa)
    BY <1>1
  <1>4. \A p \in 1 .. Len(ps) : ps[p] \in Pool
    BY <1>1, ElementOfSeq
  <1>5. \A p \in 1 .. Len(ps) : st[p] \in Seq(Page)
    BY <1>1, <1>2, ElementOfSeq
  <1>6. \A p \in 1 .. Len(ps) : b[p] \in [Members -> Nat]
    BY <1>1, <1>2, ElementOfSeq
  <1>7. \A p \in 1 .. Len(ps) : sa[p] \in Seq(Nat)
    BY <1>1, <1>2, ElementOfSeq
  <1> QED BY <1>2, <1>3, <1>4, <1>5, <1>6, <1>7

\* Types of ownership.
LEMMA OwnerIs ==
    ASSUME NEW o, OwnerType(o)
    PROVE  /\ Len(o) \in Nat /\ DOMAIN o = 1 .. Len(o) /\ DOMAIN o \subseteq Tokens
           /\ \A t \in DOMAIN o : o[t] \in Members \cup {Market, Treasury}
  <1>1. Len(o) \in Nat /\ DOMAIN o = 1 .. Len(o) /\ Len(o) <= MaxTokens
    BY DEF OwnerType
  <1>2. \A t \in 1 .. Len(o) : o[t] \in Members \cup {Market, Treasury}
    BY ElementOfSeq DEF OwnerType
  <1> QED BY <1>1, <1>2, MarketplaceAssumption DEF Tokens

\* What the code reserves, as the sums over the slots.
LEMMA ReservedIs == Reserved = SumOf(slots) /\ \A p : Unstocked(p) = SumFor(slots, p)
  BY DEF Reserved, Unstocked, SumFunction, ToMint, SlotOf, SumOf, SumFor, Amounts

\* What the invariant says of the whole, in the words of the properties.
LEMMA InvariantGives == ASSUME IInv PROVE MarketInv /\ RateHolds
  <1>1. PoolTypes(pools, slots, stock, bought, sales) /\ PoolsGood(pools, slots, stock, sales, now)
    BY DEF IInv, PoolsInv
  <1>2. TypeOK
    <2>1. /\ pools \in Seq(Pool)
          /\ stock \in Seq(Seq(Page)) /\ Len(stock) = Len(pools)
          /\ bought \in Seq([Members -> Nat]) /\ Len(bought) = Len(pools)
          /\ sales \in Seq(Seq(Nat)) /\ Len(sales) = Len(pools)
          /\ Len(slots) <= MaxOpenPools
          /\ \A i \in DOMAIN slots : slots[i].pool \in DOMAIN pools
      BY <1>1 DEF PoolTypes
    <2>2. slots \in Seq(Slot) /\ \A i, j \in DOMAIN slots : slots[i].pool = slots[j].pool => i = j
      BY <1>1 DEF PoolTypes, Slots
    <2>3. /\ now \in Nat /\ config \in Config /\ allowance \in Nat /\ lowered \in BOOLEAN
          /\ listings \in [Tokens -> Listing \cup {NoListing}] /\ OwnerType(owner)
      BY DEF IInv, CustodyInv, AllowanceInv
    <2> HIDE DEF Listing, Pool, Page
    <2> QED BY <2>1, <2>2, <2>3 DEF TypeOK, Slot, Config, OwnerType
  <1>3. CustodyExact
    <2>1. Exact(owner, listings, stock) /\ DOMAIN owner \subseteq Tokens /\ stock \in Seq(Seq(Page))
      BY <1>1, OwnerIs DEF IInv, CustodyInv, PoolTypes
    <2>2. /\ {t \in DOMAIN owner : owner[t] = Market} =
              {t \in Tokens : listings[t] # NoListing} \cup UNION {OnPages(stock[p]) : p \in DOMAIN stock}
          /\ \A p \in DOMAIN stock :
                /\ \A t \in OnPages(stock[p]) : listings[t] = NoListing
                /\ \A q \in DOMAIN stock \ {p} : OnPages(stock[p]) \cap OnPages(stock[q]) = {}
                /\ OnceEach(stock[p])
      BY <2>1, ExactIs
    <2> QED BY <2>2, Zenon DEF CustodyExact, Ids
  <1>4. PoolsAddUp
    <2>1. \A p \in DOMAIN pools : AddsUp(pools[p], stock[p], SumFor(slots, p))
      BY <1>1 DEF PoolsGood, Good
    <2> QED BY <2>1, ReservedIs DEF PoolsAddUp, AddsUp, Ids
  <1>5. ReservationsCovered
    BY ReservedIs DEF ReservationsCovered, IInv, AllowanceInv
  <1>6. RateHolds
    <2>1. \A p \in DOMAIN pools :
            StretchesHold(sales[p], pools[p].terms.period, pools[p].terms.perPeriod)
      BY <1>1 DEF PoolsGood, Good
    <2> QED BY <2>1 DEF RateHolds, StretchesHold, Stretch
  <1> QED BY <1>2, <1>3, <1>4, <1>5, <1>6 DEF MarketInv, IInv, TermsInv

\* One pool is replaced, with its pages, its slot and its sales.
LEMMA OneGoodPool ==
    ASSUME NEW ps, NEW ss, NEW st, NEW sa, NEW t, PoolsGood(ps, ss, st, sa, t),
           NEW p \in DOMAIN ps, NEW ps2, NEW ss2, NEW st2, NEW sa2,
           DOMAIN ps2 = DOMAIN ps,
           \A q \in DOMAIN ps : q # p =>
                ps2[q] = ps[q] /\ st2[q] = st[q] /\ sa2[q] = sa[q] /\ SumFor(ss2, q) = SumFor(ss, q),
           Good(ps2[p], st2[p], SumFor(ss2, p), sa2[p], t)
    PROVE  PoolsGood(ps2, ss2, st2, sa2, t)
  BY DEF PoolsGood

\* The invariant holds at first.
LEMMA InvFirst == ASSUME Init PROVE IInv
  <1>1. now \in Nat /\ config \in Config
    <2>1. now = 0 /\ config \in [paused : {FALSE}, fee : {0}, asset : Assets]
      BY DEF Init
    <2>2. 0 \in 0 .. MaxFee /\ FALSE \in BOOLEAN
      BY MarketplaceAssumption
    <2> QED BY <2>1, <2>2 DEF Config
  <1>2. PoolsInv
    <2>1. <<>> \in Slots /\ Len(<<>>) = 0
      <3> DEFINE c == <<>>
      <3>1. c \in Seq(Slot) /\ DOMAIN c = {}
        OBVIOUS
      <3> HIDE DEF c
      <3>2. c \in Slots
        BY <3>1, InSlots
      <3> QED BY <3>2 DEF c
    <2>2. /\ <<>> \in Seq(Pool) /\ <<>> \in Seq(Seq(Page)) /\ <<>> \in Seq([Members -> Nat])
          /\ <<>> \in Seq(Seq(Nat)) /\ Len(<<>>) = 0 /\ DOMAIN <<>> = {}
      OBVIOUS
    <2>3. pools = <<>> /\ slots = <<>> /\ stock = <<>> /\ bought = <<>> /\ sales = <<>>
      BY DEF Init
    <2>4. 0 <= MaxOpenPools
      BY MarketplaceAssumption
    <2> QED BY <2>1, <2>2, <2>3, <2>4 DEF PoolsInv, PoolTypes, PoolsGood
  <1>3. CustodyInv
    <2>1. owner \in [1 .. FirstTokens -> Members] /\ FirstTokens \in Nat /\ FirstTokens <= MaxTokens
      BY MarketplaceAssumption DEF Init
    <2>2. owner \in Seq(Members \cup {Market, Treasury}) /\ Len(owner) = FirstTokens
      BY <2>1
    <2>3. OwnerType(owner)
      BY <2>1, <2>2 DEF OwnerType
    <2>4. listings = [t \in Tokens |-> NoListing] /\ stock = <<>>
      BY DEF Init
    <2>5. \A t \in Tokens : ~Held(owner, t) /\ listings[t] = NoListing
      BY <2>1, <2>4, MarketplaceAssumption DEF Held
    <2>6. DOMAIN stock = {}
      BY <2>4
    <2>7. Exact(owner, listings, stock)
      BY <2>5, <2>6 DEF Exact, InStock
    <2>8. listings \in [Tokens -> Listing \cup {NoListing}]
      BY <2>4
    <2> QED BY <2>3, <2>7, <2>8 DEF CustodyInv
  <1>4. TermsInv
    <2>1. NoListing.signed.fee = 0 /\ NoListing.signed = [fee |-> 0, asset |-> None]
      BY DEF NoListing
    <2> QED BY <2>1 DEF Init, TermsInv, ChargedAsSigned
  <1>5. AllowanceInv
    <2>1. slots = <<>> /\ allowance = 0 /\ lowered = FALSE
      BY DEF Init
    <2>2. SumOf(<<>>) = 0
      BY SumStep DEF SumOf
    <2>3. SumOf(slots) = 0
      BY <2>1, <2>2
    <2>4. allowance \in Nat /\ SumOf(slots) <= allowance
      <3> HIDE DEF SumOf
      <3> QED BY <2>1, <2>3
    <2>5. lowered \in BOOLEAN
      BY <2>1
    <2> QED BY <2>4, <2>5, Zenon DEF AllowanceInv
  <1> QED BY <1>1, <1>2, <1>3, <1>4, <1>5 DEF IInv
-----------------------------------------------------------------------------
(* Every step keeps it: pools.                                             *)

\* What the steps that leave pools alone keep of them.
LEMMA PoolsSame ==
    ASSUME PoolsInv, UNCHANGED <<now, poolVars>>
    PROVE  PoolsInv'
  BY DEF PoolsInv, poolVars

\* Tokens that are neither listed nor on a page are not held.
LEMMA FreshIds ==
    ASSUME CustodyInv, NEW t \in Tokens, t > Len(owner)
    PROVE  ~Held(owner, t)
  BY OwnerIs DEF CustodyInv, Held

\* s with e in the place i.
Put(S, r, s, i, e) ==
    /\ r \in Seq(S) /\ Len(r) = Len(s) /\ DOMAIN r = DOMAIN s /\ r[i] = e
    /\ \A j \in DOMAIN s : j # i => r[j] = s[j]

\* One entry of a sequence replaced.
LEMMA PutIs ==
    ASSUME NEW S, NEW s \in Seq(S), NEW i \in DOMAIN s, NEW e \in S,
           NEW r, r = [s EXCEPT ![i] = e]
    PROVE  Put(S, r, s, i, e)
  BY Changed DEF Put

\* An entry replaced by itself.
LEMMA PutSame == ASSUME NEW S, NEW s \in Seq(S), NEW i \in DOMAIN s PROVE Put(S, s, s, i, s[i])
  BY DEF Put

\* Slots of which at most the one of pool p changed.
SlotsKept(r, s, p) ==
    /\ r \in Slots /\ Len(r) <= Len(s)
    /\ \A j \in DOMAIN r : \E k \in DOMAIN s : r[j].pool = s[k].pool
    /\ \A q : q # p => SumFor(r, q) = SumFor(s, q)

\* A step about one pool need only be looked at for that one.
LEMMA OneChange ==
    ASSUME NEW ps, NEW ss, NEW st, NEW b, NEW sa, NEW t,
           PoolTypes(ps, ss, st, b, sa), PoolsGood(ps, ss, st, sa, t),
           NEW ps2, NEW ss2, NEW st2, NEW b2, NEW sa2,
           NEW p \in DOMAIN ps, NEW pool, NEW pages, NEW f, NEW s,
           Put(Pool, ps2, ps, p, pool), Put(Seq(Page), st2, st, p, pages),
           Put([Members -> Nat], b2, b, p, f), Put(Seq(Nat), sa2, sa, p, s),
           SlotsKept(ss2, ss, p),
           Good(pool, pages, SumFor(ss2, p), s, t)
    PROVE  PoolTypes(ps2, ss2, st2, b2, sa2) /\ PoolsGood(ps2, ss2, st2, sa2, t)
  <1>1. /\ DOMAIN st = DOMAIN ps /\ DOMAIN b = DOMAIN ps /\ DOMAIN sa = DOMAIN ps
        /\ Len(st) = Len(ps) /\ Len(b) = Len(ps) /\ Len(sa) = Len(ps)
        /\ Len(ss) <= MaxOpenPools /\ Len(ss) \in Nat
        /\ \A k \in DOMAIN ss : ss[k].pool \in DOMAIN ps
    BY PoolTypesAre, SlotsAre DEF PoolTypes
  <1>2. /\ ps2 \in Seq(Pool) /\ Len(ps2) = Len(ps) /\ DOMAIN ps2 = DOMAIN ps /\ ps2[p] = pool
        /\ \A j \in DOMAIN ps : j # p => ps2[j] = ps[j]
    BY DEF Put
  <1>3. /\ st2 \in Seq(Seq(Page)) /\ Len(st2) = Len(ps) /\ st2[p] = pages
        /\ \A j \in DOMAIN ps : j # p => st2[j] = st[j]
    BY <1>1 DEF Put
  <1>4. b2 \in Seq([Members -> Nat]) /\ Len(b2) = Len(ps)
    BY <1>1 DEF Put
  <1>5. /\ sa2 \in Seq(Seq(Nat)) /\ Len(sa2) = Len(ps) /\ sa2[p] = s
        /\ \A j \in DOMAIN ps : j # p => sa2[j] = sa[j]
    BY <1>1 DEF Put
  <1>6. /\ ss2 \in Slots /\ Len(ss2) <= Len(ss)
        /\ \A j \in DOMAIN ss2 : \E k \in DOMAIN ss : ss2[j].pool = ss[k].pool
        /\ \A q : q # p => SumFor(ss2, q) = SumFor(ss, q)
    BY DEF SlotsKept
  <1>7. Len(ss2) <= MaxOpenPools /\ \A j \in DOMAIN ss2 : ss2[j].pool \in DOMAIN ps
    <2>1. Len(ss2) \in Nat /\ MaxOpenPools \in Nat
      BY <1>6, SlotsAre, MarketplaceAssumption
    <2>2. ASSUME NEW j \in DOMAIN ss2 PROVE ss2[j].pool \in DOMAIN ps
      <3>1. PICK k \in DOMAIN ss : ss2[j].pool = ss[k].pool
        BY <1>6
      <3> QED BY <1>1, <3>1
    <2>3. Len(ss2) <= MaxOpenPools
      <3>1. Len(ss2) <= Len(ss) /\ Len(ss) <= MaxOpenPools /\ Len(ss) \in Nat
        BY <1>1, <1>6
      <3> QED BY <2>1, <3>1
    <2> QED BY <2>2, <2>3
  <1>8. PoolTypes(ps2, ss2, st2, b2, sa2)
    BY <1>2, <1>3, <1>4, <1>5, <1>6, <1>7 DEF PoolTypes
  <1>9. ASSUME NEW q \in DOMAIN ps2 PROVE Good(ps2[q], st2[q], SumFor(ss2, q), sa2[q], t)
    <2>1. CASE q = p
      BY <1>2, <1>3, <1>5, <2>1
    <2>2. CASE q # p
      BY <1>2, <1>3, <1>5, <1>6, <2>2 DEF PoolsGood
    <2> QED BY <2>1, <2>2
  <1> QED BY <1>8, <1>9 DEF PoolsGood

\* Ids that leave custody, and ids that enter it.
Swap(o, o2, Out, In) ==
    /\ \A t \in In : ~Held(o, t)
    /\ \A t \in Tokens : Held(o2, t) <=> (Held(o, t) /\ t \notin Out) \/ t \in In

\* Custody stays exact when what leaves and enters the pages leaves and enters the market.
LEMMA CustodyMoves ==
    ASSUME NEW o, NEW l, NEW st \in Seq(Seq(Page)), Exact(o, l, st),
           NEW p \in DOMAIN st, NEW pages \in Seq(Page), OnceEach(pages),
           NEW r, Put(Seq(Page), r, st, p, pages),
           NEW Out \in SUBSET OnPages(st[p]), NEW In \in SUBSET Tokens,
           OnPages(pages) = (OnPages(st[p]) \ Out) \cup In,
           NEW o2, Swap(o, o2, Out, In)
    PROVE  Exact(o2, l, r)
  <1>1. r = [st EXCEPT ![p] = pages]
    <2>1. DOMAIN st = 1 .. Len(st) /\ Len(st) \in Nat
      OBVIOUS
    <2> DEFINE z == [st EXCEPT ![p] = pages]
    <2>2. Put(Seq(Page), z, st, p, pages)
      BY PutIs
    <2> HIDE DEF z
    <2>3. r \in Seq(Seq(Page)) /\ z \in Seq(Seq(Page)) /\ Len(r) = Len(z) /\ Len(r) = Len(st)
          /\ \A j \in 1 .. Len(r) : r[j] = z[j]
      BY <2>1, <2>2 DEF Put
    <2>4. r = z
      BY <2>3, SeqEqual
    <2> QED BY <2>4 DEF z
  <1>2. /\ \A t \in In : ~Held(o, t)
        /\ \A t \in Tokens : Held(o2, t) <=> (Held(o, t) /\ t \notin Out) \/ t \in In
    BY DEF Swap
  <1> QED BY <1>1, <1>2, OnePoolChanges

\* Opening a pool reserves its whole size.
LEMMA OpenPoolKeeps ==
    ASSUME IInv, NEW t \in Offers, OpenPool(t)
    PROVE  IInv'
  <1> DEFINE n == Len(pools) + 1
             new == [terms |-> t, expires |-> t.expires, stocked |-> 0, sold |-> 0,
                     start |-> now, inPeriod |-> 0, closed |-> FALSE]
             none == [m \in Members |-> 0]
             e == <<>>
  <1>1. PoolTypes(pools, slots, stock, bought, sales) /\ PoolsGood(pools, slots, stock, sales, now)
    BY DEF IInv, PoolsInv
  <1>2. now \in Nat /\ t \in Terms /\ t.size \in Nat /\ t.expires \in Nat
    BY MarketplaceAssumption DEF IInv, Terms
  <1>3. /\ pools' = Append(pools, new)
        /\ slots' = Append(slots, [pool |-> n, unstocked |-> t.size])
        /\ stock' = Append(stock, e) /\ bought' = Append(bought, none)
        /\ sales' = Append(sales, e)
        /\ Len(slots) < MaxOpenPools /\ allowance - Reserved >= t.size
        /\ UNCHANGED <<now, config, listVars, tokenVars>>
    BY DEF OpenPool
  <1>4. new \in Pool /\ new.stocked = 0 /\ new.sold = 0 /\ new.closed = FALSE /\ new.start = now
        /\ new.inPeriod = 0 /\ new.terms = t
    BY <1>2 DEF Pool
  <1>5. none \in [Members -> Nat] /\ e \in Seq(Page) /\ e \in Seq(Nat)
    OBVIOUS
  <1>6. /\ Len(pools) \in Nat /\ DOMAIN pools = 1 .. Len(pools)
        /\ DOMAIN stock = DOMAIN pools /\ DOMAIN bought = DOMAIN pools /\ DOMAIN sales = DOMAIN pools
        /\ Len(stock) = Len(pools) /\ Len(bought) = Len(pools) /\ Len(sales) = Len(pools)
        /\ slots \in Slots /\ \A i \in DOMAIN slots : slots[i].pool \in DOMAIN pools
        /\ pools \in Seq(Pool) /\ stock \in Seq(Seq(Page)) /\ bought \in Seq([Members -> Nat])
        /\ sales \in Seq(Seq(Nat))
    BY <1>1, PoolTypesAre DEF PoolTypes
  <1>7. e = <<>>
    OBVIOUS
  <1> HIDE DEF new, none, e
  <1>8. /\ pools' \in Seq(Pool) /\ Len(pools') = n /\ pools'[n] = new
        /\ DOMAIN pools' = (DOMAIN pools) \cup {n} /\ n \notin DOMAIN pools
        /\ \A q \in DOMAIN pools : pools'[q] = pools[q]
    BY <1>3, <1>4, <1>6, Appended
  <1>9. /\ stock' \in Seq(Seq(Page)) /\ Len(stock') = n /\ stock'[n] = e
        /\ \A q \in DOMAIN pools : stock'[q] = stock[q]
    BY <1>3, <1>5, <1>6, Appended
  <1>10. bought' \in Seq([Members -> Nat]) /\ Len(bought') = n
    BY <1>3, <1>5, <1>6, Appended
  <1>11. /\ sales' \in Seq(Seq(Nat)) /\ Len(sales') = n /\ sales'[n] = e
         /\ \A q \in DOMAIN pools : sales'[q] = sales[q]
    BY <1>3, <1>5, <1>6, Appended
  <1>12. n \in Nat /\ \A i \in DOMAIN slots : slots[i].pool # n
    BY <1>6, <1>8
  <1>13. /\ slots' \in Slots /\ Len(slots') = Len(slots) + 1
         /\ SumOf(slots') = SumOf(slots) + t.size
         /\ SumFor(slots', n) = t.size
         /\ \A p : p # n => SumFor(slots', p) = SumFor(slots, p)
    <2> DEFINE x == [pool |-> n, unstocked |-> t.size]
    <2>1. x \in Slot /\ x.pool = n /\ x.unstocked = t.size
      BY <1>2, <1>12 DEF Slot
    <2>2. slots' = Append(slots, x)
      BY <1>3
    <2> HIDE DEF x, n
    <2>3. NoSlotOf(slots, x.pool) /\ slots \in Slots
      BY <1>6, <1>12, <2>1 DEF NoSlotOf
    <2>4. SlotAlso(slots', slots, x)
      BY <2>1, <2>2, <2>3, SlotAdded
    <2> QED BY <2>1, <2>4 DEF SlotAlso
  <1>14. \A i \in DOMAIN slots' : slots'[i].pool \in DOMAIN pools'
    <2> DEFINE x == [pool |-> n, unstocked |-> t.size]
    <2>1. x \in Slot /\ x.pool = n
      BY <1>2, <1>12 DEF Slot
    <2> HIDE DEF x
    <2>2. slots' = Append(slots, x) /\ slots \in Seq(Slot)
      BY <1>3, <1>6, SlotsAre DEF x
    <2>3. /\ slots'[Len(slots) + 1] = x /\ DOMAIN slots' = (DOMAIN slots) \cup {Len(slots) + 1}
          /\ \A i \in DOMAIN slots : slots'[i] = slots[i]
      BY <2>1, <2>2, Appended
    <2> QED BY <1>6, <1>8, <2>1, <2>3
  <1>15. PoolTypes(pools', slots', stock', bought', sales')
    <2>1. Len(slots') <= MaxOpenPools
      <3>1. Len(slots) \in Nat /\ MaxOpenPools \in Nat
        BY <1>6, SlotsAre, MarketplaceAssumption
      <3> QED BY <1>3, <1>13, <3>1
    <2> HIDE DEF n
    <2> QED BY <1>8, <1>9, <1>10, <1>11, <1>13, <1>14, <2>1 DEF PoolTypes
  <1>16. ASSUME NEW q \in DOMAIN pools'
         PROVE  Good(pools'[q], stock'[q], SumFor(slots', q), sales'[q], now)
    <2>1. CASE q = n
      <3>1. AddsUp(new, e, t.size)
        <4>1. OnPages(e) = {}
          BY <1>7, NoPages
        <4> QED BY <1>2, <1>4, <4>1, FS_EmptySet DEF AddsUp
      <3>2. RatesOf(new, e, now) /\ StretchesHold(e, new.terms.period, new.terms.perPeriod)
        BY <1>2, <1>4, <1>7, NoSales
      <3> QED BY <1>8, <1>9, <1>11, <1>13, <2>1, <3>1, <3>2 DEF Good
    <2>2. CASE q # n
      <3>1. q \in DOMAIN pools
        BY <1>8, <2>2
      <3>2. Good(pools[q], stock[q], SumFor(slots, q), sales[q], now)
        BY <1>1, <3>1 DEF PoolsGood
      <3> QED BY <1>8, <1>9, <1>11, <1>13, <2>2, <3>1, <3>2
    <2> QED BY <2>1, <2>2
  <1>17. PoolsInv'
    BY <1>3, <1>15, <1>16 DEF PoolsInv, PoolsGood
  <1>18. CustodyInv'
    <2>1. Exact(owner, listings, stock')
      BY <1>3, <1>6, <1>7, OnePoolMore DEF IInv, CustodyInv
    <2> QED BY <1>3, <2>1 DEF IInv, CustodyInv, listVars, tokenVars
  <1>19. AllowanceInv'
    <2>1. SumOf(slots) \in Nat /\ SumOf(slots) = Reserved
      BY <1>6, ReservedIs, SumOfNat
    <2>2. SumOf(slots') <= allowance
      BY <1>2, <1>3, <1>13, <2>1 DEF IInv, AllowanceInv
    <2>3. allowance' = allowance /\ lowered' = lowered /\ allowance \in Nat /\ lowered \in BOOLEAN
      BY <1>3 DEF tokenVars, IInv, AllowanceInv
    <2> QED BY <2>2, <2>3 DEF AllowanceInv
  <1> QED BY <1>3, <1>17, <1>18, <1>19 DEF IInv, TermsInv, ChargedAsSigned, listVars
\* The ids a restock mints, and the pool's counter.
NewIds(n, count) == [k \in 1 .. count |-> n + k]

\* Minted ids are the next ones, each once.
LEMMA NewIdsAre ==
    ASSUME NEW n \in Nat, NEW count \in Nat, n + count <= MaxTokens
    PROVE  /\ NewIds(n, count) \in Seq(Tokens) /\ Len(NewIds(n, count)) = count
           /\ IsInjective(NewIds(n, count))
           /\ \A t \in Range(NewIds(n, count)) : t \in Tokens /\ t > n /\ t <= n + count
           /\ \A t \in Tokens : t > n /\ t <= n + count => t \in Range(NewIds(n, count))
  <1> DEFINE ids == NewIds(n, count)
  <1>1. MaxTokens \in Nat
    BY MarketplaceAssumption
  <1>2. /\ DOMAIN ids = 1 .. count /\ \A k \in 1 .. count : ids[k] = n + k
    BY DEF NewIds
  <1>3. \A k \in 1 .. count : ids[k] \in Tokens /\ ids[k] > n /\ ids[k] <= n + count
    BY <1>1, <1>2 DEF Tokens
  <1>4. ids \in [1 .. count -> Tokens]
    BY <1>3 DEF NewIds
  <1>5. ids \in Seq(Tokens) /\ Len(ids) = count
    BY <1>2, <1>4
  <1>6. IsInjective(ids)
    BY <1>2 DEF IsInjective
  <1>7. \A t \in Range(ids) : t \in Tokens /\ t > n /\ t <= n + count
    BY <1>2, <1>3 DEF Range
  <1>8. ASSUME NEW t \in Tokens, t > n, t <= n + count PROVE t \in Range(ids)
    <2>1. t - n \in 1 .. count /\ n + (t - n) = t
      BY <1>8 DEF Tokens
    <2>2. ids[t - n] = t
      BY <1>2, <2>1
    <2> QED BY <1>2, <2>1, <2>2 DEF Range
  <1> QED BY <1>5, <1>6, <1>7, <1>8

\* Tokens minted to the Marketplace.
LEMMA Minted ==
    ASSUME NEW o, OwnerType(o), NEW count \in Nat, Len(o) + count <= MaxTokens,
           NEW o2, o2 = o \o [k \in 1 .. count |-> Market]
    PROVE  OwnerType(o2) /\ Swap(o, o2, {}, Range(NewIds(Len(o), count)))
  <1> DEFINE m == Len(o)
             e == [k \in 1 .. count |-> Market]
             R == Members \cup {Market, Treasury}
  <1>1. m \in Nat /\ DOMAIN o = 1 .. m /\ o \in Seq(R)
    BY OwnerIs DEF OwnerType
  <1>2. e \in Seq(R) /\ Len(e) = count /\ \A k \in 1 .. count : e[k] = Market
    OBVIOUS
  <1>3. MaxTokens \in Nat /\ m + count <= MaxTokens
    BY MarketplaceAssumption
  <1>4. o2 = o \o e
    OBVIOUS
  <1>5. /\ \A t \in Range(NewIds(m, count)) : t \in Tokens /\ t > m /\ t <= m + count
        /\ \A t \in Tokens : t > m /\ t <= m + count => t \in Range(NewIds(m, count))
    BY <1>1, <1>3, NewIdsAre
  <1> HIDE DEF e, m, R
  <1>6. /\ o2 \in Seq(R) /\ Len(o2) = m + count /\ DOMAIN o2 = 1 .. m + count
        /\ \A t \in 1 .. m + count : o2[t] = IF t <= m THEN o[t] ELSE e[t - m]
    <2> DEFINE z == o \o e
    <2>1. z \in Seq(R) /\ Len(z) = Len(o) + Len(e)
          /\ \A t \in 1 .. Len(o) + Len(e) : z[t] = IF t <= Len(o) THEN o[t] ELSE e[t - Len(o)]
      BY <1>1, <1>2, ConcatProperties
    <2> HIDE DEF z
    <2>2. DOMAIN z = 1 .. Len(z)
      BY <2>1
    <2>3. o2 = z
      BY <1>4 DEF z
    <2> QED BY <1>2, <2>1, <2>2, <2>3 DEF m
  <1>7. OwnerType(o2)
    BY <1>3, <1>6 DEF OwnerType, R
  <1>8. \A t \in Range(NewIds(m, count)) : ~Held(o, t)
    BY <1>1, <1>5 DEF Held
  <1>9. ASSUME NEW t \in Tokens
        PROVE  Held(o2, t) <=> (Held(o, t) /\ t \notin {}) \/ t \in Range(NewIds(m, count))
    <2>1. t \in Nat /\ t >= 1
      BY <1>3 DEF Tokens
    <2>2. CASE t <= m
      <3>1. t \in 1 .. m /\ t \in 1 .. m + count /\ o2[t] = o[t] /\ t \notin Range(NewIds(m, count))
        BY <1>1, <1>5, <1>6, <2>1, <2>2
      <3> QED BY <1>1, <1>6, <3>1 DEF Held
    <2>3. CASE t > m /\ t <= m + count
      <3>1. t \in 1 .. m + count /\ t - m \in 1 .. count /\ ~(t <= m)
        BY <1>1, <2>1, <2>3
      <3>2. o2[t] = Market
        BY <1>2, <1>6, <3>1
      <3> QED BY <1>5, <1>6, <2>3, <3>1, <3>2 DEF Held
    <2>4. CASE t > m + count
      <3>1. t \notin 1 .. m /\ t \notin 1 .. m + count /\ ~ (t <= m + count)
        BY <1>1, <2>1, <2>4
      <3> QED BY <1>1, <1>5, <1>6, <3>1 DEF Held
    <2> QED BY <1>1, <2>1, <2>2, <2>3, <2>4
  <1> QED BY <1>7, <1>8, <1>9 DEF Swap, m

\* The smaller of two numbers.
LEMMA SmallerIs ==
    ASSUME NEW a \in Nat, NEW b \in Nat
    PROVE  SmallerOf(a, b) \in Nat /\ SmallerOf(a, b) <= a /\ SmallerOf(a, b) <= b
  BY DEF SmallerOf

\* What the invariant says of one pool.
LEMMA OnePool ==
    ASSUME PoolsInv, NEW p \in DOMAIN pools
    PROVE  /\ pools \in Seq(Pool) /\ stock \in Seq(Seq(Page))
           /\ bought \in Seq([Members -> Nat]) /\ sales \in Seq(Seq(Nat)) /\ slots \in Slots
           /\ p \in DOMAIN stock /\ p \in DOMAIN bought /\ p \in DOMAIN sales
           /\ pools[p] \in Pool /\ stock[p] \in Seq(Page) /\ bought[p] \in [Members -> Nat]
           /\ sales[p] \in Seq(Nat)
           /\ pools[p].stocked \in Nat /\ pools[p].sold \in Nat /\ pools[p].closed \in BOOLEAN
           /\ Good(pools[p], stock[p], SumFor(slots, p), sales[p], now)
  <1>1. /\ pools \in Seq(Pool) /\ stock \in Seq(Seq(Page))
        /\ bought \in Seq([Members -> Nat]) /\ sales \in Seq(Seq(Nat)) /\ slots \in Slots
    BY DEF PoolsInv, PoolTypes
  <1>2. /\ p \in DOMAIN stock /\ p \in DOMAIN bought /\ p \in DOMAIN sales
        /\ pools[p] \in Pool /\ stock[p] \in Seq(Page) /\ bought[p] \in [Members -> Nat]
        /\ sales[p] \in Seq(Nat)
    <2>1. PoolTypes(pools, slots, stock, bought, sales)
      BY DEF PoolsInv
    <2> QED BY <2>1, PoolTypesAre
  <1>3. Good(pools[p], stock[p], SumFor(slots, p), sales[p], now)
    BY DEF PoolsInv, PoolsGood
  <1> QED BY <1>1, <1>2, <1>3, PoolIs

\* A pool gets stock, or is closed.
LEMMA PoolWith ==
    ASSUME NEW pool \in Pool, NEW n \in Nat, NEW c \in BOOLEAN
    PROVE  /\ [pool EXCEPT !.stocked = n] \in Pool
           /\ [pool EXCEPT !.stocked = n] =
                [terms |-> pool.terms, expires |-> pool.expires, stocked |-> n, sold |-> pool.sold,
                 start |-> pool.start, inPeriod |-> pool.inPeriod, closed |-> pool.closed]
           /\ [pool EXCEPT !.closed = c] \in Pool
           /\ [pool EXCEPT !.closed = c] =
                [terms |-> pool.terms, expires |-> pool.expires, stocked |-> pool.stocked,
                 sold |-> pool.sold, start |-> pool.start, inPeriod |-> pool.inPeriod, closed |-> c]
  BY DEF Pool

\* More ids on pages.
LEMMA CountMore ==
    ASSUME NEW pages \in Seq(Page), NEW ids \in Seq(Tokens), IsInjective(ids),
           OnPages(pages) \cap Range(ids) = {}
    PROVE  Cardinality(OnPages(pages) \cup Range(ids)) = Cardinality(OnPages(pages)) + Len(ids)
  <1> DEFINE A == OnPages(pages)
             B == Range(ids)
  <1>1. IsFiniteSet(A) /\ Cardinality(A) \in Nat
    BY CountIds
  <1>2. IsFiniteSet(B) /\ Cardinality(B) = Len(ids) /\ Len(ids) \in Nat
    BY PageSizeIs
  <1>3. A \cap B = {}
    OBVIOUS
  <1> HIDE DEF A, B
  <1>4. Cardinality(A \cup B) = Cardinality(A) + Cardinality(B) - Cardinality(A \cap B)
    BY <1>1, <1>2, FS_Union
  <1>5. Cardinality(A \cap B) = 0
    BY <1>3, FS_EmptySet
  <1>6. Cardinality(A \cup B) = Cardinality(A) + Len(ids)
    BY <1>1, <1>2, <1>4, <1>5
  <1> QED BY <1>6 DEF A, B
\* A restock mints what the slot had reserved, onto the pages, filled one after the other.
LEMMA RestockKeeps ==
    ASSUME IInv, NEW i \in DOMAIN slots, Restock(i)
    PROVE  IInv'
  <1> DEFINE p == slots[i].pool
             u == slots[i].unstocked
             count == SmallerOf(u, MaxRestock)
             n == Len(owner)
             ids == NewIds(n, count)
             pages == Stocked(stock[p], ids)
             pool == [pools[p] EXCEPT !.stocked = pools[p].stocked + count]
             a == u - count
  <1>1. PoolTypes(pools, slots, stock, bought, sales) /\ PoolsGood(pools, slots, stock, sales, now)
    BY DEF IInv, PoolsInv
  <1>2. OwnerType(owner) /\ Exact(owner, listings, stock)
    BY DEF IInv, CustodyInv
  <1>3. /\ slots \in Slots /\ p \in DOMAIN pools /\ u \in Nat
        /\ pools \in Seq(Pool) /\ stock \in Seq(Seq(Page)) /\ bought \in Seq([Members -> Nat])
        /\ sales \in Seq(Seq(Nat))
        /\ p \in DOMAIN stock /\ p \in DOMAIN bought /\ p \in DOMAIN sales
        /\ pools[p] \in Pool /\ stock[p] \in Seq(Page) /\ sales[p] \in Seq(Nat)
        /\ pools[p].stocked \in Nat /\ pools[p].sold \in Nat
        /\ Good(pools[p], stock[p], SumFor(slots, p), sales[p], now)
    <2>1. p \in DOMAIN pools /\ slots \in Slots
      BY <1>1 DEF PoolTypes
    <2>2. u \in Nat
      BY <2>1, SlotsAre
    <2>3. PoolsInv
      BY DEF IInv
    <2> HIDE DEF p, u
    <2> QED BY <2>1, <2>2, <2>3, OnePool
  <1>4. count \in Nat /\ count <= u /\ a \in Nat /\ n \in Nat
    <2>1. MaxRestock \in Nat
      BY MarketplaceAssumption
    <2>2. count \in Nat /\ count <= u
      <3> HIDE DEF u
      <3> QED BY <1>3, <2>1, SmallerIs
    <2> HIDE DEF count
    <2> QED BY <1>2, <1>3, <2>2, OwnerIs
  <1>5. /\ IsOpen(p) /\ n + count <= MaxTokens /\ count <= allowance
        /\ owner' = owner \o [k \in 1 .. count |-> Market]
        /\ allowance' = allowance - count
        /\ stock' = [stock EXCEPT ![p] = pages]
        /\ slots' = [slots EXCEPT ![i].unstocked = a]
        /\ pools' = [pools EXCEPT ![p] = pool]
        /\ UNCHANGED <<now, config, listVars, bought, sales, lowered>>
    BY DEF Restock, NewIds
  <1> HIDE DEF count, ids, pages, pool
  <1>6. ids \in Seq(Tokens) /\ Len(ids) = count /\ IsInjective(ids)
        /\ \A t \in Range(ids) : t \in Tokens /\ t > n
    BY <1>4, <1>5, NewIdsAre DEF ids
  <1>7. OwnerType(owner') /\ Swap(owner, owner', {}, Range(ids))
    BY <1>2, <1>4, <1>5, Minted DEF ids
  <1>8. OnceEach(stock[p]) /\ OnPages(stock[p]) \cap Range(ids) = {}
    <2>1. OnceEach(stock[p])
      BY <1>2, <1>3 DEF Exact
    <2>2. \A t \in Range(ids) : ~Held(owner, t)
      BY <1>7 DEF Swap
    <2>3. \A t \in OnPages(stock[p]) : InStock(stock, t)
      BY <1>3 DEF InStock
    <2>4. \A t \in Range(ids) : ~InStock(stock, t)
      BY <1>2, <1>6, <2>2 DEF Exact
    <2> QED BY <2>1, <2>3, <2>4
  <1>9. /\ pages \in Seq(Page) /\ OnceEach(pages)
        /\ OnPages(pages) = OnPages(stock[p]) \cup Range(ids)
    BY <1>3, <1>6, <1>8, StockedAddsIds DEF pages
  <1>10. Cardinality(OnPages(pages)) = Cardinality(OnPages(stock[p])) + count
         /\ Cardinality(OnPages(stock[p])) \in Nat
    BY <1>3, <1>6, <1>8, <1>9, CountMore, CountIds
  <1>11. SlotNow(slots', slots, i, a)
    <2> HIDE DEF a
    <2> QED BY <1>3, <1>4, <1>5, SlotChanged
  <1>12. /\ pool \in Pool /\ pool.stocked = pools[p].stocked + count /\ pool.sold = pools[p].sold
         /\ pool.terms = pools[p].terms /\ pool.closed = pools[p].closed
         /\ pool.start = pools[p].start /\ pool.inPeriod = pools[p].inPeriod
    <2> DEFINE k == pools[p].stocked + count
    <2>1. k \in Nat
      <3> HIDE DEF p
      <3>1. pools[p].stocked \in Nat /\ count \in Nat
        BY <1>3, <1>4
      <3> QED BY <3>1
    <2> HIDE DEF k
    <2>2. /\ [pools[p] EXCEPT !.stocked = k] \in Pool
          /\ [pools[p] EXCEPT !.stocked = k] =
                [terms |-> pools[p].terms, expires |-> pools[p].expires, stocked |-> k,
                 sold |-> pools[p].sold, start |-> pools[p].start,
                 inPeriod |-> pools[p].inPeriod, closed |-> pools[p].closed]
      BY <1>3, <2>1, PoolWith
    <2>3. pool = [pools[p] EXCEPT !.stocked = k]
      BY DEF pool, k
    <2> QED BY <2>2, <2>3 DEF k
  <1>13. SumFor(slots, p) = u /\ SumFor(slots', p) = a
    BY <1>3, <1>11, SumForAt DEF SlotNow
  <1>14. Good(pools[p], stock[p], u, sales[p], now)
    BY <1>3, <1>13
  <1>15. Good(pool, pages, SumFor(slots', p), sales[p], now)
    <2>1. AddsUp(pool, pages, a)
      <3>1. ~pools[p].closed
        BY <1>5 DEF IsOpen
      <3>2. Cardinality(OnPages(stock[p])) = pools[p].stocked - pools[p].sold
            /\ pools[p].stocked + u = pools[p].terms.size
        BY <1>14, <3>1 DEF Good, AddsUp
      <3>3. pools[p].stocked \in Nat /\ pools[p].sold \in Nat
        BY <1>3
      <3>4. Cardinality(OnPages(pages)) = pool.stocked - pool.sold
        BY <1>4, <1>10, <1>12, <3>2, <3>3
      <3>5. pool.stocked + a = pool.terms.size
        <4>1. (pools[p].stocked + count) + a = pools[p].stocked + u
          <5> DEFINE x == pools[p].stocked
          <5>1. x \in Nat /\ u \in Nat /\ count \in Nat /\ a = u - count
            BY <1>3, <1>4
          <5> HIDE DEF u, x, a
          <5>2. (x + count) + a = x + u
            BY <5>1
          <5> QED BY <5>2 DEF x
        <4> QED BY <1>12, <3>2, <4>1
      <3> QED BY <1>12, <3>1, <3>4, <3>5 DEF AddsUp
    <2>2. RatesOf(pool, sales[p], now)
      <3>1. now \in Nat /\ now <= now /\ RatesOf(pools[p], sales[p], now)
        BY <1>14 DEF IInv, Good
      <3> QED BY <1>3, <1>12, <3>1, RatesAge
    <2>3. StretchesHold(sales[p], pool.terms.period, pool.terms.perPeriod)
      BY <1>12, <1>14 DEF Good
    <2> QED BY <1>13, <2>1, <2>2, <2>3 DEF Good
  <1>16. PoolsInv'
    <2>1. Put(Pool, pools', pools, p, pool) /\ Put(Seq(Page), stock', stock, p, pages)
      BY <1>3, <1>5, <1>9, <1>12, PutIs
    <2>2. /\ Put([Members -> Nat], bought', bought, p, bought[p])
          /\ Put(Seq(Nat), sales', sales, p, sales[p])
      BY <1>3, <1>5, PutSame
    <2>3. SlotsKept(slots', slots, p)
      BY <1>11 DEF SlotNow, SlotsKept
    <2>4. /\ PoolTypes(pools', slots', stock', bought', sales')
          /\ PoolsGood(pools', slots', stock', sales', now)
      BY <1>1, <1>3, <1>15, <2>1, <2>2, <2>3, OneChange
    <2> QED BY <1>5, <2>4 DEF PoolsInv
  <1>17. CustodyInv'
    <2>1. Put(Seq(Page), stock', stock, p, pages)
      BY <1>3, <1>5, <1>9, PutIs
    <2>2. Range(ids) \in SUBSET Tokens /\ {} \in SUBSET OnPages(stock[p])
          /\ OnPages(pages) = (OnPages(stock[p]) \ {}) \cup Range(ids)
      BY <1>6, <1>9
    <2>3. Exact(owner', listings, stock')
      BY <1>2, <1>3, <1>7, <1>9, <2>1, <2>2, CustodyMoves
    <2> QED BY <1>5, <1>7, <2>3 DEF CustodyInv, IInv, listVars
  <1>18. AllowanceInv'
    <2>1. SumOf(slots') = SumOf(slots) - u + a /\ SumOf(slots) \in Nat
      BY <1>3, <1>11, SumOfNat DEF SlotNow
    <2>2. SumOf(slots') = SumOf(slots) - count
      <3> HIDE DEF u
      <3> QED BY <1>3, <1>4, <2>1
    <2>3. allowance \in Nat /\ lowered \in BOOLEAN /\ (~lowered => SumOf(slots) <= allowance)
      BY DEF IInv, AllowanceInv
    <2>4. allowance' \in Nat
      BY <1>4, <1>5, <2>3
    <2>5. ~lowered => SumOf(slots') <= allowance'
      BY <1>4, <1>5, <2>1, <2>2, <2>3
    <2> QED BY <1>5, <2>3, <2>4, <2>5 DEF AllowanceInv
  <1> QED BY <1>5, <1>16, <1>17, <1>18 DEF IInv, TermsInv, ChargedAsSigned, listVars
\* Closing a pool gives up what it had reserved, and keeps its stock.
LEMMA ClosePoolKeeps ==
    ASSUME IInv, NEW p \in DOMAIN pools, ClosePool(p)
    PROVE  IInv'
  <1> DEFINE pool == [pools[p] EXCEPT !.closed = TRUE]
  <1>1. PoolTypes(pools, slots, stock, bought, sales) /\ PoolsGood(pools, slots, stock, sales, now)
    BY DEF IInv, PoolsInv
  <1>2. /\ slots \in Slots
        /\ pools \in Seq(Pool) /\ stock \in Seq(Seq(Page)) /\ bought \in Seq([Members -> Nat])
        /\ sales \in Seq(Seq(Nat))
        /\ p \in DOMAIN stock /\ p \in DOMAIN bought /\ p \in DOMAIN sales
        /\ pools[p] \in Pool /\ stock[p] \in Seq(Page) /\ sales[p] \in Seq(Nat)
        /\ pools[p].stocked \in Nat /\ pools[p].sold \in Nat
        /\ Good(pools[p], stock[p], SumFor(slots, p), sales[p], now)
    BY OnePool DEF IInv
  <1>3. /\ ~pools[p].closed
        /\ pools' = [pools EXCEPT ![p] = pool]
        /\ allowance' = IF Released(p) >= allowance THEN 0 ELSE allowance - Released(p)
        /\ UNCHANGED <<now, config, listVars, stock, bought, sales, owner, lowered>>
    BY DEF ClosePool
  <1>4. PICK i \in SlotOf(p) :
            slots' = IF stock[p] = <<>> THEN Drop(i) ELSE [slots EXCEPT ![i].unstocked = 0]
    BY DEF ClosePool
  <1>5. i \in DOMAIN slots /\ slots[i].pool = p
    BY <1>4 DEF SlotOf
  <1> HIDE DEF pool
  <1>6. SlotNow(slots', slots, i, 0)
    <2>1. CASE stock[p] = <<>>
      <3>1. slots' = RemoveAt(slots, i)
        BY <1>4, <2>1 DEF Drop
      <3> QED BY <1>2, <1>5, <3>1, SlotDropped
    <2>2. CASE stock[p] # <<>>
      <3>1. slots' = [slots EXCEPT ![i].unstocked = 0]
        BY <1>4, <2>2
      <3>2. 0 \in Nat
        OBVIOUS
      <3> QED BY <1>2, <1>5, <3>1, <3>2, SlotChanged
    <2> QED BY <2>1, <2>2
  <1>7. SumFor(slots, p) = slots[i].unstocked /\ SumFor(slots', p) = 0
        /\ slots[i].unstocked \in Nat
    BY <1>2, <1>5, <1>6, SumForAt, SlotsAre DEF SlotNow
  <1>8. /\ pool \in Pool /\ pool.stocked = pools[p].stocked /\ pool.sold = pools[p].sold
        /\ pool.terms = pools[p].terms /\ pool.closed = TRUE
        /\ pool.start = pools[p].start /\ pool.inPeriod = pools[p].inPeriod
    <2>1. /\ [pools[p] EXCEPT !.closed = TRUE] \in Pool
          /\ [pools[p] EXCEPT !.closed = TRUE] =
                [terms |-> pools[p].terms, expires |-> pools[p].expires,
                 stocked |-> pools[p].stocked, sold |-> pools[p].sold,
                 start |-> pools[p].start, inPeriod |-> pools[p].inPeriod, closed |-> TRUE]
      BY <1>2, PoolWith
    <2> QED BY <2>1 DEF pool
  <1>9. Good(pool, stock[p], SumFor(slots', p), sales[p], now)
    <2>1. AddsUp(pool, stock[p], 0)
      <3>1. Cardinality(OnPages(stock[p])) = pools[p].stocked - pools[p].sold
        BY <1>2, <1>3 DEF Good, AddsUp
      <3>2. Cardinality(OnPages(stock[p])) \in Nat
        BY <1>2, CountIds
      <3>3. Cardinality(OnPages(stock[p])) <= pools[p].stocked - pools[p].sold
        BY <3>1, <3>2
      <3> QED BY <1>8, <3>3 DEF AddsUp
    <2>2. RatesOf(pool, sales[p], now)
      <3>1. now \in Nat /\ now <= now /\ RatesOf(pools[p], sales[p], now)
        BY <1>2 DEF IInv, Good
      <3> QED BY <1>2, <1>8, <3>1, RatesAge
    <2>3. StretchesHold(sales[p], pool.terms.period, pool.terms.perPeriod)
      BY <1>2, <1>8 DEF Good
    <2> QED BY <1>7, <2>1, <2>2, <2>3 DEF Good
  <1>10. PoolsInv'
    <2>1. Put(Pool, pools', pools, p, pool)
      BY <1>2, <1>3, <1>8, PutIs
    <2>2. /\ Put([Members -> Nat], bought', bought, p, bought[p])
          /\ Put(Seq(Nat), sales', sales, p, sales[p])
          /\ Put(Seq(Page), stock', stock, p, stock[p])
      BY <1>2, <1>3, PutSame
    <2>3. SlotsKept(slots', slots, p)
      BY <1>5, <1>6 DEF SlotNow, SlotsKept
    <2>4. /\ PoolTypes(pools', slots', stock', bought', sales')
          /\ PoolsGood(pools', slots', stock', sales', now)
      BY <1>1, <1>2, <1>9, <2>1, <2>2, <2>3, OneChange
    <2> QED BY <1>3, <2>4 DEF PoolsInv
  <1>11. CustodyInv'
    BY <1>3 DEF IInv, CustodyInv, listVars
  <1>12. AllowanceInv'
    <2> DEFINE u == slots[i].unstocked
    <2>1. SumOf(slots') = SumOf(slots) - u + 0 /\ SumOf(slots) \in Nat /\ u <= SumOf(slots)
      BY <1>2, <1>5, <1>6, SumOfNat DEF SlotNow
    <2>2. Released(p) = u /\ u \in Nat
      BY <1>7, ReservedIs DEF Released
    <2>3. allowance \in Nat /\ lowered \in BOOLEAN /\ (~lowered => SumOf(slots) <= allowance)
      BY DEF IInv, AllowanceInv
    <2> HIDE DEF u
    <2>4. allowance' \in Nat
      BY <1>3, <2>2, <2>3
    <2>5. SumOf(slots) <= allowance => SumOf(slots') <= allowance'
      BY <1>3, <2>1, <2>2, <2>3
    <2> QED BY <1>3, <2>3, <2>4, <2>5 DEF AllowanceInv
  <1> QED BY <1>3, <1>10, <1>11, <1>12 DEF IInv, TermsInv, ChargedAsSigned, listVars
\* A sweep returns the last pages' ids to the Treasury, and drops the slot of an empty pool.
LEMMA SweepPoolKeeps ==
    ASSUME IInv, NEW i \in DOMAIN slots, SweepPool(i)
    PROVE  IInv'
  <1> DEFINE p == slots[i].pool
             left == Swept(stock[p])
             gone == TakenBy(stock[p])
  <1>1. PoolTypes(pools, slots, stock, bought, sales) /\ PoolsGood(pools, slots, stock, sales, now)
    BY DEF IInv, PoolsInv
  <1>2. p \in DOMAIN pools
    BY <1>1 DEF PoolTypes
  <1>3. /\ pools[p].closed
        /\ stock' = [stock EXCEPT ![p] = left]
        /\ slots' = IF left = <<>> THEN Drop(i) ELSE slots
        /\ owner' = [id \in DOMAIN owner |-> IF id \in gone THEN Treasury ELSE owner[id]]
        /\ UNCHANGED <<now, config, listVars, pools, bought, sales, allowance, lowered>>
    BY DEF SweepPool
  <1>4. p = slots[i].pool
    OBVIOUS
  <1> HIDE DEF p
  <1>5. /\ slots \in Slots
        /\ pools \in Seq(Pool) /\ stock \in Seq(Seq(Page)) /\ bought \in Seq([Members -> Nat])
        /\ sales \in Seq(Seq(Nat))
        /\ p \in DOMAIN stock /\ p \in DOMAIN bought /\ p \in DOMAIN sales
        /\ pools[p] \in Pool /\ stock[p] \in Seq(Page)
        /\ pools[p].stocked \in Nat /\ pools[p].sold \in Nat
        /\ Good(pools[p], stock[p], SumFor(slots, p), sales[p], now)
    BY <1>2, OnePool DEF IInv
  <1>6. OwnerType(owner) /\ Exact(owner, listings, stock)
    BY DEF IInv, CustodyInv
  <1>7. OnceEach(stock[p])
    BY <1>5, <1>6 DEF Exact
  <1>8. left \in Seq(Page) /\ OnceEach(left) /\ OnPages(left) = OnPages(stock[p]) \ gone
    BY <1>5, <1>7, SweptLeavesRest
  <1>9. gone \subseteq OnPages(stock[p])
    BY <1>5, <1>7, TakenWhere
  <1>10. SumFor(slots, p) = 0 /\ slots[i].unstocked = 0
    <2>1. SumFor(slots, p) = 0
      BY <1>3, <1>5 DEF Good, AddsUp
    <2> QED BY <1>4, <1>5, <2>1, SumForAt
  <1> HIDE DEF left, gone
  <1>11. /\ SlotsKept(slots', slots, p) /\ SumFor(slots', p) = 0 /\ SumOf(slots') = SumOf(slots)
    <2>1. CASE left = <<>>
      <3>1. slots' = RemoveAt(slots, i)
        BY <1>3, <2>1 DEF Drop
      <3>2. SlotNow(slots', slots, i, 0)
        BY <1>5, <3>1, SlotDropped
      <3>3. SumOf(slots) \in Nat
        BY <1>5, SumOfNat
      <3>4. SumOf(slots') = SumOf(slots) - 0 + 0 /\ SumFor(slots', p) = 0
        BY <1>4, <1>10, <3>2 DEF SlotNow
      <3> QED BY <1>4, <3>2, <3>3, <3>4 DEF SlotNow, SlotsKept
    <2>2. CASE left # <<>>
      <3>1. slots' = slots
        BY <1>3, <2>2
      <3>2. Len(slots) \in Nat
        BY <1>5, SlotsAre
      <3> QED BY <1>5, <1>10, <3>1, <3>2 DEF SlotsKept
    <2> QED BY <2>1, <2>2
  <1>12. Good(pools[p], left, SumFor(slots', p), sales[p], now)
    <2>1. Cardinality(OnPages(left)) <= Cardinality(OnPages(stock[p]))
      <3>1. IsFiniteSet(OnPages(stock[p])) /\ OnPages(left) \subseteq OnPages(stock[p])
        BY <1>5, <1>8, CountIds
      <3> QED BY <3>1, FS_Subset
    <2>2. Cardinality(OnPages(left)) \in Nat /\ Cardinality(OnPages(stock[p])) \in Nat
      BY <1>5, <1>8, CountIds
    <2>3. Cardinality(OnPages(stock[p])) <= pools[p].stocked - pools[p].sold
      BY <1>3, <1>5 DEF Good, AddsUp
    <2>4. Cardinality(OnPages(left)) <= pools[p].stocked - pools[p].sold
      <3> DEFINE d == pools[p].stocked - pools[p].sold
      <3>1. d \in Int /\ Cardinality(OnPages(stock[p])) <= d
        BY <1>5, <2>3
      <3> HIDE DEF d
      <3>2. Cardinality(OnPages(left)) <= d
        BY <2>1, <2>2, <3>1
      <3> QED BY <3>2 DEF d
    <2>5. AddsUp(pools[p], left, 0)
      BY <1>3, <2>4 DEF AddsUp
    <2> QED BY <1>5, <1>11, <2>5 DEF Good
  <1>13. Put(Seq(Page), stock', stock, p, left)
    BY <1>3, <1>5, <1>8, PutIs
  <1>14. PoolsInv'
    <2>1. /\ Put([Members -> Nat], bought', bought, p, bought[p])
          /\ Put(Seq(Nat), sales', sales, p, sales[p])
          /\ Put(Pool, pools', pools, p, pools[p])
      BY <1>2, <1>3, <1>5, PutSame
    <2>2. SlotsKept(slots', slots, p)
      BY <1>11
    <2>3. /\ PoolTypes(pools', slots', stock', bought', sales')
          /\ PoolsGood(pools', slots', stock', sales', now)
      BY <1>1, <1>2, <1>12, <1>13, <2>1, <2>2, OneChange
    <2> QED BY <1>3, <2>3 DEF PoolsInv
  <1>15. OwnerType(owner') /\ Swap(owner, owner', gone, {})
    <2>1. /\ Len(owner) \in Nat /\ DOMAIN owner = 1 .. Len(owner)
          /\ \A t \in DOMAIN owner : owner[t] \in Members \cup {Market, Treasury}
          /\ Len(owner) <= MaxTokens
      BY <1>6, OwnerIs DEF OwnerType
    <2>2. /\ DOMAIN owner' = DOMAIN owner
          /\ \A t \in DOMAIN owner : owner'[t] = IF t \in gone THEN Treasury ELSE owner[t]
      BY <1>3
    <2>3. owner' \in [1 .. Len(owner) -> Members \cup {Market, Treasury}]
      BY <1>3, <2>1
    <2>4. owner' \in Seq(Members \cup {Market, Treasury}) /\ Len(owner') = Len(owner)
      BY <2>1, <2>3
    <2>5. OwnerType(owner')
      BY <2>1, <2>4 DEF OwnerType
    <2>6. Treasury # Market
      BY DEF Treasury, Market
    <2>7. \A t \in Tokens : Held(owner', t) <=> (Held(owner, t) /\ t \notin gone) \/ t \in {}
      BY <2>2, <2>6 DEF Held
    <2> QED BY <2>5, <2>7 DEF Swap
  <1>16. CustodyInv'
    <2>1. gone \in SUBSET OnPages(stock[p]) /\ {} \in SUBSET Tokens
          /\ OnPages(left) = (OnPages(stock[p]) \ gone) \cup {}
      BY <1>8, <1>9
    <2>2. Exact(owner', listings, stock')
      <3>1. Swap(owner, owner', gone, {})
        BY <1>15
      <3> QED BY <1>5, <1>6, <1>8, <1>13, <2>1, <3>1, CustodyMoves
    <2> QED BY <1>3, <1>15, <2>2 DEF CustodyInv, IInv, listVars
  <1>17. AllowanceInv'
    BY <1>3, <1>11 DEF IInv, AllowanceInv
  <1> QED BY <1>3, <1>14, <1>16, <1>17 DEF IInv, TermsInv, ChargedAsSigned, listVars

\* The counters of a purchase.
LEMMA BoughtIs ==
    ASSUME NEW pool \in Pool, NEW q, q = [pool EXCEPT !.sold = @ + 1, !.inPeriod = @ + 1]
    PROVE  /\ q \in Pool /\ q.sold = pool.sold + 1 /\ q.inPeriod = pool.inPeriod + 1
           /\ q.stocked = pool.stocked /\ q.terms = pool.terms /\ q.closed = pool.closed
           /\ q.start = pool.start
  <1> DEFINE x == [pool EXCEPT !.sold = pool.sold + 1]
  <1>1. pool.sold + 1 \in Nat /\ pool.inPeriod + 1 \in Nat
    BY PoolIs
  <1>2. /\ x \in Pool /\ x.sold = pool.sold + 1 /\ x.inPeriod = pool.inPeriod
        /\ x.stocked = pool.stocked /\ x.terms = pool.terms /\ x.closed = pool.closed
        /\ x.start = pool.start
    BY <1>1 DEF Pool
  <1>3. q = [x EXCEPT !.inPeriod = x.inPeriod + 1]
    OBVIOUS
  <1> HIDE DEF x
  <1>4. /\ q \in Pool /\ q.inPeriod = x.inPeriod + 1 /\ q.sold = x.sold
        /\ q.stocked = x.stocked /\ q.terms = x.terms /\ q.closed = x.closed
        /\ q.start = x.start
    <2>1. x.inPeriod + 1 \in Nat
      BY <1>1, <1>2
    <2> QED BY <1>2, <1>3, <2>1 DEF Pool
  <1> QED BY <1>2, <1>4

\* What a purchase does to the period before it counts.
LEMMA RolledIs ==
    ASSUME NEW pool \in Pool, now \in Nat
    PROVE  /\ Rolled(pool) \in Pool /\ Rolled(pool).terms = pool.terms
           /\ Rolled(pool).stocked = pool.stocked /\ Rolled(pool).sold = pool.sold
           /\ Rolled(pool).closed = pool.closed
           /\ \/ /\ now < pool.start + pool.terms.period
                 /\ Rolled(pool).start = pool.start /\ Rolled(pool).inPeriod = pool.inPeriod
              \/ /\ now >= pool.start + pool.terms.period
                 /\ Rolled(pool).start = now /\ Rolled(pool).inPeriod = 0
  <1> DEFINE r == [pool EXCEPT !.start = now, !.inPeriod = 0]
  <1>1. /\ r \in Pool /\ r.terms = pool.terms /\ r.stocked = pool.stocked /\ r.sold = pool.sold
        /\ r.closed = pool.closed /\ r.start = now /\ r.inPeriod = 0
    BY DEF Pool
  <1>2. pool.start \in Nat /\ pool.terms.period \in Nat
    BY PoolIs
  <1>3. now >= pool.start + pool.terms.period \/ now < pool.start + pool.terms.period
    BY <1>2
  <1>4. CASE PeriodOver(pool)
    <2>1. Rolled(pool) = r
      BY <1>4 DEF Rolled
    <2>2. now >= pool.start + pool.terms.period
      BY <1>4 DEF PeriodOver
    <2> HIDE DEF r
    <2> QED BY <1>1, <2>1, <2>2
  <1>5. CASE ~PeriodOver(pool)
    <2>1. Rolled(pool) = pool
      BY <1>5 DEF Rolled
    <2>2. now < pool.start + pool.terms.period
      BY <1>3, <1>5 DEF PeriodOver
    <2> HIDE DEF r
    <2> QED BY <2>1, <2>2
  <1> QED BY <1>4, <1>5
\* One token passes to a member.
LEMMA PassedOn ==
    ASSUME NEW o, OwnerType(o), NEW id \in DOMAIN o, NEW m \in Members,
           NEW o2, o2 = [o EXCEPT ![id] = m]
    PROVE  /\ OwnerType(o2) /\ ~Held(o2, id)
           /\ \A t : t # id => (Held(o2, t) <=> Held(o, t))
  <1>1. m # Market
    BY MarketplaceAssumption
  <1>2. o \in Seq(Members \cup {Market, Treasury}) /\ m \in Members \cup {Market, Treasury}
    BY DEF OwnerType
  <1>3. Put(Members \cup {Market, Treasury}, o2, o, id, m)
    BY <1>2, PutIs
  <1>4. /\ o2 \in Seq(Members \cup {Market, Treasury}) /\ Len(o2) = Len(o)
        /\ DOMAIN o2 = DOMAIN o /\ o2[id] = m /\ \A t \in DOMAIN o : t # id => o2[t] = o[t]
    BY <1>3 DEF Put
  <1> QED BY <1>1, <1>4 DEF OwnerType, Held

\* A purchase takes one id, within what the period and the buyer have left.
LEMMA BuyFromPoolKeeps ==
    ASSUME IInv, NEW m \in Members, NEW p \in DOMAIN pools, NEW page \in DOMAIN stock[p],
           NEW id \in Range(stock[p][page]), BuyFromPool(m, p, page, id)
    PROVE  IInv'
  <1> DEFINE pool == Rolled(pools[p])
             q == [pool EXCEPT !.sold = @ + 1, !.inPeriod = @ + 1]
             pages == [stock[p] EXCEPT ![page] = TakeFrom(stock[p][page], id)]
             f == [bought[p] EXCEPT ![m] = bought[p][m] + 1]
             s == Append(sales[p], now)
  <1>1. PoolTypes(pools, slots, stock, bought, sales) /\ PoolsGood(pools, slots, stock, sales, now)
    BY DEF IInv, PoolsInv
  <1>2. /\ IsOpen(p) /\ pool.inPeriod < pool.terms.perPeriod
        /\ owner[id] = Market
        /\ stock' = [stock EXCEPT ![p] = pages]
        /\ pools' = [pools EXCEPT ![p] = q]
        /\ bought' = [bought EXCEPT ![p] = f]
        /\ sales' = [sales EXCEPT ![p] = s]
        /\ owner' = [owner EXCEPT ![id] = m]
        /\ UNCHANGED <<now, config, listVars, slots, allowance, lowered>>
    BY DEF BuyFromPool
  <1>3. q = [pool EXCEPT !.sold = @ + 1, !.inPeriod = @ + 1]
    OBVIOUS
  <1> HIDE DEF q, f, s, pages
  <1>4. /\ slots \in Slots
        /\ pools \in Seq(Pool) /\ stock \in Seq(Seq(Page)) /\ bought \in Seq([Members -> Nat])
        /\ sales \in Seq(Seq(Nat))
        /\ p \in DOMAIN stock /\ p \in DOMAIN bought /\ p \in DOMAIN sales
        /\ pools[p] \in Pool /\ stock[p] \in Seq(Page) /\ bought[p] \in [Members -> Nat]
        /\ sales[p] \in Seq(Nat)
        /\ pools[p].stocked \in Nat /\ pools[p].sold \in Nat
        /\ Good(pools[p], stock[p], SumFor(slots, p), sales[p], now)
    BY OnePool DEF IInv
  <1>5. OwnerType(owner) /\ Exact(owner, listings, stock) /\ now \in Nat
    BY DEF IInv, CustodyInv
  <1>6. OnceEach(stock[p])
    BY <1>4, <1>5 DEF Exact
  <1>7. /\ pages \in Seq(Page) /\ OnceEach(pages)
        /\ OnPages(pages) = OnPages(stock[p]) \ {id}
    BY <1>4, <1>6, TakenOut DEF pages
  <1>8. id \in OnPages(stock[p])
    <2>1. \E k \in DOMAIN stock[p][page] : stock[p][page][k] = id
      BY DEF Range
    <2> QED BY <1>4, <2>1, WhereIds
  <1>9. id \in DOMAIN owner /\ id \in Tokens
    <2>1. InStock(stock, id) /\ id \in Tokens
      BY <1>4, <1>8, IdsAreTokens DEF InStock
    <2>2. Held(owner, id)
      BY <1>5, <2>1 DEF Exact
    <2> QED BY <2>1, <2>2 DEF Held
  <1>10. /\ pool \in Pool /\ pool.terms = pools[p].terms
         /\ pool.stocked = pools[p].stocked /\ pool.sold = pools[p].sold
         /\ pool.closed = pools[p].closed
         /\ \/ /\ now < pools[p].start + pools[p].terms.period
               /\ pool.start = pools[p].start /\ pool.inPeriod = pools[p].inPeriod
            \/ /\ now >= pools[p].start + pools[p].terms.period
               /\ pool.start = now /\ pool.inPeriod = 0
    BY <1>4, <1>5, RolledIs
  <1> HIDE DEF pool
  <1>11. RatesOf(pool, sales[p], now) /\ now < pool.start + pool.terms.period
    <2>1. RatesOf(pools[p], sales[p], now)
      BY <1>4 DEF Good
    <2> QED BY <1>4, <1>5, <1>10, <2>1, RollOver
  <1>12. /\ q \in Pool /\ q.sold = pool.sold + 1 /\ q.inPeriod = pool.inPeriod + 1
         /\ q.stocked = pool.stocked /\ q.terms = pool.terms /\ q.closed = pool.closed
         /\ q.start = pool.start
    BY <1>3, <1>10, BoughtIs
  <1>13. RatesOf(q, s, now) /\ StretchesHold(s, pool.terms.period, pool.terms.perPeriod)
    <2>1. StretchesHold(sales[p], pool.terms.period, pool.terms.perPeriod)
      BY <1>4, <1>10 DEF Good
    <2> QED BY <1>2, <1>4, <1>5, <1>10, <1>11, <1>12, <2>1, SaleAdded DEF s
  <1>14. AddsUp(q, pages, SumFor(slots, p))
    <2>1. ~pools[p].closed
      BY <1>2 DEF IsOpen
    <2>2. Cardinality(OnPages(stock[p])) = pools[p].stocked - pools[p].sold
          /\ pools[p].stocked + SumFor(slots, p) = pools[p].terms.size
      BY <1>4, <2>1 DEF Good, AddsUp
    <2>3. IsFiniteSet(OnPages(stock[p])) /\ Cardinality(OnPages(stock[p])) \in Nat
      BY <1>4, CountIds
    <2>4. Cardinality(OnPages(pages)) = Cardinality(OnPages(stock[p])) - 1
      BY <1>7, <1>8, <2>3, FS_RemoveElement
    <2>5. Cardinality(OnPages(pages)) = q.stocked - q.sold
      <3> DEFINE x == pools[p].stocked
                 y == pools[p].sold
      <3>1. x \in Nat /\ y \in Nat /\ q.stocked = x /\ q.sold = y + 1
        BY <1>4, <1>10, <1>12
      <3>2. Cardinality(OnPages(pages)) = (x - y) - 1
        BY <2>2, <2>4
      <3> HIDE DEF x, y
      <3> QED BY <3>1, <3>2
    <2>6. q.stocked + SumFor(slots, p) = q.terms.size
      BY <1>10, <1>12, <2>2
    <2> QED BY <1>10, <1>12, <2>1, <2>5, <2>6 DEF AddsUp
  <1>15. Good(q, pages, SumFor(slots, p), s, now)
    BY <1>12, <1>13, <1>14 DEF Good
  <1>16. Put(Seq(Page), stock', stock, p, pages)
    BY <1>2, <1>4, <1>7, PutIs
  <1>17. PoolsInv'
    <2>1. Put(Pool, pools', pools, p, q)
      BY <1>2, <1>4, <1>12, PutIs
    <2>2. Put([Members -> Nat], bought', bought, p, f)
      <3>1. f \in [Members -> Nat]
        <4>1. bought[p][m] + 1 \in Nat
          BY <1>4
        <4> QED BY <1>4, <4>1 DEF f
      <3> QED BY <1>2, <1>4, <3>1, PutIs
    <2>3. Put(Seq(Nat), sales', sales, p, s)
      <3>1. s \in Seq(Nat)
        BY <1>4, <1>5, AppendProperties DEF s
      <3> QED BY <1>2, <1>4, <3>1, PutIs
    <2>4. SlotsKept(slots', slots, p)
      <3>1. slots' = slots /\ Len(slots) \in Nat
        BY <1>2, <1>4, SlotsAre
      <3> QED BY <1>4, <3>1 DEF SlotsKept
    <2>5. Good(q, pages, SumFor(slots', p), s, now)
      BY <1>2, <1>15
    <2>6. /\ PoolTypes(pools', slots', stock', bought', sales')
          /\ PoolsGood(pools', slots', stock', sales', now)
      BY <1>1, <1>16, <2>1, <2>2, <2>3, <2>4, <2>5, OneChange
    <2> QED BY <1>2, <2>6 DEF PoolsInv
  <1>18. CustodyInv'
    <2>1. /\ OwnerType(owner') /\ ~Held(owner', id)
          /\ \A t : t # id => (Held(owner', t) <=> Held(owner, t))
      BY <1>2, <1>5, <1>9, PassedOn
    <2>2. Swap(owner, owner', {id}, {})
      BY <2>1 DEF Swap
    <2>3. {id} \in SUBSET OnPages(stock[p]) /\ {} \in SUBSET Tokens
          /\ OnPages(pages) = (OnPages(stock[p]) \ {id}) \cup {}
      BY <1>7, <1>8
    <2>4. Exact(owner', listings, stock')
      BY <1>4, <1>5, <1>7, <1>16, <2>2, <2>3, CustodyMoves
    <2> QED BY <1>2, <2>1, <2>4 DEF CustodyInv, IInv, listVars
  <1>19. AllowanceInv'
    BY <1>2 DEF IInv, AllowanceInv
  <1> QED BY <1>2, <1>17, <1>18, <1>19 DEF IInv, TermsInv, ChargedAsSigned, listVars
-----------------------------------------------------------------------------
(* Every step keeps it: listings, settings, moves and time.                *)

\* A listing starts or ends, and its token goes to or leaves the Marketplace.
LEMMA ListingChanges ==
    ASSUME CustodyInv, stock \in Seq(Seq(Page)), NEW x \in DOMAIN owner,
           NEW v \in Listing \cup {NoListing}, NEW to \in Members \cup {Market},
           listings[x] # NoListing \/ owner[x] # Market,
           v # NoListing <=> to = Market,
           UNCHANGED stock,
           owner' = [owner EXCEPT ![x] = to], listings' = [listings EXCEPT ![x] = v]
    PROVE  CustodyInv'
  <1>1. OwnerType(owner) /\ Exact(owner, listings, stock)
        /\ listings \in [Tokens -> Listing \cup {NoListing}]
    BY DEF CustodyInv
  <1>2. x \in Tokens
    BY <1>1, OwnerIs
  <1>3. owner \in Seq(Members \cup {Market, Treasury}) /\ to \in Members \cup {Market, Treasury}
        /\ Len(owner) <= MaxTokens
    BY <1>1 DEF OwnerType
  <1>4. Put(Members \cup {Market, Treasury}, owner', owner, x, to)
    BY <1>3, PutIs
  <1>5. /\ OwnerType(owner') /\ DOMAIN owner' = DOMAIN owner /\ owner'[x] = to
        /\ \A t \in DOMAIN owner : t # x => owner'[t] = owner[t]
    BY <1>3, <1>4 DEF Put, OwnerType
  <1>6. ~InStock(stock, x)
    <2>1. listings[x] # NoListing \/ ~Held(owner, x)
      BY DEF Held
    <2> QED BY <1>1, <1>2, <2>1, ListedNotStocked
  <1>7. (Held(owner', x) <=> v # NoListing)
        /\ \A t \in Tokens : t # x => (Held(owner', t) <=> Held(owner, t))
    BY <1>5 DEF Held
  <1>8. DOMAIN listings = Tokens
    BY <1>1
  <1>9. Exact(owner', listings', stock)
    BY <1>1, <1>2, <1>6, <1>7, <1>8, OneListing
  <1>10. listings' \in [Tokens -> Listing \cup {NoListing}]
    BY <1>1, <1>2
  <1> QED BY <1>5, <1>9, <1>10 DEF CustodyInv

\* The stock is a sequence of pages for each pool.
LEMMA StockIs == ASSUME IInv PROVE stock \in Seq(Seq(Page))
  BY DEF IInv, PoolsInv, PoolTypes

\* What it takes of the rest when pools, allowance and settings stay.
LEMMA RestSame ==
    ASSUME IInv, UNCHANGED <<now, config, poolVars, allowance, lowered>>
    PROVE  now' \in Nat /\ config' \in Config /\ PoolsInv' /\ AllowanceInv'
  <1>1. PoolsInv' /\ slots' = slots
    BY PoolsSame DEF IInv, poolVars
  <1> QED BY <1>1 DEF IInv, AllowanceInv

\* A listing enters custody with the terms it was signed under.
LEMMA ListKeeps ==
    ASSUME IInv, NEW m \in Members, NEW t \in DOMAIN owner, NEW d \in Durations,
           NEW f \in 0 .. MaxFee, NEW a \in Assets, List(m, t, d, [fee |-> f, asset |-> a])
    PROVE  IInv'
  <1> DEFINE signed == [fee |-> f, asset |-> a]
             l == [seller |-> m, expires |-> now + d, fee |-> config.fee,
                   asset |-> config.asset, signed |-> signed]
  <1>1. /\ config.fee <= f /\ config.asset = a
        /\ listings[t] = NoListing /\ owner[t] = m
        /\ owner' = [owner EXCEPT ![t] = Market]
        /\ listings' = [listings EXCEPT ![t] = l]
        /\ UNCHANGED <<now, config, receipt, poolVars, allowance, lowered>>
    BY DEF List
  <1>2. config.fee \in 0 .. MaxFee /\ config.asset \in Assets /\ now + d \in Nat
    <2>1. config \in Config /\ now \in Nat /\ d \in Nat
      BY MarketplaceAssumption DEF IInv
    <2> QED BY <2>1 DEF Config
  <1>3. /\ l \in Listing /\ l.seller = m /\ l.fee = config.fee /\ l.asset = config.asset
        /\ l.signed.fee = f /\ l.signed.asset = a
    BY <1>2 DEF Listing
  <1> HIDE DEF l
  <1>4. m # Market /\ m # None
    BY MarketplaceAssumption
  <1>5. l # NoListing
    BY <1>3, <1>4 DEF NoListing
  <1>6. CustodyInv'
    <2>1. CustodyInv /\ stock \in Seq(Seq(Page)) /\ UNCHANGED stock
      BY <1>1, StockIs DEF IInv, poolVars
    <2>2. l \in Listing \cup {NoListing} /\ Market \in Members \cup {Market} /\ owner[t] # Market
      BY <1>1, <1>3, <1>4
    <2> QED BY <1>1, <1>5, <2>1, <2>2, ListingChanges
  <1>7. TermsInv'
    <2>1. AsSigned(l)
      BY <1>1, <1>3 DEF AsSigned
    <2>2. listings \in [Tokens -> Listing \cup {NoListing}]
      BY DEF IInv, CustodyInv
    <2>3. \A x \in Tokens : listings'[x] = IF x = t THEN l ELSE listings[x]
      BY <1>1, <2>2
    <2>4. \A x \in Tokens : listings'[x] # NoListing => AsSigned(listings'[x])
      BY <2>1, <2>3 DEF IInv, TermsInv
    <2> QED BY <1>1, <2>4 DEF IInv, TermsInv, ChargedAsSigned
  <1> QED BY <1>1, <1>6, <1>7, RestSame DEF IInv

\* A listing ends.
LEMMA ListingEnds ==
    ASSUME IInv, NEW t \in DOMAIN owner, NEW m \in Members,
           listings[t] # NoListing,
           owner' = [owner EXCEPT ![t] = m],
           listings' = [listings EXCEPT ![t] = NoListing],
           UNCHANGED stock
    PROVE  CustodyInv' /\ \A x \in Tokens : listings'[x] # NoListing => AsSigned(listings'[x])
  <1>1. m # Market
    BY MarketplaceAssumption
  <1>2. CustodyInv /\ stock \in Seq(Seq(Page))
        /\ NoListing \in Listing \cup {NoListing} /\ m \in Members \cup {Market}
    BY StockIs DEF IInv
  <1>3. CustodyInv'
    BY <1>1, <1>2, ListingChanges
  <1>4. listings \in [Tokens -> Listing \cup {NoListing}]
    BY DEF IInv, CustodyInv
  <1>5. \A x \in Tokens : listings'[x] = IF x = t THEN NoListing ELSE listings[x]
    BY <1>4
  <1> QED BY <1>3, <1>5 DEF IInv, TermsInv

\* A sale leaves custody and charges what was signed.
LEMMA BuyKeeps ==
    ASSUME IInv, NEW m \in Members, NEW t \in DOMAIN owner, Buy(m, t)
    PROVE  IInv'
  <1>1. /\ listings[t] # NoListing
        /\ receipt' = [charged |-> Charged(listings[t]), signed |-> listings[t].signed]
        /\ listings' = [listings EXCEPT ![t] = NoListing]
        /\ owner' = [owner EXCEPT ![t] = m]
        /\ UNCHANGED <<now, config, poolVars, allowance, lowered>>
    BY DEF Buy
  <1>2. CustodyInv' /\ \A x \in Tokens : listings'[x] # NoListing => AsSigned(listings'[x])
    BY <1>1, ListingEnds DEF poolVars
  <1>3. ChargedAsSigned'
    <2>1. t \in Tokens
      BY OwnerIs DEF IInv, CustodyInv
    <2>2. AsSigned(listings[t])
      BY <1>1, <2>1 DEF IInv, TermsInv
    <2>3. /\ receipt'.charged.fee = listings[t].fee /\ receipt'.charged.asset = listings[t].asset
          /\ receipt'.signed = listings[t].signed
      BY <1>1 DEF Charged
    <2> QED BY <2>2, <2>3 DEF AsSigned, ChargedAsSigned
  <1> QED BY <1>1, <1>2, <1>3, RestSame DEF IInv, TermsInv

\* A cancelled or expired listing's token leaves custody.
LEMMA GiveBackKeeps ==
    ASSUME IInv, NEW t \in DOMAIN owner, listings[t] # NoListing, GiveBack(t)
    PROVE  IInv'
  <1>1. /\ listings' = [listings EXCEPT ![t] = NoListing]
        /\ owner' = [owner EXCEPT ![t] = listings[t].seller]
        /\ UNCHANGED <<now, config, receipt, poolVars, allowance, lowered>>
    BY DEF GiveBack
  <1>2. listings[t].seller \in Members
    <2>1. t \in Tokens /\ listings \in [Tokens -> Listing \cup {NoListing}]
      BY OwnerIs DEF IInv, CustodyInv
    <2>2. listings[t] \in Listing
      BY <2>1
    <2> QED BY <2>2 DEF Listing
  <1>3. CustodyInv' /\ \A x \in Tokens : listings'[x] # NoListing => AsSigned(listings'[x])
    <2>1. UNCHANGED stock
      BY <1>1 DEF poolVars
    <2> QED BY <1>1, <1>2, <2>1, ListingEnds
  <1> QED BY <1>1, <1>3, RestSame DEF IInv, TermsInv, ChargedAsSigned

\* Transfers elsewhere touch nothing the market holds.
LEMMA MoveKeeps ==
    ASSUME IInv, NEW t \in DOMAIN owner, NEW m \in Members, Move(t, m)
    PROVE  IInv'
  <1>1. /\ owner[t] \in Members /\ owner' = [owner EXCEPT ![t] = m]
        /\ UNCHANGED <<now, config, listVars, poolVars, allowance, lowered>>
    BY DEF Move
  <1>2. OwnerType(owner) /\ Exact(owner, listings, stock)
    BY DEF IInv, CustodyInv
  <1>3. /\ OwnerType(owner') /\ ~Held(owner', t)
        /\ \A x : x # t => (Held(owner', x) <=> Held(owner, x))
    BY <1>1, <1>2, PassedOn
  <1>4. ~Held(owner, t)
    BY <1>1, MarketplaceAssumption DEF Held
  <1>5. \A x \in Tokens : Held(owner', x) <=> Held(owner, x)
    BY <1>3, <1>4
  <1>6. Exact(owner', listings, stock)
    BY <1>2, <1>5, HeldSame
  <1>7. CustodyInv'
    BY <1>1, <1>3, <1>6 DEF IInv, CustodyInv, listVars, poolVars
  <1> QED BY <1>1, <1>7, RestSame DEF IInv, TermsInv, ChargedAsSigned, listVars

\* Fee, asset and pause do not reach pools and listings there are.
LEMMA SettingKeeps ==
    ASSUME IInv, config' \in Config, UNCHANGED <<now, listVars, poolVars, tokenVars>>
    PROVE  IInv'
  <1>1. PoolsInv'
    BY PoolsSame DEF IInv
  <1>2. CustodyInv' /\ TermsInv' /\ AllowanceInv'
    BY DEF IInv, CustodyInv, TermsInv, ChargedAsSigned, AllowanceInv, listVars, poolVars, tokenVars
  <1> QED BY <1>1, <1>2 DEF IInv

\* The DAO may lower the allowance below what is reserved, which is remembered.
LEMMA AllowanceKeeps ==
    ASSUME IInv, NEW n \in Grants, SetAllowance(n)
    PROVE  IInv'
  <1>1. /\ allowance' = n /\ lowered' = (lowered \/ n < Reserved)
        /\ UNCHANGED <<now, config, listVars, poolVars, owner>>
    BY DEF SetAllowance
  <1>2. n \in Nat /\ Reserved = SumOf(slots) /\ SumOf(slots) \in Nat /\ slots' = slots
    BY <1>1, MarketplaceAssumption, ReservedIs, SumOfNat DEF IInv, PoolsInv, PoolTypes, poolVars
  <1>3. n < Reserved \/ SumOf(slots) <= n
    BY <1>2
  <1>4. AllowanceInv'
    <2>1. allowance' \in Nat
      BY <1>1, <1>2
    <2>2. ~lowered' => SumOf(slots') <= allowance'
      BY <1>1, <1>2, <1>3
    <2>3. lowered' \in BOOLEAN
      BY <1>1
    <2> QED BY <2>1, <2>2, <2>3 DEF AllowanceInv
  <1>5. PoolsInv'
    BY <1>1, PoolsSame DEF IInv
  <1> QED BY <1>1, <1>4, <1>5
          DEF IInv, CustodyInv, TermsInv, ChargedAsSigned, listVars, poolVars

\* Time passes: periods may end, counters stay.
LEMMA TickKeeps ==
    ASSUME IInv, Tick
    PROVE  IInv'
  <1>1. now \in Nat /\ now' = now + 1 /\ UNCHANGED <<config, listVars, poolVars, tokenVars>>
    BY DEF IInv, Tick
  <1>2. now' \in Nat /\ now <= now'
    BY <1>1
  <1>3. UNCHANGED <<pools, slots, stock, bought, sales>>
    BY <1>1 DEF poolVars
  <1>4. ASSUME NEW p \in DOMAIN pools PROVE Good(pools[p], stock[p], SumFor(slots, p), sales[p], now')
    <2>1. pools[p] \in Pool /\ sales[p] \in Seq(Nat)
          /\ Good(pools[p], stock[p], SumFor(slots, p), sales[p], now)
      BY OnePool DEF IInv
    <2>2. RatesOf(pools[p], sales[p], now)
      BY <2>1 DEF Good
    <2> DEFINE u == now'
    <2>3. u \in Nat /\ now \in Nat /\ now <= u
      BY <1>1, <1>2
    <2> HIDE DEF u
    <2>4. RatesOf(pools[p], sales[p], u)
      BY <2>1, <2>2, <2>3, RatesAge
    <2> QED BY <2>1, <2>4 DEF Good, u
  <1>5. PoolsInv'
    BY <1>3, <1>4 DEF IInv, PoolsInv, PoolsGood
  <1> QED BY <1>1, <1>2, <1>3, <1>5
          DEF IInv, CustodyInv, TermsInv, ChargedAsSigned, AllowanceInv, listVars, tokenVars

\* Every step keeps the invariant.
LEMMA InvNext == ASSUME IInv, [Next]_vars PROVE IInv'
  <1>1. CASE PoolNext
    BY <1>1, OpenPoolKeeps, RestockKeeps, SweepPoolKeeps, BuyFromPoolKeeps, ClosePoolKeeps
       DEF PoolNext
  <1>2. CASE ListingNext
    <2>1. PICK t \in DOMAIN owner :
            \/ \E m \in Members, d \in Durations, f \in 0 .. MaxFee, a \in Assets :
                List(m, t, d, [fee |-> f, asset |-> a])
            \/ \E m \in Members : Buy(m, t) \/ Move(t, m)
            \/ Cancel(t)
            \/ Expire(t)
      BY <1>2 DEF ListingNext
    <2>2. CASE \E m \in Members, d \in Durations, f \in 0 .. MaxFee, a \in Assets :
                List(m, t, d, [fee |-> f, asset |-> a])
      BY <2>2, ListKeeps
    <2>3. CASE \E m \in Members : Buy(m, t) \/ Move(t, m)
      BY <2>3, BuyKeeps, MoveKeeps
    <2>4. CASE Cancel(t) \/ Expire(t)
      BY <2>4, GiveBackKeeps DEF Cancel, Expire
    <2> QED BY <2>1, <2>2, <2>3, <2>4
  <1>3. CASE \E on \in BOOLEAN : SetPaused(on)
    <2>1. PICK on \in BOOLEAN : SetPaused(on)
      BY <1>3
    <2>2. config' \in Config
      BY <2>1 DEF IInv, Config, SetPaused
    <2> QED BY <2>1, <2>2, SettingKeeps DEF SetPaused
  <1>4. CASE \E f \in 0 .. MaxFee : SetSecondaryFee(f)
    <2>1. PICK f \in 0 .. MaxFee : SetSecondaryFee(f)
      BY <1>4
    <2>2. config' \in Config
      BY <2>1 DEF IInv, Config, SetSecondaryFee
    <2> QED BY <2>1, <2>2, SettingKeeps DEF SetSecondaryFee
  <1>5. CASE \E a \in Assets : SetPaymentAsset(a)
    <2>1. PICK a \in Assets : SetPaymentAsset(a)
      BY <1>5
    <2>2. config' \in Config
      BY <2>1 DEF IInv, Config, SetPaymentAsset
    <2> QED BY <2>1, <2>2, SettingKeeps DEF SetPaymentAsset
  <1>6. CASE \E n \in Grants : SetAllowance(n)
    BY <1>6, AllowanceKeeps
  <1>7. CASE Tick
    BY <1>7, TickKeeps
  <1>8. CASE UNCHANGED vars
    <2>1. UNCHANGED <<now, config, listVars, poolVars, tokenVars>>
      BY <1>8 DEF vars
    <2>2. config' \in Config
      BY <2>1 DEF IInv
    <2> QED BY <2>1, <2>2, SettingKeeps
  <1> QED BY <1>1, <1>2, <1>3, <1>4, <1>5, <1>6, <1>7, <1>8 DEF Next

\* The inductive invariant holds of every behaviour.
THEOREM MarketInvariant == Spec => []IInv
  BY InvFirst, InvNext, PTL DEF Spec

\* Whatever the members, the sizes of pages, pools and sweeps and the terms:
\* what the Marketplace holds is exactly its listings and its stock, each token
\* once; the counters of every pool agree with its pages and its reservation;
\* reservations stay covered by the mint allowance unless the DAO takes it
\* away; and a seller is charged as signed.
THEOREM MarketHolds == Spec => []MarketInv
  BY MarketInvariant, InvariantGives, PTL

\* In any stretch as long as its period a pool sells at most twice its rate.
THEOREM RatesHold == Spec => []RateHolds
  BY MarketInvariant, InvariantGives, PTL
=============================================================================
