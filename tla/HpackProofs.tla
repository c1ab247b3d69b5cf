----------------------------- MODULE HpackProofs -----------------------------
(***************************************************************************)
(* Header compression for every set of fields, blocks, limits and SETTINGS *)
(* and every number of them under way: the books of both tables are right, *)
(* the map of the deflater mirrors its table, the tables agree whenever    *)
(* nothing is under way, and every block arrives as it was sent.           *)
(*                                                                         *)
(* Argument.  Filed and Fits say what is true of one table; evicting and   *)
(* adding keep them, and keep two tables with the same fields equal        *)
(* although one has a map and the other has none.  InStep(d, x) says that  *)
(* deflater d and inflater x have the same fields, and that the size       *)
(* updates d still has to announce are within what x accepts.  It is kept  *)
(* when both apply the same SETTINGS and when x reads a block that d made. *)
(* HpackInv: the frames on the wire are such steps, and after the last of  *)
(* them the inflater is in step with the deflater.                         *)
(*                                                                         *)
(* The recursive functions of the model are read as folds over a sequence: *)
(* the set of lengths at which two runs differ would have a least element. *)
(***************************************************************************)
EXTENDS HpackProperties, FiniteSetTheorems, WellFoundedInduction, TLAPS

-----------------------------------------------------------------------------
(* Induction on sequences.                                                 *)

(* Every non-empty set of natural numbers has a least element.             *)
LEMMA LeastElement ==
  ASSUME NEW T \in SUBSET Nat, T # {}
  PROVE  \E m \in T : \A k \in T : m <= k
<1>1. PICK top \in T : TRUE
  OBVIOUS
<1> DEFINE S == 0 .. top
           W == {0 .. m : m \in T \cap S}
<1>2. IsWellFoundedOn(StrictSubsetOrdering(S), SUBSET S)
  <2>1. IsFiniteSet(S)
    BY FS_Interval
  <2>2. FiniteSubsetsOf(S) = SUBSET S
    BY <2>1, FS_FiniteSubsetsOfFinite
  <2>3. IsWellFoundedOn(StrictSubsetOrdering(S), FiniteSubsetsOf(S))
    BY FS_StrictSubsetOrderingWellFounded
  <2> QED
    BY <2>2, <2>3
<1>3. W \subseteq SUBSET S /\ W # {}
  BY <1>1
<1>4. PICK w \in W : \A y \in W : ~ (<<y, w>> \in StrictSubsetOrdering(S))
  <2> HIDE DEF W, S
  <2> QED
    BY <1>2, <1>3, WFMin
<1>5. PICK m \in T \cap S : w = 0 .. m
  BY <1>4
<1>6. ASSUME NEW k \in T, k < m PROVE FALSE
  <2>1. k \in T \cap S
    BY <1>5, <1>6
  <2>2. 0 .. k \in W
    BY <2>1
  <2>3. 0 .. k \subseteq w /\ 0 .. k # w /\ m \in w /\ m \notin 0 .. k
    BY <1>5, <1>6
  <2>4. 0 .. k \subseteq S /\ w \subseteq S
    BY <1>5, <2>1
  <2>5. <<0 .. k, w>> \in StrictSubsetOrdering(S)
    BY <2>3, <2>4, Zenon DEF StrictSubsetOrdering
  <2> QED
    BY <1>4, <2>2, <2>5
<1> QED
  BY <1>5, <1>6

(* A set of sequences that has the empty one, and each of its members       *)
(* longer by one element, has all of them.                                 *)
LEMMA AppendInduction ==
  ASSUME NEW S, NEW T,
         << >> \in T,
         \A s \in Seq(S) : s \in T => \A e \in S : Append(s, e) \in T
  PROVE  \A s \in Seq(S) : s \in T
<1> DEFINE Bad == {n \in Nat : \E s \in Seq(S) : Len(s) = n /\ s \notin T}
<1>1. ASSUME Bad # {} PROVE FALSE
  <2>1. PICK m \in Bad : \A k \in Bad : m <= k
    <3>1. Bad \in SUBSET Nat
      OBVIOUS
    <3> HIDE DEF Bad
    <3> QED
      BY <1>1, <3>1, LeastElement
  <2>2. PICK s \in Seq(S) : Len(s) = m /\ s \notin T
    BY <2>1
  <2>3. s # << >>
    BY <2>2
  <2> DEFINE r == SubSeq(s, 1, m - 1)
             e == s[m]
  <2>4. m \in Nat /\ m >= 1
    BY <2>1, <2>2, <2>3
  <2>5. r \in Seq(S) /\ Len(r) = m - 1 /\ e \in S
    BY <2>2, <2>4
  <2>6. s = Append(r, e)
    BY <2>2, <2>4, <2>5
  <2>7. r \in T
    <3>1. m - 1 \in Nat /\ ~ (m <= m - 1)
      BY <2>4
    <3>2. m - 1 \notin Bad
      BY <2>1, <3>1
    <3> HIDE DEF r
    <3> QED
      BY <2>5, <3>1, <3>2
  <2> HIDE DEF r, e
  <2> QED
    BY <2>2, <2>5, <2>6, <2>7
<1> QED
  BY <1>1

-----------------------------------------------------------------------------
(* The recursions of the model, which all go through a sequence from its   *)
(* first element on, as one: k says which step is meant.                  *)

Step(k, T, x, e) ==
  IF k = "sum" THEN x + EntryRoom[e.field]
  ELSE IF k = "only" THEN IF e \in T THEN Append(x, e) ELSE x
  ELSE IF k = "deflate" THEN DeflateField(x, e)
  ELSE InflateRepr(x, e)

(* g holds the results after each of the first n elements of s.            *)
Folds(g, k, T, b, s, n) ==
  g = [i \in 0 .. n |-> IF i = 0 THEN b ELSE Step(k, T, g[i - 1], s[i])]

LEMMA FoldsExist ==
  ASSUME NEW n \in Nat, NEW k, NEW T, NEW b, NEW s
  PROVE  \E g : Folds(g, k, T, b, s, n)
<1> DEFINE Has(m) == \E g : Folds(g, k, T, b, s, m)
           Bad == {m \in Nat : ~Has(m)}
<1>1. ASSUME Bad # {} PROVE FALSE
  <2>1. PICK m \in Bad : \A j \in Bad : m <= j
    <3>1. Bad \in SUBSET Nat
      OBVIOUS
    <3> HIDE DEF Bad
    <3> QED
      BY <1>1, <3>1, LeastElement
  <2>2. m # 0
    <3>1. Folds([i \in 0 .. 0 |-> b], k, T, b, s, 0)
      BY DEF Folds
    <3> QED
      BY <2>1, <3>1
  <2>3. m \in Nat /\ m - 1 \in Nat /\ ~ (m <= m - 1)
    BY <2>1, <2>2
  <2>4. PICK g : Folds(g, k, T, b, s, m - 1)
    BY <2>1, <2>3
  <2> DEFINE h == [i \in 0 .. m |-> IF i = m THEN Step(k, T, g[m - 1], s[m]) ELSE g[i]]
  <2>5. \A i \in 0 .. m - 1 : h[i] = g[i]
    BY <2>3
  <2>6. \A i \in 0 .. m :
          h[i] = IF i = 0 THEN b ELSE Step(k, T, h[i - 1], s[i])
    <3> SUFFICES ASSUME NEW i \in 0 .. m
                 PROVE  h[i] = IF i = 0 THEN b ELSE Step(k, T, h[i - 1], s[i])
      OBVIOUS
    <3>1. CASE i = m
      <4>1. h[m - 1] = g[m - 1] /\ m - 1 \in 0 .. m - 1
        BY <2>3, <2>5
      <4> QED
        BY <2>2, <3>1, <4>1
    <3>2. CASE i # m /\ i # 0
      <4>1. i \in 0 .. m - 1 /\ i - 1 \in 0 .. m - 1
        BY <2>3, <3>2
      <4>2. h[i] = g[i] /\ h[i - 1] = g[i - 1]
        BY <2>5, <4>1
      <4>3. g[i] = Step(k, T, g[i - 1], s[i])
        BY <2>4, <3>2, <4>1 DEF Folds
      <4> QED
        BY <3>2, <4>2, <4>3
    <3>3. CASE i # m /\ i = 0
      <4>1. 0 \in 0 .. m - 1
        BY <2>3
      <4>2. g[0] = b
        BY <2>4, <4>1 DEF Folds
      <4> QED
        BY <2>5, <3>3, <4>1, <4>2
    <3> QED
      BY <3>1, <3>2, <3>3
  <2>7. Folds(h, k, T, b, s, m)
    <3>1. h = [i \in 0 .. m |-> h[i]]
      OBVIOUS
    <3> HIDE DEF h
    <3> QED
      BY <2>6, <3>1 DEF Folds
  <2> QED
    BY <2>1, <2>7
<1> QED
  BY <1>1

(* Two of them agree as long as the sequences do.                          *)
LEMMA FoldsAgree ==
  ASSUME NEW n \in Nat, NEW m \in Nat, n <= m,
         NEW k, NEW T, NEW b, NEW s, NEW t, \A i \in 1 .. n : s[i] = t[i],
         NEW g, NEW h, Folds(g, k, T, b, s, n), Folds(h, k, T, b, t, m)
  PROVE  g[n] = h[n]
<1> DEFINE Bad == {i \in 0 .. n : g[i] # h[i]}
<1>1. ASSUME Bad # {} PROVE FALSE
  <2>1. PICK i \in Bad : \A j \in Bad : i <= j
    <3>1. Bad \in SUBSET Nat
      OBVIOUS
    <3> HIDE DEF Bad
    <3> QED
      BY <1>1, <3>1, LeastElement
  <2>2. i \in 0 .. n /\ g[i] # h[i]
    BY <2>1
  <2>3. i # 0
    BY <2>2 DEF Folds
  <2>4. i \in 1 .. n /\ i \in 0 .. m /\ i - 1 \in 0 .. n /\ ~ (i <= i - 1)
    BY <2>2, <2>3
  <2>5. g[i - 1] = h[i - 1]
    BY <2>1, <2>4
  <2>6. g[i] = Step(k, T, g[i - 1], s[i])
    BY <2>2, <2>3 DEF Folds
  <2>7. h[i] = Step(k, T, h[i - 1], t[i])
    BY <2>3, <2>4 DEF Folds
  <2>8. s[i] = t[i]
    BY <2>4
  <2> QED
    BY <2>2, <2>5, <2>6, <2>7, <2>8
<1> QED
  BY <1>1

(* The result after all of s.                                              *)
IsFold(x, k, T, b, s) == \E g : Folds(g, k, T, b, s, Len(s)) /\ x = g[Len(s)]

LEMMA FoldEmpty ==
  ASSUME NEW k, NEW T, NEW b, NEW x, IsFold(x, k, T, b, << >>)
  PROVE  x = b
<1>1. Len(<< >>) = 0
  OBVIOUS
<1> QED
  BY <1>1 DEF IsFold, Folds

LEMMA FoldAppend ==
  ASSUME NEW S, NEW s \in Seq(S), NEW e \in S, NEW k, NEW T, NEW b, NEW x, NEW y,
         IsFold(x, k, T, b, s), IsFold(y, k, T, b, Append(s, e))
  PROVE  y = Step(k, T, x, e)
<1> DEFINE t == Append(s, e)
           n == Len(s)
<1>1. n \in Nat /\ n + 1 \in Nat /\ n <= n + 1 /\ Len(t) = n + 1 /\ t[n + 1] = e
      /\ \A i \in 1 .. n : s[i] = t[i]
  OBVIOUS
<1>2. PICK g : Folds(g, k, T, b, s, n) /\ x = g[n]
  BY Zenon DEF IsFold
<1>3. PICK h : Folds(h, k, T, b, t, Len(t)) /\ y = h[Len(t)]
  BY Zenon DEF IsFold
<1> HIDE DEF t, n
<1>4. Folds(h, k, T, b, t, n + 1) /\ y = h[n + 1]
  BY <1>1, <1>3
<1>5. g[n] = h[n]
  BY <1>1, <1>2, <1>4, FoldsAgree
<1>6. n + 1 \in 0 .. n + 1 /\ n + 1 # 0 /\ (n + 1) - 1 = n
  BY <1>1
<1>7. h[n + 1] = Step(k, T, h[n], t[n + 1])
  BY <1>4, <1>6 DEF Folds
<1> QED
  BY <1>1, <1>2, <1>4, <1>5, <1>7

(* A recursive function chosen by the same equation is one of them.        *)
LEMMA ChosenFold ==
  ASSUME NEW S, NEW s \in Seq(S), NEW k, NEW T, NEW b, NEW f,
         (\E g : Folds(g, k, T, b, s, Len(s))) => Folds(f, k, T, b, s, Len(s))
  PROVE  IsFold(f[Len(s)], k, T, b, s)
<1>1. Len(s) \in Nat
  OBVIOUS
<1>2. \E g : Folds(g, k, T, b, s, Len(s))
  BY <1>1, FoldsExist
<1> QED
  BY <1>2 DEF IsFold

LEMMA RoomFold ==
  ASSUME NEW S, NEW s \in Seq(S)
  PROVE  IsFold(RoomOf(s), "sum", {}, 0, s)
<1> DEFINE n == Len(s)
           F(f) == [i \in 0 .. n |-> IF i = 0 THEN 0 ELSE f[i - 1] + EntryRoom[s[i].field]]
           sum == CHOOSE f : f = F(f)
<1>1. ASSUME NEW f PROVE f = F(f) <=> Folds(f, "sum", {}, 0, s, n)
  <2>1. \A x, e : Step("sum", {}, x, e) = x + EntryRoom[e.field]
    BY DEF Step
  <2>2. F(f) = [i \in 0 .. n |-> IF i = 0 THEN 0 ELSE Step("sum", {}, f[i - 1], s[i])]
    BY <2>1
  <2> HIDE DEF F, n
  <2> QED
    BY <2>2 DEF Folds
<1>2. (\E f : f = F(f)) => sum = F(sum)
  <2> HIDE DEF F
  <2> QED
    BY Zenon
<1>3. RoomOf(s) = sum[n]
  BY Zenon DEF RoomOf
<1>4. (\E g : Folds(g, "sum", {}, 0, s, n)) => Folds(sum, "sum", {}, 0, s, n)
  <2> HIDE DEF F, sum, n
  <2> QED
    BY <1>1, <1>2, Zenon
<1> HIDE DEF F, sum
<1> QED
  BY <1>3, <1>4, ChosenFold

LEMMA OnlyFold ==
  ASSUME NEW S, NEW s \in Seq(S), NEW T
  PROVE  IsFold(Only(s, T), "only", T, << >>, s)
<1> DEFINE n == Len(s)
           F(f) == [i \in 0 .. n |->
                      IF i = 0 THEN << >>
                      ELSE IF s[i] \in T THEN Append(f[i - 1], s[i]) ELSE f[i - 1]]
           only == CHOOSE f : f = F(f)
<1>1. ASSUME NEW f PROVE f = F(f) <=> Folds(f, "only", T, << >>, s, n)
  <2>1. \A x, e : Step("only", T, x, e) = IF e \in T THEN Append(x, e) ELSE x
    BY DEF Step
  <2>2. F(f) = [i \in 0 .. n |-> IF i = 0 THEN << >> ELSE Step("only", T, f[i - 1], s[i])]
    BY <2>1, Zenon
  <2> HIDE DEF F, n
  <2> QED
    BY <2>2 DEF Folds
<1>2. (\E f : f = F(f)) => only = F(only)
  <2> HIDE DEF F
  <2> QED
    BY Zenon
<1>3. Only(s, T) = only[n]
  BY Zenon DEF Only
<1>4. (\E g : Folds(g, "only", T, << >>, s, n)) => Folds(only, "only", T, << >>, s, n)
  <2> HIDE DEF F, only, n
  <2> QED
    BY <1>1, <1>2, Zenon
<1> HIDE DEF F, only
<1> QED
  BY <1>3, <1>4, ChosenFold

FirstStep(d) == [deflater |-> [d EXCEPT !.notify = FALSE,
                                        !.min = IF d.notify THEN UINT32_MAX ELSE @],
                 reprs    |-> SizeUpdates(d)]

LEMMA DeflateFold ==
  ASSUME NEW S, NEW s \in Seq(S), NEW d
  PROVE  IsFold(nghttp2_hd_deflate_hd_bufs(d, s), "deflate", {}, FirstStep(d), s)
<1> DEFINE n == Len(s)
           F(f) == [i \in 0 .. n |->
                      IF i = 0 THEN FirstStep(d) ELSE DeflateField(f[i - 1], s[i])]
           run == CHOOSE f : f = F(f)
<1>1. ASSUME NEW f PROVE f = F(f) <=> Folds(f, "deflate", {}, FirstStep(d), s, n)
  <2>1. \A x, e : Step("deflate", {}, x, e) = DeflateField(x, e)
    BY DEF Step
  <2>2. F(f) = [i \in 0 .. n |-> IF i = 0 THEN FirstStep(d)
                                          ELSE Step("deflate", {}, f[i - 1], s[i])]
    BY <2>1, Zenon
  <2> HIDE DEF F, n
  <2> QED
    BY <2>2 DEF Folds
<1>2. (\E f : f = F(f)) => run = F(run)
  <2> HIDE DEF F
  <2> QED
    BY Zenon
<1>3. nghttp2_hd_deflate_hd_bufs(d, s) = run[n]
  BY Zenon DEF nghttp2_hd_deflate_hd_bufs, FirstStep
<1>4. (\E g : Folds(g, "deflate", {}, FirstStep(d), s, n))
        => Folds(run, "deflate", {}, FirstStep(d), s, n)
  <2> HIDE DEF F, run, n
  <2> QED
    BY <1>1, <1>2, Zenon
<1> HIDE DEF F, run
<1> QED
  BY <1>3, <1>4, ChosenFold

LEMMA InflateFold ==
  ASSUME NEW S, NEW s \in Seq(S), NEW i
  PROVE  IsFold(nghttp2_hd_inflate_hd_nv(i, s), "inflate", {},
                [inflater |-> i, out |-> << >>], s)
<1> DEFINE n == Len(s)
           b == [inflater |-> i, out |-> << >>]
           F(f) == [j \in 0 .. n |-> IF j = 0 THEN b ELSE InflateRepr(f[j - 1], s[j])]
           run == CHOOSE f : f = F(f)
<1>1. ASSUME NEW f PROVE f = F(f) <=> Folds(f, "inflate", {}, b, s, n)
  <2> HIDE DEF b
  <2>1. \A x, e : Step("inflate", {}, x, e) = InflateRepr(x, e)
    BY DEF Step
  <2>2. F(f) = [j \in 0 .. n |-> IF j = 0 THEN b ELSE Step("inflate", {}, f[j - 1], s[j])]
    BY <2>1, Zenon
  <2> HIDE DEF F, n
  <2> QED
    BY <2>2 DEF Folds
<1>2. (\E f : f = F(f)) => run = F(run)
  <2> HIDE DEF F
  <2> QED
    BY Zenon
<1>3. nghttp2_hd_inflate_hd_nv(i, s) = run[n]
  BY Zenon DEF nghttp2_hd_inflate_hd_nv
<1>4. (\E g : Folds(g, "inflate", {}, b, s, n)) => Folds(run, "inflate", {}, b, s, n)
  <2> HIDE DEF F, run, n, b
  <2> QED
    BY <1>1, <1>2, Zenon
<1> HIDE DEF F, run, b
<1>5. IsFold(run[n], "inflate", {}, b, s)
  BY <1>4, ChosenFold
<1> QED
  BY <1>3, <1>5 DEF b

(* So each of them goes on, with the next element, from where it was.      *)
LEMMA RoomAppend ==
  /\ RoomOf(<< >>) = 0
  /\ \A S : \A s \in Seq(S), e \in S : RoomOf(Append(s, e)) = RoomOf(s) + EntryRoom[e.field]
<1>1. RoomOf(<< >>) = 0
  <2>1. << >> \in Seq({})
    OBVIOUS
  <2> QED
    BY <2>1, RoomFold, FoldEmpty
<1>2. ASSUME NEW S, NEW s \in Seq(S), NEW e \in S
      PROVE  RoomOf(Append(s, e)) = RoomOf(s) + EntryRoom[e.field]
  <2>1. Append(s, e) \in Seq(S)
    OBVIOUS
  <2>2. IsFold(RoomOf(s), "sum", {}, 0, s)
        /\ IsFold(RoomOf(Append(s, e)), "sum", {}, 0, Append(s, e))
    BY <2>1, RoomFold, Zenon
  <2>3. RoomOf(Append(s, e)) = Step("sum", {}, RoomOf(s), e)
    BY <2>2, FoldAppend, Zenon
  <2> QED
    BY <2>3 DEF Step
<1> QED
  BY <1>1, <1>2

LEMMA OnlyEmpty ==
  ASSUME NEW T
  PROVE  Only(<< >>, T) = << >>
<1>1. << >> \in Seq({})
  OBVIOUS
<1>2. IsFold(Only(<< >>, T), "only", T, << >>, << >>)
  BY <1>1, OnlyFold, Zenon
<1> QED
  BY <1>2, FoldEmpty, Zenon

LEMMA OnlyAppend ==
  ASSUME NEW S, NEW s \in Seq(S), NEW e \in S, NEW T
  PROVE  /\ e \in T => Only(Append(s, e), T) = Append(Only(s, T), e)
         /\ e \notin T => Only(Append(s, e), T) = Only(s, T)
<1>1. Append(s, e) \in Seq(S)
  OBVIOUS
<1>2. IsFold(Only(s, T), "only", T, << >>, s)
      /\ IsFold(Only(Append(s, e), T), "only", T, << >>, Append(s, e))
  BY <1>1, OnlyFold, Zenon
<1>3. Only(Append(s, e), T) = Step("only", T, Only(s, T), e)
  BY <1>2, FoldAppend, Zenon
<1> QED
  BY <1>3 DEF Step

LEMMA DeflateEmpty ==
  ASSUME NEW d
  PROVE  nghttp2_hd_deflate_hd_bufs(d, << >>) = FirstStep(d)
<1> DEFINE b == FirstStep(d)
<1>1. << >> \in Seq({})
  OBVIOUS
<1>2. IsFold(nghttp2_hd_deflate_hd_bufs(d, << >>), "deflate", {}, b, << >>)
  BY <1>1, DeflateFold, Zenon
<1> HIDE DEF b
<1>3. nghttp2_hd_deflate_hd_bufs(d, << >>) = b
  BY <1>2, FoldEmpty, Zenon
<1> QED
  BY <1>3 DEF b

LEMMA DeflateAppend ==
  ASSUME NEW S, NEW s \in Seq(S), NEW e \in S, NEW d
  PROVE  nghttp2_hd_deflate_hd_bufs(d, Append(s, e))
           = DeflateField(nghttp2_hd_deflate_hd_bufs(d, s), e)
<1> DEFINE b == FirstStep(d)
           x == nghttp2_hd_deflate_hd_bufs(d, s)
           y == nghttp2_hd_deflate_hd_bufs(d, Append(s, e))
<1>1. Append(s, e) \in Seq(S)
  OBVIOUS
<1>2. IsFold(x, "deflate", {}, b, s) /\ IsFold(y, "deflate", {}, b, Append(s, e))
  BY <1>1, DeflateFold, Zenon
<1> HIDE DEF x, y, b
<1>3. y = Step("deflate", {}, x, e)
  BY <1>2, FoldAppend, Zenon
<1>4. y = DeflateField(x, e)
  BY <1>3 DEF Step
<1> QED
  BY <1>4 DEF x, y

LEMMA InflateEmpty ==
  ASSUME NEW i
  PROVE  nghttp2_hd_inflate_hd_nv(i, << >>) = [inflater |-> i, out |-> << >>]
<1> DEFINE b == [inflater |-> i, out |-> << >>]
<1>1. << >> \in Seq({})
  OBVIOUS
<1>2. IsFold(nghttp2_hd_inflate_hd_nv(i, << >>), "inflate", {}, b, << >>)
  BY <1>1, InflateFold, Zenon
<1> HIDE DEF b
<1>3. nghttp2_hd_inflate_hd_nv(i, << >>) = b
  BY <1>2, FoldEmpty, Zenon
<1> QED
  BY <1>3 DEF b

LEMMA InflateAppend ==
  ASSUME NEW S, NEW s \in Seq(S), NEW e \in S, NEW i
  PROVE  nghttp2_hd_inflate_hd_nv(i, Append(s, e))
           = InflateRepr(nghttp2_hd_inflate_hd_nv(i, s), e)
<1> DEFINE b == [inflater |-> i, out |-> << >>]
           x == nghttp2_hd_inflate_hd_nv(i, s)
           y == nghttp2_hd_inflate_hd_nv(i, Append(s, e))
<1>1. Append(s, e) \in Seq(S)
  OBVIOUS
<1>2. IsFold(x, "inflate", {}, b, s) /\ IsFold(y, "inflate", {}, b, Append(s, e))
  BY <1>1, InflateFold, Zenon
<1> HIDE DEF x, y, b
<1>3. y = Step("inflate", {}, x, e)
  BY <1>2, FoldAppend, Zenon
<1>4. y = InflateRepr(x, e)
  BY <1>3 DEF Step
<1> QED
  BY <1>4 DEF x, y

-----------------------------------------------------------------------------
(* Sequences, and the elements of one that are in a set.                   *)

LEMMA ToSetAppend ==
  /\ ToSet(<< >>) = {}
  /\ \A S : \A s \in Seq(S), e \in S : ToSet(Append(s, e)) = ToSet(s) \cup {e}
<1>1. ToSet(<< >>) = {}
  BY DEF ToSet
<1>2. ASSUME NEW S, NEW s \in Seq(S), NEW e \in S
      PROVE  ToSet(Append(s, e)) = ToSet(s) \cup {e}
  <2> DEFINE t == Append(s, e)
             n == Len(s)
  <2>1. /\ n \in Nat /\ DOMAIN s = 1 .. n /\ DOMAIN t = 1 .. n + 1 /\ t[n + 1] = e
        /\ \A i \in 1 .. n : t[i] = s[i]
    OBVIOUS
  <2> HIDE DEF t, n
  <2>2. ToSet(t) = ToSet(s) \cup {e}
    <3>1. ASSUME NEW x \in ToSet(t) PROVE x \in ToSet(s) \cup {e}
      <4>1. PICK i \in 1 .. n + 1 : x = t[i]
        BY <2>1, <3>1 DEF ToSet
      <4>2. i = n + 1 \/ i \in 1 .. n
        BY <2>1
      <4> QED
        BY <2>1, <4>1, <4>2 DEF ToSet
    <3>2. ASSUME NEW x \in ToSet(s) \cup {e} PROVE x \in ToSet(t)
      <4>1. n + 1 \in 1 .. n + 1 /\ \A i \in 1 .. n : i \in 1 .. n + 1
        BY <2>1
      <4>2. CASE x = e
        BY <2>1, <4>1, <4>2 DEF ToSet
      <4>3. CASE x \in ToSet(s)
        <5>1. PICK i \in 1 .. n : x = s[i]
          BY <2>1, <4>3 DEF ToSet
        <5> QED
          BY <2>1, <4>1, <5>1 DEF ToSet
      <4> QED
        BY <3>2, <4>2, <4>3
    <3> QED
      BY <3>1, <3>2
  <2> QED
    BY <2>2 DEF t
<1> QED
  BY <1>1, <1>2

LEMMA ToSetIn ==
  ASSUME NEW S, NEW s \in Seq(S)
  PROVE  ToSet(s) \subseteq S /\ s \in Seq(ToSet(s))
         /\ \A x : x \in ToSet(s) <=> \E i \in 1 .. Len(s) : x = s[i]
<1>1. DOMAIN s = 1 .. Len(s) /\ \A i \in 1 .. Len(s) : s[i] \in S
  OBVIOUS
<1>2. \A x : x \in ToSet(s) <=> \E i \in 1 .. Len(s) : x = s[i]
  BY <1>1 DEF ToSet
<1>3. s \in Seq(ToSet(s))
  <2>1. \A i \in 1 .. Len(s) : s[i] \in ToSet(s)
    BY <1>2
  <2> HIDE DEF ToSet
  <2> QED
    BY <2>1
<1> QED
  BY <1>1, <1>2, <1>3

LEMMA ConcatAppend ==
  ASSUME NEW S, NEW a \in Seq(S)
  PROVE  /\ a \o << >> = a
         /\ \A b \in Seq(S), e \in S : a \o Append(b, e) = Append(a \o b, e)
<1>1. a \o << >> = a
  OBVIOUS
<1>2. ASSUME NEW b \in Seq(S), NEW e \in S PROVE a \o Append(b, e) = Append(a \o b, e)
  <2> DEFINE x == a \o Append(b, e)
             y == Append(a \o b, e)
  <2>1. x \in Seq(S) /\ y \in Seq(S) /\ Len(x) = Len(y)
    OBVIOUS
  <2>2. \A i \in 1 .. Len(x) : x[i] = y[i]
    OBVIOUS
  <2> HIDE DEF x, y
  <2>3. x = y
    BY <2>1, <2>2
  <2> QED
    BY <2>3 DEF x, y
<1> QED
  BY <1>1, <1>2

(* The first n elements and the others.                                    *)
LEMMA SplitAt ==
  ASSUME NEW S, NEW s \in Seq(S), NEW n \in 0 .. Len(s)
  PROVE  LET a == SubSeq(s, 1, n)
             b == SubSeq(s, n + 1, Len(s))
         IN  /\ a \in Seq(S) /\ b \in Seq(S) /\ s = a \o b
             /\ Len(a) = n /\ Len(b) = Len(s) - n
             /\ \A i \in 1 .. n : a[i] = s[i]
             /\ \A i \in 1 .. Len(s) - n : b[i] = s[n + i]
<1> DEFINE a == SubSeq(s, 1, n)
           b == SubSeq(s, n + 1, Len(s))
           m == Len(s)
<1>1. m \in Nat /\ n \in Nat /\ n <= m
  OBVIOUS
<1>2. a \in Seq(S) /\ Len(a) = n /\ \A i \in 1 .. n : a[i] = s[i]
  BY <1>1
<1>3. b \in Seq(S) /\ Len(b) = m - n /\ \A i \in 1 .. m - n : b[i] = s[n + i]
  BY <1>1
<1> HIDE DEF a, b
<1>4. s = a \o b
  <2>1. a \o b \in Seq(S) /\ Len(a \o b) = Len(s)
    BY <1>1, <1>2, <1>3
  <2>2. \A i \in 1 .. Len(s) : (a \o b)[i] = s[i]
    <3> SUFFICES ASSUME NEW i \in 1 .. m PROVE (a \o b)[i] = s[i]
      OBVIOUS
    <3>1. CASE i <= n
      <4>1. i \in 1 .. n
        BY <1>1, <3>1
      <4>2. (a \o b)[i] = a[i]
        BY <1>1, <1>2, <1>3, <4>1
      <4> QED
        BY <1>2, <4>1, <4>2
    <3>2. CASE ~ (i <= n)
      <4>1. i - n \in 1 .. m - n /\ n + (i - n) = i
        BY <1>1, <3>2
      <4>2. (a \o b)[i] = b[i - n]
        BY <1>1, <1>2, <1>3, <3>2, <4>1
      <4> QED
        BY <1>3, <4>1, <4>2
    <3> QED
      BY <3>1, <3>2
  <2> DEFINE c == a \o b
  <2>3. c \in Seq(S) /\ Len(c) = Len(s) /\ \A i \in 1 .. Len(s) : c[i] = s[i]
    BY <2>1, <2>2
  <2> HIDE DEF c
  <2>4. c = s
    BY <2>3
  <2> QED
    BY <2>4 DEF c
<1> QED
  BY <1>2, <1>3, <1>4 DEF a, b

LEMMA OnlySeq ==
  ASSUME NEW S, NEW T
  PROVE  \A s \in Seq(S) : Only(s, T) \in Seq(S)
<1> DEFINE G == {s \in Seq(S) : Only(s, T) \in Seq(S)}
<1>1. << >> \in G
  <2>1. << >> \in Seq(S)
    OBVIOUS
  <2> QED
    BY <2>1, OnlyEmpty, Zenon
<1>2. \A s \in Seq(S) : s \in G => \A e \in S : Append(s, e) \in G
  <2> SUFFICES ASSUME NEW s \in Seq(S), Only(s, T) \in Seq(S), NEW e \in S
               PROVE  Only(Append(s, e), T) \in Seq(S)
    OBVIOUS
  <2>1. /\ e \in T => Only(Append(s, e), T) = Append(Only(s, T), e)
        /\ e \notin T => Only(Append(s, e), T) = Only(s, T)
    BY OnlyAppend, Zenon
  <2> QED
    BY <2>1
<1> HIDE DEF G
<1>3. \A s \in Seq(S) : s \in G
  BY <1>1, <1>2, AppendInduction
<1> QED
  BY <1>3 DEF G

LEMMA OnlyMember ==
  ASSUME NEW S, NEW T
  PROVE  \A s \in Seq(S) : ToSet(Only(s, T)) = ToSet(s) \cap T
<1> DEFINE G == {s \in Seq(S) : ToSet(Only(s, T)) = ToSet(s) \cap T}
<1>1. << >> \in G
  <2>1. << >> \in Seq(S) /\ ToSet(<< >>) = {} /\ Only(<< >>, T) = << >>
    BY ToSetAppend, OnlyEmpty
  <2> QED
    BY <2>1
<1>2. \A s \in Seq(S) : s \in G => \A e \in S : Append(s, e) \in G
  <2> SUFFICES ASSUME NEW s \in Seq(S), ToSet(Only(s, T)) = ToSet(s) \cap T, NEW e \in S
               PROVE  ToSet(Only(Append(s, e), T)) = ToSet(Append(s, e)) \cap T
    OBVIOUS
  <2>1. ToSet(Append(s, e)) = ToSet(s) \cup {e}
    BY ToSetAppend
  <2>2. Only(s, T) \in Seq(S)
    BY OnlySeq
  <2>3. ToSet(Append(Only(s, T), e)) = ToSet(Only(s, T)) \cup {e}
    BY <2>2, ToSetAppend
  <2>4. CASE e \in T
    <3>1. Only(Append(s, e), T) = Append(Only(s, T), e)
      BY <2>4, OnlyAppend, Zenon
    <3> QED
      BY <2>1, <2>3, <2>4, <3>1
  <2>5. CASE e \notin T
    <3>1. Only(Append(s, e), T) = Only(s, T)
      BY <2>5, OnlyAppend, Zenon
    <3> QED
      BY <2>1, <2>5, <3>1
  <2> QED
    BY <2>4, <2>5
<1> HIDE DEF G
<1>3. \A s \in Seq(S) : s \in G
  BY <1>1, <1>2, AppendInduction
<1> QED
  BY <1>3 DEF G

LEMMA OnlyConcat ==
  ASSUME NEW S, NEW T, NEW a \in Seq(S)
  PROVE  \A b \in Seq(S) : Only(a \o b, T) = Only(a, T) \o Only(b, T)
<1> DEFINE G == {b \in Seq(S) : Only(a \o b, T) = Only(a, T) \o Only(b, T)}
<1>0. Only(a, T) \in Seq(S)
  BY OnlySeq
<1>1. << >> \in G
  <2>1. a \o << >> = a /\ Only(<< >>, T) = << >>
    BY ConcatAppend, OnlyEmpty
  <2>2. Only(a, T) \o << >> = Only(a, T)
    BY <1>0, ConcatAppend
  <2>3. << >> \in Seq(S)
    OBVIOUS
  <2> QED
    BY <2>1, <2>2, <2>3, Zenon
<1>2. \A b \in Seq(S) : b \in G => \A e \in S : Append(b, e) \in G
  <2> SUFFICES ASSUME NEW b \in Seq(S), b \in G, NEW e \in S
               PROVE  Append(b, e) \in G
    OBVIOUS
  <2>0. Only(a \o b, T) = Only(a, T) \o Only(b, T)
    OBVIOUS
  <2> HIDE DEF G
  <2>1. a \o b \in Seq(S) /\ a \o Append(b, e) = Append(a \o b, e)
    BY ConcatAppend
  <2>2. Only(b, T) \in Seq(S)
    BY OnlySeq
  <2>3. ASSUME e \in T
        PROVE  Only(a \o Append(b, e), T) = Only(a, T) \o Only(Append(b, e), T)
    <3>1. Only(Append(b, e), T) = Append(Only(b, T), e)
      BY <2>3, OnlyAppend, Zenon
    <3>2. Only(Append(a \o b, e), T) = Append(Only(a \o b, T), e)
      BY <2>1, <2>3, OnlyAppend, Zenon
    <3>3. Only(a, T) \o Append(Only(b, T), e) = Append(Only(a, T) \o Only(b, T), e)
      BY <1>0, <2>2, ConcatAppend
    <3> QED
      BY <2>0, <2>1, <3>1, <3>2, <3>3, Zenon
  <2>4. ASSUME e \notin T
        PROVE  Only(a \o Append(b, e), T) = Only(a, T) \o Only(Append(b, e), T)
    <3>1. Only(Append(b, e), T) = Only(b, T)
      BY <2>4, OnlyAppend, Zenon
    <3>2. Only(Append(a \o b, e), T) = Only(a \o b, T)
      BY <2>1, <2>4, OnlyAppend, Zenon
    <3> QED
      BY <2>0, <2>1, <3>1, <3>2, Zenon
  <2>5. Append(b, e) \in Seq(S)
    OBVIOUS
  <2> QED
    BY <2>3, <2>4, <2>5, Zenon DEF G
<1> HIDE DEF G
<1>3. \A b \in Seq(S) : b \in G
  BY <1>1, <1>2, AppendInduction
<1> QED
  BY <1>3 DEF G

LEMMA OnlyTwice ==
  ASSUME NEW S, NEW A, NEW B
  PROVE  \A s \in Seq(S) : Only(Only(s, A), B) = Only(s, A \cap B)
<1> DEFINE G == {s \in Seq(S) : Only(Only(s, A), B) = Only(s, A \cap B)}
<1>1. << >> \in G
  <2>1. << >> \in Seq(S)
    OBVIOUS
  <2>2. Only(<< >>, A) = << >> /\ Only(<< >>, B) = << >> /\ Only(<< >>, A \cap B) = << >>
    BY OnlyEmpty
  <2> QED
    BY <2>1, <2>2, Zenon
<1>2. \A s \in Seq(S) : s \in G => \A e \in S : Append(s, e) \in G
  <2> SUFFICES ASSUME NEW s \in Seq(S), s \in G, NEW e \in S
               PROVE  Append(s, e) \in G
    OBVIOUS
  <2>0. Only(Only(s, A), B) = Only(s, A \cap B)
    OBVIOUS
  <2>1. Only(s, A) \in Seq(S)
    BY OnlySeq
  <2> HIDE DEF G
  <2>2. ASSUME e \in A, e \in B
        PROVE  Only(Only(Append(s, e), A), B) = Only(Append(s, e), A \cap B)
    <3>1. Only(Append(s, e), A) = Append(Only(s, A), e)
      BY <2>2, OnlyAppend, Zenon
    <3>2. Only(Append(Only(s, A), e), B) = Append(Only(Only(s, A), B), e)
      BY <2>1, <2>2, OnlyAppend, Zenon
    <3>3. Only(Append(s, e), A \cap B) = Append(Only(s, A \cap B), e)
      <4>1. e \in A \cap B
        BY <2>2
      <4> QED
        BY <4>1, OnlyAppend, Zenon
    <3> QED
      BY <2>0, <3>1, <3>2, <3>3, Zenon
  <2>3. ASSUME e \in A, e \notin B
        PROVE  Only(Only(Append(s, e), A), B) = Only(Append(s, e), A \cap B)
    <3>1. Only(Append(s, e), A) = Append(Only(s, A), e)
      BY <2>3, OnlyAppend, Zenon
    <3>2. Only(Append(Only(s, A), e), B) = Only(Only(s, A), B)
      BY <2>1, <2>3, OnlyAppend, Zenon
    <3>3. Only(Append(s, e), A \cap B) = Only(s, A \cap B)
      <4>1. e \notin A \cap B
        BY <2>3
      <4> QED
        BY <4>1, OnlyAppend, Zenon
    <3> QED
      BY <2>0, <3>1, <3>2, <3>3, Zenon
  <2>4. ASSUME e \notin A
        PROVE  Only(Only(Append(s, e), A), B) = Only(Append(s, e), A \cap B)
    <3>1. Only(Append(s, e), A) = Only(s, A)
      BY <2>4, OnlyAppend, Zenon
    <3>2. Only(Append(s, e), A \cap B) = Only(s, A \cap B)
      <4>1. e \notin A \cap B
        BY <2>4
      <4> QED
        BY <4>1, OnlyAppend, Zenon
    <3> QED
      BY <2>0, <3>1, <3>2, Zenon
  <2>5. Append(s, e) \in Seq(S)
    OBVIOUS
  <2> QED
    BY <2>2, <2>3, <2>4, <2>5, Zenon DEF G
<1> HIDE DEF G
<1>3. \A s \in Seq(S) : s \in G
  BY <1>1, <1>2, AppendInduction
<1> QED
  BY <1>3 DEF G

(* Only the elements of s matter.                                          *)
LEMMA OnlySame ==
  ASSUME NEW S, NEW A, NEW B, NEW s \in Seq(S), ToSet(s) \cap A = ToSet(s) \cap B
  PROVE  Only(s, A) = Only(s, B)
<1> DEFINE G == {t \in Seq(S) : ToSet(t) \cap A = ToSet(t) \cap B => Only(t, A) = Only(t, B)}
<1>1. << >> \in G
  <2>1. << >> \in Seq(S)
    OBVIOUS
  <2>2. Only(<< >>, A) = << >> /\ Only(<< >>, B) = << >>
    BY OnlyEmpty
  <2> QED
    BY <2>1, <2>2, Zenon
<1>2. \A t \in Seq(S) : t \in G => \A e \in S : Append(t, e) \in G
  <2> SUFFICES ASSUME NEW t \in Seq(S), t \in G, NEW e \in S,
                      ToSet(Append(t, e)) \cap A = ToSet(Append(t, e)) \cap B
               PROVE  Only(Append(t, e), A) = Only(Append(t, e), B)
    OBVIOUS
  <2>1. ToSet(Append(t, e)) = ToSet(t) \cup {e}
    BY ToSetAppend
  <2>2. ToSet(t) \cap A = ToSet(t) \cap B
    BY <2>1
  <2>3. e \in A <=> e \in B
    BY <2>1
  <2>4. Only(t, A) = Only(t, B)
    BY <2>2
  <2>5. /\ e \in A => Only(Append(t, e), A) = Append(Only(t, A), e)
        /\ e \notin A => Only(Append(t, e), A) = Only(t, A)
    BY OnlyAppend, Zenon
  <2>6. /\ e \in B => Only(Append(t, e), B) = Append(Only(t, B), e)
        /\ e \notin B => Only(Append(t, e), B) = Only(t, B)
    BY OnlyAppend, Zenon
  <2> QED
    BY <2>3, <2>4, <2>5, <2>6
<1> HIDE DEF G
<1>3. \A t \in Seq(S) : t \in G
  BY <1>1, <1>2, AppendInduction
<1> QED
  BY <1>3 DEF G

LEMMA OnlyNone ==
  ASSUME NEW S, NEW T, NEW s \in Seq(S), ToSet(s) \cap T = {}
  PROVE  Only(s, T) = << >>
<1>1. Only(s, T) \in Seq(S) /\ ToSet(Only(s, T)) = {}
  BY OnlySeq, OnlyMember
<1>2. \A x \in Seq(S) : ToSet(x) = {} => x = << >>
  <2> SUFFICES ASSUME NEW x \in Seq(S), ToSet(x) = {} PROVE x = << >>
    OBVIOUS
  <2>1. \A y : y \in ToSet(x) <=> \E i \in 1 .. Len(x) : y = x[i]
    BY ToSetIn
  <2>2. Len(x) = 0
    <3>1. Len(x) \in Nat
      OBVIOUS
    <3>2. ASSUME Len(x) # 0 PROVE FALSE
      <4>1. 1 \in 1 .. Len(x)
        BY <3>1, <3>2
      <4> QED
        BY <2>1, <4>1
    <3> QED
      BY <3>2
  <2> QED
    BY <2>2
<1> QED
  BY <1>1, <1>2

-----------------------------------------------------------------------------
(* The room of a sequence of entries.                                      *)

LEMMA EntryFacts ==
  ASSUME NEW e \in Entries
  PROVE  /\ e.field \in HeaderFields /\ e.seq \in 0 .. SeqWrap - 1
         /\ EntryRoom[e.field] \in Nat /\ EntryRoom[e.field] >= 1
<1>1. e.field \in HeaderFields /\ e.seq \in 0 .. SeqWrap - 1
  BY DEF Entries
<1>2. EntryRoom \in [HeaderFields -> Nat \ {0}]
  BY HpackTableAssumption
<1> QED
  BY <1>1, <1>2

LEMMA RoomNat == \A s \in Seq(Entries) : RoomOf(s) \in Nat
<1> DEFINE G == {s \in Seq(Entries) : RoomOf(s) \in Nat}
<1>1. << >> \in G
  BY RoomAppend
<1>2. \A s \in Seq(Entries) : s \in G => \A e \in Entries : Append(s, e) \in G
  <2> SUFFICES ASSUME NEW s \in Seq(Entries), s \in G, NEW e \in Entries
               PROVE  Append(s, e) \in G
    OBVIOUS
  <2>1. RoomOf(s) \in Nat
    OBVIOUS
  <2>2. RoomOf(Append(s, e)) = RoomOf(s) + EntryRoom[e.field]
    BY RoomAppend
  <2>3. RoomOf(Append(s, e)) \in Nat
    BY <2>1, <2>2, EntryFacts
  <2>4. Append(s, e) \in Seq(Entries)
    OBVIOUS
  <2> QED
    BY <2>3, <2>4
<1> HIDE DEF G
<1>3. \A s \in Seq(Entries) : s \in G
  BY <1>1, <1>2, AppendInduction
<1> QED
  BY <1>3 DEF G

LEMMA RoomConcat ==
  ASSUME NEW a \in Seq(Entries)
  PROVE  \A b \in Seq(Entries) : RoomOf(a \o b) = RoomOf(a) + RoomOf(b)
<1> DEFINE G == {b \in Seq(Entries) : RoomOf(a \o b) = RoomOf(a) + RoomOf(b)}
<1>0. RoomOf(a) \in Nat
  BY RoomNat
<1>1. << >> \in G
  <2>1. a \o << >> = a /\ << >> \in Seq(Entries)
    BY ConcatAppend
  <2> QED
    BY <1>0, <2>1, RoomAppend
<1>2. \A b \in Seq(Entries) : b \in G => \A e \in Entries : Append(b, e) \in G
  <2> SUFFICES ASSUME NEW b \in Seq(Entries), b \in G, NEW e \in Entries
               PROVE  Append(b, e) \in G
    OBVIOUS
  <2>1. RoomOf(a \o b) = RoomOf(a) + RoomOf(b)
    OBVIOUS
  <2> HIDE DEF G
  <2>2. a \o Append(b, e) = Append(a \o b, e) /\ a \o b \in Seq(Entries)
    BY ConcatAppend
  <2>3. RoomOf(Append(a \o b, e)) = RoomOf(a \o b) + EntryRoom[e.field]
    BY <2>2, RoomAppend
  <2>4. RoomOf(Append(b, e)) = RoomOf(b) + EntryRoom[e.field]
    BY RoomAppend
  <2>5. RoomOf(b) \in Nat /\ EntryRoom[e.field] \in Nat
    BY RoomNat, EntryFacts
  <2>6. RoomOf(a \o Append(b, e)) = RoomOf(a) + RoomOf(Append(b, e))
    BY <1>0, <2>1, <2>2, <2>3, <2>4, <2>5
  <2>7. Append(b, e) \in Seq(Entries)
    OBVIOUS
  <2> QED
    BY <2>6, <2>7 DEF G
<1> HIDE DEF G
<1>3. \A b \in Seq(Entries) : b \in G
  BY <1>1, <1>2, AppendInduction
<1> QED
  BY <1>3 DEF G

(* Two tables with the same fields, whatever their numbers and buckets.    *)
SameFields(s, t) ==
  /\ Len(s) = Len(t)
  /\ \A k \in 1 .. Len(s) : s[k].field = t[k].field

LEMMA RoomSame ==
  \A s \in Seq(Entries) : \A t \in Seq(Entries) : SameFields(s, t) => RoomOf(s) = RoomOf(t)
<1> DEFINE P(s) == \A t \in Seq(Entries) : SameFields(s, t) => RoomOf(s) = RoomOf(t)
           G == {s \in Seq(Entries) : P(s)}
<1>1. << >> \in G
  <2>1. ASSUME NEW t \in Seq(Entries), SameFields(<< >>, t) PROVE RoomOf(<< >>) = RoomOf(t)
    <3>1. Len(t) = 0
      BY <2>1 DEF SameFields
    <3>2. t = << >>
      BY <3>1
    <3> QED
      BY <3>2
  <2>2. << >> \in Seq(Entries) /\ P(<< >>)
    BY <2>1
  <2> QED
    BY <2>2
<1>2. \A s \in Seq(Entries) : s \in G => \A e \in Entries : Append(s, e) \in G
  <2> SUFFICES ASSUME NEW s \in Seq(Entries), s \in G, NEW e \in Entries
               PROVE  Append(s, e) \in G
    OBVIOUS
  <2>1. P(s)
    OBVIOUS
  <2>2. ASSUME NEW t \in Seq(Entries), SameFields(Append(s, e), t)
        PROVE  RoomOf(Append(s, e)) = RoomOf(t)
    <3> DEFINE n == Len(s)
               r == SubSeq(t, 1, n)
               f == t[n + 1]
    <3>0. n \in Nat /\ Len(Append(s, e)) = n + 1 /\ Append(s, e)[n + 1] = e
          /\ \A k \in 1 .. n : Append(s, e)[k] = s[k]
      OBVIOUS
    <3>1. Len(t) = n + 1 /\ \A k \in 1 .. n + 1 : Append(s, e)[k].field = t[k].field
      BY <2>2, <3>0 DEF SameFields
    <3>2. r \in Seq(Entries) /\ Len(r) = n /\ f \in Entries
          /\ \A k \in 1 .. n : r[k] = t[k]
      BY <3>0, <3>1
    <3>3. t = Append(r, f)
      BY <3>0, <3>1, <3>2
    <3>4. SameFields(s, r)
      <4>1. \A k \in 1 .. n : k \in 1 .. n + 1
        BY <3>0
      <4> HIDE DEF r, f
      <4> QED
        BY <3>0, <3>1, <3>2, <4>1 DEF SameFields
    <3>5. f.field = e.field
      <4>1. n + 1 \in 1 .. n + 1
        BY <3>0
      <4> QED
        BY <3>0, <3>1, <4>1
    <3> HIDE DEF n, r, f, G
    <3>6. RoomOf(s) = RoomOf(r)
      BY <2>1, <3>2, <3>4
    <3>7. RoomOf(Append(s, e)) = RoomOf(s) + EntryRoom[e.field]
      BY RoomAppend
    <3>8. RoomOf(Append(r, f)) = RoomOf(r) + EntryRoom[f.field]
      BY <3>2, RoomAppend
    <3> QED
      BY <3>3, <3>5, <3>6, <3>7, <3>8
  <2>3. Append(s, e) \in Seq(Entries) /\ P(Append(s, e))
    BY <2>2
  <2> HIDE DEF P
  <2> QED
    BY <2>3
<1> HIDE DEF P, G
<1>3. \A s \in Seq(Entries) : s \in G
  BY <1>1, <1>2, AppendInduction
<1> QED
  BY <1>3 DEF G, P

LEMMA RoomLeast ==
  ASSUME NEW r \in Nat, \A f \in HeaderFields : r <= EntryRoom[f]
  PROVE  \A s \in Seq(Entries) : r * Len(s) <= RoomOf(s)
<1> DEFINE G == {s \in Seq(Entries) : r * Len(s) <= RoomOf(s)}
<1>1. << >> \in G
  <2>1. << >> \in Seq(Entries) /\ Len(<< >>) = 0 /\ r * 0 = 0
    OBVIOUS
  <2> QED
    BY <2>1, RoomAppend
<1>2. \A s \in Seq(Entries) : s \in G => \A e \in Entries : Append(s, e) \in G
  <2> SUFFICES ASSUME NEW s \in Seq(Entries), s \in G, NEW e \in Entries
               PROVE  Append(s, e) \in G
    OBVIOUS
  <2>1. r * Len(s) <= RoomOf(s)
    OBVIOUS
  <2>2. RoomOf(Append(s, e)) = RoomOf(s) + EntryRoom[e.field]
    BY RoomAppend
  <2>3. Len(s) \in Nat /\ Len(Append(s, e)) = Len(s) + 1 /\ Append(s, e) \in Seq(Entries)
    OBVIOUS
  <2>4. r <= EntryRoom[e.field] /\ EntryRoom[e.field] \in Nat /\ RoomOf(s) \in Nat
    BY EntryFacts, RoomNat
  <2> DEFINE n == Len(s)
             x == r * n
             y == RoomOf(s)
             z == EntryRoom[e.field]
  <2>5. r * (n + 1) = x + r /\ x \in Nat
    BY <2>3
  <2>6. r * Len(Append(s, e)) = x + r
    BY <2>3, <2>5
  <2> HIDE DEF n, x, G
  <2>7. x <= y /\ y \in Nat /\ z \in Nat /\ r <= z
    BY <2>1, <2>4 DEF x, n
  <2> HIDE DEF y, z
  <2>8. x + r <= y + z
    BY <2>5, <2>7
  <2>9. r * Len(Append(s, e)) <= RoomOf(Append(s, e))
    BY <2>2, <2>6, <2>8 DEF y, z
  <2> QED
    BY <2>3, <2>9 DEF G
<1> HIDE DEF G
<1>3. \A s \in Seq(Entries) : s \in G
  BY <1>1, <1>2, AppendInduction
<1> QED
  BY <1>3 DEF G

(* A table that fits a limit has an unused number left: every entry takes  *)
(* room, and the numbers are more than the entries that fit.               *)
LEMMA Short ==
  ASSUME NEW s \in Seq(Entries), NEW l \in Advertised, RoomOf(s) <= l
  PROVE  Len(s) < SeqWrap
<1>0. SeqWrap \in Nat /\ SeqWrap # 0
  BY HpackTableAssumption
<1>1. CASE s = << >>
  BY <1>0, <1>1
<1>2. CASE s # << >>
  <2> DEFINE R == {EntryRoom[f] : f \in HeaderFields}
  <2>1. R \in SUBSET Nat
    BY HpackTableAssumption
  <2>2. R # {}
    <3>1. s[1] \in Entries
      BY <1>2
    <3> QED
      BY <3>1, EntryFacts
  <2>3. PICK r \in R : \A x \in R : r <= x
    <3> HIDE DEF R
    <3> QED
      BY <2>1, <2>2, LeastElement
  <2>4. r \in Nat /\ \A f \in HeaderFields : r <= EntryRoom[f]
    BY <2>1, <2>3
  <2>5. PICK f \in HeaderFields : r = EntryRoom[f]
    BY <2>3
  <2>6. l < r * SeqWrap
    BY <2>5, HpackAssumption
  <2>7. r * Len(s) <= RoomOf(s)
    BY <2>4, RoomLeast
  <2>8. l \in Nat
    <3>1. CASE l = DefaultLimit
      BY <3>1, HpackAssumption
    <3>2. CASE l \in UNION {ToSet(ask) : ask \in Asks}
      <4>1. PICK ask \in Asks : l \in ToSet(ask)
        BY <3>2
      <4>2. ask \in Seq(Nat)
        BY HpackAssumption
      <4> QED
        BY <4>1, <4>2, ToSetIn
    <3> QED
      BY <3>1, <3>2 DEF Advertised
  <2> DEFINE n == Len(s)
             x == RoomOf(s)
  <2>9. n \in Nat /\ x \in Nat
    BY RoomNat
  <2> HIDE DEF n, x
  <2>10. r * n <= x /\ x <= l
    BY <2>7 DEF n, x
  <2>11. ASSUME n >= SeqWrap PROVE FALSE
    <3>1. n - SeqWrap \in Nat
      BY <1>0, <2>9, <2>11
    <3>2. r * (n - SeqWrap) >= 0
      BY <2>4, <3>1
    <3>3. r * (n - SeqWrap) = r * n - r * SeqWrap
      BY <1>0, <2>4, <2>9
    <3>4. r * n \in Nat /\ r * SeqWrap \in Nat
      BY <1>0, <2>4, <2>9
    <3> QED
      BY <2>6, <2>8, <2>9, <2>10, <3>2, <3>3, <3>4
  <2> QED
    BY <1>0, <2>9, <2>11 DEF n
<1> QED
  BY <1>1, <1>2

-----------------------------------------------------------------------------
(* A context: what its table, its numbers and its map say about each other, *)
(* whether or not the entries fit.                                         *)

HashIs(h) == {e \in Entries : e.hash = h}

Numbered(s, n) == \A k \in 1 .. Len(s) : s[k].seq = (n - k) % SeqWrap

Record(c) == c = [table |-> c.table, size |-> c.size, max |-> c.max,
                  next_seq |-> c.next_seq, map |-> c.map]

Filed(c, B) ==
  /\ Record(c)
  /\ c.table \in Seq(Entries) /\ Len(c.table) < SeqWrap
  /\ c.size = RoomOf(c.table)
  /\ c.next_seq \in 0 .. SeqWrap - 1 /\ Numbered(c.table, c.next_seq)
  /\ c.map = [h \in B |-> Only(c.table, HashIs(h))]

(* It fits, within a size that was advertised.                             *)
Fits(c) == /\ c.max \in Limits /\ c.size <= c.max
           /\ \E l \in Advertised : c.max <= l

LEMMA LimitsNat ==
  /\ Advertised \subseteq Limits /\ Limits \subseteq Nat
  /\ \A l \in Advertised : l <= UINT32_MAX
  /\ UINT32_MAX \in Nat /\ DefaultLimit \in Advertised /\ SeqWrap \in Nat /\ SeqWrap # 0
<1>1. Advertised \subseteq Nat
  <2>1. \A ask \in Asks : ToSet(ask) \subseteq Nat
    <3>1. \A ask \in Asks : ask \in Seq(Nat)
      BY HpackAssumption
    <3> QED
      BY <3>1, ToSetIn
  <2> QED
    BY <2>1, HpackAssumption DEF Advertised
<1>2. Limits \subseteq Nat
  BY <1>1, HpackAssumption DEF Limits
<1>3. DefaultLimit \in Advertised
  BY DEF Advertised
<1>4. SeqWrap \in Nat /\ SeqWrap # 0
  BY HpackTableAssumption
<1> QED
  BY <1>1, <1>2, <1>3, <1>4, HpackAssumption DEF Limits, UINT32_MAX

(* A limit shrinks to its part that is kept.                               *)
LEMMA Greatest ==
  ASSUME NEW N \in Nat, NEW T \in SUBSET (0 .. N), T # {}
  PROVE  Max(T) \in T /\ \A x \in T : x <= Max(T)
<1> DEFINE D == {N - x : x \in T}
<1>1. D \in SUBSET Nat
  OBVIOUS
<1>2. D # {}
  OBVIOUS
<1>3. PICK m \in D : \A k \in D : m <= k
  <2> HIDE DEF D
  <2> QED
    BY <1>1, <1>2, LeastElement
<1>4. PICK t \in T : m = N - t
  BY <1>3
<1>5. \A x \in T : t >= x
  <2> SUFFICES ASSUME NEW x \in T PROVE t >= x
    OBVIOUS
  <2>1. N - x \in D
    OBVIOUS
  <2>2. N - t <= N - x
    BY <1>3, <1>4, <2>1
  <2> QED
    BY <2>2
<1>6. \E x \in T : \A y \in T : x >= y
  BY <1>5
<1>7. Max(T) \in T /\ \A y \in T : Max(T) >= y
  BY <1>6, Zenon DEF Max
<1> QED
  BY <1>7

FrontRoom(c, n) == RoomOf(SubSeq(c.table, 1, n))

LEMMA RoomSplit ==
  ASSUME NEW c, NEW B, Filed(c, B), NEW n \in 0 .. Len(c.table)
  PROVE  /\ FrontRoom(c, n) \in Nat /\ FrontRoom(c, n) <= c.size
         /\ c.size - RoomOf(SubSeq(c.table, n + 1, Len(c.table))) = FrontRoom(c, n)
<1> DEFINE a == SubSeq(c.table, 1, n)
           b == SubSeq(c.table, n + 1, Len(c.table))
<1>1. c.table \in Seq(Entries) /\ c.size = RoomOf(c.table)
  BY DEF Filed
<1>2. a \in Seq(Entries) /\ b \in Seq(Entries) /\ c.table = a \o b
  BY <1>1, SplitAt
<1> HIDE DEF a, b
<1>3. RoomOf(c.table) = RoomOf(a) + RoomOf(b) /\ RoomOf(a) \in Nat /\ RoomOf(b) \in Nat
  BY <1>2, RoomConcat, RoomNat
<1>4. FrontRoom(c, n) = RoomOf(a)
  BY DEF FrontRoom, a
<1>5. c.size - RoomOf(b) = RoomOf(a) /\ RoomOf(a) <= c.size
  BY <1>1, <1>3
<1> QED
  BY <1>3, <1>4, <1>5 DEF b

(* The numbers of newest entries that leave room enough.                   *)
Fitting(c, room) ==
  {n \in 0 .. Len(c.table) : n = 0 \/ FrontRoom(c, n) + room <= c.max}

LEMMA KeptFits ==
  ASSUME NEW c, NEW B, Filed(c, B), NEW room \in Nat, c.max \in Nat
  PROVE  /\ Kept(c, room) = Max(Fitting(c, room))
         /\ Kept(c, room) \in Fitting(c, room) /\ Kept(c, room) \in 0 .. Len(c.table)
         /\ c.size + room <= c.max => Kept(c, room) = Len(c.table)
<1> DEFINE N == Len(c.table)
           T == Fitting(c, room)
<1>1. N \in Nat /\ c.table \in Seq(Entries)
  BY DEF Filed
<1>2. Kept(c, room) = Max(T)
  <2> DEFINE T2 == {n \in 0 .. N : n = 0 \/ c.size - RoomOf(SubSeq(c.table, n + 1, N)) + room <= c.max}
  <2>1. T2 = T
    <3>1. \A n \in 0 .. N :
            c.size - RoomOf(SubSeq(c.table, n + 1, N)) = FrontRoom(c, n)
      BY RoomSplit
    <3> QED
      BY <3>1 DEF Fitting
  <2>2. Kept(c, room) = Max(T2)
    BY DEF Kept
  <2> HIDE DEF T, T2
  <2> QED
    BY <2>1, <2>2
<1>3. T \in SUBSET (0 .. N) /\ T # {}
  <2>1. 0 \in T
    BY <1>1 DEF Fitting
  <2> QED
    BY <2>1 DEF Fitting
<1>4. c.size + room <= c.max => N \in T
  <2>1. SubSeq(c.table, 1, N) = c.table
    BY <1>1
  <2>2. FrontRoom(c, N) = c.size
    BY <2>1 DEF FrontRoom, Filed
  <2>3. N \in 0 .. N
    BY <1>1
  <2> QED
    BY <2>2, <2>3 DEF Fitting
<1> HIDE DEF N, T
<1>5. Max(T) \in T /\ \A x \in T : x <= Max(T)
  BY <1>1, <1>3, Greatest
<1>6. Max(T) \in 0 .. N
  BY <1>3, <1>5
<1>7. c.size + room <= c.max => Max(T) = N
  BY <1>1, <1>4, <1>5, <1>6
<1> QED
  BY <1>2, <1>5, <1>6, <1>7 DEF N, T

(* The entries of a table differ by their numbers.                         *)
LEMMA Distinct ==
  ASSUME NEW s \in Seq(Entries), Len(s) < SeqWrap, NEW n \in 0 .. SeqWrap - 1, Numbered(s, n),
         NEW i \in 1 .. Len(s), NEW j \in 1 .. Len(s), i # j
  PROVE  s[i] # s[j]
<1>1. SeqWrap \in Nat \ {0} /\ Len(s) \in Nat
  BY LimitsNat
<1>2. s[i].seq = (n - i) % SeqWrap /\ s[j].seq = (n - j) % SeqWrap
  BY DEF Numbered
<1>3. \A k \in 1 .. SeqWrap : (n - k) % SeqWrap = IF k <= n THEN n - k ELSE n - k + SeqWrap
  BY <1>1
<1>4. i \in 1 .. SeqWrap /\ j \in 1 .. SeqWrap /\ i <= Len(s) /\ j <= Len(s)
  BY <1>1
<1>5. (n - i) % SeqWrap # (n - j) % SeqWrap
  <2> DEFINE x == (n - i) % SeqWrap
             y == (n - j) % SeqWrap
             w == SeqWrap
  <2>1. x = IF i <= n THEN n - i ELSE n - i + w
    BY <1>3, <1>4
  <2>2. y = IF j <= n THEN n - j ELSE n - j + w
    BY <1>3, <1>4
  <2> HIDE DEF x, y
  <2>3. x # y
    BY <1>1, <1>4, <2>1, <2>2
  <2> QED
    BY <2>3 DEF x, y
<1> QED
  BY <1>2, <1>5

LEMMA EvictResult ==
  ASSUME NEW c, NEW B, Filed(c, B), NEW room \in Nat, c.max \in Nat
  PROVE  LET r == Evict(c, room)
             n == Kept(c, room)
         IN  /\ Filed(r, B) /\ r.max = c.max /\ r.next_seq = c.next_seq
             /\ r.table = SubSeq(c.table, 1, n)
             /\ r.size \in Nat /\ r.size <= c.size
             /\ n = 0 => r.size = 0
             /\ n # 0 => r.size + room <= c.max
             /\ c.size + room <= c.max => r.table = c.table /\ r.size = c.size
<1> DEFINE r == Evict(c, room)
           n == Kept(c, room)
           N == Len(c.table)
           a == SubSeq(c.table, 1, n)
           b == SubSeq(c.table, n + 1, N)
           M(h) == Only(c.map[h], ToSet(c.map[h]) \ ToSet(b))
<1>1. /\ Record(c) /\ c.table \in Seq(Entries) /\ N \in Nat /\ N < SeqWrap
      /\ c.map = [h \in B |-> Only(c.table, HashIs(h))] /\ c.size = RoomOf(c.table)
      /\ c.next_seq \in 0 .. SeqWrap - 1 /\ Numbered(c.table, c.next_seq)
  BY DEF Filed
<1>2. n \in Fitting(c, room) /\ n \in 0 .. N /\ (c.size + room <= c.max => n = N)
  BY KeptFits
<1>3. /\ a \in Seq(Entries) /\ b \in Seq(Entries) /\ c.table = a \o b
      /\ Len(a) = n /\ Len(b) = N - n
      /\ \A i \in 1 .. n : a[i] = c.table[i]
      /\ \A i \in 1 .. N - n : b[i] = c.table[n + i]
  <2> HIDE DEF n
  <2> QED
    BY <1>1, <1>2, SplitAt
<1>4. /\ c.size - RoomOf(b) = RoomOf(a) /\ RoomOf(a) \in Nat /\ RoomOf(a) <= c.size
  <2> HIDE DEF n
  <2> QED
    BY <1>2, RoomSplit DEF FrontRoom
<1>5. r = [table |-> a, size |-> c.size - RoomOf(b), max |-> c.max,
           next_seq |-> c.next_seq, map |-> [h \in DOMAIN c.map |-> M(h)]]
  <2>1. r = [c EXCEPT !.table = a, !.size = c.size - RoomOf(b),
                      !.map = [h \in DOMAIN c.map |-> M(h)]]
    BY Zenon DEF Evict
  <2> HIDE DEF n, a, b, r, M
  <2> QED
    BY <1>1, <2>1 DEF Record
<1> HIDE DEF n, a, b, r, M
<1>6. /\ r.table = a /\ r.size = RoomOf(a) /\ r.max = c.max /\ r.next_seq = c.next_seq
      /\ r.map = [h \in DOMAIN c.map |-> M(h)] /\ Record(r)
  BY <1>4, <1>5 DEF Record
<1>7. ASSUME NEW h \in B PROVE M(h) = Only(a, HashIs(h))
  <2> DEFINE H == HashIs(h)
             X == ToSet(c.map[h]) \ ToSet(b)
  <2>1. c.map[h] = Only(c.table, H)
    BY <1>1
  <2>2. ToSet(c.map[h]) = ToSet(c.table) \cap H
    BY <1>1, <2>1, OnlyMember
  <2>3. M(h) = Only(c.table, H \cap X)
    <3>3. M(h) = Only(c.map[h], X)
      BY DEF M
    <3> HIDE DEF H, X
    <3>1. \A s \in Seq(Entries) : Only(Only(s, H), X) = Only(s, H \cap X)
      BY OnlyTwice
    <3>2. Only(Only(c.table, H), X) = Only(c.table, H \cap X)
      BY <1>1, <3>1, Zenon
    <3> QED
      BY <2>1, <3>3, <3>2
  <2>4. Only(c.table, H \cap X) = Only(a, H \cap X) \o Only(b, H \cap X)
    <3> HIDE DEF H, X
    <3> DEFINE Y == H \cap X
    <3> HIDE DEF Y
    <3>1. \A t \in Seq(Entries) : Only(a \o t, Y) = Only(a, Y) \o Only(t, Y)
      BY <1>3, OnlyConcat, Zenon
    <3>2. Only(a \o b, Y) = Only(a, Y) \o Only(b, Y)
      BY <1>3, <3>1, Zenon
    <3> QED
      BY <1>3, <3>2, Zenon DEF Y
  <2>5. Only(b, H \cap X) = << >>
    <3>1. ToSet(b) \cap (H \cap X) = {}
      OBVIOUS
    <3> HIDE DEF H, X
    <3> QED
      BY <1>3, <3>1, OnlyNone
  <2>6. Only(a, H \cap X) = Only(a, H)
    <3>1. ASSUME NEW e \in ToSet(a) PROVE e \in ToSet(c.table) /\ e \notin ToSet(b)
      <4>1. PICK i \in 1 .. n : e = a[i]
        BY <1>3, ToSetIn
      <4>2. i \in 1 .. N /\ e = c.table[i]
        BY <1>2, <1>3, <4>1
      <4>3. e \in ToSet(c.table)
        BY <1>1, <4>2, ToSetIn
      <4>4. ASSUME e \in ToSet(b) PROVE FALSE
        <5>1. PICK j \in 1 .. N - n : e = b[j]
          BY <1>3, <4>4, ToSetIn
        <5>2. n + j \in 1 .. N /\ n + j # i /\ e = c.table[n + j]
          BY <1>1, <1>2, <1>3, <4>1, <5>1
        <5> QED
          BY <1>1, <4>2, <5>2, Distinct
      <4> QED
        BY <4>3, <4>4
    <3>2. ToSet(a) \cap (H \cap X) = ToSet(a) \cap H
      BY <2>2, <3>1
    <3> HIDE DEF H, X
    <3> QED
      BY <1>3, <3>2, OnlySame
  <2>7. Only(a, H) \in Seq(Entries)
    <3> HIDE DEF H
    <3> QED
      BY <1>3, OnlySeq
  <2>8. Only(a, H) \o << >> = Only(a, H)
    <3> DEFINE o == Only(a, H)
    <3> HIDE DEF o
    <3>1. o \in Seq(Entries)
      BY <2>7 DEF o
    <3>2. o \o << >> = o
      BY <3>1
    <3> QED
      BY <3>2 DEF o
  <2> HIDE DEF X
  <2> QED
    BY <2>3, <2>4, <2>5, <2>6, <2>8
<1>8. r.map = [h \in B |-> Only(r.table, HashIs(h))]
  <2>1. DOMAIN c.map = B
    BY <1>1
  <2> QED
    BY <1>6, <1>7, <2>1
<1>9. Numbered(a, c.next_seq) /\ Len(a) < SeqWrap
  <2>1. \A i \in 1 .. n : i \in 1 .. N
    BY <1>1, <1>2
  <2>2. SeqWrap \in Nat
    BY LimitsNat
  <2> QED
    BY <1>1, <1>2, <1>3, <2>1, <2>2 DEF Numbered
<1>10. Filed(r, B)
  BY <1>1, <1>3, <1>6, <1>8, <1>9 DEF Filed
<1>11. n = 0 => r.size = 0
  <2>1. n = 0 => a = << >>
    BY <1>3
  <2> QED
    BY <1>6, <2>1, RoomAppend
<1>12. n # 0 => r.size + room <= c.max
  <2>1. n # 0 => FrontRoom(c, n) + room <= c.max
    BY <1>2 DEF Fitting
  <2> QED
    BY <1>6, <2>1 DEF FrontRoom, a
<1>13. c.size + room <= c.max => r.table = c.table /\ r.size = c.size
  <2>1. n = N => a = c.table
    BY <1>1, <1>3
  <2> QED
    BY <1>1, <1>2, <1>6, <2>1
<1>14. r.size \in Nat /\ r.size <= c.size
  BY <1>4, <1>6
<1> QED
  BY <1>6, <1>10, <1>11, <1>12, <1>13, <1>14 DEF r, n, a

(* Which entries leave depends on the fields, the limit and the room only. *)
LEMMA EvictSame ==
  ASSUME NEW c, NEW B, Filed(c, B), NEW d, NEW E, Filed(d, E),
         SameFields(c.table, d.table), c.max = d.max, c.max \in Nat, NEW room \in Nat
  PROVE  SameFields(Evict(c, room).table, Evict(d, room).table)
<1> DEFINE N == Len(c.table)
           n == Kept(c, room)
<1>1. N \in Nat /\ Len(d.table) = N /\ c.table \in Seq(Entries) /\ d.table \in Seq(Entries)
      /\ \A k \in 1 .. N : c.table[k].field = d.table[k].field
  BY DEF Filed, SameFields
<1>2. ASSUME NEW m \in 0 .. N
      PROVE  SameFields(SubSeq(c.table, 1, m), SubSeq(d.table, 1, m))
             /\ FrontRoom(c, m) = FrontRoom(d, m)
  <2> DEFINE a == SubSeq(c.table, 1, m)
             b == SubSeq(d.table, 1, m)
  <2>1. a \in Seq(Entries) /\ Len(a) = m /\ \A k \in 1 .. m : a[k] = c.table[k]
    BY <1>1
  <2>2. b \in Seq(Entries) /\ Len(b) = m /\ \A k \in 1 .. m : b[k] = d.table[k]
    BY <1>1
  <2>3. \A k \in 1 .. m : k \in 1 .. N
    BY <1>1
  <2>4. SameFields(a, b)
    <3> HIDE DEF a, b
    <3> QED
      BY <1>1, <2>1, <2>2, <2>3 DEF SameFields
  <2>5. RoomOf(a) = RoomOf(b)
    <3> HIDE DEF a, b
    <3> QED
      BY <2>1, <2>2, <2>4, RoomSame
  <2> QED
    BY <2>4, <2>5 DEF FrontRoom
<1>3. Fitting(c, room) = Fitting(d, room)
  BY <1>1, <1>2 DEF Fitting
<1>4. n = Kept(d, room) /\ n \in 0 .. N
  BY <1>3, KeptFits
<1>5. Evict(c, room).table = SubSeq(c.table, 1, n)
  BY EvictResult
<1>6. Evict(d, room).table = SubSeq(d.table, 1, Kept(d, room))
  BY EvictResult
<1> HIDE DEF n, N
<1> QED
  BY <1>2, <1>4, <1>5, <1>6

(* A new limit.                                                            *)
Limited(c, max) == hd_context_shrink_table_size([c EXCEPT !.max = max])

LEMMA LimitedResult ==
  ASSUME NEW c, NEW B, Filed(c, B), NEW max \in Limits, \E l \in Advertised : max <= l
  PROVE  LET r == Limited(c, max)
         IN  /\ Filed(r, B) /\ Fits(r) /\ r.max = max /\ r.size <= c.size /\ r.size \in Nat
             /\ c.size <= max => r.table = c.table /\ r.size = c.size
<1> DEFINE b == [c EXCEPT !.max = max]
           r == Limited(c, max)
<1>1. b.max = max /\ b.table = c.table /\ b.size = c.size /\ Filed(b, B)
  BY DEF Filed, Record
<1>2. r = Evict(b, 0)
  BY DEF Limited, hd_context_shrink_table_size
<1>3. max \in Nat /\ c.size \in Nat
  BY LimitsNat, RoomNat DEF Filed
<1> HIDE DEF b, r
<1>4. /\ Filed(r, B) /\ r.max = max /\ r.size \in Nat /\ r.size <= c.size
      /\ Kept(b, 0) = 0 => r.size = 0
      /\ Kept(b, 0) # 0 => r.size + 0 <= max
      /\ c.size + 0 <= max => r.table = c.table /\ r.size = c.size
  <2>1. 0 \in Nat /\ b.max \in Nat
    BY <1>1, <1>3
  <2>2. LET q == Evict(b, 0)
             n == Kept(b, 0)
         IN  /\ Filed(q, B) /\ q.max = b.max /\ q.next_seq = b.next_seq
             /\ q.table = SubSeq(b.table, 1, n)
             /\ q.size \in Nat /\ q.size <= b.size
             /\ n = 0 => q.size = 0
             /\ n # 0 => q.size + 0 <= b.max
             /\ b.size + 0 <= b.max => q.table = b.table /\ q.size = b.size
    BY <1>1, <2>1, EvictResult, Zenon
  <2> QED
    BY <1>1, <1>2, <2>2
<1>5. r.size <= max
  BY <1>3, <1>4
<1> QED
  BY <1>3, <1>4, <1>5 DEF r, Fits

LEMMA LimitedSame ==
  ASSUME NEW c, NEW B, Filed(c, B), NEW d, NEW E, Filed(d, E),
         SameFields(c.table, d.table), NEW max \in Nat
  PROVE  SameFields(Limited(c, max).table, Limited(d, max).table)
<1> DEFINE a == [c EXCEPT !.max = max]
           b == [d EXCEPT !.max = max]
<1>1. a.max = max /\ a.table = c.table /\ Filed(a, B)
  BY DEF Filed, Record
<1>2. b.max = max /\ b.table = d.table /\ Filed(b, E)
  BY DEF Filed, Record
<1>3. Limited(c, max) = Evict(a, 0) /\ Limited(d, max) = Evict(b, 0)
  BY DEF Limited, hd_context_shrink_table_size
<1> HIDE DEF a, b
<1> QED
  BY <1>1, <1>2, <1>3, EvictSame

(* A new entry.                                                            *)
NewEntry(c, f, hash) == [field |-> f, seq |-> c.next_seq, hash |-> hash]

LEMMA OneEntry ==
  ASSUME NEW e \in Entries
  PROVE  /\ <<e>> \in Seq(Entries) /\ RoomOf(<<e>>) = EntryRoom[e.field]
         /\ \A T : (e \in T => Only(<<e>>, T) = <<e>>) /\ (e \notin T => Only(<<e>>, T) = << >>)
<1>1. << >> \in Seq(Entries) /\ <<e>> = Append(<< >>, e) /\ <<e>> \in Seq(Entries)
  OBVIOUS
<1>2. RoomOf(<<e>>) = 0 + EntryRoom[e.field]
  BY <1>1, RoomAppend
<1>3. ASSUME NEW T
      PROVE  (e \in T => Only(<<e>>, T) = <<e>>) /\ (e \notin T => Only(<<e>>, T) = << >>)
  <2>1. /\ e \in T => Only(Append(<< >>, e), T) = Append(Only(<< >>, T), e)
        /\ e \notin T => Only(Append(<< >>, e), T) = Only(<< >>, T)
    BY <1>1, OnlyAppend, Zenon
  <2>2. Only(<< >>, T) = << >>
    BY OnlyEmpty
  <2> QED
    BY <1>1, <2>1, <2>2, Zenon
<1>4. EntryRoom[e.field] \in Nat
  BY EntryFacts
<1> QED
  BY <1>1, <1>2, <1>3, <1>4

LEMMA Renumbered ==
  ASSUME NEW n \in 0 .. SeqWrap - 1
  PROVE  /\ (n + 1) % SeqWrap \in 0 .. SeqWrap - 1
         /\ (((n + 1) % SeqWrap) - 1) % SeqWrap = n
         /\ \A k \in 1 .. SeqWrap - 1 :
              (((n + 1) % SeqWrap) - (k + 1)) % SeqWrap = (n - k) % SeqWrap
<1> DEFINE w == SeqWrap
           m == (n + 1) % w
<1>1. w \in Nat \ {0}
  BY LimitsNat
<1>2. m = IF n + 1 = w THEN 0 ELSE n + 1
  BY <1>1
<1>3. m \in 0 .. w - 1
  BY <1>1, <1>2
<1> HIDE DEF m
<1>4. \A k \in 1 .. w : (n - k) % w = IF k <= n THEN n - k ELSE n - k + w
  BY <1>1
<1>5. \A k \in 1 .. w : (m - k) % w = IF k <= m THEN m - k ELSE m - k + w
  BY <1>1, <1>3
<1>6. (m - 1) % w = n
  <2>1. 1 \in 1 .. w
    BY <1>1
  <2>2. (m - 1) % w = IF 1 <= m THEN m - 1 ELSE m - 1 + w
    BY <1>5, <2>1
  <2> DEFINE x == (m - 1) % w
  <2> HIDE DEF x
  <2>3. x = IF 1 <= m THEN m - 1 ELSE m - 1 + w
    BY <2>2 DEF x
  <2>4. x = n
    BY <1>1, <1>2, <2>3
  <2> QED
    BY <2>4 DEF x
<1>7. ASSUME NEW k \in 1 .. w - 1 PROVE (m - (k + 1)) % w = (n - k) % w
  <2>1. k \in 1 .. w /\ k + 1 \in 1 .. w
    BY <1>1
  <2> DEFINE x == (m - (k + 1)) % w
             y == (n - k) % w
  <2>2. x = IF k + 1 <= m THEN m - (k + 1) ELSE m - (k + 1) + w
    BY <1>5, <2>1
  <2>3. y = IF k <= n THEN n - k ELSE n - k + w
    BY <1>4, <2>1
  <2> HIDE DEF x, y
  <2>4. x = y
    BY <1>1, <1>2, <1>7, <2>2, <2>3
  <2> QED
    BY <2>4 DEF x, y
<1> QED
  BY <1>3, <1>6, <1>7 DEF m

LEMMA AddResult ==
  ASSUME NEW c, NEW B, Filed(c, B), Fits(c),
         NEW f \in HeaderFields, NEW hash \in Buckets \cup {0}
  PROVE  LET r == add_hd_table_incremental(c, f, hash)
         IN  /\ Filed(r, B) /\ Fits(r) /\ r.max = c.max
             /\ EntryRoom[f] > c.max => r.table = Evict(c, EntryRoom[f]).table
             /\ ~ (EntryRoom[f] > c.max) =>
                  r.table = <<NewEntry(c, f, hash)>> \o Evict(c, EntryRoom[f]).table
<1> DEFINE r == add_hd_table_incremental(c, f, hash)
           room == EntryRoom[f]
           q == Evict(c, room)
           e == NewEntry(c, f, hash)
           t == <<e>> \o q.table
           n == Kept(c, room)
<1>1. room \in Nat /\ c.max \in Nat /\ c.max \in Limits /\ c.size <= c.max
      /\ c.next_seq \in 0 .. SeqWrap - 1
  BY HpackTableAssumption, LimitsNat DEF Fits, Filed
<1>2. /\ Filed(q, B) /\ q.max = c.max /\ q.next_seq = c.next_seq
      /\ q.size \in Nat /\ q.size <= c.size
      /\ n = 0 => q.size = 0
      /\ n # 0 => q.size + room <= c.max
  BY <1>1, EvictResult
<1> HIDE DEF q, n
<1>3. CASE room > c.max
  <2>1. r = q
    BY <1>3 DEF add_hd_table_incremental, q
  <2>2. q.size <= c.max
    <3>1. c.size \in Nat
      BY RoomNat DEF Filed
    <3> QED
      BY <1>1, <1>2, <3>1
  <2>3. Fits(r)
    BY <1>2, <2>1, <2>2 DEF Fits
  <2> HIDE DEF r
  <2> QED
    BY <1>2, <1>3, <2>1, <2>3 DEF r, q
<1>4. CASE ~ (room > c.max)
  <2> DEFINE g == (c.next_seq + 1) % SeqWrap
             M(h) == IF h = hash THEN <<e>> \o q.map[h] ELSE q.map[h]
  <2>1. e \in Entries /\ e.field = f /\ e.seq = c.next_seq /\ e.hash = hash
    BY <1>1 DEF NewEntry, Entries
  <2>2. r = [q EXCEPT !.table = t, !.size = q.size + room, !.next_seq = (q.next_seq + 1) % SeqWrap,
                      !.map = [h \in DOMAIN q.map |-> M(h)]]
    BY <1>4, Zenon DEF add_hd_table_incremental, q, NewEntry
  <2>3. /\ Record(q) /\ q.table \in Seq(Entries) /\ q.size = RoomOf(q.table)
        /\ Numbered(q.table, c.next_seq) /\ Len(q.table) < SeqWrap
        /\ q.map = [h \in B |-> Only(q.table, HashIs(h))]
    BY <1>2 DEF Filed
  <2> HIDE DEF r, e
  <2>4. /\ r.table = t /\ r.size = q.size + room /\ r.next_seq = g /\ r.max = c.max
        /\ r.map = [h \in B |-> M(h)] /\ Record(r)
    <3> HIDE DEF M, t
    <3>1. q = [table |-> q.table, size |-> q.size, max |-> q.max,
               next_seq |-> q.next_seq, map |-> q.map] /\ DOMAIN q.map = B
      BY <2>3 DEF Record
    <3>2. r = [table |-> t, size |-> q.size + room, max |-> q.max,
               next_seq |-> (q.next_seq + 1) % SeqWrap, map |-> [h \in B |-> M(h)]]
      BY <2>2, <3>1
    <3> QED
      BY <1>2, <3>2 DEF Record
  <2>5. <<e>> \in Seq(Entries) /\ RoomOf(<<e>>) = room
    BY <2>1, OneEntry
  <2>6. t \in Seq(Entries) /\ Len(t) = Len(q.table) + 1 /\ Len(q.table) \in Nat
        /\ t[1] = e /\ \A k \in 1 .. Len(q.table) : t[k + 1] = q.table[k]
    BY <2>1, <2>3
  <2>7. RoomOf(t) = room + q.size
    BY <2>3, <2>5, RoomConcat
  <2> HIDE DEF t
  <2>8. r.size = RoomOf(t) /\ r.size \in Nat
    BY <1>1, <1>2, <2>4, <2>7
  <2>9. r.size <= c.max
    <3>1. CASE n = 0
      BY <1>1, <1>2, <1>4, <2>4, <3>1
    <3>2. CASE n # 0
      BY <1>1, <1>2, <2>4, <3>2
    <3> QED
      BY <3>1, <3>2
  <2>10. Fits(r)
    BY <2>4, <2>9 DEF Fits
  <2>11. Len(t) < SeqWrap
    <3>1. PICK l \in Advertised : c.max <= l
      BY DEF Fits
    <3>2. l \in Nat
      BY LimitsNat
    <3>3. RoomOf(t) <= l
      BY <1>1, <2>8, <2>9, <3>1, <3>2
    <3> QED
      BY <2>6, <3>3, Short
  <2>12. Numbered(t, g) /\ g \in 0 .. SeqWrap - 1
    <3> HIDE DEF g
    <3>1. /\ g \in 0 .. SeqWrap - 1 /\ (g - 1) % SeqWrap = c.next_seq
          /\ \A k \in 1 .. SeqWrap - 1 : (g - (k + 1)) % SeqWrap = (c.next_seq - k) % SeqWrap
      BY <1>1, Renumbered DEF g
    <3>2. ASSUME NEW i \in 1 .. Len(t) PROVE t[i].seq = (g - i) % SeqWrap
      <4>1. CASE i = 1
        BY <2>1, <2>6, <3>1, <4>1
      <4>2. CASE i # 1
        <5> DEFINE k == i - 1
        <5>1. k \in 1 .. Len(q.table) /\ i = k + 1 /\ SeqWrap \in Nat
          BY <2>6, <4>2, LimitsNat
        <5>2. k \in 1 .. SeqWrap - 1
          BY <2>3, <2>6, <5>1
        <5> HIDE DEF k
        <5>3. t[i] = q.table[k] /\ q.table[k].seq = (c.next_seq - k) % SeqWrap
          BY <2>3, <2>6, <5>1 DEF Numbered
        <5> QED
          BY <3>1, <5>1, <5>2, <5>3
      <4> QED
        BY <4>1, <4>2
    <3> QED
      BY <3>1, <3>2 DEF Numbered
  <2>13. ASSUME NEW h \in B PROVE M(h) = Only(t, HashIs(h))
    <3> DEFINE H == HashIs(h)
               o == Only(q.table, H)
    <3>1. Only(t, H) = Only(<<e>>, H) \o o
      <4> HIDE DEF H
      <4>1. \A s \in Seq(Entries) : Only(<<e>> \o s, H) = Only(<<e>>, H) \o Only(s, H)
        BY <2>5, OnlyConcat, Zenon
      <4> QED
        BY <2>3, <4>1, Zenon DEF t
    <3>2. q.map[h] = o
      BY <2>3
    <3>3. o \in Seq(Entries)
      <4> HIDE DEF H
      <4> QED
        BY <2>3, OnlySeq
    <3>4. (e \in H => Only(<<e>>, H) = <<e>>) /\ (e \notin H => Only(<<e>>, H) = << >>)
      BY <2>1, OneEntry, Zenon
    <3>5. e \in H <=> h = hash
      BY <2>1 DEF HashIs
    <3>6. << >> \o o = o
      <4> HIDE DEF o
      <4> QED
        BY <3>3
    <3> HIDE DEF H, o
    <3> QED
      BY <3>1, <3>2, <3>4, <3>5, <3>6, Zenon DEF H
  <2>14. r.map = [h \in B |-> Only(t, HashIs(h))]
    BY <2>4, <2>13
  <2>15. Filed(r, B)
    <3> HIDE DEF g
    <3> QED
      BY <2>4, <2>6, <2>8, <2>11, <2>12, <2>14 DEF Filed
  <2> QED
    BY <1>4, <2>4, <2>10, <2>15 DEF r, e, t, q
<1> QED
  BY <1>3, <1>4

LEMMA AddSame ==
  ASSUME NEW c, NEW B, Filed(c, B), Fits(c), NEW d, NEW E, Filed(d, E), Fits(d),
         SameFields(c.table, d.table), c.max = d.max,
         NEW f \in HeaderFields, NEW g \in Buckets \cup {0}, NEW h \in Buckets \cup {0}
  PROVE  SameFields(add_hd_table_incremental(c, f, g).table,
                    add_hd_table_incremental(d, f, h).table)
<1> DEFINE room == EntryRoom[f]
           a == Evict(c, room).table
           b == Evict(d, room).table
           x == NewEntry(c, f, g)
           y == NewEntry(d, f, h)
           p == add_hd_table_incremental(c, f, g).table
           q == add_hd_table_incremental(d, f, h).table
<1>1. room \in Nat /\ c.max \in Nat
  BY HpackTableAssumption, LimitsNat DEF Fits
<1>2. SameFields(a, b)
  BY <1>1, EvictSame
<1>3. a \in Seq(Entries) /\ b \in Seq(Entries)
  <2>1. Filed(Evict(c, room), B) /\ Filed(Evict(d, room), E)
    BY <1>1, EvictResult
  <2> QED
    BY <2>1 DEF Filed
<1>4. (room > c.max => p = a) /\ (~ (room > c.max) => p = <<x>> \o a)
  BY AddResult
<1>5. (room > d.max => q = b) /\ (~ (room > d.max) => q = <<y>> \o b)
  BY AddResult
<1>6. x.field = f /\ y.field = f
  BY DEF NewEntry
<1> HIDE DEF a, b, x, y, p, q
<1>7. SameFields(<<x>> \o a, <<y>> \o b)
  <2> DEFINE u == <<x>> \o a
             v == <<y>> \o b
  <2>1. Len(a) \in Nat /\ Len(b) = Len(a) /\ \A k \in 1 .. Len(a) : a[k].field = b[k].field
    BY <1>2, <1>3 DEF SameFields
  <2>2. Len(u) = Len(a) + 1 /\ u[1] = x /\ \A k \in 1 .. Len(a) : u[k + 1] = a[k]
    BY <1>3
  <2>3. Len(v) = Len(b) + 1 /\ v[1] = y /\ \A k \in 1 .. Len(b) : v[k + 1] = b[k]
    BY <1>3
  <2> HIDE DEF u, v
  <2>4. ASSUME NEW i \in 1 .. Len(u) PROVE u[i].field = v[i].field
    <3>1. CASE i = 1
      BY <1>6, <2>2, <2>3, <3>1
    <3>2. CASE i # 1
      <4> DEFINE k == i - 1
      <4>1. k \in 1 .. Len(a) /\ i = k + 1
        BY <2>1, <2>2, <3>2
      <4> HIDE DEF k
      <4> QED
        BY <2>1, <2>2, <2>3, <4>1
    <3> QED
      BY <3>1, <3>2
  <2>5. SameFields(u, v)
    BY <2>1, <2>2, <2>3, <2>4 DEF SameFields
  <2> QED
    BY <2>5 DEF u, v
<1>8. SameFields(p, q)
  BY <1>2, <1>4, <1>5, <1>7
<1> QED
  BY <1>8 DEF p, q

-----------------------------------------------------------------------------
(* The search: what the deflater finds is at the position it names.        *)

LEMMA MinIn ==
  ASSUME NEW N, NEW T \in SUBSET (1 .. N), T # {}
  PROVE  Min(T) \in T
<1>1. T \in SUBSET Nat
  OBVIOUS
<1>2. PICK m \in T : \A k \in T : m <= k
  BY <1>1, LeastElement
<1>3. \E x \in T : \A y \in T : x <= y
  BY <1>2
<1> QED
  BY <1>3, Zenon DEF Min

(* p is a true answer for field f: nothing found, or a position whose name *)
(* is the name of f and, when exact, whose field is f.                     *)
Answers(c, f, p) ==
  /\ p.index \in Nat /\ p.exact \in BOOLEAN
  /\ p.index # 0 => /\ IndexValid(c, p.index)
                    /\ nghttp2_hd_table_get(c, p.index).name = f.name
  /\ p.exact => p.index # 0 /\ nghttp2_hd_table_get(c, p.index) = f

LEMMA StaticAnswers ==
  ASSUME NEW c, NEW B, Filed(c, B), NEW f, NEW nameOnly \in BOOLEAN
  PROVE  Answers(c, f, search_static_table(f, nameOnly))
<1> DEFINE named == {i \in 1 .. StaticLength : StaticTable[i].name = f.name}
           exact == {i \in named : ~nameOnly /\ StaticTable[i] = f}
           s == IF exact # {} THEN exact ELSE named
           p == search_static_table(f, nameOnly)
<1>1. StaticLength \in Nat /\ Len(c.table) \in Nat
  BY HpackTableAssumption DEF StaticLength, Filed
<1>2. p = IF named = {} THEN NotFound ELSE [index |-> Min(s), exact |-> exact # {}]
  BY DEF search_static_table
<1>3. CASE named = {}
  BY <1>2, <1>3 DEF Answers, NotFound
<1>4. CASE named # {}
  <2>1. s \in SUBSET (1 .. StaticLength) /\ s # {} /\ s \subseteq named
    BY <1>4
  <2>2. Min(s) \in s
    <3> HIDE DEF s
    <3> QED
      BY <2>1, MinIn
  <2> DEFINE k == Min(s)
  <2>3. k \in named /\ (exact # {} => k \in exact)
    BY <2>1, <2>2
  <2> HIDE DEF s
  <2>4. p.index = k /\ p.exact = (exact # {})
    BY <1>2, <1>4
  <2> HIDE DEF k, p
  <2>5. k \in Nat /\ k # 0 /\ k <= StaticLength /\ StaticTable[k].name = f.name
        /\ (exact # {} => StaticTable[k] = f)
    BY <1>1, <2>3
  <2>6. nghttp2_hd_table_get(c, k) = StaticTable[k]
    BY <1>1, <2>5 DEF nghttp2_hd_table_get
  <2>7. IndexValid(c, k)
    BY <1>1, <2>5 DEF IndexValid
  <2> HIDE DEF named, exact
  <2>8. p.exact \in BOOLEAN
    BY <2>4
  <2>9. p.exact => nghttp2_hd_table_get(c, k) = f
    BY <2>4, <2>5, <2>6
  <2> QED
    BY <2>4, <2>5, <2>6, <2>7, <2>8, <2>9 DEF Answers, p
<1> QED
  BY <1>3, <1>4

(* The number of an entry gives its position back.                         *)
LEMMA Position ==
  ASSUME NEW n \in 0 .. SeqWrap - 1, NEW k \in 1 .. SeqWrap - 1
  PROVE  (n - ((n - k) % SeqWrap)) % SeqWrap = k
<1> DEFINE w == SeqWrap
           m == (n - k) % w
<1>1. w \in Nat \ {0}
  BY LimitsNat
<1>2. m = IF k <= n THEN n - k ELSE n - k + w
  BY <1>1
<1>3. m \in 0 .. w - 1
  BY <1>1, <1>2
<1> HIDE DEF m
<1>4. \A x \in 0 .. w - 1 : x % w = x
  BY <1>1
<1>5. \A x \in 1 .. w : (n - x) % w = IF x <= n THEN n - x ELSE n - x + w
  BY <1>1
<1>6. CASE m = 0
  <2>1. n - m = n /\ n % w = n /\ n = k
    BY <1>1, <1>2, <1>4, <1>6
  <2> QED
    BY <2>1 DEF m
<1>7. CASE m # 0
  <2>1. m \in 1 .. w
    BY <1>1, <1>3, <1>7
  <2>2. (n - m) % w = IF m <= n THEN n - m ELSE n - m + w
    BY <1>5, <2>1
  <2> DEFINE x == (n - m) % w
  <2> HIDE DEF x
  <2>3. x = IF m <= n THEN n - m ELSE n - m + w
    BY <2>2 DEF x
  <2>4. x = k
    BY <1>1, <1>2, <1>3, <2>3
  <2> QED
    BY <2>4 DEF x, m
<1> QED
  BY <1>6, <1>7

LEMMA SearchAnswers ==
  ASSUME NEW c, Filed(c, Buckets), NEW f \in HeaderFields, NEW nameOnly \in BOOLEAN
  PROVE  Answers(c, f, search_hd_table(c, f, nameOnly))
<1> DEFINE h      == Hash[f.name]
           bucket == c.map[h]
           named  == {i \in 1 .. Len(bucket) : bucket[i].field.name = f.name}
           exact  == {i \in named : ~nameOnly /\ bucket[i].field = f}
           s      == IF exact # {} THEN exact ELSE named
           found  == hd_map_find(c, f, nameOnly)
           static == search_static_table(f, nameOnly)
           p      == search_hd_table(c, f, nameOnly)
           k      == CHOOSE e \in found.entries : TRUE
<1>1. /\ c.table \in Seq(Entries) /\ Len(c.table) < SeqWrap /\ Len(c.table) \in Nat
      /\ c.next_seq \in 0 .. SeqWrap - 1 /\ Numbered(c.table, c.next_seq)
      /\ c.map = [x \in Buckets |-> Only(c.table, HashIs(x))]
  BY DEF Filed
<1>2. StaticLength \in Nat /\ SeqWrap \in Nat
  BY HpackTableAssumption DEF StaticLength
<1>3. h \in Buckets /\ bucket = Only(c.table, HashIs(h))
  BY <1>1 DEF Buckets
<1>4. bucket \in Seq(Entries) /\ ToSet(bucket) = ToSet(c.table) \cap HashIs(h)
  BY <1>1, <1>3, OnlySeq, OnlyMember
<1>5. /\ found.exact = (exact # {})
      /\ found.entries = {bucket[Min(x)] : x \in {s} \ {{}}}
  BY DEF hd_map_find
<1>6. p = IF ~found.exact /\ static # NotFound THEN static
          ELSE IF found.entries = {} THEN NotFound
          ELSE [index |-> StaticLength + ((c.next_seq - k.seq) % SeqWrap),
                exact |-> found.exact]
  BY Zenon DEF search_hd_table
<1> HIDE DEF found, static, p, k
<1>7. CASE ~found.exact /\ static # NotFound
  <2>1. p = static
    BY <1>6, <1>7
  <2> QED
    BY <2>1, StaticAnswers DEF p, static
<1>8. CASE ~ (~found.exact /\ static # NotFound) /\ found.entries = {}
  <2>1. p = NotFound
    BY <1>6, <1>8
  <2>2. Answers(c, f, NotFound)
    BY DEF Answers, NotFound
  <2> QED
    BY <2>1, <2>2 DEF p
<1>9. CASE ~ (~found.exact /\ static # NotFound) /\ found.entries # {}
  <2>1. s # {} /\ found.entries = {bucket[Min(s)]}
    <3> HIDE DEF s, bucket
    <3> QED
      BY <1>5, <1>9
  <2>2. k = bucket[Min(s)]
    BY <2>1 DEF k
  <2>3. Min(s) \in s
    <3>1. s \in SUBSET (1 .. Len(bucket))
      OBVIOUS
    <3> HIDE DEF s, bucket
    <3> QED
      BY <2>1, <3>1, MinIn
  <2> DEFINE m == Min(s)
  <2>4. m \in named /\ (exact # {} => m \in exact)
    BY <2>3
  <2> HIDE DEF s, m
  <2>5. m \in 1 .. Len(bucket) /\ bucket[m].field.name = f.name
        /\ (exact # {} => bucket[m].field = f)
    BY <2>4
  <2> HIDE DEF named, exact, bucket, h
  <2>6. k = bucket[m]
    BY <2>2 DEF m
  <2>7. k \in ToSet(bucket)
    BY <1>4, <2>5, <2>6, ToSetIn
  <2>8. k \in ToSet(c.table)
    BY <1>4, <2>7
  <2>9. PICK j \in 1 .. Len(c.table) : k = c.table[j]
    BY <1>1, <2>8, ToSetIn
  <2>10. j \in 1 .. SeqWrap - 1
    BY <1>1, <1>2
  <2>11. (c.next_seq - k.seq) % SeqWrap = j
    <3>1. k.seq = (c.next_seq - j) % SeqWrap
      BY <1>1, <2>9 DEF Numbered
    <3> QED
      BY <1>1, <2>10, <3>1, Position
  <2>12. p.index = StaticLength + j /\ p.exact = found.exact
    BY <1>6, <1>9, <2>11
  <2>13. nghttp2_hd_table_get(c, StaticLength + j) = k.field
    <3>1. StaticLength + j > StaticLength /\ (StaticLength + j) - StaticLength = j
      BY <1>1, <1>2
    <3> QED
      BY <2>9, <3>1 DEF nghttp2_hd_table_get
  <2>14. IndexValid(c, StaticLength + j) /\ StaticLength + j # 0 /\ StaticLength + j \in Nat
    BY <1>1, <1>2 DEF IndexValid
  <2>15. k.field.name = f.name /\ (found.exact => k.field = f) /\ found.exact \in BOOLEAN
    BY <1>5, <2>5, <2>6
  <2> HIDE DEF k
  <2>16. Answers(c, f, p)
    BY <2>12, <2>13, <2>14, <2>15 DEF Answers
  <2> QED
    BY <2>16 DEF p
<1> QED
  BY <1>7, <1>8, <1>9

-----------------------------------------------------------------------------
(* One field: the deflater's representation, read with the same table, is  *)
(* the field again and leaves the two tables with the same fields.         *)

(* The receiver's context d beside the sender's c.                         *)
Beside(c, d) ==
  /\ Filed(c, Buckets) /\ Fits(c) /\ Filed(d, {}) /\ Fits(d)
  /\ SameFields(c.table, d.table) /\ c.max = d.max

LEMMA BesideAnswers ==
  ASSUME NEW c, NEW d, Beside(c, d), NEW f, NEW p, Answers(c, f, p)
  PROVE  Answers(d, f, p)
<1>1. Len(c.table) = Len(d.table) /\ Len(c.table) \in Nat /\ StaticLength \in Nat
      /\ \A k \in 1 .. Len(c.table) : c.table[k].field = d.table[k].field
  BY HpackTableAssumption DEF Beside, Filed, SameFields, StaticLength
<1>2. \A i : IndexValid(c, i) <=> IndexValid(d, i)
  BY <1>1 DEF IndexValid
<1>3. ASSUME NEW i, IndexValid(c, i)
      PROVE  nghttp2_hd_table_get(c, i) = nghttp2_hd_table_get(d, i)
  <2>1. i \in Nat /\ i <= StaticLength + Len(c.table)
    BY <1>1, <1>3 DEF IndexValid
  <2>2. CASE i > StaticLength
    <3>1. i - StaticLength \in 1 .. Len(c.table)
      BY <1>1, <2>1, <2>2
    <3> QED
      BY <1>1, <2>2, <3>1 DEF nghttp2_hd_table_get
  <2>3. CASE ~ (i > StaticLength)
    BY <2>3 DEF nghttp2_hd_table_get
  <2> QED
    BY <2>2, <2>3
<1> QED
  BY <1>2, <1>3 DEF Answers

(* A representation that the receiver reads as f; x is the context after.  *)
ReadAs(d, repr, f, x) ==
  /\ repr.op # "size"
  /\ repr.op \in {"indexed", "indname"} => IndexValid(d, repr.index)
  /\ FieldOf(d, repr) = f /\ CommitField(d, repr) = x

LEMMA FieldRead ==
  ASSUME NEW c, NEW d, Beside(c, d), NEW f \in HeaderFields
  PROVE  LET step == deflate_nv(c, f)
         IN  \E x : ReadAs(d, step.repr, f, x) /\ Beside(step.context, x)
                    /\ step.context.max = c.max
<1> DEFINE mode == IndexingMode(c, f)
           p    == search_hd_table(c, f, mode = "never")
           step == deflate_nv(c, f)
           with == add_hd_table_incremental(c, f, Hash[f.name])
           same == add_hd_table_incremental(d, f, 0)
<1>1. Answers(c, f, p) /\ Answers(d, f, p)
  <2>1. (mode = "never") \in BOOLEAN
    OBVIOUS
  <2> HIDE DEF mode
  <2>2. Answers(c, f, p)
    BY <2>1, SearchAnswers DEF Beside
  <2> QED
    BY <2>2, BesideAnswers
<1>2. step = IF p.exact
             THEN [context |-> c, repr |-> [op |-> "indexed", index |-> p.index]]
             ELSE [context |-> IF mode = "with" THEN with ELSE c,
                   repr    |-> IF p.index = 0
                               THEN [op |-> "newname", field |-> f, mode |-> mode]
                               ELSE [op |-> "indname", index |-> p.index,
                                     value |-> f.value, mode |-> mode]]
  BY Zenon DEF deflate_nv
<1>3. Beside(with, same) /\ with.max = c.max
  <2>1. Hash[f.name] \in Buckets \cup {0} /\ 0 \in Buckets \cup {0}
    BY DEF Buckets
  <2>2. Filed(with, Buckets) /\ Fits(with) /\ with.max = c.max
    BY <2>1, AddResult DEF Beside
  <2>3. Filed(same, {}) /\ Fits(same) /\ same.max = d.max
    BY <2>1, AddResult DEF Beside
  <2>4. SameFields(with.table, same.table)
    BY <2>1, AddSame DEF Beside
  <2> QED
    BY <2>2, <2>3, <2>4 DEF Beside
<1> HIDE DEF with, same, mode, p, step
<1>4. CASE p.exact
  <2> DEFINE r == [op |-> "indexed", index |-> p.index]
  <2>1. step.context = c /\ step.repr = r
    BY <1>2, <1>4
  <2>2. IndexValid(d, p.index) /\ nghttp2_hd_table_get(d, p.index) = f
    BY <1>1, <1>4 DEF Answers
  <2>3. r.op = "indexed" /\ r.index = p.index
    OBVIOUS
  <2> HIDE DEF r
  <2>4. FieldOf(d, r) = f
    BY <2>2, <2>3 DEF FieldOf
  <2>5. CommitField(d, r) = d
    BY <2>3 DEF CommitField
  <2>6. ReadAs(d, r, f, d)
    BY <2>2, <2>3, <2>4, <2>5 DEF ReadAs
  <2> QED
    BY <2>1, <2>6 DEF step
<1>5. ASSUME ~p.exact, NEW r, r.op # "indexed", r.op # "size", r.mode = mode,
             r.op = "indname" => IndexValid(d, r.index),
             FieldOf(d, r) = f, step.repr = r,
             step.context = IF mode = "with" THEN with ELSE c
      PROVE  \E x : ReadAs(d, step.repr, f, x) /\ Beside(step.context, x)
                    /\ step.context.max = c.max
  <2>1. CASE mode = "with"
    <3>1. CommitField(d, r) = same
      BY <1>5, <2>1 DEF CommitField, same
    <3>2. ReadAs(d, r, f, same)
      BY <1>5, <3>1 DEF ReadAs
    <3> QED
      BY <1>3, <1>5, <2>1, <3>2
  <2>2. CASE mode # "with"
    <3>1. CommitField(d, r) = d
      BY <1>5, <2>2 DEF CommitField
    <3>2. ReadAs(d, r, f, d)
      BY <1>5, <3>1 DEF ReadAs
    <3> QED
      BY <1>5, <2>2, <3>2
  <2> QED
    BY <2>1, <2>2
<1>6. CASE ~p.exact /\ p.index = 0
  <2> DEFINE r == [op |-> "newname", field |-> f, mode |-> mode]
  <2>1. step.repr = r /\ step.context = IF mode = "with" THEN with ELSE c
    BY <1>2, <1>6
  <2>2. r.op = "newname" /\ r.field = f /\ r.mode = mode
    OBVIOUS
  <2> HIDE DEF r
  <2>3. FieldOf(d, r) = f
    BY <2>2 DEF FieldOf
  <2>4. \E x : ReadAs(d, step.repr, f, x) /\ Beside(step.context, x)
               /\ step.context.max = c.max
    <3>1. r.op # "indexed" /\ r.op # "size" /\ r.op # "indname"
      BY <2>2
    <3> QED
      BY <1>5, <1>6, <2>1, <2>2, <2>3, <3>1
  <2> QED
    BY <2>4 DEF step
<1>7. CASE ~p.exact /\ p.index # 0
  <2> DEFINE r == [op |-> "indname", index |-> p.index, value |-> f.value, mode |-> mode]
  <2>1. step.repr = r /\ step.context = IF mode = "with" THEN with ELSE c
    BY <1>2, <1>7
  <2>2. r.op = "indname" /\ r.index = p.index /\ r.value = f.value /\ r.mode = mode
    OBVIOUS
  <2>3. IndexValid(d, p.index) /\ nghttp2_hd_table_get(d, p.index).name = f.name
    BY <1>1, <1>7 DEF Answers
  <2> HIDE DEF r
  <2>4. FieldOf(d, r) = f
    <3>1. FieldOf(d, r) = [name |-> f.name, value |-> f.value]
      BY <2>2, <2>3 DEF FieldOf
    <3> QED
      BY <3>1, HpackTableAssumption
  <2>5. \E x : ReadAs(d, step.repr, f, x) /\ Beside(step.context, x)
               /\ step.context.max = c.max
    <3>1. r.op # "indexed" /\ r.op # "size"
      BY <2>2
    <3> QED
      BY <1>5, <1>7, <2>1, <2>2, <2>3, <2>4, <3>1
  <2> QED
    BY <2>5 DEF step
<1> QED
  BY <1>4, <1>6, <1>7, Zenon

-----------------------------------------------------------------------------
(* The two ends. A reader is an inflater between two blocks that has not   *)
(* failed; in step with it is a deflater whose next block it will read.    *)

IsDeflater(d) == d = [ctx |-> d.ctx, limit |-> d.limit, min |-> d.min, notify |-> d.notify]

IsInflater(x) == x = [ctx |-> x.ctx, settings |-> x.settings, min |-> x.min,
                      state |-> x.state, bad |-> x.bad]

Reader(x) ==
  /\ IsInflater(x) /\ Filed(x.ctx, {}) /\ Fits(x.ctx)
  /\ x.settings \in Limits /\ x.ctx.max <= x.settings
  /\ x.min \in Limits \cup {UINT32_MAX} /\ x.bad = FALSE
  /\ x.state \in {"START", "EXPECT_TABLE_SIZE"}

(* The tables have the same fields. What the deflater announces, the       *)
(* smallest limit since its last block and then the limit in force, is     *)
(* within what the reader accepts and evicts nothing; when there is        *)
(* nothing to announce the reader waits for nothing.                       *)
InStep(d, x) ==
  /\ IsDeflater(d) /\ Filed(d.ctx, Buckets) /\ Fits(d.ctx)
  /\ d.limit \in DeflateLimits /\ d.notify \in BOOLEAN
  /\ d.min \in Limits \cup {UINT32_MAX}
  /\ Reader(x)
  /\ SameFields(d.ctx.table, x.ctx.table)
  /\ d.ctx.max <= d.limit /\ d.ctx.max <= x.settings
  /\ d.ctx.size <= d.min /\ d.min <= x.min
  /\ ~d.notify => /\ d.min = UINT32_MAX /\ x.min = UINT32_MAX
                  /\ x.state = "START" /\ x.ctx.max = d.ctx.max

(* In the middle of a block: one limit in force, nothing to announce.      *)
Going(d, x) ==
  /\ IsDeflater(d) /\ IsInflater(x) /\ Beside(d.ctx, x.ctx)
  /\ d.limit \in DeflateLimits /\ x.settings \in Limits
  /\ d.ctx.max <= d.limit /\ d.ctx.max <= x.settings
  /\ d.notify = FALSE /\ d.min = UINT32_MAX /\ x.min = UINT32_MAX
  /\ x.bad = FALSE /\ x.state \in {"START", "OPCODE"}

LEMMA MinOfTwo ==
  ASSUME NEW a \in Nat, NEW b \in Nat
  PROVE  Min({a, b}) = IF a <= b THEN a ELSE b
<1>1. \E x \in {a, b} : \A y \in {a, b} : x <= y
  OBVIOUS
<1> DEFINE m == Min({a, b})
<1>2. m \in {a, b} /\ \A y \in {a, b} : m <= y
  BY <1>1, Zenon DEF Min
<1> HIDE DEF m
<1>3. m = IF a <= b THEN a ELSE b
  BY <1>2
<1> QED
  BY <1>3 DEF m

SizeRepr(n) == [op |-> "size", size |-> n]

(* y is x after it accepted the limit n, which evicted nothing.            *)
Updated(x, n, o, y) ==
  /\ InflateRepr([inflater |-> x, out |-> o], SizeRepr(n)) = [inflater |-> y, out |-> o]
  /\ Reader(y) /\ y.settings = x.settings /\ y.min = UINT32_MAX
  /\ y.state = "START" /\ y.ctx.max = n
  /\ y.ctx.table = x.ctx.table /\ y.ctx.size = x.ctx.size

(* x accepts n.                                                            *)
Accepts(x, n) ==
  /\ n \in Limits /\ n <= x.min /\ n <= x.settings /\ x.ctx.size <= n
  /\ \E l \in Advertised : n <= l

(* One size update.                                                        *)
LEMMA OneUpdate ==
  ASSUME NEW x, NEW n, NEW o, Reader(x), Accepts(x, n)
  PROVE  \E y : Updated(x, n, o, y)
<1> DEFINE r == SizeRepr(n)
           y == [x EXCEPT !.min = UINT32_MAX, !.state = "START",
                          !.ctx = hd_context_shrink_table_size([@ EXCEPT !.max = n])]
           c == Limited(x.ctx, n)
<1>0. /\ n \in Limits /\ n <= x.min /\ n <= x.settings /\ x.ctx.size <= n
      /\ \E l \in Advertised : n <= l
  BY DEF Accepts
<1>1. r.op = "size" /\ r.size = n
  BY DEF SizeRepr
<1> HIDE DEF r
<1>2. x.min \in Nat /\ x.settings \in Nat /\ n \in Nat /\ UINT32_MAX \in Nat
  BY <1>0, LimitsNat DEF Reader
<1>3. ~Malformed(x, r)
  <2>1. x.state # "OPCODE"
    BY DEF Reader
  <2>2. ~ (n > Min({x.min, x.settings}))
    BY <1>0, <1>2, MinOfTwo
  <2> QED
    BY <1>1, <2>1, <2>2 DEF Malformed
<1>4. InflateRepr([inflater |-> x, out |-> o], r) = [inflater |-> y, out |-> o]
  <2>1. x.bad = FALSE
    BY DEF Reader
  <2> QED
    BY <1>1, <1>3, <2>1 DEF InflateRepr
<1>5. /\ Filed(c, {}) /\ Fits(c) /\ c.max = n
      /\ c.table = x.ctx.table /\ c.size = x.ctx.size
  <2>1. LET q == Limited(x.ctx, n)
        IN  /\ Filed(q, {}) /\ Fits(q) /\ q.max = n /\ q.size <= x.ctx.size /\ q.size \in Nat
            /\ x.ctx.size <= n => q.table = x.ctx.table /\ q.size = x.ctx.size
    BY <1>0, LimitedResult, Zenon DEF Reader
  <2> QED
    BY <1>0, <2>1
<1>6. y = [ctx |-> c, settings |-> x.settings, min |-> UINT32_MAX,
           state |-> "START", bad |-> x.bad]
  <2>1. IsInflater(x)
    BY DEF Reader
  <2>2. y = [x EXCEPT !.min = UINT32_MAX, !.state = "START", !.ctx = c]
    BY DEF Limited
  <2> HIDE DEF y, c
  <2> QED
    BY <2>1, <2>2 DEF IsInflater
<1> HIDE DEF y, c
<1>7. IsInflater(y) /\ y.ctx = c /\ y.settings = x.settings /\ y.min = UINT32_MAX
      /\ y.state = "START" /\ y.bad = x.bad
  BY <1>6 DEF IsInflater
<1>8. Reader(y)
  BY <1>0, <1>5, <1>7 DEF Reader
<1> QED
  BY <1>4, <1>5, <1>7, <1>8 DEF r, Updated

(* The size updates at the head of a block.                                *)
LEMMA UpdatesRead ==
  ASSUME NEW d, NEW x, InStep(d, x)
  PROVE  /\ SizeUpdates(d) \in Seq({SizeRepr(d.min), SizeRepr(d.ctx.max)})
         /\ \E y : /\ nghttp2_hd_inflate_hd_nv(x, SizeUpdates(d)) = [inflater |-> y, out |-> << >>]
                   /\ Going(FirstStep(d).deflater, y)
<1> DEFINE e == FirstStep(d).deflater
           u == SizeRepr(d.min)
           v == SizeRepr(d.ctx.max)
           S == {u, v}
           F(s) == nghttp2_hd_inflate_hd_nv(x, s)
           P(y) == Going(e, y)
<1>1. /\ d.min \in Nat /\ d.ctx.max \in Nat /\ d.ctx.size \in Nat /\ x.ctx.size = d.ctx.size
      /\ d.ctx.max \in Limits /\ d.ctx.size <= d.ctx.max
      /\ x.min \in Nat /\ x.settings \in Nat /\ UINT32_MAX \in Nat
  <2>1. x.ctx.size = d.ctx.size /\ d.ctx.size \in Nat
    BY RoomSame, RoomNat DEF InStep, Reader, Filed
  <2> QED
    BY <2>1, LimitsNat DEF InStep, Reader, Fits
<1>2. PICK l \in Advertised : d.ctx.max <= l
  BY DEF InStep, Fits
<1>3. l \in Nat /\ l <= UINT32_MAX /\ d.ctx.max <= UINT32_MAX
  BY <1>1, <1>2, LimitsNat
<1>4. /\ IsDeflater(e) /\ e.ctx = d.ctx /\ e.limit = d.limit /\ e.notify = FALSE
      /\ e.min = UINT32_MAX
  BY DEF FirstStep, InStep, IsDeflater
<1> HIDE DEF e
<1>5. ASSUME NEW y, Reader(y), y.settings = x.settings, y.min = UINT32_MAX,
             y.state = "START", y.ctx.max = d.ctx.max, y.ctx.table = x.ctx.table
      PROVE  Going(e, y)
  <2>1. Beside(e.ctx, y.ctx)
    BY <1>4, <1>5 DEF Beside, InStep, Reader
  <2>2. d.limit \in DeflateLimits /\ d.ctx.max <= d.limit /\ d.ctx.max <= x.settings
    BY DEF InStep
  <2> QED
    BY <1>4, <1>5, <2>1, <2>2 DEF Going, Reader
<1>6. F(<< >>) = [inflater |-> x, out |-> << >>]
  BY InflateEmpty
<1>7. << >> \in Seq(S)
  OBVIOUS
<1>8. CASE ~d.notify
  <2>1. SizeUpdates(d) = << >>
    BY <1>8 DEF SizeUpdates
  <2>2. Going(e, x)
    BY <1>5, <1>8 DEF InStep
  <2> QED
    BY <1>6, <1>7, <2>1, <2>2 DEF e
<1>9. CASE d.notify /\ ~ (d.ctx.max > d.min)
  <2>1. SizeUpdates(d) = <<v>>
    BY <1>9, Zenon DEF SizeUpdates, SizeRepr
  <2>2. d.ctx.max <= x.min /\ d.ctx.max <= x.settings
    BY <1>1, <1>9 DEF InStep
  <2>3. PICK y : Updated(x, d.ctx.max, << >>, y)
    <3>1. Reader(x) /\ Accepts(x, d.ctx.max)
      BY <1>1, <1>2, <2>2 DEF InStep, Accepts
    <3> QED
      BY <3>1, OneUpdate, Zenon
  <2> HIDE DEF u, v
  <2>4. F(<<v>>) = InflateRepr(F(<< >>), v)
    <3>1. v \in S /\ <<v>> = Append(<< >>, v)
      OBVIOUS
    <3>2. F(Append(<< >>, v)) = InflateRepr(F(<< >>), v)
      <4> HIDE DEF S
      <4> QED
        BY <1>7, <3>1, InflateAppend, Zenon
    <3> QED
      BY <3>1, <3>2
  <2>5. F(<<v>>) = [inflater |-> y, out |-> << >>]
    BY <1>6, <2>3, <2>4 DEF Updated, v
  <2>6. Going(e, y)
    BY <1>5, <2>3 DEF Updated
  <2>7. <<v>> \in Seq(S)
    OBVIOUS
  <2> QED
    BY <2>1, <2>5, <2>6, <2>7 DEF e, u, v
<1>10. CASE d.notify /\ d.ctx.max > d.min
  <2>1. SizeUpdates(d) = <<u, v>>
    BY <1>10, Zenon DEF SizeUpdates, SizeRepr
  <2>2. d.min \in Limits /\ d.min <= x.min /\ d.min <= x.settings /\ x.ctx.size <= d.min
        /\ d.min <= l
    <3>1. d.min # UINT32_MAX
      BY <1>1, <1>3, <1>10
    <3>2. d.min \in Limits /\ d.min <= x.min /\ d.ctx.size <= d.min /\ d.ctx.max <= x.settings
      BY <3>1 DEF InStep
    <3>3. l \in Nat
      BY <1>3
    <3> QED
      BY <1>1, <1>2, <1>10, <3>2, <3>3
  <2>3. PICK z : Updated(x, d.min, << >>, z)
    <3>1. Reader(x) /\ Accepts(x, d.min)
      BY <2>2 DEF InStep, Accepts
    <3> QED
      BY <3>1, OneUpdate, Zenon
  <2>4. PICK y : Updated(z, d.ctx.max, << >>, y)
    <3>1. d.ctx.max <= z.min /\ d.ctx.max <= z.settings /\ z.ctx.size <= d.ctx.max
      BY <1>1, <1>3, <2>3 DEF InStep, Updated
    <3>2. Reader(z) /\ Accepts(z, d.ctx.max)
      BY <1>1, <1>2, <2>3, <3>1 DEF Accepts, Updated
    <3> QED
      BY <3>2, OneUpdate, Zenon
  <2> HIDE DEF u, v
  <2>5. F(<<u, v>>) = InflateRepr(InflateRepr(F(<< >>), u), v)
    <3>1. u \in S /\ v \in S /\ <<u>> = Append(<< >>, u) /\ <<u, v>> = Append(<<u>>, v)
          /\ <<u>> \in Seq(S)
      OBVIOUS
    <3>2. F(Append(<< >>, u)) = InflateRepr(F(<< >>), u)
      <4> HIDE DEF S
      <4> QED
        BY <1>7, <3>1, InflateAppend, Zenon
    <3>3. F(Append(<<u>>, v)) = InflateRepr(F(<<u>>), v)
      <4> HIDE DEF S
      <4> QED
        BY <3>1, InflateAppend, Zenon
    <3> HIDE DEF S, F
    <3> QED
      BY <3>1, <3>2, <3>3
  <2>6. F(<<u, v>>) = [inflater |-> y, out |-> << >>]
    <3>1. InflateRepr(F(<< >>), u) = [inflater |-> z, out |-> << >>]
      BY <1>6, <2>3 DEF Updated, u
    <3>2. InflateRepr([inflater |-> z, out |-> << >>], v) = [inflater |-> y, out |-> << >>]
      BY <2>4 DEF Updated, v
    <3> QED
      BY <2>5, <3>1, <3>2
  <2>7. Going(e, y)
    BY <1>5, <2>3, <2>4 DEF Updated
  <2>8. <<u, v>> \in Seq(S)
    OBVIOUS
  <2> QED
    BY <2>1, <2>6, <2>7, <2>8 DEF e, u, v
<1> QED
  BY <1>8, <1>9, <1>10

(* The field f is written as r and read back.                              *)
Stepped(d, x, rs, o, f, e, y, r) ==
  /\ DeflateField([deflater |-> d, reprs |-> rs], f)
       = [deflater |-> e, reprs |-> Append(rs, r)]
  /\ InflateRepr([inflater |-> x, out |-> o], r) = [inflater |-> y, out |-> Append(o, f)]
  /\ Going(e, y)

(* One field.                                                              *)
LEMMA FieldStep ==
  ASSUME NEW d, NEW x, Going(d, x), NEW f \in HeaderFields, NEW rs, NEW o
  PROVE  \E e, y, r : Stepped(d, x, rs, o, f, e, y, r)
<1> DEFINE step == deflate_nv(d.ctx, f)
           r == step.repr
           e == [d EXCEPT !.ctx = step.context]
<1>1. Beside(d.ctx, x.ctx)
  BY DEF Going
<1>2. PICK c : ReadAs(x.ctx, r, f, c) /\ Beside(step.context, c) /\ step.context.max = d.ctx.max
  BY <1>1, FieldRead
<1> DEFINE y == [x EXCEPT !.ctx = CommitField(@, r), !.state = "OPCODE"]
<1>3. DeflateField([deflater |-> d, reprs |-> rs], f) = [deflater |-> e, reprs |-> Append(rs, r)]
  BY DEF DeflateField
<1> HIDE DEF step, r
<1>4. IsDeflater(e) /\ e.ctx = step.context /\ e.limit = d.limit /\ e.min = d.min
      /\ e.notify = d.notify
  BY DEF Going, IsDeflater
<1>5. IsInflater(y) /\ y.ctx = c /\ y.settings = x.settings /\ y.min = x.min
      /\ y.bad = x.bad /\ y.state = "OPCODE"
  <2>1. CommitField(x.ctx, r) = c
    BY <1>2 DEF ReadAs
  <2>2. y = [x EXCEPT !.ctx = c, !.state = "OPCODE"]
    BY <2>1
  <2>3. IsInflater(x)
    BY DEF Going
  <2> HIDE DEF y
  <2> QED
    BY <2>2, <2>3 DEF IsInflater
<1>6. InflateRepr([inflater |-> x, out |-> o], r) = [inflater |-> y, out |-> Append(o, f)]
  <2>1. ~Malformed(x, r)
    BY <1>2 DEF Malformed, ReadAs, Going
  <2>2. x.bad = FALSE
    BY DEF Going
  <2>3. r.op # "size" /\ FieldOf(x.ctx, r) = f
    BY <1>2 DEF ReadAs
  <2> QED
    BY <2>1, <2>2, <2>3 DEF InflateRepr
<1> HIDE DEF e, y
<1>7. Going(e, y)
  BY <1>2, <1>4, <1>5 DEF Going
<1> QED
  BY <1>3, <1>6, <1>7 DEF Stepped

(* A block: the receiver reads the fields that were sent, and the two ends *)
(* are in step again.                                                      *)
ReadBlock(x, reprs, fields, y) ==
  inflate_header_block(x, reprs) = [inflater |-> y, out |-> fields]

IsSequence(s) == \E S : s \in Seq(S)

(* How far the two ends are after the fields of b.                         *)
After(d, x, b) ==
  LET sent == nghttp2_hd_deflate_hd_bufs(d, b)
  IN  \E e, rs, y :
        /\ sent = [deflater |-> e, reprs |-> rs] /\ IsSequence(rs)
        /\ nghttp2_hd_inflate_hd_nv(x, rs) = [inflater |-> y, out |-> b]
        /\ Going(e, y)

LEMMA AfterNone ==
  ASSUME NEW d, NEW x, InStep(d, x)
  PROVE  After(d, x, << >>)
<1> DEFINE e  == FirstStep(d).deflater
           rs == SizeUpdates(d)
<1>1. nghttp2_hd_deflate_hd_bufs(d, << >>) = FirstStep(d)
  BY DeflateEmpty
<1>2. FirstStep(d) = [deflater |-> e, reprs |-> rs]
  BY DEF FirstStep
<1>3. /\ rs \in Seq({SizeRepr(d.min), SizeRepr(d.ctx.max)})
      /\ \E y : /\ nghttp2_hd_inflate_hd_nv(x, rs) = [inflater |-> y, out |-> << >>]
                /\ Going(e, y)
  BY UpdatesRead, Zenon
<1> HIDE DEF e, rs
<1>4. IsSequence(rs)
  BY <1>3, Zenon DEF IsSequence
<1> QED
  BY <1>1, <1>2, <1>3, <1>4, Zenon DEF After

LEMMA AfterOne ==
  ASSUME NEW d, NEW x, NEW b \in Seq(HeaderFields), After(d, x, b), NEW f \in HeaderFields
  PROVE  After(d, x, Append(b, f))
<1>1. PICK e, rs, y :
        /\ nghttp2_hd_deflate_hd_bufs(d, b) = [deflater |-> e, reprs |-> rs]
        /\ IsSequence(rs)
        /\ nghttp2_hd_inflate_hd_nv(x, rs) = [inflater |-> y, out |-> b]
        /\ Going(e, y)
  BY Zenon DEF After
<1>2. PICK e2, y2, r : Stepped(e, y, rs, b, f, e2, y2, r)
  BY <1>1, FieldStep, Zenon
<1>3. PICK S : rs \in Seq(S)
  BY <1>1 DEF IsSequence
<1> DEFINE U == S \cup {r}
<1>4. rs \in Seq(U) /\ r \in U /\ Append(rs, r) \in Seq(U)
  BY <1>3
<1> HIDE DEF U
<1>5. IsSequence(Append(rs, r))
  BY <1>4, Zenon DEF IsSequence
<1>6. nghttp2_hd_deflate_hd_bufs(d, Append(b, f))
        = DeflateField(nghttp2_hd_deflate_hd_bufs(d, b), f)
  BY DeflateAppend, Zenon
<1>7. nghttp2_hd_inflate_hd_nv(x, Append(rs, r))
        = InflateRepr(nghttp2_hd_inflate_hd_nv(x, rs), r)
  BY <1>4, InflateAppend, Zenon
<1>8. nghttp2_hd_deflate_hd_bufs(d, Append(b, f)) = [deflater |-> e2, reprs |-> Append(rs, r)]
  BY <1>1, <1>2, <1>6 DEF Stepped
<1>9. nghttp2_hd_inflate_hd_nv(x, Append(rs, r)) = [inflater |-> y2, out |-> Append(b, f)]
  BY <1>1, <1>2, <1>7 DEF Stepped
<1>10. Going(e2, y2)
  BY <1>2 DEF Stepped
<1> QED
  BY <1>5, <1>8, <1>9, <1>10, Zenon DEF After

LEMMA BlockRead ==
  ASSUME NEW d, NEW x, InStep(d, x), NEW block \in Seq(HeaderFields)
  PROVE  LET sent == nghttp2_hd_deflate_hd_bufs(d, block)
         IN  \E y : ReadBlock(x, sent.reprs, block, y) /\ InStep(sent.deflater, y)
<1> DEFINE G == {b \in Seq(HeaderFields) : After(d, x, b)}
<1>1. After(d, x, block)
  <2>1. << >> \in G
    <3>1. << >> \in Seq(HeaderFields)
      OBVIOUS
    <3> QED
      BY <3>1, AfterNone
  <2>2. \A b \in Seq(HeaderFields) : b \in G => \A f \in HeaderFields : Append(b, f) \in G
    <3> SUFFICES ASSUME NEW b \in Seq(HeaderFields), b \in G, NEW f \in HeaderFields
                 PROVE  Append(b, f) \in G
      OBVIOUS
    <3>1. Append(b, f) \in Seq(HeaderFields)
      OBVIOUS
    <3>2. After(d, x, Append(b, f))
      BY AfterOne
    <3> QED
      BY <3>1, <3>2
  <2> HIDE DEF G
  <2>3. \A b \in Seq(HeaderFields) : b \in G
    BY <2>1, <2>2, AppendInduction
  <2> QED
    BY <2>3 DEF G
<1>2. PICK e, rs, z :
        /\ nghttp2_hd_deflate_hd_bufs(d, block) = [deflater |-> e, reprs |-> rs]
        /\ nghttp2_hd_inflate_hd_nv(x, rs) = [inflater |-> z, out |-> block]
        /\ Going(e, z)
  BY <1>1, Zenon DEF After
<1> DEFINE y == [z EXCEPT !.state = "START"]
<1>3. IsInflater(y) /\ y.ctx = z.ctx /\ y.settings = z.settings /\ y.min = z.min
      /\ y.bad = z.bad /\ y.state = "START"
  BY <1>2 DEF Going, IsInflater
<1>4. inflate_header_block(x, rs) = [inflater |-> y, out |-> block]
  <2>1. z.bad = FALSE /\ z.state # "EXPECT_TABLE_SIZE"
    BY <1>2 DEF Going
  <2> DEFINE last == [inflater |-> z, out |-> block]
  <2>2. inflate_header_block(x, rs) = [last EXCEPT !.inflater.state = "START"]
    BY <1>2, <2>1 DEF inflate_header_block
  <2> QED
    BY <2>2
<1> HIDE DEF y
<1>5. InStep(e, y)
  <2>1. /\ IsDeflater(e) /\ Beside(e.ctx, z.ctx) /\ e.limit \in DeflateLimits
        /\ z.settings \in Limits /\ e.ctx.max <= e.limit /\ e.ctx.max <= z.settings
        /\ e.notify = FALSE /\ e.min = UINT32_MAX /\ z.min = UINT32_MAX /\ z.bad = FALSE
    BY <1>2 DEF Going
  <2>2. PICK l \in Advertised : e.ctx.max <= l
    BY <2>1 DEF Beside, Fits
  <2>3. e.ctx.size <= UINT32_MAX
    <3>1. l \in Nat /\ l <= UINT32_MAX /\ e.ctx.max \in Nat /\ UINT32_MAX \in Nat
      BY <2>1, LimitsNat DEF Beside, Fits
    <3>2. e.ctx.size \in Nat /\ e.ctx.size <= e.ctx.max
      BY <2>1, RoomNat DEF Beside, Fits, Filed
    <3> QED
      BY <2>2, <3>1, <3>2
  <2>4. Reader(y)
    BY <1>3, <2>1 DEF Reader, Beside
  <2>5. UINT32_MAX <= UINT32_MAX
    BY LimitsNat
  <2> QED
    BY <1>3, <2>1, <2>3, <2>4, <2>5 DEF InStep, Beside
<1> QED
  BY <1>2, <1>4, <1>5 DEF ReadBlock

-----------------------------------------------------------------------------
(* SETTINGS_HEADER_TABLE_SIZE at both ends.                                *)

LEMMA ChangeInStep ==
  ASSUME NEW d, NEW x, InStep(d, x), NEW v \in Advertised
  PROVE  InStep(nghttp2_hd_deflate_change_table_size(d, v),
                nghttp2_hd_inflate_change_table_size(x, v))
<1> DEFINE n == IF v <= d.limit THEN v ELSE d.limit
           m == IF d.min <= n THEN d.min ELSE n
           c == Limited(d.ctx, n)
           b == Limited(x.ctx, v)
           smaller == x.ctx.max > v
           e == nghttp2_hd_deflate_change_table_size(d, v)
           y == nghttp2_hd_inflate_change_table_size(x, v)
<1>1. /\ IsDeflater(d) /\ Filed(d.ctx, Buckets) /\ Filed(x.ctx, {}) /\ IsInflater(x)
      /\ d.limit \in DeflateLimits /\ d.min \in Limits \cup {UINT32_MAX}
      /\ SameFields(d.ctx.table, x.ctx.table)
      /\ d.ctx.max <= d.limit /\ d.ctx.size <= d.min /\ d.min <= x.min
      /\ d.ctx.size <= d.ctx.max /\ x.ctx.size <= x.ctx.max
      /\ x.min \in Limits \cup {UINT32_MAX} /\ x.bad = FALSE
      /\ x.state \in {"START", "EXPECT_TABLE_SIZE"}
  BY DEF InStep, Reader, Fits
<1>2. /\ v \in Nat /\ v \in Limits /\ d.limit \in Nat /\ d.limit \in Limits /\ d.min \in Nat
      /\ x.min \in Nat /\ d.ctx.max \in Nat /\ x.ctx.max \in Nat
      /\ d.ctx.size \in Nat /\ x.ctx.size = d.ctx.size
  <2>1. d.limit \in Limits
    BY <1>1 DEF Limits
  <2>2. d.ctx.max \in Limits /\ x.ctx.max \in Limits
    BY DEF InStep, Reader, Fits
  <2>3. d.ctx.size \in Nat /\ x.ctx.size = d.ctx.size
    BY <1>1, RoomNat, RoomSame DEF Filed
  <2> QED
    BY <1>1, <2>1, <2>2, <2>3, LimitsNat
<1>3. n \in Nat /\ n \in Limits /\ n <= v /\ n <= d.limit
  BY <1>2
<1>4. m \in Nat /\ m \in Limits /\ m <= n /\ m <= d.min
  <2>1. ASSUME d.min = UINT32_MAX, d.min <= n, d.min \notin Limits PROVE FALSE
    <3>1. v <= UINT32_MAX /\ UINT32_MAX \in Nat
      BY LimitsNat
    <3>2. v = d.min
      BY <1>2, <1>3, <2>1, <3>1
    <3> QED
      BY <1>2, <2>1, <3>2
  <2> HIDE DEF n
  <2> QED
    BY <1>1, <1>2, <1>3, <2>1
<1>5. e = [d EXCEPT !.ctx = c, !.min = m, !.notify = TRUE]
  <2>1. Min({v, d.limit}) = n
    BY <1>2, MinOfTwo
  <2> HIDE DEF n
  <2>2. Min({d.min, n}) = m
    BY <1>2, <1>3, MinOfTwo
  <2> HIDE DEF m
  <2> QED
    BY <2>1, <2>2 DEF nghttp2_hd_deflate_change_table_size, Limited
<1>6. y = [x EXCEPT !.state = IF smaller THEN "EXPECT_TABLE_SIZE" ELSE @,
                    !.min = IF smaller THEN v ELSE @,
                    !.settings = v, !.ctx = b]
  BY DEF nghttp2_hd_inflate_change_table_size, Limited
<1> HIDE DEF n, m, e, y
<1>7. /\ Filed(c, Buckets) /\ Fits(c) /\ c.max = n /\ c.size <= d.ctx.size /\ c.size \in Nat
      /\ d.ctx.size <= n => c.table = d.ctx.table
  <2>1. \E l \in Advertised : n <= l
    BY <1>3
  <2>2. LET q == Limited(d.ctx, n)
        IN  /\ Filed(q, Buckets) /\ Fits(q) /\ q.max = n /\ q.size <= d.ctx.size /\ q.size \in Nat
            /\ d.ctx.size <= n => q.table = d.ctx.table /\ q.size = d.ctx.size
    BY <1>1, <1>3, <2>1, LimitedResult, Zenon
  <2> QED
    BY <2>2
<1>8. /\ Filed(b, {}) /\ Fits(b) /\ b.max = v
      /\ x.ctx.size <= v => b.table = x.ctx.table
  <2>1. \E l \in Advertised : v <= l
    BY <1>2
  <2>2. LET q == Limited(x.ctx, v)
        IN  /\ Filed(q, {}) /\ Fits(q) /\ q.max = v /\ q.size <= x.ctx.size /\ q.size \in Nat
            /\ x.ctx.size <= v => q.table = x.ctx.table /\ q.size = x.ctx.size
    BY <1>1, <1>2, <2>1, LimitedResult, Zenon
  <2> QED
    BY <2>2
<1>9. SameFields(c.table, b.table)
  <2>1. CASE v <= d.limit
    <3>1. n = v
      BY <2>1 DEF n
    <3> QED
      BY <1>1, <1>2, <3>1, LimitedSame
  <2>2. CASE ~ (v <= d.limit)
    <3>1. n = d.limit
      BY <2>2 DEF n
    <3>2. d.ctx.size <= n /\ x.ctx.size <= v
      BY <1>1, <1>2, <2>2, <3>1
    <3> QED
      BY <1>1, <1>7, <1>8, <3>2
  <2> QED
    BY <2>1, <2>2
<1> HIDE DEF c, b
<1>10. IsDeflater(e) /\ e.ctx = c /\ e.limit = d.limit /\ e.min = m /\ e.notify = TRUE
  BY <1>1, <1>5 DEF IsDeflater
<1>11. /\ IsInflater(y) /\ y.ctx = b /\ y.settings = v /\ y.bad = FALSE
       /\ y.min = (IF smaller THEN v ELSE x.min)
       /\ y.state = (IF smaller THEN "EXPECT_TABLE_SIZE" ELSE x.state)
  BY <1>1, <1>6 DEF IsInflater
<1>12. Reader(y)
  <2>1. y.min \in Limits \cup {UINT32_MAX}
    BY <1>1, <1>2, <1>11
  <2>2. y.state \in {"START", "EXPECT_TABLE_SIZE"}
    BY <1>1, <1>11
  <2>3. v <= v
    BY <1>2
  <2> QED
    BY <1>2, <1>8, <1>11, <2>1, <2>2, <2>3 DEF Reader
<1>13. e.min <= y.min
  BY <1>1, <1>2, <1>3, <1>4, <1>10, <1>11
<1>14. c.size <= m
  <2>1. c.size <= n
    BY <1>7 DEF Fits
  <2>2. c.size <= d.min
    BY <1>1, <1>2, <1>7
  <2> QED
    BY <2>1, <2>2 DEF m
<1>15. InStep(e, y)
  BY <1>1, <1>3, <1>4, <1>7, <1>9, <1>10, <1>11, <1>12, <1>13, <1>14 DEF InStep
<1> QED
  BY <1>15 DEF e, y

LEMMA AppliesInStep ==
  ASSUME NEW d, NEW x, InStep(d, x), NEW ask \in Asks
  PROVE  InStep(DeflaterApplies(d, ask), InflaterApplies(x, ask))
<1> DEFINE least == Min(ToSet(ask))
           last  == Last(ask)
           d1 == nghttp2_hd_deflate_change_table_size(d, least)
           x1 == nghttp2_hd_inflate_change_table_size(x, least)
           d2 == IF least < last THEN d1 ELSE d
           x2 == IF least < last THEN x1 ELSE x
<1>1. ask \in Seq(Nat) /\ ask # << >> /\ ToSet(ask) \subseteq Advertised
  BY HpackAssumption DEF Advertised
<1>2. last \in Advertised
  <2>1. Len(ask) \in 1 .. Len(ask)
    BY <1>1
  <2> QED
    BY <1>1, <2>1, ToSetIn DEF Last
<1>3. least \in Advertised
  <2> DEFINE T == ToSet(ask)
  <2>1. T \in SUBSET Nat /\ T # {} /\ T \subseteq Advertised
    <3>1. 1 \in 1 .. Len(ask)
      BY <1>1
    <3> QED
      BY <1>1, <3>1, ToSetIn
  <2> HIDE DEF T
  <2>2. \E m \in T : \A k \in T : m <= k
    BY <2>1, LeastElement
  <2>3. Min(T) \in T
    BY <2>2, Zenon DEF Min
  <2> QED
    BY <2>1, <2>3 DEF T
<1>4. DeflaterApplies(d, ask) = nghttp2_hd_deflate_change_table_size(d2, last)
  BY Zenon DEF DeflaterApplies
<1>5. InflaterApplies(x, ask) = nghttp2_hd_inflate_change_table_size(x2, last)
  BY Zenon DEF InflaterApplies
<1> HIDE DEF least, last
<1>6. InStep(d1, x1)
  BY <1>3, ChangeInStep, Zenon
<1> HIDE DEF d1, x1
<1>7. InStep(d2, x2)
  BY <1>6
<1> HIDE DEF d2, x2
<1>8. InStep(nghttp2_hd_deflate_change_table_size(d2, last),
             nghttp2_hd_inflate_change_table_size(x2, last))
  BY <1>2, <1>7, ChangeInStep, Zenon
<1> QED
  BY <1>4, <1>5, <1>8


-----------------------------------------------------------------------------
(* The invariant. The frames on the wire take the receiver from where it   *)
(* is to where the sender already is: an ACK applies the oldest SETTINGS   *)
(* in flight, a block is read. p[k] is the receiver after k frames, a[k]   *)
(* the number of ACKs among them; the SETTINGS after those are the ones    *)
(* that are still on their way to the sender.                              *)

Moves(frame, sent, x, i, y, j) ==
  \/ frame.type = "ACK" /\ j = i + 1 /\ y = InflaterApplies(x, sent[i + 1])
  \/ frame.type = "BLOCK" /\ j = i /\ frame.fields \in Blocks
     /\ ReadBlock(x, frame.reprs, frame.fields, y)

Path(x, w, sent, p, a) ==
  /\ p[0] = x /\ a[0] = 0
  /\ \A k \in 0 .. Len(w) : Reader(p[k]) /\ a[k] \in 0 .. Len(sent)
  /\ \A k \in 0 .. Len(w), l \in 0 .. Len(w) : k <= l => a[k] <= a[l]
  /\ \A k \in 1 .. Len(w) : Moves(w[k], sent, p[k - 1], a[k - 1], p[k], a[k])

Ahead(s, sent, n) ==
  /\ Len(s) = Len(sent) - n
  /\ \A j \in 1 .. Len(s) : s[j] = sent[n + j]

Synced(d, x, w, s, sent) ==
  \E p, a : /\ Path(x, w, sent, p, a)
            /\ InStep(d, p[Len(w)])
            /\ Ahead(s, sent, a[Len(w)])

HpackInv ==
  /\ settings \in Seq(Asks) /\ inflight \in Seq(Asks) /\ IsSequence(wire)
  /\ received \in Seq(HeaderFields)
  /\ Synced(deflater, inflater, wire, settings, inflight)

LEMMA NewInStep ==
  ASSUME NEW limit \in DeflateLimits
  PROVE  InStep(NewDeflater(limit), NewInflater)
<1> DEFINE d == NewDeflater(limit)
           x == NewInflater
           m == IF limit < DefaultLimit THEN limit ELSE DefaultLimit
<1>1. /\ DefaultLimit \in Nat /\ DefaultLimit \in Advertised /\ DefaultLimit \in Limits
      /\ limit \in Nat /\ limit \in Limits /\ UINT32_MAX \in Nat /\ DefaultLimit <= UINT32_MAX
      /\ SeqWrap \in Nat /\ SeqWrap # 0
  <2>1. limit \in Limits
    BY DEF Limits
  <2> QED
    BY <2>1, LimitsNat
<1>2. m \in Nat /\ m \in Limits /\ m <= DefaultLimit /\ m <= limit
  BY <1>1
<1>3. ASSUME NEW B, NEW l \in Limits, l <= DefaultLimit
      PROVE  Filed(NewContext(B, l), B) /\ Fits(NewContext(B, l))
  <2> DEFINE c == NewContext(B, l)
  <2>1. /\ c.table = << >> /\ c.size = 0 /\ c.max = l /\ c.next_seq = 0
        /\ c.map = [h \in B |-> << >>] /\ Record(c)
    BY DEF NewContext, Record
  <2>2. \A h \in B : Only(<< >>, HashIs(h)) = << >>
    BY OnlyEmpty
  <2>3. c.map = [h \in B |-> Only(<< >>, HashIs(h))]
    BY <2>1, <2>2
  <2>4. RoomOf(<< >>) = 0
    BY RoomAppend
  <2>5. << >> \in Seq(Entries) /\ Len(<< >>) = 0
    OBVIOUS
  <2>6. 0 < SeqWrap /\ 0 \in 0 .. SeqWrap - 1 /\ l \in Nat
    BY <1>1, <1>3, LimitsNat
  <2>7. Numbered(<< >>, 0)
    BY <2>5 DEF Numbered
  <2> HIDE DEF c
  <2>8. Filed(c, B)
    BY <2>1, <2>3, <2>4, <2>5, <2>6, <2>7 DEF Filed
  <2>9. Fits(c)
    BY <1>1, <1>3, <2>1, <2>6 DEF Fits
  <2> QED
    BY <2>8, <2>9 DEF c
<1>4. /\ IsDeflater(d) /\ d.ctx = NewContext(Buckets, m) /\ d.limit = limit
      /\ d.min = UINT32_MAX /\ d.notify = (limit < DefaultLimit)
  BY DEF NewDeflater, IsDeflater
<1>5. /\ IsInflater(x) /\ x.ctx = NewContext({}, DefaultLimit) /\ x.settings = DefaultLimit
      /\ x.min = UINT32_MAX /\ x.state = "START" /\ x.bad = FALSE
  BY DEF NewInflater, IsInflater
<1>6. /\ d.ctx.table = << >> /\ x.ctx.table = << >> /\ d.ctx.size = 0
      /\ d.ctx.max = m /\ x.ctx.max = DefaultLimit
  BY <1>4, <1>5 DEF NewContext
<1> HIDE DEF d, x
<1>7. Filed(d.ctx, Buckets) /\ Fits(d.ctx) /\ Filed(x.ctx, {}) /\ Fits(x.ctx)
  <2> HIDE DEF m
  <2>1. DefaultLimit <= DefaultLimit
    BY <1>1
  <2> QED
    BY <1>1, <1>2, <1>3, <1>4, <1>5, <2>1
<1>8. Reader(x)
  BY <1>1, <1>5, <1>6, <1>7 DEF Reader
<1>9. SameFields(d.ctx.table, x.ctx.table)
  BY <1>6 DEF SameFields
<1>10. d.notify \in BOOLEAN
  BY <1>4
<1>11. ~d.notify => x.ctx.max = d.ctx.max
  BY <1>1, <1>4, <1>6
<1> HIDE DEF m
<1>12. InStep(d, x)
  BY <1>1, <1>2, <1>4, <1>5, <1>6, <1>7, <1>8, <1>9, <1>10, <1>11 DEF InStep
<1> QED
  BY <1>12 DEF d, x

LEMMA SyncedNew ==
  ASSUME NEW d, NEW x, InStep(d, x)
  PROVE  Synced(d, x, << >>, << >>, << >>)
<1> DEFINE p == [k \in {0} |-> x]
           a == [k \in {0} |-> 0]
<1>1. Len(<< >>) = 0 /\ 0 .. 0 = {0} /\ 1 .. 0 = {}
  OBVIOUS
<1>2. p[0] = x /\ a[0] = 0
  OBVIOUS
<1>3. Reader(x)
  BY DEF InStep
<1> HIDE DEF p, a
<1>4. Path(x, << >>, << >>, p, a)
  BY <1>1, <1>2, <1>3 DEF Path
<1>5. Ahead(<< >>, << >>, a[0])
  BY <1>1, <1>2 DEF Ahead
<1> QED
  BY <1>1, <1>2, <1>4, <1>5 DEF Synced

(* A new SETTINGS frame.                                                   *)
LEMMA SyncedAsk ==
  ASSUME NEW d, NEW x, NEW w, IsSequence(w), NEW s \in Seq(Asks), NEW sent \in Seq(Asks),
         Synced(d, x, w, s, sent), NEW ask \in Asks
  PROVE  Synced(d, x, w, Append(s, ask), Append(sent, ask))
<1>1. PICK p, a : /\ Path(x, w, sent, p, a)
                  /\ InStep(d, p[Len(w)])
                  /\ Ahead(s, sent, a[Len(w)])
  BY Zenon DEF Synced
<1>2. Len(w) \in Nat
  BY DEF IsSequence
<1> DEFINE n == Len(w)
           t == Append(sent, ask)
<1>3. Len(t) = Len(sent) + 1 /\ Len(sent) \in Nat /\ \A k \in 1 .. Len(sent) : t[k] = sent[k]
  OBVIOUS
<1>4. t[Len(sent) + 1] = ask
  OBVIOUS
<1> HIDE DEF t
<1>5. /\ p[0] = x /\ a[0] = 0
      /\ \A k \in 0 .. n : Reader(p[k]) /\ a[k] \in 0 .. Len(sent)
      /\ \A k \in 0 .. n, l \in 0 .. n : k <= l => a[k] <= a[l]
      /\ \A k \in 1 .. n : Moves(w[k], sent, p[k - 1], a[k - 1], p[k], a[k])
  BY <1>1 DEF Path
<1> HIDE DEF n
<1>6. \A k \in 0 .. n : a[k] \in 0 .. Len(t)
  BY <1>3, <1>5
<1>7. ASSUME NEW k \in 1 .. n
      PROVE  Moves(w[k], t, p[k - 1], a[k - 1], p[k], a[k])
  <2>1. k - 1 \in 0 .. n /\ k \in 0 .. n
    BY <1>2 DEF n
  <2>2. a[k - 1] \in 0 .. Len(sent) /\ a[k] \in 0 .. Len(sent)
    BY <1>5, <2>1
  <2>3. a[k] = a[k - 1] + 1 => t[a[k - 1] + 1] = sent[a[k - 1] + 1]
    BY <1>3, <2>2
  <2>4. Moves(w[k], sent, p[k - 1], a[k - 1], p[k], a[k])
    BY <1>5
  <2> QED
    BY <2>3, <2>4 DEF Moves
<1>8. Path(x, w, t, p, a)
  BY <1>5, <1>6, <1>7 DEF Path, n
<1>9. Ahead(Append(s, ask), t, a[n])
  <2>1. a[n] \in 0 .. Len(sent)
    BY <1>2, <1>5 DEF n
  <2>2. Len(s) = Len(sent) - a[n] /\ \A j \in 1 .. Len(s) : s[j] = sent[a[n] + j]
    BY <1>1 DEF Ahead, n
  <2> DEFINE u == Append(s, ask)
             m == a[n]
  <2>3. Len(u) = Len(s) + 1 /\ Len(s) \in Nat /\ \A j \in 1 .. Len(s) : u[j] = s[j]
    OBVIOUS
  <2>4. u[Len(s) + 1] = ask
    OBVIOUS
  <2> HIDE DEF u, m
  <2>5. m \in 0 .. Len(sent) /\ Len(s) = Len(sent) - m
    BY <2>1, <2>2 DEF m
  <2>6. Len(u) = Len(t) - m
    BY <1>3, <2>3, <2>5
  <2>7. ASSUME NEW j \in 1 .. Len(u) PROVE u[j] = t[m + j]
    <3>1. CASE j \in 1 .. Len(s)
      <4>1. m + j \in 1 .. Len(sent)
        BY <1>3, <2>5, <3>1
      <4>2. u[j] = s[j] /\ s[j] = sent[m + j]
        BY <2>2, <2>3, <3>1 DEF m
      <4> QED
        BY <1>3, <4>1, <4>2
    <3>2. CASE j = Len(s) + 1
      <4>1. m + j = Len(sent) + 1
        BY <1>3, <2>3, <2>5, <3>2
      <4> QED
        BY <1>4, <2>4, <3>2, <4>1
    <3> QED
      BY <2>3, <3>1, <3>2
  <2> QED
    BY <2>6, <2>7 DEF Ahead, u, m
<1> QED
  BY <1>1, <1>8, <1>9 DEF Synced, t, n

(* A frame that brings the receiver to y leaves the sender in step.        *)
LEMMA SyncedSend ==
  ASSUME NEW d, NEW x, NEW w, IsSequence(w), NEW s \in Seq(Asks), NEW sent \in Seq(Asks),
         NEW p, NEW a, Path(x, w, sent, p, a), Ahead(s, sent, a[Len(w)]),
         NEW frame, NEW y, NEW j \in 0 .. Len(sent), NEW e, NEW u,
         a[Len(w)] <= j, Moves(frame, sent, p[Len(w)], a[Len(w)], y, j),
         InStep(e, y), Ahead(u, sent, j)
  PROVE  Synced(e, x, Append(w, frame), u, sent)
<1>1. PICK S : w \in Seq(S)
  BY DEF IsSequence
<1> DEFINE n == Len(w)
           v == Append(w, frame)
           q == [k \in 0 .. n + 1 |-> IF k <= n THEN p[k] ELSE y]
           b == [k \in 0 .. n + 1 |-> IF k <= n THEN a[k] ELSE j]
<1>2. n \in Nat /\ Len(v) = n + 1 /\ \A k \in 1 .. n : v[k] = w[k]
  BY <1>1
<1>3. v[n + 1] = frame
  BY <1>1
<1>4. /\ p[0] = x /\ a[0] = 0
      /\ \A k \in 0 .. n : Reader(p[k]) /\ a[k] \in 0 .. Len(sent)
      /\ \A k \in 0 .. n, l \in 0 .. n : k <= l => a[k] <= a[l]
      /\ \A k \in 1 .. n : Moves(w[k], sent, p[k - 1], a[k - 1], p[k], a[k])
  BY DEF Path
<1>5. a[n] <= j /\ Moves(frame, sent, p[n], a[n], y, j)
  OBVIOUS
<1> HIDE DEF n, v
<1>6. \A k \in 0 .. n : q[k] = p[k] /\ b[k] = a[k]
  BY <1>2
<1>7. q[n + 1] = y /\ b[n + 1] = j
  BY <1>2
<1> HIDE DEF q, b
<1>8. q[0] = x /\ b[0] = 0
  BY <1>2, <1>4, <1>6
<1>9. Reader(y)
  BY DEF InStep
<1>10. \A k \in 0 .. n + 1 : Reader(q[k]) /\ b[k] \in 0 .. Len(sent)
  <2> SUFFICES ASSUME NEW k \in 0 .. n + 1
               PROVE  Reader(q[k]) /\ b[k] \in 0 .. Len(sent)
    OBVIOUS
  <2>1. k \in 0 .. n \/ k = n + 1
    BY <1>2
  <2> QED
    BY <1>4, <1>6, <1>7, <1>9, <2>1
<1>11. \A k \in 0 .. n + 1, l \in 0 .. n + 1 : k <= l => b[k] <= b[l]
  <2> SUFFICES ASSUME NEW k \in 0 .. n + 1, NEW l \in 0 .. n + 1, k <= l
               PROVE  b[k] <= b[l]
    OBVIOUS
  <2>1. CASE l \in 0 .. n
    <3>1. k \in 0 .. n
      BY <1>2, <2>1
    <3> QED
      BY <1>4, <1>6, <2>1, <3>1
  <2>2. CASE l = n + 1 /\ k \in 0 .. n
    <3>1. a[k] <= a[n] /\ a[k] \in 0 .. Len(sent) /\ a[n] \in 0 .. Len(sent)
      BY <1>2, <1>4, <2>2
    <3>2. a[k] <= j
      BY <1>5, <3>1
    <3> QED
      BY <1>6, <1>7, <2>2, <3>2
  <2>3. CASE l = n + 1 /\ k = n + 1
    <3>1. j <= j
      OBVIOUS
    <3> QED
      BY <1>7, <2>3, <3>1
  <2> QED
    BY <1>2, <2>1, <2>2, <2>3
<1>12. \A k \in 1 .. n + 1 : Moves(v[k], sent, q[k - 1], b[k - 1], q[k], b[k])
  <2> SUFFICES ASSUME NEW k \in 1 .. n + 1
               PROVE  Moves(v[k], sent, q[k - 1], b[k - 1], q[k], b[k])
    OBVIOUS
  <2>1. CASE k \in 1 .. n
    <3>1. k - 1 \in 0 .. n /\ k \in 0 .. n
      BY <1>2, <2>1
    <3>2. q[k - 1] = p[k - 1] /\ b[k - 1] = a[k - 1] /\ q[k] = p[k] /\ b[k] = a[k]
      BY <1>6, <3>1
    <3>3. v[k] = w[k]
      BY <1>2, <2>1
    <3>4. Moves(w[k], sent, p[k - 1], a[k - 1], p[k], a[k])
      BY <1>4, <2>1
    <3> QED
      BY <3>2, <3>3, <3>4
  <2>2. CASE k = n + 1
    <3>1. k - 1 = n /\ n \in 0 .. n
      BY <1>2, <2>2
    <3>2. q[n] = p[n] /\ b[n] = a[n]
      BY <1>6, <3>1
    <3> QED
      BY <1>3, <1>5, <1>7, <2>2, <3>1, <3>2
  <2> QED
    BY <1>2, <2>1, <2>2
<1>13. Path(x, v, sent, q, b)
  BY <1>2, <1>8, <1>10, <1>11, <1>12 DEF Path
<1>14. InStep(e, q[Len(v)]) /\ Ahead(u, sent, b[Len(v)])
  BY <1>2, <1>7
<1>15. Synced(e, x, v, u, sent)
  BY <1>13, <1>14, Zenon DEF Synced
<1> QED
  BY <1>15 DEF v

(* The sender applies the oldest SETTINGS that reached it.                 *)
LEMMA SyncedAck ==
  ASSUME NEW d, NEW x, NEW w, IsSequence(w), NEW s \in Seq(Asks), NEW sent \in Seq(Asks),
         Synced(d, x, w, s, sent), s # << >>
  PROVE  Synced(DeflaterApplies(d, Head(s)), x, Append(w, [type |-> "ACK"]), Tail(s), sent)
<1>1. PICK p, a : /\ Path(x, w, sent, p, a)
                  /\ InStep(d, p[Len(w)])
                  /\ Ahead(s, sent, a[Len(w)])
  BY Zenon DEF Synced
<1> DEFINE n == Len(w)
           i == a[n]
           frame == [type |-> "ACK"]
           e == DeflaterApplies(d, Head(s))
           y == InflaterApplies(p[n], Head(s))
<1>2. n \in Nat
  BY DEF IsSequence
<1>3. i \in 0 .. Len(sent)
  BY <1>1, <1>2 DEF Path
<1> DEFINE u == Tail(s)
           ask == Head(s)
<1>4. Len(s) \in Nat /\ Len(s) >= 1 /\ ask = s[1] /\ ask \in Asks
  OBVIOUS
<1>5. Len(u) = Len(s) - 1 /\ \A k \in 1 .. Len(u) : u[k] = s[k + 1]
  OBVIOUS
<1>6. Len(s) = Len(sent) - i /\ \A k \in 1 .. Len(s) : s[k] = sent[i + k]
  BY <1>1 DEF Ahead
<1>7. InStep(e, y)
  BY <1>1, <1>4, AppliesInStep
<1> HIDE DEF n, i, u
<1>8. i + 1 \in 0 .. Len(sent) /\ i <= i + 1
  BY <1>3, <1>4, <1>6
<1>9. sent[i + 1] = ask
  BY <1>4, <1>6
<1> HIDE DEF e, ask
<1>10. Moves(frame, sent, p[n], i, y, i + 1)
  BY <1>9 DEF Moves, ask
<1>11. Ahead(u, sent, i + 1)
  <2>1. Len(u) = Len(sent) - (i + 1)
    BY <1>3, <1>4, <1>5, <1>6
  <2>2. ASSUME NEW k \in 1 .. Len(u) PROVE u[k] = sent[i + 1 + k]
    <3>1. k + 1 \in 1 .. Len(s) /\ i + (k + 1) = i + 1 + k
      BY <1>3, <1>4, <1>5
    <3>2. u[k] = s[k + 1] /\ s[k + 1] = sent[i + (k + 1)]
      BY <1>5, <1>6, <3>1
    <3> QED
      BY <3>1, <3>2
  <2> QED
    BY <2>1, <2>2 DEF Ahead
<1> HIDE DEF frame, y
<1>12. Synced(e, x, Append(w, frame), u, sent)
  BY <1>1, <1>7, <1>8, <1>10, <1>11, SyncedSend, Zenon DEF n, i
<1> QED
  BY <1>12 DEF e, frame, u

(* A block is deflated.                                                    *)
LEMMA SyncedBlock ==
  ASSUME NEW d, NEW x, NEW w, IsSequence(w), NEW s \in Seq(Asks), NEW sent \in Seq(Asks),
         Synced(d, x, w, s, sent), NEW block \in Blocks
  PROVE  LET r == nghttp2_hd_deflate_hd_bufs(d, block)
         IN  Synced(r.deflater, x,
                    Append(w, [type |-> "BLOCK", fields |-> block, reprs |-> r.reprs]),
                    s, sent)
<1>1. PICK p, a : /\ Path(x, w, sent, p, a)
                  /\ InStep(d, p[Len(w)])
                  /\ Ahead(s, sent, a[Len(w)])
  BY Zenon DEF Synced
<1> DEFINE n == Len(w)
           i == a[n]
           r == nghttp2_hd_deflate_hd_bufs(d, block)
           frame == [type |-> "BLOCK", fields |-> block, reprs |-> r.reprs]
<1>2. n \in Nat
  BY DEF IsSequence
<1>3. i \in 0 .. Len(sent) /\ i <= i
  BY <1>1, <1>2 DEF Path
<1>4. block \in Seq(HeaderFields)
  BY HpackAssumption
<1> HIDE DEF r
<1>5. PICK y : ReadBlock(p[n], r.reprs, block, y) /\ InStep(r.deflater, y)
  BY <1>1, <1>4, BlockRead DEF r
<1>6. Moves(frame, sent, p[n], i, y, i)
  BY <1>5 DEF Moves
<1> HIDE DEF n, i, frame
<1>7. Synced(r.deflater, x, Append(w, frame), s, sent)
  BY <1>1, <1>3, <1>5, <1>6, SyncedSend, Zenon DEF n, i
<1> QED
  BY <1>7 DEF frame, r

LEMMA SequenceMoves ==
  ASSUME NEW w, IsSequence(w)
  PROVE  /\ \A frame : IsSequence(Append(w, frame))
         /\ w # << >> => IsSequence(Tail(w))
<1>1. PICK S : w \in Seq(S)
  BY DEF IsSequence
<1>2. ASSUME NEW frame PROVE IsSequence(Append(w, frame))
  <2> DEFINE U == S \cup {frame}
  <2>1. Append(w, frame) \in Seq(U)
    BY <1>1
  <2> HIDE DEF U
  <2> QED
    BY <2>1, Zenon DEF IsSequence
<1>3. ASSUME w # << >> PROVE IsSequence(Tail(w))
  <2>1. Tail(w) \in Seq(S)
    BY <1>1, <1>3
  <2> QED
    BY <2>1, Zenon DEF IsSequence
<1> QED
  BY <1>2, <1>3

(* The receiver reads the frame at the head: c ACKs, so many SETTINGS      *)
(* leave the ones in flight.                                               *)
LEMMA SyncedRead ==
  ASSUME NEW d, NEW x, NEW w, IsSequence(w), w # << >>, NEW s \in Seq(Asks),
         NEW sent \in Seq(Asks), NEW p, NEW a, Path(x, w, sent, p, a),
         InStep(d, p[Len(w)]), Ahead(s, sent, a[Len(w)]),
         NEW c \in {0, 1}, a[1] = c, NEW rest \in Seq(Asks), Ahead(rest, sent, c)
  PROVE  Synced(d, p[1], Tail(w), s, rest)
<1>1. PICK S : w \in Seq(S)
  BY DEF IsSequence
<1> DEFINE n == Len(w)
           v == Tail(w)
           q == [k \in 0 .. n - 1 |-> p[k + 1]]
           b == [k \in 0 .. n - 1 |-> a[k + 1] - c]
<1>2. n \in Nat /\ n >= 1 /\ Len(v) = n - 1 /\ \A k \in 1 .. n - 1 : v[k] = w[k + 1]
  BY <1>1
<1>3. /\ \A k \in 0 .. n : Reader(p[k]) /\ a[k] \in 0 .. Len(sent)
      /\ \A k \in 0 .. n, l \in 0 .. n : k <= l => a[k] <= a[l]
      /\ \A k \in 1 .. n : Moves(w[k], sent, p[k - 1], a[k - 1], p[k], a[k])
  BY DEF Path
<1>4. /\ Len(sent) \in Nat /\ Len(rest) \in Nat /\ c \in Nat
      /\ Len(rest) = Len(sent) - c /\ \A k \in 1 .. Len(rest) : rest[k] = sent[c + k]
  BY DEF Ahead
<1>5. \A k \in 1 .. n : a[k] \in c .. Len(sent)
  <2> SUFFICES ASSUME NEW k \in 1 .. n PROVE a[k] \in c .. Len(sent)
    OBVIOUS
  <2>1. 1 \in 0 .. n /\ k \in 0 .. n /\ 1 <= k
    BY <1>2
  <2>2. a[1] <= a[k] /\ a[k] \in 0 .. Len(sent)
    BY <1>3, <2>1
  <2> QED
    BY <1>4, <2>2
<1>6. InStep(d, p[n]) /\ Ahead(s, sent, a[n])
  OBVIOUS
<1> HIDE DEF n, v
<1>7. \A k \in 0 .. n - 1 : q[k] = p[k + 1] /\ b[k] = a[k + 1] - c
  BY <1>2
<1> HIDE DEF q, b
<1>8. q[0] = p[1] /\ b[0] = 0
  BY <1>2, <1>4, <1>7
<1>9. \A k \in 0 .. n - 1 : Reader(q[k]) /\ b[k] \in 0 .. Len(rest)
  <2> SUFFICES ASSUME NEW k \in 0 .. n - 1
               PROVE  Reader(q[k]) /\ b[k] \in 0 .. Len(rest)
    OBVIOUS
  <2>1. k + 1 \in 0 .. n /\ k + 1 \in 1 .. n
    BY <1>2
  <2>2. Reader(p[k + 1]) /\ a[k + 1] \in c .. Len(sent)
    BY <1>3, <1>5, <2>1
  <2>3. a[k + 1] - c \in 0 .. Len(rest)
    BY <1>4, <2>2
  <2> QED
    BY <1>7, <2>2, <2>3
<1>10. \A k \in 0 .. n - 1, l \in 0 .. n - 1 : k <= l => b[k] <= b[l]
  <2> SUFFICES ASSUME NEW k \in 0 .. n - 1, NEW l \in 0 .. n - 1, k <= l
               PROVE  b[k] <= b[l]
    OBVIOUS
  <2>1. k + 1 \in 0 .. n /\ l + 1 \in 0 .. n /\ k + 1 <= l + 1
    BY <1>2
  <2>2. a[k + 1] <= a[l + 1] /\ a[k + 1] \in 0 .. Len(sent) /\ a[l + 1] \in 0 .. Len(sent)
    BY <1>3, <2>1
  <2>3. a[k + 1] - c <= a[l + 1] - c
    BY <1>4, <2>2
  <2> QED
    BY <1>7, <2>3
<1>11. \A k \in 1 .. n - 1 : Moves(v[k], rest, q[k - 1], b[k - 1], q[k], b[k])
  <2> SUFFICES ASSUME NEW k \in 1 .. n - 1
               PROVE  Moves(v[k], rest, q[k - 1], b[k - 1], q[k], b[k])
    OBVIOUS
  <2>1. k + 1 \in 1 .. n /\ k \in 1 .. n /\ k - 1 \in 0 .. n - 1 /\ k \in 0 .. n - 1
        /\ (k + 1) - 1 = k /\ (k - 1) + 1 = k
    BY <1>2
  <2>2. Moves(w[k + 1], sent, p[k], a[k], p[k + 1], a[k + 1])
    <3>1. Moves(w[k + 1], sent, p[(k + 1) - 1], a[(k + 1) - 1], p[k + 1], a[k + 1])
      BY <1>3, <2>1
    <3> QED
      BY <2>1, <3>1
  <2>3. q[k - 1] = p[k] /\ b[k - 1] = a[k] - c /\ q[k] = p[k + 1] /\ b[k] = a[k + 1] - c
    <3>1. q[k - 1] = p[(k - 1) + 1] /\ b[k - 1] = a[(k - 1) + 1] - c
      BY <1>7, <2>1
    <3> QED
      BY <1>7, <2>1, <3>1
  <2>4. v[k] = w[k + 1]
    BY <1>2
  <2>5. a[k] \in c .. Len(sent) /\ a[k + 1] \in c .. Len(sent)
    BY <1>5, <2>1
  <2> DEFINE i == a[k]
             j == a[k + 1]
  <2> HIDE DEF i, j
  <2>6. i \in c .. Len(sent) /\ j \in c .. Len(sent)
    BY <2>5 DEF i, j
  <2>7. CASE /\ w[k + 1].type = "ACK" /\ j = i + 1
             /\ p[k + 1] = InflaterApplies(p[k], sent[i + 1])
    <3>1. j - c = (i - c) + 1
      BY <1>4, <2>6, <2>7
    <3>2. (i - c) + 1 \in 1 .. Len(rest) /\ c + ((i - c) + 1) = i + 1
      BY <1>4, <2>6, <2>7
    <3>3. rest[(i - c) + 1] = sent[c + ((i - c) + 1)]
      BY <1>4, <3>2
    <3>4. rest[(i - c) + 1] = sent[i + 1]
      BY <3>2, <3>3
    <3> QED
      BY <2>3, <2>4, <2>7, <3>1, <3>4 DEF Moves, i, j
  <2>8. CASE /\ w[k + 1].type = "BLOCK" /\ j = i /\ w[k + 1].fields \in Blocks
             /\ ReadBlock(p[k], w[k + 1].reprs, w[k + 1].fields, p[k + 1])
    BY <2>3, <2>4, <2>8 DEF Moves, i, j
  <2> QED
    BY <2>2, <2>7, <2>8 DEF Moves, i, j
<1>12. Path(p[1], v, rest, q, b)
  BY <1>2, <1>8, <1>9, <1>10, <1>11 DEF Path
<1>13. n - 1 \in 0 .. n - 1 /\ (n - 1) + 1 = n
  BY <1>2
<1>14. q[n - 1] = p[n] /\ b[n - 1] = a[n] - c
  <2>1. q[n - 1] = p[(n - 1) + 1] /\ b[n - 1] = a[(n - 1) + 1] - c
    BY <1>7, <1>13
  <2> QED
    BY <1>13, <2>1
<1>15. Ahead(s, rest, a[n] - c)
  <2> DEFINE m == a[n]
  <2>1. m \in c .. Len(sent)
    BY <1>2, <1>5
  <2> HIDE DEF m
  <2>2. Len(s) = Len(sent) - m /\ \A j \in 1 .. Len(s) : s[j] = sent[m + j]
    BY <1>6 DEF Ahead, m
  <2>3. Len(s) = Len(rest) - (m - c)
    BY <1>4, <2>1, <2>2
  <2>4. ASSUME NEW j \in 1 .. Len(s) PROVE s[j] = rest[(m - c) + j]
    <3>1. (m - c) + j \in 1 .. Len(rest) /\ c + ((m - c) + j) = m + j
      BY <1>4, <2>1, <2>2
    <3>2. rest[(m - c) + j] = sent[c + ((m - c) + j)]
      BY <1>4, <3>1
    <3> QED
      BY <2>2, <3>1, <3>2
  <2> QED
    BY <2>3, <2>4 DEF Ahead, m
<1>16. InStep(d, q[Len(v)]) /\ Ahead(s, rest, b[Len(v)])
  BY <1>2, <1>6, <1>14, <1>15
<1>17. Synced(d, p[1], v, s, rest)
  BY <1>12, <1>16, Zenon DEF Synced
<1> QED
  BY <1>17 DEF v

(* What the receiver finds at the head of the wire.                        *)
LEMMA HeadRead ==
  ASSUME NEW d, NEW x, NEW w, IsSequence(w), w # << >>, NEW s \in Seq(Asks),
         NEW sent \in Seq(Asks), Synced(d, x, w, s, sent)
  PROVE  \/ /\ Head(w).type = "ACK" /\ Tail(sent) \in Seq(Asks)
            /\ Synced(d, InflaterApplies(x, Head(sent)), Tail(w), s, Tail(sent))
         \/ /\ Head(w).type = "BLOCK" /\ Head(w).fields \in Blocks
            /\ \E y : /\ ReadBlock(x, Head(w).reprs, Head(w).fields, y)
                      /\ Synced(d, y, Tail(w), s, sent)
<1>1. PICK p, a : /\ Path(x, w, sent, p, a)
                  /\ InStep(d, p[Len(w)])
                  /\ Ahead(s, sent, a[Len(w)])
  BY Zenon DEF Synced
<1>2. Len(w) \in Nat /\ Len(w) >= 1 /\ Head(w) = w[1]
  BY DEF IsSequence
<1>3. 1 \in 0 .. Len(w) /\ 1 \in 1 .. Len(w) /\ 1 - 1 = 0
  BY <1>2
<1>4. p[0] = x /\ a[0] = 0 /\ a[1] \in 0 .. Len(sent)
  BY <1>1, <1>3 DEF Path
<1>5. Moves(w[1], sent, p[0], a[0], p[1], a[1])
  <2>1. Moves(w[1], sent, p[1 - 1], a[1 - 1], p[1], a[1])
    BY <1>1, <1>3 DEF Path
  <2> QED
    BY <1>3, <2>1
<1>6. CASE w[1].type = "ACK"
  <2>1. a[1] = 1 /\ p[1] = InflaterApplies(x, sent[1])
    <3>1. a[1] = 0 + 1 /\ p[1] = InflaterApplies(x, sent[0 + 1])
      BY <1>4, <1>5, <1>6 DEF Moves
    <3>2. 0 + 1 = 1
      OBVIOUS
    <3> QED
      BY <3>1, <3>2
  <2>2. Len(sent) >= 1 /\ Len(sent) \in Nat
    BY <1>4, <2>1
  <2> DEFINE rest == Tail(sent)
  <2>3. rest \in Seq(Asks) /\ Len(rest) = Len(sent) - 1 /\ Head(sent) = sent[1]
        /\ \A k \in 1 .. Len(rest) : rest[k] = sent[k + 1]
    BY <2>2
  <2> HIDE DEF rest
  <2>4. Ahead(rest, sent, 1)
    BY <2>3 DEF Ahead
  <2>5. 1 \in {0, 1}
    OBVIOUS
  <2>6. Synced(d, p[1], Tail(w), s, rest)
    BY <1>1, <2>1, <2>3, <2>4, <2>5, SyncedRead, Zenon
  <2> QED
    BY <1>2, <1>6, <2>1, <2>3, <2>6 DEF rest
<1>7. CASE w[1].type = "BLOCK"
  <2>1. a[1] = 0 /\ w[1].fields \in Blocks /\ ReadBlock(x, w[1].reprs, w[1].fields, p[1])
    BY <1>4, <1>5, <1>7 DEF Moves
  <2>2. Ahead(sent, sent, 0)
    BY DEF Ahead
  <2>3. 0 \in {0, 1}
    OBVIOUS
  <2>4. Synced(d, p[1], Tail(w), s, sent)
    BY <1>1, <2>1, <2>2, <2>3, SyncedRead, Zenon
  <2> QED
    BY <1>2, <1>7, <2>1, <2>4
<1> QED
  BY <1>5, <1>6, <1>7 DEF Moves

-----------------------------------------------------------------------------
(* What is under way, as the session sees it.                              *)

BlocksOf(w) == {frame \in ToSet(w) : frame.type = "BLOCK"}
Fields(s) == [k \in 1 .. Len(s) |-> s[k].fields]
Contents(w) == Fields(Only(w, BlocksOf(w)))

LEMMA ContentsAppend ==
  ASSUME NEW w, IsSequence(w), NEW frame
  PROVE  /\ frame.type = "BLOCK" => Contents(Append(w, frame)) = Append(Contents(w), frame.fields)
         /\ frame.type # "BLOCK" => Contents(Append(w, frame)) = Contents(w)
<1>1. PICK R : w \in Seq(R)
  BY DEF IsSequence
<1> DEFINE S == R \cup {frame}
           v == Append(w, frame)
           T == BlocksOf(v)
<1>2. w \in Seq(S) /\ frame \in S
  BY <1>1
<1> HIDE DEF S
<1>3. ToSet(v) = ToSet(w) \cup {frame}
  BY <1>2, ToSetAppend
<1>4. T \cap ToSet(w) = BlocksOf(w) \cap ToSet(w)
  BY <1>3 DEF BlocksOf
<1>5. frame \in T <=> frame.type = "BLOCK"
  BY <1>3 DEF BlocksOf
<1> HIDE DEF T
<1>6. Only(w, T) = Only(w, BlocksOf(w))
  <2>1. ToSet(w) \cap T = ToSet(w) \cap BlocksOf(w)
    BY <1>4
  <2> QED
    BY <1>2, <2>1, OnlySame
<1> DEFINE o == Only(w, BlocksOf(w))
<1>7. o \in Seq(S)
  BY <1>2, OnlySeq
<1> HIDE DEF o
<1>8. /\ frame \in T => Only(v, T) = Append(o, frame)
      /\ frame \notin T => Only(v, T) = o
  <2>1. /\ frame \in T => Only(v, T) = Append(Only(w, T), frame)
        /\ frame \notin T => Only(v, T) = Only(w, T)
    BY <1>2, OnlyAppend, Zenon
  <2> QED
    BY <1>6, <2>1 DEF o
<1>9. Fields(Append(o, frame)) = Append(Fields(o), frame.fields)
  BY <1>2, <1>7 DEF Fields
<1> QED
  BY <1>5, <1>8, <1>9 DEF Contents, T, o

LEMMA ContentsRead ==
  ASSUME NEW w, IsSequence(w), w # << >>
  PROVE  /\ Head(w).type = "BLOCK" => /\ Contents(w) # << >>
                                      /\ Head(Contents(w)) = Head(w).fields
                                      /\ Tail(Contents(w)) = Contents(Tail(w))
         /\ Head(w).type # "BLOCK" => Contents(Tail(w)) = Contents(w)
<1>1. PICK S : w \in Seq(S)
  BY DEF IsSequence
<1> DEFINE h == Head(w)
           v == Tail(w)
           T == BlocksOf(w)
           one == <<h>>
<1>2. h \in S /\ v \in Seq(S) /\ one \in Seq(S) /\ w = one \o v /\ one = Append(<< >>, h)
  BY <1>1
<1>3. h \in ToSet(w) /\ ToSet(v) \subseteq ToSet(w)
  <2>1. Len(w) \in Nat /\ Len(w) >= 1 /\ h = w[1] /\ Len(v) = Len(w) - 1
        /\ \A i \in 1 .. Len(v) : v[i] = w[i + 1]
    BY <1>1
  <2> HIDE DEF h, v
  <2>2. h \in ToSet(w)
    <3>1. 1 \in 1 .. Len(w)
      BY <2>1
    <3> QED
      BY <1>1, <2>1, <3>1, ToSetIn
  <2>3. ASSUME NEW x \in ToSet(v) PROVE x \in ToSet(w)
    <3>1. PICK i \in 1 .. Len(v) : x = v[i]
      BY <1>2, ToSetIn
    <3>2. i + 1 \in 1 .. Len(w) /\ x = w[i + 1]
      BY <2>1, <3>1
    <3> QED
      BY <1>1, <3>2, ToSetIn
  <2> QED
    BY <2>2, <2>3
<1> HIDE DEF v, one
<1>4. ToSet(v) \cap T = ToSet(v) \cap BlocksOf(v)
  BY <1>3 DEF BlocksOf
<1>5. h \in T <=> h.type = "BLOCK"
  BY <1>3 DEF BlocksOf
<1> HIDE DEF T
<1> DEFINE o == Only(v, BlocksOf(v))
<1>6. Only(v, T) = o
  BY <1>2, <1>4, OnlySame
<1>7. o \in Seq(S)
  BY <1>2, OnlySeq
<1> HIDE DEF o
<1>8. Only(w, T) = Only(one, T) \o o
  BY <1>2, <1>6, OnlyConcat
<1>9. /\ h \in T => Only(one, T) = one
      /\ h \notin T => Only(one, T) = << >>
  <2>1. << >> \in Seq(S)
    OBVIOUS
  <2>2. /\ h \in T => Only(Append(<< >>, h), T) = Append(Only(<< >>, T), h)
        /\ h \notin T => Only(Append(<< >>, h), T) = Only(<< >>, T)
    BY <1>2, <2>1, OnlyAppend, Zenon
  <2>3. Only(<< >>, T) = << >>
    BY OnlyEmpty
  <2> HIDE DEF h
  <2> QED
    BY <1>2, <2>2, <2>3
<1>10. CASE h.type = "BLOCK"
  <2>1. Only(w, T) = <<h>> \o o
    BY <1>5, <1>8, <1>9, <1>10 DEF one
  <2> DEFINE u == <<h>> \o o
  <2> HIDE DEF h
  <2>2. Len(u) = Len(o) + 1 /\ u[1] = h /\ Len(o) \in Nat
        /\ \A k \in 1 .. Len(o) : u[k + 1] = o[k]
    BY <1>2, <1>7
  <2> HIDE DEF u
  <2>3. Fields(u) # << >> /\ Head(Fields(u)) = h.fields
    BY <2>2 DEF Fields
  <2>4. Tail(Fields(u)) = Fields(o)
    <3> DEFINE F == Fields(u)
    <3>1. F = [k \in 1 .. Len(o) + 1 |-> u[k].fields] /\ Len(F) = Len(o) + 1
      BY <2>2 DEF Fields
    <3>2. Tail(F) = [k \in 1 .. Len(o) |-> F[k + 1]]
      <4> HIDE DEF F
      <4>1. F \in Seq({u[k].fields : k \in 1 .. Len(o) + 1})
        BY <2>2, <3>1
      <4> QED
        BY <2>2, <3>1, <4>1
    <3>3. \A k \in 1 .. Len(o) : F[k + 1] = o[k].fields
      <4> HIDE DEF F
      <4> QED
        BY <2>2, <3>1
    <3> HIDE DEF F
    <3>4. Tail(F) = [k \in 1 .. Len(o) |-> o[k].fields]
      BY <3>2, <3>3
    <3> QED
      BY <3>4 DEF F, Fields
  <2> QED
    BY <1>10, <2>1, <2>3, <2>4 DEF Contents, T, o, v, u, h
<1>11. CASE h.type # "BLOCK"
  <2>1. Only(w, T) = << >> \o o
    BY <1>5, <1>8, <1>9, <1>11
  <2>2. << >> \o o = o
    BY <1>7
  <2> QED
    BY <1>11, <2>1, <2>2 DEF Contents, T, o, v
<1> QED
  BY <1>10, <1>11 DEF v

-----------------------------------------------------------------------------
LEMMA InitHpack == HpackInit => HpackInv
<1> SUFFICES ASSUME HpackInit PROVE HpackInv
  OBVIOUS
<1>1. PICK limit \in DeflateLimits : deflater = NewDeflater(limit)
  BY DEF HpackInit
<1>2. inflater = NewInflater /\ settings = << >> /\ inflight = << >> /\ wire = << >>
      /\ received = << >>
  BY DEF HpackInit
<1>3. InStep(deflater, inflater)
  BY <1>1, <1>2, NewInStep
<1>4. Synced(deflater, inflater, wire, settings, inflight)
  BY <1>2, <1>3, SyncedNew
<1>5. IsSequence(wire)
  <2>1. << >> \in Seq({})
    OBVIOUS
  <2> QED
    BY <1>2, <2>1 DEF IsSequence
<1> QED
  BY <1>2, <1>4, <1>5 DEF HpackInv

(* What ReceiveBlock reads: the fields at the head of the wire.            *)
Reads(y) ==
  /\ Head(wire).type = "BLOCK" /\ Head(wire).fields \in Blocks
  /\ inflate_header_block(inflater, Head(wire).reprs)
       = [inflater |-> y, out |-> Head(wire).fields]
  /\ y.bad = FALSE
  /\ Synced(deflater, y, Tail(wire), settings, inflight)

LEMMA BlockAtHead ==
  ASSUME HpackInv, wire # << >>, Head(wire).type = "BLOCK"
  PROVE  \E y : Reads(y)
<1>1. PICK y : /\ Head(wire).fields \in Blocks
               /\ ReadBlock(inflater, Head(wire).reprs, Head(wire).fields, y)
               /\ Synced(deflater, y, Tail(wire), settings, inflight)
  BY HeadRead DEF HpackInv
<1>2. Reader(y)
  <2>1. PICK p, a : Path(y, Tail(wire), inflight, p, a)
    BY <1>1 DEF Synced
  <2>2. Len(Tail(wire)) \in Nat
    BY SequenceMoves DEF HpackInv, IsSequence
  <2> QED
    BY <2>1, <2>2 DEF Path
<1> QED
  BY <1>1, <1>2 DEF Reads, ReadBlock, Reader

LEMMA NextHpack == HpackInv /\ [HpackNext]_hpackVars => HpackInv'
<1> SUFFICES ASSUME HpackInv, [HpackNext]_hpackVars PROVE HpackInv'
  OBVIOUS
<1>0. /\ settings \in Seq(Asks) /\ inflight \in Seq(Asks) /\ IsSequence(wire)
      /\ received \in Seq(HeaderFields)
      /\ Synced(deflater, inflater, wire, settings, inflight)
  BY DEF HpackInv
<1>1. ASSUME NEW ask \in Asks, AddSettings(ask) PROVE HpackInv'
  <2>1. /\ settings' = Append(settings, ask) /\ inflight' = Append(inflight, ask)
        /\ deflater' = deflater /\ inflater' = inflater /\ wire' = wire /\ received' = received
    BY <1>1 DEF AddSettings
  <2>2. Synced(deflater, inflater, wire, Append(settings, ask), Append(inflight, ask))
    BY <1>0, SyncedAsk
  <2>3. settings' \in Seq(Asks) /\ inflight' \in Seq(Asks)
    BY <1>0, <2>1
  <2> QED
    BY <1>0, <2>1, <2>2, <2>3 DEF HpackInv
<1>2. ASSUME ReceiveAck PROVE HpackInv'
  <2>1. /\ wire # << >> /\ Head(wire).type = "ACK"
        /\ inflater' = InflaterApplies(inflater, Head(inflight))
        /\ inflight' = Tail(inflight) /\ wire' = Tail(wire)
        /\ deflater' = deflater /\ settings' = settings /\ received' = received
    BY <1>2 DEF ReceiveAck
  <2>2. /\ Tail(inflight) \in Seq(Asks)
        /\ Synced(deflater, InflaterApplies(inflater, Head(inflight)), Tail(wire),
                  settings, Tail(inflight))
    <3>1. "ACK" # "BLOCK"
      OBVIOUS
    <3> QED
      BY <1>0, <2>1, <3>1, HeadRead
  <2>3. IsSequence(Tail(wire))
    BY <1>0, <2>1, SequenceMoves
  <2> QED
    BY <1>0, <2>1, <2>2, <2>3 DEF HpackInv
<1>3. ASSUME NEW ignored \in BOOLEAN, ReceiveBlock(ignored) PROVE HpackInv'
  <2>1. wire # << >> /\ Head(wire).type = "BLOCK"
    BY <1>3 DEF ReceiveBlock
  <2>2. PICK y : Reads(y)
    BY <2>1, BlockAtHead
  <2>3. /\ inflater' = y /\ wire' = Tail(wire)
        /\ received' = received \/ received' = Head(wire).fields
        /\ deflater' = deflater /\ settings' = settings /\ inflight' = inflight
    BY <1>3, <2>2 DEF ReceiveBlock, Reads
  <2>4. IsSequence(Tail(wire))
    BY <1>0, <2>1, SequenceMoves
  <2>5. received' \in Seq(HeaderFields)
    BY <1>0, <2>2, <2>3, HpackAssumption DEF Reads
  <2> QED
    BY <1>0, <2>2, <2>3, <2>4, <2>5 DEF HpackInv, Reads
<1>4. ASSUME ReceiveSettings PROVE HpackInv'
  <2>1. /\ settings # << >> /\ deflater' = DeflaterApplies(deflater, Head(settings))
        /\ settings' = Tail(settings) /\ wire' = Append(wire, [type |-> "ACK"])
        /\ inflater' = inflater /\ inflight' = inflight /\ received' = received
    BY <1>4 DEF ReceiveSettings
  <2>2. Synced(DeflaterApplies(deflater, Head(settings)), inflater,
               Append(wire, [type |-> "ACK"]), Tail(settings), inflight)
    BY <1>0, <2>1, SyncedAck
  <2>3. IsSequence(Append(wire, [type |-> "ACK"]))
    BY <1>0, SequenceMoves
  <2>4. Tail(settings) \in Seq(Asks)
    BY <1>0, <2>1
  <2> QED
    BY <1>0, <2>1, <2>2, <2>3, <2>4 DEF HpackInv
<1>5. ASSUME NEW block \in Blocks, SendBlock(block) PROVE HpackInv'
  <2> DEFINE r == nghttp2_hd_deflate_hd_bufs(deflater, block)
             frame == [type |-> "BLOCK", fields |-> block, reprs |-> r.reprs]
  <2>1. /\ deflater' = r.deflater /\ wire' = Append(wire, frame)
        /\ inflater' = inflater /\ settings' = settings /\ inflight' = inflight
        /\ received' = received
    BY <1>5 DEF SendBlock
  <2>2. Synced(r.deflater, inflater, Append(wire, frame), settings, inflight)
    BY <1>0, SyncedBlock
  <2> HIDE DEF frame
  <2>3. IsSequence(Append(wire, frame))
    BY <1>0, SequenceMoves
  <2> HIDE DEF r
  <2> QED
    BY <1>0, <2>1, <2>2, <2>3 DEF HpackInv
<1>6. CASE UNCHANGED hpackVars
  <2>1. deflater' = deflater /\ inflater' = inflater /\ settings' = settings
        /\ inflight' = inflight /\ wire' = wire /\ received' = received
    BY <1>6 DEF hpackVars
  <2> QED
    BY <1>0, <2>1 DEF HpackInv
<1> QED
  BY <1>1, <1>2, <1>3, <1>4, <1>5, <1>6 DEF HpackNext

LEMMA HpackHolds == HpackSpec => []HpackInv
BY InitHpack, NextHpack, PTL DEF HpackSpec

-----------------------------------------------------------------------------
LEMMA EndsOf ==
  ASSUME HpackInv
  PROVE  /\ Reader(inflater)
         /\ \E y : InStep(deflater, y)
         /\ wire = << >> => InStep(deflater, inflater)
         /\ \A k \in 1 .. Len(wire) : wire[k].type \in {"ACK", "BLOCK"}
         /\ Len(wire) \in Nat /\ DOMAIN wire = 1 .. Len(wire)
<1>1. PICK p, a : /\ Path(inflater, wire, inflight, p, a)
                  /\ InStep(deflater, p[Len(wire)])
  BY Zenon DEF HpackInv, Synced
<1>2. Len(wire) \in Nat /\ DOMAIN wire = 1 .. Len(wire)
  BY DEF HpackInv, IsSequence
<1>3. p[0] = inflater /\ Reader(p[0])
  BY <1>1, <1>2 DEF Path
<1>4. wire = << >> => InStep(deflater, inflater)
  <2> SUFFICES ASSUME wire = << >> PROVE InStep(deflater, inflater)
    OBVIOUS
  <2>1. Len(wire) = 0
    OBVIOUS
  <2> QED
    BY <1>1, <1>3, <2>1
<1>5. ASSUME NEW k \in 1 .. Len(wire) PROVE wire[k].type \in {"ACK", "BLOCK"}
  <2>1. Moves(wire[k], inflight, p[k - 1], a[k - 1], p[k], a[k])
    BY <1>1 DEF Path
  <2> QED
    BY <2>1 DEF Moves
<1> QED
  BY <1>1, <1>2, <1>3, <1>4, <1>5

LEMMA ContextOf ==
  ASSUME NEW c, NEW B, Filed(c, B), Fits(c)
  PROVE  IsContext(c, B) /\ Sound(c)
<1>1. DOMAIN c = {"table", "size", "max", "next_seq", "map"}
  <2>1. c = [table |-> c.table, size |-> c.size, max |-> c.max,
             next_seq |-> c.next_seq, map |-> c.map]
    BY DEF Filed, Record
  <2>2. DOMAIN [table |-> c.table, size |-> c.size, max |-> c.max,
                next_seq |-> c.next_seq, map |-> c.map]
          = {"table", "size", "max", "next_seq", "map"}
    OBVIOUS
  <2> QED
    BY <2>1, <2>2
<1>2. c.table \in Seq(Entries) /\ c.size = RoomOf(c.table) /\ c.next_seq \in 0 .. SeqWrap - 1
      /\ Numbered(c.table, c.next_seq) /\ c.map = [h \in B |-> Only(c.table, HashIs(h))]
  BY DEF Filed
<1>3. c.max \in Limits /\ c.size <= c.max /\ c.size \in Nat /\ c.max \in Nat
  BY <1>2, RoomNat, LimitsNat DEF Fits
<1>4. c.size \in UNION {0 .. limit : limit \in Limits}
  <2>1. c.size \in 0 .. c.max
    BY <1>3
  <2> QED
    BY <1>3, <2>1
<1>5. DOMAIN c.map = B /\ \A h \in B : c.map[h] \in Seq(Entries)
  <2>1. \A h \in B : Only(c.table, HashIs(h)) \in Seq(Entries)
    BY <1>2, OnlySeq
  <2> QED
    BY <1>2, <2>1
<1>6. DOMAIN c.table = 1 .. Len(c.table)
  BY <1>2
<1>7. IsContext(c, B)
  BY <1>1, <1>2, <1>3, <1>4, <1>5 DEF IsContext
<1>8. Sound(c)
  BY <1>2, <1>3, <1>6 DEF Sound, Numbered
<1> QED
  BY <1>7, <1>8

(* The types of both ends (nghttp2_hd_context, nghttp2_hd_deflater and     *)
(* nghttp2_hd_inflater), and that no table outgrows the largest limit.     *)
THEOREM HpackTypeCorrect == HpackSpec => []HpackTypeOK
<1>1. HpackInv => HpackTypeOK
  <2> SUFFICES ASSUME HpackInv PROVE HpackTypeOK
    OBVIOUS
  <2>1. PICK y : InStep(deflater, y)
    BY EndsOf
  <2>2. IsContext(deflater.ctx, Buckets)
    BY <2>1, ContextOf DEF InStep
  <2>3. Reader(inflater)
    BY EndsOf
  <2>4. IsContext(inflater.ctx, {})
    BY <2>3, ContextOf DEF Reader
  <2>5. \A k \in DOMAIN wire : wire[k].type \in {"ACK", "BLOCK"}
    BY EndsOf
  <2> QED
    BY <2>1, <2>2, <2>3, <2>4, <2>5 DEF HpackTypeOK, InStep, Reader, HpackInv
<1> QED
  BY <1>1, HpackHolds, PTL

(* hd_context_shrink_table_size and add_hd_table_incremental keep the      *)
(* books of every table, whatever limits and fields they are given.        *)
THEOREM BooksKept == HpackSpec => []TablesSound
<1>1. HpackInv => TablesSound
  <2> SUFFICES ASSUME HpackInv PROVE TablesSound
    OBVIOUS
  <2>1. PICK y : InStep(deflater, y)
    BY EndsOf
  <2>2. Sound(deflater.ctx)
    BY <2>1, ContextOf DEF InStep
  <2>3. Reader(inflater)
    BY EndsOf
  <2>4. Sound(inflater.ctx)
    BY <2>3, ContextOf DEF Reader
  <2>5. inflater.ctx.size <= inflater.settings
    <3>1. /\ inflater.ctx.size \in Nat /\ inflater.ctx.max \in Nat /\ inflater.settings \in Nat
          /\ inflater.ctx.size <= inflater.ctx.max /\ inflater.ctx.max <= inflater.settings
      BY <2>3, RoomNat, LimitsNat DEF Reader, Filed, Fits
    <3> QED
      BY <3>1
  <2> QED
    BY <2>2, <2>4, <2>5 DEF TablesSound
<1> QED
  BY <1>1, HpackHolds, PTL

(* hd_map_insert and hd_map_remove keep the buckets of the deflater equal  *)
(* to the entries of its ring buffer.                                      *)
THEOREM MapFollowsTable == HpackSpec => []MapMirrorsTable
<1>1. HpackInv => MapMirrorsTable
  <2> SUFFICES ASSUME HpackInv, NEW h \in Buckets
               PROVE  deflater.ctx.map[h] =
                        Only(deflater.ctx.table, {e \in ToSet(deflater.ctx.table) : e.hash = h})
    BY DEF MapMirrorsTable
  <2> DEFINE t == deflater.ctx.table
             T == {e \in ToSet(t) : e.hash = h}
  <2>1. PICK y : InStep(deflater, y)
    BY EndsOf
  <2>2. t \in Seq(Entries) /\ deflater.ctx.map[h] = Only(t, HashIs(h))
    BY <2>1 DEF InStep, Filed
  <2>3. ToSet(t) \subseteq Entries
    BY <2>2, ToSetIn
  <2>4. ToSet(t) \cap HashIs(h) = ToSet(t) \cap T
    BY <2>3 DEF HashIs
  <2> HIDE DEF t, T
  <2>5. Only(t, HashIs(h)) = Only(t, T)
    BY <2>2, <2>4, OnlySame
  <2> QED
    BY <2>2, <2>5 DEF t, T
<1> QED
  BY <1>1, HpackHolds, PTL

(* With nothing under way to the receiver both ends hold the same fields   *)
(* in the same order, however blocks, SETTINGS and their ACKs crossed.     *)
THEOREM TablesStayEqual == HpackSpec => []TablesAgree
<1>1. HpackInv => TablesAgree
  <2> SUFFICES ASSUME HpackInv, wire = << >>
               PROVE  [k \in DOMAIN deflater.ctx.table |-> deflater.ctx.table[k].field] =
                      [k \in DOMAIN inflater.ctx.table |-> inflater.ctx.table[k].field]
    BY DEF TablesAgree
  <2>1. InStep(deflater, inflater)
    BY EndsOf
  <2> DEFINE s == deflater.ctx.table
             t == inflater.ctx.table
  <2>2. s \in Seq(Entries) /\ t \in Seq(Entries) /\ SameFields(s, t)
    BY <2>1 DEF InStep, Reader, Filed
  <2> HIDE DEF s, t
  <2>3. DOMAIN s = DOMAIN t /\ \A k \in DOMAIN s : s[k].field = t[k].field
    BY <2>2 DEF SameFields
  <2>4. [k \in DOMAIN s |-> s[k].field] = [k \in DOMAIN t |-> t[k].field]
    BY <2>3
  <2> QED
    BY <2>4 DEF s, t
<1> QED
  BY <1>1, HpackHolds, PTL

-----------------------------------------------------------------------------
(* The refinement                                                          *)

Pending == [k \in 1 .. Len(UnderWay) |-> UnderWay[k].fields]

LEMMA PendingIs == Pending = Contents(wire)
BY DEF Pending, Contents, Fields, UnderWay, BlocksOf

(* Every step of the two sessions sends, delivers or ignores one block or  *)
(* leaves the stream of blocks alone.                                      *)
LEMMA StreamStep ==
  ASSUME HpackInv, [HpackNext]_hpackVars
  PROVE  [Stream!StreamNext]_<<Pending, received>>
<1> DEFINE now == Contents(wire)
           then == Contents(wire')
<1>1. Pending = now /\ Pending' = then
  <2>1. (Pending = Contents(wire))'
    BY PendingIs DEF Pending, Contents, Fields, UnderWay, BlocksOf
  <2> QED
    BY <2>1, PendingIs
<1> HIDE DEF now, then
<1>2. IsSequence(wire)
  BY DEF HpackInv
<1>3. CASE wire' = wire /\ received' = received
  <2>1. now = then
    BY <1>3 DEF now, then
  <2> QED
    BY <1>1, <1>3, <2>1
<1>4. CASE wire # << >> /\ Head(wire).type = "ACK" /\ wire' = Tail(wire) /\ received' = received
  <2>1. Head(wire).type # "BLOCK"
    BY <1>4
  <2>2. now = then
    BY <1>2, <1>4, <2>1, ContentsRead DEF now, then
  <2> QED
    BY <1>1, <1>4, <2>2
<1>5. ASSUME NEW ignored \in BOOLEAN, ReceiveBlock(ignored)
      PROVE  Stream!Deliver \/ Stream!Ignore
  <2>1. wire # << >> /\ Head(wire).type = "BLOCK" /\ wire' = Tail(wire)
    BY <1>5 DEF ReceiveBlock
  <2>2. PICK y : Reads(y)
    BY <2>1, BlockAtHead
  <2>3. received' = received \/ received' = Head(wire).fields
    BY <1>5, <2>2 DEF ReceiveBlock, Reads
  <2>4. now # << >> /\ Head(now) = Head(wire).fields /\ Tail(now) = then
    BY <1>2, <2>1, ContentsRead DEF now, then
  <2> QED
    BY <1>1, <2>3, <2>4 DEF Stream!Deliver, Stream!Ignore, Pending
<1>6. CASE wire' = Append(wire, [type |-> "ACK"]) /\ received' = received
  <2>1. [type |-> "ACK"].type # "BLOCK"
    OBVIOUS
  <2>2. now = then
    BY <1>2, <1>6, <2>1, ContentsAppend DEF now, then
  <2> QED
    BY <1>1, <1>6, <2>2
<1>7. ASSUME NEW block \in Blocks, SendBlock(block) PROVE Stream!Send
  <2> DEFINE r == nghttp2_hd_deflate_hd_bufs(deflater, block)
             frame == [type |-> "BLOCK", fields |-> block, reprs |-> r.reprs]
  <2>1. wire' = Append(wire, frame) /\ received' = received
    BY <1>7 DEF SendBlock
  <2>2. frame.type = "BLOCK" /\ frame.fields = block
    OBVIOUS
  <2> HIDE DEF r, frame
  <2>3. then = Append(now, block)
    BY <1>2, <2>1, <2>2, ContentsAppend DEF now, then
  <2> QED
    BY <1>1, <2>1, <2>3 DEF Stream!Send, Pending
<1>8. CASE HpackNext
  <2>1. ASSUME NEW ask \in Asks, AddSettings(ask) PROVE wire' = wire /\ received' = received
    BY <2>1 DEF AddSettings
  <2>2. ASSUME ReceiveAck
        PROVE  wire # << >> /\ Head(wire).type = "ACK" /\ wire' = Tail(wire)
               /\ received' = received
    BY <2>2 DEF ReceiveAck
  <2>3. ASSUME ReceiveSettings
        PROVE  wire' = Append(wire, [type |-> "ACK"]) /\ received' = received
    BY <2>3 DEF ReceiveSettings
  <2> QED
    BY <1>3, <1>4, <1>5, <1>6, <1>7, <1>8, <2>1, <2>2, <2>3, Zenon
       DEF HpackNext, Stream!StreamNext
<1>9. CASE UNCHANGED hpackVars
  BY <1>3, <1>9 DEF hpackVars
<1> QED
  BY <1>8, <1>9

(* nghttp2_hd_deflate_hd_bufs and inflate_header_block give the session a  *)
(* stream of blocks that arrive unchanged and in order, none of them lost  *)
(* or misread, whatever SETTINGS_HEADER_TABLE_SIZE does to the tables.     *)
THEOREM BlocksKeep == HpackSpec => BlocksArrive
<1>1. HpackInit => Stream!StreamInit
  <2> SUFFICES ASSUME HpackInit PROVE Stream!StreamInit
    OBVIOUS
  <2>1. wire = << >> /\ received = << >>
    BY DEF HpackInit
  <2>2. UnderWay = << >>
    BY <2>1, OnlyEmpty DEF UnderWay
  <2>3. Len(UnderWay) = 0 /\ 1 .. 0 = {}
    BY <2>2
  <2>4. [k \in 1 .. Len(UnderWay) |-> UnderWay[k].fields] = << >>
    BY <2>3
  <2> QED
    BY <2>1, <2>4 DEF Stream!StreamInit
<1>2. HpackInv /\ [HpackNext]_hpackVars => [Stream!StreamNext]_<<Pending, received>>
  BY StreamStep
<1> QED
  BY <1>1, <1>2, HpackHolds, PTL DEF HpackSpec, BlocksArrive, Stream!StreamSpec, Pending
=============================================================================
