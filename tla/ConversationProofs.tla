------------------------- MODULE ConversationProofs -------------------------
(***************************************************************************)
(* Theorems about a conversation: the history that the guard of its size   *)
(* rewrites (ContextGuard), for every ladder, ceiling, weight and length,  *)
(* and the transcript of which a provider keeps a part (ServerState), for  *)
(* any providers, models, retentions and lengths.                          *)
(*   - Results keep their calls and a count its messages, a request is     *)
(*     refused for what is left of it, and a conversation measured twice   *)
(*     is not compacted twice.                                             *)
(*   - Who answers has read the whole transcript, in order, nothing twice. *)
(* Each has an inductive invariant, made of named parts.  Sums are         *)
(* recursive functions, and what is said of them is shown for a least      *)
(* number at which it would fail.                                          *)
(***************************************************************************)
EXTENDS ContextGuard, TLAPS, WellFoundedInduction, FiniteSetTheorems, SequenceTheorems

-----------------------------------------------------------------------------
(* What a history weighs: sums.  A sum is a recursive function, and each     *)
(* fact about it is shown for a least number at which it would fail.         *)

Entries == [kind : {"user", "reply", "call", "result", "summary", "anchor"}, id : Int, w : Nat]

\* f is the sum of the weights of the first n messages of q.
Sums(f, q, n) ==
    /\ f \in [0 .. n -> Nat]
    /\ \A i \in 0 .. n : f[i] = IF i = 0 THEN 0 ELSE f[i - 1] + q[i].w

\* A set of natural numbers that has a member has a least one.
LEMMA LeastOf ==
    ASSUME NEW S \in SUBSET Nat, S # {}
    PROVE  \E i \in S : \A j \in S : i <= j
<1>1. PICK i \in S : \A j \in S : ~ (<<j, i>> \in OpToRel(<, Nat))
  BY WFMin, NatLessThanWellFounded
<1>2. \A j \in S : ~ (j < i)
  BY <1>1 DEF OpToRel
<1> QED  BY <1>2

\* The weights of messages can be summed.
LEMMA SumsExist ==
    ASSUME NEW q \in Seq(Entries)
    PROVE  \E f : Sums(f, q, Len(q))
<1> DEFINE Unsummed == {n \in 0 .. Len(q) : ~ \E f : Sums(f, q, n)}
<1>1. Len(q) \in Nat  OBVIOUS
<1>2. SUFFICES ASSUME Unsummed # {} PROVE FALSE
  BY <1>1
<1>3. Unsummed \in SUBSET Nat  BY <1>1
<1>4. PICK n \in Unsummed : \A j \in Unsummed : n <= j
  <2> HIDE DEF Unsummed
  <2> QED  BY <1>2, <1>3, LeastOf
<1>5. n \in 0 .. Len(q) /\ ~ \E f : Sums(f, q, n)  BY <1>4
<1>6. CASE n = 0
  <2>1. Sums([i \in 0 .. 0 |-> 0], q, 0)  BY DEF Sums
  <2> QED  BY <2>1, <1>5, <1>6
<1>7. CASE n # 0
  <2>1. n - 1 \in 0 .. Len(q) /\ n \in 1 .. Len(q)  BY <1>1, <1>5, <1>7
  <2>2. n - 1 \notin Unsummed
    <3>1. ~ (n <= n - 1)  BY <1>5
    <3> HIDE DEF Unsummed
    <3> QED  BY <1>4, <3>1
  <2>3. PICK f : Sums(f, q, n - 1)
    <3>1. \E f : Sums(f, q, n - 1)  BY <2>1, <2>2, Zenon
    <3> QED  BY <3>1
  <2>4. q[n].w \in Nat
    <3>1. q[n] \in Entries
      <4> HIDE DEF Entries
      <4> QED  BY <2>1
    <3> QED  BY <3>1 DEF Entries
  <2> DEFINE g == [i \in 0 .. n |-> IF i = n THEN f[n - 1] + q[n].w ELSE f[i]]
  <2>5. f \in [0 .. n - 1 -> Nat]  BY <2>3 DEF Sums
  <2>6. g \in [0 .. n -> Nat]  BY <2>1, <2>4, <2>5
  <2>7. ASSUME NEW i \in 0 .. n PROVE g[i] = IF i = 0 THEN 0 ELSE g[i - 1] + q[i].w
    <3>1. CASE i = n
      <4>1. g[n - 1] = f[n - 1]  BY <2>1
      <4>2. g[n] = f[n - 1] + q[n].w  BY <2>1
      <4> QED  BY <4>1, <4>2, <3>1, <1>7
    <3>2. CASE i # n
      <4>1. i \in 0 .. n - 1  BY <3>2, <2>1
      <4>2. f[i] = IF i = 0 THEN 0 ELSE f[i - 1] + q[i].w  BY <4>1, <2>3 DEF Sums
      <4>3. g[i] = f[i]  BY <3>2
      <4>4. i # 0 => g[i - 1] = f[i - 1]  BY <4>1, <2>1
      <4> QED  BY <4>2, <4>3, <4>4
    <3> QED  BY <3>1, <3>2
  <2>8. Sums(g, q, n)
    <3> HIDE DEF g
    <3> QED  BY <2>6, <2>7 DEF Sums
  <2> QED  BY <2>8, <1>5
<1> QED  BY <1>6, <1>7

\* ... in one way, whatever comes after them.
LEMMA SumsAgree ==
    ASSUME NEW p, NEW q, NEW n \in Nat, NEW f, NEW g, Sums(f, p, n), Sums(g, q, n),
           \A i \in 1 .. n : p[i] = q[i]
    PROVE  f = g
<1> DEFINE Apart == {i \in 0 .. n : f[i] # g[i]}
<1>1. f \in [0 .. n -> Nat] /\ g \in [0 .. n -> Nat]  BY DEF Sums
<1>2. SUFFICES ASSUME Apart # {} PROVE FALSE
  <2>1. Apart = {} => \A i \in 0 .. n : f[i] = g[i]  OBVIOUS
  <2>2. (\A i \in 0 .. n : f[i] = g[i]) => f = g  BY <1>1
  <2> QED  BY <2>1, <2>2
<1>3. Apart \in SUBSET Nat  OBVIOUS
<1>4. PICK i \in Apart : \A j \in Apart : i <= j
  <2> HIDE DEF Apart
  <2> QED  BY <1>2, <1>3, LeastOf
<1>5. i \in 0 .. n /\ f[i] # g[i]  BY <1>4
<1>6. f[i] = (IF i = 0 THEN 0 ELSE f[i - 1] + p[i].w)  BY <1>5 DEF Sums
<1>7. g[i] = (IF i = 0 THEN 0 ELSE g[i - 1] + q[i].w)  BY <1>5 DEF Sums
<1>8. CASE i = 0  BY <1>5, <1>6, <1>7, <1>8
<1>9. CASE i # 0
  <2>1. i - 1 \in 0 .. n /\ i \in 1 .. n /\ ~ (i <= i - 1)  BY <1>5, <1>9
  <2>2. i - 1 \notin Apart
    <3> HIDE DEF Apart
    <3> QED  BY <1>4, <2>1
  <2>3. f[i - 1] = g[i - 1]  BY <2>1, <2>2
  <2>4. p[i] = q[i]  BY <2>1
  <2> QED  BY <1>5, <1>6, <1>7, <1>9, <2>3, <2>4
<1> QED  BY <1>8, <1>9

\* What the heuristic says is the last of the sums.
LEMMA HeuristicIs ==
    ASSUME NEW q \in Seq(Entries), NEW f, Sums(f, q, Len(q))
    PROVE  Heuristic(q) = f[Len(q)] /\ Heuristic(q) \in Nat
<1>1. Len(q) \in Nat  OBVIOUS
<1>2. f = [i \in 0 .. Len(q) |-> IF i = 0 THEN 0 ELSE f[i - 1] + q[i].w]
  BY <1>1 DEF Sums
<1>3. PICK g : g = (CHOOSE h : h = [i \in 0 .. Len(q) |-> IF i = 0 THEN 0 ELSE h[i - 1] + q[i].w])
  OBVIOUS
<1>4. g = [i \in 0 .. Len(q) |-> IF i = 0 THEN 0 ELSE g[i - 1] + q[i].w]
  BY <1>2, <1>3, Zenon
<1>5. Heuristic(q) = g[Len(q)]
  BY <1>3, Zenon DEF Heuristic
<1>6. f = g
  <2> DEFINE Apart == {i \in 0 .. Len(q) : f[i] # g[i]}
  <2>1. DOMAIN g = 0 .. Len(q) /\ g = [i \in 0 .. Len(q) |-> g[i]]  BY <1>4
  <2>2. f \in [0 .. Len(q) -> Nat]  BY DEF Sums
  <2>3. SUFFICES ASSUME Apart # {} PROVE FALSE
    BY <2>1, <2>2
  <2>4. Apart \in SUBSET Nat  BY <1>1
  <2>5. PICK i \in Apart : \A j \in Apart : i <= j
    <3> HIDE DEF Apart
    <3> QED  BY <2>3, <2>4, LeastOf
  <2>6. i \in 0 .. Len(q) /\ f[i] # g[i]  BY <2>5
  <2>7. f[i] = (IF i = 0 THEN 0 ELSE f[i - 1] + q[i].w)  BY <2>6 DEF Sums
  <2>8. g[i] = (IF i = 0 THEN 0 ELSE g[i - 1] + q[i].w)  BY <2>6, <1>4
  <2>9. CASE i = 0  BY <2>6, <2>7, <2>8, <2>9
  <2>10. CASE i # 0
    <3>1. i - 1 \in 0 .. Len(q) /\ ~ (i <= i - 1)  BY <2>6, <2>10
    <3>2. i - 1 \notin Apart
      <4> HIDE DEF Apart
      <4> QED  BY <2>5, <3>1
    <3> QED  BY <3>1, <3>2, <2>6, <2>7, <2>8, <2>10
  <2> QED  BY <2>9, <2>10
<1>7. f[Len(q)] \in Nat  BY <1>1 DEF Sums
<1> QED  BY <1>5, <1>6, <1>7

\* A history weighs something.
LEMMA HeuristicNat == ASSUME NEW q \in Seq(Entries) PROVE Heuristic(q) \in Nat
BY SumsExist, HeuristicIs

\* ... and one without messages nothing.
LEMMA HeuristicEmpty == Heuristic(<<>>) = 0
<1>1. <<>> \in Seq(Entries) /\ Len(<<>>) = 0  OBVIOUS
<1>2. PICK f : Sums(f, <<>>, Len(<<>>))  BY <1>1, SumsExist
<1>3. f[0] = 0  BY <1>1, <1>2 DEF Sums
<1> QED  BY <1>1, <1>2, <1>3, HeuristicIs

\* What two histories weigh, one after the other.
LEMMA HeuristicConcat ==
    ASSUME NEW p \in Seq(Entries), NEW q \in Seq(Entries)
    PROVE  Heuristic(p \o q) = Heuristic(p) + Heuristic(q)
<1>1. PICK f : Sums(f, p, Len(p))  BY SumsExist
<1>2. PICK g : Sums(g, q, Len(q))  BY SumsExist
<1>3. Heuristic(p) = f[Len(p)] /\ Heuristic(q) = g[Len(q)]  BY <1>1, <1>2, HeuristicIs
<1>4. PICK m \in Nat : m = Len(p)  OBVIOUS
<1>5. PICK n \in Nat : n = Len(q)  OBVIOUS
<1>6. f \in [0 .. m -> Nat] /\ g \in [0 .. n -> Nat] /\ g[0] = 0  BY <1>1, <1>2, <1>4, <1>5 DEF Sums
<1>7. PICK r : r = p \o q  OBVIOUS
<1>8. /\ r \in Seq(Entries) /\ Len(r) = m + n
      /\ \A i \in 1 .. m + n : r[i] = IF i <= m THEN p[i] ELSE q[i - m]
  BY <1>4, <1>5, <1>7, ConcatProperties
<1> DEFINE h == [i \in 0 .. m + n |-> IF i <= m THEN f[i] ELSE f[m] + g[i - m]]
<1>9. h \in [0 .. m + n -> Nat]
  <2>1. ASSUME NEW i \in 0 .. m + n PROVE (IF i <= m THEN f[i] ELSE f[m] + g[i - m]) \in Nat
    <3>1. CASE i <= m
      <4>1. f[i] \in Nat  BY <3>1, <1>6
      <4> QED  BY <4>1, <3>1
    <3>2. CASE ~ (i <= m)
      <4>1. i - m \in 0 .. n /\ m \in 0 .. m  BY <3>2
      <4>2. g[i - m] \in Nat /\ f[m] \in Nat  BY <4>1, <1>6
      <4> QED  BY <4>2, <3>2
    <3> QED  BY <3>1, <3>2
  <2> QED  BY <2>1
<1>10. ASSUME NEW i \in 0 .. m + n PROVE h[i] = IF i = 0 THEN 0 ELSE h[i - 1] + r[i].w
  <2>1. CASE i <= m
    <3>1. f[i] = IF i = 0 THEN 0 ELSE f[i - 1] + p[i].w  BY <2>1, <1>1, <1>4 DEF Sums
    <3>2. i # 0 => i \in 1 .. m + n /\ i - 1 \in 0 .. m + n /\ i - 1 <= m  BY <2>1
    <3>3. h[i] = f[i] /\ (i # 0 => h[i - 1] = f[i - 1])  BY <3>2, <2>1
    <3>4. i # 0 => r[i] = p[i]  BY <3>2, <2>1, <1>8
    <3> QED  BY <3>1, <3>3, <3>4
  <2>2. CASE ~ (i <= m)
    <3>1. i - m \in 1 .. n /\ i \in 1 .. m + n /\ i - 1 \in 0 .. m + n  BY <2>2
    <3>2. g[i - m] = g[i - m - 1] + q[i - m].w
      <4>1. PICK j \in 1 .. n : j = i - m  BY <3>1
      <4>2. j \in 0 .. n /\ j # 0  OBVIOUS
      <4>3. g[j] = g[j - 1] + q[j].w  BY <4>2, <1>2, <1>5 DEF Sums
      <4> QED  BY <4>1, <4>3
    <3>3. r[i] = q[i - m]  BY <3>1, <2>2, <1>8
    <3>4. h[i] = f[m] + g[i - m]  BY <2>2
    <3>5. h[i - 1] = f[m] + g[i - m - 1]
      <4>1. CASE i - 1 = m
        <5>1. h[i - 1] = f[m]  BY <4>1, <3>1
        <5>2. f[m] \in Nat  BY <1>6
        <5>3. i - m - 1 = 0  BY <4>1
        <5> QED  BY <5>1, <5>2, <5>3, <1>6
      <4>2. CASE i - 1 # m
        <5>1. ~ (i - 1 <= m) /\ i - 1 - m = i - m - 1  BY <4>2, <2>2
        <5> QED  BY <5>1, <3>1
      <4> QED  BY <4>1, <4>2
    <3>6. q[i - m].w \in Nat /\ f[m] \in Nat /\ g[i - m - 1] \in Nat
      <4>1. q[i - m] \in Entries  BY <3>1, <1>5
      <4>2. i - m - 1 \in 0 .. n /\ m \in 0 .. m  BY <3>1
      <4>3. f[m] \in Nat /\ g[i - m - 1] \in Nat  BY <4>2, <1>6
      <4> QED  BY <4>1, <4>3 DEF Entries
    <3>7. i # 0  BY <2>2
    <3> HIDE DEF h
    <3> QED  BY <3>2, <3>3, <3>4, <3>5, <3>6, <3>7
  <2> QED  BY <2>1, <2>2
<1>11. h[m + n] = f[m] + g[n]
  <2>1. CASE n = 0
    <3>1. h[m + n] = f[m] /\ f[m] \in Nat  BY <2>1, <1>6
    <3> QED  BY <3>1, <2>1, <1>6
  <2>2. CASE n # 0
    <3>1. ~ (m + n <= m) /\ m + n - m = n /\ m + n \in 0 .. m + n  BY <2>2
    <3> QED  BY <3>1
  <2> QED  BY <2>1, <2>2
<1>12. Sums(h, r, Len(r))
  <2> HIDE DEF h
  <2> QED  BY <1>8, <1>9, <1>10 DEF Sums
<1>13. Heuristic(r) = h[m + n]
  <2> HIDE DEF h
  <2> QED  BY <1>8, <1>12, HeuristicIs
<1> HIDE DEF h
<1> QED  BY <1>3, <1>4, <1>5, <1>7, <1>11, <1>13

\* A history is as heavy as its beginning and its end.
LEMMA HeuristicSplit ==
    ASSUME NEW q \in Seq(Entries), NEW k \in 0 .. Len(q)
    PROVE  Heuristic(q) = Heuristic(SubSeq(q, 1, k)) + Heuristic(SubSeq(q, k + 1, Len(q)))
<1>1. Len(q) \in Nat  OBVIOUS
<1>2. SubSeq(q, 1, k) \in Seq(Entries) /\ SubSeq(q, k + 1, Len(q)) \in Seq(Entries)
  BY <1>1, SubSeqProperties, ElementOfSeq
<1>3. SubSeq(q, 1, k) \o SubSeq(q, k + 1, Len(q)) = q
  <2>1. 1 \in 1 .. Len(q) + 1 /\ k \in 1 - 1 .. Len(q) /\ Len(q) \in k .. Len(q)  BY <1>1
  <2>2. SubSeq(q, 1, k) \o SubSeq(q, k + 1, Len(q)) = SubSeq(q, 1, Len(q))
    BY <2>1, ConcatAdjacentSubSeq
  <2> QED  BY <2>2, SubSeqFull
<1> QED  BY <1>2, <1>3, HeuristicConcat

\* One message weighs what it weighs.
LEMMA HeuristicOne ==
    ASSUME NEW e \in Entries
    PROVE  Heuristic(<<e>>) = e.w
<1>1. PICK q : q = <<e>>  OBVIOUS
<1>2. q \in Seq(Entries) /\ Len(q) = 1 /\ q[1] = e  BY <1>1
<1>3. PICK f : Sums(f, q, Len(q))  BY <1>2, SumsExist
<1>4. Heuristic(q) = f[1]  BY <1>2, <1>3, HeuristicIs
<1>5. f[0] = 0 /\ f[1] = f[0] + q[1].w  BY <1>2, <1>3 DEF Sums
<1>6. e.w \in Nat  BY DEF Entries
<1> QED  BY <1>1, <1>2, <1>4, <1>5, <1>6

\* Each message of a history weighs something.
Solid(q) == \A k \in 1 .. Len(q) : q[k].w >= 1

\* Where each weighs something, a history weighs at least as much as it has messages.
LEMMA HeuristicSolid ==
    ASSUME NEW q \in Seq(Entries), Solid(q)
    PROVE  Heuristic(q) >= Len(q)
<1>1. PICK n \in Nat : n = Len(q)  OBVIOUS
<1>2. PICK f : Sums(f, q, n)  BY <1>1, SumsExist
<1>3. f \in [0 .. n -> Nat]  BY <1>2 DEF Sums
<1> DEFINE Light == {i \in 0 .. n : f[i] < i}
<1>4. Light = {}
  <2> SUFFICES ASSUME Light # {} PROVE FALSE  OBVIOUS
  <2>1. Light \in SUBSET Nat  OBVIOUS
  <2>2. PICK i \in Light : \A j \in Light : i <= j
    <3> HIDE DEF Light
    <3> QED  BY <2>1, LeastOf
  <2>3. i \in 0 .. n /\ f[i] < i  BY <2>2
  <2>4. f[i] = (IF i = 0 THEN 0 ELSE f[i - 1] + q[i].w)  BY <2>3, <1>2 DEF Sums
  <2>5. i # 0
    <3>1. i = 0 => f[i] = 0  BY <2>4
    <3> QED  BY <3>1, <2>3
  <2>6. i - 1 \in 0 .. n /\ i \in 1 .. n /\ ~ (i <= i - 1)  BY <2>3, <2>5
  <2>7. i - 1 \notin Light
    <3> HIDE DEF Light
    <3> QED  BY <2>2, <2>6
  <2>8. f[i - 1] \in Nat /\ f[i - 1] >= i - 1  BY <2>6, <2>7, <1>3
  <2>9. q[i].w >= 1  BY <2>6, <1>1 DEF Solid
  <2>10. q[i] \in Entries  BY <2>6, <1>1
  <2>11. q[i].w \in Nat  BY <2>10 DEF Entries
  <2>12. f[i] = f[i - 1] + q[i].w  BY <2>4, <2>5
  <2> HIDE DEF Light
  <2> QED  BY <2>3, <2>6, <2>8, <2>9, <2>11, <2>12
<1>5. n \in 0 .. n  OBVIOUS
<1>6. ~ (f[n] < n)  BY <1>4, <1>5
<1>7. f[n] \in Nat  BY <1>3
<1>8. Heuristic(q) = f[n]  BY <1>1, <1>2, HeuristicIs
<1> QED  BY <1>1, <1>6, <1>7, <1>8

\* What is cut off is no longer weighed.
LEMMA HeuristicSuffix ==
    ASSUME NEW q \in Seq(Entries), NEW k \in 0 .. Len(q)
    PROVE  Heuristic(SubSeq(q, k + 1, Len(q))) <= Heuristic(q)
<1>1. Len(q) \in Nat  OBVIOUS
<1>2. SubSeq(q, 1, k) \in Seq(Entries) /\ SubSeq(q, k + 1, Len(q)) \in Seq(Entries)
  BY <1>1, SubSeqProperties, ElementOfSeq
<1>3. Heuristic(SubSeq(q, 1, k)) \in Nat  BY <1>2, HeuristicNat
<1>4. Heuristic(SubSeq(q, k + 1, Len(q))) \in Nat  BY <1>2, HeuristicNat
<1> QED  BY <1>3, <1>4, HeuristicSplit

-----------------------------------------------------------------------------
(* What the operations of a history do to it.                                *)

Histories == [entries : Seq(Entries), index : Int, total : Nat]

\* No call's id is given to another.
Distinct(q, n) ==
    /\ \A k \in 1 .. Len(q) : q[k].kind = "call" => q[k].id \in 0 .. n - 1
    /\ \A j, k \in 1 .. Len(q) : q[j].kind = "call" /\ q[k].kind = "call" /\ q[j].id = q[k].id => j = k

\* A result stands right after its call.
Paired(q) ==
    \A k \in 1 .. Len(q) :
        q[k].kind = "result" => k > 1 /\ q[k - 1].kind = "call" /\ q[k - 1].id = q[k].id

\* The count, if there is one, is of a beginning of the messages.
CountOf(h) ==
    /\ h.index < Len(h.entries)
    /\ h.index >= 0 => h.total = Provider(SubSeq(h.entries, 1, h.index + 1))

\* g is h with one message in the place of those after the a-th and up to the b-th.
Spliced(g, h, a, b, e) ==
    /\ 0 <= a /\ a < b /\ b <= Len(h.entries)
    /\ g.entries = SubSeq(h.entries, 1, a) \o <<e>> \o SubSeq(h.entries, b + 1, Len(h.entries))
    /\ \/ h.index < a /\ g.index = h.index /\ g.total = h.total
       \/ h.index >= a /\ g.index = None /\ g.total = 0
    /\ g = [entries |-> g.entries, index |-> g.index, total |-> g.total]

\* A splice does that, or nothing (splice_range).
LEMMA SpliceIs ==
    ASSUME NEW h \in Histories, NEW start \in Int, NEW stop \in Int, NEW e \in Entries,
           NEW g, g = Splice(h, start, stop, e)
    PROVE  g = h \/ Spliced(g, h, start, stop, e)
<1>1. PICK q \in Seq(Entries) : q = h.entries  BY DEF Histories
<1>2. Len(q) \in Nat  OBVIOUS
<1>3. CASE start < 0 \/ stop > Len(q) \/ start >= stop
  BY <1>1, <1>3 DEF Splice, Size
<1>4. CASE ~ (start < 0 \/ stop > Len(q) \/ start >= stop)
  <2>1. 0 <= start /\ start < stop /\ stop <= Len(q)  BY <1>2, <1>4
  <2>2. PICK r : r = SubSeq(q, 1, start) \o <<e>> \o SubSeq(q, stop + 1, Len(q))  OBVIOUS
  <2>3. PICK m : m = [h EXCEPT !.entries = r]  OBVIOUS
  <2>4. g = Forgot(m, start)  BY <1>1, <1>4, <2>2, <2>3 DEF Splice, Size
  <2>5. m = [entries |-> r, index |-> h.index, total |-> h.total]  BY <2>3 DEF Histories
  <2>6. h.index \in Int  BY DEF Histories
  <2>7. CASE h.index >= start
    <3>1. g = [m EXCEPT !.index = None, !.total = 0]  BY <2>4, <2>5, <2>7 DEF Forgot
    <3>2. g = [entries |-> r, index |-> None, total |-> 0]  BY <3>1, <2>5
    <3>3. g.entries = r /\ g.index = None /\ g.total = 0  BY <3>2
    <3> QED  BY <3>2, <3>3, <2>1, <2>2, <2>7, <1>1 DEF Spliced
  <2>8. CASE ~ (h.index >= start)
    <3>1. g = m  BY <2>4, <2>5, <2>8 DEF Forgot
    <3>2. g.entries = r /\ g.index = h.index /\ g.total = h.total  BY <3>1, <2>5
    <3>3. h.index < start  BY <2>6, <2>8
    <3>4. g = [entries |-> g.entries, index |-> g.index, total |-> g.total]  BY <3>1, <3>2, <2>5
    <3> QED  BY <3>2, <3>3, <3>4, <2>1, <2>2, <1>1 DEF Spliced
  <2> QED  BY <2>7, <2>8
<1> QED  BY <1>3, <1>4

\* p is q with e in the place of those after the a-th and up to the b-th, by its messages.
StandsFor(e, p, q, a, b) ==
    /\ p \in Seq(Entries) /\ Len(p) = Len(q) - b + a + 1
    /\ \A i \in 1 .. a : p[i] = q[i]
    /\ p[a + 1] = e
    /\ \A i \in a + 2 .. Len(p) : p[i] = q[i + b - a - 1]
    /\ Heuristic(p) = Heuristic(SubSeq(q, 1, a)) + e.w + Heuristic(SubSeq(q, b + 1, Len(q)))

\* What a spliced history has at each place, and weighs.
LEMMA Replaced ==
    ASSUME NEW q \in Seq(Entries), NEW a \in Nat, NEW b \in Nat, a < b, b <= Len(q), NEW e \in Entries,
           NEW p, p = SubSeq(q, 1, a) \o <<e>> \o SubSeq(q, b + 1, Len(q))
    PROVE  StandsFor(e, p, q, a, b)
<1>1. PICK n \in Nat : n = Len(q)  OBVIOUS
<1>2. PICK x : x = SubSeq(q, 1, a)  OBVIOUS
<1>3. PICK z : z = SubSeq(q, b + 1, n)  OBVIOUS
<1>4. PICK y : y = <<e>>  OBVIOUS
<1>5. PICK u : u = x \o y  OBVIOUS
<1>6. a <= n /\ b <= n  BY <1>1
<1>7. /\ x \in Seq(Entries) /\ Len(x) = a
      /\ \A i \in 1 .. a : x[i] = q[i]
  <2>1. \A i \in 1 .. a : q[i] \in Entries  BY <1>1, <1>6, ElementOfSeq
  <2>2. Len(x) = (IF 1 <= a THEN a - 1 + 1 ELSE 0)  BY <2>1, <1>2, SubSeqProperties
  <2>3. \A i \in 1 .. a - 1 + 1 : x[i] = q[1 + i - 1]  BY <2>1, <1>2, SubSeqProperties
  <2>4. x \in Seq(Entries)  BY <2>1, <1>2, SubSeqProperties
  <2> QED  BY <2>2, <2>3, <2>4
<1>8. /\ z \in Seq(Entries) /\ Len(z) = n - b
      /\ \A i \in 1 .. n - b : z[i] = q[b + i]
  <2>1. \A i \in b + 1 .. n : q[i] \in Entries  BY <1>1, ElementOfSeq
  <2>2. Len(z) = (IF b + 1 <= n THEN n - (b + 1) + 1 ELSE 0)  BY <2>1, <1>3, SubSeqProperties
  <2>3. \A i \in 1 .. n - (b + 1) + 1 : z[i] = q[b + 1 + i - 1]  BY <2>1, <1>3, SubSeqProperties
  <2>4. z \in Seq(Entries)  BY <2>1, <1>3, SubSeqProperties
  <2>5. Len(z) = n - b  BY <2>2, <1>6
  <2>6. \A i \in 1 .. n - b : b + 1 + i - 1 = b + i /\ i \in 1 .. n - (b + 1) + 1  OBVIOUS
  <2> QED  BY <2>3, <2>4, <2>5, <2>6
<1>9. y \in Seq(Entries) /\ Len(y) = 1 /\ y[1] = e  BY <1>4
<1>10. /\ u \in Seq(Entries) /\ Len(u) = a + 1
       /\ \A i \in 1 .. a + 1 : u[i] = IF i <= a THEN x[i] ELSE y[i - a]
  <2>1. u \in Seq(Entries)  BY <1>5, <1>7, <1>9, ConcatProperties
  <2>2. Len(u) = Len(x) + Len(y)
    <3>1. x \in Seq(Entries) /\ y \in Seq(Entries)  BY <1>7, <1>9
    <3>2. Len(x \o y) = Len(x) + Len(y)  BY <3>1
    <3> QED  BY <1>5, <3>2, Zenon
  <2>3. \A i \in 1 .. Len(x) + Len(y) : u[i] = IF i <= Len(x) THEN x[i] ELSE y[i - Len(x)]
    BY <1>5, <1>7, <1>9, ConcatProperties
  <2>4. Len(x) = a /\ Len(y) = 1  BY <1>7, <1>9
  <2> QED  BY <2>1, <2>2, <2>3, <2>4
<1>11. PICK w : w = u \o z  OBVIOUS
<1>12. /\ w \in Seq(Entries) /\ Len(w) = a + 1 + (n - b)
       /\ \A i \in 1 .. a + 1 + (n - b) : w[i] = IF i <= a + 1 THEN u[i] ELSE z[i - (a + 1)]
  <2>1. w \in Seq(Entries)  BY <1>8, <1>10, <1>11, ConcatProperties
  <2>2. Len(w) = Len(u) + Len(z)  BY <1>8, <1>10, <1>11, ConcatProperties
  <2>3. \A i \in 1 .. Len(u) + Len(z) : w[i] = IF i <= Len(u) THEN u[i] ELSE z[i - Len(u)]
    BY <1>8, <1>10, <1>11, ConcatProperties
  <2>4. Len(u) = a + 1 /\ Len(z) = n - b  BY <1>8, <1>10
  <2> QED  BY <2>1, <2>2, <2>3, <2>4
<1>13. Len(w) = n - b + a + 1  BY <1>12
<1>14. ASSUME NEW i \in 1 .. a PROVE w[i] = q[i]
  <2>1. i \in 1 .. a + 1 + (n - b) /\ i <= a + 1 /\ i \in 1 .. a + 1 /\ i <= a  BY <1>6
  <2>2. w[i] = u[i]  BY <2>1, <1>12
  <2>3. u[i] = x[i]  BY <2>1, <1>10
  <2>4. x[i] = q[i]  BY <1>7
  <2> QED  BY <2>2, <2>3, <2>4
<1>15. w[a + 1] = e
  <2>1. a + 1 \in 1 .. a + 1 + (n - b) /\ a + 1 \in 1 .. a + 1 /\ a + 1 <= a + 1  BY <1>6
  <2>2. ~ (a + 1 <= a) /\ (a + 1) - a = 1  OBVIOUS
  <2>3. w[a + 1] = u[a + 1]  BY <2>1, <1>12
  <2>4. u[a + 1] = y[(a + 1) - a]  BY <2>1, <2>2, <1>10
  <2> QED  BY <2>2, <2>3, <2>4, <1>9
<1>16. ASSUME NEW i \in a + 2 .. Len(w) PROVE w[i] = q[i + b - a - 1]
  <2>1. i \in a + 2 .. a + 1 + (n - b)  BY <1>12
  <2>2. i \in 1 .. a + 1 + (n - b) /\ ~ (i <= a + 1) /\ i - (a + 1) \in 1 .. n - b  BY <2>1, <1>6
  <2>3. b + (i - (a + 1)) = i + b - a - 1  BY <2>1
  <2>4. w[i] = z[i - (a + 1)]  BY <2>2, <1>12
  <2>5. z[i - (a + 1)] = q[b + (i - (a + 1))]  BY <2>2, <1>8
  <2> QED  BY <2>3, <2>4, <2>5
<1>17. Heuristic(w) = Heuristic(x) + e.w + Heuristic(z)
  <2>1. Heuristic(u) = Heuristic(x) + Heuristic(y)  BY <1>5, <1>7, <1>9, HeuristicConcat
  <2>2. Heuristic(w) = Heuristic(u) + Heuristic(z)  BY <1>8, <1>10, <1>11, HeuristicConcat
  <2>3. Heuristic(y) = e.w  BY <1>4, HeuristicOne
  <2> QED  BY <2>1, <2>2, <2>3
<1>18. p = w  BY <1>1, <1>2, <1>3, <1>4, <1>5, <1>11
<1>19. w \in Seq(Entries)  BY <1>12
<1>20. StandsFor(e, w, q, a, b)  BY <1>1, <1>2, <1>3, <1>19, <1>13, <1>14, <1>15, <1>16, <1>17 DEF StandsFor
<1> QED  BY <1>18, <1>20

\* The beginnings of two histories, where they have the same messages, are the same.
LEMMA Beginning ==
    ASSUME NEW p \in Seq(Entries), NEW q \in Seq(Entries), NEW k \in Nat, k <= Len(p), k <= Len(q),
           \A i \in 1 .. k : p[i] = q[i]
    PROVE  SubSeq(p, 1, k) = SubSeq(q, 1, k)
<1>1. PICK x : x = SubSeq(p, 1, k)  OBVIOUS
<1>2. PICK y : y = SubSeq(q, 1, k)  OBVIOUS
<1>3. \A i \in 1 .. k : p[i] \in Entries /\ q[i] \in Entries  BY ElementOfSeq
<1>4. x \in Seq(Entries) /\ Len(x) = k /\ \A i \in 1 .. k : x[i] = p[i]
  <2>1. x \in Seq(Entries)  BY <1>1, <1>3, SubSeqProperties
  <2>2. Len(x) = (IF 1 <= k THEN k - 1 + 1 ELSE 0)  BY <1>1, <1>3, SubSeqProperties
  <2>3. \A i \in 1 .. k - 1 + 1 : x[i] = p[1 + i - 1]  BY <1>1, <1>3, SubSeqProperties
  <2> QED  BY <2>1, <2>2, <2>3
<1>5. y \in Seq(Entries) /\ Len(y) = k /\ \A i \in 1 .. k : y[i] = q[i]
  <2>1. y \in Seq(Entries)  BY <1>2, <1>3, SubSeqProperties
  <2>2. Len(y) = (IF 1 <= k THEN k - 1 + 1 ELSE 0)  BY <1>2, <1>3, SubSeqProperties
  <2>3. \A i \in 1 .. k - 1 + 1 : y[i] = q[1 + i - 1]  BY <1>2, <1>3, SubSeqProperties
  <2> QED  BY <2>1, <2>2, <2>3
<1>6. x = y  BY <1>4, <1>5, SeqEqual
<1> QED  BY <1>1, <1>2, <1>6

\* The end of a history.
IsEnd(p, q, k) == p \in Seq(Entries) /\ Len(p) = Len(q) - k /\ \A i \in 1 .. Len(p) : p[i] = q[k + i]

\* SubSeq gives one.
LEMMA Ending ==
    ASSUME NEW q \in Seq(Entries), NEW k \in Nat, k <= Len(q)
    PROVE  IsEnd(SubSeq(q, k + 1, Len(q)), q, k)
<1>8. PICK p : p = SubSeq(q, k + 1, Len(q))  OBVIOUS
<1>1. PICK n \in Nat : n = Len(q)  OBVIOUS
<1>2. \A i \in k + 1 .. n : q[i] \in Entries  BY <1>1, ElementOfSeq
<1>3. Len(p) = (IF k + 1 <= n THEN n - (k + 1) + 1 ELSE 0)  BY <1>1, <1>2, <1>8, SubSeqProperties
<1>4. \A i \in 1 .. n - (k + 1) + 1 : p[i] = q[k + 1 + i - 1]  BY <1>1, <1>2, <1>8, SubSeqProperties
<1>5. p \in Seq(Entries)  BY <1>1, <1>2, <1>8, SubSeqProperties
<1>6. Len(p) = n - k  BY <1>1, <1>3
<1>7. \A i \in 1 .. n - k : k + 1 + i - 1 = k + i /\ i \in 1 .. n - (k + 1) + 1  OBVIOUS
<1>9. IsEnd(p, q, k)  BY <1>1, <1>4, <1>5, <1>6, <1>7 DEF IsEnd
<1> QED  BY <1>8, <1>9

\* A spliced history's messages are those.
LEMMA SplicedAs ==
    ASSUME NEW h \in Histories, NEW a \in Int, NEW b \in Int, NEW e \in Entries, NEW g, Spliced(g, h, a, b, e)
    PROVE  StandsFor(e, g.entries, h.entries, a, b)
<1>1. PICK q \in Seq(Entries) : q = h.entries  BY DEF Histories
<1>2. PICK p : p = g.entries  OBVIOUS
<1>3. p = SubSeq(q, 1, a) \o <<e>> \o SubSeq(q, b + 1, Len(q))  BY <1>1, <1>2 DEF Spliced
<1>4. 0 <= a /\ a < b /\ b <= Len(q)  BY <1>1 DEF Spliced
<1>5. a \in Nat /\ b \in Nat  BY <1>4
<1>6. StandsFor(e, p, q, a, b)  BY <1>3, <1>4, <1>5, Replaced, Zenon
<1> QED  BY <1>1, <1>2, <1>6

\* A history of n messages or fewer were said, each call's id its own.
Sound(h, n) ==
    /\ h \in Histories /\ Len(h.entries) <= n /\ h.index \in None .. n
    /\ Distinct(h.entries, n)

\* A splice keeps it so, whatever of the history it replaces (splice_range).
LEMMA SpliceSound ==
    ASSUME NEW n \in Nat, NEW h, Sound(h, n), NEW start \in Int, NEW stop \in Int,
           NEW e \in Entries, e.kind # "call"
    PROVE  Sound(Splice(h, start, stop, e), n)
<1>1. PICK g : g = Splice(h, start, stop, e)  OBVIOUS
<1>2. h \in Histories  BY DEF Sound
<1>3. CASE g = h  BY <1>1, <1>3
<1>4. CASE g # h
  <2>1. PICK q \in Seq(Entries) : q = h.entries  BY <1>2 DEF Histories
  <2>2. PICK p : p = g.entries  OBVIOUS
  <2>31. Spliced(g, h, start, stop, e)  BY <1>1, <1>2, <1>4, SpliceIs, Zenon
  <2>32. StandsFor(e, g.entries, h.entries, start, stop)  BY <2>31, <1>2, SplicedAs
  <2>33. StandsFor(e, p, q, start, stop)  BY <2>32, <2>1, <2>2
  <2>34. 0 <= start /\ start < stop /\ stop <= Len(q)  BY <2>31, <2>1 DEF Spliced
  <2>36. g = [entries |-> p, index |-> g.index, total |-> g.total]  BY <2>31, <2>2 DEF Spliced
  <2>3. (g.index = h.index /\ g.total = h.total) \/ (g.index = None /\ g.total = 0)  BY <2>31 DEF Spliced
  <2>4. start \in Nat /\ stop \in Nat  BY <2>34, LenProperties
  <2>5. /\ p \in Seq(Entries) /\ Len(p) = Len(q) - stop + start + 1
        /\ \A i \in 1 .. start : p[i] = q[i]
        /\ p[start + 1] = e
        /\ \A i \in start + 2 .. Len(p) : p[i] = q[i + stop - start - 1]
    BY <2>33 DEF StandsFor
  <2>6. Len(q) \in Nat /\ Len(q) <= n /\ Len(p) \in Nat  BY <2>1, <2>5, LenProperties DEF Sound
  <2>7. Len(p) <= n  BY <2>34, <2>4, <2>5, <2>6
  <2>8. g.index \in None .. n /\ g.total \in Nat  BY <2>3, <1>2 DEF Sound, None, Histories
  <2>9. g.index \in Int  BY <2>8 DEF None
  <2>10. g \in Histories  BY <2>36, <2>5, <2>8, <2>9 DEF Histories
  <2>11. ASSUME NEW k \in 1 .. Len(p), p[k].kind = "call"
         PROVE  \E m \in 1 .. Len(q) : p[k] = q[m] /\ m = IF k <= start THEN k ELSE k + stop - start - 1
    <3>1. k # start + 1  BY <2>5, <2>11
    <3>2. CASE k <= start
      <4>1. k \in 1 .. start /\ k \in 1 .. Len(q)  BY <3>2, <2>34, <2>4, <2>6
      <4> QED  BY <4>1, <3>2, <2>5
    <3>3. CASE ~ (k <= start)
      <4>1. k \in start + 2 .. Len(p)  BY <3>1, <3>3, <2>4, <2>6
      <4>2. k + stop - start - 1 \in 1 .. Len(q)  BY <4>1, <2>34, <2>4, <2>5, <2>6
      <4> QED  BY <4>1, <4>2, <3>3, <2>5
    <3> QED  BY <3>2, <3>3
  <2>12. /\ \A k \in 1 .. Len(q) : q[k].kind = "call" => q[k].id \in 0 .. n - 1
         /\ \A j, k \in 1 .. Len(q) :
               q[j].kind = "call" /\ q[k].kind = "call" /\ q[j].id = q[k].id => j = k
    BY <2>1 DEF Sound, Distinct
  <2>13. ASSUME NEW k \in 1 .. Len(p), p[k].kind = "call" PROVE p[k].id \in 0 .. n - 1
    BY <2>11, <2>12, <2>13
  <2>14. ASSUME NEW j \in 1 .. Len(p), NEW k \in 1 .. Len(p), p[j].kind = "call", p[k].kind = "call",
                p[j].id = p[k].id
         PROVE  j = k
    <3>1. PICK x \in 1 .. Len(q) : p[j] = q[x] /\ x = IF j <= start THEN j ELSE j + stop - start - 1
      BY <2>11, <2>14
    <3>2. PICK y \in 1 .. Len(q) : p[k] = q[y] /\ y = IF k <= start THEN k ELSE k + stop - start - 1
      BY <2>11, <2>14
    <3>3. q[x].kind = "call" /\ q[y].kind = "call" /\ q[x].id = q[y].id  BY <3>1, <3>2, <2>14
    <3>4. x = y  BY <3>3, <2>12
    <3>5. j # start + 1 /\ k # start + 1  BY <2>5, <2>14
    <3> QED  BY <3>1, <3>2, <3>4, <3>5, <2>34, <2>4
  <2>15. Distinct(p, n)  BY <2>13, <2>14 DEF Distinct
  <2> QED  BY <1>1, <2>2, <2>7, <2>8, <2>10, <2>15 DEF Sound
<1> QED  BY <1>3, <1>4

\* A count that a splice leaves is of messages it leaves.
LEMMA SpliceCount ==
    ASSUME NEW h \in Histories, CountOf(h), NEW start \in Int, NEW stop \in Int, NEW e \in Entries
    PROVE  CountOf(Splice(h, start, stop, e))
<1>1. PICK g : g = Splice(h, start, stop, e)  OBVIOUS
<1>2. CASE g = h  BY <1>1, <1>2
<1>3. CASE g # h
  <2>1. PICK q \in Seq(Entries) : q = h.entries  BY DEF Histories
  <2>2. PICK p : p = g.entries  OBVIOUS
  <2>31. Spliced(g, h, start, stop, e)  BY <1>1, <1>3, SpliceIs, Zenon
  <2>32. StandsFor(e, g.entries, h.entries, start, stop)  BY <2>31, SplicedAs
  <2>33. StandsFor(e, p, q, start, stop)  BY <2>32, <2>1, <2>2
  <2>34. 0 <= start /\ start < stop /\ stop <= Len(q)  BY <2>31, <2>1 DEF Spliced
  <2>4. start \in Nat /\ stop \in Nat  BY <2>34, LenProperties
  <2>5. /\ p \in Seq(Entries) /\ Len(p) = Len(q) - stop + start + 1
        /\ \A i \in 1 .. start : p[i] = q[i]
    BY <2>33 DEF StandsFor
  <2>6. Len(q) \in Nat /\ Len(p) >= start + 1 /\ Len(p) \in Nat  BY <2>34, <2>4, <2>5, LenProperties
  <2>7. CASE g.index = None
    <3>1. g.index < Len(p) /\ ~ (g.index >= 0)  BY <2>6, <2>7 DEF None
    <3> QED  BY <1>1, <2>2, <3>1 DEF CountOf
  <2>8. CASE h.index < start /\ g.index = h.index /\ g.total = h.total
    <3>1. h.index \in Int  BY DEF Histories
    <3>2. g.index < Len(p)  BY <2>4, <2>6, <2>8, <3>1
    <3>3. ASSUME g.index >= 0 PROVE g.total = Provider(SubSeq(p, 1, g.index + 1))
      <4>0. h.index + 1 \in Nat  BY <3>1, <3>3, <2>8
      <4>1. PICK k \in Nat : k = h.index + 1  BY <4>0
      <4>2. k <= start /\ k <= Len(p) /\ k <= Len(q)  BY <4>1, <3>1, <2>34, <2>4, <2>6, <2>8
      <4>3. \A i \in 1 .. k : p[i] = q[i]  BY <4>2, <2>4, <2>5
      <4>4. SubSeq(p, 1, k) = SubSeq(q, 1, k)  BY <4>2, <4>3, <2>5, Beginning
      <4>5. h.total = Provider(SubSeq(q, 1, k))  BY <4>1, <2>1, <3>3, <2>8 DEF CountOf
      <4> QED  BY <4>1, <4>4, <4>5, <2>8
    <3> QED  BY <1>1, <2>2, <3>2, <3>3 DEF CountOf
  <2> QED  BY <2>31, <2>7, <2>8 DEF Spliced
<1> QED  BY <1>2, <1>3

\* Where each message weighs something, a message of the least weight in the place of others
\* makes a history no heavier.
LEMMA SpliceSolid ==
    ASSUME NEW h \in Histories, Solid(h.entries), NEW start \in Int, NEW stop \in Int,
           NEW e \in Entries, e.w = 1, NEW g, g = Splice(h, start, stop, e)
    PROVE  Solid(g.entries) /\ Heuristic(g.entries) <= Heuristic(h.entries)
<1>1. PICK q \in Seq(Entries) : q = h.entries  BY DEF Histories
<1>2. CASE g = h
  <2>1. Heuristic(q) \in Nat  BY HeuristicNat
  <2> QED  BY <2>1, <1>1, <1>2
<1>3. CASE g # h
  <2>2. PICK p : p = g.entries  OBVIOUS
  <2>31. Spliced(g, h, start, stop, e)  BY <1>3, SpliceIs, Zenon
  <2>32. StandsFor(e, g.entries, h.entries, start, stop)  BY <2>31, SplicedAs
  <2>33. StandsFor(e, p, q, start, stop)  BY <2>32, <1>1, <2>2
  <2>34. 0 <= start /\ start < stop /\ stop <= Len(q)  BY <2>31, <1>1 DEF Spliced
  <2>4. start \in Nat /\ stop \in Nat /\ Len(q) \in Nat  BY <2>34, LenProperties
  <2>5. /\ p \in Seq(Entries) /\ Len(p) = Len(q) - stop + start + 1
        /\ \A i \in 1 .. start : p[i] = q[i]
        /\ p[start + 1] = e
        /\ \A i \in start + 2 .. Len(p) : p[i] = q[i + stop - start - 1]
        /\ Heuristic(p) = Heuristic(SubSeq(q, 1, start)) + e.w + Heuristic(SubSeq(q, stop + 1, Len(q)))
    BY <2>33 DEF StandsFor
  <2>6. \A k \in 1 .. Len(q) : q[k].w >= 1  BY <1>1 DEF Solid
  <2>7. ASSUME NEW k \in 1 .. Len(p) PROVE p[k].w >= 1
    <3>1. CASE k <= start
      <4>1. k \in 1 .. start /\ k \in 1 .. Len(q)  BY <3>1, <2>34, <2>4
      <4> QED  BY <4>1, <2>5, <2>6
    <3>2. CASE k = start + 1  BY <3>2, <2>5
    <3>3. CASE k > start + 1
      <4>1. k \in start + 2 .. Len(p)  BY <3>3, <2>4, <2>5
      <4>2. k + stop - start - 1 \in 1 .. Len(q)  BY <4>1, <2>34, <2>4, <2>5
      <4> QED  BY <4>1, <4>2, <2>5, <2>6
    <3> QED  BY <3>1, <3>2, <3>3, <2>4
  <2>8. PICK r : r = SubSeq(q, start + 1, Len(q))  OBVIOUS
  <2>9. r \in Seq(Entries) /\ Len(r) = Len(q) - start /\ \A i \in 1 .. Len(r) : r[i] = q[start + i]
    <3>1. IsEnd(r, q, start)  BY <2>34, <2>4, <2>8, Ending
    <3> QED  BY <3>1 DEF IsEnd
  <2>10. PICK c \in Nat : c = stop - start  BY <2>34, <2>4
  <2>11. c \in 0 .. Len(r) /\ c >= 1  BY <2>34, <2>4, <2>9, <2>10
  <2>12. PICK x : x = SubSeq(r, 1, c)  OBVIOUS
  <2>13. PICK z : z = SubSeq(r, c + 1, Len(r))  OBVIOUS
  <2>14. Heuristic(r) = Heuristic(x) + Heuristic(z)  BY <2>9, <2>11, <2>12, <2>13, HeuristicSplit
  <2>15. Heuristic(q) = Heuristic(SubSeq(q, 1, start)) + Heuristic(r)
    <3>1. start \in 0 .. Len(q)  BY <2>34, <2>4
    <3> QED  BY <3>1, <2>8, HeuristicSplit
  <2>16. z \in Seq(Entries) /\ Len(z) = Len(r) - c /\ \A i \in 1 .. Len(z) : z[i] = r[c + i]
    <3>1. c \in Nat /\ c <= Len(r)
      <4>1. Len(r) \in Nat  BY <2>9
      <4> QED  BY <2>11, <4>1
    <3>2. r \in Seq(Entries)  BY <2>9
    <3>3. IsEnd(z, r, c)  BY <2>13, <3>1, <3>2, Ending
    <3> QED  BY <3>3 DEF IsEnd
  <2>17. z = SubSeq(q, stop + 1, Len(q))
    <3>1. PICK t : t = SubSeq(q, stop + 1, Len(q))  OBVIOUS
    <3>2. t \in Seq(Entries) /\ Len(t) = Len(q) - stop /\ \A i \in 1 .. Len(t) : t[i] = q[stop + i]
      BY <3>1, <2>34, <2>4, Ending
    <3>3. Len(t) = Len(z)  BY <3>2, <2>4, <2>9, <2>10, <2>16
    <3>4. ASSUME NEW i \in 1 .. Len(z) PROVE z[i] = t[i]
      <4>1. c + i \in 1 .. Len(r) /\ start + (c + i) = stop + i  BY <2>4, <2>9, <2>10, <2>16
      <4>2. r[c + i] = q[start + (c + i)]  BY <4>1, <2>9
      <4>3. i \in 1 .. Len(t)  BY <3>3
      <4>4. t[i] = q[stop + i]  BY <4>3, <3>2
      <4>5. z[i] = r[c + i]  BY <2>16
      <4> QED  BY <4>1, <4>2, <4>4, <4>5
    <3>5. z = t  BY <3>2, <3>3, <3>4, <2>16, SeqEqual
    <3> QED  BY <3>1, <3>5
  <2>18. x \in Seq(Entries) /\ Len(x) = c /\ \A i \in 1 .. c : x[i] = r[i]
    <3>1. \A i \in 1 .. c : r[i] \in Entries  BY <2>9, <2>11, ElementOfSeq
    <3>2. x \in Seq(Entries)  BY <2>12, <3>1, SubSeqProperties
    <3>3. Len(x) = (IF 1 <= c THEN c - 1 + 1 ELSE 0)  BY <2>12, <3>1, SubSeqProperties
    <3>4. \A i \in 1 .. c - 1 + 1 : x[i] = r[1 + i - 1]  BY <2>12, <3>1, SubSeqProperties
    <3> QED  BY <3>2, <3>3, <3>4
  <2>19. Solid(x)
    <3>1. ASSUME NEW i \in 1 .. c PROVE x[i].w >= 1
      <4>1. i \in 1 .. Len(r) /\ start + i \in 1 .. Len(q)  BY <2>34, <2>4, <2>9, <2>10, <2>11
      <4> QED  BY <4>1, <2>6, <2>9, <2>18
    <3> QED  BY <3>1, <2>18 DEF Solid
  <2>20. Heuristic(x) >= c  BY <2>18, <2>19, HeuristicSolid
  <2>21. SubSeq(q, 1, start) \in Seq(Entries)
    <3>1. \A i \in 1 .. start : q[i] \in Entries  BY <2>34, <2>4, ElementOfSeq
    <3> QED  BY <3>1, <2>4, SubSeqProperties
  <2>22. Heuristic(SubSeq(q, 1, start)) \in Nat /\ Heuristic(x) \in Nat /\ Heuristic(z) \in Nat
    BY <2>16, <2>18, <2>21, HeuristicNat
  <2>23. Heuristic(p) = Heuristic(SubSeq(q, 1, start)) + 1 + Heuristic(z)  BY <2>5, <2>17
  <2>24. Heuristic(p) <= Heuristic(q)  BY <2>11, <2>14, <2>15, <2>20, <2>22, <2>23
  <2>25. Solid(p)  BY <2>7 DEF Solid
  <2> QED  BY <1>1, <2>2, <2>24, <2>25
<1> QED  BY <1>2, <1>3

\* Where a beginning is spliced that does not end between a call and its result, results keep
\* their calls.
LEMMA SplicePaired ==
    ASSUME NEW h \in Histories, Paired(h.entries), NEW stop \in Nat, NEW e \in Entries, e.kind # "result",
           stop < Len(h.entries) => h.entries[stop + 1].kind # "result"
    PROVE  Paired(Splice(h, 0, stop, e).entries)
<1>1. PICK g : g = Splice(h, 0, stop, e)  OBVIOUS
<1>2. PICK q \in Seq(Entries) : q = h.entries  BY DEF Histories
<1>3. CASE g = h  BY <1>1, <1>3
<1>4. CASE g # h
  <2>1. PICK p : p = g.entries  OBVIOUS
  <2>0. 0 \in Int /\ stop \in Int  OBVIOUS
  <2>2. Spliced(g, h, 0, stop, e)  BY <1>1, <1>4, <2>0, SpliceIs, Zenon
  <2>3. StandsFor(e, g.entries, h.entries, 0, stop)  BY <2>2, SplicedAs
  <2>4. StandsFor(e, p, q, 0, stop)  BY <2>1, <2>3, <1>2
  <2>5. 0 < stop /\ stop <= Len(q)  BY <2>2, <1>2 DEF Spliced
  <2>6. /\ Len(p) = Len(q) - stop + 1 /\ p[1] = e
        /\ \A i \in 2 .. Len(p) : p[i] = q[i + stop - 1]
    <3>1. /\ p \in Seq(Entries) /\ Len(p) = Len(q) - stop + 0 + 1
          /\ p[0 + 1] = e
          /\ \A i \in 0 + 2 .. Len(p) : p[i] = q[i + stop - 0 - 1]
      BY <2>4 DEF StandsFor
    <3>2. Len(q) \in Nat /\ Len(p) = Len(q) - stop + 1 /\ p[1] = e  BY <3>1
    <3>3. ASSUME NEW i \in 2 .. Len(p) PROVE p[i] = q[i + stop - 1]
      <4>1. i \in 0 + 2 .. Len(p) /\ i + stop - 0 - 1 = i + stop - 1  OBVIOUS
      <4>2. p[i] = q[i + stop - 0 - 1]  BY <3>1, <4>1
      <4> QED  BY <4>1, <4>2
    <3> QED  BY <3>2, <3>3
  <2>7. Len(q) \in Nat  OBVIOUS
  <2>8. \A k \in 1 .. Len(q) :
           q[k].kind = "result" => k > 1 /\ q[k - 1].kind = "call" /\ q[k - 1].id = q[k].id
    BY <1>2 DEF Paired
  <2>9. ASSUME NEW k \in 1 .. Len(p), p[k].kind = "result"
        PROVE  k > 1 /\ p[k - 1].kind = "call" /\ p[k - 1].id = p[k].id
    <3>1. k # 1  BY <2>6, <2>9
    <3>2. k \in 2 .. Len(p) /\ k + stop - 1 \in 1 .. Len(q)  BY <3>1, <2>5, <2>6, <2>7
    <3>3. p[k] = q[k + stop - 1]  BY <3>2, <2>6
    <3>4. k # 2
      <4>1. SUFFICES ASSUME k = 2 PROVE FALSE  OBVIOUS
      <4>2. k + stop - 1 = stop + 1 /\ stop < Len(q)  BY <4>1, <3>2, <2>7
      <4>3. q[stop + 1].kind # "result"  BY <4>2, <1>2
      <4> QED  BY <4>2, <4>3, <3>3, <2>9
    <3>5. k - 1 \in 2 .. Len(p) /\ (k - 1) + stop - 1 = (k + stop - 1) - 1  BY <3>2, <3>4
    <3>6. p[k - 1] = q[(k + stop - 1) - 1]  BY <3>5, <2>6
    <3>7. q[(k + stop - 1) - 1].kind = "call" /\ q[(k + stop - 1) - 1].id = q[k + stop - 1].id
      BY <3>2, <3>3, <2>8, <2>9
    <3> QED  BY <3>2, <3>3, <3>6, <3>7
  <2>10. Paired(p)  BY <2>9 DEF Paired
  <2> QED  BY <1>1, <2>1, <2>10
<1> QED  BY <1>3, <1>4

\* The end of a history is one of calls and results, where it does not begin with a result.
EndOfAll(p, q, k, n) ==
    /\ Distinct(q, n) => Distinct(p, n)
    /\ Solid(q) => Solid(p)
    /\ Paired(q) /\ (k < Len(q) => q[k + 1].kind # "result") => Paired(p)

\* Which holds of SubSeq's.
LEMMA EndingKeeps ==
    ASSUME NEW q \in Seq(Entries), NEW k \in Nat, k <= Len(q), NEW n \in Nat
    PROVE  EndOfAll(SubSeq(q, k + 1, Len(q)), q, k, n)
<1>6. PICK p : p = SubSeq(q, k + 1, Len(q))  OBVIOUS
<1>1. p \in Seq(Entries) /\ Len(p) = Len(q) - k /\ \A i \in 1 .. Len(p) : p[i] = q[k + i]
  <2>1. IsEnd(p, q, k)  BY <1>6, Ending
  <2> QED  BY <2>1 DEF IsEnd
<1>2. Len(q) \in Nat /\ \A i \in 1 .. Len(p) : k + i \in 1 .. Len(q)  BY <1>1
<1>3. ASSUME Distinct(q, n) PROVE Distinct(p, n)
  <2>1. ASSUME NEW i \in 1 .. Len(p), p[i].kind = "call" PROVE p[i].id \in 0 .. n - 1
    BY <1>1, <1>2, <1>3, <2>1 DEF Distinct
  <2>2. ASSUME NEW i \in 1 .. Len(p), NEW j \in 1 .. Len(p), p[i].kind = "call", p[j].kind = "call",
               p[i].id = p[j].id
        PROVE  i = j
    <3>1. k + i \in 1 .. Len(q) /\ k + j \in 1 .. Len(q) /\ p[i] = q[k + i] /\ p[j] = q[k + j]
      BY <1>1, <1>2
    <3>2. k + i = k + j  BY <3>1, <2>2, <1>3 DEF Distinct
    <3> QED  BY <3>2
  <2> QED  BY <2>1, <2>2 DEF Distinct
<1>4. ASSUME Solid(q) PROVE Solid(p)
  BY <1>1, <1>2, <1>4 DEF Solid
<1>5. ASSUME Paired(q), k < Len(q) => q[k + 1].kind # "result" PROVE Paired(p)
  <2>1. ASSUME NEW i \in 1 .. Len(p), p[i].kind = "result"
        PROVE  i > 1 /\ p[i - 1].kind = "call" /\ p[i - 1].id = p[i].id
    <3>1. k + i \in 1 .. Len(q) /\ p[i] = q[k + i]  BY <1>1, <1>2
    <3>2. i # 1
      <4>1. SUFFICES ASSUME i = 1 PROVE FALSE  OBVIOUS
      <4>2. k < Len(q)  BY <3>1, <4>1, <1>2
      <4> QED  BY <4>1, <4>2, <3>1, <1>5, <2>1
    <3>3. i - 1 \in 1 .. Len(p) /\ k + (i - 1) = (k + i) - 1  BY <3>2, <1>1, <1>2
    <3>4. p[i - 1] = q[(k + i) - 1]  BY <3>3, <1>1
    <3>5. q[(k + i) - 1].kind = "call" /\ q[(k + i) - 1].id = q[k + i].id
      BY <3>1, <2>1, <1>5 DEF Paired
    <3> QED  BY <3>1, <3>2, <3>4, <3>5
  <2> QED  BY <2>1 DEF Paired
<1>7. EndOfAll(p, q, k, n)  BY <1>3, <1>4, <1>5 DEF EndOfAll
<1> QED  BY <1>6, <1>7

\* Truncating leaves an end that does not begin with a result (ConversationHistory.truncate).
LEMMA TruncateKeeps ==
    ASSUME NEW n \in Nat, NEW h, Sound(h, n), Paired(h.entries), NEW keep \in Nat,
           NEW g, g = Truncate(h, keep)
    PROVE  /\ Sound(g, n) /\ Paired(g.entries)
           /\ Solid(h.entries) => Solid(g.entries)
           /\ Heuristic(g.entries) <= Heuristic(h.entries)
<1>1. PICK q \in Seq(Entries) : q = h.entries  BY DEF Sound, Histories
<1>2. Heuristic(q) \in Nat /\ Len(q) \in Nat  BY HeuristicNat, LenProperties
<1>3. CASE keep >= Len(q)
  <2>1. g = h  BY <1>1, <1>3 DEF Truncate, Size
  <2> QED  BY <2>1, <1>1, <1>2
<1>4. CASE ~ (keep >= Len(q))
  <2> DEFINE Places == {i \in Len(q) - keep .. Len(q) : i = Len(q) \/ ~ Orphaned(h, i)}
  <2>1. PICK k : k = Cut(h, keep)  OBVIOUS
  <2>2. g = [h EXCEPT !.entries = SubSeq(q, k + 1, Len(q))]
    BY <2>1, <1>1, <1>4 DEF Truncate, Size
  <2>3. k \in Nat /\ k <= Len(q) /\ (k = Len(q) \/ ~ Orphaned(h, k))
    <3>1. Places \in SUBSET Nat /\ Len(q) \in Places  BY <1>2, <1>4
    <3>2. k = Min(Places)  BY <2>1, <1>1 DEF Cut, Size
    <3>3. \E i \in Places : \A j \in Places : i <= j
      <4> HIDE DEF Places
      <4> QED  BY <3>1, LeastOf
    <3>4. k \in Places
      <4> HIDE DEF Places
      <4> QED  BY <3>2, <3>3 DEF Min
    <3> QED  BY <3>1, <3>4
  <2>4. k < Len(q) => q[k + 1].kind # "result"
    <3>1. SUFFICES ASSUME k < Len(q), q[k + 1].kind = "result" PROVE FALSE  OBVIOUS
    <3>2. ~ Orphaned(h, k)  BY <2>3, <3>1
    <3>3. PICK j \in k .. Len(q) - 1 : q[j + 1].kind = "call" /\ q[j + 1].id = q[k + 1].id
      BY <3>1, <3>2, <1>1 DEF Orphaned, At, Size
    <3>4. k + 1 \in 1 .. Len(q) /\ j + 1 \in 1 .. Len(q)  BY <3>1, <2>3, <1>2
    <3>5. k + 1 > 1 /\ q[k].kind = "call" /\ q[k].id = q[k + 1].id
      <4>1. k + 1 > 1 /\ q[(k + 1) - 1].kind = "call" /\ q[(k + 1) - 1].id = q[k + 1].id
        BY <3>1, <3>4, <1>1 DEF Paired
      <4>2. (k + 1) - 1 = k  BY <2>3
      <4> QED  BY <4>1, <4>2
    <3>6. k \in 1 .. Len(q)  BY <3>4, <3>5, <2>3
    <3>7. k = j + 1  BY <3>3, <3>4, <3>5, <3>6, <1>1 DEF Sound, Distinct
    <3> QED  BY <3>7, <2>3
  <2>5. PICK p : p = SubSeq(q, k + 1, Len(q))  OBVIOUS
  <2>6. p \in Seq(Entries) /\ Len(p) = Len(q) - k
    <3>1. IsEnd(p, q, k)  BY <2>3, <2>5, Ending
    <3> QED  BY <3>1 DEF IsEnd
  <2>7. Distinct(p, n) /\ Paired(p) /\ (Solid(q) => Solid(p))
    <3>6. n \in Nat  OBVIOUS
    <3>1. Distinct(q, n) /\ Paired(q)  BY <1>1 DEF Sound
    <3>2. k \in Nat /\ k <= Len(q)  BY <2>3
    <3>3. EndOfAll(p, q, k, n)  BY <3>2, <3>6, <2>5, EndingKeeps
    <3>4. (Distinct(q, n) => Distinct(p, n)) /\ (Solid(q) => Solid(p))  BY <3>3 DEF EndOfAll
    <3>5. Paired(q) /\ (k < Len(q) => q[k + 1].kind # "result") => Paired(p)  BY <3>3 DEF EndOfAll
    <3> QED  BY <3>1, <3>4, <3>5, <2>4
  <2>8. Heuristic(p) <= Heuristic(q)
    <3>1. k \in 0 .. Len(q)  BY <2>3, <1>2
    <3> QED  BY <3>1, <2>5, HeuristicSuffix
  <2>9. h = [entries |-> q, index |-> h.index, total |-> h.total] /\ h \in Histories
    BY <1>1 DEF Sound, Histories
  <2>10. g = [entries |-> p, index |-> h.index, total |-> h.total]  BY <2>2, <2>5, <2>9
  <2>11. g.entries = p /\ g.index = h.index /\ g \in Histories
    <3>1. h.index \in Int /\ h.total \in Nat  BY <2>9 DEF Histories
    <3> QED  BY <3>1, <2>6, <2>10 DEF Histories
  <2>12. Len(p) <= n /\ h.index \in None .. n
    <3>1. Len(q) <= n /\ h.index \in None .. n  BY <1>1 DEF Sound
    <3> QED  BY <3>1, <2>3, <2>6, <1>2
  <2> QED  BY <1>1, <2>7, <2>8, <2>11, <2>12 DEF Sound
<1> QED  BY <1>3, <1>4

\* A message that is said goes on, with an id that is not given yet (ConversationHistory.append).
LEMMA AppendKeeps ==
    ASSUME NEW n \in Nat, NEW h, Sound(h, n), NEW e \in Entries, e.kind = "call" => e.id = n,
           NEW counted \in BOOLEAN, NEW g, g = Append_(h, e, counted)
    PROVE  /\ Sound(g, n + 1) /\ g.entries = Append(h.entries, e)
           /\ CountOf(h) => CountOf(g)
           /\ Solid(h.entries) /\ e.w >= 1 => Solid(g.entries)
<1>1. PICK q \in Seq(Entries) : q = h.entries  BY DEF Sound, Histories
<1>2. PICK p : p = Append(q, e)  OBVIOUS
<1>3. p \in Seq(Entries) /\ Len(p) = Len(q) + 1 /\ p[Len(q) + 1] = e /\ \A i \in 1 .. Len(q) : p[i] = q[i]
  BY <1>2
<1>4. g = [entries |-> p, index |-> IF counted THEN Len(q) - 1 ELSE h.index,
           total |-> IF counted THEN Provider(q) ELSE h.total]
  BY <1>1, <1>2 DEF Append_, Size
<1>5. Provider(q) \in Nat
  <2>1. Heuristic(q) \in Nat /\ Len(q) \in Nat  BY HeuristicNat, LenProperties
  <2> QED  BY <2>1 DEF Provider
<1>6. Len(q) \in Nat /\ Len(q) <= n /\ h.index \in None .. n /\ h.total \in Nat
  BY <1>1 DEF Sound, Histories
<1>7. g.entries = p  BY <1>4
<1>8. g.index = (IF counted THEN Len(q) - 1 ELSE h.index) /\ g.total = (IF counted THEN Provider(q) ELSE h.total)
  BY <1>4
<1>9. g.index \in None .. n + 1 /\ g.total \in Nat  BY <1>5, <1>6, <1>8 DEF None
<1>10. g \in Histories
  <2>1. g = [entries |-> p, index |-> g.index, total |-> g.total]  BY <1>4, <1>8
  <2>2. g.index \in Int  BY <1>9 DEF None
  <2> QED  BY <2>1, <2>2, <1>3, <1>9 DEF Histories
<1>11. Distinct(p, n + 1)
  <2>1. /\ \A k \in 1 .. Len(q) : q[k].kind = "call" => q[k].id \in 0 .. n - 1
        /\ \A j, k \in 1 .. Len(q) :
              q[j].kind = "call" /\ q[k].kind = "call" /\ q[j].id = q[k].id => j = k
    BY <1>1 DEF Sound, Distinct
  <2>2. ASSUME NEW k \in 1 .. Len(p) PROVE (k \in 1 .. Len(q) /\ p[k] = q[k]) \/ (k = Len(q) + 1 /\ p[k] = e)
    BY <1>3, <1>6
  <2>3. ASSUME NEW k \in 1 .. Len(p), p[k].kind = "call" PROVE p[k].id \in 0 .. (n + 1) - 1
    <3>1. CASE k \in 1 .. Len(q) /\ p[k] = q[k]
      <4>1. p[k].id \in 0 .. n - 1  BY <3>1, <2>1, <2>3
      <4> QED  BY <4>1
    <3>2. CASE k = Len(q) + 1 /\ p[k] = e  BY <3>2, <2>3
    <3> QED  BY <3>1, <3>2, <2>2
  <2>4. ASSUME NEW j \in 1 .. Len(p), NEW k \in 1 .. Len(p), p[j].kind = "call", p[k].kind = "call",
               p[j].id = p[k].id
        PROVE  j = k
    <3>1. CASE (j \in 1 .. Len(q) /\ p[j] = q[j]) /\ (k \in 1 .. Len(q) /\ p[k] = q[k])
      BY <3>1, <2>1, <2>4
    <3>2. CASE (j \in 1 .. Len(q) /\ p[j] = q[j]) /\ (k = Len(q) + 1 /\ p[k] = e)
      <4>1. q[j].id \in 0 .. n - 1 /\ q[j].id = n  BY <3>2, <2>1, <2>4
      <4> QED  BY <4>1
    <3>3. CASE (j = Len(q) + 1 /\ p[j] = e) /\ (k \in 1 .. Len(q) /\ p[k] = q[k])
      <4>1. q[k].id \in 0 .. n - 1 /\ q[k].id = n  BY <3>3, <2>1, <2>4
      <4> QED  BY <4>1
    <3>4. CASE j = Len(q) + 1 /\ k = Len(q) + 1  BY <3>4
    <3> QED  BY <3>1, <3>2, <3>3, <3>4, <2>2
  <2> QED  BY <2>3, <2>4 DEF Distinct
<1>12. Sound(g, n + 1)  BY <1>3, <1>6, <1>7, <1>9, <1>10, <1>11 DEF Sound
<1>13. ASSUME CountOf(h) PROVE CountOf(g)
  <2>1. CASE counted
    <3>0. g.index = Len(q) - 1 /\ g.total = Provider(q)  BY <2>1, <1>8, Zenon
    <3>1. g.index = Len(q) - 1 /\ g.total = Provider(q) /\ g.index + 1 = Len(q)  BY <3>0, <1>6
    <3>2. g.index < Len(p)  BY <3>1, <1>3, <1>6
    <3>3. SubSeq(p, 1, Len(q)) = SubSeq(q, 1, Len(q))
      <4>1. Len(q) <= Len(p) /\ Len(q) <= Len(q)  BY <1>3, <1>6
      <4> QED  BY <4>1, <1>3, <1>6, Beginning
    <3>4. SubSeq(p, 1, g.index + 1) = q  BY <3>1, <3>3, SubSeqFull
    <3> QED  BY <3>1, <3>2, <3>4, <1>7 DEF CountOf
  <2>2. CASE ~ counted
    <3>1. g.index = h.index /\ g.total = h.total  BY <2>2, <1>8
    <3>2. h.index < Len(q)  BY <1>1, <1>13 DEF CountOf
    <3>3. h.index \in Int  BY <1>6 DEF None
    <3>4. g.index < Len(p)  BY <3>1, <3>2, <3>3, <1>3, <1>6
    <3>5. ASSUME g.index >= 0 PROVE g.total = Provider(SubSeq(p, 1, g.index + 1))
      <4>1. h.index + 1 \in Nat /\ h.index + 1 <= Len(q) /\ h.index + 1 <= Len(p)
        BY <3>1, <3>2, <3>3, <3>5, <1>3, <1>6
      <4>2. PICK k \in Nat : k = h.index + 1  BY <4>1
      <4>3. k <= Len(q) /\ k <= Len(p) /\ \A i \in 1 .. k : p[i] = q[i]  BY <4>1, <4>2, <1>3, <1>6
      <4>4. SubSeq(p, 1, k) = SubSeq(q, 1, k)  BY <4>3, <1>3, Beginning
      <4>5. h.total = Provider(SubSeq(q, 1, k))  BY <4>2, <3>1, <3>5, <1>1, <1>13 DEF CountOf
      <4> QED  BY <4>2, <4>4, <4>5, <3>1
    <3> QED  BY <3>4, <3>5, <1>7 DEF CountOf
  <2> QED  BY <2>1, <2>2
<1>14. ASSUME Solid(q), e.w >= 1 PROVE Solid(p)
  <2>1. ASSUME NEW k \in 1 .. Len(p) PROVE p[k].w >= 1
    <3>1. (k \in 1 .. Len(q) /\ p[k] = q[k]) \/ p[k] = e  BY <1>3, <1>6
    <3> QED  BY <3>1, <1>14 DEF Solid
  <2> QED  BY <2>1 DEF Solid
<1> QED  BY <1>1, <1>2, <1>7, <1>12, <1>13, <1>14

\* A result that goes on right after its call keeps it.
LEMMA AppendPaired ==
    ASSUME NEW q \in Seq(Entries), Paired(q), NEW e \in Entries,
           e.kind = "result" => q # <<>> /\ q[Len(q)].kind = "call" /\ q[Len(q)].id = e.id
    PROVE  Paired(Append(q, e))
<1>1. PICK p : p = Append(q, e)  OBVIOUS
<1>2. p \in Seq(Entries) /\ Len(p) = Len(q) + 1 /\ p[Len(q) + 1] = e /\ \A i \in 1 .. Len(q) : p[i] = q[i]
  BY <1>1
<1>3. Len(q) \in Nat /\ (q # <<>> => Len(q) >= 1)  OBVIOUS
<1>4. ASSUME NEW k \in 1 .. Len(p), p[k].kind = "result"
      PROVE  k > 1 /\ p[k - 1].kind = "call" /\ p[k - 1].id = p[k].id
  <2>1. CASE k \in 1 .. Len(q)
    <3>1. p[k] = q[k]  BY <2>1, <1>2
    <3>2. k > 1 /\ q[k - 1].kind = "call" /\ q[k - 1].id = q[k].id  BY <3>1, <2>1, <1>4 DEF Paired
    <3>3. k - 1 \in 1 .. Len(q)  BY <3>2, <2>1
    <3>4. p[k - 1] = q[k - 1]  BY <3>3, <1>2
    <3> QED  BY <3>1, <3>2, <3>4
  <2>2. CASE k = Len(q) + 1
    <3>1. p[k] = e /\ k - 1 = Len(q)  BY <2>2, <1>2, <1>3
    <3>2. q # <<>> /\ q[Len(q)].kind = "call" /\ q[Len(q)].id = e.id  BY <3>1, <1>4
    <3>3. Len(q) \in 1 .. Len(q) /\ k > 1  BY <3>2, <1>3, <2>2
    <3>4. p[Len(q)] = q[Len(q)]  BY <3>3, <1>2
    <3> QED  BY <3>1, <3>2, <3>3, <3>4
  <2> QED  BY <2>1, <2>2, <1>2, <1>3
<1> QED  BY <1>1, <1>4 DEF Paired

\* A copy has no count, and is otherwise the same (fork, restore).
LEMMA CopyKeeps ==
    ASSUME NEW n \in Nat, NEW h, Sound(h, n), NEW g, g = Copy(h)
    PROVE  Sound(g, n) /\ g.entries = h.entries /\ CountOf(g)
<1>1. h \in Histories /\ Len(h.entries) <= n /\ Distinct(h.entries, n)  BY DEF Sound
<1>2. h = [entries |-> h.entries, index |-> h.index, total |-> h.total]  BY <1>1 DEF Histories
<1>3. g = [entries |-> h.entries, index |-> None, total |-> 0]
  <2>1. g = [h EXCEPT !.index = None, !.total = 0]  BY DEF Copy
  <2> QED  BY <1>2, <2>1
<1>4. g.entries = h.entries /\ g.index = None  BY <1>3
<1>5. h.entries \in Seq(Entries)  BY <1>1 DEF Histories
<1>6. None \in Int /\ None \in None .. n /\ None < Len(h.entries) /\ ~ (None >= 0)
  <2>1. Len(h.entries) \in Nat  BY <1>5, LenProperties
  <2> QED  BY <2>1 DEF None
<1>7. g \in Histories  BY <1>3, <1>5, <1>6 DEF Histories
<1>8. CountOf(g)  BY <1>4, <1>6 DEF CountOf
<1> QED  BY <1>1, <1>4, <1>6, <1>7, <1>8 DEF Sound

-----------------------------------------------------------------------------
(* The invariant: a result stands right after its call, whatever was cut or  *)
(* merged; the count is of a beginning that no splice has touched; and a     *)
(* turn of the guard's loop starts from what the last one left.              *)

\* A strategy is one of the three, a ladder is sorted (_sorted_triggers), and the rest are numbers.
Sizes ==
    /\ Strategies \subseteq {"truncate", "layered", "anchored"}
    /\ Triggers \in [Strategies -> Seq(Nat)]
    /\ \A s \in Strategies : \A i, j \in DOMAIN Triggers[s] : i <= j => Triggers[s][i] <= Triggers[s][j]
    /\ Weights \subseteq Nat /\ {Keep, MaxCompactRetries, MaxEntries} \subseteq Nat
    /\ {Ceiling, Floor, Jump} \subseteq Int

\* No strategy declines, and no loop goes on, below the first rung.
Reachable == \A s \in Strategies : Triggers[s] # <<>> => Ceiling >= Triggers[s][1] /\ Floor >= Triggers[s][1]

GuardTyped ==
    /\ strategy \in Strategies /\ turn \in {"idle", "ask", "reacting", "sent", "tool"}
    /\ said \in 0 .. MaxEntries /\ Sound(history, said)
    /\ guard \in [level : 0 .. Len(Triggers[strategy]), current : Nat]
    /\ reading \in [level : Nat, current : Nat, delta : Int, attempt : 0 .. MaxCompactRetries]
    /\ last \in Seq(Entries) /\ refused \in BOOLEAN

Rounds ==
    /\ strategy # "layered" => Paired(history.entries)
    /\ turn = "tool" => history.entries # <<>> /\ history.entries[Len(history.entries)].kind = "call"

Counted == strategy # "truncate" => CountOf(history)

\* What the guard reacts to, and refuses, weighs as much as the first rung.
Weighed ==
    /\ turn = "reacting" => reading.level \in 1 .. Len(Ladder) /\ Weight >= Ladder[1]
    /\ turn \in {"sent", "tool"} => ~ refused
    /\ RefusedForCause

ContextIInv == GuardTyped /\ Rounds /\ Counted

\* What a strategy may make of a history.
Reworked(h) ==
    /\ Sound(h, said)
    /\ strategy # "layered" => Paired(h.entries)
    /\ strategy # "truncate" => CountOf(h)
    /\ Solid(history.entries) => Solid(h.entries) /\ Heuristic(h.entries) <= Weight

\* It may leave it as it is.
LEMMA ReworkedAsIs == ContextIInv => Reworked(history)
<1> SUFFICES ASSUME ContextIInv PROVE Reworked(history)  OBVIOUS
<1>1. Sound(history, said) /\ history.entries \in Seq(Entries)
  BY DEF ContextIInv, GuardTyped, Sound, Histories
<1>2. Heuristic(history.entries) \in Nat  BY <1>1, HeuristicNat
<1> QED  BY <1>1, <1>2 DEF ContextIInv, Rounds, Counted, Reworked, Weight

\* The later of two places.
LEMMA MaxOfTwo == ASSUME NEW a \in Int, NEW b \in Int PROVE Max({a, b}) \in Int /\ Max({a, b}) >= a /\ Max({a, b}) >= b
                                                            /\ (Max({a, b}) = a \/ Max({a, b}) = b)
<1>1. \E x \in {a, b} : \A y \in {a, b} : x >= y
  <2>1. CASE a >= b  BY <2>1
  <2>2. CASE ~ (a >= b)  BY <2>2
  <2> QED  BY <2>1, <2>2
<1>2. Max({a, b}) \in {a, b} /\ \A y \in {a, b} : Max({a, b}) >= y  BY <1>1, Zenon DEF Max
<1> QED  BY <1>2

\* What a summary is.
LEMMA SummaryIs == Summary \in Entries /\ Summary.kind = "summary" /\ Summary.w = 1
BY DEF Summary, Entry, Entries, None

\* The layered strategy splices.
LEMMA ReworkedSplice ==
    ASSUME ContextIInv, Sizes, strategy = "layered", NEW h, Reworked(h), NEW a \in Int, NEW b \in Int
    PROVE  Reworked(Splice(h, a, b, Summary))
<1>1. PICK g : g = Splice(h, a, b, Summary)  OBVIOUS
<1>2. h \in Histories /\ said \in Nat /\ Sound(h, said)
  BY DEF Reworked, Sound, ContextIInv, GuardTyped, Sizes
<1>3. Sound(Splice(h, a, b, Summary), said)
  <2>1. Summary.kind # "call"  BY SummaryIs
  <2> QED  BY <2>1, <1>2, SummaryIs, SpliceSound, Zenon
<1>4. CountOf(h)  BY DEF Reworked
<1>5. CountOf(Splice(h, a, b, Summary))  BY <1>2, <1>4, SummaryIs, SpliceCount, Zenon
<1>6. ASSUME Solid(history.entries) PROVE Solid(g.entries) /\ Heuristic(g.entries) <= Weight
  <2>1. Solid(h.entries) /\ Heuristic(h.entries) <= Weight  BY <1>6 DEF Reworked
  <2>2. Solid(g.entries) /\ Heuristic(g.entries) <= Heuristic(h.entries)
    BY <2>1, <1>1, <1>2, SummaryIs, SpliceSolid, Zenon
  <2>3. h.entries \in Seq(Entries) /\ history.entries \in Seq(Entries)
    BY <1>2 DEF ContextIInv, GuardTyped, Sound, Histories
  <2>4. g.entries \in Seq(Entries)  BY <1>1, <1>3 DEF Sound, Histories
  <2>5. Heuristic(h.entries) \in Nat /\ Weight \in Nat /\ Heuristic(g.entries) \in Nat
    BY <2>3, <2>4, HeuristicNat DEF Weight
  <2> QED  BY <2>1, <2>2, <2>5
<1> QED  BY <1>1, <1>3, <1>5, <1>6 DEF Reworked

\* Where a summary may go is a place.
LEMMA PlacesAre ==
    ASSUME Sizes, NEW h \in Histories
    PROVE  Start(h, Keep) \in Nat /\ Mid(h, Keep) \in Nat /\ Max({2, Keep \div 2}) \in Int /\ Size(h) \in Nat
           /\ Start(h, Keep) >= Size(h) - Keep /\ (Start(h, Keep) = 0 \/ Start(h, Keep) = Size(h) - Keep)
<1>1. Keep \in Nat  BY DEF Sizes
<1>2. Size(h) \in Nat
  <2>1. h.entries \in Seq(Entries)  BY DEF Histories
  <2> QED  BY <2>1, LenProperties DEF Size
<1>3. PICK n \in Nat : n = Size(h)  BY <1>2
<1>4. 0 \in Int /\ n - Keep \in Int /\ 2 \in Int /\ Keep \div 2 \in Int  BY <1>1
<1>5. Max({0, n - Keep}) \in Int /\ Max({0, n - Keep}) >= 0 /\ Max({0, n - Keep}) >= n - Keep
      /\ (Max({0, n - Keep}) = 0 \/ Max({0, n - Keep}) = n - Keep)
  BY <1>4, MaxOfTwo
<1>6. Max({2, Keep \div 2}) \in Int  BY <1>4, MaxOfTwo
<1>7. PICK s \in Nat : s = Start(h, Keep) /\ s = Max({0, n - Keep})  BY <1>3, <1>5 DEF Start
<1>8. Mid(h, Keep) = s \div 2  BY <1>7 DEF Mid
<1>9. s \div 2 \in Nat  OBVIOUS
<1> QED  BY <1>2, <1>3, <1>5, <1>6, <1>7, <1>8, <1>9

\* What a decision leaves, and that it declines only what is heavy.
Decided(d) ==
    /\ Reworked(d.history)
    /\ Reachable /\ Weight >= Ladder[1] /\ Ladder # <<>> /\ d.action = "decline"
          => Heuristic(d.history.entries) >= Ladder[1]

\* A decision to do nothing, to refuse or to compact to some history.
LEMMA DecidedAs ==
    ASSUME ContextIInv, NEW a, NEW h, Reworked(h), a = "decline" => h = history
    PROVE  Decided(Decision(a, h))
<1>1. PICK d : d = Decision(a, h)  OBVIOUS
<1>2. d.action = a /\ d.history = h  BY <1>1 DEF Decision
<1>3. Weight = Heuristic(history.entries)  BY DEF Weight
<1>4. d.action = "decline" => Heuristic(d.history.entries) = Weight  BY <1>2, <1>3
<1>5. Reworked(d.history)  BY <1>2
<1>6. Weight >= Ladder[1] /\ d.action = "decline" => Heuristic(d.history.entries) >= Ladder[1]  BY <1>4
<1>7. Decided(d)  BY <1>5, <1>6, Zenon DEF Decided
<1> QED  BY <1>1, <1>7

\* A history that is judged by what it weighs is refused for that.
LEMMA JudgedAs ==
    ASSUME ContextIInv, Sizes, NEW h, Reworked(h), NEW d \in Judged(h)
    PROVE  Decided(d)
<1>1. PICK a : a = (IF ShareLeft(h) >= Ceiling THEN "decline" ELSE "compacted")  OBVIOUS
<1>2. d = Decision(a, h)  BY <1>1 DEF Judged
<1>3. d.action = a /\ d.history = h  BY <1>2 DEF Decision
<1>4. ShareLeft(h) = Heuristic(h.entries)  BY DEF ShareLeft
<1>5. h.entries \in Seq(Entries)  BY DEF Reworked, Sound, Histories
<1>6. Heuristic(h.entries) \in Nat  BY <1>5, HeuristicNat
<1>7. a = "decline" => Heuristic(h.entries) >= Ceiling  BY <1>1, <1>4
<1>8. Reachable /\ Ladder # <<>> => Ceiling >= Ladder[1]
  BY DEF Reachable, Ladder, ContextIInv, GuardTyped
<1>9. Ladder # <<>> => Ladder[1] \in Nat
  <2>1. Ladder \in Seq(Nat)  BY DEF Ladder, ContextIInv, GuardTyped, Sizes
  <2> QED  BY <2>1
<1>10. Ceiling \in Int  BY DEF Sizes
<1>11. ASSUME Reachable, Ladder # <<>>, d.action = "decline"
       PROVE  Heuristic(d.history.entries) >= Ladder[1]
  <2>1. Heuristic(h.entries) >= Ceiling  BY <1>3, <1>7, <1>11
  <2>2. Ceiling >= Ladder[1]  BY <1>8, <1>11
  <2>3. Ladder[1] \in Nat  BY <1>9, <1>11
  <2>4. Heuristic(h.entries) >= Ladder[1]  BY <2>1, <2>2, <2>3, <1>6, <1>10
  <2> QED  BY <2>4, <1>3
<1> QED  BY <1>3, <1>11 DEF Decided

\* Nothing is left of a history of which nothing is kept.
LEMMA ReworkedFresh == ASSUME ContextIInv, Sizes PROVE Reworked(Fresh)
<1>1. Fresh.entries = <<>> /\ Fresh.index = None /\ Fresh.total = 0  BY DEF Fresh
<1>2. said \in Nat  BY DEF ContextIInv, GuardTyped, Sizes
<1>3. None \in Int /\ None \in None .. said /\ None < 0 /\ ~ (None >= 0)  BY <1>2 DEF None
<1>4. Fresh \in Histories
  <2>1. <<>> \in Seq(Entries) /\ 0 \in Nat  OBVIOUS
  <2> QED  BY <2>1, <1>3 DEF Fresh, Histories
<1>5. Distinct(<<>>, said) /\ Paired(<<>>) /\ Solid(<<>>) /\ Len(<<>>) = 0
  BY DEF Distinct, Paired, Solid
<1>6. Sound(Fresh, said)
  <2>1. 0 <= said  BY <1>2
  <2> QED  BY <2>1, <1>1, <1>3, <1>4, <1>5 DEF Sound
<1>7. CountOf(Fresh)  BY <1>1, <1>3, <1>5 DEF CountOf
<1>8. Heuristic(Fresh.entries) <= Weight
  <2>1. history.entries \in Seq(Entries)  BY DEF ContextIInv, GuardTyped, Sound, Histories
  <2>2. Weight \in Nat  BY <2>1, HeuristicNat DEF Weight
  <2> QED  BY <2>2, <1>1, HeuristicEmpty
<1> QED  BY <1>1, <1>5, <1>6, <1>7, <1>8 DEF Reworked

\* The truncating strategy (strategies.truncate).
LEMMA TruncateDecides ==
    ASSUME ContextIInv, Sizes, strategy = "truncate", NEW d \in ReactTruncate
    PROVE  Decided(d)
<1>1. CASE Size(history) <= Keep
  <2>1. d = Decision("none", history)  BY <1>1 DEF ReactTruncate
  <2> QED  BY <2>1, ReworkedAsIs, DecidedAs
<1>2. CASE ~ (Size(history) <= Keep)
  <2>1. PICK h : h = IF Keep = 0 THEN Fresh ELSE Truncate(history, Keep)  OBVIOUS
  <2>2. d \in Judged(h)  BY <1>2, <2>1 DEF ReactTruncate
  <2>3. CASE Keep = 0  BY <2>1, <2>2, <2>3, ReworkedFresh, JudgedAs
  <2>4. CASE Keep # 0
    <3>1. h = Truncate(history, Keep)  BY <2>1, <2>4
    <3>2. said \in Nat /\ Keep \in Nat  BY DEF ContextIInv, GuardTyped, Sizes
    <3>3. Sound(history, said) /\ Paired(history.entries)  BY DEF ContextIInv, GuardTyped, Rounds
    <3>4. Sound(h, said) /\ Paired(h.entries)  BY <3>1, <3>2, <3>3, TruncateKeeps
    <3>5. Solid(history.entries) => Solid(h.entries)  BY <3>1, <3>2, <3>3, TruncateKeeps
    <3>6. Heuristic(h.entries) <= Weight  BY <3>1, <3>2, <3>3, TruncateKeeps DEF Weight
    <3>7. Reworked(h)  BY <3>4, <3>5, <3>6 DEF Reworked
    <3> QED  BY <2>2, <3>7, JudgedAs
  <2> QED  BY <2>3, <2>4
<1> QED  BY <1>1, <1>2

\* The layered one (strategies.layered).
LEMMA LayeredDecides ==
    ASSUME ContextIInv, Sizes, strategy = "layered", NEW d \in ReactLayered
    PROVE  Decided(d)
<1>1. Reworked(history)  BY ReworkedAsIs
<1>2. history \in Histories  BY DEF ContextIInv, GuardTyped, Sound
<1>3. Start(history, Keep) \in Nat /\ Mid(history, Keep) \in Nat /\ Size(history) \in Nat
  BY <1>2, PlacesAre
<1>4. Reworked(OldAndMiddle) 
  <2>1. PICK mid \in Nat : mid = Mid(history, Keep)  BY <1>3
  <2>2. PICK moved \in Int : moved = IF mid > 0 THEN 1 ELSE 0  OBVIOUS
  <2>3. PICK h : h = Splice(history, 0, mid, Summary)  OBVIOUS
  <2>4. 0 \in Int /\ mid \in Int  BY <2>1
  <2>5. Reworked(h)  BY <1>1, <2>3, <2>4, ReworkedSplice
  <2>6. PICK stop \in Int : stop = moved + Start(history, Keep) - mid  BY <1>3
  <2>7. OldAndMiddle = Splice(h, moved, stop, Summary)
    BY <2>1, <2>2, <2>3, <2>6, Zenon DEF OldAndMiddle
  <2>8. Reworked(Splice(h, moved, stop, Summary))  BY <2>5, ReworkedSplice
  <2> QED  BY <2>7, <2>8
<1>5. ASSUME d \in CompactOld PROVE Decided(d)
  <2>1. CASE Mid(history, Keep) = 0
    <3>1. d = Decision("none", history)  BY <1>5, <2>1 DEF CompactOld
    <3> QED  BY <1>1, <3>1, DecidedAs
  <2>2. CASE Mid(history, Keep) # 0
    <3>1. PICK mid \in Int : mid = Mid(history, Keep)  BY <1>3
    <3>2. d = Decision("compacted", Splice(history, 0, mid, Summary))  BY <1>5, <2>2, <3>1 DEF CompactOld
    <3>3. 0 \in Int  OBVIOUS
    <3>4. Reworked(Splice(history, 0, mid, Summary))  BY <1>1, <3>3, ReworkedSplice
    <3> QED  BY <3>2, <3>4, DecidedAs
  <2> QED  BY <2>1, <2>2
<1>6. ASSUME d \in {Decision("compacted", OldAndMiddle)} PROVE Decided(d)
  BY <1>4, <1>6, DecidedAs
<1>7. ASSUME d \in {Decision("compacted", CompactAll)} PROVE Decided(d)
  <2>1. PICK h : h = OldAndMiddle  OBVIOUS
  <2>2. h \in Histories  BY <1>4, <2>1 DEF Reworked, Sound
  <2>3. Size(h) \in Nat /\ Max({2, Keep \div 2}) \in Int  BY <2>2, PlacesAre
  <2>4. PICK stop \in Int : stop = Size(h) - Max({2, Keep \div 2})  BY <2>3
  <2>5. CompactAll = Splice(h, 0, stop, Summary)  BY <2>1, <2>4 DEF CompactAll
  <2>6. 0 \in Int  OBVIOUS
  <2>7. Reworked(CompactAll)  BY <1>4, <2>1, <2>5, <2>6, ReworkedSplice
  <2> QED  BY <1>7, <2>7, DecidedAs
<1>8. ASSUME d \in CompactAggressively PROVE Decided(d)
  <2>1. CASE Size(history) <= 2
    <3>1. d = Decision("decline", history)  BY <1>8, <2>1 DEF CompactAggressively
    <3> QED  BY <1>1, <3>1, DecidedAs
  <2>2. CASE ~ (Size(history) <= 2)
    <3>1. PICK stop \in Int : stop = Size(history) - 2  BY <1>3
    <3>2. d = Decision("compacted", Splice(history, 0, stop, Summary))
      BY <1>8, <2>2, <3>1 DEF CompactAggressively
    <3>3. 0 \in Int  OBVIOUS
    <3>4. Reworked(Splice(history, 0, stop, Summary))  BY <1>1, <3>3, ReworkedSplice
    <3> QED  BY <3>2, <3>4, DecidedAs
  <2> QED  BY <2>1, <2>2
<1>9. \/ d = Decision("decline", history)
      \/ d \in CompactOld \/ d \in {Decision("compacted", OldAndMiddle)}
      \/ d \in {Decision("compacted", CompactAll)} \/ d \in CompactAggressively
  BY DEF ReactLayered
<1>10. ASSUME d = Decision("decline", history) PROVE Decided(d)
  BY <1>1, <1>10, DecidedAs
<1> QED  BY <1>5, <1>6, <1>7, <1>8, <1>9, <1>10

\* The anchored one (strategies.anchored): the tail it keeps does not begin with a result.
LEMMA AnchoredDecides ==
    ASSUME ContextIInv, Sizes, strategy = "anchored", NEW d \in ReactAnchored
    PROVE  Decided(d)
<1>1. Reworked(history)  BY ReworkedAsIs
<1>2. history \in Histories /\ said \in Nat /\ Sound(history, said)
  BY DEF ContextIInv, GuardTyped, Sound, Sizes
<1>3. PICK q \in Seq(Entries) : q = history.entries  BY <1>2 DEF Histories
<1>4. Start(history, Keep) \in Nat /\ Size(history) \in Nat /\ Size(history) = Len(q)
  BY <1>2, <1>3, PlacesAre DEF Size
<1>5. Paired(q) /\ CountOf(history)  BY <1>3 DEF ContextIInv, Rounds, Counted
<1>6. CASE d \in {Decision("none", history)}  BY <1>1, <1>6, DecidedAs
<1>7. CASE d \in {Decision("decline", history)}  BY <1>1, <1>7, DecidedAs
<1>8. CASE RetainStart > (IF At(history, 0).kind = "anchor" THEN 1 ELSE 0)
           /\ d \in Judged(Splice(history, 0, RetainStart, Entry("anchor", None, 1)))
  <2>1. PICK s \in Nat : s = Start(history, Keep)  BY <1>4
  <2>2. PICK r : r = RetainStart  OBVIOUS
  <2>3. r = IF s > 0 /\ q[s + 1].kind = "result" /\ q[s - 1 + 1].kind = "call" THEN s - 1 ELSE s
    BY <2>1, <2>2, <1>3 DEF RetainStart, At
  <2>4. r \in Int /\ (r = s \/ r = s - 1)  BY <2>3
  <2>5. r > 0 /\ r \in Nat  BY <1>8, <2>2, <2>4
  <2>6. r < Len(q) => q[r + 1].kind # "result"
    <3>1. SUFFICES ASSUME r < Len(q), q[r + 1].kind = "result" PROVE FALSE  OBVIOUS
    <3>2. r + 1 \in 1 .. Len(q)  BY <3>1, <2>5
    <3>3. q[(r + 1) - 1].kind = "call"  BY <3>1, <3>2, <1>5 DEF Paired
    <3>4. (r + 1) - 1 = r  BY <2>5
    <3>5. CASE r = s
      <4>1. s > 0 /\ q[s + 1].kind = "result" /\ s - 1 + 1 = s  BY <3>1, <3>5, <2>5
      <4>2. q[s].kind = "call"  BY <3>3, <3>4, <3>5
      <4>3. r = s - 1  BY <4>1, <4>2, <2>3
      <4> QED  BY <4>3, <3>5
    <3>6. CASE r = s - 1
      <4>1. r # s  BY <3>6
      <4>2. q[s - 1 + 1].kind = "call"  BY <4>1, <2>3
      <4>3. s - 1 + 1 = r + 1  BY <3>6
      <4> QED  BY <4>2, <4>3, <3>1
    <3> QED  BY <2>4, <3>5, <3>6
  <2>7. PICK e : e = Entry("anchor", None, 1)  OBVIOUS
  <2>8. e \in Entries /\ e.kind # "call" /\ e.kind # "result" /\ e.w = 1
    BY <2>7 DEF Entry, Entries, None
  <2>9. PICK h : h = Splice(history, 0, r, e)  OBVIOUS
  <2>10. 0 \in Int /\ r \in Int  BY <2>4
  <2>11. Sound(h, said)  BY <1>2, <2>8, <2>9, <2>10, SpliceSound
  <2>12. CountOf(h)  BY <1>2, <1>5, <2>8, <2>9, <2>10, SpliceCount
  <2>13. Paired(h.entries)
    <3>1. Paired(history.entries) /\ (r < Len(history.entries) => history.entries[r + 1].kind # "result")
      BY <1>3, <1>5, <2>6
    <3> QED  BY <3>1, <1>2, <2>5, <2>8, <2>9, SplicePaired
  <2>14. ASSUME Solid(history.entries) PROVE Solid(h.entries) /\ Heuristic(h.entries) <= Weight
    BY <2>14, <1>2, <2>8, <2>9, <2>10, SpliceSolid DEF Weight
  <2>15. Reworked(h)  BY <2>11, <2>12, <2>13, <2>14 DEF Reworked
  <2>16. d \in Judged(h)  BY <1>8, <2>2, <2>7, <2>9
  <2> QED  BY <2>15, <2>16, JudgedAs
<1>9. \/ d \in {Decision("none", history)} \/ d \in {Decision("decline", history)}
      \/ /\ ~ (RetainStart <= (IF At(history, 0).kind = "anchor" THEN 1 ELSE 0))
         /\ d \in Judged(Splice(history, 0, RetainStart, Entry("anchor", None, 1)))
  BY DEF ReactAnchored
<1>10. RetainStart \in Int
  <2>1. RetainStart = Start(history, Keep) \/ RetainStart = Start(history, Keep) - 1  BY DEF RetainStart
  <2> QED  BY <2>1, <1>4
<1> QED  BY <1>6, <1>7, <1>8, <1>9, <1>10

\* Each strategy keeps what it must.
LEMMA StrategyDecides ==
    ASSUME ContextIInv, Sizes, NEW d \in Decisions
    PROVE  Decided(d)
<1>1. strategy \in {"truncate", "layered", "anchored"}  BY DEF ContextIInv, GuardTyped, Sizes
<1>2. CASE strategy = "truncate"
  <2>1. d \in ReactTruncate  BY <1>2 DEF Decisions
  <2> QED  BY <1>2, <2>1, TruncateDecides
<1>3. CASE strategy = "layered"
  <2>1. d \in ReactLayered  BY <1>3 DEF Decisions
  <2> QED  BY <1>3, <2>1, LayeredDecides
<1>4. CASE strategy = "anchored"
  <2>1. d \in ReactAnchored  BY <1>4 DEF Decisions
  <2> QED  BY <1>4, <2>1, AnchoredDecides
<1> QED  BY <1>1, <1>2, <1>3, <1>4

-----------------------------------------------------------------------------
(* Measuring.                                                                *)

\* How much of a ladder is crossed (highest_crossed_level).
LEMMA CrossedIs ==
    ASSUME ContextIInv, Sizes, NEW w \in Nat
    PROVE  /\ Crossed(w) \in 0 .. Len(Ladder)
           /\ Crossed(w) >= 1 => Ladder # <<>> /\ w >= Ladder[1]
           /\ \A v \in Nat : v <= w => Crossed(v) <= Crossed(w)
<1> DEFINE Below(v) == {k \in DOMAIN Ladder : v >= Ladder[k]}
<1>1. Ladder \in Seq(Nat)  BY DEF Ladder, ContextIInv, GuardTyped, Sizes
<1>2. DOMAIN Ladder = 1 .. Len(Ladder) /\ Len(Ladder) \in Nat  BY <1>1
<1>3. IsFiniteSet(DOMAIN Ladder) /\ Cardinality(DOMAIN Ladder) = Len(Ladder)
  <2>1. 1 \in Int /\ Len(Ladder) \in Int  BY <1>2
  <2>2. IsFiniteSet(1 .. Len(Ladder))
        /\ Cardinality(1 .. Len(Ladder)) = IF 1 > Len(Ladder) THEN 0 ELSE Len(Ladder) - 1 + 1
    BY <2>1, FS_Interval
  <2> QED  BY <2>2, <1>2
<1>4. \A v : Below(v) \in SUBSET DOMAIN Ladder  OBVIOUS
<1>5. \A v : Crossed(v) = Cardinality(Below(v))  BY DEF Crossed
<1>6. \A v : IsFiniteSet(Below(v)) /\ Cardinality(Below(v)) <= Cardinality(DOMAIN Ladder)
  <2> TAKE v
  <2>1. PICK S : S = Below(v)  OBVIOUS
  <2>2. S \in SUBSET DOMAIN Ladder  BY <2>1, <1>4
  <2> HIDE DEF Below
  <2> QED  BY <2>1, <2>2, <1>3, FS_Subset
<1>7. \A v : Cardinality(Below(v)) \in Nat
  <2> HIDE DEF Below
  <2> QED  BY <1>6, FS_CardinalityType
<1>8. Crossed(w) \in 0 .. Len(Ladder)
  <2> HIDE DEF Below
  <2> QED  BY <1>2, <1>3, <1>5, <1>6, <1>7
<1>9. ASSUME Crossed(w) >= 1 PROVE Ladder # <<>> /\ w >= Ladder[1]
  <2>1. Below(w) # {}
    <3>1. SUFFICES ASSUME Below(w) = {} PROVE FALSE  OBVIOUS
    <3> HIDE DEF Below
    <3>2. Cardinality(Below(w)) = 0  BY <3>1, FS_EmptySet
    <3> QED  BY <3>2, <1>5, <1>9
  <2>2. PICK k \in DOMAIN Ladder : w >= Ladder[k]  BY <2>1
  <2>3. k \in 1 .. Len(Ladder) /\ 1 \in 1 .. Len(Ladder)  BY <2>2, <1>2
  <2>4. Ladder[1] <= Ladder[k]
    <3>1. strategy \in Strategies  BY DEF ContextIInv, GuardTyped
    <3>2. \A i, j \in DOMAIN Ladder : i <= j => Ladder[i] <= Ladder[j]  BY <3>1 DEF Sizes, Ladder
    <3>3. 1 <= k /\ 1 \in DOMAIN Ladder  BY <2>3, <1>2
    <3> QED  BY <3>2, <3>3
  <2>5. Ladder[1] \in Nat /\ Ladder[k] \in Nat  BY <2>3, <1>1
  <2>6. Ladder # <<>>
    <3>1. Len(Ladder) # 0  BY <2>3, <1>2
    <3> QED  BY <3>1
  <2> QED  BY <2>2, <2>4, <2>5, <2>6
<1>10. ASSUME NEW v \in Nat, v <= w PROVE Crossed(v) <= Crossed(w)
  <2>1. ASSUME NEW k \in Below(v) PROVE k \in Below(w)
    <3>1. k \in DOMAIN Ladder /\ v >= Ladder[k]  OBVIOUS
    <3>2. Ladder[k] \in Nat  BY <3>1, <1>1, <1>2
    <3>3. w >= Ladder[k]  BY <3>1, <3>2, <1>10
    <3> QED  BY <3>1, <3>3
  <2>2. Below(v) \in SUBSET Below(w)  BY <2>1
  <2>3. Cardinality(Below(v)) <= Cardinality(Below(w))
    <3> HIDE DEF Below
    <3> QED  BY <2>2, <1>6, FS_Subset
  <2> HIDE DEF Below
  <2> QED  BY <2>3, <1>5
<1> QED  BY <1>8, <1>9, <1>10

\* A history weighs something.
LEMMA WeightIs == ContextIInv => Weight \in Nat /\ history.entries \in Seq(Entries)
<1> SUFFICES ASSUME ContextIInv PROVE Weight \in Nat /\ history.entries \in Seq(Entries)  OBVIOUS
<1>1. history.entries \in Seq(Entries)  BY DEF ContextIInv, GuardTyped, Sound, Histories
<1> QED  BY <1>1, HeuristicNat DEF Weight

-----------------------------------------------------------------------------
(* What each step does to it.                                                *)

\* It holds where nothing was said.
LEMMA ContextStarts == ASSUME Sizes PROVE Init => ContextIInv /\ Weighed
<1> SUFFICES ASSUME Init PROVE ContextIInv /\ Weighed  OBVIOUS
<1>1. Fresh.entries = <<>> /\ Fresh.index = None /\ Fresh.total = 0  BY DEF Fresh
<1>2. Fresh \in Histories
  <2>1. <<>> \in Seq(Entries) /\ 0 \in Nat  OBVIOUS
  <2> QED  BY <2>1 DEF Fresh, Histories, None
<1>3. Distinct(<<>>, 0) /\ Paired(<<>>) /\ Len(<<>>) = 0  BY DEF Distinct, Paired
<1>4. Sound(Fresh, 0)
  <2>1. None \in None .. 0  BY DEF None
  <2> QED  BY <2>1, <1>1, <1>2, <1>3 DEF Sound
<1>5. CountOf(Fresh)  BY <1>1, <1>3 DEF CountOf, None
<1>6. /\ strategy \in Strategies /\ history = Fresh /\ guard = [level |-> 0, current |-> 0]
      /\ turn = "idle" /\ reading = NoReading /\ said = 0 /\ last = <<>> /\ refused = FALSE
  BY DEF Init
<1>7. 0 \in 0 .. MaxEntries /\ 0 \in 0 .. MaxCompactRetries  BY DEF Sizes
<1>8. reading \in [level : Nat, current : Nat, delta : Int, attempt : 0 .. MaxCompactRetries]
  BY <1>6, <1>7 DEF NoReading
<1>9. guard \in [level : 0 .. Len(Triggers[strategy]), current : Nat]
  <2>1. Triggers[strategy] \in Seq(Nat)  BY <1>6 DEF Sizes
  <2>2. 0 \in 0 .. Len(Triggers[strategy])  BY <2>1
  <2> QED  BY <2>2, <1>6
<1>10. GuardTyped
  <2>0. <<>> \in Seq(Entries)  OBVIOUS
  <2>1. last \in Seq(Entries) /\ refused \in BOOLEAN  BY <2>0, <1>6
  <2>2. said \in 0 .. MaxEntries /\ Sound(history, said)  BY <1>4, <1>6, <1>7
  <2> QED  BY <2>1, <2>2, <1>6, <1>8, <1>9 DEF GuardTyped
<1>11. Rounds /\ Counted  BY <1>1, <1>3, <1>5, <1>6 DEF Rounds, Counted
<1>12. Weighed  BY <1>6 DEF Weighed, RefusedForCause
<1> QED  BY <1>10, <1>11, <1>12 DEF ContextIInv

\* What is said is put at the end.
LEMMA SpeakKeeps ==
    ASSUME ContextIInv, Sizes, NEW kind \in {"user", "reply", "call", "result"}, NEW id \in Int,
           NEW counted \in BOOLEAN, NEW next \in {"idle", "ask", "tool"}, Speak(kind, id, counted, next),
           kind = "call" => id = said,
           kind = "result" => /\ history.entries # <<>> /\ history.entries[Len(history.entries)].kind = "call"
                              /\ history.entries[Len(history.entries)].id = id,
           next = "tool" => kind = "call"
    PROVE  /\ ContextIInv'
           /\ \E e \in Entries : history'.entries = Append(history.entries, e)
                                 /\ (0 \notin Weights /\ Solid(history.entries) => Solid(history'.entries))
<1>1. PICK w \in Weights : history' = Append_(history, Entry(kind, id, w), counted)  BY DEF Speak
<1>2. PICK e : e = Entry(kind, id, w)  OBVIOUS
<1>3. w \in Nat  BY <1>1 DEF Sizes
<1>4. e \in Entries /\ e.kind = kind /\ e.id = id /\ e.w = w  BY <1>2, <1>3 DEF Entry, Entries
<1>5. said \in Nat /\ said < MaxEntries /\ said' = said + 1 /\ MaxEntries \in Nat /\ said \in 0 .. MaxEntries
  BY DEF Speak, ContextIInv, GuardTyped, Sizes
<1>6. Sound(history, said)  BY DEF ContextIInv, GuardTyped
<1>7. e.kind = "call" => e.id = said  BY <1>4
<1>8. history' = Append_(history, e, counted)  BY <1>1, <1>2
<1>9. Sound(history', said + 1) /\ history'.entries = Append(history.entries, e)
  BY <1>4, <1>5, <1>6, <1>7, <1>8, AppendKeeps
<1>10. CountOf(history) => CountOf(history')  BY <1>4, <1>5, <1>6, <1>7, <1>8, AppendKeeps
<1>11. Solid(history.entries) /\ e.w >= 1 => Solid(history'.entries)
  BY <1>4, <1>5, <1>6, <1>7, <1>8, AppendKeeps
<1>12. PICK q \in Seq(Entries) : q = history.entries  BY <1>6 DEF Sound, Histories
<1>13. Paired(history.entries) => Paired(history'.entries)
  <2>1. e.kind = "result" => q # <<>> /\ q[Len(q)].kind = "call" /\ q[Len(q)].id = e.id  BY <1>4, <1>12
  <2>2. Paired(q) => Paired(Append(q, e))  BY <2>1, <1>4, AppendPaired
  <2> QED  BY <2>2, <1>9, <1>12
<1>14. turn' = next /\ UNCHANGED <<strategy, guard, reading, last, refused>>  BY DEF Speak
<1>15. said' \in 0 .. MaxEntries  BY <1>5
<1>16. GuardTyped'
  <2>1. turn' \in {"idle", "ask", "reacting", "sent", "tool"}  BY <1>14
  <2>2. Sound(history', said')  BY <1>5, <1>9
  <2> QED  BY <2>1, <2>2, <1>14, <1>15 DEF ContextIInv, GuardTyped
<1>17. Rounds'
  <2>1. strategy' # "layered" => Paired(history'.entries)  BY <1>13, <1>14 DEF ContextIInv, Rounds
  <2>2. ASSUME turn' = "tool"
        PROVE  history'.entries # <<>> /\ history'.entries[Len(history'.entries)].kind = "call"
    <3>1. e.kind = "call"  BY <2>2, <1>4, <1>14
    <3>2. Append(q, e) # <<>> /\ Append(q, e)[Len(Append(q, e))] = e  BY <1>4
    <3> QED  BY <3>1, <3>2, <1>9, <1>12
  <2> QED  BY <2>1, <2>2 DEF Rounds
<1>18. Counted'  BY <1>10, <1>14 DEF ContextIInv, Counted
<1>19. 0 \notin Weights => e.w >= 1  BY <1>1, <1>3, <1>4
<1> QED  BY <1>4, <1>9, <1>11, <1>16, <1>17, <1>18, <1>19 DEF ContextIInv

\* The four things that are said.
LEMMA SaidKeeps ==
    ASSUME ContextIInv, Sizes, User \/ Reply \/ Call \/ Result
    PROVE  /\ ContextIInv' /\ UNCHANGED <<strategy, guard, reading, last, refused>>
           /\ \E e \in Entries : history'.entries = Append(history.entries, e)
                                 /\ (0 \notin Weights /\ Solid(history.entries) => Solid(history'.entries))
           /\ \/ turn = "idle" /\ turn' = "ask"
              \/ turn = "sent" /\ turn' = "idle"
              \/ turn = "sent" /\ turn' = "tool"
              \/ turn = "tool" /\ turn' = "ask"
<1>1. said \in Int  BY DEF ContextIInv, GuardTyped, Sizes
<1> DEFINE Appended == \E e \in Entries : history'.entries = Append(history.entries, e)
                                 /\ (0 \notin Weights /\ Solid(history.entries) => Solid(history'.entries))
<1>2. CASE User
  <2>1. Speak("user", said, FALSE, "ask") /\ turn = "idle"  BY <1>2 DEF User
  <2>2. ContextIInv' /\ Appended
    <3>1. "user" \in {"user", "reply", "call", "result"} /\ "ask" \in {"idle", "ask", "tool"}
          /\ "user" # "call" /\ "user" # "result" /\ "ask" # "tool" /\ FALSE \in BOOLEAN
      OBVIOUS
    <3> HIDE DEF Appended
    <3>2. ContextIInv'  BY <1>1, <2>1, <3>1, SpeakKeeps
    <3>3. Appended  BY <1>1, <2>1, <3>1, SpeakKeeps DEF Appended
    <3> QED  BY <3>2, <3>3
  <2> QED  BY <2>1, <2>2 DEF Speak
<1>3. CASE Reply
  <2>1. PICK counted \in BOOLEAN : Speak("reply", said, counted, "idle")  BY <1>3 DEF Reply
  <2>2. ContextIInv' /\ Appended
    <3>1. "reply" \in {"user", "reply", "call", "result"} /\ "idle" \in {"idle", "ask", "tool"}
          /\ "reply" # "call" /\ "reply" # "result" /\ "idle" # "tool"
      OBVIOUS
    <3> HIDE DEF Appended
    <3>2. ContextIInv'  BY <1>1, <2>1, <3>1, SpeakKeeps
    <3>3. Appended  BY <1>1, <2>1, <3>1, SpeakKeeps DEF Appended
    <3> QED  BY <3>2, <3>3
  <2>3. turn = "sent"  BY <1>3 DEF Reply
  <2> QED  BY <2>1, <2>2, <2>3 DEF Speak
<1>4. CASE Call
  <2>1. PICK counted \in BOOLEAN : Speak("call", said, counted, "tool")  BY <1>4 DEF Call
  <2>2. ContextIInv' /\ Appended
    <3>1. "call" \in {"user", "reply", "call", "result"} /\ "tool" \in {"idle", "ask", "tool"}
          /\ "call" # "result"
      OBVIOUS
    <3> HIDE DEF Appended
    <3>2. ContextIInv'  BY <1>1, <2>1, <3>1, SpeakKeeps
    <3>3. Appended  BY <1>1, <2>1, <3>1, SpeakKeeps DEF Appended
    <3> QED  BY <3>2, <3>3
  <2>3. turn = "sent"  BY <1>4 DEF Call
  <2> QED  BY <2>1, <2>2, <2>3 DEF Speak
<1>5. CASE Result
  <2>1. turn = "tool" /\ Speak("result", history.entries[Len(history.entries)].id, FALSE, "ask")  BY <1>5 DEF Result
  <2>2. /\ history.entries # <<>> /\ history.entries[Len(history.entries)].kind = "call"
    BY <2>1 DEF ContextIInv, Rounds
  <2>3. PICK id \in Int : id = history.entries[Len(history.entries)].id
    <3>1. PICK q \in Seq(Entries) : q = history.entries  BY WeightIs
    <3>2. Len(q) \in 1 .. Len(q)  BY <3>1, <2>2
    <3>3. q[Len(q)] \in Entries  BY <3>2
    <3>4. q[Len(q)].id \in Int  BY <3>3 DEF Entries
    <3> QED  BY <3>1, <3>4
  <2>4. ContextIInv' /\ Appended
    <3>1. "result" \in {"user", "reply", "call", "result"} /\ "ask" \in {"idle", "ask", "tool"}
          /\ "result" # "call" /\ "ask" # "tool" /\ FALSE \in BOOLEAN
      OBVIOUS
    <3>2. Speak("result", id, FALSE, "ask")  BY <2>1, <2>3
    <3> HIDE DEF Appended
    <3>3. ContextIInv'  BY <2>2, <2>3, <3>1, <3>2, SpeakKeeps
    <3>4. Appended  BY <2>2, <2>3, <3>1, <3>2, SpeakKeeps DEF Appended
    <3> QED  BY <3>3, <3>4
  <2> QED  BY <2>1, <2>4 DEF Speak
<1> QED  BY <1>2, <1>3, <1>4, <1>5

\* Restoring takes the count away, and nothing else.
LEMMA RestoreKeeps == ContextIInv /\ Restore => ContextIInv' /\ history'.entries = history.entries
<1> SUFFICES ASSUME ContextIInv, Restore PROVE ContextIInv' /\ history'.entries = history.entries  OBVIOUS
<1>1. history' = Copy(history) /\ turn = "idle" /\ UNCHANGED <<strategy, guard, turn, reading, said, last, refused>>
  BY DEF Restore
<1>2. Sound(history, said) /\ said \in Nat
  <2>1. Sound(history, said) /\ said \in 0 .. MaxEntries  BY DEF ContextIInv, GuardTyped
  <2> QED  BY <2>1
<1>3. Sound(history', said) /\ history'.entries = history.entries /\ CountOf(history')
  BY <1>1, <1>2, CopyKeeps
<1>4. GuardTyped'  BY <1>1, <1>3 DEF ContextIInv, GuardTyped
<1>5. Rounds' /\ Counted'  BY <1>1, <1>3 DEF ContextIInv, Rounds, Counted
<1> QED  BY <1>3, <1>4, <1>5 DEF ContextIInv

\* Measuring reacts to a rung that was crossed, or sends the request.
LEMMA MeasureKeeps ==
    ASSUME ContextIInv, Sizes, Measure
    PROVE  /\ ContextIInv' /\ UNCHANGED <<strategy, history, said>> /\ turn = "ask"
           /\ guard'.current = Weight
           /\ \/ /\ turn' = "reacting" /\ UNCHANGED <<last, refused>>
                 /\ reading'.level = Crossed(Weight) /\ Crossed(Weight) >= 1
                 /\ guard'.level = Crossed(Weight)
                 /\ Crossed(Weight) > guard.level \/ Weight > guard.current
              \/ /\ turn' = "sent" /\ last' = history.entries /\ refused' = FALSE
                 /\ guard'.level >= Crossed(Weight)
<1>1. PICK w \in Nat : w = Weight  BY WeightIs
<1>2. PICK level : level = Crossed(w)  OBVIOUS
<1>3. level \in 0 .. Len(Ladder) /\ level \in Nat
  <2>1. Ladder \in Seq(Nat)  BY DEF Ladder, ContextIInv, GuardTyped, Sizes
  <2>2. level \in 0 .. Len(Ladder)  BY <1>2, CrossedIs
  <2> QED  BY <2>1, <2>2
<1>4. guard.level \in 0 .. Len(Ladder) /\ guard.current \in Nat /\ guard.level \in Nat
  <2>1. guard.level \in 0 .. Len(Ladder) /\ guard.current \in Nat  BY DEF Ladder, ContextIInv, GuardTyped
  <2> QED  BY <2>1
<1>5. UNCHANGED <<strategy, said, history>> /\ turn = "ask"  BY DEF Measure
<1>6. history.entries \in Seq(Entries)  BY WeightIs
<1>7. CASE level > guard.level \/ Climbing(level, w - guard.current)
  <2>1. /\ guard' = [level |-> level, current |-> w]
        /\ reading' = [level |-> level, current |-> w, delta |-> w - guard.current, attempt |-> 0]
        /\ turn' = "reacting" /\ UNCHANGED <<last, refused>>
    BY <1>1, <1>2, <1>7 DEF Measure
  <2>2. level >= 1 /\ (level > guard.level \/ w > guard.current)  BY <1>3, <1>4, <1>7 DEF Climbing
  <2>3. guard' \in [level : 0 .. Len(Ladder), current : Nat]  BY <2>1, <1>3
  <2>4. reading' \in [level : Nat, current : Nat, delta : Int, attempt : 0 .. MaxCompactRetries]
    <3>1. 0 \in 0 .. MaxCompactRetries /\ w - guard.current \in Int  BY <1>4 DEF Sizes
    <3> QED  BY <2>1, <3>1, <1>3
  <2>5. GuardTyped'  BY <2>1, <2>3, <2>4, <1>5 DEF ContextIInv, GuardTyped, Ladder
  <2>6. Rounds' /\ Counted'  BY <2>1, <1>5 DEF ContextIInv, Rounds, Counted
  <2>7. guard'.level = level /\ guard'.current = w /\ reading'.level = level  BY <2>1
  <2> QED  BY <1>1, <1>2, <1>5, <2>1, <2>2, <2>5, <2>6, <2>7 DEF ContextIInv
<1>8. CASE ~ (level > guard.level \/ Climbing(level, w - guard.current))
  <2>1. guard' = [level |-> Max({guard.level, level}), current |-> w] /\ UNCHANGED history /\ Ended(FALSE)
    BY <1>1, <1>2, <1>8 DEF Measure
  <2>2. turn' = "sent" /\ last' = history.entries /\ refused' = FALSE /\ reading' = NoReading
    BY <2>1 DEF Ended
  <2>3. PICK m : m = Max({guard.level, level})  OBVIOUS
  <2>4. guard.level \in Int /\ level \in Int  BY <1>3, <1>4
  <2>5. m \in Int /\ m >= guard.level /\ m >= level /\ (m = guard.level \/ m = level)  BY <2>3, <2>4, MaxOfTwo
  <2>6. m \in 0 .. Len(Ladder)  BY <2>5, <1>3, <1>4
  <2>7. guard' = [level |-> m, current |-> w]  BY <2>1, <2>3
  <2>8. guard' \in [level : 0 .. Len(Ladder), current : Nat]  BY <2>6, <2>7
  <2>9. reading' \in [level : Nat, current : Nat, delta : Int, attempt : 0 .. MaxCompactRetries]
    <3>1. 0 \in 0 .. MaxCompactRetries  BY DEF Sizes
    <3> QED  BY <2>2, <3>1 DEF NoReading
  <2>10. last' \in Seq(Entries) /\ refused' \in BOOLEAN  BY <1>6, <2>2
  <2>11. GuardTyped'  BY <2>2, <2>8, <2>9, <2>10, <1>5 DEF ContextIInv, GuardTyped, Ladder
  <2>12. Rounds' /\ Counted'  BY <2>2, <1>5 DEF ContextIInv, Rounds, Counted
  <2>13. guard'.level = m /\ guard'.current = w  BY <2>7
  <2> QED  BY <1>1, <1>2, <1>5, <2>2, <2>5, <2>11, <2>12, <2>13 DEF ContextIInv
<1> QED  BY <1>7, <1>8

\* A turn of the loop leaves what a strategy decided, and ends, or goes on with what is heavy.
LEMMA ReactKeeps ==
    ASSUME ContextIInv, Sizes, React
    PROVE  /\ ContextIInv' /\ UNCHANGED <<strategy, guard, said>> /\ turn = "reacting" /\ Reworked(history')
           /\ reading.level \in 1 .. Len(Ladder) /\ Weight >= Ladder[1] /\ Reachable
                 /\ turn' \in {"reacting", "idle"} => Heuristic(history'.entries) >= Ladder[1]
           /\ \/ turn' = "reacting" /\ reading'.level = reading.level /\ UNCHANGED <<last, refused>>
              \/ turn' = "sent" /\ last' = history'.entries /\ refused' = FALSE
              \/ turn' = "idle" /\ last' = history'.entries /\ refused' = TRUE
<1>1. UNCHANGED <<strategy, guard, said>> /\ turn = "reacting"  BY DEF React
<1>2. PICK d \in Decisions :
         /\ history' = d.history
         /\ LET left == Heuristic(d.history.entries) IN
            IF d.action # "compacted" \/ (left < Floor /\ left < Ladder[reading.level])
               THEN Ended(d.action = "decline")
            ELSE IF reading.attempt = MaxCompactRetries THEN Ended(TRUE)
            ELSE /\ reading' = [reading EXCEPT !.current = left, !.attempt = @ + 1]
                 /\ UNCHANGED <<turn, last, refused>>
  BY DEF React
<1>3. Decided(d)  BY StrategyDecides
<1>4. Reworked(history')  BY <1>2, <1>3 DEF Decided
<1>5. PICK left \in Nat : left = Heuristic(history'.entries)
  <2>1. history'.entries \in Seq(Entries)  BY <1>4 DEF Reworked, Sound, Histories
  <2> QED  BY <2>1, HeuristicNat
<1>6. history'.entries \in Seq(Entries) /\ Sound(history', said)  BY <1>4 DEF Reworked, Sound, Histories
<1>7. Rounds' \/ turn' = "tool"
  <2>1. turn' # "tool" => Rounds'  BY <1>1, <1>4 DEF Rounds, Reworked
  <2> QED  BY <2>1
<1>8. Counted'  BY <1>1, <1>4 DEF Counted, Reworked
<1>9. ASSUME turn' \in {"idle", "reacting", "sent"}, last' \in Seq(Entries), refused' \in BOOLEAN,
             reading' \in [level : Nat, current : Nat, delta : Int, attempt : 0 .. MaxCompactRetries]
      PROVE  ContextIInv'
  <2>1. GuardTyped'  BY <1>1, <1>6, <1>9 DEF ContextIInv, GuardTyped
  <2> QED  BY <2>1, <1>7, <1>8, <1>9 DEF ContextIInv
<1>10. NoReading \in [level : Nat, current : Nat, delta : Int, attempt : 0 .. MaxCompactRetries]
  <2>1. 0 \in 0 .. MaxCompactRetries  BY DEF Sizes
  <2> QED  BY <2>1 DEF NoReading
<1> DEFINE Heavy == reading.level \in 1 .. Len(Ladder) /\ Weight >= Ladder[1] /\ Reachable
<1>11. ASSUME NEW b \in BOOLEAN, Ended(b)
       PROVE  /\ ContextIInv' /\ last' = history'.entries /\ refused' = b
              /\ turn' = IF b THEN "idle" ELSE "sent"
  <2>1. turn' = (IF b THEN "idle" ELSE "sent") /\ last' = history'.entries /\ refused' = b /\ reading' = NoReading
    BY <1>11 DEF Ended
  <2> QED  BY <2>1, <1>6, <1>9, <1>10
<1>12. ASSUME Heavy PROVE Ladder \in Seq(Nat) /\ Ladder # <<>> /\ Ladder[1] \in Nat
                          /\ Ladder[reading.level] \in Nat /\ Ladder[1] <= Ladder[reading.level]
                          /\ Ladder[1] <= Floor /\ Floor \in Int
  <2>1. Ladder \in Seq(Nat) /\ Floor \in Int /\ strategy \in Strategies
    BY DEF Ladder, ContextIInv, GuardTyped, Sizes
  <2>2. reading.level \in 1 .. Len(Ladder) /\ 1 \in 1 .. Len(Ladder)  BY <1>12, <2>1
  <2>3. Ladder # <<>>
    <3>1. Len(Ladder) # 0  BY <2>2
    <3> QED  BY <3>1
  <2>4. Ladder[1] \in Nat /\ Ladder[reading.level] \in Nat  BY <2>1, <2>2
  <2>5. Ladder[1] <= Ladder[reading.level]
    <3>1. \A i, j \in DOMAIN Ladder : i <= j => Ladder[i] <= Ladder[j]  BY <2>1 DEF Sizes, Ladder
    <3>2. DOMAIN Ladder = 1 .. Len(Ladder)  BY <2>1
    <3> QED  BY <3>1, <3>2, <2>2
  <2>6. Floor >= Ladder[1]  BY <1>12, <2>1, <2>3 DEF Reachable, Ladder
  <2> QED  BY <2>1, <2>3, <2>4, <2>5, <2>6
<1>13. CASE d.action # "compacted" \/ (left < Floor /\ left < Ladder[reading.level])
  <2>1. Ended(d.action = "decline")  BY <1>2, <1>5, <1>13
  <2>2. PICK b \in BOOLEAN : b = (d.action = "decline")  OBVIOUS
  <2>3. Ended(b)  BY <2>1, <2>2
  <2>4. Heavy /\ b => Heuristic(history'.entries) >= Ladder[1]
    <3>1. Heavy => Ladder # <<>>  BY <1>12
    <3> QED  BY <3>1, <2>2, <1>2, <1>3 DEF Decided
  <2>5. turn' = "idle" \/ turn' = "reacting" => b  BY <2>3, <1>11
  <2> QED  BY <1>1, <1>4, <1>11, <2>3, <2>4, <2>5
<1>14. CASE ~ (d.action # "compacted" \/ (left < Floor /\ left < Ladder[reading.level]))
  <2>1. Heavy => left >= Ladder[1]
    <3>1. ~ (left < Floor /\ left < Ladder[reading.level])  BY <1>14
    <3> HIDE DEF Heavy
    <3> QED  BY <3>1, <1>12
  <2>2. CASE reading.attempt = MaxCompactRetries
    <3>1. Ended(TRUE)  BY <1>2, <1>5, <1>14, <2>2
    <3> QED  BY <1>1, <1>4, <1>5, <1>11, <2>1, <3>1
  <2>3. CASE reading.attempt # MaxCompactRetries
    <3>1. reading' = [reading EXCEPT !.current = left, !.attempt = @ + 1] /\ UNCHANGED <<turn, last, refused>>
      BY <1>2, <1>5, <1>14, <2>3
    <3>2. reading \in [level : Nat, current : Nat, delta : Int, attempt : 0 .. MaxCompactRetries]
      BY DEF ContextIInv, GuardTyped
    <3>3. reading.attempt + 1 \in 0 .. MaxCompactRetries
      <4>1. reading.attempt \in 0 .. MaxCompactRetries /\ MaxCompactRetries \in Nat  BY <3>2 DEF Sizes
      <4> QED  BY <4>1, <2>3
    <3>4. /\ reading' \in [level : Nat, current : Nat, delta : Int, attempt : 0 .. MaxCompactRetries]
          /\ reading'.level = reading.level
      BY <3>1, <3>2, <3>3
    <3>5. last' \in Seq(Entries) /\ refused' \in BOOLEAN  BY <3>1 DEF ContextIInv, GuardTyped
    <3>6. ContextIInv'  BY <1>1, <1>9, <3>1, <3>4, <3>5
    <3> QED  BY <1>1, <1>4, <1>5, <2>1, <3>1, <3>4, <3>6
  <2> QED  BY <2>2, <2>3
<1> QED  BY <1>13, <1>14

\* Every step keeps the invariant.
LEMMA ContextKeeps == ASSUME Sizes PROVE ContextIInv /\ [Next]_vars => ContextIInv'
<1> SUFFICES ASSUME ContextIInv, [Next]_vars PROVE ContextIInv'  OBVIOUS
<1>1. CASE User \/ Reply \/ Call \/ Result  BY <1>1, SaidKeeps
<1>2. CASE Repeat
  BY <1>2 DEF Repeat, ContextIInv, GuardTyped, Rounds, Counted
<1>3. CASE Restore  BY <1>3, RestoreKeeps
<1>4. CASE Measure  BY <1>4, MeasureKeeps
<1>5. CASE React  BY <1>5, ReactKeeps
<1>6. CASE UNCHANGED vars
  BY <1>6 DEF vars, ContextIInv, GuardTyped, Rounds, Counted
<1> QED  BY <1>1, <1>2, <1>3, <1>4, <1>5, <1>6 DEF Next

\* ... and weighs what it refuses, where no rung is above what a strategy declines at.
LEMMA WeighedKeeps == ASSUME Sizes, Reachable PROVE ContextIInv /\ Weighed /\ [Next]_vars => Weighed'
<1> SUFFICES ASSUME ContextIInv, Weighed, [Next]_vars PROVE Weighed'  OBVIOUS
<1> DEFINE W1 == turn = "reacting" => reading.level \in 1 .. Len(Ladder) /\ Weight >= Ladder[1]
           W2 == turn \in {"sent", "tool"} => ~ refused
<1>0. W1 /\ W2 /\ RefusedForCause  BY DEF Weighed
<1>1. CASE User \/ Reply \/ Call \/ Result
  <2>1. /\ UNCHANGED <<strategy, guard, reading, last, refused>>
        /\ \/ turn = "idle" /\ turn' = "ask"
           \/ turn = "sent" /\ turn' = "idle"
           \/ turn = "sent" /\ turn' = "tool"
           \/ turn = "tool" /\ turn' = "ask"
    BY <1>1, SaidKeeps
  <2>2. turn' # "reacting" /\ (turn' \in {"idle", "tool", "sent"} => ~ refused')  BY <2>1, <1>0
  <2> QED  BY <2>2 DEF Weighed, RefusedForCause
<1>2. CASE Repeat
  <2>1. turn' = "ask"  BY <1>2 DEF Repeat
  <2> QED  BY <2>1 DEF Weighed, RefusedForCause
<1>3. CASE Restore
  <2>1. history'.entries = history.entries  BY <1>3, RestoreKeeps
  <2>2. turn = "idle" /\ UNCHANGED <<strategy, turn, last, refused>>  BY <1>3 DEF Restore
  <2>3. RefusedForCause'
    <3>1. refused /\ last = history.entries => Heuristic(history.entries) >= Triggers[strategy][1]
      BY <1>0, <2>2 DEF RefusedForCause, Weight, Ladder
    <3> QED  BY <3>1, <2>1, <2>2 DEF RefusedForCause, Weight, Ladder
  <2> QED  BY <2>2, <2>3 DEF Weighed
<1>4. CASE Measure
  <2>1. /\ UNCHANGED <<strategy, history>>
        /\ \/ turn' = "reacting" /\ reading'.level = Crossed(Weight) /\ Crossed(Weight) >= 1
           \/ turn' = "sent" /\ refused' = FALSE
    BY <1>4, MeasureKeeps
  <2>2. CASE turn' = "reacting" /\ reading'.level = Crossed(Weight) /\ Crossed(Weight) >= 1
    <3>1. PICK w \in Nat : w = Weight  BY WeightIs
    <3>2. Crossed(w) \in 0 .. Len(Ladder) /\ Ladder # <<>> /\ w >= Ladder[1]  BY <2>2, <3>1, CrossedIs
    <3>3. reading'.level \in 1 .. Len(Ladder) /\ Weight >= Ladder[1]
      <4>1. Len(Ladder) \in Nat
        <5>1. Ladder \in Seq(Nat)  BY DEF Ladder, ContextIInv, GuardTyped, Sizes
        <5> QED  BY <5>1
      <4>2. PICK c \in Nat : c = Crossed(w)  BY <3>2, <4>1
      <4>3. c \in 1 .. Len(Ladder)  BY <4>1, <4>2, <3>1, <3>2, <2>2
      <4> QED  BY <4>2, <4>3, <2>2, <3>1, <3>2
    <3>4. Ladder' = Ladder /\ Weight' = Weight  BY <2>1 DEF Ladder, Weight
    <3> QED  BY <2>2, <3>3, <3>4 DEF Weighed, RefusedForCause
  <2>3. CASE turn' = "sent" /\ refused' = FALSE
    BY <2>3 DEF Weighed, RefusedForCause
  <2> QED  BY <2>1, <2>2, <2>3
<1>5. CASE React
  <2>1. turn = "reacting" /\ UNCHANGED strategy  BY <1>5, ReactKeeps
  <2>2. reading.level \in 1 .. Len(Ladder) /\ Weight >= Ladder[1]  BY <1>0, <2>1
  <2>3. turn' \in {"reacting", "idle"} => Heuristic(history'.entries) >= Ladder[1]
    BY <1>5, <2>2, ReactKeeps
  <2>4. \/ turn' = "reacting" /\ reading'.level = reading.level
        \/ turn' = "sent" /\ refused' = FALSE
        \/ turn' = "idle" /\ last' = history'.entries /\ refused' = TRUE
    BY <1>5, ReactKeeps
  <2>5. Ladder' = Ladder /\ Weight' = Heuristic(history'.entries)  BY <2>1 DEF Ladder, Weight
  <2>6. turn' \in {"reacting", "idle"} => Weight' >= Ladder'[1]  BY <2>3, <2>5
  <2>7. turn' = "reacting" => reading'.level \in 1 .. Len(Ladder')  BY <2>2, <2>4, <2>5
  <2>8. turn' \in {"sent", "tool"} => ~ refused'  BY <2>4
  <2> QED  BY <2>6, <2>7, <2>8 DEF Weighed, RefusedForCause
<1>6. CASE UNCHANGED vars
  <2>1. UNCHANGED <<strategy, history, turn, reading, last, refused>>  BY <1>6 DEF vars
  <2>2. Ladder' = Ladder /\ Weight' = Weight  BY <2>1 DEF Ladder, Weight
  <2> QED  BY <1>0, <2>1, <2>2 DEF Weighed, RefusedForCause
<1> QED  BY <1>1, <1>2, <1>3, <1>4, <1>5, <1>6 DEF Next

-----------------------------------------------------------------------------
(* Where each message weighs something, what is left weighs no more.         *)

Onwards ==
    /\ turn = "sent" => history.entries = last
    /\ turn = "tool" => Len(last) < Len(history.entries)
    /\ turn = "ask" => history.entries = last \/ Len(last) < Len(history.entries)
    /\ turn = "idle" => Len(last) <= Len(history.entries)
Settled ==
    /\ turn \in {"sent", "ask"} /\ history.entries = last /\ ~ refused =>
          Crossed(Weight) <= guard.level /\ Weight <= guard.current
    /\ turn = "reacting" =>
          guard.level = Crossed(guard.current) /\ Weight <= guard.current
CalmIInv == Solid(history.entries) /\ Onwards /\ Settled

\* It holds at first.
LEMMA CalmStarts == Init => CalmIInv
BY DEF Init, CalmIInv, Onwards, Settled, Solid, Fresh

\* Saying something is what makes a history longer than it was when it was sent.
LEMMA CalmKeepsSaid ==
    ASSUME Sizes, 0 \notin Weights, ContextIInv, CalmIInv, User \/ Reply \/ Call \/ Result
    PROVE  CalmIInv'
<1>1. PICK e \in Entries : history'.entries = Append(history.entries, e)
                           /\ (0 \notin Weights /\ Solid(history.entries) => Solid(history'.entries))
  BY SaidKeeps
<1>2. UNCHANGED last
      /\ \/ turn = "idle" /\ turn' = "ask"
         \/ turn = "sent" /\ turn' = "idle"
         \/ turn = "sent" /\ turn' = "tool"
         \/ turn = "tool" /\ turn' = "ask"
  BY SaidKeeps
<1>3. PICK q \in Seq(Entries) : q = history.entries  BY WeightIs
<1>4. Len(history'.entries) = Len(q) + 1 /\ Len(q) \in Nat  BY <1>1, <1>3
<1>5. last \in Seq(Entries)  BY DEF ContextIInv, GuardTyped
<1>6. Len(last) \in Nat  BY <1>5
<1>7. Len(last) <= Len(q)
  <2>1. turn = "sent" => q = last  BY <1>3 DEF CalmIInv, Onwards
  <2>2. turn = "tool" => Len(last) < Len(q)  BY <1>3 DEF CalmIInv, Onwards
  <2>3. turn = "idle" => Len(last) <= Len(q)  BY <1>3 DEF CalmIInv, Onwards
  <2> QED  BY <2>1, <2>2, <2>3, <1>2, <1>4, <1>6
<1>8. Len(last') < Len(history'.entries) /\ history'.entries # last'  BY <1>2, <1>4, <1>6, <1>7
<1>9. Onwards'
  <2>1. Len(last') <= Len(history'.entries)  BY <1>2, <1>4, <1>6, <1>7
  <2> QED  BY <2>1, <1>2, <1>8 DEF Onwards
<1>10. Settled'
  <2>1. turn' # "reacting"  BY <1>2
  <2> QED  BY <2>1, <1>8 DEF Settled
<1> QED  BY <1>1, <1>9, <1>10 DEF CalmIInv

\* Measuring records what was weighed.
LEMMA CalmKeepsMeasure ==
    ASSUME Sizes, ContextIInv, CalmIInv, Measure
    PROVE  CalmIInv'
<1>1. UNCHANGED <<strategy, history>> /\ guard'.current = Weight  BY MeasureKeeps
<1>2. Weight' = Weight  BY <1>1 DEF Weight
<1>3. Weight \in Nat  BY WeightIs
<1>4. \A w : Crossed(w)' = Crossed(w)  BY <1>1 DEF Crossed, Ladder
<1>5. CASE turn' = "reacting" /\ guard'.level = Crossed(Weight)
  <2>1. Settled'  BY <1>1, <1>2, <1>3, <1>4, <1>5 DEF Settled
  <2> QED  BY <2>1, <1>1, <1>5 DEF CalmIInv, Onwards
<1>6. CASE turn' = "sent" /\ last' = history.entries /\ guard'.level >= Crossed(Weight)
  <2>1. Crossed(Weight) <= guard'.level
    <3>1. PICK w \in Nat : w = Weight  BY <1>3
    <3>2. Crossed(w) \in 0 .. Len(Ladder)  BY CrossedIs
    <3>3. Crossed(w) \in Int  BY <3>2
    <3>4. guard'.level \in 0 .. Len(Ladder') /\ guard'.level \in Int
      <4>1. ContextIInv'  BY MeasureKeeps
      <4>2. guard'.level \in 0 .. Len(Ladder')  BY <4>1 DEF ContextIInv, GuardTyped, Ladder
      <4> QED  BY <4>2
    <3> QED  BY <3>1, <3>3, <3>4, <1>6
  <2>2. Settled'  BY <2>1, <1>1, <1>2, <1>3, <1>4, <1>6 DEF Settled
  <2> QED  BY <2>2, <1>1, <1>6 DEF CalmIInv, Onwards
<1> QED  BY <1>5, <1>6, MeasureKeeps

\* A strategy makes nothing heavier.
LEMMA CalmKeepsReact ==
    ASSUME Sizes, ContextIInv, CalmIInv, React
    PROVE  CalmIInv'
<1>1. UNCHANGED <<strategy, guard>> /\ turn = "reacting" /\ Reworked(history') /\ ContextIInv'  BY ReactKeeps
<1>2. Solid(history'.entries) /\ Weight' <= Weight  BY <1>1 DEF Reworked, CalmIInv, Weight
<1>3. PICK now \in Nat : now = Weight'
  <2>1. history'.entries \in Seq(Entries)  BY <1>1 DEF Reworked, Sound, Histories
  <2> QED  BY <2>1, HeuristicNat DEF Weight
<1>4. Weight \in Nat  BY WeightIs
<1>5. PICK top \in Nat : top = guard.current  BY DEF ContextIInv, GuardTyped
<1>6. guard.level = Crossed(top) /\ Weight <= top  BY <1>1, <1>5 DEF CalmIInv, Settled
<1>7. now <= top  BY <1>2, <1>3, <1>4, <1>6
<1>8. Crossed(now) <= guard.level  BY <1>6, <1>7, CrossedIs
<1>9. \A w : Crossed(w)' = Crossed(w)  BY <1>1 DEF Crossed, Ladder
<1>10. guard' = guard  BY <1>1
<1>11. Weight' <= guard'.current /\ Crossed(Weight)' <= guard'.level
       /\ guard'.level = Crossed(guard.current)'
  <2>1. Weight' <= guard'.current  BY <1>3, <1>5, <1>7, <1>10
  <2>2. Crossed(Weight)' = Crossed(now)  BY <1>1, <1>3 DEF Crossed, Ladder
  <2>3. Crossed(guard.current)' = Crossed(top)  BY <1>1, <1>5, <1>10 DEF Crossed, Ladder
  <2> QED  BY <2>1, <2>2, <2>3, <1>6, <1>8, <1>10
<1>12. Settled'  BY <1>11 DEF Settled
<1>13. Onwards'
  <2>1. turn' = "reacting" \/ (turn' \in {"sent", "idle"} /\ last' = history'.entries)  BY ReactKeeps
  <2>2. Len(history'.entries) \in Nat
    <3>1. history'.entries \in Seq(Entries)  BY <1>1 DEF Reworked, Sound, Histories
    <3> QED  BY <3>1
  <2> QED  BY <2>1, <2>2 DEF Onwards
<1> QED  BY <1>2, <1>12, <1>13 DEF CalmIInv

\* The others leave the messages as they are.
LEMMA CalmKeepsRest ==
    ASSUME ContextIInv, CalmIInv, Repeat \/ Restore \/ UNCHANGED vars
    PROVE  CalmIInv'
<1>1. /\ history'.entries = history.entries /\ UNCHANGED <<strategy, guard, last, refused>>
      /\ turn' = turn \/ (turn = "sent" /\ turn' = "ask")
  <2>1. CASE Repeat  BY <2>1 DEF Repeat
  <2>2. CASE Restore
    <3>1. history'.entries = history.entries  BY <2>2, RestoreKeeps
    <3> QED  BY <3>1, <2>2 DEF Restore
  <2>3. CASE UNCHANGED vars  BY <2>3 DEF vars
  <2> QED  BY <2>1, <2>2, <2>3
<1>2. Weight' = Weight  BY <1>1 DEF Weight
<1>3. Crossed(Weight)' = Crossed(Weight) /\ Crossed(guard.current)' = Crossed(guard.current)
  BY <1>1, <1>2 DEF Crossed, Ladder
<1>4. Onwards'  BY <1>1 DEF CalmIInv, Onwards
<1>5. Settled'  BY <1>1, <1>2, <1>3 DEF CalmIInv, Settled
<1>6. Solid(history'.entries)  BY <1>1 DEF CalmIInv
<1> QED  BY <1>4, <1>5, <1>6 DEF CalmIInv

\* Every step keeps that.
LEMMA CalmKeeps ==
    ASSUME Sizes, 0 \notin Weights
    PROVE  ContextIInv /\ CalmIInv /\ [Next]_vars => CalmIInv'
<1> SUFFICES ASSUME ContextIInv, CalmIInv, [Next]_vars PROVE CalmIInv'  OBVIOUS
<1> QED  BY CalmKeepsSaid, CalmKeepsMeasure, CalmKeepsReact, CalmKeepsRest DEF Next

\* A step that leaves a conversation waiting to be measured leaves it as it is, and one that
\* measures what was sent as it is, sends it.
LEMMA CalmStep ==
    ASSUME Sizes
    PROVE  ContextIInv /\ CalmIInv /\ [Next]_vars
              => [turn = "ask" /\ history.entries = last /\ ~refused => turn' = "sent"]_vars
<1> SUFFICES ASSUME ContextIInv, CalmIInv, Next, turn = "ask", history.entries = last, ~refused
             PROVE  turn' = "sent"
  OBVIOUS
<1>1. Measure  BY DEF Next, User, Reply, Call, Result, Repeat, Restore, React
<1>2. Crossed(Weight) <= guard.level /\ Weight <= guard.current  BY DEF CalmIInv, Settled
<1>3. Weight \in Nat /\ guard.current \in Nat /\ guard.level \in Nat /\ Crossed(Weight) \in Nat
  <2>1. PICK w \in Nat : w = Weight  BY WeightIs
  <2>2. Crossed(w) \in 0 .. Len(Ladder)  BY CrossedIs
  <2>3. guard.current \in Nat /\ guard.level \in 0 .. Len(Ladder)  BY DEF Ladder, ContextIInv, GuardTyped
  <2> QED  BY <2>1, <2>2, <2>3
<1>4. ~ (Crossed(Weight) > guard.level \/ Weight > guard.current)  BY <1>2, <1>3
<1> QED  BY <1>1, <1>4, MeasureKeeps

-----------------------------------------------------------------------------
\* A history is of messages, its count of some of them or none, and what the guard noted of it
\* is a rung and a weight (ConversationHistory, ContextGuard).
THEOREM GuardTypeCorrect == ASSUME Sizes PROVE Spec => []TypeOK
<1>1. Init => ContextIInv  BY ContextStarts
<1>2. ContextIInv /\ [Next]_vars => ContextIInv'  BY ContextKeeps
<1>3. ContextIInv => TypeOK
  <2> SUFFICES ASSUME ContextIInv PROVE TypeOK  OBVIOUS
  <2>1. history.index \in None .. MaxEntries /\ history.total \in Nat
    <3>1. said \in 0 .. MaxEntries /\ MaxEntries \in Nat  BY DEF ContextIInv, GuardTyped, Sizes
    <3>2. history.index \in None .. said /\ history \in Histories  BY DEF ContextIInv, GuardTyped, Sound
    <3>3. history.index \in None .. MaxEntries  BY <3>1, <3>2 DEF None
    <3> QED  BY <3>2, <3>3 DEF Histories
  <2> QED  BY <2>1 DEF TypeOK, ContextIInv, GuardTyped, Ladder
<1> QED  BY <1>1, <1>2, <1>3, PTL DEF Spec

\* Through every cut, splice and copy a result keeps its call and a count the messages it is
\* of, but for what the layered strategy's halves and a truncation do (truncate, splice_range).
THEOREM HistoryKept == ASSUME Sizes PROVE Spec => []HistoryTrue
<1>1. Init => ContextIInv  BY ContextStarts
<1>2. ContextIInv /\ [Next]_vars => ContextIInv'  BY ContextKeeps
<1>3. ContextIInv => HistoryTrue
  <2> SUFFICES ASSUME ContextIInv PROVE HistoryTrue  OBVIOUS
  <2>1. PairsKept
    <3>1. SUFFICES ASSUME strategy # "layered" PROVE Pairs(history.entries)  BY DEF PairsKept
    <3>2. Paired(history.entries)  BY <3>1 DEF ContextIInv, Rounds
    <3>3. PICK q \in Seq(Entries) : q = history.entries  BY WeightIs
    <3>4. ASSUME NEW k \in DOMAIN q, q[k].kind = "result"
          PROVE  \E j \in 1 .. k - 1 : q[j].kind = "call" /\ q[j].id = q[k].id
      <4>1. k \in 1 .. Len(q)  BY <3>3
      <4>2. k > 1 /\ q[k - 1].kind = "call" /\ q[k - 1].id = q[k].id  BY <4>1, <3>2, <3>3, <3>4 DEF Paired
      <4>3. k - 1 \in 1 .. k - 1  BY <4>1, <4>2
      <4> QED  BY <4>2, <4>3
    <3> QED  BY <3>3, <3>4 DEF Pairs
  <2>2. CountBelongs
    <3>1. SUFFICES ASSUME strategy # "truncate" PROVE Exact  BY DEF CountBelongs
    <3>2. CountOf(history)  BY <3>1 DEF ContextIInv, Counted
    <3>3. \A i \in 0 .. Size(history) - 1 : i >= 0  OBVIOUS
    <3> QED  BY <3>2, <3>3 DEF CountOf, Exact
  <2> QED  BY <2>1, <2>2 DEF HistoryTrue
<1> QED  BY <1>1, <1>2, <1>3, PTL DEF Spec

\* A request is refused for what is left of it, where no ladder begins above what a strategy
\* declines at (ContextGuard._handle_measure).
THEOREM RefusalsHaveCause == ASSUME Sizes, Reachable PROVE Spec => []RefusedForCause
<1>1. Init => ContextIInv /\ Weighed  BY ContextStarts
<1>2. ContextIInv /\ [Next]_vars => ContextIInv'  BY ContextKeeps
<1>3. ContextIInv /\ Weighed /\ [Next]_vars => Weighed'  BY WeighedKeeps
<1>4. Weighed => RefusedForCause  BY DEF Weighed
<1> QED  BY <1>1, <1>2, <1>3, <1>4, PTL DEF Spec

\* Where each message weighs something, a conversation that is measured twice with nothing said
\* in between is not compacted again (ContextGuard._handle_measure).
THEOREM GuardIsCalm == ASSUME Sizes, 0 \notin Weights PROVE Spec => Calm
<1>1. Init => ContextIInv /\ CalmIInv  BY ContextStarts, CalmStarts
<1>2. ContextIInv /\ [Next]_vars => ContextIInv'  BY ContextKeeps
<1>3. ContextIInv /\ CalmIInv /\ [Next]_vars => CalmIInv'  BY CalmKeeps
<1>4. ContextIInv /\ CalmIInv /\ [Next]_vars
         => [turn = "ask" /\ history.entries = last /\ ~refused => turn' = "sent"]_vars
  BY CalmStep
<1> QED  BY <1>1, <1>2, <1>3, <1>4, PTL DEF Spec, Calm

-----------------------------------------------------------------------------
(* ServerState, beside the guard: the context behind an id ends with the     *)
(* transcript up to the message that carries it, and what it has besides was *)
(* cut off.                                                                  *)

CONSTANTS Hosts, Names, Models, Supports, BoundTo, Retention, Forever, Interjects, MaxAsks, MaxAge
VARIABLES messages, answer, contexts, turns, clock, dropped, reads, denied

State == INSTANCE ServerState WITH
    MaxTurns <- MaxAsks, MaxTime <- MaxAge, now <- clock, cut <- dropped, read <- reads, refused <- denied

\* A model is one of a provider's, and an answer is kept before anything else is said.
StateSizes ==
    /\ Models \subseteq Hosts \X Names /\ Retention \in [Hosts -> Int] /\ ~ Interjects
    /\ {MaxAsks, MaxAge} \subseteq Nat

Says == [id : 1 .. MaxAsks, role : {"user", "assistant"}, by : Models \cup {State!Nobody}, sid : Nat,
         createdAt : 0 .. MaxAge]
Contexts == [by : Models, holds : Seq(1 .. MaxAsks), at : 0 .. MaxAge]
Replies == [id : 0 .. MaxAsks, by : Models \cup {State!Nobody}, sid : Nat]

StateTyped ==
    /\ messages \in Seq(Says) /\ contexts \in Seq(Contexts) /\ answer \in Replies
    /\ turns \in 0 .. MaxAsks /\ clock \in 0 .. MaxAge
    /\ \A i \in 1 .. Len(messages) : messages[i].sid <= Len(contexts) /\ messages[i].createdAt <= clock
    /\ answer.sid <= Len(contexts)
    /\ reads.all \in Seq(1 .. MaxAsks) /\ reads.transcript \in Seq(1 .. MaxAsks)

Ascending(q) == \A i, j \in 1 .. Len(q) : i < j => q[i] < q[j]

\* But for its last `more`, q ends with the first n of p, and has only what is in D besides.
EndsWith(q, p, n, more, D) ==
    /\ n + more <= Len(q)
    /\ \A k \in 1 .. n : q[Len(q) - more - n + k] = p[k]
    /\ \A k \in 1 .. Len(q) - more - n : q[k] \in D

\* Messages are in the order they were made.
InOrder ==
    /\ \A i, j \in 1 .. Len(messages) : i < j => messages[i].id < messages[j].id
    /\ \A i \in 1 .. Len(messages) : messages[i].id <= turns
    /\ answer # State!NoAnswer =>
          /\ answer.id \in 1 .. turns
          /\ \A i \in 1 .. Len(messages) : messages[i].id < answer.id

\* What the context behind an id holds, if it is one of a transcript's i-th message, or one of an answer to come.
Behind(m, ids, i, more, cs, D) ==
    m.sid # 0 =>
       /\ cs[m.sid].by = m.by
       /\ Ascending(cs[m.sid].holds) /\ EndsWith(cs[m.sid].holds, ids, i, more, D)
BehindIds ==
    /\ \A i \in 1 .. Len(messages) : Behind(messages[i], State!Ids(messages), i, 0, contexts, dropped)
    /\ Behind(answer, State!Ids(messages), Len(messages), 1, contexts, dropped)
    /\ answer.sid # 0 => contexts[answer.sid].holds[Len(contexts[answer.sid].holds)] = answer.id

Heard == Ascending(reads.all) /\ EndsWith(reads.all, reads.transcript, Len(reads.transcript), 0, dropped)

StateIInv == StateTyped /\ InOrder /\ BehindIds /\ Heard /\ State!RefusedOnlyLate

\* At first nothing is said.
LEMMA StateStarts == ASSUME StateSizes PROVE State!Init => StateIInv
<1> SUFFICES ASSUME State!Init PROVE StateIInv  OBVIOUS
<1>1. /\ messages = <<>> /\ answer = State!NoAnswer /\ contexts = <<>> /\ turns = 0 /\ clock = 0
      /\ reads.all = <<>> /\ reads.transcript = <<>> /\ denied = {}
  BY DEF State!Init
<1>2. StateTyped
  <2>1. 0 \in 0 .. MaxAsks /\ 0 \in 0 .. MaxAge  BY DEF StateSizes
  <2>2. answer \in Replies /\ answer.sid = 0  BY <1>1, <2>1 DEF State!NoAnswer, Replies
  <2> QED  BY <1>1, <2>1, <2>2 DEF StateTyped
<1>3. InOrder  BY <1>1 DEF InOrder
<1>4. BehindIds  BY <1>1 DEF BehindIds, Behind, State!NoAnswer
<1>5. Heard  BY <1>1 DEF Heard, Ascending, EndsWith
<1>6. State!RefusedOnlyLate  BY <1>1 DEF State!RefusedOnlyLate
<1> QED  BY <1>2, <1>3, <1>4, <1>5, <1>6 DEF StateIInv

\* The number of a message, in the order they were made.
LEMMA IdOf ==
    ASSUME NEW ms \in Seq(Says)
    PROVE  /\ State!Ids(ms) \in Seq(1 .. MaxAsks) /\ Len(State!Ids(ms)) = Len(ms) /\ DOMAIN State!Ids(ms) = 1 .. Len(ms)
           /\ \A i \in 1 .. Len(ms) : State!Ids(ms)[i] = ms[i].id
<1>1. DOMAIN ms = 1 .. Len(ms) /\ Len(ms) \in Nat  OBVIOUS
<1>2. \A i \in 1 .. Len(ms) : ms[i].id \in 1 .. MaxAsks
  <2> TAKE i \in 1 .. Len(ms)
  <2>1. ms[i] \in Says  OBVIOUS
  <2> QED  BY <2>1 DEF Says
<1>3. State!Ids(ms) = [i \in 1 .. Len(ms) |-> ms[i].id]  BY <1>1 DEF State!Ids
<1> QED  BY <1>1, <1>2, <1>3

\* Ends that do not change, and what is cut off only grows.
LEMMA EndsStill ==
    ASSUME NEW q, NEW p, NEW r, NEW n \in Nat, NEW more \in Nat, NEW D, NEW E,
           EndsWith(q, p, n, more, D), D \subseteq E, \A k \in 1 .. n : r[k] = p[k]
    PROVE  EndsWith(q, r, n, more, E)
BY DEF EndsWith

\* Whoever is behind an id stays there.
LEMMA BehindStill ==
    ASSUME NEW m, NEW p, NEW r, NEW n \in Nat, NEW more \in Nat, NEW cs, NEW ds, NEW D, NEW E,
           Behind(m, p, n, more, cs, D), m.sid # 0 => ds[m.sid] = cs[m.sid], D \subseteq E, \A k \in 1 .. n : r[k] = p[k]
    PROVE  Behind(m, r, n, more, ds, E)
<1> SUFFICES ASSUME m.sid # 0 PROVE Behind(m, r, n, more, ds, E)  BY DEF Behind
<1>1. cs[m.sid].by = m.by /\ Ascending(cs[m.sid].holds) /\ EndsWith(cs[m.sid].holds, p, n, more, D)
  BY DEF Behind
<1>2. EndsWith(cs[m.sid].holds, r, n, more, E)  BY <1>1, EndsStill
<1> QED  BY <1>1, <1>2 DEF Behind

\* The transcript with one more message.
LEMMA OneMore ==
    ASSUME StateTyped, NEW m \in Says, messages' = Append(messages, m)
    PROVE  /\ messages' \in Seq(Says) /\ Len(messages') = Len(messages) + 1 /\ Len(messages) \in Nat
           /\ \A i \in 1 .. Len(messages) : messages'[i] = messages[i] /\ State!Ids(messages')[i] = State!Ids(messages)[i]
           /\ messages'[Len(messages) + 1] = m /\ State!Ids(messages')[Len(messages) + 1] = m.id
<1>1. messages \in Seq(Says)  BY DEF StateTyped
<1>2. PICK q \in Seq(Says) : q = Append(messages, m)  BY <1>1
<1>3. /\ Len(q) = Len(messages) + 1 /\ Len(messages) \in Nat /\ q[Len(messages) + 1] = m
      /\ \A i \in 1 .. Len(messages) : q[i] = messages[i]
  <2> HIDE DEF Says
  <2> QED  BY <1>1, <1>2
<1>4. /\ \A i \in 1 .. Len(messages) : State!Ids(messages)[i] = messages[i].id
      /\ \A i \in 1 .. Len(q) : State!Ids(q)[i] = q[i].id
  BY <1>1, IdOf
<1>5. \A i \in 1 .. Len(messages) : State!Ids(q)[i] = State!Ids(messages)[i]  BY <1>3, <1>4
<1>6. State!Ids(q)[Len(messages) + 1] = m.id  BY <1>3, <1>4
<1> QED  BY <1>2, <1>3, <1>5, <1>6

\* Something is said (Conversation.add).
LEMMA SayKeeps == ASSUME StateSizes PROVE StateIInv /\ State!Say => StateIInv'
<1> SUFFICES ASSUME StateIInv, State!Say PROVE StateIInv'  OBVIOUS
<1> DEFINE m == [id |-> turns', role |-> "user", by |-> State!Nobody, sid |-> 0, createdAt |-> 0]
<1>1. /\ turns < MaxAsks /\ turns' = turns + 1 /\ messages' = Append(messages, m) /\ answer' = State!NoAnswer
      /\ UNCHANGED <<contexts, clock, dropped, reads, denied>>
  BY DEF State!Say, StateSizes
<1>2. turns' \in 1 .. MaxAsks /\ turns \in Nat /\ MaxAsks \in Nat  BY <1>1 DEF StateSizes, StateIInv, StateTyped
<1>3. clock \in 0 .. MaxAge /\ 0 \in 0 .. MaxAge  BY DEF StateSizes, StateIInv, StateTyped
<1>4. m \in Says
  <2>1. turns' \in 1 .. MaxAsks  BY <1>2
  <2> QED  BY <2>1, <1>3 DEF Says
<1>5. m.id = turns' /\ m.sid = 0 /\ m.createdAt = 0  OBVIOUS
<1> HIDE DEF m
<1>6. /\ messages' \in Seq(Says) /\ Len(messages') = Len(messages) + 1 /\ Len(messages) \in Nat
      /\ \A i \in 1 .. Len(messages) : messages'[i] = messages[i] /\ State!Ids(messages')[i] = State!Ids(messages)[i]
      /\ messages'[Len(messages) + 1] = m
  BY <1>1, <1>4, OneMore DEF StateIInv
<1>7. 1 .. Len(messages') = 1 .. Len(messages) \cup {Len(messages) + 1}  BY <1>6
<1>8. State!NoAnswer \in Replies /\ State!NoAnswer.sid = 0
  <2>1. 0 \in 0 .. MaxAsks  BY <1>2
  <2> QED  BY <2>1 DEF Replies, State!NoAnswer
<1>9. StateTyped'
  <2>1. ASSUME NEW i \in 1 .. Len(messages') PROVE messages'[i].sid <= Len(contexts) /\ messages'[i].createdAt <= clock
    <3>1. CASE i \in 1 .. Len(messages)  BY <3>1, <1>6 DEF StateIInv, StateTyped
    <3>2. CASE i = Len(messages) + 1
      <4>1. Len(contexts) \in Nat  BY DEF StateIInv, StateTyped
      <4> QED  BY <3>2, <4>1, <1>3, <1>5, <1>6
    <3> QED  BY <3>1, <3>2, <1>7
  <2>2. Len(contexts) \in Nat  BY DEF StateIInv, StateTyped
  <2> QED  BY <1>1, <1>2, <1>3, <1>6, <1>8, <2>1, <2>2 DEF StateIInv, StateTyped
<1>10. InOrder'
  <2>1. \A i \in 1 .. Len(messages) : messages'[i].id <= turns /\ messages[i].id <= turns
    BY <1>6 DEF StateIInv, InOrder
  <2>2. \A i \in 1 .. Len(messages) : messages[i].id \in Nat
    <3> TAKE i \in 1 .. Len(messages)
    <3>1. messages[i] \in Says  BY <1>6 DEF StateIInv, StateTyped
    <3> QED  BY <3>1 DEF Says
  <2>3. ASSUME NEW i \in 1 .. Len(messages') PROVE messages'[i].id <= turns'
    <3>1. CASE i \in 1 .. Len(messages)  BY <3>1, <1>1, <1>2, <1>6, <2>1, <2>2
    <3>2. CASE i = Len(messages) + 1  BY <3>2, <1>2, <1>5, <1>6
    <3> QED  BY <3>1, <3>2, <1>7
  <2>4. ASSUME NEW i \in 1 .. Len(messages'), NEW j \in 1 .. Len(messages'), i < j PROVE messages'[i].id < messages'[j].id
    <3>1. i \in 1 .. Len(messages)  BY <1>6, <2>4
    <3>2. CASE j \in 1 .. Len(messages)  BY <3>1, <3>2, <2>4, <1>6 DEF StateIInv, InOrder
    <3>3. CASE j = Len(messages) + 1  BY <3>1, <3>3, <1>1, <1>2, <1>5, <1>6, <2>1, <2>2
    <3> QED  BY <3>2, <3>3, <1>7
  <2> QED  BY <2>3, <2>4, <1>1 DEF InOrder
<1>11. BehindIds'
  <2>1. ASSUME NEW i \in 1 .. Len(messages')
        PROVE Behind(messages'[i], State!Ids(messages'), i, 0, contexts, dropped)
    <3>1. CASE i \in 1 .. Len(messages)
      <4>1. Behind(messages[i], State!Ids(messages), i, 0, contexts, dropped)  BY <3>1 DEF StateIInv, BehindIds
      <4>2. \A k \in 1 .. i : State!Ids(messages')[k] = State!Ids(messages)[k]  BY <3>1, <1>6
      <4>3. i \in Nat /\ dropped \subseteq dropped  OBVIOUS
      <4>4. Behind(messages[i], State!Ids(messages'), i, 0, contexts, dropped)  BY <4>1, <4>2, <4>3, BehindStill, Zenon
      <4> QED  BY <4>4, <3>1, <1>6
    <3>2. CASE i = Len(messages) + 1  BY <3>2, <1>5, <1>6 DEF Behind
    <3> QED  BY <3>1, <3>2, <1>7
  <2>2. Behind(State!NoAnswer, State!Ids(messages'), Len(messages'), 1, contexts, dropped)  BY <1>8 DEF Behind
  <2> QED  BY <2>1, <2>2, <1>1, <1>8 DEF BehindIds
<1>12. Heard'  BY <1>1 DEF StateIInv, Heard
<1>13. State!RefusedOnlyLate'  BY <1>1 DEF StateIInv, State!RefusedOnlyLate
<1> QED  BY <1>9, <1>10, <1>11, <1>12, <1>13 DEF StateIInv

\* An answer is kept, with where it came from or without (assistant_message).
LEMMA KeepKeeps ==
    ASSUME StateSizes, NEW stamped \in BOOLEAN PROVE StateIInv /\ State!Keep(stamped) => StateIInv'
<1> SUFFICES ASSUME StateIInv, State!Keep(stamped) PROVE StateIInv'  OBVIOUS
<1> DEFINE m == [id |-> answer.id, role |-> "assistant", createdAt |-> IF stamped THEN clock ELSE 0,
                 by |-> IF stamped THEN answer.by ELSE State!Nobody,
                 sid |-> IF stamped THEN answer.sid ELSE 0]
<1>1. /\ answer # State!NoAnswer /\ messages' = Append(messages, m) /\ answer' = State!NoAnswer
      /\ UNCHANGED <<contexts, turns, clock, dropped, reads, denied>>
  BY DEF State!Keep
<1>2. answer \in Replies /\ answer.sid <= Len(contexts) /\ answer.id \in 1 .. turns /\ turns \in 0 .. MaxAsks
      /\ Len(contexts) \in Nat /\ clock \in 0 .. MaxAge
  BY <1>1 DEF StateIInv, StateTyped, InOrder
<1>3. 0 \in 0 .. MaxAge /\ MaxAsks \in Nat  BY DEF StateSizes
<1>4. answer.sid \in Nat /\ answer.id \in 1 .. MaxAsks /\ answer.by \in Models \cup {State!Nobody}
  <2>1. answer.sid \in Nat /\ answer.by \in Models \cup {State!Nobody}  BY <1>2 DEF Replies
  <2>2. answer.id \in 1 .. MaxAsks  BY <1>2, <1>3
  <2> QED  BY <2>1, <2>2
<1>5. /\ m.id = answer.id /\ (m.sid = 0 \/ (m.sid = answer.sid /\ m.by = answer.by))
      /\ m.sid <= Len(contexts) /\ m.createdAt \in 0 .. clock
  BY <1>2, <1>4
<1>6. m \in Says
  <2>1. (IF stamped THEN answer.by ELSE State!Nobody) \in Models \cup {State!Nobody}  BY <1>4
  <2>2. (IF stamped THEN clock ELSE 0) \in 0 .. MaxAge  BY <1>2, <1>3
  <2>3. (IF stamped THEN answer.sid ELSE 0) \in Nat  BY <1>4
  <2> QED  BY <2>1, <2>2, <2>3, <1>4 DEF Says
<1> HIDE DEF m
<1>7. /\ messages' \in Seq(Says) /\ Len(messages') = Len(messages) + 1 /\ Len(messages) \in Nat
      /\ \A i \in 1 .. Len(messages) : messages'[i] = messages[i] /\ State!Ids(messages')[i] = State!Ids(messages)[i]
      /\ messages'[Len(messages) + 1] = m /\ State!Ids(messages')[Len(messages) + 1] = m.id
  BY <1>1, <1>6, OneMore DEF StateIInv
<1>8. 1 .. Len(messages') = 1 .. Len(messages) \cup {Len(messages) + 1}  BY <1>7
<1>9. State!NoAnswer \in Replies /\ State!NoAnswer.sid = 0
  <2>1. 0 \in 0 .. MaxAsks  BY <1>3
  <2> QED  BY <2>1 DEF Replies, State!NoAnswer
<1>10. StateTyped'
  <2>1. ASSUME NEW i \in 1 .. Len(messages') PROVE messages'[i].sid <= Len(contexts) /\ messages'[i].createdAt <= clock
    <3>1. CASE i \in 1 .. Len(messages)  BY <3>1, <1>7 DEF StateIInv, StateTyped
    <3>2. CASE i = Len(messages) + 1  BY <3>2, <1>2, <1>5, <1>7
    <3> QED  BY <3>1, <3>2, <1>8
  <2> QED  BY <1>1, <1>2, <1>7, <1>9, <2>1 DEF StateIInv, StateTyped
<1>11. InOrder'
  <2>1. \A i \in 1 .. Len(messages) : messages[i].id <= turns /\ messages[i].id < answer.id
    BY <1>1 DEF StateIInv, InOrder
  <2>2. ASSUME NEW i \in 1 .. Len(messages') PROVE messages'[i].id <= turns
    <3>1. CASE i \in 1 .. Len(messages)  BY <3>1, <1>7, <2>1
    <3>2. CASE i = Len(messages) + 1  BY <3>2, <1>2, <1>5, <1>7
    <3> QED  BY <3>1, <3>2, <1>8
  <2>3. ASSUME NEW i \in 1 .. Len(messages'), NEW j \in 1 .. Len(messages'), i < j PROVE messages'[i].id < messages'[j].id
    <3>1. i \in 1 .. Len(messages)  BY <1>7, <2>3
    <3>2. CASE j \in 1 .. Len(messages)  BY <3>1, <3>2, <2>3, <1>7 DEF StateIInv, InOrder
    <3>3. CASE j = Len(messages) + 1  BY <3>1, <3>3, <1>5, <1>7, <2>1
    <3> QED  BY <3>2, <3>3, <1>8
  <2> QED  BY <2>2, <2>3, <1>1 DEF InOrder
<1>12. BehindIds'
  <2>1. ASSUME NEW i \in 1 .. Len(messages')
        PROVE Behind(messages'[i], State!Ids(messages'), i, 0, contexts, dropped)
    <3>1. CASE i \in 1 .. Len(messages)
      <4>1. Behind(messages[i], State!Ids(messages), i, 0, contexts, dropped)  BY <3>1 DEF StateIInv, BehindIds
      <4>2. \A k \in 1 .. i : State!Ids(messages')[k] = State!Ids(messages)[k]  BY <3>1, <1>7
      <4>3. i \in Nat /\ dropped \subseteq dropped  OBVIOUS
      <4>4. Behind(messages[i], State!Ids(messages'), i, 0, contexts, dropped)  BY <4>1, <4>2, <4>3, BehindStill, Zenon
      <4> QED  BY <4>4, <3>1, <1>7
    <3>2. CASE i = Len(messages) + 1
      <4>1. SUFFICES ASSUME m.sid # 0 PROVE Behind(m, State!Ids(messages'), i, 0, contexts, dropped)
        BY <3>2, <1>7 DEF Behind
      <4>2. m.sid = answer.sid /\ m.by = answer.by /\ m.id = answer.id  BY <4>1, <1>5
      <4>3. PICK q \in Seq(1 .. MaxAsks) : q = contexts[answer.sid].holds
        <5>1. answer.sid \in 1 .. Len(contexts)  BY <4>1, <4>2, <1>2, <1>4
        <5>2. contexts[answer.sid] \in Contexts  BY <5>1 DEF StateIInv, StateTyped
        <5> QED  BY <5>2 DEF Contexts
      <4>4. /\ contexts[answer.sid].by = answer.by /\ Ascending(q)
            /\ EndsWith(q, State!Ids(messages), Len(messages), 1, dropped) /\ q[Len(q)] = answer.id
        BY <4>1, <4>2, <4>3 DEF StateIInv, BehindIds, Behind
      <4>5. Len(q) \in Nat /\ Len(messages) + 1 <= Len(q)  BY <4>4, <4>3 DEF EndsWith
      <4>6. ASSUME NEW k \in 1 .. Len(messages) + 1
            PROVE q[Len(q) - 0 - (Len(messages) + 1) + k] = State!Ids(messages')[k]
        <5>1. CASE k \in 1 .. Len(messages)
          <6>1. q[Len(q) - 1 - Len(messages) + k] = State!Ids(messages)[k]  BY <5>1, <4>4 DEF EndsWith
          <6>2. Len(q) - 0 - (Len(messages) + 1) + k = Len(q) - 1 - Len(messages) + k  BY <4>5, <1>7
          <6> QED  BY <6>1, <6>2, <5>1, <1>7
        <5>2. CASE k = Len(messages) + 1
          <6>1. Len(q) - 0 - (Len(messages) + 1) + k = Len(q)  BY <5>2, <4>5, <1>7
          <6> QED  BY <6>1, <5>2, <4>2, <4>4, <1>7
        <5> QED  BY <5>1, <5>2, <1>7
      <4>7. ASSUME NEW k \in 1 .. Len(q) - 0 - (Len(messages) + 1) PROVE q[k] \in dropped
        <5>1. k \in 1 .. Len(q) - 1 - Len(messages)  BY <4>5, <1>7
        <5> QED  BY <5>1, <4>4 DEF EndsWith
      <4>8. EndsWith(q, State!Ids(messages'), i, 0, dropped)
        <5>1. Len(messages) + 1 + 0 <= Len(q)  BY <4>5, <1>7
        <5> QED  BY <4>6, <4>7, <5>1, <3>2 DEF EndsWith
      <4> QED  BY <4>2, <4>3, <4>4, <4>8 DEF Behind
    <3> QED  BY <3>1, <3>2, <1>8
  <2>2. Behind(State!NoAnswer, State!Ids(messages'), Len(messages'), 1, contexts, dropped)  BY <1>9 DEF Behind
  <2> QED  BY <2>1, <2>2, <1>1, <1>9 DEF BehindIds
<1>13. Heard'  BY <1>1 DEF StateIInv, Heard
<1>14. State!RefusedOnlyLate'  BY <1>1 DEF StateIInv, State!RefusedOnlyLate
<1> QED  BY <1>10, <1>11, <1>12, <1>13, <1>14 DEF StateIInv

\* Time passes.
LEMMA TickKeeps == ASSUME StateSizes PROVE StateIInv /\ State!Tick => StateIInv'
<1> SUFFICES ASSUME StateIInv, State!Tick PROVE StateIInv'  OBVIOUS
<1>1. clock < MaxAge /\ clock' = clock + 1 /\ UNCHANGED <<messages, answer, contexts, turns, dropped, reads, denied>>
  BY DEF State!Tick
<1>2. clock \in Nat /\ clock' \in 0 .. MaxAge  BY <1>1 DEF StateIInv, StateTyped, StateSizes
<1>3. ASSUME NEW i \in 1 .. Len(messages) PROVE messages[i].createdAt <= clock + 1
  <2>1. messages[i] \in Says /\ messages[i].createdAt <= clock  BY DEF StateIInv, StateTyped
  <2> QED  BY <2>1, <1>2 DEF Says
<1>4. StateTyped'  BY <1>1, <1>2, <1>3 DEF StateIInv, StateTyped
<1> QED  BY <1>1, <1>4 DEF StateIInv, InOrder, BehindIds, Heard, State!RefusedOnlyLate

\* An end whose first i are cut off.
LEMMA EndsShortened ==
    ASSUME NEW q, Len(q) \in Nat, NEW p, NEW r, NEW n \in Nat, NEW more \in Nat, NEW i \in 0 .. n, NEW D, NEW E,
           EndsWith(q, p, n, more, D), \A k \in 1 .. n - i : r[k] = p[i + k], D \subseteq E, \A k \in 1 .. i : p[k] \in E
    PROVE  EndsWith(q, r, n - i, more, E)
<1>1. n + more <= Len(q)  BY DEF EndsWith
<1>2. ASSUME NEW k \in 1 .. n - i PROVE q[Len(q) - more - (n - i) + k] = r[k]
  <2>1. i + k \in 1 .. n  OBVIOUS
  <2>2. q[Len(q) - more - n + (i + k)] = p[i + k]  BY <2>1 DEF EndsWith
  <2>3. Len(q) - more - n + (i + k) = Len(q) - more - (n - i) + k  OBVIOUS
  <2> QED  BY <2>2, <2>3
<1>3. ASSUME NEW k \in 1 .. Len(q) - more - (n - i) PROVE q[k] \in E
  <2>1. CASE k \in 1 .. Len(q) - more - n  BY <2>1 DEF EndsWith
  <2>2. CASE k \notin 1 .. Len(q) - more - n
    <3> DEFINE j == k - (Len(q) - more - n)
    <3>1. j \in 1 .. i /\ j \in 1 .. n /\ Len(q) - more - n + j = k  BY <2>2, <1>1
    <3>2. q[Len(q) - more - n + j] = p[j]
      <4> HIDE DEF j
      <4> QED  BY <3>1 DEF EndsWith
    <3> HIDE DEF j
    <3> QED  BY <3>1, <3>2
  <2> QED  BY <2>1, <2>2
<1>4. n - i + more <= Len(q)  BY <1>1
<1> QED  BY <1>2, <1>3, <1>4 DEF EndsWith

\* What it loses is what the contexts have besides (Conversation.truncate).
LEMMA CutKeeps ==
    ASSUME StateSizes, NEW i \in 1 .. Len(messages) - 1 PROVE StateIInv /\ State!Cut(i) => StateIInv'
<1> SUFFICES ASSUME StateIInv, State!Cut(i) PROVE StateIInv'  OBVIOUS
<1>1. /\ messages' = SubSeq(messages, i + 1, Len(messages))
      /\ dropped' = dropped \cup State!ToSet(State!Ids(SubSeq(messages, 1, i)))
      /\ UNCHANGED <<answer, contexts, turns, clock, reads, denied>>
  BY DEF State!Cut
<1>2. messages \in Seq(Says) /\ Len(messages) \in Nat  BY DEF StateIInv, StateTyped
<1>3. PICK n \in Nat : n = Len(messages)  BY <1>2
<1>4. i \in 1 .. n - 1 /\ i \in 0 .. n /\ n - i \in Nat  BY <1>3
<1>5. \A k \in 1 .. n : State!Ids(messages)[k] = messages[k].id  BY <1>2, <1>3, IdOf
<1>6. PICK ms \in Seq(Says) : ms = SubSeq(messages, i + 1, Len(messages))
  <2>1. \A k \in i + 1 .. n : messages[k] \in Says
    <3> HIDE DEF Says
    <3> QED  BY <1>2, <1>3, <1>4
  <2>2. i + 1 \in Int /\ n \in Int  BY <1>4
  <2>3. SubSeq(messages, i + 1, n) \in Seq(Says)  BY <2>1, <2>2, SubSeqProperties, Zenon
  <2> QED  BY <2>3, <1>3
<1>7. Len(ms) = n - i  BY <1>2, <1>3, <1>4, <1>6, SubSeqProperties
<1>8. \A k \in 1 .. n - i : ms[k] = messages[i + k]
  <2> TAKE k \in 1 .. n - i
  <2>1. ms[k] = messages[i + 1 + k - 1]  BY <1>2, <1>3, <1>4, <1>6, SubSeqProperties
  <2>2. i + 1 + k - 1 = i + k  BY <1>4
  <2> QED  BY <2>1, <2>2
<1>9. ASSUME NEW k \in 1 .. n - i PROVE State!Ids(ms)[k] = State!Ids(messages)[i + k]
  <2>1. State!Ids(ms)[k] = ms[k].id  BY <1>6, <1>7, IdOf
  <2>2. i + k \in 1 .. n  BY <1>4
  <2> QED  BY <2>1, <2>2, <1>5, <1>8
<1>10. ASSUME NEW k \in 1 .. i PROVE State!Ids(messages)[k] \in dropped'
  <2>1. PICK gone \in Seq(Says) : gone = SubSeq(messages, 1, i)
    <3>1. \A j \in 1 .. i : messages[j] \in Says
      <4> HIDE DEF Says
      <4> QED  BY <1>2, <1>3, <1>4
    <3>2. 1 \in Int /\ i \in Int  BY <1>4
    <3> QED  BY <3>1, <3>2, SubSeqProperties, Zenon
  <2>2. Len(gone) = i  BY <1>2, <1>3, <1>4, <2>1, SubSeqProperties
  <2>3. gone[k] = messages[k]
    <3>1. gone[k] = messages[1 + k - 1]  BY <1>2, <1>3, <1>4, <2>1, SubSeqProperties
    <3>2. 1 + k - 1 = k  OBVIOUS
    <3> QED  BY <3>1, <3>2
  <2>4. State!Ids(gone)[k] = gone[k].id /\ k \in DOMAIN State!Ids(gone)  BY <2>1, <2>2, IdOf
  <2>5. State!Ids(gone)[k] \in State!ToSet(State!Ids(gone))  BY <2>4 DEF State!ToSet
  <2>6. State!Ids(messages)[k] = messages[k].id  BY <1>4, <1>5
  <2> QED  BY <1>1, <2>1, <2>3, <2>4, <2>5, <2>6
<1>11. messages' = ms /\ dropped \subseteq dropped'  BY <1>1, <1>6
<1>12. StateTyped'
  <2>1. ASSUME NEW k \in 1 .. n - i PROVE ms[k].sid <= Len(contexts) /\ ms[k].createdAt <= clock
    <3>1. i + k \in 1 .. n  BY <1>4
    <3> QED  BY <3>1, <1>3, <1>8 DEF StateIInv, StateTyped
  <2> QED  BY <2>1, <1>1, <1>6, <1>7, <1>11 DEF StateIInv, StateTyped
<1>13. InOrder'
  <2>1. ASSUME NEW k \in 1 .. n - i
        PROVE ms[k].id <= turns /\ (answer # State!NoAnswer => ms[k].id < answer.id)
    <3>1. i + k \in 1 .. n  BY <1>4
    <3> QED  BY <3>1, <1>3, <1>8 DEF StateIInv, InOrder
  <2>2. ASSUME NEW k \in 1 .. n - i, NEW j \in 1 .. n - i, k < j PROVE ms[k].id < ms[j].id
    <3>1. i + k \in 1 .. n /\ i + j \in 1 .. n /\ i + k < i + j  BY <1>4, <2>2
    <3>2. messages[i + k].id < messages[i + j].id  BY <3>1, <1>3 DEF StateIInv, InOrder
    <3> QED  BY <3>2, <1>8
  <2>3. answer # State!NoAnswer => answer.id \in 1 .. turns  BY DEF StateIInv, InOrder
  <2> QED  BY <2>1, <2>2, <2>3, <1>1, <1>7, <1>11 DEF InOrder
<1>14. ASSUME NEW m, m.sid # 0 => m.sid \in 1 .. Len(contexts), NEW j \in i .. n, NEW more \in Nat,
              Behind(m, State!Ids(messages), j, more, contexts, dropped)
       PROVE  Behind(m, State!Ids(ms), j - i, more, contexts, dropped')
  <2>1. SUFFICES ASSUME m.sid # 0 PROVE Behind(m, State!Ids(ms), j - i, more, contexts, dropped')  BY DEF Behind
  <2>2. PICK q \in Seq(1 .. MaxAsks) : q = contexts[m.sid].holds
    <3>1. contexts[m.sid] \in Contexts  BY <1>14, <2>1 DEF StateIInv, StateTyped
    <3> QED  BY <3>1 DEF Contexts
  <2>3. EndsWith(q, State!Ids(messages), j, more, dropped)  BY <1>14, <2>1, <2>2 DEF Behind
  <2>4. j \in Nat /\ i \in 0 .. j /\ Len(q) \in Nat  BY <1>4, <1>14, <2>2
  <2>5. \A k \in 1 .. j - i : State!Ids(ms)[k] = State!Ids(messages)[i + k]
    <3> TAKE k \in 1 .. j - i
    <3>1. k \in 1 .. n - i  BY <1>4, <1>14
    <3> QED  BY <3>1, <1>9
  <2>6. EndsWith(q, State!Ids(ms), j - i, more, dropped')
    BY <2>3, <2>4, <2>5, <1>10, <1>11, <1>14, EndsShortened, Zenon
  <2> QED  BY <1>14, <2>1, <2>2, <2>6 DEF Behind
<1>15. BehindIds'
  <2>1. ASSUME NEW k \in 1 .. n - i PROVE Behind(ms[k], State!Ids(ms), k, 0, contexts, dropped')
    <3>1. i + k \in 1 .. n /\ i + k \in i .. n /\ i + k - i = k  BY <1>4
    <3>2. Behind(messages[i + k], State!Ids(messages), i + k, 0, contexts, dropped)
      BY <3>1, <1>3 DEF StateIInv, BehindIds
    <3>3. messages[i + k].sid # 0 => messages[i + k].sid \in 1 .. Len(contexts)
      <4>1. messages[i + k] \in Says  BY <3>1, <1>2, <1>3
      <4>2. messages[i + k].sid \in Nat  BY <4>1 DEF Says
      <4>3. messages[i + k].sid <= Len(contexts)  BY <3>1, <1>3 DEF StateIInv, StateTyped
      <4> QED  BY <4>2, <4>3
    <3>4. Behind(messages[i + k], State!Ids(ms), i + k - i, 0, contexts, dropped')
      BY <3>1, <3>2, <3>3, <1>14
    <3> QED  BY <3>1, <3>4, <1>8
  <2>2. Behind(answer, State!Ids(ms), n - i, 1, contexts, dropped')
    <3>1. Behind(answer, State!Ids(messages), n, 1, contexts, dropped)  BY <1>3 DEF StateIInv, BehindIds
    <3>2. answer.sid # 0 => answer.sid \in 1 .. Len(contexts)
      <4>1. answer.sid \in Nat /\ answer.sid <= Len(contexts)  BY DEF StateIInv, StateTyped, Replies
      <4> QED  BY <4>1
    <3>3. n \in i .. n  BY <1>4
    <3> QED  BY <3>1, <3>2, <3>3, <1>14
  <2>3. answer.sid # 0 => contexts[answer.sid].holds[Len(contexts[answer.sid].holds)] = answer.id
    BY DEF StateIInv, BehindIds
  <2> QED  BY <2>1, <2>2, <2>3, <1>1, <1>7, <1>11 DEF BehindIds
<1>16. Heard'
  <2>1. reads.transcript \in Seq(1 .. MaxAsks)  BY DEF StateIInv, StateTyped
  <2>2. Len(reads.transcript) \in Nat  BY <2>1
  <2>3. EndsWith(reads.all, reads.transcript, Len(reads.transcript), 0, dropped)  BY DEF StateIInv, Heard
  <2>4. EndsWith(reads.all, reads.transcript, Len(reads.transcript), 0, dropped')  BY <2>2, <2>3, <1>11 DEF EndsWith
  <2> QED  BY <2>4, <1>1 DEF StateIInv, Heard
<1>17. State!RefusedOnlyLate'  BY <1>1 DEF StateIInv, State!RefusedOnlyLate
<1> QED  BY <1>12, <1>13, <1>15, <1>16, <1>17 DEF StateIInv

\* A set of places in a transcript has a last one.
LEMMA LastIsIn ==
    ASSUME NEW n \in Nat, NEW S \in SUBSET (0 .. n), S # {}
    PROVE  State!Max(S) \in S
<1> DEFINE Mirror == {n - i : i \in S}
<1>1. Mirror \in SUBSET Nat /\ Mirror # {}
  <2>1. \A i \in S : i \in 0 .. n /\ n - i \in Nat  OBVIOUS
  <2> QED  BY <2>1
<1>2. PICK m \in Mirror : \A k \in Mirror : m <= k
  <2> HIDE DEF Mirror
  <2> QED  BY <1>1, LeastOf
<1>3. PICK i \in S : m = n - i  BY <1>2
<1>4. \A j \in S : i >= j
  <2> TAKE j \in S
  <2>1. n - j \in Mirror  OBVIOUS
  <2>2. n - i <= n - j  BY <1>2, <1>3, <2>1
  <2> QED  BY <2>2
<1> QED  BY <1>4 DEF State!Max

\* What a call sends (resolve_server_state): all of it, or an id of a message of the transcript and what is after it.
LEMMA DecisionIs ==
    ASSUME StateTyped, NEW m, NEW stateful \in BOOLEAN, NEW d, d = State!Decision(m, stateful)
    PROVE  \/ d.sid = 0 /\ d.sent = messages
           \/ \E i \in 1 .. Len(messages) :
                 /\ d.sid = messages[i].sid /\ messages[i].sid # 0
                 /\ d.sent = SubSeq(messages, i + 1, Len(messages))
                 /\ State!MayContinue(m, messages[i].by) /\ ~ State!Lapsed(m[1], messages[i].createdAt)
<1> DEFINE S == {0} \cup {k \in DOMAIN messages : messages[k].role = "assistant" /\ messages[k].sid # 0}
           i == State!LastStated
<1>1. messages \in Seq(Says) /\ Len(messages) \in Nat /\ DOMAIN messages = 1 .. Len(messages)  BY DEF StateTyped
<1>2. S \in SUBSET (0 .. Len(messages)) /\ S # {}  BY <1>1
<1>3. i \in S
  <2>1. i = State!Max(S)  BY DEF State!LastStated
  <2> HIDE DEF S, i
  <2> QED  BY <2>1, <1>1, <1>2, LastIsIn
<1>4. i # 0 => i \in 1 .. Len(messages) /\ messages[i].sid # 0  BY <1>1, <1>3
<1>5. \/ d = State!Full
      \/ /\ i # 0 /\ d = [sid |-> messages[i].sid, sent |-> State!After(i)]
         /\ State!MayContinue(m, messages[i].by) /\ ~ State!Lapsed(m[1], messages[i].createdAt)
  <2>1. d = IF /\ stateful /\ i # 0
               /\ State!MayContinue(m, messages[i].by)
               /\ ~ State!Lapsed(m[1], messages[i].createdAt)
               /\ State!After(i) # <<>>
            THEN [sid |-> messages[i].sid, sent |-> State!After(i)]
            ELSE State!Full
    BY DEF State!Decision
  <2> HIDE DEF i
  <2> QED  BY <2>1, Zenon
<1> HIDE DEF i
<1>6. CASE d = State!Full  BY <1>6 DEF State!Full
<1>7. CASE d # State!Full
  <2>1. i \in 1 .. Len(messages) /\ messages[i].sid # 0  BY <1>4, <1>5, <1>7
  <2>2. d.sid = messages[i].sid /\ d.sent = SubSeq(messages, i + 1, Len(messages))  BY <1>5, <1>7 DEF State!After
  <2> QED  BY <2>1, <2>2, <1>5, <1>7
<1> QED  BY <1>6, <1>7

\* Whose id it is, and from when: it is refused only for its age, and only if it was stamped late.
LEMMA RefusedLate ==
    ASSUME StateSizes, StateIInv, NEW m \in Models, NEW i \in 1 .. Len(messages), messages[i].sid # 0,
           State!MayContinue(m, messages[i].by), ~ State!Lapsed(m[1], messages[i].createdAt),
           NEW why \in State!Refusal(m, messages[i].sid)
    PROVE  why = "lapsed" /\ messages[i].createdAt > contexts[messages[i].sid].at
<1> DEFINE c == contexts[messages[i].sid]
<1>1. messages[i] \in Says /\ messages[i].sid \in 1 .. Len(contexts)
  <2>1. messages[i] \in Says  BY DEF StateIInv, StateTyped
  <2>2. messages[i].sid <= Len(contexts)  BY DEF StateIInv, StateTyped
  <2> QED  BY <2>1, <2>2 DEF Says
<1>2. c \in Contexts  BY <1>1 DEF StateIInv, StateTyped
<1>3. c.by = messages[i].by
  <2>1. Behind(messages[i], State!Ids(messages), i, 0, contexts, dropped)  BY DEF StateIInv, BehindIds
  <2> QED  BY <2>1 DEF Behind
<1>4. c.by \in Models /\ c.at \in 0 .. MaxAge  BY <1>2 DEF Contexts
<1>5. messages[i].createdAt \in 0 .. MaxAge /\ clock \in 0 .. MaxAge  BY <1>1 DEF Says, StateIInv, StateTyped
<1> HIDE DEF c
<1>6. PICK p \in Hosts, n \in Names : m = <<p, n>>  BY DEF StateSizes
<1>7. PICK r \in Hosts, s \in Names : c.by = <<r, s>>  BY <1>4 DEF StateSizes
<1>8. r = p /\ (p \in BoundTo => s = n)  BY <1>3, <1>6, <1>7 DEF State!MayContinue
<1>9. /\ why \in {"foreign", "model", "lapsed"}
      /\ why = "foreign" => c.by[1] # m[1]
      /\ why = "model" => m[1] \in BoundTo /\ c.by # m
      /\ why = "lapsed" => State!Lapsed(c.by[1], c.at)
  <2> DEFINE Says_(w) == CASE w = "foreign" -> c.by[1] # m[1]
                           [] w = "model" -> m[1] \in BoundTo /\ c.by # m
                           [] w = "lapsed" -> State!Lapsed(c.by[1], c.at)
  <2>1. State!Refusal(m, messages[i].sid) = {w \in {"foreign", "model", "lapsed"} : Says_(w)}
    BY DEF State!Refusal, c
  <2>2. why \in {"foreign", "model", "lapsed"} /\ Says_(why)
    <3> HIDE DEF Says_
    <3> QED  BY <2>1
  <2>3. why = "foreign" => c.by[1] # m[1]  BY <2>2
  <2>4. why = "model" => m[1] \in BoundTo /\ c.by # m  BY <2>2
  <2>5. why = "lapsed" => State!Lapsed(c.by[1], c.at)  BY <2>2
  <2> QED  BY <2>2, <2>3, <2>4, <2>5
<1>10. c.by[1] = m[1] /\ (m[1] \in BoundTo => c.by = m)  BY <1>6, <1>7, <1>8
<1>11. why # "foreign" /\ why # "model"  BY <1>9, <1>10
<1>12. why = "lapsed" /\ State!Lapsed(p, c.at)  BY <1>7, <1>8, <1>9, <1>11
<1>13. Retention[p] # Forever /\ clock - c.at > Retention[p] /\ Retention[p] \in Int
  BY <1>12, <1>6 DEF State!Lapsed, StateSizes
<1>14. ~ (clock - messages[i].createdAt > Retention[p])  BY <1>6, <1>13 DEF State!Lapsed
<1>15. MaxAge \in Nat  BY DEF StateSizes
<1>16. messages[i].createdAt > c.at  BY <1>4, <1>5, <1>13, <1>14, <1>15
<1> QED  BY <1>12, <1>16 DEF c

\* What a provider is to read: as long as it takes, in order, and with the transcript at its end.
Reading(all) ==
    /\ all \in Seq(1 .. MaxAsks) /\ Ascending(all)
    /\ EndsWith(all, State!Ids(messages), Len(messages), 0, dropped)
    /\ \A k \in 1 .. Len(all) : all[k] <= turns

\* All of the transcript is.
LEMMA ReadsAll == ASSUME StateIInv PROVE Reading(State!Ids(messages))
<1>1. messages \in Seq(Says)  BY DEF StateIInv, StateTyped
<1>2. PICK p \in Seq(1 .. MaxAsks) : p = State!Ids(messages)  BY <1>1, IdOf
<1>3. Len(p) = Len(messages) /\ Len(p) \in Nat /\ \A i \in 1 .. Len(p) : p[i] = messages[i].id  BY <1>1, <1>2, IdOf
<1>4. Ascending(p)  BY <1>3 DEF StateIInv, InOrder, Ascending
<1>5. \A k \in 1 .. Len(p) : p[k] <= turns  BY <1>3 DEF StateIInv, InOrder
<1>6. EndsWith(p, p, Len(p), 0, dropped)
  <2>1. \A k \in 1 .. Len(p) : Len(p) - 0 - Len(p) + k = k  BY <1>3
  <2>2. 1 .. Len(p) - 0 - Len(p) = {}  BY <1>3
  <2>3. Len(p) + 0 <= Len(p)  BY <1>3
  <2> QED  BY <2>1, <2>2, <2>3 DEF EndsWith
<1> QED  BY <1>2, <1>3, <1>4, <1>5, <1>6 DEF Reading

\* What is behind an id, and what was said after it, is too.
LEMMA ReadsOn ==
    ASSUME StateIInv, NEW i \in 1 .. Len(messages), messages[i].sid # 0
    PROVE  Reading(contexts[messages[i].sid].holds \o State!Ids(SubSeq(messages, i + 1, Len(messages))))
<1>1. messages \in Seq(Says) /\ messages[i] \in Says /\ messages[i].sid \in 1 .. Len(contexts)
  <2>1. messages \in Seq(Says) /\ messages[i] \in Says  BY DEF StateIInv, StateTyped
  <2>2. messages[i].sid <= Len(contexts)  BY DEF StateIInv, StateTyped
  <2>3. messages[i].sid \in Nat  BY <2>1 DEF Says
  <2> QED  BY <2>1, <2>2, <2>3
<1>2. PICK n \in Nat : n = Len(messages)  BY <1>1
<1>3. i \in 1 .. n  BY <1>2
<1>4. PICK q \in Seq(1 .. MaxAsks) : q = contexts[messages[i].sid].holds
  <2>1. contexts[messages[i].sid] \in Contexts  BY <1>1 DEF StateIInv, StateTyped
  <2> QED  BY <2>1 DEF Contexts
<1>5. Ascending(q) /\ EndsWith(q, State!Ids(messages), i, 0, dropped)
  <2>1. Behind(messages[i], State!Ids(messages), i, 0, contexts, dropped)  BY DEF StateIInv, BehindIds
  <2> QED  BY <2>1, <1>4 DEF Behind
<1>6. PICK l \in Nat : l = Len(q)  BY <1>4
<1>7. /\ i <= l
      /\ \A k \in 1 .. i : q[l - i + k] = messages[k].id
      /\ \A k \in 1 .. l - i : q[k] \in dropped
  <2>1. \A k \in 1 .. i : State!Ids(messages)[k] = messages[k].id  BY <1>1, <1>2, <1>3, IdOf
  <2>2. \A k \in 1 .. i : q[l - 0 - i + k] = State!Ids(messages)[k]  BY <1>5, <1>6 DEF EndsWith
  <2>3. \A k \in 1 .. l - 0 - i : q[k] \in dropped  BY <1>5, <1>6 DEF EndsWith
  <2>4. i + 0 <= l  BY <1>5, <1>6 DEF EndsWith
  <2>5. l - 0 - i = l - i  BY <1>3
  <2> QED  BY <2>1, <2>2, <2>3, <2>4, <2>5
<1>8. PICK rest \in Seq(Says) : rest = SubSeq(messages, i + 1, n)
  <2>1. \A k \in i + 1 .. n : messages[k] \in Says
    <3> HIDE DEF Says
    <3> QED  BY <1>1, <1>2, <1>3
  <2>2. i + 1 \in Int /\ n \in Int  BY <1>3
  <2> QED  BY <2>1, <2>2, SubSeqProperties, Zenon
<1>9. Len(rest) = n - i
  <2>1. Len(rest) = IF i + 1 <= n THEN n - (i + 1) + 1 ELSE 0
    <3>1. \A k \in i + 1 .. n : messages[k] \in Says
      <4> HIDE DEF Says
      <4> QED  BY <1>1, <1>2, <1>3
    <3>2. i + 1 \in Int /\ n \in Int  BY <1>3
    <3> QED  BY <3>1, <3>2, <1>8, SubSeqProperties
  <2> QED  BY <2>1, <1>3
<1>10. \A k \in 1 .. n - i : rest[k] = messages[i + k]
  <2> TAKE k \in 1 .. n - i
  <2>1. rest[k] = messages[i + 1 + k - 1]
    <3>1. \A j \in i + 1 .. n : messages[j] \in Says
      <4> HIDE DEF Says
      <4> QED  BY <1>1, <1>2, <1>3
    <3>2. i + 1 \in Int /\ n \in Int /\ k \in 1 .. n - (i + 1) + 1  BY <1>3
    <3> QED  BY <3>1, <3>2, <1>8, SubSeqProperties
  <2>2. i + 1 + k - 1 = i + k  BY <1>3
  <2> QED  BY <2>1, <2>2
<1>11. PICK s \in Seq(1 .. MaxAsks) : s = State!Ids(rest)  BY <1>8, IdOf
<1>12. Len(s) = n - i /\ \A k \in 1 .. n - i : s[k] = messages[i + k].id
  <2>1. Len(s) = n - i  BY <1>8, <1>9, <1>11, IdOf
  <2>2. \A k \in 1 .. n - i : s[k] = rest[k].id  BY <1>8, <1>9, <1>11, IdOf
  <2> QED  BY <2>1, <2>2, <1>10
<1>13. PICK all \in Seq(1 .. MaxAsks) : all = q \o s
  <2> DEFINE T == 1 .. MaxAsks
  <2>1. q \in Seq(T) /\ s \in Seq(T)  BY <1>4, <1>11
  <2>2. q \o s \in Seq(T)
    <3> HIDE DEF T
    <3> QED  BY <2>1
  <2> QED  BY <2>2
<1>14. /\ Len(all) = l + (n - i)
       /\ \A k \in 1 .. l : all[k] = q[k]
       /\ \A k \in 1 .. n - i : all[l + k] = messages[i + k].id
  <2> DEFINE T == 1 .. MaxAsks
  <2>6. q \in Seq(T) /\ s \in Seq(T)  BY <1>4, <1>11
  <2> HIDE DEF T
  <2>4. n - i \in Nat  BY <1>3
  <2>1. Len(all) = l + (n - i)
    <3>1. Len(q \o s) = Len(q) + Len(s)  BY <2>6, ConcatProperties
    <3> QED  BY <3>1, <1>6, <1>12, <1>13
  <2>5. \A k \in 1 .. l + (n - i) : all[k] = IF k <= l THEN q[k] ELSE s[k - l]
    <3>1. \A k \in 1 .. Len(q) + Len(s) : (q \o s)[k] = IF k <= Len(q) THEN q[k] ELSE s[k - Len(q)]
      BY <2>6, ConcatProperties
    <3> QED  BY <3>1, <1>6, <1>12, <1>13
  <2>2. \A k \in 1 .. l : all[k] = q[k]
    <3> TAKE k \in 1 .. l
    <3>1. k \in 1 .. l + (n - i) /\ k <= l  BY <2>4
    <3> QED  BY <3>1, <2>5
  <2>3. \A k \in 1 .. n - i : all[l + k] = s[k]
    <3> TAKE k \in 1 .. n - i
    <3>1. l + k \in 1 .. l + (n - i) /\ ~ (l + k <= l) /\ l + k - l = k  BY <2>4
    <3> QED  BY <3>1, <2>5
  <2> QED  BY <2>1, <2>2, <2>3, <1>12
<1>15. \A k \in 1 .. n : messages[k].id \in Nat /\ messages[k].id <= turns
  <2> TAKE k \in 1 .. n
  <2>1. messages[k] \in Says  BY <1>1, <1>2
  <2> QED  BY <2>1, <1>2 DEF Says, StateIInv, InOrder
<1>16. \A k \in 1 .. l : q[k] \in Nat /\ q[k] <= messages[i].id
  <2> TAKE k \in 1 .. l
  <2>1. q[k] \in Nat /\ q[l] \in Nat
    <3>1. l \in 1 .. l  OBVIOUS
    <3>2. \A j \in 1 .. l : q[j] \in 1 .. MaxAsks
      <4> DEFINE T == 1 .. MaxAsks
      <4>1. q \in Seq(T)  BY <1>4
      <4>2. \A j \in 1 .. l : q[j] \in T
        <5> HIDE DEF T
        <5> QED  BY <4>1, <1>6
      <4> QED  BY <4>2
    <3>3. q[k] \in 1 .. MaxAsks /\ q[l] \in 1 .. MaxAsks  BY <3>1, <3>2
    <3> QED  BY <3>3
  <2>2. q[l] = messages[i].id
    <3>1. i \in 1 .. i /\ l - i + i = l  BY <1>3
    <3> QED  BY <3>1, <1>7
  <2>3. k = l \/ q[k] < q[l]
    <3>1. k = l \/ k < l  OBVIOUS
    <3> QED  BY <3>1, <1>5, <1>6 DEF Ascending
  <2> QED  BY <2>1, <2>2, <2>3
<1>17. \A j, k \in 1 .. n : j < k => messages[j].id < messages[k].id  BY <1>2 DEF StateIInv, InOrder
<1>18. Ascending(all)
  <2> SUFFICES ASSUME NEW j \in 1 .. Len(all), NEW k \in 1 .. Len(all), j < k PROVE all[j] < all[k]  BY DEF Ascending
  <2>1. CASE j <= l /\ k <= l
    <3>1. j \in 1 .. l /\ k \in 1 .. l  BY <2>1, <1>14
    <3>2. q[j] < q[k]  BY <3>1, <1>5, <1>6 DEF Ascending
    <3> QED  BY <3>1, <3>2, <1>14
  <2>2. CASE j <= l /\ ~ (k <= l)
    <3>1. j \in 1 .. l /\ k - l \in 1 .. n - i /\ l + (k - l) = k /\ i + (k - l) \in 1 .. n /\ i < i + (k - l)
      BY <2>2, <1>3, <1>14
    <3>2. all[k] = messages[i + (k - l)].id  BY <3>1, <1>14
    <3>3. messages[i].id < messages[i + (k - l)].id  BY <3>1, <1>3, <1>17
    <3>4. all[j] = q[j] /\ q[j] <= messages[i].id /\ q[j] \in Nat  BY <3>1, <1>14, <1>16
    <3>5. PICK u \in Nat : u = messages[i].id  BY <1>3, <1>15
    <3>6. PICK v \in Nat : v = messages[i + (k - l)].id  BY <3>1, <1>15
    <3>7. u < v /\ all[j] = q[j] /\ q[j] <= u /\ q[j] \in Nat /\ all[k] = v  BY <3>2, <3>3, <3>4, <3>5, <3>6
    <3> QED  BY <3>7
  <2>3. CASE ~ (j <= l)
    <3>1. /\ j - l \in 1 .. n - i /\ l + (j - l) = j /\ i + (j - l) \in 1 .. n
          /\ k - l \in 1 .. n - i /\ l + (k - l) = k /\ i + (k - l) \in 1 .. n /\ i + (j - l) < i + (k - l)
      BY <2>3, <1>3, <1>14
    <3>2. all[j] = messages[i + (j - l)].id /\ all[k] = messages[i + (k - l)].id  BY <3>1, <1>14
    <3>3. messages[i + (j - l)].id < messages[i + (k - l)].id  BY <3>1, <1>17
    <3> QED  BY <3>2, <3>3
  <2> QED  BY <2>1, <2>2, <2>3
<1>19. ASSUME NEW k \in 1 .. Len(all) PROVE all[k] <= turns
  <2>1. turns \in Nat  BY DEF StateIInv, StateTyped
  <2>2. CASE k <= l
    <3>1. k \in 1 .. l  BY <2>2
    <3>2. all[k] \in Nat /\ all[k] <= messages[i].id  BY <3>1, <1>14, <1>16
    <3>3. messages[i].id \in Nat /\ messages[i].id <= turns  BY <1>3, <1>15
    <3> QED  BY <3>2, <3>3, <2>1
  <2>3. CASE ~ (k <= l)
    <3>1. k - l \in 1 .. n - i /\ l + (k - l) = k /\ i + (k - l) \in 1 .. n  BY <2>3, <1>3, <1>14
    <3>2. all[k] = messages[i + (k - l)].id  BY <3>1, <1>14
    <3> QED  BY <3>1, <3>2, <1>15
  <2> QED  BY <2>2, <2>3
<1>20. EndsWith(all, State!Ids(messages), n, 0, dropped)
  <2>1. ASSUME NEW k \in 1 .. n PROVE all[Len(all) - 0 - n + k] = State!Ids(messages)[k]
    <3>1. Len(all) - 0 - n + k = l - i + k  BY <1>3, <1>14
    <3>2. State!Ids(messages)[k] = messages[k].id  BY <1>1, <1>2, IdOf
    <3>3. CASE k <= i
      <4>1. k \in 1 .. i /\ l - i + k \in 1 .. l  BY <3>3, <1>3, <1>7
      <4>2. all[l - i + k] = q[l - i + k]  BY <4>1, <1>14
      <4>3. q[l - i + k] = messages[k].id  BY <4>1, <1>7
      <4> QED  BY <4>2, <4>3, <3>1, <3>2
    <3>4. CASE ~ (k <= i)
      <4>1. k - i \in 1 .. n - i /\ l + (k - i) = l - i + k /\ i + (k - i) = k  BY <3>4, <1>3
      <4>2. all[l + (k - i)] = messages[i + (k - i)].id  BY <4>1, <1>14
      <4> QED  BY <4>1, <4>2, <3>1, <3>2
    <3> QED  BY <3>3, <3>4
  <2>2. ASSUME NEW k \in 1 .. Len(all) - 0 - n PROVE all[k] \in dropped
    <3>1. k \in 1 .. l - i /\ k \in 1 .. l  BY <1>3, <1>14
    <3> QED  BY <3>1, <1>7, <1>14
  <2>3. n + 0 <= Len(all)  BY <1>3, <1>7, <1>14
  <2> QED  BY <2>1, <2>2, <2>3 DEF EndsWith
<1>21. Reading(all)  BY <1>2, <1>18, <1>19, <1>20 DEF Reading
<1> QED  BY <1>2, <1>4, <1>8, <1>11, <1>13, <1>21

\* A call: what is behind the answer's id is what was read, and the answer (LLMClient._apply_server_state).
LEMMA AskKeeps ==
    ASSUME StateSizes, NEW m \in Models, NEW stateful \in BOOLEAN PROVE StateIInv /\ State!Ask(m, stateful) => StateIInv'
<1> SUFFICES ASSUME StateIInv, State!Ask(m, stateful) PROVE StateIInv'  OBVIOUS
<1>1. PICK d : d = State!Decision(m, stateful)  OBVIOUS
<1>2. PICK all : all = (IF d.sid = 0 THEN <<>> ELSE contexts[d.sid].holds) \o State!Ids(d.sent)  OBVIOUS
<1>3. /\ messages # <<>> /\ turns < MaxAsks /\ UNCHANGED <<messages, clock, dropped>>
      /\ IF State!Refusal(m, d.sid) # {}
         THEN /\ denied' = denied \cup {[why |-> why, late |-> \E i \in DOMAIN messages :
                                           messages[i].sid = d.sid /\ messages[i].createdAt > contexts[d.sid].at]
                                         : why \in State!Refusal(m, d.sid)}
              /\ UNCHANGED <<answer, contexts, turns, reads>>
         ELSE /\ turns' = turns + 1
              /\ contexts' = IF m \notin Supports THEN contexts
                             ELSE Append(contexts, [by |-> m, holds |-> Append(all, turns'), at |-> clock])
              /\ answer' = [id |-> turns', by |-> m, sid |-> IF m \in Supports THEN Len(contexts') ELSE 0]
              /\ reads' = [all |-> all, transcript |-> State!Ids(messages)]
              /\ UNCHANGED denied
  BY <1>1, <1>2 DEF State!Ask
<1>4. \/ d.sid = 0 /\ d.sent = messages
      \/ \E i \in 1 .. Len(messages) :
            /\ d.sid = messages[i].sid /\ messages[i].sid # 0
            /\ d.sent = SubSeq(messages, i + 1, Len(messages))
            /\ State!MayContinue(m, messages[i].by) /\ ~ State!Lapsed(m[1], messages[i].createdAt)
  BY <1>1, DecisionIs DEF StateIInv
<1>5. CASE State!Refusal(m, d.sid) # {}
  <2>1. d.sid # 0  BY <1>5 DEF State!Refusal
  <2>2. PICK i \in 1 .. Len(messages) :
            /\ d.sid = messages[i].sid /\ messages[i].sid # 0
            /\ State!MayContinue(m, messages[i].by) /\ ~ State!Lapsed(m[1], messages[i].createdAt)
    BY <2>1, <1>4
  <2>3. \A why \in State!Refusal(m, d.sid) : why = "lapsed" /\ messages[i].createdAt > contexts[d.sid].at
    <3> TAKE why \in State!Refusal(m, d.sid)
    <3>1. why \in State!Refusal(m, messages[i].sid)  BY <2>2
    <3>2. why = "lapsed" /\ messages[i].createdAt > contexts[messages[i].sid].at  BY <2>2, <3>1, RefusedLate
    <3> QED  BY <2>2, <3>2
  <2>4. i \in DOMAIN messages
    <3>1. messages \in Seq(Says)  BY DEF StateIInv, StateTyped
    <3>2. DOMAIN messages = 1 .. Len(messages)  BY <3>1
    <3> QED  BY <3>2
  <2>5. ASSUME NEW r \in denied' PROVE r.why = "lapsed" /\ r.late
    <3>1. CASE r \in denied  BY <3>1 DEF StateIInv, State!RefusedOnlyLate
    <3>2. CASE r \notin denied
      <4>1. PICK why \in State!Refusal(m, d.sid) :
                r = [why |-> why, late |-> \E k \in DOMAIN messages :
                                              messages[k].sid = d.sid /\ messages[k].createdAt > contexts[d.sid].at]
        BY <3>2, <1>3, <1>5
      <4>2. r.why = why  BY <4>1
      <4>3. r.late = \E k \in DOMAIN messages :
                        messages[k].sid = d.sid /\ messages[k].createdAt > contexts[d.sid].at
        BY <4>1
      <4> QED  BY <4>2, <4>3, <2>2, <2>3, <2>4
    <3> QED  BY <3>1, <3>2
  <2>6. UNCHANGED <<messages, answer, contexts, turns, clock, dropped, reads>>  BY <1>3, <1>5
  <2> QED  BY <2>5, <2>6 DEF StateIInv, StateTyped, InOrder, BehindIds, Heard, State!RefusedOnlyLate
<1>6. CASE State!Refusal(m, d.sid) = {}
  <2>1. /\ turns' = turns + 1 /\ UNCHANGED <<messages, clock, dropped, denied>>
        /\ contexts' = IF m \notin Supports THEN contexts
                       ELSE Append(contexts, [by |-> m, holds |-> Append(all, turns'), at |-> clock])
        /\ answer' = [id |-> turns', by |-> m, sid |-> IF m \in Supports THEN Len(contexts') ELSE 0]
        /\ reads'.all = all /\ reads'.transcript = State!Ids(messages)
    BY <1>3, <1>6
  <2>2. Reading(all)
    <3>1. CASE d.sid = 0 /\ d.sent = messages
      <4>1. messages \in Seq(Says)  BY DEF StateIInv, StateTyped
      <4>2. PICK p \in Seq(1 .. MaxAsks) : p = State!Ids(messages)  BY <4>1, IdOf
      <4>3. <<>> \o p = p
        <5> DEFINE T == 1 .. MaxAsks
        <5>1. p \in Seq(T)  OBVIOUS
        <5> HIDE DEF T
        <5> QED  BY <5>1, ConcatEmptySeq
      <4> QED  BY <4>2, <4>3, <3>1, <1>2, ReadsAll
    <3>2. CASE ~ (d.sid = 0 /\ d.sent = messages)
      <4>1. PICK i \in 1 .. Len(messages) :
                /\ d.sid = messages[i].sid /\ messages[i].sid # 0
                /\ d.sent = SubSeq(messages, i + 1, Len(messages))
        BY <3>2, <1>4
      <4> QED  BY <4>1, <1>2, ReadsOn
    <3> QED  BY <3>1, <3>2
  <2>3. /\ messages \in Seq(Says) /\ contexts \in Seq(Contexts) /\ clock \in 0 .. MaxAge /\ turns \in 0 .. MaxAsks
        /\ Len(messages) \in Nat /\ Len(contexts) \in Nat /\ Len(messages) >= 1
    <3>1. /\ messages \in Seq(Says) /\ contexts \in Seq(Contexts) /\ clock \in 0 .. MaxAge /\ turns \in 0 .. MaxAsks
      BY DEF StateIInv, StateTyped
    <3>2. Len(messages) \in Nat /\ Len(contexts) \in Nat  BY <3>1
    <3>3. Len(messages) # 0  BY <3>1, <1>3
    <3> QED  BY <3>1, <3>2, <3>3
  <2>4. turns' \in 1 .. MaxAsks /\ turns \in Nat /\ MaxAsks \in Nat  BY <2>1, <2>3, <1>3 DEF StateSizes
  <2>5. PICK q \in Seq(1 .. MaxAsks) : q = Append(all, turns')
    <3> DEFINE T == 1 .. MaxAsks
    <3>1. all \in Seq(T) /\ turns' \in T  BY <2>2, <2>4 DEF Reading
    <3>2. Append(all, turns') \in Seq(T)
      <4> HIDE DEF T
      <4> QED  BY <3>1
    <3> QED  BY <3>2
  <2>6. PICK l \in Nat : l = Len(all)
    <3>1. all \in Seq(1 .. MaxAsks)  BY <2>2 DEF Reading
    <3> QED  BY <3>1
  <2>7. Len(q) = l + 1 /\ q[l + 1] = turns' /\ \A k \in 1 .. l : q[k] = all[k] /\ all[k] \in Nat
    <3> DEFINE T == 1 .. MaxAsks
    <3>1. all \in Seq(T) /\ turns' \in T  BY <2>2, <2>4 DEF Reading
    <3>2. \A k \in T : k \in Nat  OBVIOUS
    <3> HIDE DEF T
    <3>3. Len(q) = l + 1 /\ q[l + 1] = turns' /\ \A k \in 1 .. l : q[k] = all[k] /\ all[k] \in T  BY <3>1, <2>5, <2>6
    <3> QED  BY <3>2, <3>3
  <2>8. Ascending(q)
    <3>1. \A j, k \in 1 .. l : j < k => all[j] < all[k]  BY <2>2, <2>6 DEF Reading, Ascending
    <3>2. \A k \in 1 .. l : all[k] < turns'
      <4> TAKE k \in 1 .. l
      <4>1. all[k] <= turns  BY <2>2, <2>6 DEF Reading
      <4>2. all[k] \in Nat  BY <2>7
      <4> QED  BY <4>1, <4>2, <2>1, <2>4
    <3>3. ASSUME NEW j \in 1 .. l + 1, NEW k \in 1 .. l + 1, j < k PROVE q[j] < q[k]
      <4>1. j \in 1 .. l  BY <3>3
      <4>2. CASE k \in 1 .. l  BY <4>1, <4>2, <3>1, <3>3, <2>7
      <4>3. CASE k = l + 1  BY <4>1, <4>3, <3>2, <2>7
      <4> QED  BY <4>2, <4>3
    <3> QED  BY <3>3, <2>7 DEF Ascending
  <2>9. EndsWith(all, State!Ids(messages), Len(messages), 0, dropped)  BY <2>2 DEF Reading
  <2>10. EndsWith(q, State!Ids(messages), Len(messages), 1, dropped)
    <3>1. Len(messages) + 1 <= Len(q)  BY <2>3, <2>6, <2>7, <2>9 DEF EndsWith
    <3>2. ASSUME NEW k \in 1 .. Len(messages) PROVE q[Len(q) - 1 - Len(messages) + k] = State!Ids(messages)[k]
      <4>1. all[l - 0 - Len(messages) + k] = State!Ids(messages)[k]  BY <2>6, <2>9 DEF EndsWith
      <4>2. l - 0 - Len(messages) + k = Len(q) - 1 - Len(messages) + k /\ l - 0 - Len(messages) + k \in 1 .. l
        BY <3>1, <2>3, <2>7
      <4> QED  BY <4>1, <4>2, <2>7
    <3>3. ASSUME NEW k \in 1 .. Len(q) - 1 - Len(messages) PROVE q[k] \in dropped
      <4>1. k \in 1 .. l - 0 - Len(messages) /\ k \in 1 .. l  BY <2>3, <2>7
      <4>2. all[k] \in dropped  BY <4>1, <2>6, <2>9 DEF EndsWith
      <4> QED  BY <4>1, <4>2, <2>7
    <3> QED  BY <3>1, <3>2, <3>3 DEF EndsWith
  <2> DEFINE c == [by |-> m, holds |-> q, at |-> clock]
             sid == IF m \in Supports THEN Len(contexts') ELSE 0
  <2>11. c \in Contexts /\ c.by = m /\ c.holds = q /\ c.at = clock  BY <2>3 DEF Contexts
  <2> HIDE DEF c
  <2>12. contexts' = IF m \notin Supports THEN contexts ELSE Append(contexts, c)  BY <2>1, <2>5 DEF c
  <2>13. /\ contexts' \in Seq(Contexts) /\ Len(contexts') >= Len(contexts) /\ Len(contexts') \in Nat
         /\ \A k \in 1 .. Len(contexts) : contexts'[k] = contexts[k]
         /\ m \in Supports => Len(contexts') # 0 /\ contexts'[Len(contexts')] = c
    <3> HIDE DEF Contexts
    <3>1. CASE m \notin Supports  BY <3>1, <2>3, <2>12
    <3>2. CASE m \in Supports
      <4>1. contexts' = Append(contexts, c)  BY <3>2, <2>12
      <4> QED  BY <4>1, <2>3, <2>11
    <3> QED  BY <3>1, <3>2
  <2>14. /\ answer'.id = turns' /\ answer'.by = m /\ answer'.sid = sid /\ sid \in Nat /\ sid <= Len(contexts')
         /\ answer' \in Replies
    <3>1. sid \in Nat /\ sid <= Len(contexts')  BY <2>13
    <3>2. answer' = [id |-> turns', by |-> m, sid |-> sid]  BY <2>1
    <3> HIDE DEF sid
    <3>3. turns' \in 0 .. MaxAsks  BY <2>4
    <3>4. answer'.id = turns' /\ answer'.by = m /\ answer'.sid = sid  BY <3>2
    <3>5. answer' \in Replies  BY <3>1, <3>2, <3>3 DEF Replies
    <3> QED  BY <3>1, <3>4, <3>5
  <2>15. sid # 0 => contexts'[sid] = c  BY <2>13
  <2> HIDE DEF sid
  <2>16. \A i \in 1 .. Len(messages) : messages[i].sid # 0 => messages[i].sid \in 1 .. Len(contexts)
    <3> TAKE i \in 1 .. Len(messages)
    <3>1. messages[i] \in Says /\ messages[i].sid <= Len(contexts)  BY DEF StateIInv, StateTyped
    <3>2. messages[i].sid \in Nat  BY <3>1 DEF Says
    <3> QED  BY <3>1, <3>2
  <2>17. StateTyped'
    <3>1. ASSUME NEW i \in 1 .. Len(messages) PROVE messages[i].sid <= Len(contexts') /\ messages[i].createdAt <= clock
      <4>1. messages[i] \in Says /\ messages[i].sid <= Len(contexts) /\ messages[i].createdAt <= clock
        BY DEF StateIInv, StateTyped
      <4>2. messages[i].sid \in Nat  BY <4>1 DEF Says
      <4> QED  BY <4>1, <4>2, <2>3, <2>13
    <3>2. reads'.all \in Seq(1 .. MaxAsks) /\ reads'.transcript \in Seq(1 .. MaxAsks)
      <4>1. all \in Seq(1 .. MaxAsks)  BY <2>2 DEF Reading
      <4>2. State!Ids(messages) \in Seq(1 .. MaxAsks)  BY <2>3, IdOf
      <4> QED  BY <4>1, <4>2, <2>1
    <3>3. turns' \in 0 .. MaxAsks  BY <2>4
    <3> QED  BY <3>1, <3>2, <3>3, <2>1, <2>3, <2>13, <2>14 DEF StateTyped
  <2>18. InOrder'
    <3>1. \A i \in 1 .. Len(messages) : messages[i].id \in Nat /\ messages[i].id <= turns
      <4> TAKE i \in 1 .. Len(messages)
      <4>1. messages[i] \in Says  BY <2>3
      <4> QED  BY <4>1 DEF Says, StateIInv, InOrder
    <3>2. \A i \in 1 .. Len(messages) : messages[i].id <= turns' /\ messages[i].id < turns'  BY <3>1, <2>1, <2>4
    <3>3. answer'.id \in 1 .. turns'  BY <2>4, <2>14
    <3>4. \A i, j \in 1 .. Len(messages) : i < j => messages[i].id < messages[j].id  BY DEF StateIInv, InOrder
    <3> QED  BY <3>2, <3>3, <3>4, <2>1, <2>14 DEF InOrder
  <2>19. BehindIds'
    <3>1. ASSUME NEW i \in 1 .. Len(messages)
          PROVE  Behind(messages[i], State!Ids(messages), i, 0, contexts', dropped)
      <4>1. Behind(messages[i], State!Ids(messages), i, 0, contexts, dropped)  BY DEF StateIInv, BehindIds
      <4>2. messages[i].sid # 0 => contexts'[messages[i].sid] = contexts[messages[i].sid]  BY <2>13, <2>16
      <4> QED  BY <4>1, <4>2 DEF Behind
    <3>2. Behind(answer', State!Ids(messages), Len(messages), 1, contexts', dropped)
      BY <2>8, <2>10, <2>11, <2>14, <2>15 DEF Behind
    <3>3. answer'.sid # 0 => contexts'[answer'.sid].holds[Len(contexts'[answer'.sid].holds)] = answer'.id
      BY <2>7, <2>11, <2>14, <2>15
    <3> QED  BY <3>1, <3>2, <3>3, <2>1 DEF BehindIds
  <2>20. Heard'
    <3>1. Len(State!Ids(messages)) = Len(messages)  BY <2>3, IdOf
    <3>2. Ascending(all)  BY <2>2 DEF Reading
    <3> QED  BY <3>1, <3>2, <2>1, <2>9 DEF Heard
  <2>21. State!RefusedOnlyLate'  BY <2>1 DEF StateIInv, State!RefusedOnlyLate
  <2> QED  BY <2>17, <2>18, <2>19, <2>20, <2>21 DEF StateIInv
<1> QED  BY <1>5, <1>6

\* Every step keeps it.
LEMMA StateKeeps == ASSUME StateSizes PROVE StateIInv /\ [State!Next]_State!stateVars => StateIInv'
<1> SUFFICES ASSUME StateIInv, [State!Next]_State!stateVars PROVE StateIInv'  OBVIOUS
<1>1. CASE State!Say  BY <1>1, SayKeeps
<1>2. CASE State!Tick  BY <1>2, TickKeeps
<1>3. ASSUME NEW m \in Models, NEW stateful \in BOOLEAN, State!Ask(m, stateful) PROVE StateIInv'  BY <1>3, AskKeeps
<1>4. ASSUME NEW stamped \in BOOLEAN, State!Keep(stamped) PROVE StateIInv'  BY <1>4, KeepKeeps
<1>5. ASSUME NEW i \in 1 .. Len(messages) - 1, State!Cut(i) PROVE StateIInv'  BY <1>5, CutKeeps
<1>6. CASE UNCHANGED State!stateVars
  BY <1>6 DEF State!stateVars, StateIInv, StateTyped, InOrder, BehindIds, Heard, State!RefusedOnlyLate
<1> QED  BY <1>1, <1>2, <1>3, <1>4, <1>5, <1>6 DEF State!Next

\* What a provider reads ends with the transcript (ServerState's ContextWhole, of sequences).
LEMMA StateSays == ASSUME StateSizes PROVE StateIInv => State!TypeOK /\ State!StateTrue
<1> SUFFICES ASSUME StateIInv PROVE State!TypeOK /\ State!StateTrue  OBVIOUS
<1>1. State!TypeOK
  <2>1. messages \in Seq(Says) /\ contexts \in Seq(Contexts) /\ turns \in 0 .. MaxAsks /\ clock \in 0 .. MaxAge
    BY DEF StateIInv, StateTyped
  <2>2. DOMAIN messages = 1 .. Len(messages) /\ DOMAIN contexts = 1 .. Len(contexts) /\ Len(contexts) \in Nat  BY <2>1
  <2>3. ASSUME NEW i \in DOMAIN messages
        PROVE  messages[i].sid \in 0 .. Len(contexts) /\ messages[i].createdAt \in 0 .. clock
    <3>1. messages[i] \in Says /\ messages[i].sid <= Len(contexts) /\ messages[i].createdAt <= clock
      BY <2>2 DEF StateIInv, StateTyped
    <3>2. messages[i].sid \in Nat /\ messages[i].createdAt \in 0 .. MaxAge  BY <3>1 DEF Says
    <3> QED  BY <3>1, <3>2, <2>1, <2>2
  <2>4. ASSUME NEW c \in State!ToSet(contexts) PROVE c.by \in Models
    <3>1. PICK k \in DOMAIN contexts : c = contexts[k]  BY DEF State!ToSet
    <3>2. contexts[k] \in Contexts  BY <3>1, <2>1, <2>2
    <3> QED  BY <3>1, <3>2 DEF Contexts
  <2> QED  BY <2>1, <2>3, <2>4 DEF State!TypeOK
<1>2. PICK q \in Seq(1 .. MaxAsks), p \in Seq(1 .. MaxAsks) : q = reads.all /\ p = reads.transcript
  BY DEF StateIInv, StateTyped
<1>3. PICK l \in Nat, n \in Nat : l = Len(q) /\ n = Len(p)  BY <1>2
<1>4. DOMAIN q = 1 .. l /\ DOMAIN p = 1 .. n  BY <1>2, <1>3
<1>5. Ascending(q) /\ EndsWith(q, p, n, 0, dropped)  BY <1>2, <1>3 DEF StateIInv, Heard
<1>6. /\ n <= l
      /\ \A k \in 1 .. n : q[l - n + k] = p[k]
      /\ \A k \in 1 .. l - n : q[k] \in dropped
  <2>1. n + 0 <= l /\ (\A k \in 1 .. n : q[l - 0 - n + k] = p[k]) /\ \A k \in 1 .. l - 0 - n : q[k] \in dropped
    BY <1>3, <1>5 DEF EndsWith
  <2>2. l - 0 - n = l - n  OBVIOUS
  <2> QED  BY <2>1, <2>2
<1>7. State!IsInjective(q)
  <2> SUFFICES ASSUME NEW a \in 1 .. l, NEW b \in 1 .. l, q[a] = q[b], a # b PROVE FALSE
    BY <1>4 DEF State!IsInjective
  <2>1. q[a] \in Nat /\ q[b] \in Nat
    <3> DEFINE T == 1 .. MaxAsks
    <3>1. q \in Seq(T) /\ \A k \in T : k \in Nat  BY <1>2
    <3>2. q[a] \in T /\ q[b] \in T
      <4> HIDE DEF T
      <4> QED  BY <3>1, <1>3
    <3> QED  BY <3>1, <3>2
  <2>2. q[a] < q[b] \/ q[b] < q[a]  BY <1>3, <1>5 DEF Ascending
  <2> QED  BY <2>1, <2>2
<1>8. State!ToSet(q) \subseteq dropped \cup State!ToSet(p)
  <2> SUFFICES ASSUME NEW k \in 1 .. l PROVE q[k] \in dropped \cup State!ToSet(p)
    BY <1>4 DEF State!ToSet
  <2>1. CASE k \in 1 .. l - n  BY <2>1, <1>6
  <2>2. CASE k \notin 1 .. l - n
    <3>1. k - (l - n) \in 1 .. n /\ l - n + (k - (l - n)) = k  BY <2>2, <1>6
    <3>2. q[k] = p[k - (l - n)]  BY <3>1, <1>6
    <3> QED  BY <3>1, <3>2, <1>4 DEF State!ToSet
  <2> QED  BY <2>1, <2>2
<1>9. State!IsSuffix(p, q)
  <2> DEFINE x == State!Reverse(p)
             y == State!Reverse(q)
  <2>1. x = [i \in 1 .. n |-> p[n - i + 1]] /\ y = [i \in 1 .. l |-> q[l - i + 1]]
    BY <1>3 DEF State!Reverse
  <2>2. Len(x) = n /\ Len(y) = l /\ \A i \in 1 .. n : x[i] = p[n - i + 1] /\ y[i] = q[l - i + 1]
    <3> HIDE DEF x, y
    <3> QED  BY <2>1, <1>6
  <2> HIDE DEF x, y
  <2>3. \A i \in 1 .. n : x[i] = y[i]
    <3> TAKE i \in 1 .. n
    <3>1. n - i + 1 \in 1 .. n /\ l - n + (n - i + 1) = l - i + 1  OBVIOUS
    <3>2. p[n - i + 1] = q[l - n + (n - i + 1)]  BY <3>1, <1>6
    <3>3. x[i] = p[n - i + 1] /\ y[i] = q[l - i + 1]  BY <2>2
    <3> QED  BY <3>1, <3>2, <3>3
  <2>4. SubSeq(x, 1, n) = SubSeq(y, 1, n)
    <3>1. SubSeq(x, 1, n) = [i \in 1 .. n |-> x[i]] /\ SubSeq(y, 1, n) = [i \in 1 .. n |-> y[i]]
      OBVIOUS
    <3> QED  BY <3>1, <2>3
  <2>5. State!IsPrefix(x, y)  BY <2>2, <2>4, <1>6 DEF State!IsPrefix
  <2> QED  BY <2>5 DEF State!IsSuffix, x, y
<1>10. State!ContextWhole  BY <1>2, <1>7, <1>8, <1>9 DEF State!ContextWhole
<1> QED  BY <1>1, <1>10 DEF StateIInv, State!StateTrue

\* Where answers are kept in their place, whatever is cut, opted out of or asked of whom, a provider that answers has
\* read the whole transcript, in order and nothing twice, and refuses an id only that was stamped late
\* (resolve_server_state: "the full transcript, which is always correct").
THEOREM TranscriptRead == ASSUME StateSizes PROVE State!Spec => [](State!TypeOK /\ State!StateTrue)
<1>1. State!Init => StateIInv  BY StateStarts
<1>2. StateIInv /\ [State!Next]_State!stateVars => StateIInv'  BY StateKeeps
<1>3. StateIInv => State!TypeOK /\ State!StateTrue  BY StateSays
<1> QED  BY <1>1, <1>2, <1>3, PTL DEF State!Spec
=============================================================================
