---------------------------- MODULE WorkList_proofs ----------------------------
(***************************************************************************)
(* Lemmas about the operators of WorkList, for lists of any length: what   *)
(* merging, sorting and adding keep.  The turns of the two loops of        *)
(* tidy_work_list are counted, so the proofs are inductions on the number  *)
(* of turns; they are made with sets of turns, from the least one missing. *)
(***************************************************************************)
EXTENDS WorkList, SequenceTheorems, WellFoundedInduction, TLAPS

-----------------------------------------------------------------------------
\* Induction on the turns of a loop.

\* A set of natural numbers has a least member.
LEMMA LeastMember ==
    ASSUME NEW T \in SUBSET Nat, T # {}
    PROVE  \E n \in T : \A m \in T : n <= m
  <1>. DEFINE R == {ss \in Nat \X Nat : ss[1] < ss[2]}
  <1>1. OpToRel(<, Nat) = R  BY DEF OpToRel
  <1>2. IsWellFoundedOn(R, Nat)  BY <1>1, NatLessThanWellFounded
  <1>3. PICK x \in T : \A y \in T : ~(<<y, x>> \in R)
    <2>. HIDE DEF R
    <2>. QED  BY <1>2, WFMin
  <1>4. ASSUME NEW y \in T  PROVE  x <= y
    <2>1. x \in Nat /\ y \in Nat  OBVIOUS
    <2>2. CASE y < x
      <3>1. <<y, x>> \in R  BY <2>1, <2>2
      <3>. QED  BY <3>1, <1>3
    <2>. QED  BY <2>1, <2>2
  <1>. QED  BY <1>4

\* What holds before the first turn and is kept by every turn holds after each.
LEMMA Turns ==
    ASSUME NEW N \in Nat, NEW P \in SUBSET (0 .. N), 0 \in P,
           \A n \in 1 .. N : n - 1 \in P => n \in P
    PROVE  \A n \in 0 .. N : n \in P
  <1>. DEFINE Bad == (0 .. N) \ P
  <1>. SUFFICES ASSUME Bad # {}  PROVE FALSE
    OBVIOUS
  <1>1. PICK n \in Bad : \A m \in Bad : n <= m
    <2>1. Bad \in SUBSET Nat  OBVIOUS
    <2>. HIDE DEF Bad
    <2>. QED  BY <2>1, LeastMember
  <1>2. n \in 1 .. N  OBVIOUS
  <1>3. n - 1 \in 0 .. N /\ n - 1 \notin Bad  BY <1>1, <1>2
  <1>. QED  BY <1>2, <1>3

\* g gives, for each turn of a loop, what it has computed so far within S: c
\* before the first turn, and f of the turn and what was before after each.
TurnsOf(g, S, c, N, f) ==
    /\ g \in [0 .. N -> S]
    /\ \A n \in 0 .. N : g[n] = IF n = 0 THEN c ELSE f[<<g[n - 1], n>>]

\* A loop that computes within S has such a function.
LEMMA LoopExists ==
    ASSUME NEW S, NEW c \in S, NEW N \in Nat, NEW f \in [S \X Nat -> S]
    PROVE  \E g : TurnsOf(g, S, c, N, f)
  <1>. DEFINE Loop(k, g) == \A n \in 0 .. k : g[n] = IF n = 0 THEN c ELSE f[<<g[n - 1], n>>]
              P == {k \in 0 .. N : \E g \in [0 .. k -> S] : Loop(k, g)}
  <1>1. 0 \in P
    <2>. DEFINE g0 == [n \in 0 .. 0 |-> c]
    <2>1. g0 \in [0 .. 0 -> S] /\ Loop(0, g0)  OBVIOUS
    <2>2. \E g \in [0 .. 0 -> S] : Loop(0, g)
      <3>. HIDE DEF g0, Loop
      <3>. QED  BY <2>1
    <2>. HIDE DEF Loop
    <2>. QED  BY <2>2
  <1>2. ASSUME NEW k \in 1 .. N, k - 1 \in P  PROVE k \in P
    <2>1. PICK g \in [0 .. k - 1 -> S] : Loop(k - 1, g)  BY <1>2
    <2>. DEFINE h == [n \in 0 .. k |-> IF n = k THEN f[<<g[k - 1], k>>] ELSE g[n]]
    <2>2. f[<<g[k - 1], k>>] \in S  OBVIOUS
    <2>3. h \in [0 .. k -> S]  BY <2>2
    <2>4. h[k] = f[<<g[k - 1], k>>] /\ \A n \in 0 .. k - 1 : h[n] = g[n]  OBVIOUS
    <2>. HIDE DEF h
    <2>5. \A n \in 0 .. k - 1 : g[n] = IF n = 0 THEN c ELSE f[<<g[n - 1], n>>]  BY <2>1
    <2>6. ASSUME NEW n \in 0 .. k
          PROVE  h[n] = IF n = 0 THEN c ELSE f[<<h[n - 1], n>>]
      <3>1. CASE n = k
        <4>1. h[n - 1] = g[k - 1] /\ n # 0  BY <2>4, <3>1
        <4>. QED  BY <2>4, <3>1, <4>1
      <3>2. CASE n # k /\ n # 0
        <4>1. n \in 0 .. k - 1 /\ n - 1 \in 0 .. k - 1  BY <3>2
        <4>. QED  BY <2>4, <2>5, <4>1, <3>2
      <3>3. CASE n = 0 /\ n # k
        <4>1. n \in 0 .. k - 1  BY <3>3
        <4>. QED  BY <2>4, <2>5, <4>1, <3>3
      <3>. QED  BY <3>1, <3>2, <3>3
    <2>7. Loop(k, h)  BY <2>6
    <2>8. \E g1 \in [0 .. k -> S] : Loop(k, g1)
      <3>. HIDE DEF Loop
      <3>. QED  BY <2>3, <2>7
    <2>. HIDE DEF Loop
    <2>. QED  BY <2>8
  <1>3. \A k \in 0 .. N : k \in P
    <2>1. P \in SUBSET (0 .. N)  OBVIOUS
    <2>. HIDE DEF P
    <2>. QED  BY <1>1, <1>2, <2>1, Turns
  <1>4. N \in P  BY <1>3
  <1>5. PICK g \in [0 .. N -> S] : Loop(N, g)  BY <1>4
  <1>6. TurnsOf(g, S, c, N, f)  BY <1>5 DEF TurnsOf
  <1>. QED  BY <1>6

\* Integer division of natural numbers gives a natural number.
LEMMA Quotient == ASSUME NEW a \in Nat, NEW b \in Nat \ {0}  PROVE a \div b \in Nat
  OBVIOUS

\* The loop that combines: what each turn n makes of the lists of set n - 1 is in set n,
\* so what the whole loop makes is in the last.
LEMMA CombinedByTurns ==
    ASSUME NEW S \in SUBSET Seq(Entries), NEW list \in S,
           \A l \in S : CombineWorkList(l) \in S,
           NEW Q \in [0 .. Len(list) -> SUBSET S], list \in Q[0],
           \A n \in 1 .. Len(list) : \A l \in Q[n - 1] : CombineWorkList(l) \in Q[n]
    PROVE  Combined(list) \in Q[Len(list)]
  <1>. DEFINE N == Len(list)
              turn == [p \in S \X Nat |-> CombineWorkList(p[1])]
              IsLoop(g) == g = [n \in 0 .. N |->
                                   IF n = 0 THEN list ELSE CombineWorkList(g[n - 1])]
              after == CHOOSE g : IsLoop(g)
              P == {n \in 0 .. N : after[n] \in Q[n]}
  <1>1. N \in Nat  OBVIOUS
  <1>2. turn \in [S \X Nat -> S]  OBVIOUS
  <1>3. \E g : IsLoop(g)
    <2>. HIDE DEF N, turn
    <2>0. PICK g : TurnsOf(g, S, list, N, turn)  BY <1>1, <1>2, LoopExists
    <2>. USE DEF N, turn
    <2>1. /\ g \in [0 .. N -> S]
          /\ \A n \in 0 .. N : g[n] = IF n = 0 THEN list ELSE turn[<<g[n - 1], n>>]
      BY <2>0 DEF TurnsOf
    <2>2. ASSUME NEW n \in 0 .. N
          PROVE  g[n] = IF n = 0 THEN list ELSE CombineWorkList(g[n - 1])
      <3>1. CASE n = 0  BY <3>1, <2>1
      <3>2. CASE n # 0
        <4>1. n - 1 \in 0 .. N /\ n \in Nat  BY <1>1, <3>2
        <4>2. g[n - 1] \in S  BY <2>1, <4>1
        <4>3. turn[<<g[n - 1], n>>] = CombineWorkList(g[n - 1])  BY <4>1, <4>2
        <4>. QED  BY <2>1, <4>3, <3>2
      <3>. QED  BY <3>1, <3>2
    <2>3. g = [n \in 0 .. N |-> g[n]]  BY <2>1
    <2>4. IsLoop(g)
      <3>. HIDE DEF N
      <3>. QED  BY <2>2, <2>3
    <2>. QED  BY <2>4
  <1>4. IsLoop(after)
    <2>. HIDE DEF IsLoop
    <2>. QED  BY <1>3
  <1>. HIDE DEF after
  <1>5. 0 \in P  BY <1>1, <1>4
  <1>6. \A n \in 1 .. N : n - 1 \in P => n \in P
    <2>. TAKE n \in 1 .. N
    <2>1. n \in 0 .. N /\ n # 0  BY <1>1
    <2>2. after[n] = CombineWorkList(after[n - 1])  BY <1>4, <2>1
    <2>. QED  BY <2>1, <2>2
  <1>7. N \in P
    <2>1. P \in SUBSET (0 .. N)  OBVIOUS
    <2>. HIDE DEF P, N
    <2>2. \A n \in 0 .. N : n \in P  BY <1>1, <1>5, <1>6, <2>1, Turns
    <2>. QED  BY <1>1, <2>2
  <1>8. Combined(list) = after[N]  BY DEF Combined, after
  <1>. QED  BY <1>7, <1>8

\* The same of the nested loops that sort, whose turns are counted through.
LEMMA SortedByTurns ==
    ASSUME NEW S \in SUBSET Seq(Entries), NEW list \in S,
           \A l \in S : \A i, j \in 1 .. Len(list) : SwapIfBefore(l, i, j) \in S,
           NEW Q \in [0 .. Len(list) * Len(list) -> SUBSET S], list \in Q[0],
           \A n \in 1 .. Len(list) * Len(list) : \A l \in Q[n - 1] :
               SwapIfBefore(l, ((n - 1) \div Len(list)) + 1, ((n - 1) % Len(list)) + 1) \in Q[n]
    PROVE  Sorted(list) \in Q[Len(list) * Len(list)]
  <1>. DEFINE size == Len(list)
              N == size * size
              I(n) == ((n - 1) \div size) + 1
              J(n) == ((n - 1) % size) + 1
              turn == [p \in S \X Nat |-> IF p[2] \in 1 .. N
                                          THEN SwapIfBefore(p[1], I(p[2]), J(p[2]))
                                          ELSE p[1]]
              IsLoop(g) == g = [n \in 0 .. N |->
                  IF n = 0 THEN list ELSE SwapIfBefore(g[n - 1], I(n), J(n))]
              after == CHOOSE g : IsLoop(g)
              P == {n \in 0 .. N : after[n] \in Q[n]}
  <1>1. size \in Nat /\ N \in Nat  OBVIOUS
  <1>0. /\ Q \in [0 .. N -> SUBSET S] /\ list \in Q[0]
        /\ \A n \in 1 .. N : \A l \in Q[n - 1] : SwapIfBefore(l, I(n), J(n)) \in Q[n]
    OBVIOUS
  <1>2. ASSUME NEW l \in S, NEW n \in 1 .. N  PROVE SwapIfBefore(l, I(n), J(n)) \in S
    <2>1. size # 0 /\ n - 1 \in Nat  BY <1>1
    <2>2. I(n) \in Int /\ 1 <= I(n)
      <3>1. (n - 1) \div size \in Nat  BY <2>1, <1>1, Quotient
      <3>. QED  BY <3>1
    <2>3. J(n) \in 1 .. size  BY <2>1, <1>1
    <2>4. CASE I(n) < J(n)
      <3>1. I(n) \in 1 .. size  BY <2>2, <2>3, <2>4
      <3>. QED  BY <3>1, <2>3
    <2>5. CASE ~(I(n) < J(n))
      <3>1. SwapIfBefore(l, I(n), J(n)) = l  BY <2>5 DEF SwapIfBefore
      <3>. QED  BY <3>1
    <2>. QED  BY <2>4, <2>5
  <1>. HIDE DEF N, I, J
  <1>3. turn \in [S \X Nat -> S]  BY <1>2
  <1>4. \E g : IsLoop(g)
    <2>. HIDE DEF turn
    <2>0. PICK g : TurnsOf(g, S, list, N, turn)  BY <1>1, <1>3, LoopExists
    <2>. USE DEF turn
    <2>1. /\ g \in [0 .. N -> S]
          /\ \A n \in 0 .. N : g[n] = IF n = 0 THEN list ELSE turn[<<g[n - 1], n>>]
      BY <2>0 DEF TurnsOf
    <2>5. \A k \in 0 .. N : g[k] \in S
      <3>. HIDE DEF turn
      <3>. QED  BY <2>1
    <2>2. ASSUME NEW n \in 0 .. N
          PROVE  g[n] = IF n = 0 THEN list ELSE SwapIfBefore(g[n - 1], I(n), J(n))
      <3>1. CASE n = 0  BY <3>1, <2>1
      <3>2. CASE n # 0
        <4>1. n - 1 \in 0 .. N /\ n \in Nat /\ n \in 1 .. N  BY <1>1, <3>2
        <4>2. g[n - 1] \in S  BY <2>5, <4>1
        <4>3. turn[<<g[n - 1], n>>] = SwapIfBefore(g[n - 1], I(n), J(n))  BY <4>1, <4>2
        <4>. QED  BY <2>1, <4>3, <3>2
      <3>. QED  BY <3>1, <3>2
    <2>3. g = [n \in 0 .. N |-> g[n]]  BY <2>1
    <2>4. IsLoop(g)  BY <2>2, <2>3
    <2>. QED  BY <2>4
  <1>5. IsLoop(after)
    <2>. HIDE DEF IsLoop
    <2>. QED  BY <1>4
  <1>. HIDE DEF after
  <1>6. 0 \in P  BY <1>0, <1>1, <1>5
  <1>7. \A n \in 1 .. N : n - 1 \in P => n \in P
    <2>. TAKE n \in 1 .. N
    <2>1. n \in 0 .. N /\ n # 0  BY <1>1
    <2>2. after[n] = SwapIfBefore(after[n - 1], I(n), J(n))  BY <1>5, <2>1
    <2>. QED  BY <1>0, <2>1, <2>2
  <1>8. N \in P
    <2>1. P \in SUBSET (0 .. N)  OBVIOUS
    <2>. HIDE DEF P
    <2>2. \A n \in 0 .. N : n \in P  BY <1>1, <1>6, <1>7, <2>1, Turns
    <2>. QED  BY <1>1, <2>2
  <1>9. Sorted(list) = after[N]  BY DEF Sorted, after, N, I, J
  <1>. QED  BY <1>8, <1>9 DEF N

\* The two loops of tidy_work_list stay within a set of lists that each of
\* their turns stays within: the form for invariants that do not speak of the turn.
LEMMA CombinedWithin ==
    ASSUME NEW S \in SUBSET Seq(Entries), NEW list \in S,
           \A l \in S : CombineWorkList(l) \in S
    PROVE  Combined(list) \in S
  <1>. DEFINE Q == [n \in 0 .. Len(list) |-> S]
  <1>1. Len(list) \in Nat  OBVIOUS
  <1>2. /\ Q \in [0 .. Len(list) -> SUBSET S] /\ list \in Q[0] /\ Q[Len(list)] = S
        /\ \A n \in 1 .. Len(list) : Q[n - 1] = S /\ Q[n] = S
    BY <1>1
  <1>. HIDE DEF Q
  <1>. QED  BY <1>2, CombinedByTurns

LEMMA SortedWithin ==
    ASSUME NEW S \in SUBSET Seq(Entries), NEW list \in S,
           \A l \in S : \A i, j \in 1 .. Len(list) : SwapIfBefore(l, i, j) \in S
    PROVE  Sorted(list) \in S
  <1>. DEFINE size == Len(list)
              N == size * size
              I(n) == ((n - 1) \div size) + 1
              J(n) == ((n - 1) % size) + 1
              Q == [n \in 0 .. N |-> S]
  <1>1. size \in Nat /\ N \in Nat  OBVIOUS
  <1>2. ASSUME NEW l \in S, NEW n \in 1 .. N  PROVE SwapIfBefore(l, I(n), J(n)) \in S
    <2>1. size # 0 /\ n - 1 \in Nat  BY <1>1
    <2>2. I(n) \in Int /\ 1 <= I(n)
      <3>1. (n - 1) \div size \in Nat  BY <2>1, <1>1, Quotient
      <3>. QED  BY <3>1
    <2>3. J(n) \in 1 .. size  BY <2>1, <1>1
    <2>4. CASE I(n) < J(n)
      <3>1. I(n) \in 1 .. size  BY <2>2, <2>3, <2>4
      <3>. QED  BY <3>1, <2>3
    <2>5. CASE ~(I(n) < J(n))
      <3>1. SwapIfBefore(l, I(n), J(n)) = l  BY <2>5 DEF SwapIfBefore
      <3>. QED  BY <3>1
    <2>. QED  BY <2>4, <2>5
  <1>3. /\ Q \in [0 .. N -> SUBSET S] /\ list \in Q[0] /\ Q[N] = S
        /\ \A n \in 1 .. N : Q[n - 1] = S /\ Q[n] = S
    <2>. HIDE DEF N
    <2>. QED  BY <1>1
  <1>. HIDE DEF Q
  <1>4. \A n \in 1 .. N : \A l \in Q[n - 1] : SwapIfBefore(l, I(n), J(n)) \in Q[n]
    BY <1>2, <1>3
  <1>5. Sorted(list) \in Q[N]
    BY <1>3, <1>4, SortedByTurns
  <1>. QED  BY <1>3, <1>5

-----------------------------------------------------------------------------
\* What one turn of each loop does.

\* The nested loops of combine_work_list find a pair whenever there is one.
LEMMA FirstPairFound ==
    ASSUME NEW pairs \in SUBSET (Nat \X Nat), pairs # {}
    PROVE  FirstPair(pairs) \in pairs
  <1>. DEFINE firsts == {p[1] : p \in pairs}
  <1>1. PICK i \in firsts : \A m \in firsts : i <= m
    <2>1. firsts \in SUBSET Nat /\ firsts # {}  OBVIOUS
    <2>. HIDE DEF firsts
    <2>. QED  BY <2>1, LeastMember
  <1>. DEFINE seconds == {j \in Nat : <<i, j>> \in pairs}
  <1>2. PICK j \in seconds : \A m \in seconds : j <= m
    <2>1. seconds \in SUBSET Nat /\ seconds # {}  BY <1>1
    <2>. HIDE DEF seconds
    <2>. QED  BY <2>1, LeastMember
  <1>3. <<i, j>> \in pairs  BY <1>2
  <1>4. ASSUME NEW q \in pairs
        PROVE  i < q[1] \/ (i = q[1] /\ j <= q[2])
    <2>1. q[1] \in firsts /\ q = <<q[1], q[2]>> /\ q[1] \in Nat /\ q[2] \in Nat  OBVIOUS
    <2>2. i <= q[1] /\ i \in Nat  BY <2>1, <1>1, <1>3
    <2>3. CASE i = q[1]  BY <2>1, <2>3, <1>2
    <2>4. CASE i # q[1]  BY <2>1, <2>2, <2>4
    <2>. QED  BY <2>3, <2>4
  <1>. QED  BY <1>3, <1>4 DEF FirstPair

\* Deleting entry j moves the later entries one place down.
LEMMA Deleted ==
    ASSUME NEW S, NEW l \in Seq(S), NEW j \in 1 .. Len(l)
    PROVE  /\ Delete(l, j) \in Seq(S)
           /\ Len(Delete(l, j)) = Len(l) - 1
           /\ \A k \in 1 .. Len(l) - 1 : Delete(l, j)[k] = l[IF k < j THEN k ELSE k + 1]
  <1>. DEFINE front == SubSeq(l, 1, j - 1)
              back == SubSeq(l, j + 1, Len(l))
  <1>1. /\ Len(l) \in Nat /\ j \in Int /\ j - 1 \in Int /\ j + 1 \in Int
        /\ \A k \in 1 .. Len(l) : l[k] \in S
    OBVIOUS
  <1>2. /\ front \in Seq(S)
        /\ Len(front) = j - 1
        /\ \A k \in 1 .. j - 1 : front[k] = l[k]
    <2>1. \A k \in 1 .. j - 1 : l[k] \in S  BY <1>1
    <2>2. /\ front \in Seq(S)
          /\ Len(front) = IF 1 <= j - 1 THEN j - 1 - 1 + 1 ELSE 0
          /\ \A k \in 1 .. j - 1 - 1 + 1 : front[k] = l[1 + k - 1]
      BY <1>1, <2>1, SubSeqProperties
    <2>. HIDE DEF front
    <2>3. Len(front) = j - 1  BY <1>1, <2>2
    <2>4. ASSUME NEW k \in 1 .. j - 1  PROVE front[k] = l[k]
      <3>1. k \in 1 .. j - 1 - 1 + 1 /\ 1 + k - 1 = k  BY <1>1
      <3>. QED  BY <2>2, <3>1
    <2>. QED  BY <2>2, <2>3, <2>4
  <1>3. /\ back \in Seq(S)
        /\ Len(back) = Len(l) - j
        /\ \A k \in 1 .. Len(l) - j : back[k] = l[j + k]
    <2>1. \A k \in j + 1 .. Len(l) : l[k] \in S  BY <1>1
    <2>2. /\ back \in Seq(S)
          /\ Len(back) = IF j + 1 <= Len(l) THEN Len(l) - (j + 1) + 1 ELSE 0
          /\ \A k \in 1 .. Len(l) - (j + 1) + 1 : back[k] = l[(j + 1) + k - 1]
      BY <1>1, <2>1, SubSeqProperties
    <2>. HIDE DEF back
    <2>3. Len(back) = Len(l) - j  BY <1>1, <2>2
    <2>4. ASSUME NEW k \in 1 .. Len(l) - j  PROVE back[k] = l[j + k]
      <3>1. k \in 1 .. Len(l) - (j + 1) + 1 /\ (j + 1) + k - 1 = j + k  BY <1>1
      <3>. QED  BY <2>2, <3>1
    <2>. QED  BY <2>2, <2>3, <2>4
  <1>4. Delete(l, j) = front \o back  BY DEF Delete
  <1>. HIDE DEF front, back
  <1>5. /\ front \o back \in Seq(S)
        /\ Len(front \o back) = Len(front) + Len(back)
        /\ \A k \in 1 .. Len(front) + Len(back) :
               (front \o back)[k] = IF k <= Len(front) THEN front[k] ELSE back[k - Len(front)]
    BY <1>2, <1>3, ConcatProperties
  <1>6. ASSUME NEW k \in 1 .. Len(l) - 1
        PROVE  Delete(l, j)[k] = l[IF k < j THEN k ELSE k + 1]
    <2>0. k \in 1 .. Len(front) + Len(back)  BY <1>1, <1>2, <1>3
    <2>1. CASE k < j
      <3>1. k <= Len(front) /\ k \in 1 .. j - 1  BY <1>1, <1>2, <2>1
      <3>. QED  BY <1>2, <1>4, <1>5, <2>0, <2>1, <3>1
    <2>2. CASE ~(k < j)
      <3>. DEFINE i == k - (j - 1)
      <3>1. i \in 1 .. Len(l) - j /\ j + i = k + 1  BY <1>1, <2>2
      <3>2. ~(k <= Len(front)) /\ k - Len(front) = i  BY <1>1, <1>2, <2>2
      <3>3. Delete(l, j)[k] = back[i]  BY <1>4, <1>5, <2>0, <3>2
      <3>. HIDE DEF i
      <3>. QED  BY <1>3, <2>2, <3>1, <3>3
    <2>. QED  BY <2>1, <2>2
  <1>. QED  BY <1>1, <1>2, <1>3, <1>4, <1>5, <1>6

\* The entry that stays, by where the one it swallows lies.
LEMMA MergedCases ==
    ASSUME NEW e, NEW f
    PROVE  /\ Above(e, f) /\ ~Above(f, e) /\ ~LeftOf(e, f)
              => Merged(e, f) = [e EXCEPT !.stop.y = f.stop.y]
           /\ ~Above(e, f) /\ Above(f, e) /\ ~LeftOf(e, f)
              => Merged(e, f) = [e EXCEPT !.start.y = f.start.y, !.begin.y = f.begin.y]
           /\ ~Above(e, f) /\ ~Above(f, e) /\ LeftOf(e, f)
              => Merged(e, f) = [e EXCEPT !.stop.x = f.stop.x]
           /\ ~Above(e, f) /\ ~Above(f, e) /\ ~LeftOf(e, f)
              => Merged(e, f) = [e EXCEPT !.start.x = f.start.x, !.begin.x = f.begin.x]
  BY DEF Merged

\* The entry that stays has coordinates again.
LEMMA MergedIsEntry ==
    ASSUME NEW e \in Entries, NEW f \in Entries
    PROVE  Merged(e, f) \in Entries
  <1>1. [e EXCEPT !.stop.y = f.stop.y] \in Entries  BY DEF Entries, Points
  <1>2. [e EXCEPT !.start.y = f.start.y, !.begin.y = f.begin.y] \in Entries
    BY DEF Entries, Points
  <1>3. [e EXCEPT !.stop.x = f.stop.x] \in Entries  BY DEF Entries, Points
  <1>4. [e EXCEPT !.start.x = f.start.x, !.begin.x = f.begin.x] \in Entries
    BY DEF Entries, Points
  <1>. QED  BY <1>1, <1>2, <1>3, <1>4 DEF Merged

\* One turn of the combining loop leaves the list alone, or merges entry j into
\* an entry i before it.
LEMMA CombineTurn ==
    ASSUME NEW l \in Seq(Entries)
    PROVE  \/ CombineWorkList(l) = l
           \/ \E i, j \in 1 .. Len(l) :
                 /\ i < j /\ Combinable(l[i], l[j])
                 /\ CombineWorkList(l) = Delete([l EXCEPT ![i] = Merged(l[i], l[j])], j)
  <1>. DEFINE pairs == CombinablePairs(l)
              p == FirstPair(pairs)
  <1>1. CASE pairs = {}  BY <1>1 DEF CombineWorkList
  <1>2. CASE pairs # {}
    <2>1. pairs \in SUBSET (Nat \X Nat)  BY DEF CombinablePairs
    <2>2. p \in pairs  BY <1>2, <2>1, FirstPairFound
    <2>3. /\ p[1] \in 1 .. Len(l) /\ p[2] \in 1 .. Len(l)
          /\ p[1] < p[2] /\ Combinable(l[p[1]], l[p[2]])
      BY <2>2 DEF CombinablePairs
    <2>4. CombineWorkList(l) = Delete([l EXCEPT ![p[1]] = Merged(l[p[1]], l[p[2]])], p[2])
      BY <1>2 DEF CombineWorkList
    <2>. HIDE DEF p
    <2>. QED  BY <2>3, <2>4
  <1>. QED  BY <1>1, <1>2

\* So it leaves a list of entries, and never a longer one.
LEMMA CombineType ==
    ASSUME NEW l \in Seq(Entries)
    PROVE  CombineWorkList(l) \in Seq(Entries) /\ Len(CombineWorkList(l)) <= Len(l)
  <1>1. CASE CombineWorkList(l) = l  BY <1>1
  <1>2. ASSUME NEW i \in 1 .. Len(l), NEW j \in 1 .. Len(l),
               CombineWorkList(l) = Delete([l EXCEPT ![i] = Merged(l[i], l[j])], j)
        PROVE  CombineWorkList(l) \in Seq(Entries) /\ Len(CombineWorkList(l)) <= Len(l)
    <2>. DEFINE m == [l EXCEPT ![i] = Merged(l[i], l[j])]
    <2>1. Merged(l[i], l[j]) \in Entries
      <3>1. l[i] \in Entries /\ l[j] \in Entries  OBVIOUS
      <3>. QED  BY <3>1, MergedIsEntry
    <2>2. m \in Seq(Entries) /\ Len(m) = Len(l)  BY <2>1
    <2>. HIDE DEF m
    <2>3. Delete(m, j) \in Seq(Entries) /\ Len(Delete(m, j)) = Len(l) - 1
      BY <2>2, Deleted
    <2>. QED  BY <2>3, <1>2 DEF m
  <1>. QED  BY <1>1, <1>2, CombineTurn

\* A turn of the sorting loop moves two entries at most.
LEMMA SwapTurn ==
    ASSUME NEW S, NEW l \in Seq(S), NEW i \in 1 .. Len(l), NEW j \in 1 .. Len(l)
    PROVE  /\ SwapIfBefore(l, i, j) \in Seq(S)
           /\ Len(SwapIfBefore(l, i, j)) = Len(l)
           /\ \/ SwapIfBefore(l, i, j) = l
              \/ /\ i # j
                 /\ SwapIfBefore(l, i, j) = [l EXCEPT ![i] = l[j], ![j] = l[i]]
  BY DEF SwapIfBefore

\* The whole of tidy_work_list stays within what its turns stay within.
LEMMA TidyWithin ==
    ASSUME NEW S \in SUBSET Seq(Entries), NEW list \in S,
           \A l \in S : CombineWorkList(l) \in S,
           \A l \in S : \A i, j \in 1 .. Len(l) : SwapIfBefore(l, i, j) \in S
    PROVE  TidyWorkList(list) \in S
  <1>. DEFINE c == Combined(list)
              T == {l \in S : Len(l) = Len(c)}
  <1>1. c \in S  BY CombinedWithin
  <1>. HIDE DEF c
  <1>2. T \in SUBSET Seq(Entries) /\ c \in T  BY <1>1
  <1>3. \A l \in T : \A i, j \in 1 .. Len(c) : SwapIfBefore(l, i, j) \in T
    <2>. TAKE l \in T
    <2>. TAKE i, j \in 1 .. Len(c)
    <2>1. l \in S /\ l \in Seq(Entries) /\ i \in 1 .. Len(l) /\ j \in 1 .. Len(l)  OBVIOUS
    <2>2. Len(SwapIfBefore(l, i, j)) = Len(l)  BY <2>1, SwapTurn
    <2>. QED  BY <2>1, <2>2
  <1>4. Sorted(c) \in T
    <2>. HIDE DEF T
    <2>. QED  BY <1>2, <1>3, SortedWithin
  <1>. QED  BY <1>4 DEF TidyWorkList, c

-----------------------------------------------------------------------------
\* What tidying ends with.

\* A turn that finds a pair to merge makes the list shorter.
LEMMA CombineShortens ==
    ASSUME NEW l \in Seq(Entries), CombinablePairs(l) # {}
    PROVE  CombineWorkList(l) \in Seq(Entries) /\ Len(CombineWorkList(l)) = Len(l) - 1
  <1>. DEFINE p == FirstPair(CombinablePairs(l))
              m == [l EXCEPT ![p[1]] = Merged(l[p[1]], l[p[2]])]
  <1>1. CombinablePairs(l) \in SUBSET (Nat \X Nat)  BY DEF CombinablePairs
  <1>2. p \in CombinablePairs(l)  BY <1>1, FirstPairFound
  <1>3. p[1] \in 1 .. Len(l) /\ p[2] \in 1 .. Len(l)  BY <1>2 DEF CombinablePairs
  <1>4. CombineWorkList(l) = Delete(m, p[2])  BY DEF CombineWorkList
  <1>. HIDE DEF p
  <1>5. Merged(l[p[1]], l[p[2]]) \in Entries
    <2>1. l[p[1]] \in Entries /\ l[p[2]] \in Entries  BY <1>3
    <2>. QED  BY <2>1, MergedIsEntry
  <1>6. m \in Seq(Entries) /\ Len(m) = Len(l)  BY <1>3, <1>5
  <1>. HIDE DEF m
  <1>. QED  BY <1>3, <1>4, <1>6, Deleted

\* So the combining loop ends with nothing left to merge.
LEMMA CombinedSettles ==
    ASSUME NEW list \in Seq(Entries)
    PROVE  Combined(list) \in Seq(Entries) /\ CombinablePairs(Combined(list)) = {}
  <1>. DEFINE N == Len(list)
              S == Seq(Entries)
              Q == [n \in 0 .. N |-> {l \in S : Len(l) <= N - n \/ CombinablePairs(l) = {}}]
  <1>1. N \in Nat  OBVIOUS
  <1>2. \A n \in 0 .. N : Q[n] = {l \in S : Len(l) <= N - n \/ CombinablePairs(l) = {}}  OBVIOUS
  <1>3. Q \in [0 .. N -> SUBSET S]  OBVIOUS
  <1>. HIDE DEF Q
  <1>4. list \in Q[0]  BY <1>1, <1>2
  <1>5. ASSUME NEW n \in 1 .. N, NEW l \in Q[n - 1]  PROVE CombineWorkList(l) \in Q[n]
    <2>1. n - 1 \in 0 .. N /\ n \in 0 .. N  BY <1>1
    <2>2. l \in S /\ (Len(l) <= N - (n - 1) \/ CombinablePairs(l) = {})  BY <1>2, <2>1
    <2>3. CASE CombinablePairs(l) = {}
      <3>1. CombineWorkList(l) = l  BY <2>3 DEF CombineWorkList
      <3>. QED  BY <1>2, <2>1, <2>2, <2>3, <3>1
    <2>4. CASE CombinablePairs(l) # {}
      <3>1. CombineWorkList(l) \in S /\ Len(CombineWorkList(l)) = Len(l) - 1
        BY <2>2, <2>4, CombineShortens
      <3>2. Len(l) \in Nat  BY <2>2
      <3>3. Len(CombineWorkList(l)) <= N - n  BY <1>1, <2>1, <2>2, <2>4, <3>1, <3>2
      <3>. QED  BY <1>2, <2>1, <3>1, <3>3
    <2>. QED  BY <2>3, <2>4
  <1>6. \A l \in S : CombineWorkList(l) \in S  BY CombineType
  <1>7. Combined(list) \in Q[N]
    <2>1. S \in SUBSET Seq(Entries) /\ list \in S  OBVIOUS
    <2>. HIDE DEF S
    <2>. QED  BY <1>3, <1>4, <1>5, <1>6, <2>1, CombinedByTurns
  <1>8. Combined(list) \in S /\ (Len(Combined(list)) <= 0 \/ CombinablePairs(Combined(list)) = {})
    BY <1>1, <1>2, <1>7
  <1>9. Len(Combined(list)) <= 0 => CombinablePairs(Combined(list)) = {}
    <2>1. Len(Combined(list)) \in Nat  BY <1>8
    <2>. QED  BY <2>1 DEF CombinablePairs
  <1>. QED  BY <1>8, <1>9

\* The order of the list is one of numbers: asymmetric, and kept over entries that are alike.
LEMMA BeforeOrder ==
    ASSUME NEW e \in Entries, NEW f \in Entries, NEW g \in Entries
    PROVE  /\ Before(e, f) => ~Before(f, e)
           /\ Before(e, f) /\ Before(f, g) => Before(e, g)
  <1>1. /\ e.pass \in Int /\ f.pass \in Int /\ g.pass \in Int
        /\ e.start.x \in Int /\ f.start.x \in Int /\ g.start.x \in Int
        /\ e.start.y \in Int /\ f.start.y \in Int /\ g.start.y \in Int
    BY DEF Entries, Points
  <1>. QED  BY <1>1 DEF Before

\* Turns of two nested loops: the inner counter counts within a turn of the outer one.
LEMMA LaterRow ==
    ASSUME NEW size \in Nat, NEW k \in Nat, NEW i \in Nat, k < i
    PROVE  k * size + size <= i * size
  <1>. DEFINE d == i - k - 1
  <1>1. d \in Nat /\ i = k + 1 + d  OBVIOUS
  <1>. HIDE DEF d
  <1>2. d * size \in Nat  BY <1>1
  <1>3. i * size = k * size + size + d * size  BY <1>1
  <1>4. k * size \in Nat OBVIOUS
  <1>. QED  BY <1>2, <1>3, <1>4

LEMMA TurnOrder ==
    ASSUME NEW size \in Nat, NEW k \in 1 .. size, NEW m \in 1 .. size,
           NEW i \in Nat \ {0}, NEW j \in 1 .. size
    PROVE  (k - 1) * size + m <= (i - 1) * size + j <=> k < i \/ (k = i /\ m <= j)
  <1>. DEFINE a == (k - 1) * size
              b == (i - 1) * size
  <1>1. a \in Int /\ b \in Int  OBVIOUS
  <1>2. k < i => a + size <= b
    <2>1. k < i => (k - 1) \in Nat /\ (i - 1) \in Nat /\ k - 1 < i - 1  OBVIOUS
    <2>. QED  BY <2>1, LaterRow
  <1>3. i < k => b + size <= a
    <2>1. i < k => (k - 1) \in Nat /\ (i - 1) \in Nat /\ i - 1 < k - 1  OBVIOUS
    <2>. QED  BY <2>1, LaterRow
  <1>4. k = i => a = b  OBVIOUS
  <1>. HIDE DEF a, b
  <1>5. a + m <= b + j <=> k < i \/ (k = i /\ m <= j)  BY <1>1, <1>2, <1>3, <1>4
  <1>. QED  BY <1>5 DEF a, b

\* Each turn of the loop has its two counters.
LEMMA TurnCounters ==
    ASSUME NEW size \in Nat \ {0}, NEW n \in Nat \ {0}
    PROVE  LET i == ((n - 1) \div size) + 1
               j == ((n - 1) % size) + 1
           IN  i \in Nat \ {0} /\ j \in 1 .. size /\ n = (i - 1) * size + j
  <1>. DEFINE q == (n - 1) \div size
              r == (n - 1) % size
  <1>1. q \in Nat  BY Quotient
  <1>2. r \in 0 .. size - 1  OBVIOUS
  <1>3. n - 1 = q * size + r  OBVIOUS
  <1>. HIDE DEF q, r
  <1>4. q * size \in Nat  BY <1>1
  <1>5. ((q + 1) - 1) * size = q * size  BY <1>1
  <1>6. q + 1 \in Nat \ {0} /\ r + 1 \in 1 .. size /\ n = ((q + 1) - 1) * size + (r + 1)
    BY <1>1, <1>2, <1>3, <1>4, <1>5
  <1>. QED  BY <1>6 DEF q, r

\* The pairs compared in the first n turns of the sorting loop are in order.
Compared(l, size, n) ==
    \A k, m \in 1 .. size : k < m /\ (k - 1) * size + m <= n => ~Before(l[m], l[k])

\* A turn brings its pair into order and leaves the earlier ones so: what is put at the
\* outer position comes before, or is alike to, whatever was compared with it.
LEMMA SwapOrders ==
    ASSUME NEW l \in Seq(Entries), NEW n \in Nat \ {0}, Len(l) # 0, Compared(l, Len(l), n - 1),
           NEW i \in Nat \ {0}, NEW j \in 1 .. Len(l), n = (i - 1) * Len(l) + j
    PROVE  Compared(SwapIfBefore(l, i, j), Len(l), n)
  <1>. DEFINE size == Len(l)
              s == SwapIfBefore(l, i, j)
  <1>0. size \in Nat /\ \A k \in 1 .. size : l[k] \in Entries  OBVIOUS
  <1>1. \A k, m \in 1 .. size : (k - 1) * size + m <= n <=> k < i \/ (k = i /\ m <= j)
    BY <1>0, TurnOrder
  <1>2. ASSUME NEW k \in 1 .. size, NEW m \in 1 .. size, k < m, k < i \/ (k = i /\ m < j)
        PROVE  ~Before(l[m], l[k])
    <2>1. (k - 1) * size + m <= n /\ (k - 1) * size + m # n
      <3>1. (k - 1) * size + m <= n  BY <1>1, <1>2
      <3>3. CASE k < i
        <4>1. j - 1 \in 0 .. size /\ (k - 1) * size + m <= n  BY <3>1
        <4>2. CASE j = 1
          <5>1. (k - 1) * size + size <= (i - 1) * size
            <6>1. k - 1 \in Nat /\ i - 1 \in Nat /\ k - 1 < i - 1  BY <3>3
            <6>. QED  BY <6>1, <1>0, LaterRow
          <5>2. (k - 1) * size \in Int /\ (i - 1) * size \in Int  BY <1>0
          <5>. QED  BY <1>0, <4>2, <5>1, <5>2
        <4>3. CASE j # 1
          <5>1. j - 1 \in 1 .. size  BY <1>0, <4>3
          <5>2. (k - 1) * size + m <= (i - 1) * size + (j - 1)  BY <1>0, <5>1, <3>3, TurnOrder
          <5>3. (k - 1) * size \in Int /\ (i - 1) * size \in Int  BY <1>0
          <5>. QED  BY <1>0, <5>2, <5>3
        <4>. QED  BY <4>2, <4>3
      <3>4. CASE k = i /\ m < j
        <4>1. (k - 1) * size \in Int  BY <1>0
        <4>. QED  BY <1>0, <3>4, <4>1
      <3>. QED  BY <1>2, <3>3, <3>4
    <2>2. (k - 1) * size + m <= n - 1
      <3>1. (k - 1) * size \in Int  BY <1>0
      <3>. HIDE DEF size
      <3>. QED  BY <2>1, <3>1, <1>0
    <2>. QED  BY <1>2, <2>2 DEF Compared
  <1>3. SUFFICES ASSUME NEW k \in 1 .. size, NEW m \in 1 .. size, k < m, k < i \/ (k = i /\ m <= j)
                 PROVE  ~Before(s[m], s[k])
    BY <1>1 DEF Compared
  <1>. HIDE DEF size
  <1>4. CASE ~(i < j /\ Before(l[j], l[i]))
    <2>1. s = l  BY <1>4 DEF SwapIfBefore
    <2>2. CASE k < i \/ (k = i /\ m < j)  BY <1>2, <1>3, <2>1, <2>2
    <2>3. CASE k = i /\ m = j  BY <1>3, <1>4, <2>1, <2>3
    <2>. QED  BY <1>0, <1>3, <2>2, <2>3
  <1>5. CASE i < j /\ Before(l[j], l[i])
    <2>1. i \in 1 .. size /\ j \in 1 .. size  BY <1>0, <1>5 DEF size
    <2>2. s = [l EXCEPT ![i] = l[j], ![j] = l[i]]  BY <1>5 DEF SwapIfBefore
    <2>3. s[i] = l[j] /\ s[j] = l[i] /\ \A x \in 1 .. size : x # i /\ x # j => s[x] = l[x]
      BY <2>1, <2>2, <1>5 DEF size
    <2>. HIDE DEF s
    <2>4. CASE k < i
      <3>1. s[k] = l[k]  BY <1>0, <1>5, <2>1, <2>3, <2>4
      <3>2. \A x \in 1 .. size : k < x => ~Before(l[x], l[k])  BY <1>2, <2>4
      <3>3. k < i /\ k < j  BY <1>0, <1>5, <2>1, <2>4
      <3>. QED  BY <1>3, <2>1, <2>3, <3>1, <3>2, <3>3
    <2>5. CASE k = i /\ m < j
      <3>1. s[k] = l[j] /\ s[m] = l[m]  BY <1>0, <1>3, <1>5, <2>1, <2>3, <2>5
      <3>2. ~Before(l[m], l[i])  BY <1>2, <1>3, <2>1, <2>5
      <3>3. l[m] \in Entries /\ l[j] \in Entries /\ l[i] \in Entries  BY <1>0, <2>1
      <3>. QED  BY <1>5, <3>1, <3>2, <3>3, BeforeOrder
    <2>6. CASE k = i /\ m = j
      <3>1. l[j] \in Entries /\ l[i] \in Entries  BY <1>0, <2>1
      <3>. QED  BY <1>5, <2>3, <2>6, <3>1, BeforeOrder
    <2>. QED  BY <1>0, <1>3, <2>4, <2>5, <2>6
  <1>. QED  BY <1>4, <1>5

\* So the sorting loop ends with every pair in order.
LEMMA SortedOrders ==
    ASSUME NEW list \in Seq(Entries), list # <<>>
    PROVE  /\ Sorted(list) \in Seq(Entries) /\ Len(Sorted(list)) = Len(list)
           /\ \A k, m \in 1 .. Len(list) : k < m => ~Before(Sorted(list)[m], Sorted(list)[k])
  <1>. DEFINE size == Len(list)
              N == size * size
              S == {l \in Seq(Entries) : Len(l) = size}
              Q == [n \in 0 .. N |-> {l \in S : Compared(l, size, n)}]
  <1>1. size \in Nat \ {0} /\ N \in Nat  OBVIOUS
  <1>2. \A n \in 0 .. N : Q[n] = {l \in S : Compared(l, size, n)}  OBVIOUS
  <1>3. Q \in [0 .. N -> SUBSET S] /\ S \in SUBSET Seq(Entries) /\ list \in S  OBVIOUS
  <1>4. ASSUME NEW l \in S, NEW i \in 1 .. size, NEW j \in 1 .. size
        PROVE  SwapIfBefore(l, i, j) \in S
    BY SwapTurn
  <1>. HIDE DEF Q
  <1>5. list \in Q[0]
    <2>1. ASSUME NEW k \in 1 .. size, NEW m \in 1 .. size  PROVE ~((k - 1) * size + m <= 0)
      <3>1. (k - 1) * size \in Nat  BY <1>1
      <3>. QED  BY <3>1
    <2>2. Compared(list, size, 0)  BY <2>1 DEF Compared
    <2>. QED  BY <1>1, <1>2, <1>3, <2>2
  <1>6. ASSUME NEW n \in 1 .. N, NEW l \in Q[n - 1]
        PROVE  SwapIfBefore(l, ((n - 1) \div size) + 1, ((n - 1) % size) + 1) \in Q[n]
    <2>. DEFINE i == ((n - 1) \div size) + 1
                j == ((n - 1) % size) + 1
    <2>1. n \in Nat \ {0} /\ n \in 0 .. N /\ n - 1 \in 0 .. N  BY <1>1
    <2>2. i \in Nat \ {0} /\ j \in 1 .. size /\ n = (i - 1) * size + j
      BY <1>1, <2>1, TurnCounters
    <2>3. l \in S /\ Compared(l, size, n - 1)  BY <1>2, <2>1
    <2>. HIDE DEF i, j
    <2>4. l \in Seq(Entries) /\ Len(l) = size  BY <2>3
    <2>5. Compared(SwapIfBefore(l, i, j), size, n)
      <3>. HIDE DEF size, N, S
      <3>. QED  BY <1>1, <2>1, <2>2, <2>3, <2>4, SwapOrders
    <2>6. SwapIfBefore(l, i, j) \in S
      <3>1. CASE i \in 1 .. size  BY <1>4, <2>2, <2>3, <3>1
      <3>2. CASE i \notin 1 .. size
        <4>1. ~(i < j)  BY <1>1, <2>2, <3>2
        <4>. QED  BY <2>3, <4>1 DEF SwapIfBefore
      <3>. QED  BY <3>1, <3>2
    <2>7. SwapIfBefore(l, i, j) \in Q[n]  BY <1>2, <2>1, <2>5, <2>6
    <2>. QED  BY <2>7 DEF i, j
  <1>7. Sorted(list) \in Q[N]
    <2>. HIDE DEF S
    <2>. QED  BY <1>3, <1>4, <1>5, <1>6, SortedByTurns
  <1>8. Sorted(list) \in S /\ Compared(Sorted(list), size, N)  BY <1>1, <1>2, <1>7
  <1>9. ASSUME NEW k \in 1 .. size, NEW m \in 1 .. size  PROVE (k - 1) * size + m <= N
    <2>1. (k - 1) * size + m <= (size - 1) * size + size
      BY <1>1, TurnOrder
    <2>2. (size - 1) * size + size = N  BY <1>1
    <2>. QED  BY <2>1, <2>2
  <1>. QED  BY <1>8, <1>9 DEF Compared

\* An untouched entry of the list merges with no other.
Settled(l) == \A i, j \in 1 .. Len(l) : i # j /\ l[i].begin = l[i].start => ~Combinable(l[i], l[j])

\* When combine_work_list finds no pair the list is settled: the entries it would not look
\* at in this order, it has looked at in the other.
LEMMA NoPairSettled ==
    ASSUME NEW l \in Seq(Entries), CombinablePairs(l) = {}
    PROVE  Settled(l)
  <1>. SUFFICES ASSUME NEW i \in 1 .. Len(l), NEW j \in 1 .. Len(l), i # j,
                       l[i].begin = l[i].start, Combinable(l[i], l[j])
                PROVE  FALSE
    BY DEF Settled
  <1>1. \A k, m \in 1 .. Len(l) : k < m => ~Combinable(l[k], l[m])
    <2>. SUFFICES ASSUME NEW k \in 1 .. Len(l), NEW m \in 1 .. Len(l), k < m, Combinable(l[k], l[m])
                  PROVE  <<k, m>> \in CombinablePairs(l)
      OBVIOUS
    <2>. QED  BY DEF CombinablePairs
  <1>2. Combinable(l[j], l[i])  BY DEF Combinable, FreelyMerge
  <1>. QED  BY <1>1, <1>2

\* Exchanging two entries leaves the list settled.
LEMMA SwapSettled ==
    ASSUME NEW l \in Seq(Entries), Settled(l), NEW i \in 1 .. Len(l), NEW j \in 1 .. Len(l)
    PROVE  Settled(SwapIfBefore(l, i, j))
  <1>. DEFINE s == [l EXCEPT ![i] = l[j], ![j] = l[i]]
              from(k) == IF k = i THEN j ELSE IF k = j THEN i ELSE k
  <1>1. CASE SwapIfBefore(l, i, j) = l  BY <1>1
  <1>2. CASE SwapIfBefore(l, i, j) = s
    <2>1. Len(s) = Len(l) /\ \A k \in 1 .. Len(l) : s[k] = l[from(k)]  OBVIOUS
    <2>2. \A k, m \in 1 .. Len(l) : from(k) \in 1 .. Len(l) /\ (k # m => from(k) # from(m))  OBVIOUS
    <2>. HIDE DEF s, from
    <2>3. Settled(s)
      <3>. SUFFICES ASSUME NEW k \in 1 .. Len(s), NEW m \in 1 .. Len(s), k # m, s[k].begin = s[k].start
                    PROVE  ~Combinable(s[k], s[m])
        BY DEF Settled
      <3>1. /\ from(k) \in 1 .. Len(l) /\ from(m) \in 1 .. Len(l) /\ from(k) # from(m)
            /\ s[k] = l[from(k)] /\ s[m] = l[from(m)]
        BY <2>1, <2>2
      <3>. QED  BY <3>1 DEF Settled
    <2>. QED  BY <1>2, <2>3
  <1>. QED  BY <1>1, <1>2, SwapTurn

\* What tidy_work_list leaves is in order and settled.
LEMMA TidyIsTidy ==
    ASSUME NEW l \in Seq(Entries)
    PROVE  LET t == TidyWorkList(l)
           IN  /\ \A i, j \in 1 .. Len(t) : i < j => ~Before(t[j], t[i])
               /\ Settled(t)
  <1>1. CASE Len(l) < 2
    <2>1. TidyWorkList(l) = l /\ Len(l) \in Nat  BY <1>1 DEF TidyWorkList
    <2>. QED  BY <1>1, <2>1 DEF Settled
  <1>2. CASE ~(Len(l) < 2)
    <2>. DEFINE c == Combined(l)
                S == {k \in Seq(Entries) : Len(k) = Len(c) /\ Settled(k)}
    <2>1. c \in Seq(Entries) /\ Settled(c)  BY CombinedSettles, NoPairSettled
    <2>2. TidyWorkList(l) = Sorted(c)  BY <1>2 DEF TidyWorkList
    <2>. HIDE DEF c
    <2>3. Sorted(c) \in S
      <3>1. S \in SUBSET Seq(Entries) /\ c \in S  BY <2>1
      <3>2. ASSUME NEW k \in S, NEW i \in 1 .. Len(c), NEW j \in 1 .. Len(c)
            PROVE  SwapIfBefore(k, i, j) \in S
        BY SwapTurn, SwapSettled
      <3>. HIDE DEF S
      <3>. QED  BY <3>1, <3>2, SortedWithin
    <2>4. CASE c = <<>>
      <3>1. Len(Sorted(c)) = 0  BY <2>1, <2>3, <2>4
      <3>. QED  BY <2>2, <2>3, <3>1
    <2>5. CASE c # <<>>  BY <2>1, <2>2, <2>3, <2>5, SortedOrders
    <2>. QED  BY <2>4, <2>5
  <1>. QED  BY <1>1, <1>2

-----------------------------------------------------------------------------
\* Adding an entry.

\* add_work_list never grows the list by more than the entry, nor beyond its table.
LEMMA AddWorkListType ==
    ASSUME NEW list \in Seq(Entries), Len(list) <= MaxCalcWork, NEW entry \in Entries
    PROVE  /\ AddWorkList(list, entry) \in Seq(Entries)
           /\ Len(AddWorkList(list, entry)) <= MaxCalcWork
           /\ Len(AddWorkList(list, entry)) <= Len(list) + 1
  <1>. DEFINE S == {l \in Seq(Entries) : Len(l) <= Len(list) + 1}
  <1>1. Append(list, entry) \in S  OBVIOUS
  <1>2. \A l \in S : CombineWorkList(l) \in S  BY CombineType
  <1>3. ASSUME NEW l \in S, NEW i \in 1 .. Len(l), NEW j \in 1 .. Len(l)
        PROVE  SwapIfBefore(l, i, j) \in S
    BY SwapTurn
  <1>4. TidyWorkList(Append(list, entry)) \in S
    <2>1. S \in SUBSET Seq(Entries)  OBVIOUS
    <2>. HIDE DEF S
    <2>. QED  BY <1>1, <1>2, <1>3, <2>1, TidyWithin
  <1>. QED  BY <1>4, MaxCalcWorkAssumption DEF AddWorkList, ListFull

-----------------------------------------------------------------------------
\* What holds of the entries of a list, of any two of them, and of what they stand for.

\* The lists whose entries are in G and any two of them in Rel.
PairedLists(G, Rel) == {l \in Seq(G) : \A i, j \in 1 .. Len(l) : i # j => <<l[i], l[j]>> \in Rel}

\* What the entries of a list stand for.
CoveredBy(Cov, l) == UNION {Cov[l[k]] : k \in 1 .. Len(l)}

\* Entries of G in Rel merge into one of G: it stands for what they do, and is in Rel to
\* what they are.
MergesWithin(G, Rel, Cov) ==
    \A e, f \in G : <<e, f>> \in Rel /\ <<f, e>> \in Rel /\ Combinable(e, f) =>
        /\ Merged(e, f) \in G /\ Cov[e] \cup Cov[f] \subseteq Cov[Merged(e, f)]
        /\ \A g \in G : /\ <<e, g>> \in Rel /\ <<f, g>> \in Rel => <<Merged(e, f), g>> \in Rel
                        /\ <<g, e>> \in Rel /\ <<g, f>> \in Rel => <<g, Merged(e, f)>> \in Rel

\* A turn of the combining loop keeps all of it.
LEMMA CombinePaired ==
    ASSUME NEW G \in SUBSET Entries, NEW Rel, NEW Cov, MergesWithin(G, Rel, Cov),
           NEW l \in PairedLists(G, Rel)
    PROVE  /\ CombineWorkList(l) \in PairedLists(G, Rel)
           /\ CoveredBy(Cov, l) \subseteq CoveredBy(Cov, CombineWorkList(l))
  <1>1. l \in Seq(G) /\ l \in Seq(Entries)  BY DEF PairedLists
  <1>2. CASE CombineWorkList(l) = l  BY <1>2
  <1>3. ASSUME NEW i \in 1 .. Len(l), NEW j \in 1 .. Len(l), i < j, Combinable(l[i], l[j]),
               CombineWorkList(l) = Delete([l EXCEPT ![i] = Merged(l[i], l[j])], j)
        PROVE  /\ CombineWorkList(l) \in PairedLists(G, Rel)
               /\ CoveredBy(Cov, l) \subseteq CoveredBy(Cov, CombineWorkList(l))
    <2>. DEFINE m == Merged(l[i], l[j])
                n == [l EXCEPT ![i] = m]
                r == Delete(n, j)
                from(k) == IF k < j THEN k ELSE k + 1
                to(k) == IF k < j THEN k ELSE k - 1
    <2>1. l[i] \in G /\ l[j] \in G /\ <<l[i], l[j]>> \in Rel /\ <<l[j], l[i]>> \in Rel
      BY <1>1, <1>3 DEF PairedLists
    <2>2. /\ m \in G /\ Cov[l[i]] \cup Cov[l[j]] \subseteq Cov[m]
          /\ \A g \in G : /\ <<l[i], g>> \in Rel /\ <<l[j], g>> \in Rel => <<m, g>> \in Rel
                          /\ <<g, l[i]>> \in Rel /\ <<g, l[j]>> \in Rel => <<g, m>> \in Rel
      BY <1>3, <2>1, Zenon DEF MergesWithin
    <2>. HIDE DEF m
    <2>3. n \in Seq(G) /\ Len(n) = Len(l) /\ \A k \in 1 .. Len(l) : n[k] = IF k = i THEN m ELSE l[k]
      BY <1>1, <2>2
    <2>. HIDE DEF n
    <2>4. r \in Seq(G) /\ Len(r) = Len(l) - 1 /\ \A k \in 1 .. Len(l) - 1 : r[k] = n[from(k)]
      BY <1>3, <2>3, Deleted
    <2>. HIDE DEF r
    <2>5. Len(l) \in Nat  BY <1>1
    <2>6. ASSUME NEW a \in 1 .. Len(r), NEW b \in 1 .. Len(r), a # b
          PROVE  <<r[a], r[b]>> \in Rel
      <3>1. /\ from(a) \in 1 .. Len(l) /\ from(b) \in 1 .. Len(l) /\ from(a) # from(b)
            /\ from(a) # j /\ from(b) # j
        BY <1>3, <2>4, <2>5, <2>6
      <3>2. r[a] = n[from(a)] /\ r[b] = n[from(b)]  BY <2>4, <2>6
      <3>. HIDE DEF from
      <3>3. CASE from(a) = i
        <4>1. r[a] = m /\ r[b] = l[from(b)] /\ l[from(b)] \in G  BY <1>1, <2>3, <3>1, <3>2, <3>3
        <4>2. <<l[i], l[from(b)]>> \in Rel /\ <<l[j], l[from(b)]>> \in Rel
          BY <1>3, <3>1, <3>3 DEF PairedLists
        <4>. QED  BY <2>2, <4>1, <4>2
      <3>4. CASE from(b) = i
        <4>1. r[b] = m /\ r[a] = l[from(a)] /\ l[from(a)] \in G  BY <1>1, <2>3, <3>1, <3>2, <3>4
        <4>2. <<l[from(a)], l[i]>> \in Rel /\ <<l[from(a)], l[j]>> \in Rel
          BY <1>3, <3>1, <3>4 DEF PairedLists
        <4>. QED  BY <2>2, <4>1, <4>2
      <3>5. CASE from(a) # i /\ from(b) # i
        BY <2>3, <3>1, <3>2, <3>5 DEF PairedLists
      <3>. QED  BY <3>3, <3>4, <3>5
    <2>7. r \in PairedLists(G, Rel)  BY <2>4, <2>6 DEF PairedLists
    <2>8. ASSUME NEW u, NEW k \in 1 .. Len(l), u \in Cov[l[k]]
          PROVE  u \in CoveredBy(Cov, r)
      <3>1. \E a \in 1 .. Len(l) : a # j /\ u \in Cov[n[a]]
        BY <1>3, <2>2, <2>3, <2>8
      <3>2. PICK a \in 1 .. Len(l) : a # j /\ u \in Cov[n[a]]  BY <3>1
      <3>3. to(a) \in 1 .. Len(l) - 1 /\ from(to(a)) = a  BY <1>3, <2>5, <3>2
      <3>. HIDE DEF to, from
      <3>4. r[to(a)] = n[a] /\ to(a) \in 1 .. Len(r)  BY <2>4, <3>3
      <3>. QED  BY <3>2, <3>4 DEF CoveredBy
    <2>. QED  BY <1>3, <2>7, <2>8 DEF CoveredBy, r, n, m
  <1>. QED  BY <1>1, <1>2, <1>3, CombineTurn

\* So does an exchange of the sort.
LEMMA SwapPaired ==
    ASSUME NEW G, NEW Rel, NEW Cov, NEW l \in PairedLists(G, Rel),
           NEW i \in 1 .. Len(l), NEW j \in 1 .. Len(l)
    PROVE  /\ SwapIfBefore(l, i, j) \in PairedLists(G, Rel)
           /\ CoveredBy(Cov, l) \subseteq CoveredBy(Cov, SwapIfBefore(l, i, j))
  <1>. DEFINE s == [l EXCEPT ![i] = l[j], ![j] = l[i]]
              from(k) == IF k = i THEN j ELSE IF k = j THEN i ELSE k
  <1>0. l \in Seq(G)  BY DEF PairedLists
  <1>1. CASE SwapIfBefore(l, i, j) = l  BY <1>1
  <1>2. CASE SwapIfBefore(l, i, j) = s
    <2>1. s \in Seq(G) /\ Len(s) = Len(l) /\ \A k \in 1 .. Len(l) : s[k] = l[from(k)]  BY <1>0
    <2>2. \A k, m \in 1 .. Len(l) : /\ from(k) \in 1 .. Len(l) /\ (k # m => from(k) # from(m))
                                    /\ from(from(k)) = k
      OBVIOUS
    <2>. HIDE DEF s, from
    <2>3. s \in PairedLists(G, Rel)
      <3>1. ASSUME NEW a \in 1 .. Len(s), NEW b \in 1 .. Len(s), a # b  PROVE <<s[a], s[b]>> \in Rel
        BY <2>1, <2>2, <3>1 DEF PairedLists
      <3>. QED  BY <2>1, <3>1 DEF PairedLists
    <2>4. ASSUME NEW u, NEW k \in 1 .. Len(l), u \in Cov[l[k]]
          PROVE  u \in CoveredBy(Cov, s)
      <3>1. from(k) \in 1 .. Len(s) /\ s[from(k)] = l[k]  BY <2>1, <2>2
      <3>. QED  BY <2>4, <3>1 DEF CoveredBy
    <2>. QED  BY <1>2, <2>3, <2>4 DEF CoveredBy
  <1>. QED  BY <1>0, <1>1, <1>2, SwapTurn

\* What add_work_list makes of a list with a free place, and of an entry in Rel to all of it.
LEMMA AddPaired ==
    ASSUME NEW G \in SUBSET Entries, NEW Rel, NEW Cov, MergesWithin(G, Rel, Cov),
           NEW l \in PairedLists(G, Rel), ~ListFull(l), NEW e \in G,
           \A k \in 1 .. Len(l) : <<l[k], e>> \in Rel /\ <<e, l[k]>> \in Rel
    PROVE  /\ AddWorkList(l, e) \in PairedLists(G, Rel)
           /\ CoveredBy(Cov, l) \cup Cov[e] \subseteq CoveredBy(Cov, AddWorkList(l, e))
           /\ \A i, j \in 1 .. Len(AddWorkList(l, e)) : i < j => ~Before(AddWorkList(l, e)[j], AddWorkList(l, e)[i])
  <1>. DEFINE a == Append(l, e)
              U == CoveredBy(Cov, l) \cup Cov[e]
              S == {s \in PairedLists(G, Rel) : U \subseteq CoveredBy(Cov, s)}
  <1>1. l \in Seq(G) /\ Len(l) \in Nat  BY DEF PairedLists
  <1>2. /\ a \in Seq(G) /\ Len(a) = Len(l) + 1 /\ a[Len(l) + 1] = e
        /\ \A k \in 1 .. Len(l) : a[k] = l[k]
    BY <1>1
  <1>. HIDE DEF a
  <1>3. a \in PairedLists(G, Rel)
    <2>1. ASSUME NEW i \in 1 .. Len(a), NEW j \in 1 .. Len(a), i # j  PROVE <<a[i], a[j]>> \in Rel
      <3>1. CASE i = Len(l) + 1
        <4>1. j \in 1 .. Len(l)  BY <1>1, <1>2, <2>1, <3>1
        <4>. QED  BY <1>2, <3>1, <4>1
      <3>2. CASE j = Len(l) + 1
        <4>1. i \in 1 .. Len(l)  BY <1>1, <1>2, <2>1, <3>2
        <4>. QED  BY <1>2, <3>2, <4>1
      <3>3. CASE i # Len(l) + 1 /\ j # Len(l) + 1
        <4>1. i \in 1 .. Len(l) /\ j \in 1 .. Len(l)  BY <1>1, <1>2, <3>3
        <4>. QED  BY <1>2, <2>1, <4>1 DEF PairedLists
      <3>. QED  BY <3>1, <3>2, <3>3
    <2>. QED  BY <1>2, <2>1 DEF PairedLists
  <1>4. U \subseteq CoveredBy(Cov, a)
    <2>1. ASSUME NEW u, NEW k \in 1 .. Len(l), u \in Cov[l[k]]  PROVE u \in CoveredBy(Cov, a)
      <3>1. k \in 1 .. Len(a) /\ a[k] = l[k]  BY <1>1, <1>2
      <3>. QED  BY <2>1, <3>1 DEF CoveredBy
    <2>2. Cov[e] \subseteq CoveredBy(Cov, a)
      <3>1. Len(l) + 1 \in 1 .. Len(a)  BY <1>1, <1>2
      <3>. QED  BY <1>2, <3>1 DEF CoveredBy
    <2>. QED  BY <2>1, <2>2 DEF CoveredBy
  <1>5. a \in S  BY <1>3, <1>4
  <1>6. S \in SUBSET Seq(Entries)  BY DEF PairedLists
  <1>7. \A s \in S : CombineWorkList(s) \in S  BY CombinePaired
  <1>8. \A s \in S : \A i, j \in 1 .. Len(s) : SwapIfBefore(s, i, j) \in S  BY SwapPaired
  <1>. HIDE DEF S
  <1>9. TidyWorkList(a) \in S  BY <1>5, <1>6, <1>7, <1>8, TidyWithin
  <1>10. AddWorkList(l, e) = TidyWorkList(a)  BY DEF AddWorkList, a
  <1>11. a \in Seq(Entries)  BY <1>5, <1>6
  <1>. QED  BY <1>9, <1>10, <1>11, TidyIsTidy DEF S

-----------------------------------------------------------------------------
\* Entries as rectangles.  What follows is about lists whose entries lie in a frame (a
\* record with start and stop, as an entry has them), share no pixel, and begin within
\* themselves.

Area(e) == [x : e.start.x .. e.stop.x, y : e.start.y .. e.stop.y]

Within(f, e) == /\ f.start.x <= e.start.x /\ e.start.x <= e.stop.x /\ e.stop.x <= f.stop.x
                /\ f.start.y <= e.start.y /\ e.start.y <= e.stop.y /\ e.stop.y <= f.stop.y

Framed(f) == {e \in Entries : Within(f, e) /\ e.begin \in Area(e)}

\* The ones that leave the pixels of R alone.
Clear(f, R) == {e \in Framed(f) : Area(e) \cap R = {}}

Apart == {p \in Entries \X Entries : Area(p[1]) \cap Area(p[2]) = {}}
Areas == [e \in Entries |-> Area(e)]

Tables(f, R) == {l \in PairedLists(Clear(f, R), Apart) : Len(l) <= MaxCalcWork}

IsFrame(f) == f.start \in Points /\ f.stop \in Points

LEMMA FrameNumbers ==
    ASSUME NEW f, IsFrame(f)
    PROVE  f.start.x \in Int /\ f.start.y \in Int /\ f.stop.x \in Int /\ f.stop.y \in Int
  BY DEF IsFrame, Points

LEMMA EntryFrame ==
    ASSUME NEW e \in Entries  PROVE IsFrame(e) /\ e.begin \in Points
  BY DEF Entries, IsFrame

LEMMA InArea ==
    ASSUME NEW e, IsFrame(e), NEW p
    PROVE  p \in Area(e) <=> /\ p \in Points /\ p.x \in Int /\ p.y \in Int
                            /\ e.start.x <= p.x /\ p.x <= e.stop.x
                            /\ e.start.y <= p.y /\ p.y <= e.stop.y
  BY DEF IsFrame, Points, Area

\* m is a with b, which follows it directly below or on the right.
Appended(a, b, m) ==
    /\ m.start = a.start /\ m.begin = a.begin /\ m.stop = b.stop
    /\ \/ a.stop.y + 1 = b.start.y /\ a.start.x = b.start.x /\ a.stop.x = b.stop.x
       \/ a.stop.x + 1 = b.start.x /\ a.start.y = b.start.y /\ a.stop.y = b.stop.y

LEMMA MergeAppends ==
    ASSUME NEW g, NEW e \in Framed(g), NEW f \in Framed(g), Combinable(e, f)
    PROVE  Appended(e, f, Merged(e, f)) \/ Appended(f, e, Merged(e, f))
  <1>1. /\ e.start.x <= e.stop.x /\ e.start.y <= e.stop.y
        /\ f.start.x <= f.stop.x /\ f.start.y <= f.stop.y
        /\ e \in Entries /\ f \in Entries
    BY DEF Framed, Within
  <1>2. /\ e.start \in Points /\ e.stop \in Points /\ f.start \in Points /\ f.stop \in Points
        /\ e.begin \in Points /\ f.begin \in Points
        /\ e.start.x \in Int /\ e.stop.x \in Int /\ f.start.x \in Int /\ f.stop.x \in Int
        /\ e.start.y \in Int /\ e.stop.y \in Int /\ f.start.y \in Int /\ f.stop.y \in Int
    BY <1>1 DEF Entries, Points
  <1>3. CASE Above(e, f)
    <2>1. ~Above(f, e) /\ ~LeftOf(e, f)  BY <1>1, <1>2, <1>3 DEF Above, LeftOf, Touches
    <2>2. Merged(e, f) = [e EXCEPT !.stop.y = f.stop.y]  BY <1>3, <2>1, MergedCases
    <2>3. e.stop.x = f.stop.x  BY <1>3 DEF Above, Touches
    <2>4. [e.stop EXCEPT !.y = f.stop.y] = f.stop  BY <1>2, <2>3 DEF Points
    <2>5. Merged(e, f) = [e EXCEPT !.stop = f.stop]  BY <1>1, <2>2, <2>4 DEF Entries
    <2>6. Appended(e, f, [e EXCEPT !.stop = f.stop])
      BY <1>1, <1>3 DEF Above, Touches, Appended, Entries
    <2>. QED  BY <2>5, <2>6
  <1>4. CASE Above(f, e)
    <2>1. ~Above(e, f) /\ ~LeftOf(e, f)  BY <1>1, <1>2, <1>4 DEF Above, LeftOf, Touches
    <2>2. Merged(e, f) = [e EXCEPT !.start.y = f.start.y, !.begin.y = f.begin.y]
      BY <1>4, <2>1, MergedCases
    <2>3. e.start.x = f.start.x /\ e.begin.x = f.begin.x  BY <1>4 DEF Above, Touches
    <2>4. [e.start EXCEPT !.y = f.start.y] = f.start /\ [e.begin EXCEPT !.y = f.begin.y] = f.begin
      BY <1>2, <2>3 DEF Points
    <2>5. Merged(e, f) = [e EXCEPT !.start = f.start, !.begin = f.begin]
      BY <1>1, <2>2, <2>4 DEF Entries
    <2>6. Appended(f, e, [e EXCEPT !.start = f.start, !.begin = f.begin])
      BY <1>1, <1>4 DEF Above, Touches, Appended, Entries
    <2>. QED  BY <2>5, <2>6
  <1>5. CASE ~Above(e, f) /\ ~Above(f, e) /\ LeftOf(e, f)
    <2>1. Merged(e, f) = [e EXCEPT !.stop.x = f.stop.x]  BY <1>5, MergedCases
    <2>2. e.stop.y = f.stop.y  BY <1>5 DEF LeftOf, Touches
    <2>3. [e.stop EXCEPT !.x = f.stop.x] = f.stop  BY <1>2, <2>2 DEF Points
    <2>4. Merged(e, f) = [e EXCEPT !.stop = f.stop]  BY <1>1, <2>1, <2>3 DEF Entries
    <2>5. Appended(e, f, [e EXCEPT !.stop = f.stop])
      BY <1>1, <1>5 DEF LeftOf, Touches, Appended, Entries
    <2>. QED  BY <2>4, <2>5
  <1>6. CASE ~Above(e, f) /\ ~Above(f, e) /\ ~LeftOf(e, f)
    <2>1. LeftOf(f, e)  BY <1>6 DEF Combinable
    <2>2. Merged(e, f) = [e EXCEPT !.start.x = f.start.x, !.begin.x = f.begin.x]
      BY <1>6, MergedCases
    <2>3. e.start.y = f.start.y /\ e.begin.y = f.begin.y  BY <2>1 DEF LeftOf, Touches
    <2>4. [e.start EXCEPT !.x = f.start.x] = f.start /\ [e.begin EXCEPT !.x = f.begin.x] = f.begin
      BY <1>2, <2>3 DEF Points
    <2>5. Merged(e, f) = [e EXCEPT !.start = f.start, !.begin = f.begin]
      BY <1>1, <2>2, <2>4 DEF Entries
    <2>6. Appended(f, e, [e EXCEPT !.start = f.start, !.begin = f.begin])
      BY <1>1, <2>1 DEF LeftOf, Touches, Appended, Entries
    <2>. QED  BY <2>5, <2>6
  <1>. QED  BY <1>3, <1>4, <1>5, <1>6

\* The merged rectangle is both.
LEMMA AppendedFramed ==
    ASSUME NEW f, IsFrame(f), NEW a \in Framed(f), NEW b \in Framed(f),
           NEW m \in Entries, Appended(a, b, m)
    PROVE  m \in Framed(f) /\ Area(m) = Area(a) \cup Area(b)
  <1>1. /\ a \in Entries /\ Within(f, a) /\ a.begin \in Area(a)
        /\ b \in Entries /\ Within(f, b) /\ IsFrame(a) /\ IsFrame(b) /\ IsFrame(m)
    BY EntryFrame DEF Framed
  <1>2. /\ a.start.x \in Int /\ a.start.y \in Int /\ a.stop.x \in Int /\ a.stop.y \in Int
        /\ b.start.x \in Int /\ b.start.y \in Int /\ b.stop.x \in Int /\ b.stop.y \in Int
        /\ f.start.x \in Int /\ f.start.y \in Int /\ f.stop.x \in Int /\ f.stop.y \in Int
    BY <1>1, FrameNumbers
  <1>3. \A p : p \in Area(m) <=> p \in Area(a) \/ p \in Area(b)
    BY <1>1, <1>2, InArea DEF Appended, Within
  <1>4. Within(f, m)  BY <1>1, <1>2 DEF Appended, Within
  <1>5. m.begin \in Area(m)  BY <1>1, <1>3 DEF Appended
  <1>. QED  BY <1>3, <1>4, <1>5 DEF Framed

\* Merging keeps entries in their frame, off the pixels they leave alone, and apart.
LEMMA MergesClear ==
    ASSUME NEW f, IsFrame(f), NEW R  PROVE MergesWithin(Clear(f, R), Apart, Areas)
  <1>. DEFINE G == Clear(f, R)
  <1>1. SUFFICES ASSUME NEW d \in G, NEW e \in G, Combinable(d, e)
                 PROVE  /\ Merged(d, e) \in G /\ Areas[d] \cup Areas[e] \subseteq Areas[Merged(d, e)]
                        /\ \A g \in G :
                              /\ <<d, g>> \in Apart /\ <<e, g>> \in Apart => <<Merged(d, e), g>> \in Apart
                              /\ <<g, d>> \in Apart /\ <<g, e>> \in Apart => <<g, Merged(d, e)>> \in Apart
    BY DEF MergesWithin
  <1>. DEFINE m == Merged(d, e)
  <1>2. /\ d \in Framed(f) /\ Area(d) \cap R = {} /\ d \in Entries
        /\ e \in Framed(f) /\ Area(e) \cap R = {} /\ e \in Entries
    BY DEF Clear, Framed
  <1>3. m \in Entries  BY <1>2, MergedIsEntry
  <1>4. Appended(d, e, m) \/ Appended(e, d, m)  BY <1>1, <1>2, MergeAppends
  <1>. HIDE DEF m
  <1>5. m \in Framed(f) /\ Area(m) = Area(d) \cup Area(e)
    BY <1>2, <1>3, <1>4, AppendedFramed
  <1>6. m \in G  BY <1>2, <1>5 DEF Clear
  <1>7. Areas[d] \cup Areas[e] \subseteq Areas[m]  BY <1>2, <1>3, <1>5 DEF Areas
  <1>8. \A g \in G : /\ <<d, g>> \in Apart /\ <<e, g>> \in Apart => <<m, g>> \in Apart
                     /\ <<g, d>> \in Apart /\ <<g, e>> \in Apart => <<g, m>> \in Apart
    BY <1>3, <1>5 DEF Apart
  <1>. QED  BY <1>6, <1>7, <1>8 DEF m

\* What a table is.
LEMMA InTable ==
    ASSUME NEW f, NEW R, NEW l
    PROVE  l \in Tables(f, R) <=>
              /\ l \in Seq(Entries) /\ Len(l) <= MaxCalcWork
              /\ \A k \in 1 .. Len(l) : l[k] \in Clear(f, R)
              /\ \A i, j \in 1 .. Len(l) : i # j => Area(l[i]) \cap Area(l[j]) = {}
  <1>1. Clear(f, R) \subseteq Entries  BY DEF Clear, Framed
  <1>2. l \in Seq(Entries) /\ (\A k \in 1 .. Len(l) : l[k] \in Clear(f, R)) <=> l \in Seq(Clear(f, R))
    <2>1. ASSUME l \in Seq(Entries), \A k \in 1 .. Len(l) : l[k] \in Clear(f, R)
          PROVE  l \in Seq(Clear(f, R))
      BY <2>1
    <2>2. ASSUME l \in Seq(Clear(f, R))
          PROVE  l \in Seq(Entries) /\ \A k \in 1 .. Len(l) : l[k] \in Clear(f, R)
      BY <1>1, <2>2
    <2>. QED  BY <2>1, <2>2
  <1>3. ASSUME l \in Seq(Entries), NEW i \in 1 .. Len(l), NEW j \in 1 .. Len(l)
        PROVE  <<l[i], l[j]>> \in Apart <=> Area(l[i]) \cap Area(l[j]) = {}
    BY <1>3 DEF Apart
  <1>. QED  BY <1>1, <1>2, <1>3 DEF Tables, PairedLists

\* An entry apart from all of the table is added to it.
LEMMA AddClear ==
    ASSUME NEW f, IsFrame(f), NEW R, NEW l \in Tables(f, R), ~ListFull(l), NEW e \in Clear(f, R),
           \A k \in 1 .. Len(l) : Area(l[k]) \cap Area(e) = {}
    PROVE  /\ AddWorkList(l, e) \in Tables(f, R)
           /\ CoveredBy(Areas, l) \cup Area(e) \subseteq CoveredBy(Areas, AddWorkList(l, e))
  <1>1. Clear(f, R) \subseteq Entries  BY DEF Clear, Framed
  <1>2. /\ l \in PairedLists(Clear(f, R), Apart) /\ l \in Seq(Entries) /\ Len(l) <= MaxCalcWork
        /\ \A k \in 1 .. Len(l) : l[k] \in Entries
    BY <1>1, InTable DEF Tables
  <1>3. \A k \in 1 .. Len(l) : <<l[k], e>> \in Apart /\ <<e, l[k]>> \in Apart
    BY <1>1, <1>2 DEF Apart
  <1>4. MergesWithin(Clear(f, R), Apart, Areas)  BY MergesClear
  <1>5. /\ AddWorkList(l, e) \in PairedLists(Clear(f, R), Apart)
        /\ CoveredBy(Areas, l) \cup Areas[e] \subseteq CoveredBy(Areas, AddWorkList(l, e))
    BY <1>1, <1>2, <1>3, <1>4, AddPaired
  <1>6. Len(AddWorkList(l, e)) <= MaxCalcWork  BY <1>1, <1>2, AddWorkListType
  <1>7. Areas[e] = Area(e)  BY <1>1 DEF Areas
  <1>. QED  BY <1>5, <1>6, <1>7 DEF Tables

\* And a table is tidied.
LEMMA TidyClear ==
    ASSUME NEW f, IsFrame(f), NEW R, NEW l \in Tables(f, R)
    PROVE  /\ TidyWorkList(l) \in Tables(f, R)
           /\ CoveredBy(Areas, l) \subseteq CoveredBy(Areas, TidyWorkList(l))
  <1>. DEFINE G == Clear(f, R)
              S == {s \in Tables(f, R) : CoveredBy(Areas, l) \subseteq CoveredBy(Areas, s)}
  <1>1. G \subseteq Entries  BY DEF Clear, Framed
  <1>2. \A s \in S : s \in PairedLists(G, Apart) /\ s \in Seq(Entries) /\ Len(s) <= MaxCalcWork
    BY InTable DEF Tables
  <1>3. S \in SUBSET Seq(Entries) /\ l \in S  BY <1>2
  <1>4. ASSUME NEW s \in S  PROVE CombineWorkList(s) \in S
    <2>1. /\ CombineWorkList(s) \in PairedLists(G, Apart)
          /\ CoveredBy(Areas, s) \subseteq CoveredBy(Areas, CombineWorkList(s))
      BY <1>1, <1>2, MergesClear, CombinePaired
    <2>2. Len(CombineWorkList(s)) <= Len(s) /\ CombineWorkList(s) \in Seq(Entries)
      BY <1>2, CombineType
    <2>3. Len(CombineWorkList(s)) <= MaxCalcWork
      BY <1>2, <2>2, MaxCalcWorkAssumption
    <2>. QED  BY <2>1, <2>3 DEF Tables
  <1>5. ASSUME NEW s \in S, NEW i \in 1 .. Len(s), NEW j \in 1 .. Len(s)
        PROVE  SwapIfBefore(s, i, j) \in S
    <2>1. /\ SwapIfBefore(s, i, j) \in PairedLists(G, Apart)
          /\ CoveredBy(Areas, s) \subseteq CoveredBy(Areas, SwapIfBefore(s, i, j))
      BY <1>2, SwapPaired
    <2>2. Len(SwapIfBefore(s, i, j)) = Len(s)  BY <1>2, SwapTurn
    <2>. QED  BY <1>2, <2>1, <2>2 DEF Tables
  <1>. HIDE DEF S
  <1>6. TidyWorkList(l) \in S  BY <1>3, <1>4, <1>5, TidyWithin
  <1>. QED  BY <1>6 DEF S

===============================================================================
