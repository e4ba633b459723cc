-------------------------- MODULE WorkListSpec_proofs --------------------------
(***************************************************************************)
(* What WorkListSpec promises for a table of any size and rectangles of    *)
(* any coordinates: the list is well formed, merging and sorting forget no *)
(* pixel, and no two entries ever overlap.                                 *)
(***************************************************************************)
EXTENDS WorkListSpec, WorkList_proofs


Disjoint(l) == \A i, j \in 1 .. Len(l) :
                  i # j => Rectangle(l[i]) \cap Rectangle(l[j]) = {}

\* A pixel is owed by some entry of the list.
Covers(l, what) == \A o \in what : \E k \in 1 .. Len(l) : o \in Owes(l[k])

\* The invariant: TypeOK and NoOverlap speak of one list only, but a merge keeps
\* them, and owes all that was owed, only when the entries are proper.
Good(l, what) == /\ \A k \in 1 .. Len(l) : Proper(l[k])
                 /\ Disjoint(l) /\ Covers(l, what)

IInv == TypeOK /\ Good(list, owed)

-----------------------------------------------------------------------------
\* The coordinates of an entry are integers.
LEMMA EntryInts ==
    ASSUME NEW e \in Entries
    PROVE  /\ e.start \in Points /\ e.stop \in Points /\ e.begin \in Points
           /\ e.start.x \in Int /\ e.stop.x \in Int /\ e.begin.x \in Int
           /\ e.start.y \in Int /\ e.stop.y \in Int /\ e.begin.y \in Int
  BY DEF Entries, Points

\* Membership in what an entry owes, in coordinates.
LEMMA OwesCoordinates ==
    ASSUME NEW e, NEW x \in Int, NEW y \in Int, NEW pass
    PROVE  <<x, y, pass>> \in Owes(e) <=>
              /\ pass = e.pass
              /\ x \in e.start.x .. e.stop.x /\ y \in e.start.y .. e.stop.y
              /\ y > e.begin.y \/ (y = e.begin.y /\ x >= e.begin.x)
  <1>1. <<x, y, pass>> \in Owes(e) <=> pass = e.pass /\ <<x, y>> \in Pixels(e)
    <2>1. ASSUME <<x, y, pass>> \in Owes(e)  PROVE pass = e.pass /\ <<x, y>> \in Pixels(e)
      <3>1. PICK p \in Pixels(e) : <<x, y, pass>> = <<p[1], p[2], e.pass>>
        BY <2>1 DEF Owes
      <3>2. p = <<p[1], p[2]>>  BY DEF Pixels, Rectangle
      <3>. QED  BY <3>1, <3>2
    <2>2. ASSUME pass = e.pass, <<x, y>> \in Pixels(e)  PROVE <<x, y, pass>> \in Owes(e)
      BY <2>2 DEF Owes
    <2>. QED  BY <2>1, <2>2
  <1>2. <<x, y>> \in Pixels(e) <=>
           /\ x \in e.start.x .. e.stop.x /\ y \in e.start.y .. e.stop.y
           /\ y > e.begin.y \/ (y = e.begin.y /\ x >= e.begin.x)
    BY DEF Pixels, Rectangle
  <1>. QED  BY <1>1, <1>2

\* A merged entry is proper, covers no more than the two it is made of, and owes
\* all that they owed.
LEMMA MergeKeeps ==
    ASSUME NEW e \in Entries, NEW f \in Entries, Proper(e), Proper(f), Combinable(e, f)
    PROVE  /\ Proper(Merged(e, f))
           /\ Rectangle(Merged(e, f)) \subseteq Rectangle(e) \cup Rectangle(f)
           /\ Owes(e) \cup Owes(f) \subseteq Owes(Merged(e, f))
  <1>. DEFINE m == Merged(e, f)
              Owing(g, x, y) ==
                  /\ x \in g.start.x .. g.stop.x /\ y \in g.start.y .. g.stop.y
                  /\ y > g.begin.y \/ (y = g.begin.y /\ x >= g.begin.x)
              Kept == /\ Proper(m) /\ m.pass = e.pass
                      /\ \A x, y \in Int :
                            /\ x \in m.start.x .. m.stop.x /\ y \in m.start.y .. m.stop.y
                            => \/ x \in e.start.x .. e.stop.x /\ y \in e.start.y .. e.stop.y
                               \/ x \in f.start.x .. f.stop.x /\ y \in f.start.y .. f.stop.y
                      /\ \A x, y \in Int : Owing(e, x, y) \/ Owing(f, x, y) => Owing(m, x, y)
  <1>ints. /\ e.start.x \in Int /\ e.stop.x \in Int /\ e.begin.x \in Int
        /\ e.start.y \in Int /\ e.stop.y \in Int /\ e.begin.y \in Int
        /\ f.start.x \in Int /\ f.stop.x \in Int /\ f.begin.x \in Int
        /\ f.start.y \in Int /\ f.stop.y \in Int /\ f.begin.y \in Int
        /\ m \in Entries
        /\ e.start.y = e.begin.y /\ f.start = f.begin /\ f.pass = e.pass
        /\ Proper(e) /\ Proper(f)
    BY EntryInts, MergedIsEntry DEF Combinable, FreelyMerge
  <1>1. ASSUME Above(e, f)  PROVE Kept
    <2>a. Above(e, f) /\ ~Above(f, e) /\ ~LeftOf(e, f)
      BY <1>ints, <1>1 DEF Above, LeftOf, Touches, Proper
    <2>0. m = [e EXCEPT !.stop.y = f.stop.y]
      BY <2>a, MergedCases
    <2>1. /\ m.start = e.start /\ m.begin = e.begin /\ m.pass = e.pass
          /\ m.stop.x = e.stop.x /\ m.stop.y = f.stop.y
      BY <2>0 DEF Entries, Points
    <2>2. Proper(m) /\ m.pass = e.pass
      BY <1>ints, <1>1, <2>1 DEF Above, LeftOf, Touches, Proper
    <2>3. \A x, y \in Int :
             /\ x \in m.start.x .. m.stop.x /\ y \in m.start.y .. m.stop.y
             => \/ x \in e.start.x .. e.stop.x /\ y \in e.start.y .. e.stop.y
                \/ x \in f.start.x .. f.stop.x /\ y \in f.start.y .. f.stop.y
      BY <1>ints, <1>1, <2>1 DEF Above, LeftOf, Touches, Proper
    <2>4. \A x, y \in Int : Owing(e, x, y) \/ Owing(f, x, y) => Owing(m, x, y)
      BY <1>ints, <1>1, <2>1 DEF Above, LeftOf, Touches, Proper
    <2>. QED  BY <2>2, <2>3, <2>4
  <1>2. ASSUME Above(f, e)  PROVE Kept
    <2>a. ~Above(e, f) /\ Above(f, e) /\ ~LeftOf(e, f)
      BY <1>ints, <1>2 DEF Above, LeftOf, Touches, Proper
    <2>0. m = [e EXCEPT !.start.y = f.start.y, !.begin.y = f.begin.y]
      BY <2>a, MergedCases
    <2>1. /\ m.stop = e.stop /\ m.pass = e.pass
          /\ m.start.x = e.start.x /\ m.start.y = f.start.y
          /\ m.begin.x = e.begin.x /\ m.begin.y = f.begin.y
      BY <2>0 DEF Entries, Points
    <2>2. Proper(m) /\ m.pass = e.pass
      BY <1>ints, <1>2, <2>1 DEF Above, LeftOf, Touches, Proper
    <2>3. \A x, y \in Int :
             /\ x \in m.start.x .. m.stop.x /\ y \in m.start.y .. m.stop.y
             => \/ x \in e.start.x .. e.stop.x /\ y \in e.start.y .. e.stop.y
                \/ x \in f.start.x .. f.stop.x /\ y \in f.start.y .. f.stop.y
      BY <1>ints, <1>2, <2>1 DEF Above, LeftOf, Touches, Proper
    <2>4. \A x, y \in Int : Owing(e, x, y) \/ Owing(f, x, y) => Owing(m, x, y)
      BY <1>ints, <1>2, <2>1 DEF Above, LeftOf, Touches, Proper
    <2>. QED  BY <2>2, <2>3, <2>4
  <1>3. ASSUME LeftOf(e, f)  PROVE Kept
    <2>a. ~Above(e, f) /\ ~Above(f, e) /\ LeftOf(e, f)
      BY <1>ints, <1>3 DEF Above, LeftOf, Touches, Proper
    <2>0. m = [e EXCEPT !.stop.x = f.stop.x]
      BY <2>a, MergedCases
    <2>1. /\ m.start = e.start /\ m.begin = e.begin /\ m.pass = e.pass
          /\ m.stop.x = f.stop.x /\ m.stop.y = e.stop.y
      BY <2>0 DEF Entries, Points
    <2>2. Proper(m) /\ m.pass = e.pass
      BY <1>ints, <1>3, <2>1 DEF Above, LeftOf, Touches, Proper
    <2>3. \A x, y \in Int :
             /\ x \in m.start.x .. m.stop.x /\ y \in m.start.y .. m.stop.y
             => \/ x \in e.start.x .. e.stop.x /\ y \in e.start.y .. e.stop.y
                \/ x \in f.start.x .. f.stop.x /\ y \in f.start.y .. f.stop.y
      BY <1>ints, <1>3, <2>1 DEF Above, LeftOf, Touches, Proper
    <2>4. \A x, y \in Int : Owing(e, x, y) \/ Owing(f, x, y) => Owing(m, x, y)
      BY <1>ints, <1>3, <2>1 DEF Above, LeftOf, Touches, Proper
    <2>. QED  BY <2>2, <2>3, <2>4
  <1>4. ASSUME LeftOf(f, e)  PROVE Kept
    <2>a. ~Above(e, f) /\ ~Above(f, e) /\ ~LeftOf(e, f)
      BY <1>ints, <1>4 DEF Above, LeftOf, Touches, Proper
    <2>0. m = [e EXCEPT !.start.x = f.start.x, !.begin.x = f.begin.x]
      BY <2>a, MergedCases
    <2>1. /\ m.stop = e.stop /\ m.pass = e.pass
          /\ m.start.x = f.start.x /\ m.start.y = e.start.y
          /\ m.begin.x = f.begin.x /\ m.begin.y = e.begin.y
      BY <2>0 DEF Entries, Points
    <2>2. Proper(m) /\ m.pass = e.pass
      BY <1>ints, <1>4, <2>1 DEF Above, LeftOf, Touches, Proper
    <2>3. \A x, y \in Int :
             /\ x \in m.start.x .. m.stop.x /\ y \in m.start.y .. m.stop.y
             => \/ x \in e.start.x .. e.stop.x /\ y \in e.start.y .. e.stop.y
                \/ x \in f.start.x .. f.stop.x /\ y \in f.start.y .. f.stop.y
      BY <1>ints, <1>4, <2>1 DEF Above, LeftOf, Touches, Proper
    <2>4. \A x, y \in Int : Owing(e, x, y) \/ Owing(f, x, y) => Owing(m, x, y)
      BY <1>ints, <1>4, <2>1 DEF Above, LeftOf, Touches, Proper
    <2>. QED  BY <2>2, <2>3, <2>4
  <1>5. Kept  BY <1>1, <1>2, <1>3, <1>4 DEF Combinable
  <1>. HIDE DEF m
  <1>6. Rectangle(m) \subseteq Rectangle(e) \cup Rectangle(f)
    BY <1>ints, <1>5, EntryInts DEF Rectangle
  <1>7. Owes(e) \cup Owes(f) \subseteq Owes(m)
    <2>. SUFFICES ASSUME NEW g \in {e, f}, NEW p \in Pixels(g)
                  PROVE  <<p[1], p[2], g.pass>> \in Owes(m)
      BY DEF Owes
    <2>1. p[1] \in Int /\ p[2] \in Int /\ Owing(g, p[1], p[2])
      BY <1>ints DEF Pixels, Rectangle
    <2>2. Owing(m, p[1], p[2]) /\ g.pass = m.pass  BY <1>ints, <1>5, <2>1
    <2>. QED  BY <2>1, <2>2, OwesCoordinates
  <1>. QED  BY <1>5, <1>6, <1>7 DEF m

-----------------------------------------------------------------------------
\* A turn of the combining loop keeps a good list good: the merged entry takes
\* the place of both, and what the two owed is owed by it.
LEMMA CombineKeeps ==
    ASSUME NEW l \in Seq(Entries), NEW what, Good(l, what)
    PROVE  Good(CombineWorkList(l), what)
  <1>1. CASE CombineWorkList(l) = l  BY <1>1
  <1>2. ASSUME NEW i \in 1 .. Len(l), NEW j \in 1 .. Len(l),
               i < j, Combinable(l[i], l[j]),
               CombineWorkList(l) = Delete([l EXCEPT ![i] = Merged(l[i], l[j])], j)
        PROVE  Good(CombineWorkList(l), what)
    <2>. DEFINE m == Merged(l[i], l[j])
                ml == [l EXCEPT ![i] = m]
                d == Delete(ml, j)
                from(k) == IF k < j THEN k ELSE k + 1
    <2>1. /\ Proper(m)
          /\ Rectangle(m) \subseteq Rectangle(l[i]) \cup Rectangle(l[j])
          /\ Owes(l[i]) \cup Owes(l[j]) \subseteq Owes(m)
      <3>1. l[i] \in Entries /\ l[j] \in Entries /\ Proper(l[i]) /\ Proper(l[j])
        BY DEF Good
      <3>. QED  BY <3>1, <1>2, MergeKeeps
    <2>2. m \in Entries  BY MergedIsEntry
    <2>. HIDE DEF m
    <2>3. ml \in Seq(Entries) /\ Len(ml) = Len(l)  BY <2>2
    <2>4. \A k \in 1 .. Len(l) : ml[k] = IF k = i THEN m ELSE l[k]  OBVIOUS
    <2>. HIDE DEF ml
    <2>5. /\ Len(d) = Len(l) - 1
          /\ \A k \in 1 .. Len(l) - 1 : d[k] = ml[from(k)]
      BY <2>3, Deleted
    <2>. HIDE DEF d
    <2>6. \A k \in 1 .. Len(d) : from(k) \in 1 .. Len(l) /\ from(k) # j
      BY <2>5
    <2>7. \A k \in 1 .. Len(d) : d[k] = IF from(k) = i THEN m ELSE l[from(k)]
      BY <2>4, <2>5, <2>6
    <2>8. \A k1, k2 \in 1 .. Len(d) : k1 # k2 => from(k1) # from(k2)
      BY <2>5
    <2>9. \A k \in 1 .. Len(l) : k # j => \E k1 \in 1 .. Len(d) : from(k1) = k
      <3>. TAKE k \in 1 .. Len(l)
      <3>. HAVE k # j
      <3>1. CASE k < j
        <4>1. k \in 1 .. Len(d) /\ from(k) = k  BY <2>5, <3>1
        <4>. QED  BY <4>1
      <3>2. CASE k > j
        <4>1. k - 1 \in 1 .. Len(d) /\ from(k - 1) = k  BY <2>5, <3>2
        <4>. QED  BY <4>1
      <3>. QED  BY <3>1, <3>2
    <2>. HIDE DEF from
    <2>10. \A k \in 1 .. Len(d) : Proper(d[k])  BY <2>1, <2>6, <2>7 DEF Good
    <2>11. Disjoint(d)
      <3>. SUFFICES ASSUME NEW k1 \in 1 .. Len(d), NEW k2 \in 1 .. Len(d), k1 # k2
                    PROVE  Rectangle(d[k1]) \cap Rectangle(d[k2]) = {}
        BY DEF Disjoint
      <3>. DEFINE a == from(k1)
                  b == from(k2)
      <3>1. /\ a \in 1 .. Len(l) /\ b \in 1 .. Len(l) /\ a # b /\ a # j /\ b # j
            /\ d[k1] = IF a = i THEN m ELSE l[a]
            /\ d[k2] = IF b = i THEN m ELSE l[b]
        BY <2>6, <2>7, <2>8
      <3>. HIDE DEF a, b
      <3>2. \A c1, c2 \in 1 .. Len(l) :
               c1 # c2 => Rectangle(l[c1]) \cap Rectangle(l[c2]) = {}
        BY DEF Good, Disjoint
      <3>3. CASE a = i
        <4>1. Rectangle(l[i]) \cap Rectangle(l[b]) = {} /\ Rectangle(l[j]) \cap Rectangle(l[b]) = {}
          BY <3>1, <3>2, <3>3
        <4>2. d[k1] = m /\ d[k2] = l[b]  BY <3>1, <3>3
        <4>. QED  BY <4>1, <4>2, <2>1
      <3>4. CASE b = i
        <4>1. Rectangle(l[a]) \cap Rectangle(l[i]) = {} /\ Rectangle(l[a]) \cap Rectangle(l[j]) = {}
          BY <3>1, <3>2, <3>4
        <4>2. d[k1] = l[a] /\ d[k2] = m  BY <3>1, <3>4
        <4>. QED  BY <4>1, <4>2, <2>1
      <3>5. CASE a # i /\ b # i  BY <3>1, <3>2, <3>5
      <3>. QED  BY <3>3, <3>4, <3>5
    <2>12. Covers(d, what)
      <3>. SUFFICES ASSUME NEW o \in what  PROVE \E k \in 1 .. Len(d) : o \in Owes(d[k])
        BY DEF Covers
      <3>1. PICK k \in 1 .. Len(l) : o \in Owes(l[k])  BY DEF Good, Covers
      <3>2. CASE k = i \/ k = j
        <4>1. o \in Owes(m)  BY <2>1, <3>1, <3>2
        <4>2. PICK k1 \in 1 .. Len(d) : from(k1) = i  BY <1>2, <2>9
        <4>3. d[k1] = m  BY <4>2, <2>7
        <4>. QED  BY <4>1, <4>3
      <3>3. CASE k # i /\ k # j
        <4>1. PICK k1 \in 1 .. Len(d) : from(k1) = k  BY <3>3, <2>9
        <4>2. d[k1] = l[k]  BY <4>1, <3>3, <2>7
        <4>. QED  BY <4>2, <3>1
      <3>. QED  BY <3>2, <3>3
    <2>13. CombineWorkList(l) = d  BY <1>2 DEF d, ml, m
    <2>. QED  BY <2>10, <2>11, <2>12, <2>13 DEF Good
  <1>. QED  BY <1>1, <1>2, CombineTurn

\* So does a turn of the sorting loop, which only moves entries.
LEMMA SwapKeeps ==
    ASSUME NEW l \in Seq(Entries), NEW what, Good(l, what),
           NEW i \in 1 .. Len(l), NEW j \in 1 .. Len(l)
    PROVE  Good(SwapIfBefore(l, i, j), what)
  <1>1. CASE SwapIfBefore(l, i, j) = l  BY <1>1
  <1>2. CASE i # j /\ SwapIfBefore(l, i, j) = [l EXCEPT ![i] = l[j], ![j] = l[i]]
    <2>. DEFINE s == [l EXCEPT ![i] = l[j], ![j] = l[i]]
                from(k) == IF k = i THEN j ELSE IF k = j THEN i ELSE k
    <2>1. Len(s) = Len(l) /\ \A k \in 1 .. Len(l) : s[k] = l[from(k)]  BY <1>2
    <2>. HIDE DEF s
    <2>2. \A k \in 1 .. Len(l) : from(k) \in 1 .. Len(l) /\ from(from(k)) = k  OBVIOUS
    <2>3. \A k1, k2 \in 1 .. Len(l) : k1 # k2 => from(k1) # from(k2)  BY <2>2
    <2>. HIDE DEF from
    <2>4. \A k \in 1 .. Len(s) : Proper(s[k])  BY <2>1, <2>2 DEF Good
    <2>5. Disjoint(s)
      <3>. SUFFICES ASSUME NEW k1 \in 1 .. Len(s), NEW k2 \in 1 .. Len(s), k1 # k2
                    PROVE  Rectangle(s[k1]) \cap Rectangle(s[k2]) = {}
        BY DEF Disjoint
      <3>1. /\ from(k1) \in 1 .. Len(l) /\ from(k2) \in 1 .. Len(l) /\ from(k1) # from(k2)
            /\ s[k1] = l[from(k1)] /\ s[k2] = l[from(k2)]
        BY <2>1, <2>2, <2>3
      <3>. QED  BY <3>1 DEF Good, Disjoint
    <2>6. Covers(s, what)
      <3>. SUFFICES ASSUME NEW o \in what  PROVE \E k \in 1 .. Len(s) : o \in Owes(s[k])
        BY DEF Covers
      <3>1. PICK k \in 1 .. Len(l) : o \in Owes(l[k])  BY DEF Good, Covers
      <3>2. s[from(k)] = l[k] /\ from(k) \in 1 .. Len(s)  BY <2>1, <2>2
      <3>. QED  BY <3>1, <3>2
    <2>7. SwapIfBefore(l, i, j) = s  BY <1>2 DEF s
    <2>. QED  BY <2>4, <2>5, <2>6, <2>7 DEF Good
  <1>. QED  BY <1>1, <1>2, SwapTurn

\* So tidy_work_list as a whole keeps a list of entries good.
LEMMA TidyKeeps ==
    ASSUME NEW l \in Seq(Entries), NEW what, Good(l, what)
    PROVE  Good(TidyWorkList(l), what)
  <1>. DEFINE S == {k \in Seq(Entries) : Good(k, what)}
  <1>1. \A k \in S : CombineWorkList(k) \in S
    <2>. TAKE k \in S
    <2>1. Good(CombineWorkList(k), what)  BY CombineKeeps
    <2>2. CombineWorkList(k) \in Seq(Entries)  BY CombineType
    <2>. QED  BY <2>1, <2>2
  <1>2. \A k \in S : \A i, j \in 1 .. Len(k) : SwapIfBefore(k, i, j) \in S
    <2>. TAKE k \in S
    <2>. TAKE i, j \in 1 .. Len(k)
    <2>1. Good(SwapIfBefore(k, i, j), what)  BY SwapKeeps
    <2>2. SwapIfBefore(k, i, j) \in Seq(Entries)  BY SwapTurn
    <2>. QED  BY <2>1, <2>2
  <1>3. S \in SUBSET Seq(Entries) /\ l \in S  OBVIOUS
  <1>4. TidyWorkList(l) \in S
    <2>. HIDE DEF S
    <2>. QED  BY <1>1, <1>2, <1>3, TidyWithin
  <1>. QED  BY <1>4

-----------------------------------------------------------------------------
\* The invariant.

LEMMA InitIInv == Init => IInv
  BY MaxCalcWorkAssumption DEF Init, IInv, TypeOK, Good, Disjoint, Covers

\* An addition: a refused entry is not owed, an accepted one overlaps no other.
LEMMA AddKeeps ==
    ASSUME IInv, NEW e \in Pool, Add(e)
    PROVE  IInv'
  <1>1. e \in Entries /\ Proper(e)  BY PoolAssumption
  <1>2. TypeOK'  BY <1>1, AddWorkListType DEF Add, IInv, TypeOK
  <1>3. CASE ListFull(list)
    <2>1. list' = list /\ owed' = owed  BY <1>3 DEF Add, AddWorkList
    <2>. QED  BY <2>1, <1>2 DEF IInv
  <1>4. CASE ~ListFull(list)
    <2>. DEFINE l == Append(list, e)
    <2>1. /\ list \in Seq(Entries) /\ l \in Seq(Entries) /\ Len(l) = Len(list) + 1
          /\ l[Len(list) + 1] = e
          /\ \A k \in 1 .. Len(list) : l[k] = list[k]
      BY <1>1 DEF IInv, TypeOK
    <2>2. list' = TidyWorkList(l) /\ owed' = owed \cup Owes(e)
      BY <1>4 DEF Add, AddWorkList
    <2>. HIDE DEF l
    <2>3. \A k \in 1 .. Len(list) : Rectangle(e) \cap Rectangle(list[k]) = {}  BY DEF Add
    <2>4. \A k \in 1 .. Len(l) : Proper(l[k])  BY <1>1, <2>1 DEF IInv, Good
    <2>5. Disjoint(l)
      <3>. SUFFICES ASSUME NEW i \in 1 .. Len(l), NEW j \in 1 .. Len(l), i # j
                    PROVE  Rectangle(l[i]) \cap Rectangle(l[j]) = {}
        BY DEF Disjoint
      <3>1. CASE i \in 1 .. Len(list) /\ j \in 1 .. Len(list)
        BY <2>1, <3>1 DEF IInv, Good, Disjoint
      <3>2. CASE i = Len(list) + 1
        <4>1. j \in 1 .. Len(list)  BY <2>1, <3>2
        <4>. QED  BY <2>1, <2>3, <3>2, <4>1
      <3>3. CASE j = Len(list) + 1
        <4>1. i \in 1 .. Len(list)  BY <2>1, <3>3
        <4>. QED  BY <2>1, <2>3, <3>3, <4>1
      <3>. QED  BY <2>1, <3>1, <3>2, <3>3
    <2>6. Covers(l, owed')
      <3>. SUFFICES ASSUME NEW o \in owed'  PROVE \E k \in 1 .. Len(l) : o \in Owes(l[k])
        BY DEF Covers
      <3>1. CASE o \in owed
        <4>1. PICK k \in 1 .. Len(list) : o \in Owes(list[k])
          BY <3>1 DEF IInv, Good, Covers
        <4>. QED  BY <4>1, <2>1
      <3>2. CASE o \in Owes(e)
        <4>1. Len(list) + 1 \in 1 .. Len(l)  BY <2>1
        <4>. QED  BY <2>1, <3>2, <4>1
      <3>. QED  BY <2>2, <3>1, <3>2
    <2>7. Good(l, owed')  BY <2>4, <2>5, <2>6 DEF Good
    <2>8. Good(TidyWorkList(l), owed')  BY <2>1, <2>7, TidyKeeps
    <2>. QED  BY <1>2, <2>2, <2>8 DEF IInv
  <1>. QED  BY <1>3, <1>4

\* The front entry is taken together with what it owes.
LEMMA PopKeeps == IInv /\ Pop => IInv'
  <1>. SUFFICES ASSUME IInv, Pop  PROVE IInv'
    OBVIOUS
  <1>1. /\ list \in Seq(Entries) /\ list # <<>>
        /\ list' \in Seq(Entries) /\ Len(list') = Len(list) - 1
        /\ \A k \in 1 .. Len(list') : list'[k] = list[k + 1]
        /\ Head(list) = list[1] /\ owed' = owed \ Owes(list[1])
    BY DEF IInv, TypeOK, Pop, PopWorkListFront
  <1>2. \A k \in 1 .. Len(list') : k + 1 \in 1 .. Len(list)  BY <1>1
  <1>3. TypeOK'  BY <1>1, MaxCalcWorkAssumption DEF IInv, TypeOK
  <1>4. \A k \in 1 .. Len(list') : Proper(list'[k])  BY <1>1, <1>2 DEF IInv, Good
  <1>5. Disjoint(list')
    <2>. SUFFICES ASSUME NEW i \in 1 .. Len(list'), NEW j \in 1 .. Len(list'), i # j
                  PROVE  Rectangle(list'[i]) \cap Rectangle(list'[j]) = {}
      BY DEF Disjoint
    <2>1. i + 1 # j + 1 /\ i + 1 \in 1 .. Len(list) /\ j + 1 \in 1 .. Len(list)  BY <1>2
    <2>. QED  BY <1>1, <2>1 DEF IInv, Good, Disjoint
  <1>6. Covers(list', owed')
    <2>. SUFFICES ASSUME NEW o \in owed'
                  PROVE  \E k \in 1 .. Len(list') : o \in Owes(list'[k])
      BY DEF Covers
    <2>1. PICK k \in 1 .. Len(list) : o \in Owes(list[k])
      BY <1>1 DEF IInv, Good, Covers
    <2>2. k # 1  BY <1>1, <2>1
    <2>3. k - 1 \in 1 .. Len(list') /\ list'[k - 1] = list[k]  BY <1>1, <2>2
    <2>. QED  BY <2>1, <2>3
  <1>. QED  BY <1>3, <1>4, <1>5, <1>6 DEF IInv, Good

LEMMA NextIInv == IInv /\ [Next]_vars => IInv'
  <1>. SUFFICES ASSUME IInv, [Next]_vars  PROVE IInv'
    OBVIOUS
  <1>1. ASSUME NEW e \in Pool, Add(e)  PROVE IInv'  BY <1>1, AddKeeps
  <1>2. CASE Pop  BY <1>2, PopKeeps
  <1>3. CASE UNCHANGED vars
    BY <1>3 DEF vars, IInv, TypeOK
  <1>. QED  BY <1>1, <1>2, <1>3 DEF Next

-----------------------------------------------------------------------------
\* The invariant holds of every behaviour.
THEOREM AlwaysIInv == Spec => []IInv
  <1>. QED  BY InitIInv, NextIInv, PTL DEF Spec

\* The list stays within its table and holds entries, whatever is added
\* (add_work_list and tidy_work_list of work_list.cpp).
THEOREM AlwaysTypeOK == Spec => []TypeOK
  <1>1. IInv => TypeOK  BY DEF IInv
  <1>. QED  BY <1>1, AlwaysIInv, PTL

\* Merging and sorting forget no pixel of any pass (combine_work_list).
THEOREM AlwaysNothingForgotten == Spec => []NothingForgotten
  <1>1. IInv => NothingForgotten
    <2>. SUFFICES ASSUME IInv, NEW o \in owed
                  PROVE  \E k \in 1 .. Len(list) : o \in Owes(list[k])
      BY DEF NothingForgotten
    <2>. QED  BY DEF IInv, Good, Covers
  <1>. QED  BY <1>1, AlwaysIInv, PTL

\* No two entries of the list ever overlap (combine_work_list).
THEOREM AlwaysNoOverlap == Spec => []NoOverlap
  <1>1. IInv => NoOverlap  BY DEF IInv, Good, Disjoint, NoOverlap
  <1>. QED  BY <1>1, AlwaysIInv, PTL

\* The list is sorted and fully combined after every call: the combining loop stops only
\* when no two entries merge, the exchanges that follow bring every pair into order and
\* no two entries together that would merge (tidy_work_list).
THEOREM AlwaysTidy == Spec => []Tidy
  <1>. DEFINE TidyInv == TypeOK /\ Tidy
  <1>1. Init => TidyInv
    BY MaxCalcWorkAssumption DEF Init, TypeOK, Tidy, InOrder, FullyCombined
  <1>2. ASSUME TidyInv, [Next]_vars  PROVE TidyInv'
    <2>1. ASSUME NEW e \in Pool, Add(e)  PROVE TidyInv'
      <3>1. e \in Entries  BY PoolAssumption
      <3>2. TypeOK'  BY <1>2, <2>1, <3>1, AddWorkListType DEF Add, TypeOK
      <3>3. CASE ListFull(list)
        <4>1. list' = list  BY <2>1, <3>3 DEF Add, AddWorkList
        <4>. QED  BY <1>2, <3>2, <4>1 DEF Tidy, InOrder, FullyCombined
      <3>4. CASE ~ListFull(list)
        <4>1. list' = TidyWorkList(Append(list, e))  BY <2>1, <3>4 DEF Add, AddWorkList
        <4>2. Append(list, e) \in Seq(Entries)  BY <1>2, <3>1 DEF TypeOK
        <4>. QED  BY <3>2, <4>1, <4>2, TidyIsTidy DEF Tidy, InOrder, FullyCombined, Settled
      <3>. QED  BY <3>3, <3>4
    <2>2. CASE Pop
      <3>1. /\ list' \in Seq(Entries) /\ Len(list') = Len(list) - 1
            /\ \A k \in 1 .. Len(list') : list'[k] = list[k + 1] /\ k + 1 \in 1 .. Len(list)
        BY <1>2, <2>2 DEF TypeOK, Pop, PopWorkListFront
      <3>2. TypeOK'  BY <1>2, <3>1, MaxCalcWorkAssumption DEF TypeOK
      <3>3. InOrder'  BY <1>2, <3>1 DEF Tidy, InOrder
      <3>4. FullyCombined'
        <4>. SUFFICES ASSUME NEW i \in 1 .. Len(list'), NEW j \in 1 .. Len(list'), i # j,
                             list'[i].begin = list'[i].start
                      PROVE  ~Combinable(list'[i], list'[j])
          BY DEF FullyCombined
        <4>1. i + 1 \in 1 .. Len(list) /\ j + 1 \in 1 .. Len(list) /\ i + 1 # j + 1  BY <3>1
        <4>2. list'[i] = list[i + 1] /\ list'[j] = list[j + 1]  BY <3>1
        <4>. QED  BY <1>2, <4>1, <4>2 DEF Tidy, FullyCombined
      <3>. QED  BY <3>2, <3>3, <3>4 DEF Tidy
    <2>3. CASE UNCHANGED vars
      BY <1>2, <2>3 DEF vars, TypeOK, Tidy, InOrder, FullyCombined
    <2>. QED  BY <1>2, <2>1, <2>2, <2>3 DEF Next
  <1>. QED  BY <1>1, <1>2, PTL DEF Spec

=============================================================================
