---------------------------- MODULE DiskVideo_proofs ----------------------------
(***************************************************************************)
(* The disk video keeps pixels, for any number of entries, size of a block *)
(* and of the hash table, any sessions, and whichever of its users comes   *)
(* next, the queue of points included: what the cache remembers of itself  *)
(* stays so (CacheAlwaysKept), a pixel reads as it was last written        *)
(* (CacheImplementsPixelStore), and points come out of the queue in order  *)
(* (RingImplementsPointQueue), and a Targa file is what was seen of it     *)
(* (TargaFileWritten).  The invariant is IInv, and for the queue QInv: no  *)
(* block of a queue leaves the cache.                                      *)
(***************************************************************************)
EXTENDS MiimQueue, TLAPS, FiniteSetTheorems, SequenceTheorems, WellFoundedInduction

-----------------------------------------------------------------------------
\* Numbers, sets of them and loops.

\* The least of some natural numbers is one of them.
LEMMA LeastMember == ASSUME NEW S, S \subseteq Nat, S # {} PROVE Min(S) \in S /\ \A y \in S : Min(S) <= y
<1>1. PICK x \in S : \A y \in S : ~ (<<y, x>> \in OpToRel(<, Nat))
  BY NatLessThanWellFounded, WFMin, Zenon
<1>2. \A y \in S : ~(y < x)
  BY <1>1, Zenon DEF OpToRel
<1>3. \A y \in S : x =< y
  BY <1>2
<1> QED BY <1>1, <1>3, Zenon DEF Min

\* So is the greatest of some that have a bound.
LEMMA GreatestMember ==
  ASSUME NEW n \in Nat, NEW S, S \subseteq 0 .. n, S # {}
  PROVE  Max(S) \in S /\ \A y \in S : Max(S) >= y
<1> DEFINE T == {n - y : y \in S}
<1>1. T \subseteq Nat /\ T # {}
  <2>1. \A y \in S : n - y \in Nat OBVIOUS
  <2>2. PICK y \in S : TRUE OBVIOUS
  <2> QED BY <2>1, <2>2
<1>2. PICK t \in T : \A u \in T : t <= u
  <2> HIDE DEF T
  <2> QED BY <1>1, LeastMember, Zenon
<1>3. PICK x \in S : t = n - x BY <1>2
<1>4. \A y \in S : x >= y
  <2> TAKE y \in S
  <2>1. n - y \in T OBVIOUS
  <2> QED BY <1>2, <1>3, <2>1
<1> QED BY <1>3, <1>4, Zenon DEF Max

\* What holds before the first turn of a loop and is kept by every turn holds after each.
LEMMA Turns ==
  ASSUME NEW N \in Nat, NEW P, P \subseteq 0 .. N, 0 \in P, \A n \in 1 .. N : n - 1 \in P => n \in P
  PROVE  \A n \in 0 .. N : n \in P
<1> DEFINE Bad == (0 .. N) \ P
<1> SUFFICES ASSUME Bad # {} PROVE FALSE
  OBVIOUS
<1>1. Min(Bad) \in Bad /\ \A m \in Bad : Min(Bad) <= m
  <2>1. Bad \subseteq Nat OBVIOUS
  <2> HIDE DEF Bad
  <2> QED BY <2>1, LeastMember
<1>2. Min(Bad) \in 1 .. N /\ Min(Bad) - 1 \notin Bad BY <1>1
<1> QED BY <1>1, <1>2

\* g has, for each turn of a loop, what it has computed within S: first before the first
\* turn, and after a turn what f makes of the turn and of what was before.
TurnsOf(g, S, first, N, f) ==
    /\ g \in [0 .. N -> S]
    /\ g[0] = first
    /\ \A n \in 1 .. N : g[n] = f[<<g[n - 1], n>>]

\* A loop that computes within S has such a function.
LEMMA LoopExists ==
  ASSUME NEW S, NEW first \in S, NEW N \in Nat, NEW f \in [S \X (1 .. N) -> S]
  PROVE  \E g : TurnsOf(g, S, first, N, f)
<1> DEFINE P == {k \in 0 .. N : \E g : TurnsOf(g, S, first, k, f)}
<1>1. 0 \in P
  <2>1. TurnsOf([n \in 0 .. 0 |-> first], S, first, 0, f) BY DEF TurnsOf
  <2> QED BY <2>1
<1>2. ASSUME NEW k \in 1 .. N, k - 1 \in P PROVE k \in P
  <2>1. PICK g : TurnsOf(g, S, first, k - 1, f) BY <1>2
  <2> DEFINE h == [n \in 0 .. k |-> IF n = k THEN f[<<g[k - 1], k>>] ELSE g[n]]
  <2>2. f[<<g[k - 1], k>>] \in S BY <2>1 DEF TurnsOf
  <2>3. h \in [0 .. k -> S] /\ h[0] = first BY <2>1, <2>2 DEF TurnsOf
  <2>4. h[k] = f[<<g[k - 1], k>>] /\ \A n \in 0 .. k - 1 : h[n] = g[n] OBVIOUS
  <2> HIDE DEF h
  <2>5. ASSUME NEW n \in 1 .. k PROVE h[n] = f[<<h[n - 1], n>>]
    <3>1. h[n - 1] = g[n - 1] BY <2>4
    <3>2. CASE n = k BY <2>4, <3>1, <3>2
    <3>3. CASE n # k
      <4>1. n \in 1 .. k - 1 BY <3>3
      <4> QED BY <2>1, <2>4, <3>1, <4>1 DEF TurnsOf
    <3> QED BY <3>2, <3>3
  <2>6. TurnsOf(h, S, first, k, f) BY <2>3, <2>5 DEF TurnsOf
  <2> QED BY <2>6
<1>3. \A k \in 0 .. N : k \in P
  <2>1. P \subseteq 0 .. N OBVIOUS
  <2> HIDE DEF P
  <2> QED BY <1>1, <1>2, <2>1, Turns
<1> QED BY <1>3

-----------------------------------------------------------------------------
\* The pixels of a byte.

Levels(s) == 2^PixelBits(s)

\* A byte has 1, 2, 4 or 8 pixels.
LEMMA Widths ==
  ASSUME NEW s, SessionType(s)
  PROVE  \/ PerByte(s) = 1 /\ PixelBits(s) = 8 /\ Levels(s) = 256
         \/ PerByte(s) = 2 /\ PixelBits(s) = 4 /\ Levels(s) = 16
         \/ PerByte(s) = 4 /\ PixelBits(s) = 2 /\ Levels(s) = 4
         \/ PerByte(s) = 8 /\ PixelBits(s) = 1 /\ Levels(s) = 2
<1>1. ShiftOf(s) \in 0 .. 3
  <2> DEFINE S == {j \in 0 .. 2 : 2^(2^j) >= s.colors} \cup {3}
  <2>1. S \subseteq 0 .. 3 /\ S # {} /\ S \subseteq Nat OBVIOUS
  <2> HIDE DEF S
  <2>2. Min(S) \in 0 .. 3 BY <2>1, LeastMember
  <2>3. ShiftOf(s) = IF s.kind = "targa" THEN 0 ELSE 3 - Min(S)
    BY Zenon DEF ShiftOf, get_pixel_shift, S
  <2> QED BY <2>2, <2>3
<1>2. 2^0 = 1 /\ 2^1 = 2 /\ 2^2 = 4 /\ 2^3 = 8 /\ 2^4 = 16 /\ 2^8 = 256 OBVIOUS
<1>3. CASE ShiftOf(s) = 0
  <2>1. PerByte(s) = 1 BY <1>2, <1>3, Zenon DEF PerByte
  <2>2. PixelBits(s) = 8 BY <2>1 DEF PixelBits
  <2> QED BY <1>2, <2>1, <2>2, Zenon DEF Levels
<1>4. CASE ShiftOf(s) = 1
  <2>1. PerByte(s) = 2 BY <1>2, <1>4, Zenon DEF PerByte
  <2>2. PixelBits(s) = 4 BY <2>1 DEF PixelBits
  <2> QED BY <1>2, <2>1, <2>2, Zenon DEF Levels
<1>5. CASE ShiftOf(s) = 2
  <2>1. PerByte(s) = 4 BY <1>2, <1>5, Zenon DEF PerByte
  <2>2. PixelBits(s) = 2 BY <2>1 DEF PixelBits
  <2> QED BY <1>2, <2>1, <2>2, Zenon DEF Levels
<1>6. CASE ShiftOf(s) = 3
  <2>1. PerByte(s) = 8 BY <1>2, <1>6, Zenon DEF PerByte
  <2>2. PixelBits(s) = 1 BY <2>1 DEF PixelBits
  <2> QED BY <1>2, <2>1, <2>2, Zenon DEF Levels
<1> QED BY <1>1, <1>3, <1>4, <1>5, <1>6

\* Every colour of a session is a value of its pixels.
LEMMA ColorsFit ==
  ASSUME NEW s, SessionType(s), s.kind # "targa"
  PROVE  s.colors <= Levels(s)
<1> DEFINE S == {j \in 0 .. 2 : 2^(2^j) >= s.colors} \cup {3}
           j == Min(S)
<1>1. S \subseteq Nat /\ S # {} OBVIOUS
<1>2. j \in S
  <2> HIDE DEF S
  <2> QED BY <1>1, LeastMember
<1> HIDE DEF j
<1>3. ShiftOf(s) = 3 - j
  BY Zenon DEF ShiftOf, get_pixel_shift, j
<1>4. s.colors \in 2 .. 256 BY DEF SessionType
<1>5. 2^0 = 1 /\ 2^1 = 2 /\ 2^2 = 4 /\ 2^3 = 8 /\ 2^4 = 16 /\ 2^8 = 256 OBVIOUS
<1>6. CASE j = 3
  <2>1. PerByte(s) = 1
    <3>1. ShiftOf(s) = 0 BY <1>3, <1>6
    <3> QED BY <1>5, <3>1, Zenon DEF PerByte
  <2> QED BY <1>4, <2>1, Widths
<1>7. CASE j = 2 /\ 2^(2^j) >= s.colors
  <2>1. 2^(2^j) = 16 BY <1>5, <1>7, Zenon
  <2>2. PerByte(s) = 2
    <3>1. ShiftOf(s) = 1 BY <1>3, <1>7
    <3> QED BY <1>5, <3>1, Zenon DEF PerByte
  <2>3. Levels(s) = 16 BY <2>2, Widths
  <2> QED BY <1>4, <1>7, <2>1, <2>3
<1>8. CASE j = 1 /\ 2^(2^j) >= s.colors
  <2>1. 2^(2^j) = 4 BY <1>5, <1>8, Zenon
  <2>2. PerByte(s) = 4
    <3>1. ShiftOf(s) = 2 BY <1>3, <1>8
    <3> QED BY <1>5, <3>1, Zenon DEF PerByte
  <2>3. Levels(s) = 4 BY <2>2, Widths
  <2> QED BY <1>4, <1>8, <2>1, <2>3
<1>9. CASE j = 0 /\ 2^(2^j) >= s.colors
  <2>1. 2^(2^j) = 2 BY <1>5, <1>9, Zenon
  <2>2. PerByte(s) = 8
    <3>1. ShiftOf(s) = 3 BY <1>3, <1>9
    <3> QED BY <1>5, <3>1, Zenon DEF PerByte
  <2>3. Levels(s) = 2 BY <2>2, Widths
  <2> QED BY <1>4, <1>9, <2>1, <2>3
<1> QED BY <1>2, <1>6, <1>7, <1>8, <1>9

\* The pixels of a block.
PixelsOf(s) == [0 .. BLOCK_LEN - 1 -> 0 .. Levels(s) - 1]

\* A byte is put together pixel by pixel.
LEMMA PackedTurns ==
  ASSUME NEW s, SessionType(s), NEW pixel, NEW first \in Nat,
         \A k \in 1 .. PerByte(s) : pixel[first + k - 1] \in 0 .. Levels(s) - 1
  PROVE  \E value \in [0 .. PerByte(s) -> Nat] :
            /\ value[0] = 0
            /\ \A k \in 1 .. PerByte(s) : value[k] = value[k - 1] * Levels(s) + pixel[first + k - 1]
            /\ Packed(s, pixel, first) = value[PerByte(s)] % 256
<1> DEFINE d == PerByte(s)
           L == Levels(s)
           turn == [p \in Nat \X (1 .. d) |-> p[1] * L + pixel[first + p[2] - 1]]
           IsValue(v) == v = [k \in 0 .. d |-> IF k = 0 THEN 0 ELSE v[k - 1] * L + pixel[first + k - 1]]
           value == CHOOSE v : IsValue(v)
<1>1. d \in Nat /\ L \in Nat BY Widths
<1>2. turn \in [Nat \X (1 .. d) -> Nat]
  <2> HIDE DEF d, L
  <2>1. ASSUME NEW n \in Nat, NEW k \in 1 .. d PROVE n * L + pixel[first + k - 1] \in Nat
    <3>1. pixel[first + k - 1] \in Nat
      <4>1. pixel[first + k - 1] \in 0 .. L - 1 BY DEF d, L
      <4> QED BY <1>1, <4>1
    <3>2. n * L \in Nat BY <1>1
    <3> QED BY <3>1, <3>2
  <2> QED BY <2>1
<1> HIDE DEF d, L
<1>3. \E v : IsValue(v) /\ v \in [0 .. d -> Nat]
  <2>1. PICK v : TurnsOf(v, Nat, 0, d, turn)
    <3> HIDE DEF turn
    <3> QED BY <1>1, <1>2, LoopExists
  <2>2. v \in [0 .. d -> Nat] /\ v[0] = 0 /\ \A k \in 1 .. d : v[k] = turn[<<v[k - 1], k>>]
    BY <2>1 DEF TurnsOf
  <2>3. ASSUME NEW k \in 1 .. d PROVE v[k] = v[k - 1] * L + pixel[first + k - 1]
    <3>1. v[k - 1] \in Nat BY <2>2, <1>1
    <3> QED BY <2>2, <3>1
  <2>4. IsValue(v)
    <3>1. \A k \in 0 .. d : v[k] = IF k = 0 THEN 0 ELSE v[k - 1] * L + pixel[first + k - 1]
      <4> HIDE DEF turn
      <4> QED BY <1>1, <2>2, <2>3
    <3> QED BY <2>2, <3>1
  <2> QED BY <2>2, <2>4
<1>4. IsValue(value)
  <2> HIDE DEF IsValue
  <2> QED BY <1>3
<1>5. Packed(s, pixel, first) = value[d] % 256
  BY Zenon DEF Packed, value, IsValue, d, L, Levels
<1> HIDE DEF value
<1>6. value[0] = 0 /\ \A k \in 1 .. d : value[k] = value[k - 1] * L + pixel[first + k - 1]
  BY <1>1, <1>4
<1>7. value \in [0 .. d -> Nat]
  <2> DEFINE P == {k \in 0 .. d : value[k] \in Nat}
  <2>1. 0 \in P BY <1>1, <1>6
  <2>2. ASSUME NEW k \in 1 .. d, k - 1 \in P PROVE k \in P
    <3>1. value[k - 1] \in Nat BY <2>2
    <3>2. value[k] = value[k - 1] * L + pixel[first + k - 1] BY <1>6
    <3>3. pixel[first + k - 1] \in Nat
      <4>1. pixel[first + k - 1] \in 0 .. L - 1 BY DEF d, L
      <4> QED BY <1>1, <4>1
    <3>4. value[k - 1] * L \in Nat BY <1>1, <3>1
    <3>5. value[k] \in Nat BY <3>2, <3>3, <3>4
    <3> QED BY <1>1, <3>5
  <2>3. \A k \in 0 .. d : k \in P
    <3>1. P \subseteq 0 .. d OBVIOUS
    <3> HIDE DEF P
    <3> QED BY <1>1, <2>1, <2>2, <3>1, Turns
  <2> QED BY <1>4, <2>3
<1> QED BY <1>5, <1>6, <1>7, Zenon DEF d, L

\* A pixel that is packed is unpacked again.
LEMMA PackedPixel ==
  ASSUME NEW s, SessionType(s), NEW pixel, NEW first \in Nat,
         \A k \in 0 .. PerByte(s) - 1 : pixel[first + k] \in 0 .. Levels(s) - 1
  PROVE  /\ Packed(s, pixel, first) \in 0 .. 255
         /\ \A i \in 0 .. PerByte(s) - 1 : PixelOf(s, Packed(s, pixel, first), i) = pixel[first + i]
<1> DEFINE d == PerByte(s)
           L == Levels(s)
           b == Packed(s, pixel, first)
           p == [k \in 0 .. d - 1 |-> pixel[first + k]]
<1>1. 2^0 = 1 /\ 2^1 = 2 /\ 2^2 = 4 /\ 2^3 = 8 /\ 2^4 = 16 /\ 2^5 = 32 /\ 2^6 = 64 /\ 2^7 = 128
  OBVIOUS
<1>2. d \in Nat /\ L \in Nat BY Widths
<1>3. \A k \in 1 .. d : pixel[first + k - 1] = p[k - 1] /\ p[k - 1] \in 0 .. L - 1
  <2> TAKE k \in 1 .. d
  <2>1. first + k - 1 = first + (k - 1) /\ k - 1 \in 0 .. d - 1 BY <1>2
  <2> QED BY <2>1
<1>4. p \in [0 .. d - 1 -> 0 .. L - 1] OBVIOUS
<1> HIDE DEF p
<1>5. PICK v \in [0 .. d -> Nat] :
         /\ v[0] = 0 /\ \A k \in 1 .. d : v[k] = v[k - 1] * L + p[k - 1]
         /\ b = v[d] % 256
  <2>1. \A k \in 1 .. d : pixel[first + k - 1] \in 0 .. L - 1 BY <1>3
  <2>2. PICK v \in [0 .. d -> Nat] :
           /\ v[0] = 0 /\ \A k \in 1 .. d : v[k] = v[k - 1] * L + pixel[first + k - 1]
           /\ b = v[d] % 256
    BY <2>1, PackedTurns
  <2> QED BY <1>3, <2>2
<1>6. \A i : PixelOf(s, b, i) = (b \div 2^(8 - PixelBits(s) * (i + 1))) % L
  BY DEF PixelOf, Levels
<1> HIDE DEF b, d, L
<1>7. ASSUME NEW i \in 0 .. d - 1 PROVE b \in 0 .. 255 /\ PixelOf(s, b, i) = p[i]
  <2>1. CASE d = 1 /\ PixelBits(s) = 8 /\ L = 256
    <3>1. PICK p0 \in 0 .. 255 :
             p0 = p[0]
      BY <1>4, <2>1
    <3>2. /\ v[1] = p0
      BY <1>5, <2>1, <3>1
    <3>3. b = (p0) % 256
      BY <1>5, <2>1, <3>1, <3>2
    <3>4. b \in 0 .. 255 /\ (b \div 1) % 256 = p0
      BY <3>3
    <3>5. CASE i = 0
      <4>1. 8 - PixelBits(s) * (i + 1) = 0 BY <2>1, <3>5
      <4>2. 2^(8 - PixelBits(s) * (i + 1)) = 1 BY <1>1, <4>1, Zenon
      <4>3. PixelOf(s, b, i) = (b \div 1) % 256 BY <1>6, <2>1, <4>2
      <4> QED BY <3>1, <3>4, <3>5, <4>3
    <3> QED BY <2>1, <3>5
  <2>2. CASE d = 2 /\ PixelBits(s) = 4 /\ L = 16
    <3>1. PICK p0 \in 0 .. 15, p1 \in 0 .. 15 :
             p0 = p[0] /\ p1 = p[1]
      BY <1>4, <2>2
    <3>2. /\ v[1] = p0 /\ v[2] = v[1] * 16 + p1
      BY <1>5, <2>2, <3>1
    <3>3. b = (p0 * 16 + p1) % 256
      BY <1>5, <2>2, <3>1, <3>2
    <3>4. b \in 0 .. 255 /\ (b \div 16) % 16 = p0 /\ (b \div 1) % 16 = p1
      BY <3>3
    <3>5. CASE i = 0
      <4>1. 8 - PixelBits(s) * (i + 1) = 4 BY <2>2, <3>5
      <4>2. 2^(8 - PixelBits(s) * (i + 1)) = 16 BY <1>1, <4>1, Zenon
      <4>3. PixelOf(s, b, i) = (b \div 16) % 16 BY <1>6, <2>2, <4>2
      <4> QED BY <3>1, <3>4, <3>5, <4>3
    <3>6. CASE i = 1
      <4>1. 8 - PixelBits(s) * (i + 1) = 0 BY <2>2, <3>6
      <4>2. 2^(8 - PixelBits(s) * (i + 1)) = 1 BY <1>1, <4>1, Zenon
      <4>3. PixelOf(s, b, i) = (b \div 1) % 16 BY <1>6, <2>2, <4>2
      <4> QED BY <3>1, <3>4, <3>6, <4>3
    <3> QED BY <2>2, <3>5, <3>6
  <2>3. CASE d = 4 /\ PixelBits(s) = 2 /\ L = 4
    <3>1. PICK p0 \in 0 .. 3, p1 \in 0 .. 3, p2 \in 0 .. 3, p3 \in 0 .. 3 :
             p0 = p[0] /\ p1 = p[1] /\ p2 = p[2] /\ p3 = p[3]
      BY <1>4, <2>3
    <3>2. /\ v[1] = p0 /\ v[2] = v[1] * 4 + p1 /\ v[3] = v[2] * 4 + p2 /\ v[4] = v[3] * 4 + p3
      BY <1>5, <2>3, <3>1
    <3>3. b = (((p0 * 4 + p1) * 4 + p2) * 4 + p3) % 256
      BY <1>5, <2>3, <3>1, <3>2
    <3>4. b \in 0 .. 255 /\ (b \div 64) % 4 = p0 /\ (b \div 16) % 4 = p1 /\ (b \div 4) % 4 = p2 /\ (b \div 1) % 4 = p3
      BY <3>3
    <3>5. CASE i = 0
      <4>1. 8 - PixelBits(s) * (i + 1) = 6 BY <2>3, <3>5
      <4>2. 2^(8 - PixelBits(s) * (i + 1)) = 64 BY <1>1, <4>1, Zenon
      <4>3. PixelOf(s, b, i) = (b \div 64) % 4 BY <1>6, <2>3, <4>2
      <4> QED BY <3>1, <3>4, <3>5, <4>3
    <3>6. CASE i = 1
      <4>1. 8 - PixelBits(s) * (i + 1) = 4 BY <2>3, <3>6
      <4>2. 2^(8 - PixelBits(s) * (i + 1)) = 16 BY <1>1, <4>1, Zenon
      <4>3. PixelOf(s, b, i) = (b \div 16) % 4 BY <1>6, <2>3, <4>2
      <4> QED BY <3>1, <3>4, <3>6, <4>3
    <3>7. CASE i = 2
      <4>1. 8 - PixelBits(s) * (i + 1) = 2 BY <2>3, <3>7
      <4>2. 2^(8 - PixelBits(s) * (i + 1)) = 4 BY <1>1, <4>1, Zenon
      <4>3. PixelOf(s, b, i) = (b \div 4) % 4 BY <1>6, <2>3, <4>2
      <4> QED BY <3>1, <3>4, <3>7, <4>3
    <3>8. CASE i = 3
      <4>1. 8 - PixelBits(s) * (i + 1) = 0 BY <2>3, <3>8
      <4>2. 2^(8 - PixelBits(s) * (i + 1)) = 1 BY <1>1, <4>1, Zenon
      <4>3. PixelOf(s, b, i) = (b \div 1) % 4 BY <1>6, <2>3, <4>2
      <4> QED BY <3>1, <3>4, <3>8, <4>3
    <3> QED BY <2>3, <3>5, <3>6, <3>7, <3>8
  <2>4. CASE d = 8 /\ PixelBits(s) = 1 /\ L = 2
    <3>1. PICK p0 \in 0 .. 1, p1 \in 0 .. 1, p2 \in 0 .. 1, p3 \in 0 .. 1, p4 \in 0 .. 1, p5 \in 0 .. 1, p6 \in 0 .. 1, p7 \in 0 .. 1 :
             p0 = p[0] /\ p1 = p[1] /\ p2 = p[2] /\ p3 = p[3] /\ p4 = p[4] /\ p5 = p[5] /\ p6 = p[6] /\ p7 = p[7]
      BY <1>4, <2>4
    <3>2. /\ v[1] = p0 /\ v[2] = v[1] * 2 + p1 /\ v[3] = v[2] * 2 + p2 /\ v[4] = v[3] * 2 + p3
          /\ v[5] = v[4] * 2 + p4 /\ v[6] = v[5] * 2 + p5 /\ v[7] = v[6] * 2 + p6 /\ v[8] = v[7] * 2 + p7
      BY <1>5, <2>4, <3>1
    <3>3. b = (((((((p0 * 2 + p1) * 2 + p2) * 2 + p3) * 2 + p4) * 2 + p5) * 2 + p6) * 2 + p7) % 256
      BY <1>5, <2>4, <3>1, <3>2
    <3>a. b = p0 * 128 + p1 * 64 + p2 * 32 + p3 * 16 + p4 * 8 + p5 * 4 + p6 * 2 + p7
      BY <3>3
    <3>4. /\ b \in 0 .. 255 /\ (b \div 128) % 2 = p0 /\ (b \div 64) % 2 = p1 /\ (b \div 32) % 2 = p2 /\ (b \div 16) % 2 = p3
          /\ (b \div 8) % 2 = p4 /\ (b \div 4) % 2 = p5 /\ (b \div 2) % 2 = p6 /\ (b \div 1) % 2 = p7
      BY <3>a
    <3>5. CASE i = 0
      <4>1. 8 - PixelBits(s) * (i + 1) = 7 BY <2>4, <3>5
      <4>2. 2^(8 - PixelBits(s) * (i + 1)) = 128 BY <1>1, <4>1, Zenon
      <4>3. PixelOf(s, b, i) = (b \div 128) % 2 BY <1>6, <2>4, <4>2
      <4> QED BY <3>1, <3>4, <3>5, <4>3
    <3>6. CASE i = 1
      <4>1. 8 - PixelBits(s) * (i + 1) = 6 BY <2>4, <3>6
      <4>2. 2^(8 - PixelBits(s) * (i + 1)) = 64 BY <1>1, <4>1, Zenon
      <4>3. PixelOf(s, b, i) = (b \div 64) % 2 BY <1>6, <2>4, <4>2
      <4> QED BY <3>1, <3>4, <3>6, <4>3
    <3>7. CASE i = 2
      <4>1. 8 - PixelBits(s) * (i + 1) = 5 BY <2>4, <3>7
      <4>2. 2^(8 - PixelBits(s) * (i + 1)) = 32 BY <1>1, <4>1, Zenon
      <4>3. PixelOf(s, b, i) = (b \div 32) % 2 BY <1>6, <2>4, <4>2
      <4> QED BY <3>1, <3>4, <3>7, <4>3
    <3>8. CASE i = 3
      <4>1. 8 - PixelBits(s) * (i + 1) = 4 BY <2>4, <3>8
      <4>2. 2^(8 - PixelBits(s) * (i + 1)) = 16 BY <1>1, <4>1, Zenon
      <4>3. PixelOf(s, b, i) = (b \div 16) % 2 BY <1>6, <2>4, <4>2
      <4> QED BY <3>1, <3>4, <3>8, <4>3
    <3>9. CASE i = 4
      <4>1. 8 - PixelBits(s) * (i + 1) = 3 BY <2>4, <3>9
      <4>2. 2^(8 - PixelBits(s) * (i + 1)) = 8 BY <1>1, <4>1, Zenon
      <4>3. PixelOf(s, b, i) = (b \div 8) % 2 BY <1>6, <2>4, <4>2
      <4> QED BY <3>1, <3>4, <3>9, <4>3
    <3>10. CASE i = 5
      <4>1. 8 - PixelBits(s) * (i + 1) = 2 BY <2>4, <3>10
      <4>2. 2^(8 - PixelBits(s) * (i + 1)) = 4 BY <1>1, <4>1, Zenon
      <4>3. PixelOf(s, b, i) = (b \div 4) % 2 BY <1>6, <2>4, <4>2
      <4> QED BY <3>1, <3>4, <3>10, <4>3
    <3>11. CASE i = 6
      <4>1. 8 - PixelBits(s) * (i + 1) = 1 BY <2>4, <3>11
      <4>2. 2^(8 - PixelBits(s) * (i + 1)) = 2 BY <1>1, <4>1, Zenon
      <4>3. PixelOf(s, b, i) = (b \div 2) % 2 BY <1>6, <2>4, <4>2
      <4> QED BY <3>1, <3>4, <3>11, <4>3
    <3>12. CASE i = 7
      <4>1. 8 - PixelBits(s) * (i + 1) = 0 BY <2>4, <3>12
      <4>2. 2^(8 - PixelBits(s) * (i + 1)) = 1 BY <1>1, <4>1, Zenon
      <4>3. PixelOf(s, b, i) = (b \div 1) % 2 BY <1>6, <2>4, <4>2
      <4> QED BY <3>1, <3>4, <3>12, <4>3
    <3> QED BY <2>4, <3>5, <3>6, <3>7, <3>8, <3>9, <3>10, <3>11, <3>12
  <2> QED BY <2>1, <2>2, <2>3, <2>4, Widths DEF d, L
<1>8. 0 \in 0 .. d - 1 BY Widths DEF d
<1>9. b \in 0 .. 255 /\ \A i \in 0 .. d - 1 : PixelOf(s, b, i) = pixel[first + i]
  BY <1>7, <1>8 DEF p
<1> QED BY <1>9 DEF b, d

\* A pixel of any byte is one of the values of a pixel.
LEMMA PixelRange ==
  ASSUME NEW s, SessionType(s), NEW b \in 0 .. 255, NEW i \in 0 .. PerByte(s) - 1
  PROVE  /\ PixelOf(s, b, i) \in 0 .. Levels(s) - 1
         /\ b = 0 => PixelOf(s, b, i) = 0
         /\ PerByte(s) = 1 => PixelOf(s, b, i) = b
<1>1. PICK e \in 0 .. 7 : 8 - PixelBits(s) * (i + 1) = e /\ (PerByte(s) = 1 => e = 0)
  <2>1. CASE PerByte(s) = 1 /\ PixelBits(s) = 8 BY <2>1
  <2>2. CASE PerByte(s) = 2 /\ PixelBits(s) = 4
    <3>1. i = 0 \/ i = 1 BY <2>2
    <3> QED BY <2>2, <3>1
  <2>3. CASE PerByte(s) = 4 /\ PixelBits(s) = 2
    <3>1. i = 0 \/ i = 1 \/ i = 2 \/ i = 3 BY <2>3
    <3> QED BY <2>3, <3>1
  <2>4. CASE PerByte(s) = 8 /\ PixelBits(s) = 1
    <3>1. i = 0 \/ i = 1 \/ i = 2 \/ i = 3 \/ i = 4 \/ i = 5 \/ i = 6 \/ i = 7 BY <2>4
    <3> QED BY <2>4, <3>1
  <2> QED BY <2>1, <2>2, <2>3, <2>4, Widths
<1>2. 2^e \in Nat \ {0} /\ (e = 0 => 2^e = 1)
  <2>1. 2^0 = 1 /\ 2^1 = 2 /\ 2^2 = 4 /\ 2^3 = 8 /\ 2^4 = 16 /\ 2^5 = 32 /\ 2^6 = 64 /\ 2^7 = 128 OBVIOUS
  <2>2. e = 0 \/ e = 1 \/ e = 2 \/ e = 3 \/ e = 4 \/ e = 5 \/ e = 6 \/ e = 7 OBVIOUS
  <2>3. 1 \in Nat \ {0} /\ 2 \in Nat \ {0} /\ 4 \in Nat \ {0} /\ 8 \in Nat \ {0} /\ 16 \in Nat \ {0}
        /\ 32 \in Nat \ {0} /\ 64 \in Nat \ {0} /\ 128 \in Nat \ {0}
    OBVIOUS
  <2>4. e = 0 => 2^e = 1 BY <2>1, Zenon
  <2>5. 2^e \in Nat \ {0}
    <3>0. CASE e = 0 BY <2>1, <2>3, <3>0, Zenon
    <3>1. CASE e = 1 BY <2>1, <2>3, <3>1, Zenon
    <3>2. CASE e = 2 BY <2>1, <2>3, <3>2, Zenon
    <3>3. CASE e = 3 BY <2>1, <2>3, <3>3, Zenon
    <3>4. CASE e = 4 BY <2>1, <2>3, <3>4, Zenon
    <3>5. CASE e = 5 BY <2>1, <2>3, <3>5, Zenon
    <3>6. CASE e = 6 BY <2>1, <2>3, <3>6, Zenon
    <3>7. CASE e = 7 BY <2>1, <2>3, <3>7, Zenon
    <3> QED BY <2>2, <3>0, <3>1, <3>2, <3>3, <3>4, <3>5, <3>6, <3>7
  <2> QED BY <2>4, <2>5, Zenon
<1>3. PixelOf(s, b, i) = (b \div 2^e) % Levels(s)
  BY <1>1, Zenon DEF PixelOf, Levels
<1>4. PICK w \in Nat \ {0} : w = 2^e /\ (e = 0 => w = 1) BY <1>2
<1>5. Levels(s) \in Nat \ {0} /\ (PerByte(s) = 1 => Levels(s) = 256) BY Widths
<1>6. PixelOf(s, b, i) = (b \div w) % Levels(s) BY <1>3, <1>4, Zenon
<1>7. b \div w \in Nat /\ (b = 0 => b \div w = 0) BY <1>4
<1>8. w = 1 => b \div w = b OBVIOUS
<1> QED BY <1>1, <1>4, <1>5, <1>6, <1>7, <1>8

-----------------------------------------------------------------------------
\* Where the pixels of a session are in its store.

Area(s)       == s.rowSize * s.colSize
BlockBytes(s) == BLOCK_LEN \div PerByte(s)
Place(s, offset) == offset \div PerByte(s) + s.header
LastBlock(s)  == disk_video_memory_blocks(s) - (IF s.kind = "targa" THEN 0 ELSE 1)

IsSession(s) == /\ SessionType(s) /\ BLOCK_LEN % PerByte(s) = 0
                /\ s.kind = "targa" => Area(s) <= PRESET

\* The offsets of the blocks that have pixels.
IsBlock(s, offset) == offset \in Nat /\ offset % BLOCK_LEN = 0 /\ offset < Area(s)

\* A block of the cache is a number of bytes, no more than a block of the store.
LEMMA BlockOfBytes ==
  ASSUME NEW s, IsSession(s)
  PROVE  /\ PerByte(s) \in Nat \ {0} /\ BlockBytes(s) \in Nat \ {0}
         /\ BlockBytes(s) <= BLOCK_LEN
         /\ BLOCK_LEN = BlockBytes(s) * PerByte(s)
<1>1. BLOCK_LEN \in Nat \ {0} /\ BLOCK_LEN % PerByte(s) = 0 BY BlockAssumption DEF IsSession
<1>2. PerByte(s) = 1 \/ PerByte(s) = 2 \/ PerByte(s) = 4 \/ PerByte(s) = 8 BY Widths DEF IsSession
<1> QED BY <1>1, <1>2 DEF BlockBytes

\* The pixels of a block follow one another.
LEMMA PlaceInBlock ==
  ASSUME NEW s, IsSession(s), NEW o \in Nat, o % BLOCK_LEN = 0, NEW i \in 0 .. BLOCK_LEN - 1
  PROVE  /\ Place(s, o) \in Nat
         /\ Place(s, o + i) = Place(s, o) + i \div PerByte(s)
         /\ i \div PerByte(s) \in 0 .. BlockBytes(s) - 1
         /\ (o + i) % PerByte(s) = i % PerByte(s) /\ i % PerByte(s) \in 0 .. PerByte(s) - 1
         /\ i = (i \div PerByte(s)) * PerByte(s) + (i % PerByte(s))
<1>1. PICK q \in Nat : o = q * BLOCK_LEN
  <2>1. BLOCK_LEN \in Nat \ {0} BY BlockAssumption
  <2>2. o = (o \div BLOCK_LEN) * BLOCK_LEN /\ o \div BLOCK_LEN \in Nat BY <2>1
  <2> QED BY <2>2
<1> DEFINE r == q * BlockBytes(s)
<1>2. r \in Nat /\ o = r * PerByte(s) BY <1>1, BlockOfBytes
<1>3. s.header \in Nat BY BlockAssumption DEF IsSession, SessionType
<1>4. PerByte(s) = 1 \/ PerByte(s) = 2 \/ PerByte(s) = 4 \/ PerByte(s) = 8 BY Widths DEF IsSession
<1>5. i \in Nat /\ i < BlockBytes(s) * PerByte(s) /\ BlockBytes(s) \in Nat BY BlockOfBytes, BlockAssumption
<1> HIDE DEF r
<1>6. PICK d \in Nat \ {0}, n \in Nat, h \in Nat : d = PerByte(s) /\ n = BlockBytes(s) /\ h = s.header
  BY <1>3, BlockOfBytes
<1>7. /\ (o + i) \div d = o \div d + i \div d /\ o \div d = r
      /\ i \div d \in 0 .. n - 1 /\ (o + i) % d = i % d /\ i % d \in 0 .. d - 1
      /\ i = (i \div d) * d + (i % d)
  <2>1. CASE d = 1 BY <1>2, <1>5, <1>6, <2>1
  <2>2. CASE d = 2 BY <1>2, <1>5, <1>6, <2>2
  <2>3. CASE d = 4 BY <1>2, <1>5, <1>6, <2>3
  <2>4. CASE d = 8 BY <1>2, <1>5, <1>6, <2>4
  <2> QED BY <1>4, <1>6, <2>1, <2>2, <2>3, <2>4
<1>8. Place(s, o) = o \div d + h /\ Place(s, o + i) = (o + i) \div d + h
  BY <1>6, Zenon DEF Place
<1>9. Place(s, o) \in Nat /\ Place(s, o + i) = Place(s, o) + i \div d
  <2>1. PICK j \in Nat : j = i \div d BY <1>6, <1>7
  <2>2. (o + i) \div d = r + j BY <1>7, <2>1
  <2>3. Place(s, o) = r + h /\ Place(s, o + i) = r + j + h BY <1>7, <1>8, <2>2
  <2> QED BY <1>2, <1>6, <2>1, <2>3
<1> QED BY <1>6, <1>7, <1>9, Zenon

\* A product grows with its factors.
LEMMA Factors == ASSUME NEW a \in Nat, NEW b \in Nat, NEW n \in Nat, a < b PROVE a * n + n <= b * n
<1>1. PICK k \in Nat : b = a + 1 + k BY b - a - 1 \in Nat
<1>2. b * n = a * n + n + k * n /\ k * n \in Nat BY <1>1
<1> QED BY <1>2

\* Two blocks do not overlap.
LEMMA PlacesApart ==
  ASSUME NEW s, IsSession(s), NEW o \in Nat, NEW p \in Nat, o % BLOCK_LEN = 0, p % BLOCK_LEN = 0, o < p
  PROVE  Place(s, o) + BlockBytes(s) <= Place(s, p)
<1>1. BLOCK_LEN \in Nat \ {0} BY BlockAssumption
<1>2. PICK q \in Nat : o = q * BLOCK_LEN
  <2>1. o = (o \div BLOCK_LEN) * BLOCK_LEN /\ o \div BLOCK_LEN \in Nat BY <1>1
  <2> QED BY <2>1
<1>3. PICK r \in Nat : p = r * BLOCK_LEN
  <2>1. p = (p \div BLOCK_LEN) * BLOCK_LEN /\ p \div BLOCK_LEN \in Nat BY <1>1
  <2> QED BY <2>1
<1>4. q < r
  <2>1. CASE r = q BY <1>2, <1>3, <2>1
  <2>2. CASE r < q
    <3>1. r * BLOCK_LEN + BLOCK_LEN <= q * BLOCK_LEN BY <1>1, <2>2, Factors
    <3> QED BY <1>1, <1>2, <1>3, <3>1
  <2> QED BY <2>1, <2>2
<1> DEFINE n == BlockBytes(s)
<1>5. n \in Nat /\ q * n \in Nat /\ r * n \in Nat BY BlockOfBytes
<1>6. o = (q * n) * PerByte(s) /\ p = (r * n) * PerByte(s) BY <1>2, <1>3, BlockOfBytes
<1>7. q * n + n <= r * n BY <1>4, <1>5, Factors
<1>8. PerByte(s) = 1 \/ PerByte(s) = 2 \/ PerByte(s) = 4 \/ PerByte(s) = 8 BY Widths DEF IsSession
<1>9. o \div PerByte(s) = q * n /\ p \div PerByte(s) = r * n BY <1>5, <1>6, <1>8
<1>10. s.header \in Nat BY BlockAssumption DEF IsSession, SessionType
<1> QED BY <1>5, <1>7, <1>9, <1>10 DEF Place


\* The blocks that have pixels are within the store.
LEMMA InStore ==
  ASSUME NEW s, IsSession(s), NEW o, IsBlock(s, o)
  PROVE  /\ LastBlock(s) \in Nat
         /\ Place(s, o) \in Nat
         /\ Place(s, o) + BlockBytes(s) <= (LastBlock(s) + 1) * BLOCK_LEN
<1>1. BLOCK_LEN \in Nat \ {0} BY BlockAssumption
<1>2. PICK q \in Nat : o = q * BLOCK_LEN
  <2>1. o = (o \div BLOCK_LEN) * BLOCK_LEN /\ o \div BLOCK_LEN \in Nat BY <1>1 DEF IsBlock
  <2> QED BY <2>1
<1> DEFINE n == BlockBytes(s)
           d == PerByte(s)
           A == Area(s)
           M == disk_video_memory_blocks(s)
<1>3. n \in Nat \ {0} /\ d \in Nat \ {0} /\ n <= BLOCK_LEN /\ BLOCK_LEN = n * d BY BlockOfBytes
<1>4. A \in Nat /\ o < A
  <2>1. s.rowSize \in Nat /\ s.colSize \in Nat BY DEF IsSession, SessionType
  <2> QED BY <2>1 DEF Area, IsBlock
<1>5. PICK h \in Nat : h = s.header /\ h < BLOCK_LEN BY <1>1 DEF IsSession, SessionType
<1>6. PICK r \in Nat : r = q * n BY <1>3
<1>7. o = r * d BY <1>2, <1>3, <1>6
<1>8. d = 1 \/ d = 2 \/ d = 4 \/ d = 8 BY Widths DEF IsSession
<1>9. PICK B \in Nat : B = (A + d - 1) \div d BY <1>3, <1>4, <1>8
<1>10. M = (B + h + BLOCK_LEN - 1) \div BLOCK_LEN
  <2>1. Bytes(s) = B + h BY <1>5, <1>9, Zenon DEF Bytes, Area
  <2> QED BY <2>1, Zenon DEF disk_video_memory_blocks
<1> HIDE DEF n, d, A, M
<1>11. o \div d = r /\ r < B
  <2>1. CASE d = 1 BY <1>4, <1>7, <1>9, <2>1
  <2>2. CASE d = 2 BY <1>4, <1>7, <1>9, <2>2
  <2>3. CASE d = 4 BY <1>4, <1>7, <1>9, <2>3
  <2>4. CASE d = 8 BY <1>4, <1>7, <1>9, <2>4
  <2> QED BY <1>8, <2>1, <2>2, <2>3, <2>4
<1>12. Place(s, o) = r + h BY <1>5, <1>11 DEF Place, d
<1>13. PICK L \in Nat : L = BLOCK_LEN /\ L # 0 BY <1>1
<1>14. M \in Nat /\ B + h <= M * L /\ M >= 1
  <2> DEFINE t == B + h + L - 1
  <2>1. t \in Nat /\ B + h <= t /\ t >= L BY <1>11, <1>13
  <2>2. M = t \div L BY <1>10, <1>13
  <2>3. t = L * M + (t % L) /\ t % L <= L - 1 /\ M \in Nat
    <3> HIDE DEF t
    <3> QED BY <1>13, <2>1, <2>2
  <2>4. B + h <= L * M BY <2>3, <1>13
  <2>5. M # 0 BY <2>4, <1>11
  <2>6. L * M = M * L BY <2>3, <1>13
  <2> QED BY <2>3, <2>4, <2>5, <2>6
<1>15. CASE s.kind = "targa"
  <2>1. LastBlock(s) = M BY <1>15, <1>14 DEF LastBlock, M
  <2>2. r + h + n <= M * L + L BY <1>3, <1>11, <1>13, <1>14
  <2>3. (M + 1) * L = M * L + L BY <1>13, <1>14
  <2> QED BY <1>12, <1>13, <1>14, <2>1, <2>2, <2>3 DEF n
<1>16. CASE s.kind # "targa"
  <2>1. h = 0 BY <1>5, <1>16 DEF IsSession, SessionType
  <2>2. LastBlock(s) = M - 1 /\ (LastBlock(s) + 1) * BLOCK_LEN = M * L BY <1>16, <1>13, <1>14 DEF LastBlock, M
  <2>3. r < M * L BY <1>11, <1>14, <2>1, <1>13
  <2>4. M * L = (M * d) * n BY <1>3, <1>13, <1>14
  <2>5. q < M * d
    <3>1. M * d \in Nat BY <1>3, <1>14
    <3>2. CASE M * d <= q
      <4>1. CASE M * d = q BY <1>6, <2>3, <2>4, <4>1
      <4>2. CASE M * d < q
        <5>1. (M * d) * n + n <= q * n BY <3>1, <4>2, <1>3, Factors
        <5>2. (M * d) * n \in Nat BY <3>1, <1>3
        <5> QED BY <5>1, <5>2, <1>6, <1>3, <2>3, <2>4
      <4> QED BY <3>1, <3>2, <4>1, <4>2
    <3> QED BY <3>1, <3>2
  <2>6. r + n <= M * L
    <3>1. M * d \in Nat BY <1>3, <1>14
    <3>2. q * n + n <= (M * d) * n BY <3>1, <2>5, <1>3, Factors
    <3> QED BY <3>2, <1>6, <2>4
  <2> QED BY <1>12, <1>14, <2>1, <2>2, <2>6 DEF n
<1> QED BY <1>15, <1>16
-----------------------------------------------------------------------------
\* A record c with the fields of the cache, whose entries have an offset and marks.
IsEntry(e) == e \in [offset : Nat, pixel : {e.pixel}, dirty : BOOLEAN, lru : BOOLEAN]
AreEntries(f) == /\ f \in [Entries -> {f[e] : e \in Entries}]
                 /\ \A e \in Entries : IsEntry(f[e])
Chains == 0 .. HASH_SIZE - 1
BlockStarts == {o \in Nat : o % BLOCK_LEN = 0}

IsCache(c) ==
    /\ c \in [entry : {c.entry}, hash : [Chains -> SUBSET Entries], lru : Entries, cur : Entries,
              curOffset : BlockStarts \cup {-1}, high : Nat \cup {-1}, seek : Nat \cup {-1}, m : {c.m}]
    /\ AreEntries(c.entry)

OnChain(c, e) == \A h \in Chains : e \in c.hash[h] <=> hash_index(c.entry[e].offset) = h
Apart(f) == \A d, e \in Entries : f[d].offset = f[e].offset => d = e
SameOffsets(c, d) == \A e \in Entries : c.entry[e].offset = d.entry[e].offset

\* Every entry of cache c is on the chain of its offset, and none has the offset of another.
Sound(c) == IsCache(c) /\ (\A e \in Entries : OnChain(c, e)) /\ Apart(c.entry)

\* A block has a chain of the hash table.
LEMMA HashRange == ASSUME NEW o \in Int PROVE hash_index(o) \in Chains
BY HashAssumption, BlockAssumption DEF hash_index, Chains

\* The pixel at an offset is in the block that starts before it.
LEMMA BlockStart ==
  ASSUME NEW offset \in Nat
  PROVE  /\ block_offset(offset) \in BlockStarts /\ block_index(offset) \in 0 .. BLOCK_LEN - 1
         /\ offset = block_offset(offset) + block_index(offset)
<1>1. PICK L \in Nat \ {0} : L = BLOCK_LEN BY BlockAssumption
<1>2. PICK q \in Nat, r \in 0 .. L - 1 : q = offset \div L /\ r = offset % L BY <1>1
<1>3. offset = q * L + r BY <1>1, <1>2
<1>4. block_offset(offset) = q * L /\ block_index(offset) = r BY <1>1, <1>2, <1>3 DEF block_offset, block_index
<1>5. q * L \in Nat /\ (q * L) % L = 0 BY <1>1
<1> QED BY <1>1, <1>3, <1>4, <1>5 DEF BlockStarts

\* Equal multiples of a size are multiples by the same number.
LEMMA SameFactor == ASSUME NEW a \in Int, NEW b \in Int, NEW m \in Nat \ {0}, a * m = b * m PROVE a = b
OBVIOUS

\* The clock stays on the entries.
LEMMA AfterRange == ASSUME NEW h \in Entries, NEW n \in Int PROVE After(h, n) \in Entries
BY CacheAssumption DEF After, Entries

\* The hand of the clock changes marks only.
LEMMA TurnedSound ==
  ASSUME NEW c, Sound(c)
  PROVE  Sound(Turned(c)) /\ SameOffsets(c, Turned(c)) /\ Turned(c).curOffset = c.curOffset
<1> DEFINE S == {k \in 1 .. NEntries : ~c.entry[After(c.lru, k)].lru} \cup {NEntries + 1}
           n == Min(S)
           t == Turned(c)
<1>1. n \in Int
  <2>1. S \subseteq Nat /\ S # {} BY CacheAssumption
  <2> QED BY <2>1, LeastMember
<1>2. After(c.lru, n) \in Entries
  BY <1>1, AfterRange DEF Sound, IsCache
<1> HIDE DEF n
<1>3. \E passed : t = [c EXCEPT !.lru = After(c.lru, n),
                  !.entry = [e \in Entries |-> [c.entry[e] EXCEPT !.lru = @ /\ e \notin passed]]]
  BY Zenon DEF Turned, n
<1>4. PICK passed : t = [c EXCEPT !.lru = After(c.lru, n),
                  !.entry = [e \in Entries |-> [c.entry[e] EXCEPT !.lru = @ /\ e \notin passed]]]
  BY <1>3
<1> HIDE DEF t
<1>5. t.entry = [e \in Entries |-> [c.entry[e] EXCEPT !.lru = c.entry[e].lru /\ e \notin passed]]
  BY <1>4 DEF Sound, IsCache
<1>6. AreEntries(t.entry) /\ SameOffsets(c, t)
  BY <1>5 DEF Sound, IsCache, AreEntries, IsEntry, SameOffsets
<1>7. IsCache(t) /\ t.hash = c.hash /\ t.curOffset = c.curOffset
  BY <1>2, <1>4, <1>6 DEF Sound, IsCache
<1> QED BY <1>6, <1>7 DEF Sound, OnChain, Apart, SameOffsets, t

\* A write to the store changes dirty marks only.
LEMMA WrittenSound ==
  ASSUME NEW c, Sound(c)
  PROVE  /\ Sound(write_cache_lru(c)) /\ SameOffsets(c, write_cache_lru(c))
         /\ write_cache_lru(c).curOffset = c.curOffset
<1> DEFINE w == write_cache_lru(c)
           Flags(run) == [e \in Entries |-> [c.entry[e] EXCEPT !.dirty = @ /\ c.entry[e].offset \notin run]]
<1>1. \E m, run : w = [[c EXCEPT !.m = m, !.entry = Flags(run)] EXCEPT !.seek = -1]
  BY Zenon DEF write_cache_lru, SeekAgain
<1>2. PICK m, run : w = [[c EXCEPT !.m = m, !.entry = Flags(run)] EXCEPT !.seek = -1]
  BY <1>1
<1> HIDE DEF w
<1>3. w.entry = Flags(run)
  BY <1>2 DEF Sound, IsCache
<1>4. AreEntries(w.entry) /\ SameOffsets(c, w)
  <2>1. w.entry \in [Entries -> {w.entry[e] : e \in Entries}] BY <1>3
  <2>2. ASSUME NEW e \in Entries PROVE IsEntry(w.entry[e]) /\ c.entry[e].offset = w.entry[e].offset
    <3> DEFINE x == c.entry[e]
    <3>1. x \in [offset : Nat, pixel : {x.pixel}, dirty : BOOLEAN, lru : BOOLEAN]
      BY DEF Sound, IsCache, AreEntries, IsEntry
    <3>2. PICK kept \in BOOLEAN : w.entry[e] = [x EXCEPT !.dirty = kept]
      BY <1>3
    <3> HIDE DEF x
    <3>3. IsEntry(w.entry[e]) /\ w.entry[e].offset = x.offset BY <3>1, <3>2 DEF IsEntry
    <3> QED BY <3>3 DEF x
  <2> QED BY <2>1, <2>2 DEF AreEntries, SameOffsets
<1>5. IsCache(w) /\ w.hash = c.hash /\ w.curOffset = c.curOffset
  BY <1>2, <1>4 DEF Sound, IsCache
<1> QED BY <1>4, <1>5 DEF Sound, OnChain, Apart, SameOffsets, w

\* The entry found for offset.
FoundAt(c, offset) == /\ Sound(c) /\ c.curOffset = offset
                      /\ c.entry[c.cur].offset = offset

\* The entry at the hand, and no other, gets the block that is loaded.
LEMMA LoadedEntry ==
  ASSUME NEW c, IsCache(c), NEW offset \in BlockStarts
  PROVE  LET d == Loaded(c, offset)
         IN  /\ IsCache(d) /\ d.hash = c.hash /\ d.lru = c.lru /\ d.curOffset = c.curOffset
             /\ d.entry[c.lru].offset = offset
             /\ \A e \in Entries \ {c.lru} : d.entry[e].offset = c.entry[e].offset
<1> DEFINE d == Loaded(c, offset)
           With(pixel) == [c.entry EXCEPT ![c.lru] = [offset |-> offset, pixel |-> pixel, dirty |-> FALSE, lru |-> TRUE]]
           Rest == [entry : {d.entry}, hash : {c.hash}, lru : {c.lru}, cur : {c.cur},
                    curOffset : {c.curOffset}, high : Nat \cup {-1}, seek : Nat \cup {-1}, m : {d.m}]
<1>0. offset \in Nat /\ offset + BLOCK_LEN \in Nat BY BlockAssumption DEF BlockStarts
<1>1. (\E pixel : d.entry = With(pixel)) /\ d \in Rest
  <2>1. CASE NeverSeen(c, offset)
    <3>1. d = [c EXCEPT !.high = offset, !.entry = With([i \in 0 .. BLOCK_LEN - 1 |-> 0])]
      BY <2>1, Zenon DEF Loaded
    <3> HIDE DEF d
    <3> QED BY <1>0, <3>1 DEF IsCache
  <2>2. CASE ~NeverSeen(c, offset)
    <3>1. \E m, pixel : d = [c EXCEPT !.m = m, !.seek = offset + BLOCK_LEN, !.entry = With(pixel)]
      BY <2>2, Zenon DEF Loaded
    <3> HIDE DEF d
    <3>2. PICK m, pixel : d = [c EXCEPT !.m = m, !.seek = offset + BLOCK_LEN, !.entry = With(pixel)]
      BY <3>1
    <3> QED BY <1>0, <3>2 DEF IsCache
  <2> QED BY <2>1, <2>2
<1>2. PICK pixel : d.entry = With(pixel)
  BY <1>1
<1> HIDE DEF d
<1>4. AreEntries(d.entry)
  <2>1. d.entry \in [Entries -> {d.entry[e] : e \in Entries}] BY <1>2 DEF IsCache, AreEntries
  <2>2. ASSUME NEW e \in Entries PROVE IsEntry(d.entry[e])
    <3>1. CASE e = c.lru
      <4>1. d.entry[e] = [offset |-> offset, pixel |-> pixel, dirty |-> FALSE, lru |-> TRUE]
        BY <1>2, <3>1 DEF IsCache, AreEntries
      <4> QED BY <1>0, <4>1 DEF IsEntry
    <3>2. CASE e # c.lru
      <4>1. d.entry[e] = c.entry[e] BY <1>2, <3>2 DEF IsCache, AreEntries
      <4> QED BY <4>1 DEF IsCache, AreEntries
    <3> QED BY <3>1, <3>2
  <2> QED BY <2>1, <2>2 DEF AreEntries
<1>5. IsCache(d) /\ d.hash = c.hash /\ d.lru = c.lru /\ d.curOffset = c.curOffset
  BY <1>1, <1>4 DEF IsCache
<1>6. d.entry[c.lru].offset = offset /\ \A e \in Entries \ {c.lru} : d.entry[e].offset = c.entry[e].offset
  BY <1>2 DEF IsCache, AreEntries, IsEntry
<1> QED BY <1>5, <1>6, Zenon DEF d

\* Wherever the block was, one entry has it afterwards and is the current one: an entry
\* given to another block is taken off its old chain first.
LEMMA FindLoad ==
  ASSUME NEW c0, Sound(c0), NEW offset \in BlockStarts
  PROVE  FoundAt(find_load_cache(c0, offset), offset)
<1> DEFINE c == [c0 EXCEPT !.curOffset = offset]
           t == Turned(c)
           w == IF t.entry[t.lru].dirty THEN write_cache_lru(t) ELSE t
           ev == Evicted(w)
           l == Loaded(ev, offset)
           r == Chained(l)
<1>1. Sound(c) /\ c.curOffset = offset
  BY DEF Sound, IsCache, OnChain, Apart
<1> HIDE DEF c
<1>a. hash_index(offset) \in Chains
  BY HashRange DEF BlockStarts
<1>2. CASE Holders(c, offset) # {}
  <2> DEFINE e == CHOOSE e \in Holders(c, offset) : TRUE
             h == [c EXCEPT !.cur = e, !.entry[e].lru = TRUE]
  <2>1. e \in Holders(c, offset)
    BY <1>2
  <2>2. e \in Entries /\ c.entry[e].offset = offset
    BY <2>1, <1>1, <1>a DEF Holders, Sound, IsCache
  <2> HIDE DEF e
  <2>3. AreEntries(h.entry) /\ SameOffsets(c, h)
    BY <1>1, <2>2 DEF Sound, IsCache, AreEntries, IsEntry, SameOffsets
  <2>4. IsCache(h) /\ h.hash = c.hash /\ h.curOffset = offset /\ h.cur = e
    BY <1>1, <2>2, <2>3 DEF Sound, IsCache
  <2>5. FoundAt(h, offset)
    BY <1>1, <2>2, <2>3, <2>4 DEF FoundAt, Sound, OnChain, Apart, SameOffsets
  <2>6. find_load_cache(c0, offset) = h
    BY <1>2, Zenon DEF find_load_cache, c, e
  <2> QED BY <2>5, <2>6
<1>3. CASE Holders(c, offset) = {}
  <2>1. \A e \in Entries : c.entry[e].offset # offset
    BY <1>1, <1>3, <1>a DEF Holders, Sound, OnChain
  <2>2. Sound(t) /\ SameOffsets(c, t) /\ t.curOffset = offset
    BY <1>1, TurnedSound, Zenon
  <2> HIDE DEF t
  <2>3. Sound(w) /\ SameOffsets(c, w) /\ w.curOffset = offset
    BY <2>2, WrittenSound, Zenon DEF SameOffsets
  <2> HIDE DEF w
  <2>4. /\ IsCache(ev) /\ ev.lru = w.lru /\ ev.entry = w.entry /\ ev.curOffset = offset
        /\ \A e \in Entries \ {w.lru} : OnChain(ev, e)
        /\ \A h \in Chains : w.lru \notin ev.hash[h]
    BY <2>3, HashRange DEF Evicted, Sound, IsCache, AreEntries, IsEntry, OnChain
  <2> HIDE DEF ev
  <2>5. /\ IsCache(l) /\ l.hash = ev.hash /\ l.lru = w.lru /\ l.curOffset = offset
        /\ l.entry[w.lru].offset = offset
        /\ \A e \in Entries \ {w.lru} : l.entry[e].offset = w.entry[e].offset
    BY <2>4, LoadedEntry
  <2> HIDE DEF l
  <2>6. /\ IsCache(r) /\ r.entry = l.entry /\ r.cur = w.lru /\ r.curOffset = offset
        /\ r.hash = [l.hash EXCEPT ![hash_index(offset)] = @ \cup {w.lru}]
    BY <2>5, <1>a DEF Chained, IsCache
  <2>7. w.lru \in Entries
    BY <2>3 DEF Sound, IsCache
  <2> HIDE DEF r
  <2>8. \A e \in Entries : OnChain(r, e)
    BY <2>4, <2>5, <2>6, <2>7, HashRange DEF OnChain, IsCache
  <2>9. Apart(r.entry)
    BY <2>1, <2>3, <2>5, <2>6, <2>7 DEF Apart, Sound, SameOffsets
  <2>10. FoundAt(r, offset)
    BY <2>5, <2>6, <2>8, <2>9 DEF FoundAt, Sound
  <2>11. find_load_cache(c0, offset) = r
    BY <1>3, Zenon DEF find_load_cache, c, t, w, ev, l, r
  <2> QED BY <2>10, <2>11
<1> QED BY <1>2, <1>3

-----------------------------------------------------------------------------
\* The same when the block used last is taken without a look.
LEMMA FoundSound ==
  ASSUME Sound(Cache), CurrentBlock, session # Closed, NEW offset \in Nat
  PROVE  FoundAt(Found(offset), block_offset(offset))
<1>1. block_offset(offset) \in BlockStarts
  BY BlockStart
<1>2. CASE s_cur_offset = block_offset(offset)
  <2>1. Found(offset) = Cache BY <1>2, Zenon DEF Found
  <2>2. Cache.curOffset = block_offset(offset) /\ Cache.entry[Cache.cur].offset = block_offset(offset)
    BY <1>1, <1>2 DEF CurrentBlock, Cache, BlockStarts
  <2> QED BY <2>1, <2>2, Zenon DEF FoundAt
<1>3. CASE s_cur_offset # block_offset(offset)
  <2>1. FoundAt(find_load_cache(Cache, block_offset(offset)), block_offset(offset))
    BY <1>1, FindLoad
  <2> QED BY <1>3, <2>1 DEF Found
<1> QED BY <1>2, <1>3

\* The block found with other pixels and another mark.
Altered(c, pixel, dirty) == [c EXCEPT !.entry = [@ EXCEPT ![c.cur].dirty = dirty, ![c.cur].pixel = pixel]]

\* The block found stays the one found when its pixels or its mark change.
LEMMA Changed ==
  ASSUME NEW c, NEW o, FoundAt(c, o), NEW pixel, NEW dirty \in BOOLEAN,
         NEW d, d = Altered(c, pixel, dirty)
  PROVE  FoundAt(d, o)
<1>0. c.cur \in Entries /\ d.entry = [c.entry EXCEPT ![c.cur].dirty = dirty, ![c.cur].pixel = pixel]
  BY DEF FoundAt, Sound, IsCache, Altered
<1>1. AreEntries(d.entry) /\ SameOffsets(c, d)
  <2>1. d.entry \in [Entries -> {d.entry[e] : e \in Entries}]
    BY <1>0 DEF FoundAt, Sound, IsCache, AreEntries
  <2>2. ASSUME NEW e \in Entries PROVE IsEntry(d.entry[e]) /\ c.entry[e].offset = d.entry[e].offset
    <3> DEFINE x == c.entry[e]
    <3>1. IsEntry(x) BY DEF FoundAt, Sound, IsCache, AreEntries
    <3>2. CASE e = c.cur
      <4>1. d.entry[e] = [x EXCEPT !.dirty = dirty, !.pixel = pixel]
        BY <1>0, <3>1, <3>2 DEF FoundAt, Sound, IsCache, AreEntries, IsEntry
      <4> HIDE DEF x
      <4>2. IsEntry(d.entry[e]) /\ d.entry[e].offset = x.offset BY <3>1, <4>1 DEF IsEntry
      <4> QED BY <4>2 DEF x
    <3>3. CASE e # c.cur
      <4>1. d.entry[e] = x
        BY <1>0, <3>3 DEF FoundAt, Sound, IsCache, AreEntries
      <4> QED BY <3>1, <4>1
    <3> QED BY <3>2, <3>3
  <2> QED BY <2>1, <2>2 DEF AreEntries, SameOffsets
<1>2. IsCache(d) /\ d.hash = c.hash /\ d.cur = c.cur /\ d.curOffset = c.curOffset
  BY <1>1 DEF FoundAt, Sound, IsCache, Altered
<1> QED BY <1>1, <1>2 DEF FoundAt, Sound, OnChain, Apart, SameOffsets, IsCache

\* A pixel is written in the block found.
LEMMA WrittenPixel ==
  ASSUME NEW c, NEW o, FoundAt(c, o), NEW i, NEW color, c.entry[c.cur].pixel[i] # color
  PROVE  WritePixel(c, i, color) = Altered(c, [c.entry[c.cur].pixel EXCEPT ![i] = color], TRUE)
<1> DEFINE pixel == [c.entry[c.cur].pixel EXCEPT ![i] = color]
           d == [c EXCEPT !.entry[c.cur].pixel[i] = color, !.entry[c.cur].dirty = TRUE]
<1>1. d.entry = [c.entry EXCEPT ![c.cur].dirty = TRUE, ![c.cur].pixel = pixel]
  BY DEF FoundAt, Sound, IsCache, AreEntries, IsEntry
<1>2. d = [c EXCEPT !.entry = [@ EXCEPT ![c.cur].dirty = TRUE, ![c.cur].pixel = pixel]]
  BY <1>1 DEF FoundAt, Sound, IsCache
<1> QED BY <1>2, Zenon DEF Altered, WritePixel

LEMMA WriteSound ==
  ASSUME NEW c, NEW o, FoundAt(c, o), NEW i, NEW color
  PROVE  FoundAt(WritePixel(c, i, color), o)
<1>1. CASE c.entry[c.cur].pixel[i] = color BY <1>1, Zenon DEF WritePixel
<1>2. CASE c.entry[c.cur].pixel[i] # color
  <2>1. FoundAt(Altered(c, [c.entry[c.cur].pixel EXCEPT ![i] = color], TRUE), o) BY Changed
  <2> QED BY <1>2, <2>1, WrittenPixel
<1> QED BY <1>1, <1>2

\* The preset offsets of an empty cache differ.
LEMMA EmptySound ==
  ASSUME NEW c, NEW cur \in Entries, NEW curOffset \in BlockStarts \cup {-1},
         NEW high \in Nat \cup {-1}, NEW seek \in Nat \cup {-1}, NEW m,
         c = [entry |-> NoEntries, hash |-> PresetChains, lru |-> 0, cur |-> cur,
              curOffset |-> curOffset, high |-> high, seek |-> seek, m |-> m]
  PROVE  Sound(c)
<1>1. \A e \in Entries : Preset(e) \in Nat
  BY BlockAssumption DEF Preset, Entries
<1>2. AreEntries(NoEntries) /\ \A e \in Entries : NoEntries[e].offset = Preset(e)
  BY <1>1 DEF NoEntries, AreEntries, IsEntry
<1>3. Apart(NoEntries)
  <2> SUFFICES ASSUME NEW d \in Entries, NEW e \in Entries, Preset(d) = Preset(e) PROVE d = e
    BY <1>2 DEF Apart
  <2>1. (d + 1) * BLOCK_LEN = (e + 1) * BLOCK_LEN
    BY BlockAssumption DEF Preset, Entries
  <2>2. d + 1 = e + 1
    BY <2>1, SameFactor, BlockAssumption DEF Entries
  <2> QED BY <2>2 DEF Entries
<1>4. 0 \in Entries
  BY CacheAssumption DEF Entries
<1>5. IsCache(c)
  BY <1>2, <1>4 DEF IsCache, PresetChains, Chains
<1>6. \A e \in Entries, h \in Chains : e \in PresetChains[h] <=> hash_index(Preset(e)) = h
  BY DEF PresetChains, Chains
<1> QED BY <1>2, <1>3, <1>5, <1>6 DEF Sound, OnChain

-----------------------------------------------------------------------------
\* The store: what is behind a handle that has a place, and the buffer before it.

BlockBytesSet == [0 .. BLOCK_LEN - 1 -> 0 .. 255]

StoreOf(s) == [stored_at : {"STORED"}, blocks : [0 .. LastBlock(s) -> BlockBytesSet],
               buf : BlockBytesSet, offset : 0 .. LastBlock(s), ptr : Nat]

\* The byte at i in block b, the byte at an address, and the address that comes next.
ByteAt(m, b, i) == (IF b = m.offset THEN m.buf ELSE m.blocks[b])[i]
ByteOf(m, a) == ByteAt(m, a \div BLOCK_LEN, a % BLOCK_LEN)
Spot(m) == m.offset * BLOCK_LEN + m.ptr

Addresses(s) == 0 .. (LastBlock(s) + 1) * BLOCK_LEN - 1
SameBytes(s, m, n) == \A b \in 0 .. LastBlock(s), i \in 0 .. BLOCK_LEN - 1 : ByteAt(n, b, i) = ByteAt(m, b, i)

\* An address is one of a block and a place in it.
LEMMA BlockPlace ==
  ASSUME NEW b \in Nat, NEW i \in 0 .. BLOCK_LEN - 1, NEW a, a = b * BLOCK_LEN + i
  PROVE  a \in Nat /\ a \div BLOCK_LEN = b /\ a % BLOCK_LEN = i
<1>1. PICK L \in Nat \ {0} : L = BLOCK_LEN BY BlockAssumption
<1>2. i \in Nat /\ i < L BY <1>1
<1>3. b * L \in Nat BY <1>1
<1>4. (b * L + i) \div L = b /\ (b * L + i) % L = i BY <1>1, <1>2, <1>3
<1> QED BY <1>1, <1>2, <1>3, <1>4

\* And every address has its block and its place.
LEMMA AddressPlace ==
  ASSUME NEW a \in Nat
  PROVE  /\ a \div BLOCK_LEN \in Nat /\ a % BLOCK_LEN \in 0 .. BLOCK_LEN - 1
         /\ a = (a \div BLOCK_LEN) * BLOCK_LEN + (a % BLOCK_LEN)
         /\ \A K \in Nat : a < (K + 1) * BLOCK_LEN => a \div BLOCK_LEN \in 0 .. K
<1>1. PICK L \in Nat \ {0} : L = BLOCK_LEN BY BlockAssumption
<1>2. PICK q \in Nat, r \in 0 .. L - 1 : q = a \div L /\ r = a % L BY <1>1
<1>3. a = q * L + r BY <1>1, <1>2
<1>4. ASSUME NEW K \in Nat, a < (K + 1) * L PROVE q <= K
  <2>1. CASE q = K + 1
    BY <1>3, <1>4, <2>1, <1>1, <1>2
  <2>2. CASE K + 1 < q
    <3>1. (K + 1) * L + L <= q * L BY <2>2, Factors
    <3>2. (K + 1) * L \in Nat /\ q * L \in Nat BY <1>1
    <3> QED BY <1>1, <1>2, <1>3, <1>4, <3>1, <3>2
  <2> QED BY <2>1, <2>2, <1>2
<1> QED BY <1>1, <1>2, <1>3, <1>4

\* The same bytes are the same at every address.
LEMMA SameAtAddress ==
  ASSUME NEW s, NEW m, NEW n, LastBlock(s) \in Nat, SameBytes(s, m, n), NEW a \in Addresses(s)
  PROVE  ByteOf(n, a) = ByteOf(m, a)
<1>1. a \in Nat /\ a < (LastBlock(s) + 1) * BLOCK_LEN BY BlockAssumption DEF Addresses
<1>2. a \div BLOCK_LEN \in 0 .. LastBlock(s) /\ a % BLOCK_LEN \in 0 .. BLOCK_LEN - 1
  BY <1>1, AddressPlace
<1> QED BY <1>2 DEF SameBytes, ByteOf

\* The buffer is put back before another block is taken into it.
LEMMA Moved ==
  ASSUME NEW s, LastBlock(s) \in Nat, NEW m \in StoreOf(s), NEW b \in 0 .. LastBlock(s)
  PROVE  LET n == to_memory([from_memory(m) EXCEPT !.offset = b])
         IN  n \in StoreOf(s) /\ n.offset = b /\ n.ptr = m.ptr /\ SameBytes(s, m, n)
<1> DEFINE f == [from_memory(m) EXCEPT !.offset = b]
           n == to_memory(f)
<1>1. f = [m EXCEPT !.blocks[m.offset] = m.buf, !.offset = b]
  BY DEF from_memory, StoreOf
<1>2. f \in StoreOf(s) /\ f.offset = b /\ f.ptr = m.ptr /\ f.blocks = [m.blocks EXCEPT ![m.offset] = m.buf]
  <2> HIDE DEF f
  <2>1. f \in [stored_at : {"STORED"}, blocks : {[m.blocks EXCEPT ![m.offset] = m.buf]},
               buf : {m.buf}, offset : {b}, ptr : {m.ptr}]
    BY <1>1 DEF StoreOf
  <2>2. [m.blocks EXCEPT ![m.offset] = m.buf] \in [0 .. LastBlock(s) -> BlockBytesSet]
    BY DEF StoreOf
  <2> QED BY <2>1, <2>2 DEF StoreOf
<1> HIDE DEF f
<1>3. n = [f EXCEPT !.buf = f.blocks[f.offset]]
  BY <1>2 DEF to_memory, StoreOf
<1>4. n \in StoreOf(s) /\ n.offset = b /\ n.ptr = m.ptr /\ n.blocks = f.blocks /\ n.buf = f.blocks[b]
  BY <1>2, <1>3 DEF StoreOf
<1>5. \A c \in 0 .. LastBlock(s) : (IF c = n.offset THEN n.buf ELSE n.blocks[c])
                                 = (IF c = m.offset THEN m.buf ELSE m.blocks[c])
  BY <1>2, <1>4 DEF StoreOf
<1> HIDE DEF n
<1>6. SameBytes(s, m, n) BY <1>5 DEF SameBytes, ByteAt
<1> QED BY <1>4, <1>6 DEF n, f

\* Whatever is sought, no byte changes.
LEMMA SeekStore ==
  ASSUME LastBlock(session) \in Nat, NEW m \in StoreOf(session), NEW at \in Nat, session.header \in Nat,
         at + session.header \in Addresses(session)
  PROVE  LET n == mem_seek(m, at)
         IN  /\ n \in StoreOf(session) /\ Spot(n) = at + session.header /\ n.ptr < BLOCK_LEN
             /\ SameBytes(session, m, n)
<1> DEFINE a == at + session.header
           b == a \div BLOCK_LEN
           there == IF b = m.offset THEN m ELSE to_memory([from_memory(m) EXCEPT !.offset = b])
           n == mem_seek(m, at)
<1>1. a \in Nat /\ a < (LastBlock(session) + 1) * BLOCK_LEN BY BlockAssumption DEF Addresses
<1>2. b \in 0 .. LastBlock(session) /\ a % BLOCK_LEN \in 0 .. BLOCK_LEN - 1 /\ a = b * BLOCK_LEN + (a % BLOCK_LEN)
  BY <1>1, AddressPlace
<1>3. n = [there EXCEPT !.ptr = a % BLOCK_LEN] BY Zenon DEF mem_seek
<1> HIDE DEF b, n
<1>4. there \in StoreOf(session) /\ there.offset = b /\ SameBytes(session, m, there)
  <2>1. CASE b = m.offset BY <2>1 DEF SameBytes
  <2>2. CASE b # m.offset BY <1>2, <2>2, Moved
  <2> QED BY <2>1, <2>2
<1> HIDE DEF there
<1>5. BLOCK_LEN \in Nat BY BlockAssumption
<1> HIDE DEF a
<1>6. n \in StoreOf(session) /\ n.offset = b /\ n.ptr = a % BLOCK_LEN /\ n.buf = there.buf /\ n.blocks = there.blocks
  <2>1. PICK p \in 0 .. BLOCK_LEN : p = a % BLOCK_LEN BY <1>2, <1>5
  <2>2. n = [there EXCEPT !.ptr = p] BY <1>3, <2>1
  <2> QED BY <1>4, <2>1, <2>2 DEF StoreOf
<1>7. SameBytes(session, m, n) BY <1>4, <1>6 DEF SameBytes, ByteAt
<1>8. Spot(n) = a BY <1>2, <1>6, Zenon DEF Spot
<1>9. n.ptr < BLOCK_LEN BY <1>2, <1>5, <1>6
<1> QED BY <1>6, <1>7, <1>8, <1>9 DEF n, a

\* The next block of the store.
LEMMA NextStore ==
  ASSUME LastBlock(session) \in Nat, NEW m \in StoreOf(session), m.offset + 1 \in 0 .. LastBlock(session)
  PROVE  /\ NextBlock(m) \in StoreOf(session) /\ NextBlock(m).offset = m.offset + 1 /\ NextBlock(m).ptr = 0
         /\ SameBytes(session, m, NextBlock(m))
<1> DEFINE n == to_memory([from_memory(m) EXCEPT !.offset = m.offset + 1])
           x == NextBlock(m)
<1>1. n \in StoreOf(session) /\ n.offset = m.offset + 1 /\ SameBytes(session, m, n)
  BY Moved
<1>2. [from_memory(m) EXCEPT !.offset = @ + 1] = [from_memory(m) EXCEPT !.offset = m.offset + 1]
  BY DEF from_memory, StoreOf
<1>3. x = [n EXCEPT !.ptr = 0] BY <1>2, Zenon DEF NextBlock
<1> HIDE DEF n, x
<1>4. BLOCK_LEN \in Nat BY BlockAssumption
<1>5. x \in StoreOf(session) /\ x.offset = n.offset /\ x.ptr = 0 /\ x.buf = n.buf /\ x.blocks = n.blocks
  BY <1>1, <1>3, <1>4 DEF StoreOf
<1>6. SameBytes(session, m, x) BY <1>1, <1>5 DEF SameBytes, ByteAt
<1> QED BY <1>1, <1>5, <1>6 DEF x

\* As many bytes as a block of the cache has are within the store.
Reaches(s, m) == Spot(m) + BlockBytes(s) <= (LastBlock(s) + 1) * BLOCK_LEN

\* What is past the end of the buffer is in the next block.
LEMMA Straddle ==
  ASSUME IsSession(session), LastBlock(session) \in Nat, NEW m \in StoreOf(session), Reaches(session, m),
         m.ptr <= BLOCK_LEN, m.ptr + BlockBytes(session) > BLOCK_LEN
  PROVE  m.offset + 1 \in 0 .. LastBlock(session)
<1>1. PICK L \in Nat \ {0}, n \in Nat, p \in 0 .. BLOCK_LEN, b \in Nat, K \in Nat :
         L = BLOCK_LEN /\ n = BlockBytes(session) /\ p = m.ptr /\ b = m.offset /\ K = LastBlock(session)
  <2>1. m.ptr \in 0 .. BLOCK_LEN /\ m.offset \in Nat BY BlockAssumption DEF StoreOf
  <2>2. BlockBytes(session) \in Nat BY BlockOfBytes
  <2>3. BLOCK_LEN \in Nat \ {0} BY BlockAssumption
  <2> QED BY <2>1, <2>2, <2>3, Zenon
<1>2. b * L + p + n <= (K + 1) * L BY <1>1 DEF Reaches, Spot
<1>3. (b + 1) * L < (K + 1) * L
  <2>1. (b + 1) * L = b * L + L /\ b * L \in Nat /\ (K + 1) * L \in Nat BY <1>1
  <2> QED BY <1>1, <1>2, <2>1
<1>4. CASE K + 1 <= b + 1
  <2>1. CASE K = b BY <1>3, <2>1
  <2>2. CASE K < b
    <3>1. (K + 1) * L + L <= (b + 1) * L BY <2>2, Factors
    <3>2. (b + 1) * L \in Nat /\ (K + 1) * L \in Nat BY <1>1
    <3> QED BY <1>1, <1>3, <3>1, <3>2
  <2> QED BY <1>1, <1>4, <2>1, <2>2
<1> QED BY <1>1, <1>4

\* The bytes from where the store is, and it is past them afterwards.
LEMMA ReadStore ==
  ASSUME IsSession(session), LastBlock(session) \in Nat, NEW m \in StoreOf(session), Reaches(session, m),
         m.ptr <= BLOCK_LEN
  PROVE  LET r == ReadBlock(m)
         IN  /\ r.m \in StoreOf(session) /\ Spot(r.m) = Spot(m) + BlockBytes(session) /\ SameBytes(session, m, r.m)
             /\ r.m.ptr <= BLOCK_LEN
             /\ r.bytes \in [0 .. BlockBytes(session) - 1 -> 0 .. 255]
             /\ \A k \in 0 .. BlockBytes(session) - 1 : r.bytes[k] = ByteOf(m, Spot(m) + k)
<1> DEFINE n == BytesOfBlock
           over == m.ptr + n - BLOCK_LEN
           end == IF over <= 0 THEN [m EXCEPT !.ptr = m.ptr + n] ELSE [NextBlock(m) EXCEPT !.ptr = over]
           r == ReadBlock(m)
<1>3. n = BlockBytes(session) BY Zenon DEF BytesOfBlock, BlockBytes
<1>1. m.ptr \in 0 .. BLOCK_LEN /\ m.offset \in 0 .. LastBlock(session) /\ m.buf \in BlockBytesSet
  BY BlockAssumption DEF StoreOf
<1>2. n \in Nat \ {0} /\ n <= BLOCK_LEN /\ BLOCK_LEN \in Nat \ {0} BY <1>3, BlockOfBytes, BlockAssumption
<1>4. r = [m |-> end, bytes |-> [k \in 0 .. n - 1 |-> IF m.ptr + k < BLOCK_LEN THEN m.buf[m.ptr + k]
                                                     ELSE end.buf[m.ptr + k - BLOCK_LEN]]]
  <2>1. [m EXCEPT !.ptr = @ + n] = [m EXCEPT !.ptr = m.ptr + n] BY DEF StoreOf
  <2> QED BY <2>1, Zenon DEF ReadBlock
<1> HIDE DEF r, n
<1>5. end \in StoreOf(session) /\ Spot(end) = Spot(m) + n /\ SameBytes(session, m, end) /\ end.ptr <= BLOCK_LEN
  <2>1. CASE over <= 0
    <3>1. end = [m EXCEPT !.ptr = m.ptr + n] BY <2>1
    <3>2. PICK p \in 0 .. BLOCK_LEN : p = m.ptr + n BY <1>1, <1>2, <2>1
    <3> HIDE DEF end
    <3>3. end \in StoreOf(session) /\ end.ptr = p /\ end.offset = m.offset /\ end.buf = m.buf /\ end.blocks = m.blocks
      BY <3>1, <3>2 DEF StoreOf
    <3>4. SameBytes(session, m, end) BY <3>3 DEF SameBytes, ByteAt
    <3>5. m.offset * BLOCK_LEN \in Nat BY <1>1, <1>2
    <3>6. Spot(end) = Spot(m) + n BY <1>1, <1>2, <3>2, <3>3, <3>5 DEF Spot
    <3> QED BY <1>2, <3>2, <3>3, <3>4, <3>6
  <2>2. CASE over > 0
    <3>1. end = [NextBlock(m) EXCEPT !.ptr = over] BY <1>1, <1>2, <2>2
    <3>2. PICK p \in 0 .. BLOCK_LEN : p = over BY <1>1, <1>2, <2>2
    <3>3. m.offset + 1 \in 0 .. LastBlock(session) BY <1>1, <1>2, <2>2, <1>3, Straddle
    <3>4. PICK x \in StoreOf(session) : x = NextBlock(m) /\ x.offset = m.offset + 1 /\ SameBytes(session, m, x)
      BY <3>3, NextStore
    <3>5. end = [x EXCEPT !.ptr = p] BY <3>1, <3>2, <3>4
    <3> HIDE DEF end
    <3>6. end \in StoreOf(session) /\ end.ptr = p /\ end.offset = x.offset /\ end.buf = x.buf /\ end.blocks = x.blocks
      BY <3>5 DEF StoreOf
    <3>7. SameBytes(session, m, end) BY <3>4, <3>6 DEF SameBytes, ByteAt
    <3>8. (m.offset + 1) * BLOCK_LEN = m.offset * BLOCK_LEN + BLOCK_LEN /\ m.offset * BLOCK_LEN \in Nat BY <1>1, <1>2
    <3>9. Spot(end) = (m.offset + 1) * BLOCK_LEN + over BY <3>2, <3>4, <3>6, Zenon DEF Spot
    <3>10. Spot(end) = Spot(m) + n BY <1>1, <1>2, <3>8, <3>9 DEF Spot
    <3> QED BY <1>2, <3>2, <3>6, <3>7, <3>10
  <2> QED BY <1>1, <1>2, <2>1, <2>2
<1>6. over > 0 => end.offset = m.offset + 1
  <2>1. ASSUME over > 0 PROVE end.offset = m.offset + 1
    <3>1. end = [NextBlock(m) EXCEPT !.ptr = over] BY <1>1, <1>2, <2>1
    <3>3. m.offset + 1 \in 0 .. LastBlock(session) BY <1>1, <1>2, <2>1, <1>3, Straddle
    <3>4. NextBlock(m) \in StoreOf(session) /\ NextBlock(m).offset = m.offset + 1
      BY <3>3, NextStore
    <3> QED BY <3>1, <3>4 DEF StoreOf
  <2> QED BY <2>1
<1> HIDE DEF end
<1>7. ASSUME NEW k \in 0 .. n - 1 PROVE r.bytes[k] = ByteOf(m, Spot(m) + k) /\ r.bytes[k] \in 0 .. 255
  <2>1. CASE m.ptr + k < BLOCK_LEN
    <3>1. r.bytes[k] = m.buf[m.ptr + k] BY <1>4, <2>1
    <3>2. m.ptr + k \in 0 .. BLOCK_LEN - 1 /\ m.offset \in Nat BY <1>1, <1>2, <2>1
    <3>3. Spot(m) + k = m.offset * BLOCK_LEN + (m.ptr + k)
      <4>1. m.offset * BLOCK_LEN \in Nat BY <1>2, <3>2
      <4> QED BY <1>1, <1>2, <4>1 DEF Spot
    <3>4. ByteOf(m, Spot(m) + k) = ByteAt(m, m.offset, m.ptr + k)
      BY <3>2, <3>3, BlockPlace DEF ByteOf
    <3>5. ByteAt(m, m.offset, m.ptr + k) = m.buf[m.ptr + k] BY DEF ByteAt
    <3>6. m.buf[m.ptr + k] \in 0 .. 255 BY <1>1, <3>2 DEF BlockBytesSet
    <3> QED BY <3>1, <3>4, <3>5, <3>6
  <2>2. CASE ~(m.ptr + k < BLOCK_LEN)
    <3> DEFINE i == m.ptr + k - BLOCK_LEN
    <3>1. r.bytes[k] = end.buf[i] BY <1>4, <2>2
    <3>2. over > 0 /\ i \in 0 .. BLOCK_LEN - 1 BY <1>1, <1>2, <2>2
    <3>3. end.offset = m.offset + 1 /\ m.offset + 1 \in 0 .. LastBlock(session) BY <1>5, <1>6, <3>2 DEF StoreOf
    <3>4. Spot(m) + k = (m.offset + 1) * BLOCK_LEN + i
      <4>1. m.offset * BLOCK_LEN \in Nat /\ (m.offset + 1) * BLOCK_LEN = m.offset * BLOCK_LEN + BLOCK_LEN BY <1>1, <1>2
      <4> QED BY <1>1, <1>2, <4>1 DEF Spot
    <3>5. ByteOf(m, Spot(m) + k) = ByteAt(m, m.offset + 1, i)
      <4> HIDE DEF i
      <4>1. m.offset + 1 \in Nat BY <1>1
      <4> QED BY <3>2, <3>4, <4>1, BlockPlace DEF ByteOf
    <3> HIDE DEF i
    <3>6. ByteAt(m, m.offset + 1, i) = ByteAt(end, m.offset + 1, i) BY <1>5, <3>2, <3>3 DEF SameBytes
    <3>7. ByteAt(end, m.offset + 1, i) = end.buf[i] BY <3>3 DEF ByteAt
    <3>8. end.buf[i] \in 0 .. 255 BY <1>5, <3>2 DEF StoreOf, BlockBytesSet
    <3> QED BY <3>1, <3>5, <3>6, <3>7, <3>8
  <2> QED BY <2>1, <2>2
<1>8. r.m = end /\ r.bytes \in [0 .. n - 1 -> 0 .. 255]
  <2>1. r.m = end /\ r.bytes = [k \in 0 .. n - 1 |-> r.bytes[k]] BY <1>4
  <2> QED BY <1>7, <2>1
<1> QED BY <1>3, <1>5, <1>7, <1>8 DEF r

\* Bytes put into the buffer from first on, which may be before its start, as far as it reaches.
PutBuffer(buf, bytes, first) == [i \in 0 .. BLOCK_LEN - 1 |-> IF i - first \in DOMAIN bytes THEN bytes[i - first] ELSE buf[i]]

PutAt(m, bytes, first, n) ==
    [m EXCEPT !.buf = [i \in DOMAIN @ |-> IF i - first \in DOMAIN bytes THEN bytes[i - first] ELSE @[i]], !.ptr = first + n]

\* x is m with the bytes put into its buffer.
IsPut(s, m, bytes, first, x) ==
    x \in StoreOf(s) /\ x.offset = m.offset /\ x.blocks = m.blocks /\ x.buf = PutBuffer(m.buf, bytes, first)

LEMMA PutStore ==
  ASSUME NEW s, NEW m \in StoreOf(s), NEW n \in Nat, NEW bytes \in [0 .. n - 1 -> 0 .. 255], NEW first \in Int,
         first + n \in Nat
  PROVE  IsPut(s, m, bytes, first, PutAt(m, bytes, first, n))
<1>1. m.buf \in [0 .. BLOCK_LEN - 1 -> 0 .. 255] BY DEF StoreOf, BlockBytesSet
<1> DEFINE b == PutBuffer(m.buf, bytes, first)
           x == PutAt(m, bytes, first, n)
<1>2. b \in BlockBytesSet
  <2>1. ASSUME NEW i \in 0 .. BLOCK_LEN - 1
        PROVE (IF i - first \in DOMAIN bytes THEN bytes[i - first] ELSE m.buf[i]) \in 0 .. 255
    BY <1>1
  <2> QED BY <2>1 DEF PutBuffer, BlockBytesSet
<1>3. x = [m EXCEPT !.buf = b, !.ptr = first + n]
  <2>1. [i \in DOMAIN m.buf |-> IF i - first \in DOMAIN bytes THEN bytes[i - first] ELSE m.buf[i]] = b
    BY <1>1 DEF PutBuffer
  <2>2. x = [m EXCEPT !.buf = [i \in DOMAIN m.buf |-> IF i - first \in DOMAIN bytes THEN bytes[i - first] ELSE m.buf[i]],
                      !.ptr = first + n]
    BY DEF StoreOf, PutAt
  <2> QED BY <2>1, <2>2, Zenon
<1> HIDE DEF b, x
<1>4. x \in StoreOf(s) /\ x.offset = m.offset /\ x.ptr = first + n /\ x.blocks = m.blocks /\ x.buf = b
  BY <1>2, <1>3 DEF StoreOf
<1> QED BY <1>4 DEF b, x, IsPut

\* Bytes are put where the store is, and nowhere else.
LEMMA PutBytes ==
  ASSUME IsSession(session), LastBlock(session) \in Nat, NEW m \in StoreOf(session), Reaches(session, m),
         m.ptr < BLOCK_LEN, NEW bytes \in [0 .. BlockBytes(session) - 1 -> 0 .. 255]
  PROVE  LET x == mem_putc(m, bytes)
         IN  /\ x \in StoreOf(session)
             /\ \A a \in Addresses(session) :
                   ByteOf(x, a) = IF a - Spot(m) \in 0 .. BlockBytes(session) - 1 THEN bytes[a - Spot(m)] ELSE ByteOf(m, a)
<1> DEFINE n == BytesOfBlock
           L == BLOCK_LEN
           Put(z, first) == PutAt(z, bytes, first, n)
           x == mem_putc(m, bytes)
<1>1. n = BlockBytes(session) BY Zenon DEF BytesOfBlock, BlockBytes
<1>2. n \in Nat \ {0} /\ n <= L /\ L \in Nat \ {0} BY <1>1, BlockOfBytes, BlockAssumption
<1>3. PICK p \in 0 .. L - 1, o \in Nat : p = m.ptr /\ o = m.offset /\ o \in 0 .. LastBlock(session)
  <2>1. m.ptr \in 0 .. L - 1 /\ m.offset \in Nat /\ m.offset \in 0 .. LastBlock(session) BY BlockAssumption DEF StoreOf
  <2> QED BY <2>1
<1>4. bytes \in [0 .. n - 1 -> 0 .. 255] BY <1>1
<1>5. x = IF p + n <= L THEN Put(m, p) ELSE Put(NextBlock(Put(m, p)), p - L)
  <2>1. x = IF m.ptr + n <= L THEN Put(m, m.ptr) ELSE Put(NextBlock(Put(m, m.ptr)), m.ptr - L)
    BY Zenon DEF mem_putc, PutAt
  <2> QED BY <1>3, <2>1, Zenon
<1> HIDE DEF n, x, L
<1>6. PICK S \in Nat : S = o * L /\ Spot(m) = S + p BY <1>2, <1>3 DEF Spot, L
<1> DEFINE First == Put(m, p)
<1>7. /\ First \in StoreOf(session) /\ First.offset = o /\ First.blocks = m.blocks
      /\ \A i \in 0 .. L - 1 : First.buf[i] = IF i - p \in 0 .. n - 1 THEN bytes[i - p] ELSE m.buf[i]
  <2>1. p + n \in Nat /\ p \in Int BY <1>2, <1>3
  <2>2. IsPut(session, m, bytes, p, First) BY <1>2, <1>4, <2>1, PutStore
  <2>3. \A i \in 0 .. L - 1 : PutBuffer(m.buf, bytes, p)[i] = IF i - p \in 0 .. n - 1 THEN bytes[i - p] ELSE m.buf[i]
    BY <1>4 DEF PutBuffer, L
  <2> HIDE DEF First
  <2> QED BY <1>3, <2>2, <2>3 DEF IsPut
<1> HIDE DEF First
<1>9. ASSUME NEW a \in Addresses(session)
      PROVE \E b \in Nat, i \in 0 .. L - 1, T \in Nat :
               /\ b \in 0 .. LastBlock(session) /\ T = b * L /\ a = T + i
               /\ ByteOf(m, a) = ByteAt(m, b, i) /\ ByteOf(x, a) = ByteAt(x, b, i)
  <2>1. a \in Nat /\ a < (LastBlock(session) + 1) * BLOCK_LEN BY BlockAssumption DEF Addresses
  <2>2. PICK b \in Nat, i \in 0 .. L - 1 : /\ b = a \div L /\ i = a % L /\ a = b * L + i /\ b \in 0 .. LastBlock(session)
    BY <2>1, AddressPlace DEF L
  <2>3. b * L \in Nat BY <1>2
  <2>4. ByteOf(m, a) = ByteAt(m, b, i) /\ ByteOf(x, a) = ByteAt(x, b, i) BY <2>2, Zenon DEF ByteOf, L
  <2> QED BY <2>2, <2>3, <2>4
<1>8. ASSUME NEW b \in Nat, NEW T \in Nat, T = b * L
      PROVE  (b < o => T + L <= S) /\ (o < b => S + L <= T)
  BY <1>2, <1>6, <1>8, Factors
<1>10. CASE p + n <= L
  <2>1. x = First BY <1>5, <1>10 DEF First
  <2>2. ASSUME NEW a \in Addresses(session)
        PROVE ByteOf(x, a) = IF a - Spot(m) \in 0 .. n - 1 THEN bytes[a - Spot(m)] ELSE ByteOf(m, a)
    <3>1. PICK b \in Nat, i \in 0 .. L - 1, T \in Nat :
               /\ b \in 0 .. LastBlock(session) /\ T = b * L /\ a = T + i
               /\ ByteOf(m, a) = ByteAt(m, b, i) /\ ByteOf(x, a) = ByteAt(x, b, i)
      BY <1>9
    <3>2. CASE b = o
      <4>1. a - Spot(m) = i - p BY <1>6, <3>1, <3>2
      <4>2. ByteAt(m, b, i) = m.buf[i] /\ ByteAt(x, b, i) = First.buf[i] BY <1>3, <1>7, <2>1, <3>2 DEF ByteAt
      <4> QED BY <1>7, <3>1, <4>1, <4>2
    <3>3. CASE b # o
      <4>1. ByteAt(m, b, i) = ByteAt(x, b, i) BY <1>3, <1>7, <2>1, <3>3 DEF ByteAt
      <4>2. a - Spot(m) \notin 0 .. n - 1
        <5>1. T + L <= S \/ S + L <= T BY <1>8, <3>1, <3>3
        <5>2. a = T + i /\ Spot(m) = S + p BY <1>6, <3>1
        <5> QED BY <1>2, <1>10, <5>1, <5>2
      <4> QED BY <3>1, <4>1, <4>2
    <3> QED BY <3>2, <3>3
  <2> QED BY <1>1, <1>7, <2>1, <2>2 DEF x
<1>11. CASE ~(p + n <= L)
  <2>1. o + 1 \in 0 .. LastBlock(session)
    BY <1>1, <1>2, <1>3, <1>11, Straddle DEF L
  <2> DEFINE y == NextBlock(First)
             Second == Put(y, p - L)
  <2>2. y \in StoreOf(session) /\ y.offset = o + 1 /\ SameBytes(session, First, y)
    BY <1>7, <2>1, NextStore
  <2>3. x = Second BY <1>5, <1>11 DEF First
  <2> HIDE DEF y
  <2>4. /\ Second \in StoreOf(session) /\ Second.offset = o + 1 /\ Second.blocks = y.blocks
        /\ \A i \in 0 .. L - 1 : Second.buf[i] = IF i - (p - L) \in 0 .. n - 1 THEN bytes[i - (p - L)] ELSE y.buf[i]
    <3>1. p - L + n \in Nat /\ p - L \in Int BY <1>2, <1>3, <1>11
    <3>2. IsPut(session, y, bytes, p - L, Second)
      <4> DEFINE f == p - L
      <4>1. f + n \in Nat /\ f \in Int BY <3>1
      <4>2. n \in Nat BY <1>2
      <4> HIDE DEF f
      <4>3. IsPut(session, y, bytes, f, PutAt(y, bytes, f, n)) BY <1>4, <2>2, <4>1, <4>2, PutStore
      <4> QED BY <4>3 DEF f
    <3>3. \A i \in 0 .. L - 1 : PutBuffer(y.buf, bytes, p - L)[i] = IF i - (p - L) \in 0 .. n - 1 THEN bytes[i - (p - L)] ELSE y.buf[i]
      BY <1>4 DEF PutBuffer, L
    <3> HIDE DEF Second
    <3> QED BY <2>2, <3>2, <3>3 DEF IsPut
  <2> HIDE DEF Second
  <2>6. ASSUME NEW a \in Addresses(session)
        PROVE ByteOf(x, a) = IF a - Spot(m) \in 0 .. n - 1 THEN bytes[a - Spot(m)] ELSE ByteOf(m, a)
    <3>1. PICK b \in Nat, i \in 0 .. L - 1, T \in Nat :
               /\ b \in 0 .. LastBlock(session) /\ T = b * L /\ a = T + i
               /\ ByteOf(m, a) = ByteAt(m, b, i) /\ ByteOf(x, a) = ByteAt(x, b, i)
      BY <1>9
    <3>2. ByteAt(y, b, i) = ByteAt(First, b, i) BY <2>2, <3>1 DEF SameBytes, L
    <3>3. (o + 1) * L = S + L BY <1>2, <1>3, <1>6
    <3>4. CASE b = o + 1
      <4>0. T = S + L BY <3>1, <3>3, <3>4
      <4>1. a - Spot(m) = i - (p - L) BY <1>2, <1>6, <3>1, <4>0
      <4>2. ByteAt(x, b, i) = Second.buf[i] /\ ByteAt(y, b, i) = y.buf[i] BY <2>2, <2>3, <2>4, <3>4 DEF ByteAt
      <4>3. ByteAt(First, b, i) = ByteAt(m, b, i) BY <1>3, <1>7, <3>4 DEF ByteAt
      <4> QED BY <2>4, <3>1, <3>2, <4>1, <4>2, <4>3
    <3>5. CASE b = o
      <4>1. a - Spot(m) = i - p BY <1>6, <3>1, <3>5
      <4>2. ByteAt(x, b, i) = ByteAt(y, b, i) BY <1>3, <2>2, <2>3, <2>4, <3>5 DEF ByteAt
      <4>3. ByteAt(First, b, i) = First.buf[i] /\ ByteAt(m, b, i) = m.buf[i] BY <1>3, <1>7, <3>5 DEF ByteAt
      <4> QED BY <1>7, <3>1, <3>2, <4>1, <4>2, <4>3
    <3>6. CASE b # o /\ b # o + 1
      <4>1. ByteAt(x, b, i) = ByteAt(y, b, i) BY <2>2, <2>3, <2>4, <3>6 DEF ByteAt
      <4>2. ByteAt(First, b, i) = ByteAt(m, b, i) BY <1>3, <1>7, <3>6 DEF ByteAt
      <4>3. a - Spot(m) \notin 0 .. n - 1
        <5>1. T + L <= S \/ S + L + L <= T
          <6>1. CASE b < o BY <1>8, <3>1, <6>1
          <6>2. CASE o + 1 < b
            <7>1. (o + 1) * L + L <= b * L BY <1>2, <6>2, Factors
            <7> QED BY <3>1, <3>3, <7>1
          <6> QED BY <3>6, <6>1, <6>2
        <5>2. a = T + i /\ Spot(m) = S + p BY <1>6, <3>1
        <5> QED BY <1>2, <5>1, <5>2
      <4> QED BY <3>1, <3>2, <4>1, <4>2, <4>3
    <3> QED BY <3>4, <3>5, <3>6
  <2> QED BY <1>1, <2>3, <2>4, <2>6 DEF x
<1> QED BY <1>10, <1>11

-----------------------------------------------------------------------------
\* The pixels in the store.

StoredPixel(s, m, offset) == PixelOf(s, ByteOf(m, Place(s, offset)), offset % PerByte(s))

\* The pixels of a block have an address.
LEMMA PixelAddress ==
  ASSUME NEW s, IsSession(s), NEW o, IsBlock(s, o), NEW i \in 0 .. BLOCK_LEN - 1
  PROVE  Place(s, o + i) \in Addresses(s)
<1>1. o \in Nat /\ o % BLOCK_LEN = 0 BY DEF IsBlock
<1>2. PICK P \in Nat, n \in Nat, j \in 0 .. BlockBytes(s) - 1 :
         P = Place(s, o) /\ n = BlockBytes(s) /\ Place(s, o + i) = P + j
  <2>1. Place(s, o) \in Nat /\ Place(s, o + i) = Place(s, o) + i \div PerByte(s)
        /\ i \div PerByte(s) \in 0 .. BlockBytes(s) - 1
    BY <1>1, PlaceInBlock
  <2>2. BlockBytes(s) \in Nat BY BlockOfBytes
  <2> QED BY <2>1, <2>2
<1>3. LastBlock(s) \in Nat /\ P + n <= (LastBlock(s) + 1) * BLOCK_LEN BY <1>2, InStore
<1>4. PICK E \in Nat : E = (LastBlock(s) + 1) * BLOCK_LEN BY <1>3, BlockAssumption
<1>5. P + j \in 0 .. E - 1 BY <1>2, <1>3, <1>4
<1> QED BY <1>2, <1>4, <1>5 DEF Addresses

\* Where the bytes are the same the pixels are.
LEMMA SamePixels ==
  ASSUME NEW s, IsSession(s), NEW m, NEW n, SameBytes(s, m, n)
  PROVE  \A o, i : IsBlock(s, o) /\ i \in 0 .. BLOCK_LEN - 1 => StoredPixel(s, n, o + i) = StoredPixel(s, m, o + i)
<1> SUFFICES ASSUME NEW o, IsBlock(s, o), NEW i \in 0 .. BLOCK_LEN - 1
             PROVE  StoredPixel(s, n, o + i) = StoredPixel(s, m, o + i)
  BY Zenon
<1>1. Place(s, o + i) \in Addresses(s) BY PixelAddress
<1>2. LastBlock(s) \in Nat BY InStore
<1>3. ByteOf(n, Place(s, o + i)) = ByteOf(m, Place(s, o + i)) BY <1>1, <1>2, SameAtAddress
<1> QED BY <1>3, Zenon DEF StoredPixel

\* A block is sought where its pixels are.
LEMMA SeekBlock ==
  ASSUME IsSession(session), NEW m \in StoreOf(session), NEW o, IsBlock(session, o)
  PROVE  LET n == mem_seek(m, o \div PerByte(session))
         IN  /\ n \in StoreOf(session) /\ Spot(n) = Place(session, o) /\ n.ptr < BLOCK_LEN
             /\ SameBytes(session, m, n) /\ Reaches(session, n)
<1>1. /\ LastBlock(session) \in Nat /\ Place(session, o) \in Nat
      /\ Place(session, o) + BlockBytes(session) <= (LastBlock(session) + 1) * BLOCK_LEN
  BY InStore
<1>2. session.header \in Nat BY BlockAssumption DEF IsSession, SessionType
<1>3. o \div PerByte(session) \in Nat
  <2>1. PICK d \in Nat \ {0} : d = PerByte(session) BY BlockOfBytes
  <2>2. o \in Nat BY DEF IsBlock
  <2> QED BY <2>1, <2>2
<1>4. Place(session, o) = o \div PerByte(session) + session.header BY DEF Place
<1>5. Place(session, o) \in Addresses(session)
  <2>1. PICK n \in Nat \ {0} : n = BlockBytes(session) BY BlockOfBytes
  <2>2. PICK E \in Nat : E = (LastBlock(session) + 1) * BLOCK_LEN BY <1>1, BlockAssumption
  <2> QED BY <1>1, <2>1, <2>2 DEF Addresses
<1> DEFINE n == mem_seek(m, o \div PerByte(session))
<1>6. /\ n \in StoreOf(session) /\ Spot(n) = Place(session, o) /\ n.ptr < BLOCK_LEN /\ SameBytes(session, m, n)
  BY <1>1, <1>2, <1>3, <1>4, <1>5, SeekStore
<1> HIDE DEF n
<1>7. Reaches(session, n) BY <1>1, <1>6 DEF Reaches
<1> QED BY <1>6, <1>7 DEF n

\* A block is read into the cache as it is in the store.
LEMMA ReadPixels ==
  ASSUME IsSession(session), NEW m \in StoreOf(session), NEW o, IsBlock(session, o),
         Spot(m) = Place(session, o), m.ptr <= BLOCK_LEN
  PROVE  LET r == ReadBlock(m)
         IN  /\ r.m \in StoreOf(session) /\ Spot(r.m) = Place(session, o) + BlockBytes(session)
             /\ r.m.ptr <= BLOCK_LEN /\ SameBytes(session, m, r.m)
             /\ Unpacked(r.bytes) \in PixelsOf(session)
             /\ \A i \in 0 .. BLOCK_LEN - 1 : Unpacked(r.bytes)[i] = StoredPixel(session, m, o + i)
<1> DEFINE r == ReadBlock(m)
<1>1. /\ LastBlock(session) \in Nat /\ Place(session, o) \in Nat
      /\ Place(session, o) + BlockBytes(session) <= (LastBlock(session) + 1) * BLOCK_LEN
  BY InStore
<1>2. Reaches(session, m) BY <1>1 DEF Reaches
<1>3. /\ r.m \in StoreOf(session) /\ Spot(r.m) = Place(session, o) + BlockBytes(session)
      /\ r.m.ptr <= BLOCK_LEN /\ SameBytes(session, m, r.m)
      /\ r.bytes \in [0 .. BlockBytes(session) - 1 -> 0 .. 255]
      /\ \A k \in 0 .. BlockBytes(session) - 1 : r.bytes[k] = ByteOf(m, Place(session, o) + k)
  BY <1>1, <1>2, ReadStore
<1> HIDE DEF r
<1>4. o \in Nat /\ o % BLOCK_LEN = 0 BY DEF IsBlock
<1>5. ASSUME NEW i \in 0 .. BLOCK_LEN - 1
      PROVE  /\ Unpacked(r.bytes)[i] = StoredPixel(session, m, o + i)
             /\ Unpacked(r.bytes)[i] \in 0 .. Levels(session) - 1
  <2>1. /\ Place(session, o + i) = Place(session, o) + i \div PerByte(session)
        /\ i \div PerByte(session) \in 0 .. BlockBytes(session) - 1
        /\ (o + i) % PerByte(session) = i % PerByte(session) /\ i % PerByte(session) \in 0 .. PerByte(session) - 1
    BY <1>4, PlaceInBlock
  <2>2. Unpacked(r.bytes)[i] = PixelOf(session, r.bytes[i \div PerByte(session)], i % PerByte(session))
    BY DEF Unpacked
  <2>3. r.bytes[i \div PerByte(session)] = ByteOf(m, Place(session, o + i)) BY <1>3, <2>1
  <2>4. r.bytes[i \div PerByte(session)] \in 0 .. 255 BY <1>3, <2>1
  <2>5. PixelOf(session, r.bytes[i \div PerByte(session)], i % PerByte(session)) \in 0 .. Levels(session) - 1
    BY <2>1, <2>4, PixelRange DEF IsSession
  <2> QED BY <2>1, <2>2, <2>3, <2>5, Zenon DEF StoredPixel
<1>6. Unpacked(r.bytes) \in PixelsOf(session)
  <2>1. Unpacked(r.bytes) = [i \in 0 .. BLOCK_LEN - 1 |-> Unpacked(r.bytes)[i]] BY DEF Unpacked
  <2> QED BY <1>5, <2>1 DEF PixelsOf
<1> QED BY <1>3, <1>5, <1>6 DEF r

\* A block is written where it is read, and no other block is touched.
LEMMA WritePixels ==
  ASSUME IsSession(session), NEW m \in StoreOf(session), NEW o, IsBlock(session, o), NEW pixel \in PixelsOf(session)
  PROVE  LET x == WriteBlock(mem_seek(m, o \div PerByte(session)), pixel)
         IN  /\ x \in StoreOf(session)
             /\ \A i \in 0 .. BLOCK_LEN - 1 : StoredPixel(session, x, o + i) = pixel[i]
             /\ \A p, i : IsBlock(session, p) /\ p # o /\ i \in 0 .. BLOCK_LEN - 1
                            => StoredPixel(session, x, p + i) = StoredPixel(session, m, p + i)
<1> DEFINE n == mem_seek(m, o \div PerByte(session))
           d == PerByte(session)
           bytes == [k \in 0 .. BytesOfBlock - 1 |-> Packed(session, pixel, k * d)]
           x == WriteBlock(n, pixel)
<1>1. /\ n \in StoreOf(session) /\ Spot(n) = Place(session, o) /\ n.ptr < BLOCK_LEN
      /\ SameBytes(session, m, n) /\ Reaches(session, n)
  BY SeekBlock
<1>2. BytesOfBlock = BlockBytes(session) BY Zenon DEF BytesOfBlock, BlockBytes
<1>3. x = mem_putc(n, bytes) BY Zenon DEF WriteBlock
<1>4. d \in Nat \ {0} /\ BlockBytes(session) \in Nat \ {0} /\ BLOCK_LEN = BlockBytes(session) * d BY BlockOfBytes
<1>5. ASSUME NEW k \in 0 .. BlockBytes(session) - 1
      PROVE  /\ Packed(session, pixel, k * d) \in 0 .. 255
             /\ \A i \in 0 .. d - 1 : PixelOf(session, Packed(session, pixel, k * d), i) = pixel[k * d + i]
  <2>1. k * d \in Nat /\ k * d + d <= BLOCK_LEN
    <3>1. k \in Nat /\ k < BlockBytes(session) BY <1>4
    <3>2. k * d + d <= BlockBytes(session) * d BY <1>4, <3>1, Factors
    <3>3. k * d \in Nat BY <1>4, <3>1
    <3> QED BY <1>4, <3>2, <3>3
  <2>2. ASSUME NEW j \in 0 .. d - 1 PROVE pixel[k * d + j] \in 0 .. Levels(session) - 1
    <3>1. k * d + j \in 0 .. BLOCK_LEN - 1
      <4> DEFINE f == k * d
      <4> HIDE DEF f
      <4>1. f \in Nat /\ f + d <= BLOCK_LEN BY <2>1 DEF f
      <4>2. f + j \in 0 .. BLOCK_LEN - 1 BY <1>4, <4>1, BlockAssumption
      <4> QED BY <4>2 DEF f
    <3> QED BY <3>1 DEF PixelsOf
  <2>3. SessionType(session) BY DEF IsSession
  <2> QED BY <2>1, <2>2, <2>3, PackedPixel
<1>6. bytes \in [0 .. BlockBytes(session) - 1 -> 0 .. 255] /\ \A k \in 0 .. BlockBytes(session) - 1 : bytes[k] = Packed(session, pixel, k * d)
  BY <1>2, <1>5
<1> HIDE DEF n, bytes, x
<1>7. LastBlock(session) \in Nat /\ Place(session, o) \in Nat BY InStore
<1>8. /\ x \in StoreOf(session)
      /\ \A a \in Addresses(session) :
            /\ a - Place(session, o) \in 0 .. BlockBytes(session) - 1 => ByteOf(x, a) = bytes[a - Place(session, o)]
            /\ a - Place(session, o) \notin 0 .. BlockBytes(session) - 1 => ByteOf(x, a) = ByteOf(n, a)
  <2>1. /\ x \in StoreOf(session)
        /\ \A a \in Addresses(session) :
              ByteOf(x, a) = IF a - Spot(n) \in 0 .. BlockBytes(session) - 1 THEN bytes[a - Spot(n)] ELSE ByteOf(n, a)
    BY <1>1, <1>3, <1>6, <1>7, PutBytes
  <2> QED BY <1>1, <2>1
<1>9. o \in Nat /\ o % BLOCK_LEN = 0 BY DEF IsBlock
<1>10. ASSUME NEW i \in 0 .. BLOCK_LEN - 1 PROVE StoredPixel(session, x, o + i) = pixel[i]
  <2>1. PICK k \in 0 .. BlockBytes(session) - 1, j \in 0 .. d - 1 :
           /\ Place(session, o + i) = Place(session, o) + k /\ (o + i) % d = j /\ i = k * d + j
    BY <1>9, PlaceInBlock
  <2>2. Place(session, o + i) \in Addresses(session) BY PixelAddress
  <2>3. Place(session, o + i) - Place(session, o) = k BY <1>7, <2>1
  <2>4. ByteOf(x, Place(session, o + i)) = bytes[k] BY <1>8, <2>2, <2>3
  <2>5. ByteOf(x, Place(session, o + i)) = Packed(session, pixel, k * d) BY <1>6, <2>4
  <2>6. PixelOf(session, Packed(session, pixel, k * d), j) = pixel[i] BY <1>5, <2>1
  <2> QED BY <2>1, <2>5, <2>6, Zenon DEF StoredPixel
<1>11. ASSUME NEW p, IsBlock(session, p), p # o, NEW i \in 0 .. BLOCK_LEN - 1
       PROVE  StoredPixel(session, x, p + i) = StoredPixel(session, m, p + i)
  <2>1. p \in Nat /\ p % BLOCK_LEN = 0 BY <1>11 DEF IsBlock
  <2>2. PICK k \in 0 .. BlockBytes(session) - 1 : Place(session, p + i) = Place(session, p) + k /\ Place(session, p) \in Nat
    BY <2>1, PlaceInBlock
  <2>3. Place(session, p + i) \in Addresses(session) BY <1>11, PixelAddress
  <2>4. Place(session, p) + BlockBytes(session) <= Place(session, o) \/ Place(session, o) + BlockBytes(session) <= Place(session, p)
    BY <1>9, <1>11, <2>1, PlacesApart
  <2>5. Place(session, p + i) - Place(session, o) \notin 0 .. BlockBytes(session) - 1
    BY <1>4, <1>7, <2>2, <2>4
  <2>6. ByteOf(x, Place(session, p + i)) = ByteOf(n, Place(session, p + i)) BY <1>8, <2>3, <2>5
  <2>7. ByteOf(n, Place(session, p + i)) = ByteOf(m, Place(session, p + i)) BY <1>1, <1>7, <2>3, SameAtAddress
  <2> QED BY <2>6, <2>7, Zenon DEF StoredPixel
<1>12. x \in StoreOf(session) BY <1>8
<1> QED BY <1>10, <1>11, <1>12 DEF n, x

\* A number of whole bytes more.
LEMMA WholeBytes ==
  ASSUME NEW o \in Nat, NEW n \in Nat, NEW d, d = 1 \/ d = 2 \/ d = 4 \/ d = 8
  PROVE  (o + n * d) \div d = o \div d + n
<1>1. CASE d = 1 BY <1>1
<1>2. CASE d = 2 BY <1>2
<1>3. CASE d = 4 BY <1>3
<1>4. CASE d = 8 BY <1>4
<1> QED BY <1>1, <1>2, <1>3, <1>4

\* The block after another one follows it in the store.
LEMMA NextPlace ==
  ASSUME NEW s, IsSession(s), NEW o \in Nat, o % BLOCK_LEN = 0
  PROVE  Place(s, o + BLOCK_LEN) = Place(s, o) + BlockBytes(s)
<1>1. PICK d \in Nat \ {0}, n \in Nat, h \in Nat : d = PerByte(s) /\ n = BlockBytes(s) /\ h = s.header /\ BLOCK_LEN = n * d
  <2>1. s.header \in Nat BY BlockAssumption DEF IsSession, SessionType
  <2> QED BY <2>1, BlockOfBytes
<1>2. d = 1 \/ d = 2 \/ d = 4 \/ d = 8 BY <1>1, Widths DEF IsSession
<1>3. (o + n * d) \div d = o \div d + n
  BY <1>2, WholeBytes
<1>4. Place(s, o) = o \div d + h /\ Place(s, o + BLOCK_LEN) = (o + BLOCK_LEN) \div d + h BY <1>1, Zenon DEF Place
<1>5. o \div d \in Nat BY <1>1
<1>6. (o + BLOCK_LEN) \div d = o \div d + n BY <1>1, <1>3, Zenon
<1> QED BY <1>1, <1>4, <1>5, <1>6

-----------------------------------------------------------------------------
\* The pixels of a cache in front of its store.

Indexes == 0 .. BLOCK_LEN - 1

\* An entry that has had no block yet, or one with a block of the session.
IsPreset(n) == n.offset % BLOCK_LEN # 0 /\ ~n.dirty
IsReal(s, c, n) == IsBlock(s, n.offset) /\ n.pixel \in PixelsOf(s) /\ n.offset <= c.high
IsKnown(s, c, n) == IsPreset(n) \/ IsReal(s, c, n)

\* It has what the store has.
AsStored(s, c, n) == \A i \in Indexes : n.pixel[i] = StoredPixel(s, c.m, n.offset + i)

\* Blocks above the highest one are clear in the store.
ClearAbove(s, c) == \A o, i : IsBlock(s, o) /\ c.high < o /\ i \in Indexes => StoredPixel(s, c.m, o + i) = 0

\* The store is where the block that would be read without a seek begins.
InPlace(s, c) == c.seek # -1 => /\ c.seek \in BlockStarts /\ Spot(c.m) = Place(s, c.seek)
                                /\ c.m.ptr <= BLOCK_LEN

\* A cache in front of a store.  The queue marks blocks clean that it has not written.
Held(s, c) ==
    /\ c.m \in StoreOf(s)
    /\ \A e \in Entries : IsKnown(s, c, c.entry[e])
    /\ s.kind # "queue" => \A e \in Entries : ~c.entry[e].dirty => IsPreset(c.entry[e]) \/ AsStored(s, c, c.entry[e])
    /\ ClearAbove(s, c)
    /\ InPlace(s, c)

\* Pixel i of a block as it is seen: in its entry, or else in the store.
Has(c, o) == \E e \in Entries : c.entry[e].offset = o
At(c, o)  == CHOOSE e \in Entries : c.entry[e].offset = o
Seen(s, c, o, i) == IF Has(c, o) THEN c.entry[At(c, o)].pixel[i] ELSE StoredPixel(s, c.m, o + i)
SameSeen(s, c, d) == \A o, i : IsBlock(s, o) /\ i \in Indexes => Seen(s, d, o, i) = Seen(s, c, o, i)

\* The entry of a block is the one that has it.
LEMMA AtEntry ==
  ASSUME NEW c, Apart(c.entry), NEW e \in Entries, NEW o, c.entry[e].offset = o
  PROVE  Has(c, o) /\ At(c, o) = e
<1>1. At(c, o) \in Entries /\ c.entry[At(c, o)].offset = o BY DEF At
<1> QED BY <1>1 DEF Apart, Has

\* Two caches that differ in the marks of use and in the current block only.
SameContent(c, d) ==
    /\ d.m = c.m /\ d.high = c.high /\ d.seek = c.seek
    /\ \A e \in Entries : /\ d.entry[e].offset = c.entry[e].offset /\ d.entry[e].pixel = c.entry[e].pixel
                          /\ d.entry[e].dirty = c.entry[e].dirty

LEMMA SameHeld ==
  ASSUME NEW s, NEW c, NEW d, Apart(c.entry), SameContent(c, d), Held(s, c)
  PROVE  Held(s, d) /\ SameSeen(s, c, d)
<1>1. \A e \in Entries : IsKnown(s, d, d.entry[e])
  BY DEF Held, SameContent, IsKnown, IsPreset, IsReal
<1>2. s.kind # "queue" => \A e \in Entries : ~d.entry[e].dirty => IsPreset(d.entry[e]) \/ AsStored(s, d, d.entry[e])
  BY DEF Held, SameContent, IsPreset, AsStored
<1>3. ClearAbove(s, d) /\ InPlace(s, d) /\ d.m \in StoreOf(s)
  BY DEF Held, SameContent, ClearAbove, InPlace
<1>4. SameSeen(s, c, d)
  <2> SUFFICES ASSUME NEW o, NEW i PROVE Seen(s, d, o, i) = Seen(s, c, o, i)
    BY DEF SameSeen
  <2>1. CASE Has(c, o)
    <3>1. PICK e \in Entries : c.entry[e].offset = o BY <2>1 DEF Has
    <3>2. Apart(d.entry) /\ d.entry[e].offset = o /\ d.entry[e].pixel = c.entry[e].pixel BY <3>1 DEF Apart, SameContent
    <3>3. Has(c, o) /\ At(c, o) = e /\ Has(d, o) /\ At(d, o) = e BY <3>1, <3>2, AtEntry
    <3> QED BY <3>2, <3>3 DEF Seen
  <2>2. CASE ~Has(c, o)
    <3>1. ~Has(d, o) /\ d.m = c.m BY <2>2 DEF Has, SameContent
    <3> QED BY <2>2, <3>1 DEF Seen
  <2> QED BY <2>1, <2>2
<1> QED BY <1>1, <1>2, <1>3, <1>4 DEF Held

\* The hand of the clock changes no content.
LEMMA TurnedContent ==
  ASSUME NEW c, Sound(c)
  PROVE  SameContent(c, Turned(c))
<1> DEFINE S == {k \in 1 .. NEntries : ~c.entry[After(c.lru, k)].lru} \cup {NEntries + 1}
           n == Min(S)
           t == Turned(c)
<1>1. \E passed : t = [c EXCEPT !.lru = After(c.lru, n),
                  !.entry = [e \in Entries |-> [c.entry[e] EXCEPT !.lru = @ /\ e \notin passed]]]
  BY Zenon DEF Turned
<1> HIDE DEF n, t
<1>2. PICK passed : t = [c EXCEPT !.lru = After(c.lru, n),
                  !.entry = [e \in Entries |-> [c.entry[e] EXCEPT !.lru = @ /\ e \notin passed]]]
  BY <1>1
<1>3. t.entry = [e \in Entries |-> [c.entry[e] EXCEPT !.lru = c.entry[e].lru /\ e \notin passed]]
      /\ t.m = c.m /\ t.high = c.high /\ t.seek = c.seek
  BY <1>2 DEF Sound, IsCache
<1>4. ASSUME NEW e \in Entries
      PROVE  /\ t.entry[e].offset = c.entry[e].offset /\ t.entry[e].pixel = c.entry[e].pixel
             /\ t.entry[e].dirty = c.entry[e].dirty
  BY <1>3 DEF Sound, IsCache, AreEntries, IsEntry
<1> QED BY <1>3, <1>4 DEF SameContent, t

-----------------------------------------------------------------------------
\* Writing a run of dirty blocks.

\* The blocks of a run have dirty entries, and the block at the hand is one of them.
LEMMA RunBlocks ==
  ASSUME NEW c, Sound(c)
  PROVE  /\ \A b \in Run(c) : /\ At(c, b) \in Entries /\ c.entry[At(c, b)].offset = b /\ c.entry[At(c, b)].dirty
                              /\ (CHOOSE e \in Holders(c, b) : TRUE) = At(c, b)
         /\ c.entry[c.lru].dirty => c.entry[c.lru].offset \in Run(c)
<1> DEFINE from == c.entry[c.lru].offset
           dirty == {c.entry[e].offset : e \in {e \in Entries : DirtyAt(c, c.entry[e].offset)}}
           Linked(low, high) == \A a \in dirty : low <= a /\ a < high =>
                                \E b \in dirty : a < b /\ b <= a + WRITE_GAP * BLOCK_LEN
<1>1. Run(c) = {b \in dirty : Linked(b, from) /\ Linked(from, b)} BY Zenon DEF Run
<1>2. ASSUME NEW e \in Entries PROVE e \in Holders(c, c.entry[e].offset)
  <2>1. c.entry[e].offset \in Int BY DEF Sound, IsCache, AreEntries, IsEntry
  <2>2. hash_index(c.entry[e].offset) \in Chains BY <2>1, HashRange
  <2> QED BY <2>2 DEF Sound, OnChain, Holders
<1>3. ASSUME NEW b, NEW e \in Holders(c, b), NEW g \in Entries, c.entry[g].offset = b PROVE e = g
  <2>1. c.entry[g].offset \in Int BY DEF Sound, IsCache, AreEntries, IsEntry
  <2>2. hash_index(b) \in Chains BY <1>3, <2>1, HashRange
  <2>3. e \in Entries /\ c.entry[e].offset = b BY <2>2 DEF Holders, Sound, IsCache
  <2> QED BY <1>3, <2>3 DEF Sound, Apart
<1>4. ASSUME NEW b \in Run(c)
      PROVE /\ At(c, b) \in Entries /\ c.entry[At(c, b)].offset = b /\ c.entry[At(c, b)].dirty
            /\ (CHOOSE e \in Holders(c, b) : TRUE) = At(c, b)
  <2>1. PICK g \in Entries : c.entry[g].offset = b /\ DirtyAt(c, b) BY <1>1
  <2>2. PICK e \in Holders(c, b) : c.entry[e].dirty BY <2>1 DEF DirtyAt
  <2>3. e = g BY <1>3, <2>1
  <2>4. At(c, b) = g BY <2>1, AtEntry DEF Sound
  <2>5. (CHOOSE x \in Holders(c, b) : TRUE) \in Holders(c, b) BY <2>2
  <2>6. (CHOOSE x \in Holders(c, b) : TRUE) = g BY <1>3, <2>1, <2>5
  <2> QED BY <2>1, <2>2, <2>3, <2>4, <2>6
<1>5. ASSUME c.entry[c.lru].dirty PROVE from \in Run(c)
  <2>1. c.lru \in Entries BY DEF Sound, IsCache
  <2>2. DirtyAt(c, from) BY <1>2, <1>5, <2>1 DEF DirtyAt
  <2>3. from \in dirty BY <2>1, <2>2
  <2>4. from \in Nat /\ \A a \in dirty : a \in Nat BY <2>1 DEF Sound, IsCache, AreEntries, IsEntry
  <2> HIDE DEF dirty, from
  <2>5. Linked(from, from) BY <2>4
  <2> QED BY <1>1, <2>3, <2>5
<1> QED BY <1>4, <1>5

\* A write leaves in the store, for the blocks of the run, what their entries have.
LEMMA WrittenStore ==
  ASSUME IsSession(session), NEW c, Sound(c), Held(session, c), c.entry[c.lru].dirty
  PROVE  \E m \in StoreOf(session) :
            /\ write_cache_lru(c) =
                 SeekAgain([c EXCEPT !.m = m, !.entry = [e \in Entries |-> [c.entry[e] EXCEPT !.dirty = @ /\ c.entry[e].offset \notin Run(c)]]])
            /\ \A o, i : IsBlock(session, o) /\ i \in Indexes =>
                  /\ o \in Run(c) => StoredPixel(session, m, o + i) = c.entry[At(c, o)].pixel[i]
                  /\ o \notin Run(c) => StoredPixel(session, m, o + i) = StoredPixel(session, c.m, o + i)
<1> DEFINE run == Run(c)
           EntryAt(offset) == CHOOSE e \in Holders(c, offset) : TRUE
           Pixel(offset) == c.entry[EntryAt(offset)].pixel
           Write(m, offset) == WriteBlock(mem_seek(m, offset \div PerByte(session)), Pixel(offset))
           low == Min(run)
           length == (Max(run) - Min(run)) \div BLOCK_LEN + 1
           Block(k) == low + (k - 1) * BLOCK_LEN
           IsLoop(a) == a = [k \in 0 .. length |-> IF k = 0 THEN c.m
                                                   ELSE IF Block(k) \in run THEN Write(a[k - 1], Block(k)) ELSE a[k - 1]]
           after == CHOOSE a : IsLoop(a)
           Flags == [e \in Entries |-> [c.entry[e] EXCEPT !.dirty = @ /\ c.entry[e].offset \notin run]]
<1>1. write_cache_lru(c) = SeekAgain([c EXCEPT !.m = after[length], !.entry = Flags])
  BY Zenon DEF write_cache_lru
<1>2. ASSUME NEW b \in run
      PROVE  /\ IsBlock(session, b) /\ Pixel(b) \in PixelsOf(session) /\ Pixel(b) = c.entry[At(c, b)].pixel
             /\ b \in Nat /\ b % BLOCK_LEN = 0
  <2>1. /\ At(c, b) \in Entries /\ c.entry[At(c, b)].offset = b /\ c.entry[At(c, b)].dirty /\ EntryAt(b) = At(c, b)
    BY RunBlocks
  <2>2. IsReal(session, c, c.entry[At(c, b)]) BY <2>1 DEF Held, IsKnown, IsPreset
  <2> QED BY <2>1, <2>2 DEF IsReal, IsBlock
<1>3. run # {} /\ run \subseteq 0 .. Area(session) /\ run \subseteq Nat /\ Area(session) \in Nat
  <2>1. run # {} BY RunBlocks
  <2>2. Area(session) \in Nat BY DEF Area, IsSession, SessionType
  <2> QED BY <1>2, <2>1, <2>2 DEF IsBlock
<1> HIDE DEF run, Pixel
<1>4. low \in run /\ low \in Nat /\ \A b \in run : b \in Nat /\ low <= b /\ b <= Max(run)
  <2>1. Min(run) \in run /\ \A b \in run : Min(run) <= b BY <1>3, LeastMember
  <2>2. Max(run) \in run /\ \A b \in run : Max(run) >= b BY <1>3, GreatestMember
  <2> QED BY <1>2, <2>1, <2>2
<1>5. Max(run) \in run BY <1>3, GreatestMember
<1>6. PICK L \in Nat \ {0} : L = BLOCK_LEN BY BlockAssumption
<1>7. length \in Nat \ {0} /\ \A b \in run : \E k \in 1 .. length : b = Block(k)
  <2>1. PICK lo \in Nat, hi \in Nat : lo = low /\ hi = Max(run) /\ lo <= hi BY <1>4, <1>5
  <2>2. PICK q \in Nat : lo = q * L
    <3>1. lo % L = 0 BY <1>2, <1>4, <1>6, <2>1
    <3> QED BY <1>6, <3>1, lo \div L \in Nat /\ lo = (lo \div L) * L
  <2>3. length = (hi - lo) \div L + 1 BY <1>6, <2>1
  <2>4. (hi - lo) \div L \in Nat BY <1>6, <2>1
  <2>5. ASSUME NEW b \in run PROVE \E k \in 1 .. length : b = low + (k - 1) * BLOCK_LEN
    <3>1. b \in Nat /\ lo <= b /\ b <= hi /\ b % L = 0 BY <1>2, <1>4, <1>6, <2>1
    <3>2. PICK r \in Nat : b = r * L BY <1>6, <3>1, b \div L \in Nat /\ b = (b \div L) * L
    <3>3. q <= r
      <4>1. CASE r < q
        <5>1. r * L + L <= q * L BY <4>1, <1>6, Factors
        <5>2. r * L \in Nat BY <1>6
        <5> QED BY <1>6, <2>2, <3>1, <3>2, <5>1, <5>2
      <4> QED BY <4>1
    <3>4. PICK j \in Nat : j = r - q BY <3>3
    <3>5. b = lo + j * L
      <4>1. r * L = q * L + j * L BY <1>6, <3>4
      <4> QED BY <2>2, <3>2, <4>1
    <3>6. j <= (hi - lo) \div L
      <4>1. PICK t \in Nat : hi - lo = t /\ j * L <= t
        <5>1. j * L \in Nat BY <1>6
        <5> QED BY <2>1, <3>1, <3>5, <5>1
      <4>2. t = (t \div L) * L + (t % L) /\ t \div L \in Nat /\ t % L \in 0 .. L - 1 BY <1>6
      <4>3. CASE t \div L < j
        <5>1. (t \div L) * L + L <= j * L BY <1>6, <4>2, <4>3, Factors
        <5>2. (t \div L) * L \in Nat /\ j * L \in Nat BY <1>6, <4>2
        <5> QED BY <1>6, <4>1, <4>2, <5>1, <5>2
      <4> QED BY <4>1, <4>2, <4>3
    <3>7. j + 1 \in 1 .. length /\ b = low + (j + 1 - 1) * BLOCK_LEN
      BY <1>6, <2>1, <2>3, <2>4, <3>4, <3>5, <3>6
    <3> QED BY <3>7
  <2> QED BY <2>3, <2>4, <2>5
<1> HIDE DEF length, low
<1>8. ASSUME NEW m \in StoreOf(session), NEW b \in run
      PROVE  /\ Write(m, b) \in StoreOf(session)
             /\ \A i \in Indexes : StoredPixel(session, Write(m, b), b + i) = Pixel(b)[i]
             /\ \A o, i : IsBlock(session, o) /\ o # b /\ i \in Indexes
                             => StoredPixel(session, Write(m, b), o + i) = StoredPixel(session, m, o + i)
  BY <1>2, WritePixels DEF Indexes
<1> HIDE DEF Write
<1>9. \E a : IsLoop(a) /\ a \in [0 .. length -> StoreOf(session)]
  <2> DEFINE step == [p \in StoreOf(session) \X (1 .. length) |-> IF Block(p[2]) \in run THEN Write(p[1], Block(p[2])) ELSE p[1]]
  <2>1. step \in [StoreOf(session) \X (1 .. length) -> StoreOf(session)] BY <1>8
  <2>2. c.m \in StoreOf(session) BY DEF Held
  <2>3. PICK a : TurnsOf(a, StoreOf(session), c.m, length, step)
    <3> HIDE DEF step
    <3> QED BY <1>7, <2>1, <2>2, LoopExists
  <2>4. a \in [0 .. length -> StoreOf(session)] /\ a[0] = c.m /\ \A k \in 1 .. length : a[k] = step[<<a[k - 1], k>>]
    BY <2>3 DEF TurnsOf
  <2>5. ASSUME NEW k \in 1 .. length PROVE a[k] = IF Block(k) \in run THEN Write(a[k - 1], Block(k)) ELSE a[k - 1]
    <3>1. a[k - 1] \in StoreOf(session) BY <2>4, <1>7
    <3> QED BY <2>4, <3>1
  <2> HIDE DEF step
  <2>6. IsLoop(a)
    <3>1. \A k \in 0 .. length : a[k] = IF k = 0 THEN c.m ELSE IF Block(k) \in run THEN Write(a[k - 1], Block(k)) ELSE a[k - 1]
      BY <1>7, <2>4, <2>5
    <3> QED BY <2>4, <3>1
  <2> QED BY <2>4, <2>6
<1>10. IsLoop(after)
  <2> HIDE DEF IsLoop
  <2> QED BY <1>9
<1> HIDE DEF after
<1>11. after[0] = c.m /\ \A k \in 1 .. length : after[k] = IF Block(k) \in run THEN Write(after[k - 1], Block(k)) ELSE after[k - 1]
  BY <1>7, <1>10
<1> DEFINE Done(k, o) == o \in run /\ \E j \in 1 .. k : o = Block(j)
           Good(k) == /\ after[k] \in StoreOf(session)
                      /\ \A o, i : IsBlock(session, o) /\ i \in Indexes =>
                            /\ Done(k, o) => StoredPixel(session, after[k], o + i) = Pixel(o)[i]
                            /\ ~Done(k, o) => StoredPixel(session, after[k], o + i) = StoredPixel(session, c.m, o + i)
           P == {k \in 0 .. length : Good(k)}
<1> HIDE DEF IsLoop, Block
<1>12. Good(0)
  <2>1. \A o : ~Done(0, o) OBVIOUS
  <2>2. c.m \in StoreOf(session) BY DEF Held
  <2> HIDE DEF Done
  <2> QED BY <1>11, <2>1, <2>2
<1>13. ASSUME NEW k \in 1 .. length, Good(k - 1) PROVE Good(k)
  <2>1. after[k - 1] \in StoreOf(session) BY <1>13
  <2>2. \A o : Done(k, o) <=> (Done(k - 1, o) \/ (o \in run /\ o = Block(k)))
    <3>1. k \in Nat \ {0} BY <1>7
    <3>2. \A j : j \in 1 .. k <=> (j \in 1 .. k - 1 \/ j = k) BY <3>1
    <3> QED BY <3>2
  <2>3. CASE Block(k) \in run
    <3>1. after[k] = Write(after[k - 1], Block(k)) BY <1>11, <2>3
    <3>2. after[k] \in StoreOf(session) BY <1>8, <2>1, <2>3, <3>1
    <3>3. ASSUME NEW o, NEW i, IsBlock(session, o), i \in Indexes
          PROVE  /\ Done(k, o) => StoredPixel(session, after[k], o + i) = Pixel(o)[i]
                 /\ ~Done(k, o) => StoredPixel(session, after[k], o + i) = StoredPixel(session, c.m, o + i)
      <4>1. CASE o = Block(k)
        <5>1. StoredPixel(session, after[k], o + i) = Pixel(o)[i] BY <1>8, <2>1, <2>3, <3>1, <3>3, <4>1
        <5>2. Done(k, o) BY <2>2, <2>3, <4>1
        <5> QED BY <5>1, <5>2
      <4>2. CASE o # Block(k)
        <5>1. StoredPixel(session, after[k], o + i) = StoredPixel(session, after[k - 1], o + i)
          BY <1>8, <2>1, <2>3, <3>1, <3>3, <4>2
        <5>2. Done(k, o) <=> Done(k - 1, o) BY <2>2, <4>2
        <5> HIDE DEF Done
        <5> QED BY <1>13, <3>3, <5>1, <5>2
      <4> QED BY <4>1, <4>2
    <3> HIDE DEF Done
    <3> QED BY <3>2, <3>3
  <2>4. CASE Block(k) \notin run
    <3>1. after[k] = after[k - 1] BY <1>11, <2>4
    <3>2. \A o : Done(k, o) <=> Done(k - 1, o) BY <2>2, <2>4
    <3> HIDE DEF Done
    <3> QED BY <1>13, <3>1, <3>2
  <2> QED BY <2>3, <2>4
<1>14. Good(length)
  <2>1. P \subseteq 0 .. length OBVIOUS
  <2>2. 0 \in P BY <1>7, <1>12
  <2>3. ASSUME NEW k \in 1 .. length, k - 1 \in P PROVE k \in P
    <3> HIDE DEF Good
    <3>1. Good(k - 1) BY <2>3
    <3>2. Good(k) BY <1>13, <3>1
    <3> QED BY <1>7, <3>2
  <2>4. \A k \in 0 .. length : k \in P
    <3>1. length \in Nat BY <1>7
    <3> HIDE DEF P
    <3> QED BY <2>1, <2>2, <2>3, <3>1, Turns
  <2> HIDE DEF Good
  <2> QED BY <1>7, <2>4
<1>15. \A o : Done(length, o) <=> o \in run BY <1>7
<1>16. \A o, i : IsBlock(session, o) /\ i \in Indexes =>
          /\ o \in run => StoredPixel(session, after[length], o + i) = c.entry[At(c, o)].pixel[i]
          /\ o \notin run => StoredPixel(session, after[length], o + i) = StoredPixel(session, c.m, o + i)
  <2> HIDE DEF Done
  <2> QED BY <1>2, <1>14, <1>15
<1>17. after[length] \in StoreOf(session) BY <1>14
<1> QED BY <1>1, <1>16, <1>17, Zenon DEF run

\* Writing the dirty blocks changes nothing that is seen, and leaves the one at the hand clean.
LEMMA WriteHeld ==
  ASSUME IsSession(session), NEW c, Sound(c), Held(session, c), c.entry[c.lru].dirty
  PROVE  LET w == write_cache_lru(c)
         IN  /\ Held(session, w) /\ SameSeen(session, c, w)
             /\ w.lru = c.lru /\ ~w.entry[c.lru].dirty
<1> DEFINE w == write_cache_lru(c)
           run == Run(c)
<1>1. PICK m \in StoreOf(session) :
         /\ w = SeekAgain([c EXCEPT !.m = m, !.entry = [e \in Entries |-> [c.entry[e] EXCEPT !.dirty = @ /\ c.entry[e].offset \notin run]]])
         /\ \A o, i : IsBlock(session, o) /\ i \in Indexes =>
               /\ o \in run => StoredPixel(session, m, o + i) = c.entry[At(c, o)].pixel[i]
               /\ o \notin run => StoredPixel(session, m, o + i) = StoredPixel(session, c.m, o + i)
  BY WrittenStore
<1>2. /\ \A b \in run : At(c, b) \in Entries /\ c.entry[At(c, b)].offset = b /\ c.entry[At(c, b)].dirty
      /\ c.entry[c.lru].offset \in run
  BY RunBlocks
<1>3. c.lru \in Entries BY DEF Sound, IsCache
<1> HIDE DEF run, w
<1>4. /\ w.m = m /\ w.seek = -1 /\ w.high = c.high /\ w.lru = c.lru
      /\ w.entry = [e \in Entries |-> [c.entry[e] EXCEPT !.dirty = @ /\ c.entry[e].offset \notin run]]
  BY <1>1 DEF SeekAgain, Sound, IsCache
<1>5. ASSUME NEW e \in Entries
      PROVE  /\ w.entry[e].offset = c.entry[e].offset /\ w.entry[e].pixel = c.entry[e].pixel
             /\ w.entry[e].dirty <=> (c.entry[e].dirty /\ c.entry[e].offset \notin run)
  <2> DEFINE x == c.entry[e]
  <2>1. x \in [offset : Nat, pixel : {x.pixel}, dirty : BOOLEAN, lru : BOOLEAN]
    BY DEF Sound, IsCache, AreEntries, IsEntry
  <2>2. w.entry[e] = [x EXCEPT !.dirty = (x.dirty /\ x.offset \notin run)]
    BY <1>4, Zenon
  <2> HIDE DEF x
  <2>3. /\ w.entry[e].offset = x.offset /\ w.entry[e].pixel = x.pixel
        /\ w.entry[e].dirty = (x.dirty /\ x.offset \notin run)
    BY <2>1, <2>2
  <2> QED BY <2>3 DEF x
<1>6. \A e \in Entries : IsKnown(session, w, w.entry[e])
  BY <1>4, <1>5 DEF Held, IsKnown, IsPreset, IsReal
<1>7. ASSUME session.kind # "queue", NEW e \in Entries, ~w.entry[e].dirty, ~IsPreset(w.entry[e])
      PROVE  AsStored(session, w, w.entry[e])
  <2>1. IsBlock(session, c.entry[e].offset) BY <1>5, <1>6, <1>7 DEF IsKnown, IsReal
  <2>2. CASE c.entry[e].offset \in run
    <3>1. At(c, c.entry[e].offset) = e BY AtEntry DEF Sound
    <3> QED BY <1>1, <1>4, <1>5, <2>1, <2>2, <3>1 DEF AsStored
  <2>3. CASE c.entry[e].offset \notin run
    <3>1. ~c.entry[e].dirty BY <1>5, <1>7, <2>3
    <3>2. AsStored(session, c, c.entry[e]) BY <1>5, <1>7, <3>1 DEF Held, IsPreset
    <3> QED BY <1>1, <1>4, <1>5, <2>1, <2>3, <3>2 DEF AsStored
  <2> QED BY <2>2, <2>3
<1>8. ClearAbove(session, w)
  <2> SUFFICES ASSUME NEW o, NEW i, IsBlock(session, o), c.high < o, i \in Indexes
               PROVE  StoredPixel(session, m, o + i) = 0
    BY <1>4, Zenon DEF ClearAbove
  <2>1. ASSUME o \in run PROVE FALSE
    <3>1. At(c, o) \in Entries /\ c.entry[At(c, o)].offset = o /\ c.entry[At(c, o)].dirty BY <1>2, <2>1
    <3>2. o <= c.high BY <3>1 DEF Held, IsKnown, IsPreset, IsReal
    <3>3. o \in Nat /\ c.high \in Int BY DEF IsBlock, Sound, IsCache
    <3> QED BY <3>2, <3>3
  <2>2. StoredPixel(session, m, o + i) = StoredPixel(session, c.m, o + i) BY <1>1, <2>1
  <2> QED BY <2>2 DEF Held, ClearAbove
<1>9. InPlace(session, w) BY <1>4 DEF InPlace
<1>10. Held(session, w) BY <1>4, <1>6, <1>7, <1>8, <1>9 DEF Held
<1>11. SameSeen(session, c, w)
  <2> SUFFICES ASSUME NEW o, NEW i, IsBlock(session, o), i \in Indexes
               PROVE  Seen(session, w, o, i) = Seen(session, c, o, i)
    BY DEF SameSeen
  <2>1. CASE Has(c, o)
    <3>1. PICK e \in Entries : c.entry[e].offset = o BY <2>1 DEF Has
    <3>2. Apart(c.entry) /\ Apart(w.entry) BY <1>5 DEF Apart, Sound
    <3>3. Has(c, o) /\ At(c, o) = e BY <3>1, <3>2, AtEntry
    <3>4. Has(w, o) /\ At(w, o) = e BY <1>5, <3>1, <3>2, AtEntry
    <3> QED BY <1>5, <3>3, <3>4 DEF Seen
  <2>2. CASE ~Has(c, o)
    <3>1. ~Has(w, o) BY <1>5, <2>2 DEF Has
    <3>2. o \notin run BY <1>2, <2>2 DEF Has
    <3> QED BY <1>1, <1>4, <2>2, <3>1, <3>2 DEF Seen
  <2> QED BY <2>1, <2>2
<1>12. ~w.entry[c.lru].dirty BY <1>2, <1>3, <1>5
<1> QED BY <1>4, <1>10, <1>11, <1>12 DEF w

\* d is cache c with a block loaded that has pixel, the same as the store has.
IsLoaded(c, offset, d, pixel) ==
    /\ d.entry = [c.entry EXCEPT ![c.lru] = [offset |-> offset, pixel |-> pixel, dirty |-> FALSE, lru |-> TRUE]]
    /\ \A i \in Indexes : pixel[i] = StoredPixel(session, c.m, offset + i)
    /\ d.high \in {c.high, offset} /\ d.high >= offset /\ d.high >= c.high
    /\ d.m \in StoreOf(session) /\ InPlace(session, d)
    /\ \A o, i : IsBlock(session, o) /\ i \in Indexes
                    => StoredPixel(session, d.m, o + i) = StoredPixel(session, c.m, o + i)

\* A block that is loaded is, pixel for pixel, what the store has, whether it is read or cleared.
LEMMA LoadedPixels ==
  ASSUME IsSession(session), NEW c, IsCache(c), Held(session, c), NEW offset, IsBlock(session, offset)
  PROVE  \E pixel \in PixelsOf(session) : IsLoaded(c, offset, Loaded(c, offset), pixel)
<1> DEFINE d == Loaded(c, offset)
           With(pixel) == [c.entry EXCEPT ![c.lru] = [offset |-> offset, pixel |-> pixel, dirty |-> FALSE, lru |-> TRUE]]
           Good(pixel) == /\ d.entry = With(pixel)
                          /\ \A i \in Indexes : pixel[i] = StoredPixel(session, c.m, offset + i)
                          /\ d.high \in {c.high, offset} /\ d.high >= offset /\ d.high >= c.high
                          /\ d.m \in StoreOf(session) /\ InPlace(session, d)
                          /\ \A o, i : IsBlock(session, o) /\ i \in Indexes
                                => StoredPixel(session, d.m, o + i) = StoredPixel(session, c.m, o + i)
<1>1. offset \in Nat /\ offset % BLOCK_LEN = 0 /\ c.high \in Int BY DEF IsBlock, IsCache
<1>2. CASE NeverSeen(c, offset)
  <2> DEFINE zero == [i \in 0 .. BLOCK_LEN - 1 |-> 0]
  <2>1. d = [c EXCEPT !.high = offset, !.entry = With(zero)]
    BY <1>2, Zenon DEF Loaded
  <2>2. c.high < offset BY <1>1, <1>2 DEF NeverSeen
  <2> HIDE DEF d
  <2>3. zero \in PixelsOf(session)
    <3>1. Levels(session) \in Nat \ {0} BY Widths DEF IsSession
    <3> QED BY <3>1 DEF PixelsOf
  <2>4. d.entry = With(zero) /\ d.high = offset /\ d.m = c.m /\ d.seek = c.seek BY <2>1 DEF IsCache
  <2>5. \A i \in Indexes : zero[i] = StoredPixel(session, c.m, offset + i)
    BY <2>2 DEF Held, ClearAbove, Indexes
  <2>6. InPlace(session, d) /\ d.m \in StoreOf(session) BY <2>4 DEF Held, InPlace
  <2> HIDE DEF zero
  <2>7. Good(zero) BY <1>1, <2>2, <2>4, <2>5, <2>6
  <2> QED BY <2>3, <2>7 DEF d, IsLoaded
<1>3. CASE ~NeverSeen(c, offset)
  <2> DEFINE n == IF offset = c.seek THEN c.m ELSE mem_seek(c.m, offset \div PerByte(session))
             r == ReadBlock(n)
             pixel == Unpacked(r.bytes)
  <2>1. d = [c EXCEPT !.m = r.m, !.seek = offset + BLOCK_LEN, !.entry = With(pixel)]
    BY <1>3, Zenon DEF Loaded
  <2>2. c.m \in StoreOf(session) BY DEF Held
  <2>3. n \in StoreOf(session) /\ Spot(n) = Place(session, offset) /\ n.ptr <= BLOCK_LEN /\ SameBytes(session, c.m, n)
    <3>1. CASE offset = c.seek
      <4>1. n = c.m BY <3>1
      <4>2. Spot(c.m) = Place(session, offset) /\ c.m.ptr <= BLOCK_LEN
        BY <1>1, <3>1 DEF Held, InPlace
      <4>3. SameBytes(session, c.m, c.m) BY DEF SameBytes
      <4> QED BY <2>2, <4>1, <4>2, <4>3
    <3>2. CASE offset # c.seek
      <4> DEFINE z == mem_seek(c.m, offset \div PerByte(session))
      <4>1. z \in StoreOf(session) /\ Spot(z) = Place(session, offset) /\ z.ptr < BLOCK_LEN /\ SameBytes(session, c.m, z)
        BY <2>2, SeekBlock
      <4>2. n = z BY <3>2
      <4> HIDE DEF z, n
      <4>3. z.ptr <= BLOCK_LEN
        <5>1. z.ptr \in Nat BY <4>1 DEF StoreOf
        <5> QED BY <4>1, <5>1, BlockAssumption
      <4> QED BY <4>1, <4>2, <4>3
    <3> QED BY <3>1, <3>2
  <2> HIDE DEF n
  <2>4. /\ r.m \in StoreOf(session) /\ Spot(r.m) = Place(session, offset) + BlockBytes(session)
        /\ r.m.ptr <= BLOCK_LEN /\ SameBytes(session, n, r.m)
        /\ pixel \in PixelsOf(session)
        /\ \A i \in 0 .. BLOCK_LEN - 1 : pixel[i] = StoredPixel(session, n, offset + i)
    BY <2>3, ReadPixels
  <2> HIDE DEF r, pixel, d
  <2>5. \A o, i : IsBlock(session, o) /\ i \in Indexes => StoredPixel(session, n, o + i) = StoredPixel(session, c.m, o + i)
    BY <2>3, SamePixels DEF Indexes
  <2>6. \A o, i : IsBlock(session, o) /\ i \in Indexes => StoredPixel(session, r.m, o + i) = StoredPixel(session, n, o + i)
    BY <2>4, SamePixels DEF Indexes
  <2>7. d.entry = With(pixel) /\ d.high = c.high /\ d.m = r.m /\ d.seek = offset + BLOCK_LEN BY <2>1 DEF IsCache
  <2>8. InPlace(session, d)
    <3>1. Place(session, offset + BLOCK_LEN) = Place(session, offset) + BlockBytes(session) BY <1>1, NextPlace
    <3>2. offset + BLOCK_LEN \in BlockStarts
      <4>1. PICK L \in Nat \ {0} : L = BLOCK_LEN BY BlockAssumption
      <4>2. PICK q \in Nat : offset = q * L
        <5>1. offset % L = 0 BY <1>1, <4>1
        <5> QED BY <1>1, <4>1, <5>1, offset \div L \in Nat /\ offset = (offset \div L) * L
      <4>3. offset + L = (q + 1) * L /\ ((q + 1) * L) % L = 0 /\ offset + L \in Nat BY <1>1, <4>1, <4>2
      <4> QED BY <4>1, <4>3 DEF BlockStarts
    <3> QED BY <2>4, <2>7, <3>1, <3>2 DEF InPlace
  <2>9. d.high >= offset /\ d.high >= c.high BY <1>1, <1>3, <2>7 DEF NeverSeen
  <2>10. \A i \in Indexes : pixel[i] = StoredPixel(session, c.m, offset + i) BY <2>4, <2>5 DEF Indexes
  <2>11. \A o, i : IsBlock(session, o) /\ i \in Indexes => StoredPixel(session, d.m, o + i) = StoredPixel(session, c.m, o + i)
    BY <2>5, <2>6, <2>7
  <2>12. Good(pixel) BY <2>4, <2>7, <2>8, <2>9, <2>10, <2>11
  <2> QED BY <2>4, <2>12 DEF d, IsLoaded
<1> QED BY <1>2, <1>3

\* A block is loaded over one that is clean: nothing that is seen changes, if clean means
\* written, or the entry has had no block yet.
LEMMA LoadHeld ==
  ASSUME IsSession(session), NEW c, IsCache(c), Apart(c.entry), Held(session, c),
         NEW offset, IsBlock(session, offset), ~Has(c, offset), ~c.entry[c.lru].dirty
  PROVE  LET d == Loaded(c, offset)
         IN  Held(session, d) /\ (session.kind # "queue" \/ IsPreset(c.entry[c.lru]) => SameSeen(session, c, d))
<1> DEFINE d == Loaded(c, offset)
<1>0. PICK pixel \in PixelsOf(session) : IsLoaded(c, offset, d, pixel) BY LoadedPixels
<1>1.   /\ d.entry = [c.entry EXCEPT ![c.lru] = [offset |-> offset, pixel |-> pixel, dirty |-> FALSE, lru |-> TRUE]]
        /\ \A i \in Indexes : pixel[i] = StoredPixel(session, c.m, offset + i)
        /\ d.high \in {c.high, offset} /\ d.high >= offset /\ d.high >= c.high
        /\ d.m \in StoreOf(session) /\ InPlace(session, d)
        /\ \A o, i : IsBlock(session, o) /\ i \in Indexes
                       => StoredPixel(session, d.m, o + i) = StoredPixel(session, c.m, o + i)
  BY <1>0 DEF IsLoaded
<1> HIDE DEF d
<1>2. c.lru \in Entries /\ c.high \in Int /\ offset \in Nat BY DEF IsCache, IsBlock
<1>3. /\ d.entry[c.lru].offset = offset /\ d.entry[c.lru].pixel = pixel /\ ~d.entry[c.lru].dirty
      /\ \A e \in Entries \ {c.lru} : d.entry[e] = c.entry[e]
  BY <1>1, <1>2 DEF IsCache, AreEntries
<1>4. ASSUME NEW e \in Entries PROVE IsKnown(session, d, d.entry[e])
  <2>1. CASE e = c.lru BY <1>1, <1>3, <2>1 DEF IsKnown, IsReal
  <2>2. CASE e # c.lru
    <3>1. d.entry[e] = c.entry[e] /\ IsKnown(session, c, c.entry[e]) BY <1>3, <2>2 DEF Held
    <3>2. CASE IsPreset(c.entry[e]) BY <3>1, <3>2 DEF IsKnown
    <3>3. CASE IsReal(session, c, c.entry[e])
      <4>1. c.entry[e].offset \in Nat /\ c.entry[e].offset <= c.high BY <3>3 DEF IsReal, IsBlock
      <4>2. d.high \in Int BY <1>1, <1>2
      <4>3. c.entry[e].offset <= d.high BY <1>1, <1>2, <4>1, <4>2
      <4> QED BY <3>1, <3>3, <4>3 DEF IsKnown, IsReal
    <3> QED BY <3>1, <3>2, <3>3 DEF IsKnown
  <2> QED BY <2>1, <2>2
<1>5. ASSUME session.kind # "queue", NEW e \in Entries, ~d.entry[e].dirty, ~IsPreset(d.entry[e])
      PROVE  AsStored(session, d, d.entry[e])
  <2>1. IsBlock(session, d.entry[e].offset) BY <1>4, <1>5 DEF IsKnown, IsReal
  <2>2. CASE e = c.lru BY <1>1, <1>3, <2>1, <2>2 DEF AsStored
  <2>3. CASE e # c.lru
    <3>1. AsStored(session, c, c.entry[e]) BY <1>3, <1>5, <2>3 DEF Held
    <3> QED BY <1>1, <1>3, <2>1, <2>3, <3>1 DEF AsStored
  <2> QED BY <2>2, <2>3
<1>6. ClearAbove(session, d)
  <2> SUFFICES ASSUME NEW o, NEW i, IsBlock(session, o), d.high < o, i \in Indexes
               PROVE  StoredPixel(session, d.m, o + i) = 0
    BY Zenon DEF ClearAbove
  <2>1. c.high < o BY <1>1, <1>2 DEF IsBlock
  <2>2. StoredPixel(session, c.m, o + i) = 0 BY <2>1 DEF Held, ClearAbove
  <2> QED BY <1>1, <2>2
<1>7. Held(session, d) BY <1>1, <1>4, <1>5, <1>6 DEF Held
<1>8. Apart(d.entry) BY <1>2, <1>3 DEF Apart, Has
<1>9. ASSUME session.kind # "queue" \/ IsPreset(c.entry[c.lru]), NEW o, NEW i, IsBlock(session, o), i \in Indexes
      PROVE  Seen(session, d, o, i) = Seen(session, c, o, i)
  <2>1. CASE o = offset
    <3>1. Has(d, o) /\ At(d, o) = c.lru BY <1>2, <1>3, <1>8, <2>1, AtEntry
    <3> QED BY <1>1, <1>3, <1>9, <2>1, <3>1 DEF Seen
  <2>2. CASE o # offset /\ \E e \in Entries \ {c.lru} : c.entry[e].offset = o
    <3>1. PICK e \in Entries \ {c.lru} : c.entry[e].offset = o BY <2>2
    <3>2. Has(c, o) /\ At(c, o) = e BY <3>1, AtEntry
    <3>3. d.entry[e] = c.entry[e] BY <1>3
    <3>4. Has(d, o) /\ At(d, o) = e BY <1>8, <3>1, <3>3, AtEntry
    <3> QED BY <3>2, <3>3, <3>4 DEF Seen
  <2>3. CASE o # offset /\ \A e \in Entries \ {c.lru} : c.entry[e].offset # o
    <3>1. ~Has(d, o) BY <1>2, <1>3, <2>3 DEF Has
    <3>2. Seen(session, d, o, i) = StoredPixel(session, c.m, o + i) BY <1>1, <1>9, <3>1 DEF Seen
    <3>3. CASE c.entry[c.lru].offset = o
      <4>1. Has(c, o) /\ At(c, o) = c.lru BY <1>2, <3>3, AtEntry
      <4>2. ~IsPreset(c.entry[c.lru]) BY <1>9, <3>3 DEF IsPreset, IsBlock
      <4>3. AsStored(session, c, c.entry[c.lru]) BY <1>2, <1>9, <4>2 DEF Held
      <4> QED BY <1>9, <3>2, <3>3, <4>1, <4>3 DEF AsStored, Seen
    <3>4. CASE c.entry[c.lru].offset # o
      <4>1. ~Has(c, o) BY <2>3, <3>4 DEF Has
      <4> QED BY <3>2, <4>1 DEF Seen
    <3> QED BY <3>3, <3>4
  <2> QED BY <2>1, <2>2, <2>3
<1> QED BY <1>7, <1>9 DEF SameSeen, d

\* Nothing that is seen changes when a block is sought in the cache.
LEMMA FindHeld ==
  ASSUME IsSession(session), NEW c0, Sound(c0), Held(session, c0), NEW offset, IsBlock(session, offset)
  PROVE  LET r == find_load_cache(c0, offset)
         IN  Held(session, r) /\ (session.kind # "queue" => SameSeen(session, c0, r))
<1> DEFINE c == [c0 EXCEPT !.curOffset = offset]
           t == Turned(c)
           w == IF t.entry[t.lru].dirty THEN write_cache_lru(t) ELSE t
           ev == Evicted(w)
           l == Loaded(ev, offset)
           r == Chained(l)
<1>0. offset \in BlockStarts BY DEF IsBlock, BlockStarts
<1>1. Sound(c) /\ c.curOffset = offset /\ SameContent(c0, c)
  BY <1>0 DEF Sound, IsCache, OnChain, Apart, SameContent
<1>2. Held(session, c) /\ SameSeen(session, c0, c) BY <1>1, SameHeld DEF Sound
<1> HIDE DEF c
<1>3. hash_index(offset) \in Chains
  BY <1>0, HashRange DEF BlockStarts
<1>4. CASE Holders(c, offset) # {}
  <2> DEFINE e == CHOOSE e \in Holders(c, offset) : TRUE
             h == [c EXCEPT !.cur = e, !.entry[e].lru = TRUE]
  <2>1. e \in Entries
    BY <1>1, <1>3, <1>4 DEF Holders, Sound, IsCache
  <2>2. find_load_cache(c0, offset) = h
    BY <1>4, Zenon DEF find_load_cache, c, e
  <2> HIDE DEF e
  <2>3. SameContent(c, h)
    BY <1>1, <2>1 DEF Sound, IsCache, AreEntries, IsEntry, SameContent
  <2> HIDE DEF h
  <2>4. Held(session, h) /\ SameSeen(session, c, h) BY <1>1, <1>2, <2>3, SameHeld DEF Sound
  <2> QED BY <1>2, <2>2, <2>4 DEF SameSeen
<1>5. CASE Holders(c, offset) = {}
  <2>1. \A e \in Entries : c.entry[e].offset # offset
    BY <1>1, <1>3, <1>5 DEF Holders, Sound, OnChain
  <2>2. Sound(t) /\ SameOffsets(c, t) /\ SameContent(c, t)
    BY <1>1, TurnedSound, TurnedContent, Zenon
  <2> HIDE DEF t
  <2>3. Held(session, t) /\ SameSeen(session, c, t) BY <1>1, <1>2, <2>2, SameHeld DEF Sound
  <2>4. /\ Sound(w) /\ SameOffsets(c, w)
        /\ Held(session, w) /\ SameSeen(session, t, w) /\ ~w.entry[w.lru].dirty
    <3>1. CASE t.entry[t.lru].dirty
      <4>1. w = write_cache_lru(t) BY <3>1
      <4> DEFINE x == write_cache_lru(t)
      <4>2. Sound(x) /\ SameOffsets(t, x) BY <2>2, WrittenSound
      <4>3. Held(session, x) /\ SameSeen(session, t, x) /\ x.lru = t.lru /\ ~x.entry[t.lru].dirty
        BY <2>2, <2>3, <3>1, WriteHeld
      <4> HIDE DEF x, w
      <4> QED BY <2>2, <4>1, <4>2, <4>3 DEF x, SameOffsets
    <3>2. CASE ~t.entry[t.lru].dirty
      <4>1. w = t BY <3>2
      <4> HIDE DEF w
      <4>2. SameSeen(session, t, t) BY DEF SameSeen
      <4> QED BY <2>2, <2>3, <3>2, <4>1, <4>2
    <3> QED BY <3>1, <3>2
  <2> HIDE DEF w
  <2>5. /\ IsCache(ev) /\ ev.lru = w.lru /\ ev.entry = w.entry /\ SameContent(w, ev)
    BY <2>4, HashRange DEF Evicted, Sound, IsCache, AreEntries, IsEntry, SameContent
  <2> HIDE DEF ev
  <2>6. Held(session, ev) /\ SameSeen(session, w, ev) /\ Apart(ev.entry)
    BY <2>4, <2>5, SameHeld DEF Sound
  <2>7. ~Has(ev, offset) BY <2>1, <2>4, <2>5 DEF Has, SameOffsets
  <2>8. Held(session, l) /\ (session.kind # "queue" => SameSeen(session, ev, l))
    BY <2>4, <2>5, <2>6, <2>7, LoadHeld
  <2>9. /\ IsCache(l) /\ l.lru = w.lru /\ l.entry[w.lru].offset = offset
        /\ \A e \in Entries \ {w.lru} : l.entry[e].offset = w.entry[e].offset
    BY <1>0, <2>5, LoadedEntry
  <2> HIDE DEF l
  <2>10. Apart(l.entry)
    BY <2>1, <2>4, <2>9 DEF Apart, Sound, SameOffsets
  <2>11. SameContent(l, r) BY <2>9 DEF SameContent, Chained, IsCache
  <2> HIDE DEF r
  <2>12. Held(session, r) /\ SameSeen(session, l, r) BY <2>8, <2>10, <2>11, SameHeld
  <2>13. find_load_cache(c0, offset) = r
    BY <1>5, Zenon DEF find_load_cache, c, t, w, ev, l, r
  <2>14. session.kind # "queue" => SameSeen(session, c0, r)
    BY <1>2, <2>3, <2>4, <2>6, <2>8, <2>12 DEF SameSeen
  <2> QED BY <2>12, <2>13, <2>14
<1> QED BY <1>4, <1>5

\* The same when the block used last is taken without a look.
LEMMA FoundHeld ==
  ASSUME IsSession(session), session # Closed, Sound(Cache), CurrentBlock, Held(session, Cache),
         NEW offset \in Nat, offset < Area(session)
  PROVE  /\ IsBlock(session, block_offset(offset))
         /\ Held(session, Found(offset))
         /\ session.kind # "queue" => SameSeen(session, Cache, Found(offset))
<1>1. IsBlock(session, block_offset(offset))
  <2>1. Area(session) \in Nat BY DEF Area, IsSession, SessionType
  <2>2. PICK b \in Nat, i \in Nat : b = block_offset(offset) /\ i = block_index(offset) /\ b % BLOCK_LEN = 0 /\ offset = b + i
    BY BlockStart DEF BlockStarts
  <2> QED BY <2>1, <2>2 DEF IsBlock
<1>2. CASE s_cur_offset = block_offset(offset)
  <2>1. Found(offset) = Cache BY <1>2, Zenon DEF Found
  <2>2. SameSeen(session, Cache, Cache) BY DEF SameSeen
  <2> QED BY <1>1, <2>1, <2>2, Zenon
<1>3. CASE s_cur_offset # block_offset(offset)
  <2> DEFINE r == find_load_cache(Cache, block_offset(offset))
  <2>1. Held(session, r) /\ (session.kind # "queue" => SameSeen(session, Cache, r))
    BY <1>1, FindHeld
  <2>2. Found(offset) = r BY <1>3, Zenon DEF Found
  <2> QED BY <1>1, <2>1, <2>2, Zenon
<1> QED BY <1>2, <1>3

\* What is seen when one entry changes.
LEMMA PutSeen ==
  ASSUME NEW c, NEW d, Apart(c.entry), Apart(d.entry), d.m = c.m,
         NEW e \in Entries, NEW o, c.entry[e].offset = o, d.entry[e].offset = o,
         \A g \in Entries : g # e => d.entry[g] = c.entry[g], NEW p, NEW i
  PROVE  Seen(session, d, p, i) = IF p = o THEN d.entry[e].pixel[i] ELSE Seen(session, c, p, i)
<1>1. CASE p = o
  <2>1. Has(d, o) /\ At(d, o) = e BY AtEntry
  <2> QED BY <1>1, <2>1 DEF Seen
<1>2. CASE p # o /\ Has(c, p)
  <2>1. PICK g \in Entries : c.entry[g].offset = p BY <1>2 DEF Has
  <2>2. g # e /\ d.entry[g] = c.entry[g] BY <1>2, <2>1
  <2>3. Has(c, p) /\ At(c, p) = g BY <2>1, AtEntry
  <2>4. Has(d, p) /\ At(d, p) = g BY <2>1, <2>2, AtEntry
  <2> QED BY <1>2, <2>2, <2>3, <2>4 DEF Seen
<1>3. CASE p # o /\ ~Has(c, p)
  <2>1. ~Has(d, p) BY <1>3 DEF Has
  <2> QED BY <1>3, <2>1 DEF Seen
<1> QED BY <1>1, <1>2, <1>3

\* In d the block at o has pixel, and all else is seen as in c.
IsPutIn(c, d, o, pixel) ==
    /\ Held(session, d)
    /\ \A p, i : IsBlock(session, p) /\ i \in Indexes =>
          Seen(session, d, p, i) = IF p = o THEN pixel[i] ELSE Seen(session, c, p, i)

\* The block found gets other pixels: nothing else that is seen changes.
LEMMA PutHeld ==
  ASSUME NEW c, NEW o, FoundAt(c, o), Held(session, c), IsBlock(session, o),
         NEW pixel \in PixelsOf(session), NEW dirty \in BOOLEAN, dirty = TRUE \/ session.kind = "queue",
         NEW d, d = Altered(c, pixel, dirty)
  PROVE  IsPutIn(c, d, o, pixel)
<1>1. /\ c.cur \in Entries /\ d.entry = [c.entry EXCEPT ![c.cur].dirty = dirty, ![c.cur].pixel = pixel]
      /\ d.m = c.m /\ d.high = c.high /\ d.seek = c.seek
  BY DEF FoundAt, Sound, IsCache, Altered
<1>2. ASSUME NEW e \in Entries, e # c.cur PROVE d.entry[e] = c.entry[e]
  BY <1>1, <1>2 DEF FoundAt, Sound, IsCache, AreEntries
<1>3. d.entry[c.cur].offset = o /\ d.entry[c.cur].pixel = pixel /\ d.entry[c.cur].dirty = dirty
  <2> DEFINE x == c.entry[c.cur]
  <2>1. IsEntry(x) /\ x.offset = o BY <1>1 DEF FoundAt, Sound, IsCache, AreEntries
  <2>2. d.entry[c.cur] = [x EXCEPT !.dirty = dirty, !.pixel = pixel]
    BY <1>1, <2>1 DEF FoundAt, Sound, IsCache, AreEntries, IsEntry
  <2> HIDE DEF x
  <2> QED BY <2>1, <2>2 DEF IsEntry
<1>4. IsReal(session, c, c.entry[c.cur])
  BY <1>1 DEF FoundAt, Held, IsKnown, IsPreset, IsBlock
<1>5. ASSUME NEW e \in Entries PROVE IsKnown(session, d, d.entry[e])
  <2>1. CASE e = c.cur BY <1>1, <1>3, <1>4, <2>1 DEF FoundAt, IsKnown, IsReal
  <2>2. CASE e # c.cur BY <1>1, <1>2, <2>2 DEF Held, IsKnown, IsReal
  <2> QED BY <2>1, <2>2
<1>6. session.kind # "queue" => \A e \in Entries : ~d.entry[e].dirty => IsPreset(d.entry[e]) \/ AsStored(session, d, d.entry[e])
  BY <1>1, <1>2, <1>3 DEF Held, AsStored
<1>7. ClearAbove(session, d) /\ InPlace(session, d) /\ d.m \in StoreOf(session)
  BY <1>1 DEF Held, ClearAbove, InPlace
<1>8. Held(session, d) BY <1>5, <1>6, <1>7 DEF Held
<1>9. Apart(c.entry) /\ c.entry[c.cur].offset = o BY DEF FoundAt, Sound
<1>10. \A e \in Entries : d.entry[e].offset = c.entry[e].offset BY <1>2, <1>3, <1>9
<1>11. Apart(d.entry) BY <1>9, <1>10 DEF Apart
<1>12. c.cur \in Entries /\ d.m = c.m /\ d.entry[c.cur].pixel = pixel BY <1>1, <1>3
<1>13. d.entry[c.cur].offset = o /\ \A g \in Entries : g # c.cur => d.entry[g] = c.entry[g] BY <1>2, <1>3
<1>14. \A p, i : Seen(session, d, p, i) = IF p = o THEN d.entry[c.cur].pixel[i] ELSE Seen(session, c, p, i)
  BY <1>9, <1>11, <1>12, <1>13, PutSeen
<1> QED BY <1>8, <1>12, <1>14 DEF IsPutIn

-----------------------------------------------------------------------------
\* The cache that a session begins with.

\* The store of a session has blocks.
LEMMA SomeBlocks == ASSUME NEW s, IsSession(s) PROVE LastBlock(s) \in Nat
<1>1. 0 < s.rowSize * s.colSize
  <2>1. PICK a \in Nat, b \in Nat : s.rowSize = a + 1 /\ s.colSize = b + 1
    <3>1. s.rowSize - 1 \in Nat /\ s.colSize - 1 \in Nat BY DEF IsSession, SessionType
    <3>2. s.rowSize = (s.rowSize - 1) + 1 /\ s.colSize = (s.colSize - 1) + 1 BY DEF IsSession, SessionType
    <3> QED BY <3>1, <3>2
  <2>2. (a + 1) * (b + 1) = a * b + a + b + 1 /\ a * b \in Nat OBVIOUS
  <2> QED BY <2>1, <2>2
<1>2. IsBlock(s, 0) BY <1>1, BlockAssumption DEF IsBlock, Area
<1> QED BY <1>2, InStore

\* Where the bytes are zero the pixels are.
LEMMA ZeroPixel ==
  ASSUME NEW s, IsSession(s), NEW m, NEW o, IsBlock(s, o), NEW i \in Indexes,
         ByteOf(m, Place(s, o + i)) = 0
  PROVE  StoredPixel(s, m, o + i) = 0
<1>1. o \in Nat /\ o % BLOCK_LEN = 0 BY DEF IsBlock
<1>2. (o + i) % PerByte(s) \in 0 .. PerByte(s) - 1 BY <1>1, PlaceInBlock DEF Indexes
<1>3. PICK j \in 0 .. PerByte(s) - 1 : j = (o + i) % PerByte(s) BY <1>2
<1>4. PixelOf(s, 0, j) = 0 BY PixelRange DEF IsSession
<1> QED BY <1>3, <1>4 DEF StoredPixel

\* The store a session begins with.
StartStore(s) == [stored_at |-> "STORED", blocks |-> Stored(s),
                  buf |-> [i \in 0 .. BLOCK_LEN - 1 |-> IF i < s.header THEN FileByte ELSE 0],
                  offset |-> 0, ptr |-> 0]

LEMMA StartStoreType == ASSUME NEW s, IsSession(s) PROVE StartStore(s) \in StoreOf(s)
<1>1. FileByte \in 0 .. 255 /\ 0 \in 0 .. 255 BY InputAssumption
<1>2. LastBlock(s) \in Nat BY SomeBlocks
<1>3. Zeros \in BlockBytesSet BY <1>1 DEF Zeros, BlockBytesSet
<1>4. Stored(s) \in [0 .. LastBlock(s) -> BlockBytesSet]
  BY <1>1, <1>3 DEF Stored, LastBlock, BlockBytesSet
<1> QED BY <1>1, <1>2, <1>4 DEF StartStore, StoreOf, BlockBytesSet

\* Its bytes: those of a new store are zero.
LEMMA StartByte ==
  ASSUME NEW s, IsSession(s), s.kind # "targa", NEW a \in Addresses(s)
  PROVE  ByteOf(StartStore(s), a) = 0
<1>1. LastBlock(s) \in Nat BY SomeBlocks
<1>2. a \in Nat /\ a < (LastBlock(s) + 1) * BLOCK_LEN
  <2>1. (LastBlock(s) + 1) * BLOCK_LEN \in Nat BY <1>1, BlockAssumption
  <2> QED BY <2>1 DEF Addresses
<1>3. a \div BLOCK_LEN \in 0 .. LastBlock(s) /\ a % BLOCK_LEN \in 0 .. BLOCK_LEN - 1
  BY <1>1, <1>2, AddressPlace
<1>4. s.header = 0 BY DEF IsSession, SessionType
<1> QED BY <1>3, <1>4, BlockAssumption DEF ByteOf, ByteAt, StartStore, Stored, Zeros, LastBlock

\* Those of a Targa file are there but for the rest of the first block.
LEMMA TargaByte ==
  ASSUME NEW s, IsSession(s), s.kind = "targa", NEW offset \in Nat, offset < Area(s)
  PROVE  LET a == offset + s.header
         IN  ByteOf(StartStore(s), a) = IF a >= BLOCK_LEN THEN FileByte ELSE 0
<1>1. s.header \in Nat /\ s.header < BLOCK_LEN BY BlockAssumption DEF IsSession, SessionType
<1>2. PICK a \in Nat : a = offset + s.header /\ a >= s.header BY <1>1
<1>3. PICK L \in Nat \ {0} : L = BLOCK_LEN BY BlockAssumption
<1>4. PerByte(s) = 1
  <2>1. 2^0 = 1 OBVIOUS
  <2> QED BY <2>1, Zenon DEF PerByte, ShiftOf
<1>5. Area(s) \in Nat BY DEF Area, IsSession, SessionType
<1>6. Bytes(s) = Area(s) + s.header
  <2>1. Bytes(s) = (Area(s) + 1 - 1) \div 1 + s.header BY <1>4, Zenon DEF Bytes, Area
  <2> QED BY <1>1, <1>5, <2>1
<1>7. PICK b \in Nat, i \in 0 .. L - 1, T \in Nat : a = T + i /\ T = b * L /\ b = a \div L /\ i = a % L
  <2>1. a \div BLOCK_LEN \in Nat /\ a % BLOCK_LEN \in 0 .. BLOCK_LEN - 1
        /\ a = (a \div BLOCK_LEN) * BLOCK_LEN + (a % BLOCK_LEN)
    BY AddressPlace
  <2>2. (a \div BLOCK_LEN) * BLOCK_LEN \in Nat BY <1>3, <2>1
  <2> QED BY <1>3, <2>1, <2>2
<1>8. b \in 0 .. LastBlock(s)
  <2>1. PICK B \in Nat : B = Bytes(s) /\ a < B BY <1>1, <1>2, <1>5, <1>6
  <2>2. LastBlock(s) = (B + L - 1) \div L
    <3>1. disk_video_memory_blocks(s) = (B + L - 1) \div L
      BY <1>3, <2>1, Zenon DEF disk_video_memory_blocks
    <3>2. (B + L - 1) \div L \in Int BY <2>1
    <3> QED BY <3>1, <3>2 DEF LastBlock
  <2>3. PICK K \in Nat, R \in 0 .. L - 1 : K = (B + L - 1) \div L /\ B + L - 1 = K * L + R
    <3>1. B + BLOCK_LEN - 1 \in Nat BY <1>3
    <3> QED BY <1>3, <3>1, AddressPlace
  <2>4. a < (K + 1) * BLOCK_LEN
    <3>1. (K + 1) * L = K * L + L /\ K * L \in Nat OBVIOUS
    <3> QED BY <1>3, <2>1, <2>3, <3>1
  <2>5. a \div BLOCK_LEN \in 0 .. K BY <2>4, AddressPlace
  <2> QED BY <1>3, <1>7, <2>2, <2>3, <2>5
<1>9. CASE b = 0
  <2>0. 0 * L = 0 OBVIOUS
  <2>a. a = T + i /\ T = 0 BY <1>7, <1>9, <2>0, Zenon
  <2>1. a = i /\ a < L BY <2>a
  <2>2. ByteOf(StartStore(s), a) = 0
    <3>1. ByteOf(StartStore(s), a) = StartStore(s).buf[i]
      BY <1>3, <1>7, <1>9 DEF ByteOf, ByteAt, StartStore
    <3>2. StartStore(s).buf[i] = IF i < s.header THEN FileByte ELSE 0 BY <1>3 DEF StartStore
    <3> QED BY <1>1, <1>2, <2>1, <3>1, <3>2
  <2> QED BY <1>2, <1>3, <2>1, <2>2
<1>10. CASE b # 0
  <2>1. T >= L
    <3>1. 0 * L + L <= b * L BY <1>3, <1>7, <1>10, Factors
    <3> QED BY <1>3, <1>7, <3>1
  <2>2. a >= L BY <1>7, <2>1
  <2>3. T + i < Bytes(s) BY <1>1, <1>2, <1>5, <1>6, <1>7
  <2>4. ByteOf(StartStore(s), a) = FileByte
    <3>1. ByteOf(StartStore(s), a) = Stored(s)[b][i]
      BY <1>3, <1>7, <1>10 DEF ByteOf, ByteAt, StartStore
    <3>2. Stored(s)[b] = [k \in 0 .. BLOCK_LEN - 1 |-> IF b * BLOCK_LEN + k < Bytes(s) THEN FileByte ELSE 0]
      BY <1>8 DEF Stored, LastBlock
    <3>3. Stored(s)[b][i] = FileByte BY <1>3, <1>7, <2>3, <3>2
    <3> QED BY <3>1, <3>3
  <2> QED BY <1>2, <1>3, <2>2, <2>4
<1> QED BY <1>9, <1>10

\* The cache of a session that begins is one in front of its store.
\* The preset offsets are no block's.
LEMMA NoneYet == \A e \in Entries : IsPreset(NoEntries[e])
<1> SUFFICES ASSUME NEW e \in Entries PROVE Preset(e) % BLOCK_LEN # 0
  BY DEF IsPreset, NoEntries
<1>1. PICK q \in Nat, r \in 0 .. BLOCK_LEN - 1 : q = PRESET \div BLOCK_LEN /\ r = PRESET % BLOCK_LEN
                                              /\ PRESET = q * BLOCK_LEN + r
  BY BlockAssumption, AddressPlace
<1>2. q + e + 1 \in Nat /\ Preset(e) = (q + e + 1) * BLOCK_LEN + r
  BY <1>1, BlockAssumption DEF Preset, Entries
<1>3. Preset(e) % BLOCK_LEN = r BY <1>2, BlockPlace
<1> QED BY <1>1, <1>3, BlockAssumption

LEMMA StartHeld ==
  ASSUME NEW s, IsSession(s),
         NEW c, c.entry = NoEntries, c.high = (IF s.kind = "targa" THEN PRESET ELSE -1), c.seek = -1,
         c.m = StartStore(s)
  PROVE  Held(s, c) /\ \A o : IsBlock(s, o) => ~Has(c, o)
<1>1. \A e \in Entries : IsPreset(c.entry[e]) BY NoneYet
<1>2. c.m \in StoreOf(s) BY StartStoreType
<1>3. ClearAbove(s, c)
  <2> SUFFICES ASSUME NEW o, NEW i, IsBlock(s, o), c.high < o, i \in Indexes
               PROVE  StoredPixel(s, c.m, o + i) = 0
    BY DEF ClearAbove
  <2>1. CASE s.kind = "targa"
    <3>1. PRESET < o /\ o < Area(s) /\ Area(s) <= PRESET /\ o \in Nat BY <2>1 DEF IsBlock, IsSession
    <3>2. PRESET \in Nat /\ Area(s) \in Nat BY BlockAssumption DEF Area, IsSession, SessionType
    <3> QED BY <3>1, <3>2
  <2>2. CASE s.kind # "targa"
    <3>1. Place(s, o + i) \in Addresses(s) BY PixelAddress DEF Indexes
    <3>2. ByteOf(c.m, Place(s, o + i)) = 0 BY <2>2, <3>1, StartByte
    <3> QED BY <3>2, ZeroPixel
  <2> QED BY <2>1, <2>2
<1>4. InPlace(s, c) BY DEF InPlace
<1>5. Held(s, c) BY <1>1, <1>2, <1>3, <1>4 DEF Held, IsKnown
<1>6. \A o : IsBlock(s, o) => ~Has(c, o) BY <1>1 DEF IsPreset, IsBlock, Has
<1> QED BY <1>5, <1>6

-----------------------------------------------------------------------------
\* The invariant: the cache is sound and, where there is a store, in front of it.  What
\* keeps the offsets asked of it within the session is part of it: the row last used and
\* the ends of the queue.
SessionOK == session = Closed \/ session \in Sessions \/ \E size \in 1 .. Request : session = QueueSession(size)

CursorOK == /\ s_cur_row \in Nat \cup {-1}
            /\ session # Closed /\ s_cur_row # -1 => s_cur_row < session.colSize
            /\ RowBaseKept

QueueOK == /\ s_list_front \in Nat /\ s_list_back \in Nat /\ s_list_size \in Nat
           /\ Queueing => /\ s_list_size \in 1 .. Request /\ session = QueueSession(s_list_size)
                          /\ s_list_front < s_list_size /\ s_list_back < s_list_size

HandleOK == s_dv_handle \in [stored_at : {"STORED", "NOWHERE"}, blocks : {s_dv_handle.blocks}]

Stores == session # Closed /\ s_dv_handle.stored_at # "NOWHERE"
HeldOK == Stores => Held(session, Cache)

IInv == SessionOK /\ Sound(Cache) /\ CurrentBlock /\ CursorOK /\ QueueOK /\ HandleOK /\ HeldOK

\* What the cache of the next state is about.
CacheOK == Sound(Cache) /\ CurrentBlock /\ HandleOK /\ HeldOK

\* The sessions have the sizes their stores are made for.
LEMMA QueueSessions ==
  ASSUME NEW size \in 1 .. Request
  PROVE  LET s == QueueSession(size)
         IN  IsSession(s) /\ s # Closed /\ s.kind = "queue" /\ PerByte(s) = 1 /\ Levels(s) = 256 /\ Area(s) = size * CELLS
<1> DEFINE s == QueueSession(size)
<1>0. Request \in Nat /\ size \in Nat \ {0} BY QueueAssumption
<1>1. /\ s.kind = "queue" /\ s.rowSize = size * CELLS /\ s.colSize = 1 /\ s.colors = 256 /\ s.header = 0 /\ s.asked = {}
      /\ s # Closed
  BY DEF QueueSession, Closed
<1> HIDE DEF s
<1>2. size * CELLS \in Nat \ {0} BY <1>0 DEF CELLS
<1>3. SessionType(s) BY <1>1, <1>2, BlockAssumption DEF SessionType
<1>4. s.colors <= Levels(s) BY <1>1, <1>3, ColorsFit
<1>5. PerByte(s) = 1 /\ Levels(s) = 256 BY <1>1, <1>3, <1>4, Widths
<1>6. BLOCK_LEN % PerByte(s) = 0 BY <1>5, BlockAssumption
<1>7. Area(s) = size * CELLS BY <1>1, <1>2 DEF Area
<1> QED BY <1>1, <1>3, <1>5, <1>6, <1>7 DEF IsSession, s

LEMMA SessionTypes ==
  ASSUME NEW s, s \in Sessions \/ \E size \in 1 .. Request : s = QueueSession(size)
  PROVE  IsSession(s)
<1>1. CASE s \in Sessions BY <1>1, InputAssumption, SessionAssumption DEF IsSession, Area
<1>2. CASE \E size \in 1 .. Request : s = QueueSession(size)
  <2>1. PICK size \in 1 .. Request : s = QueueSession(size) BY <1>2
  <2> QED BY <2>1, QueueSessions
<1> QED BY <1>1, <1>2

\* What is drawn in is one of the sessions that are started.
LEMMA AskedSession ==
  ASSUME IInv, Asked
  PROVE  session \in Sessions /\ IsSession(session) /\ session # Closed /\ session.kind # "queue"
<1>1. ASSUME NEW size \in 1 .. Request, session = QueueSession(size) PROVE FALSE
  BY <1>1, QueueSessions DEF Asked
<1>2. session \in Sessions BY <1>1 DEF IInv, SessionOK, Asked
<1> QED BY <1>2, SessionTypes DEF Asked

\* A step that leaves the cache and the store alone.
CacheStays == <<session, cacheVars, store>>
LEMMA SameCache == ASSUME IInv, UNCHANGED CacheStays PROVE CacheOK'
<1>1. Cache' = Cache /\ session' = session /\ s_dv_handle' = s_dv_handle
  BY DEF CacheStays, cacheVars, store, Cache
<1>2. Sound(Cache)' /\ HandleOK' BY <1>1 DEF IInv, HandleOK
<1>3. CurrentBlock' BY DEF IInv, CacheStays, cacheVars, store, CurrentBlock
<1>4. HeldOK' BY <1>1 DEF IInv, HeldOK, Stores
<1> QED BY <1>2, <1>3, <1>4 DEF CacheOK

\* A session that begins finds the cache empty and no row remembered.
LEMMA Begins ==
  ASSUME NEW s, common_start_disk(s), IsSession(s) \/ session' = Closed
  PROVE  /\ CacheOK' /\ CursorOK' /\ session' \in {s, Closed}
         /\ Stores' => \A o : IsBlock(session', o) => ~Has(Cache', o)
         /\ Stores' => Cache'.m = StartStore(s)
<1>1. /\ entry' = NoEntries /\ s_hash_ptr' = PresetChains /\ s_cache_lru' = 0
      /\ s_cur_cache' = 0 /\ s_cur_offset' = -1 /\ s_seek_offset' = -1
      /\ s_high_offset' = (IF s.kind = "targa" THEN PRESET ELSE -1)
      /\ s_cur_row' = -1 /\ s_cur_row_base' = 0
  BY DEF common_start_disk, EmptyCache, NoBlockYet, NoRowYet
<1>2. Cache' = [entry |-> NoEntries, hash |-> PresetChains, lru |-> 0, cur |-> 0, curOffset |-> -1,
                high |-> s_high_offset', seek |-> -1, m |-> Cache.m']
  BY <1>1 DEF Cache
<1>3. Sound(Cache)'
  <2>1. 0 \in Entries /\ -1 \in BlockStarts \cup {-1} BY CacheAssumption DEF Entries
  <2>2. s_high_offset' \in Nat \cup {-1} BY <1>1, BlockAssumption
  <2>3. Sound([entry |-> NoEntries, hash |-> PresetChains, lru |-> 0, cur |-> 0, curOffset |-> -1,
               high |-> s_high_offset', seek |-> -1, m |-> Cache.m'])
    BY <2>1, <2>2, EmptySound
  <2> QED BY <1>2, <2>3
<1>4. CurrentBlock' /\ CursorOK' BY <1>1 DEF CurrentBlock, CursorOK, RowBaseKept
<1>5. HandleOK' /\ session' \in {s, Closed}
  BY DEF common_start_disk, HandleOK, NoHandle, Places
<1>6. ASSUME Stores' PROVE /\ Held(session', Cache') /\ session' = s
                           /\ \A o : IsBlock(session', o) => ~Has(Cache', o)
                           /\ Cache'.m = StartStore(s)
  <2>1. /\ session' = s
        /\ s_dv_handle' = [stored_at |-> "STORED", blocks |-> Stored(s)]
        /\ mem' = [buf |-> [i \in 0 .. BLOCK_LEN - 1 |-> IF i < s.header THEN FileByte ELSE 0],
                   offset |-> 0, ptr |-> 0]
    BY <1>6 DEF common_start_disk, Stores, Places, NoHandle
  <2>0. IsSession(s) BY <1>6 DEF Stores
  <2>2. Cache'.m = StartStore(s)
    BY <2>1 DEF Cache, StartStore
  <2>3. Cache'.entry = NoEntries /\ Cache'.high = s_high_offset' /\ Cache'.seek = -1 BY <1>2
  <2>4. Held(s, Cache') /\ \A o : IsBlock(s, o) => ~Has(Cache', o)
    BY <1>1, <2>0, <2>2, <2>3, StartHeld
  <2> QED BY <2>1, <2>2, <2>4
<1>7. HeldOK' BY <1>6 DEF HeldOK
<1>8. CacheOK' BY <1>3, <1>4, <1>5, <1>7 DEF CacheOK
<1> QED BY <1>4, <1>5, <1>6, <1>8

\* One that ends leaves the current block and the row, which count for nothing now.
LEMMA Ends ==
  ASSUME IInv, end_disk
  PROVE  CacheOK' /\ CursorOK' /\ session' = Closed
<1>1. Sound(Cache)'
  BY EmptySound DEF end_disk, IInv, Sound, IsCache, Cache
<1>2. session' = Closed /\ HandleOK' BY DEF end_disk, HandleOK, NoHandle
<1>3. CursorOK' /\ CurrentBlock' /\ HeldOK'
  BY <1>2 DEF end_disk, CurrentBlock, CursorOK, RowBaseKept, IInv, HeldOK, Stores
<1> QED BY <1>1, <1>2, <1>3 DEF CacheOK

\* The base of the row that is remembered is the base of that row.
LEMMA AskedType ==
  ASSUME IInv, Asked, NEW p \in session.asked
  PROVE  /\ p \in Nat \X Nat /\ session.rowSize \in Nat /\ session.colSize \in Nat
         /\ RowBase(p[2]) = p[2] * session.rowSize /\ RowBase(p[2]) + p[1] \in Nat
         /\ Row(p[2]) => p[2] < session.colSize
         /\ Row(p[2]) /\ Col(p[1]) => p \in Points(session) /\ RowBase(p[2]) + p[1] < Area(session)
<1>1. SessionType(session) BY AskedSession DEF IsSession
<1>2. p \in Nat \X Nat /\ session.rowSize \in Nat /\ session.colSize \in Nat BY <1>1 DEF SessionType
<1>3. RowBase(p[2]) = p[2] * session.rowSize
  BY <1>2 DEF IInv, CursorOK, RowBaseKept, RowBase, Asked
<1>4. p[2] * session.rowSize \in Nat BY <1>2
<1>5. Row(p[2]) => p[2] < session.colSize
  <2>1. p[2] # -1 BY <1>2
  <2> QED BY <2>1 DEF Row, IInv, CursorOK, Asked
<1>6. ASSUME Row(p[2]), Col(p[1]) PROVE p \in Points(session) /\ RowBase(p[2]) + p[1] < Area(session)
  <2>1. p[2] < session.colSize /\ p[1] < session.rowSize BY <1>5, <1>6 DEF Col
  <2>2. PICK x \in Nat, y \in Nat, w \in Nat, h \in Nat :
           x = p[1] /\ y = p[2] /\ w = session.rowSize /\ h = session.colSize /\ y < h /\ x < w
    BY <1>2, <2>1
  <2>3. y * w + w <= h * w BY <2>2, Factors
  <2>4. y * w \in Nat /\ h * w \in Nat BY <2>2
  <2>5. y * w + x < h * w BY <2>2, <2>3, <2>4
  <2>6. Area(session) = h * w BY <2>2 DEF Area
  <2>7. RowBase(p[2]) + p[1] < Area(session) BY <1>3, <2>2, <2>5, <2>6
  <2> QED BY <2>1, <2>7 DEF Points
<1> QED BY <1>2, <1>3, <1>4, <1>5, <1>6

\* A row is remembered with its base.
LEMMA CursorStep ==
  ASSUME IInv, Asked, NEW p \in session.asked, NoteRow(p[2]), UNCHANGED session
  PROVE  CursorOK'
<1>1. CASE Row(p[2])
  <2>1. s_cur_row' = p[2] /\ s_cur_row_base' = RowBase(p[2]) BY <1>1 DEF NoteRow
  <2>2. p[2] \in Nat /\ RowBase(p[2]) = p[2] * session.rowSize /\ p[2] < session.colSize BY <1>1, AskedType
  <2> QED BY <2>1, <2>2 DEF CursorOK, RowBaseKept
<1>2. CASE ~Row(p[2])
  BY <1>2 DEF NoteRow, CursorOK, RowBaseKept, IInv
<1> QED BY <1>1, <1>2

\* The cache of the next state is the one that is set.
LEMMA SetFound ==
  ASSUME NEW d, NEW o, FoundAt(d, o), SetCache(d), HandleOK
  PROVE  Sound(Cache)' /\ CurrentBlock' /\ HandleOK' /\ s_dv_handle'.stored_at = s_dv_handle.stored_at
<1>1. Sound(Cache)' /\ CurrentBlock'
  BY DEF FoundAt, Sound, IsCache, OnChain, Apart, SetCache, Cache, CurrentBlock
<1>2. HandleOK' /\ s_dv_handle'.stored_at = s_dv_handle.stored_at
  BY DEF SetCache, HandleOK
<1> QED BY <1>1, <1>2

LEMMA SetHeld ==
  ASSUME NEW d, IsCache(d), d.m \in StoreOf(session), SetCache(d), HandleOK, s_dv_handle.stored_at # "NOWHERE"
  PROVE  Cache' = d
<1>1. s_dv_handle'.stored_at = "STORED" /\ s_dv_handle'.blocks = d.m.blocks
  BY DEF SetCache, HandleOK
<1>2. d.m = [stored_at |-> "STORED", blocks |-> d.m.blocks, buf |-> d.m.buf, offset |-> d.m.offset, ptr |-> d.m.ptr]
  BY DEF StoreOf
<1>3. Cache'.m = d.m BY <1>1, <1>2 DEF SetCache, Cache
<1>4. Cache' = [entry |-> d.entry, hash |-> d.hash, lru |-> d.lru, cur |-> d.cur, curOffset |-> d.curOffset,
                high |-> d.high, seek |-> d.seek, m |-> d.m]
  BY <1>3 DEF SetCache, Cache
<1> QED BY <1>4 DEF IsCache

\* A block that was found, as it is or with other pixels, is set.
LEMMA SetOK ==
  ASSUME NEW d, NEW o, FoundAt(d, o), SetCache(d), IInv, Stores => Held(session, d), UNCHANGED session
  PROVE  CacheOK' /\ (Stores => Cache' = d) /\ (Stores' <=> Stores)
<1>1. HandleOK BY DEF IInv
<1>2. Sound(Cache)' /\ CurrentBlock' /\ HandleOK' /\ s_dv_handle'.stored_at = s_dv_handle.stored_at
  BY <1>1, SetFound
<1>3. ASSUME Stores PROVE Cache' = d
  <2>1. d.m \in StoreOf(session) BY <1>3 DEF Held
  <2>2. s_dv_handle.stored_at # "NOWHERE" BY <1>3 DEF Stores
  <2> QED BY <1>1, <2>1, <2>2, SetHeld DEF FoundAt, Sound
<1>4. Stores' <=> Stores BY <1>2 DEF Stores
<1>5. HeldOK' BY <1>3, <1>4 DEF HeldOK
<1> QED BY <1>2, <1>3, <1>4, <1>5 DEF CacheOK

\* The block of a pixel is found, with all that is seen as it was.
LEMMA FoundOK ==
  ASSUME IInv, session # Closed, NEW offset \in Nat, offset < Area(session)
  PROVE  /\ FoundAt(Found(offset), block_offset(offset))
         /\ IsBlock(session, block_offset(offset))
         /\ Stores => /\ Held(session, Found(offset))
                      /\ session.kind # "queue" => SameSeen(session, Cache, Found(offset))
                      /\ Found(offset).entry[Found(offset).cur].pixel \in PixelsOf(session)
                      /\ \A i \in Indexes : Found(offset).entry[Found(offset).cur].pixel[i]
                                               = Seen(session, Found(offset), block_offset(offset), i)
<1> DEFINE f == Found(offset)
           o == block_offset(offset)
<1>0. IsSession(session) BY SessionTypes DEF IInv, SessionOK
<1>1. FoundAt(f, o) BY FoundSound DEF IInv
<1>2. IsBlock(session, o)
  <2>1. Area(session) \in Nat BY <1>0 DEF Area, IsSession, SessionType
  <2>2. PICK b \in Nat, i \in Nat : b = block_offset(offset) /\ i = block_index(offset) /\ b % BLOCK_LEN = 0 /\ offset = b + i
    BY BlockStart DEF BlockStarts
  <2> QED BY <2>1, <2>2 DEF IsBlock
<1>3. ASSUME Stores
      PROVE  /\ Held(session, f) /\ (session.kind # "queue" => SameSeen(session, Cache, f))
             /\ f.entry[f.cur].pixel \in PixelsOf(session)
             /\ \A i \in Indexes : f.entry[f.cur].pixel[i] = Seen(session, f, o, i)
  <2>1. Held(session, f) /\ (session.kind # "queue" => SameSeen(session, Cache, f))
    BY <1>0, <1>3, FoundHeld DEF IInv, HeldOK
  <2> HIDE DEF f, o
  <2>2. f.cur \in Entries /\ f.entry[f.cur].offset = o /\ Apart(f.entry) BY <1>1 DEF FoundAt, Sound, IsCache
  <2>3. Has(f, o) /\ At(f, o) = f.cur BY <2>2, AtEntry
  <2>4. IsReal(session, f, f.entry[f.cur]) BY <1>2, <2>1, <2>2 DEF Held, IsKnown, IsPreset, IsBlock
  <2> QED BY <2>1, <2>3, <2>4 DEF IsReal, Seen
<1> QED BY <1>1, <1>2, <1>3

\* Cache d is f with the block at o altered, which has pixel now.
IsAltered(f, d, o, pixel, dirty) ==
    /\ d = Altered(f, pixel, dirty)
    /\ \A q, i : IsBlock(session, q) /\ i \in Indexes =>
          Seen(session, d, q, i) = IF q = o THEN pixel[i] ELSE Seen(session, f, q, i)

\* What Altered leaves to be seen.
LEMMA AlteredOK ==
  ASSUME IInv, session # Closed, NEW c, NEW o, FoundAt(c, o), Stores => Held(session, c), IsBlock(session, o),
         NEW pixel, Stores => pixel \in PixelsOf(session), NEW dirty \in BOOLEAN, dirty = TRUE \/ session.kind = "queue",
         SetCache(Altered(c, pixel, dirty)), UNCHANGED session
  PROVE  CacheOK' /\ (Stores' <=> Stores) /\ (Stores => IsAltered(c, Cache', o, pixel, dirty))
<1> DEFINE d == Altered(c, pixel, dirty)
<1>1. FoundAt(d, o) BY Changed
<1>2. ASSUME Stores PROVE IsPutIn(c, d, o, pixel)
  <2>1. Held(session, c) /\ pixel \in PixelsOf(session) BY <1>2
  <2> QED BY <2>1, PutHeld
<1> HIDE DEF d
<1>3. SetCache(d) BY DEF d
<1>4. CacheOK' /\ (Stores => Cache' = d) /\ (Stores' <=> Stores) BY <1>1, <1>2, <1>3, SetOK DEF IsPutIn
<1>5. ASSUME Stores PROVE IsAltered(c, Cache', o, pixel, dirty)
  <2>1. Cache' = d /\ IsPutIn(c, d, o, pixel) BY <1>2, <1>4, <1>5
  <2> QED BY <2>1, Zenon DEF IsPutIn, IsAltered, d
<1> QED BY <1>4, <1>5

\* A pixel is read: all that is seen stays as it was, and the answer is what is seen.
LEMMA ReadOK ==
  ASSUME IInv, NEW p \in session.asked, disk_read_pixel(p[1], p[2])
  PROVE  /\ CacheOK' /\ CursorOK' /\ UNCHANGED session /\ (Stores' <=> Stores)
         /\ Stores => SameSeen(session, Cache, Cache')
         /\ \/ answer' = Outside
            \/ /\ p \in Points(session)
               /\ Stores => LET offset == p[2] * session.rowSize + p[1]
                            IN  answer' = [at |-> p, value |-> Seen(session, Cache, block_offset(offset), block_index(offset))]
<1>1. Asked /\ NoteRow(p[2]) /\ UNCHANGED session BY DEF disk_read_pixel
<1>2. CursorOK' BY <1>1, CursorStep
<1>3. session \in Sessions /\ IsSession(session) /\ session # Closed /\ session.kind # "queue" BY <1>1, AskedSession
<1>4. CASE Row(p[2]) /\ Col(p[1])
  <2> DEFINE offset == RowBase(p[2]) + p[1]
             f == Found(offset)
             o == block_offset(offset)
  <2>1. offset \in Nat /\ p \in Points(session) /\ offset < Area(session) /\ offset = p[2] * session.rowSize + p[1]
        /\ p \in Nat \X Nat
    BY <1>1, <1>4, AskedType
  <2>2. SetCache(f) /\ answer' = [at |-> <<p[1], p[2]>>, value |-> f.entry[f.cur].pixel[block_index(offset)]]
    BY <1>4 DEF disk_read_pixel
  <2> HIDE DEF offset
  <2>3. /\ FoundAt(f, o)
        /\ IsBlock(session, o)
        /\ Stores => /\ Held(session, f)
                     /\ SameSeen(session, Cache, f)
                     /\ \A i \in Indexes : f.entry[f.cur].pixel[i] = Seen(session, f, o, i)
    BY <1>3, <2>1, FoundOK
  <2>4. block_index(offset) \in Indexes BY <2>1, BlockStart DEF Indexes
  <2> HIDE DEF f, o
  <2>5. CacheOK' /\ (Stores => Cache' = f) /\ (Stores' <=> Stores) BY <1>1, <2>2, <2>3, SetOK
  <2>6. <<p[1], p[2]>> = p BY <2>1
  <2>7. ASSUME Stores PROVE answer' = [at |-> p, value |-> Seen(session, Cache, block_offset(offset), block_index(offset))]
    <3>1. f.entry[f.cur].pixel[block_index(offset)] = Seen(session, Cache, o, block_index(offset))
      BY <2>3, <2>4, <2>7 DEF SameSeen
    <3> QED BY <2>2, <2>6, <3>1 DEF o
  <2> QED BY <1>1, <1>2, <2>1, <2>3, <2>5, <2>7
<1>5. CASE ~(Row(p[2]) /\ Col(p[1]))
  <2>1. answer' = Outside /\ UNCHANGED CacheStays BY <1>1, <1>5 DEF disk_read_pixel, CacheStays
  <2>2. CacheOK' BY <2>1, SameCache
  <2>3. Cache' = Cache /\ s_dv_handle' = s_dv_handle BY <2>1 DEF CacheStays, cacheVars, store, Cache
  <2>4. (Stores' <=> Stores) /\ SameSeen(session, Cache, Cache') BY <1>1, <2>3 DEF Stores, SameSeen
  <2> QED BY <1>1, <1>2, <2>1, <2>2, <2>4
<1> QED BY <1>4, <1>5

\* From c to d the pixel of an offset becomes color, and every other stays as it is seen.
IsDrawn(s, c, d, offset, color) ==
    \A o, i : IsBlock(s, o) /\ i \in Indexes =>
       Seen(s, d, o, i) = IF o = block_offset(offset) /\ i = block_index(offset) THEN color ELSE Seen(s, c, o, i)

\* A pixel is written: it is seen afterwards, and every other as it was.
LEMMA WriteOK ==
  ASSUME IInv, NEW p \in session.asked, NEW color \in Colors, disk_write_pixel(p[1], p[2], color)
  PROVE  /\ CacheOK' /\ CursorOK' /\ UNCHANGED session /\ (Stores' <=> Stores)
         /\ \/ answer' = Outside /\ (Stores => SameSeen(session, Cache, Cache'))
            \/ /\ p \in Points(session) /\ answer' = [at |-> p, value |-> color]
               /\ Stores => IsDrawn(session, Cache, Cache', p[2] * session.rowSize + p[1], color)
<1>1. Asked /\ NoteRow(p[2]) /\ UNCHANGED session BY DEF disk_write_pixel
<1>2. CursorOK' BY <1>1, CursorStep
<1>3. session \in Sessions /\ IsSession(session) /\ session # Closed /\ session.kind # "queue" BY <1>1, AskedSession
<1>4. CASE Row(p[2]) /\ Col(p[1])
  <2> DEFINE offset == RowBase(p[2]) + p[1]
             f == Found(offset)
             b == block_offset(offset)
             x == block_index(offset)
             pixel == [f.entry[f.cur].pixel EXCEPT ![x] = color]
             d == WritePixel(f, x, color)
  <2>1. offset \in Nat /\ p \in Points(session) /\ offset < Area(session) /\ offset = p[2] * session.rowSize + p[1]
        /\ <<p[1], p[2]>> = p
    <3>1. p \in Nat \X Nat /\ offset \in Nat /\ p \in Points(session) /\ offset < Area(session)
          /\ offset = p[2] * session.rowSize + p[1]
      BY <1>1, <1>4, AskedType
    <3>2. <<p[1], p[2]>> = p BY <3>1
    <3> QED BY <3>1, <3>2
  <2>2. SetCache(d) /\ answer' = [at |-> p, value |-> color]
    <3>1. SetCache(d) /\ answer' = [at |-> <<p[1], p[2]>>, value |-> color]
      BY <1>4 DEF disk_write_pixel
    <3> QED BY <2>1, <3>1
  <2> HIDE DEF offset
  <2>3. /\ FoundAt(f, b)
        /\ IsBlock(session, b)
        /\ Stores => /\ Held(session, f)
                     /\ SameSeen(session, Cache, f)
                     /\ f.entry[f.cur].pixel \in PixelsOf(session)
                     /\ \A i \in Indexes : f.entry[f.cur].pixel[i] = Seen(session, f, b, i)
    BY <1>3, <2>1, FoundOK
  <2>4. x \in Indexes BY <2>1, BlockStart DEF Indexes
  <2>5. color \in 0 .. Levels(session) - 1
    <3>1. SessionType(session) BY <1>3 DEF IsSession
    <3>2. CASE session.kind # "targa"
      <4>1. color \in 0 .. session.colors - 1 BY <1>3, <3>2, SessionAssumption
      <4>2. session.colors <= Levels(session) BY <3>1, <3>2, ColorsFit
      <4>3. session.colors \in Nat /\ Levels(session) \in Nat BY <3>1, Widths DEF SessionType
      <4> QED BY <4>1, <4>2, <4>3
    <3>3. CASE session.kind = "targa"
      <4>1. PerByte(session) = 1
        <5>1. 2^0 = 1 OBVIOUS
        <5> QED BY <3>3, <5>1, Zenon DEF PerByte, ShiftOf
      <4>2. Levels(session) = 256 BY <3>1, <4>1, Widths
      <4> QED BY <4>2, InputAssumption
    <3> QED BY <3>2, <3>3
  <2> HIDE DEF f, b, x
  <2>6. CASE f.entry[f.cur].pixel[x] = color
    <3>1. d = f BY <2>6, Zenon DEF WritePixel
    <3>2. CacheOK' /\ (Stores => Cache' = f) /\ (Stores' <=> Stores) BY <1>1, <2>2, <2>3, <3>1, SetOK
    <3>3. ASSUME Stores PROVE IsDrawn(session, Cache, Cache', offset, color)
      <4>1. SameSeen(session, Cache, Cache') /\ Cache' = f BY <2>3, <3>2, <3>3
      <4>2. Seen(session, f, b, x) = color BY <2>3, <2>4, <2>6, <3>3
      <4> QED BY <2>3, <2>4, <4>1, <4>2, Zenon DEF IsDrawn, SameSeen, b, x
    <3> QED BY <1>1, <1>2, <2>1, <2>2, <3>2, <3>3
  <2>7. CASE f.entry[f.cur].pixel[x] # color
    <3>1. d = Altered(f, pixel, TRUE) BY <2>3, <2>7, WrittenPixel
    <3>2. Stores => pixel \in PixelsOf(session) BY <2>3, <2>4, <2>5 DEF PixelsOf, Indexes
    <3> HIDE DEF pixel
    <3> HIDE DEF d
    <3>a. FoundAt(d, b) BY <2>3, <3>1, Changed
    <3>b. ASSUME Stores PROVE IsPutIn(f, d, b, pixel)
      <4>1. Held(session, f) /\ pixel \in PixelsOf(session) BY <2>3, <3>2, <3>b
      <4>2. TRUE \in BOOLEAN OBVIOUS
      <4> QED BY <2>3, <3>1, <4>1, <4>2, PutHeld
    <3>3. CacheOK' /\ (Stores => Cache' = d) /\ (Stores' <=> Stores) BY <1>1, <2>2, <3>a, <3>b, SetOK DEF IsPutIn
    <3>4. Stores => \A o, i : IsBlock(session, o) /\ i \in Indexes =>
                       Seen(session, Cache', o, i) = IF o = b THEN pixel[i] ELSE Seen(session, f, o, i)
      BY <3>b, <3>3 DEF IsPutIn
    <3>5. ASSUME Stores, NEW o, NEW i, IsBlock(session, o), i \in Indexes
          PROVE  Seen(session, Cache', o, i) = IF o = b /\ i = x THEN color ELSE Seen(session, Cache, o, i)
      <4>1. Seen(session, f, o, i) = Seen(session, Cache, o, i) BY <2>3, <3>5 DEF SameSeen
      <4>2. CASE o = b
        <5>1. Seen(session, Cache', o, i) = pixel[i] BY <3>4, <3>5, <4>2
        <5>2. pixel[i] = IF i = x THEN color ELSE f.entry[f.cur].pixel[i]
          BY <2>3, <2>4, <3>5 DEF pixel, PixelsOf, Indexes
        <5>3. f.entry[f.cur].pixel[i] = Seen(session, f, o, i) BY <2>3, <3>5, <4>2
        <5> QED BY <4>1, <4>2, <5>1, <5>2, <5>3
      <4>3. CASE o # b BY <3>4, <3>5, <4>1, <4>3
      <4> QED BY <4>2, <4>3
    <3>6. Stores => IsDrawn(session, Cache, Cache', offset, color) BY <3>5, Zenon DEF IsDrawn, b, x
    <3> QED BY <1>1, <1>2, <2>1, <2>2, <3>3, <3>6
  <2> QED BY <2>6, <2>7
<1>5. CASE ~(Row(p[2]) /\ Col(p[1]))
  <2>1. answer' = Outside /\ UNCHANGED CacheStays BY <1>1, <1>5 DEF disk_write_pixel, CacheStays
  <2>2. CacheOK' BY <2>1, SameCache
  <2>3. Cache' = Cache /\ s_dv_handle' = s_dv_handle BY <2>1 DEF CacheStays, cacheVars, store, Cache
  <2>4. (Stores' <=> Stores) /\ SameSeen(session, Cache, Cache') BY <1>1, <2>3 DEF Stores, SameSeen
  <2> QED BY <1>1, <1>2, <2>1, <2>2, <2>4
<1> QED BY <1>4, <1>5

\* The session of a queue, and the offsets of its slots.
LEMMA SlotType ==
  ASSUME IInv, Queueing, NEW slot \in Nat, slot < s_list_size
  PROVE  /\ session # Closed /\ IsSession(session) /\ session.kind = "queue" /\ Levels(session) = 256
         /\ CELLS * slot \in Nat /\ CELLS * slot < Area(session)
<1>1. s_list_size \in 1 .. Request /\ session = QueueSession(s_list_size) BY DEF IInv, QueueOK
<1>2. Request \in Nat BY QueueAssumption
<1>3. Area(session) = s_list_size * CELLS BY <1>1, QueueSessions
<1> QED BY <1>1, <1>2, <1>3, QueueSessions DEF CELLS

\* The pixels of the block with values put at x.
WithValues(pixel, x, values) == [i \in Indexes |-> IF i - x + 1 \in 1 .. CELLS THEN values[i - x + 1] ELSE pixel[i]]

\* The queue writes a slot.
LEMMA ToOK ==
  ASSUME IInv, Queueing, NEW slot \in Nat, slot < s_list_size, NEW p \in PointsPut,
         to_mem_disk(CELLS * slot, <<p[1], p[2]>>), UNCHANGED session
  PROVE  LET f == Found(CELLS * slot)
         IN  /\ CacheOK' /\ (Stores' <=> Stores)
             /\ Stores => IsAltered(f, Cache', block_offset(CELLS * slot),
                             WithValues(f.entry[f.cur].pixel, block_index(CELLS * slot), <<p[1], p[2]>>), TRUE)
<1> DEFINE offset == CELLS * slot
           values == <<p[1], p[2]>>
           f == Found(offset)
           o == block_offset(offset)
           x == block_index(offset)
           pixel == [i \in DOMAIN f.entry[f.cur].pixel |->
                        LET k == i - x + 1
                        IN  IF k \in 1 .. Len(values) THEN values[k] ELSE f.entry[f.cur].pixel[i]]
           d == [f EXCEPT !.entry[f.cur].dirty = TRUE,
                             !.entry[f.cur].pixel = [i \in DOMAIN @ |->
                                LET k == i - x + 1
                                IN  IF k \in 1 .. Len(values) THEN values[k] ELSE @[i]]]
<1>1. /\ session # Closed /\ session.kind = "queue" /\ Levels(session) = 256
      /\ offset \in Nat /\ offset < Area(session)
  BY SlotType
<1>2. SetCache(d)
  BY Zenon DEF to_mem_disk
<1>3. p[1] \in 0 .. 255 /\ p[2] \in 0 .. 255 BY QueueAssumption
<1>4. /\ FoundAt(f, o) /\ IsBlock(session, o)
      /\ Stores => Held(session, f) /\ f.entry[f.cur].pixel \in PixelsOf(session)
  BY <1>1, FoundOK
<1> HIDE DEF offset, f, o, x
<1>5. d = Altered(f, pixel, TRUE)
  <2>1. d = [f EXCEPT !.entry = [@ EXCEPT ![f.cur].dirty = TRUE, ![f.cur].pixel = pixel]]
    BY <1>4 DEF FoundAt, Sound, IsCache, AreEntries, IsEntry
  <2> QED BY <2>1, Zenon DEF Altered
<1>6. Stores => pixel \in PixelsOf(session)
  <2> SUFFICES ASSUME Stores PROVE pixel \in PixelsOf(session)
    OBVIOUS
  <2>0. PixelsOf(session) = [0 .. BLOCK_LEN - 1 -> 0 .. 255]
    <3>1. 0 .. Levels(session) - 1 = 0 .. 255 BY <1>1
    <3> QED BY <3>1, Zenon DEF PixelsOf
  <2>1. f.entry[f.cur].pixel \in [0 .. BLOCK_LEN - 1 -> 0 .. 255] BY <1>4, <2>0
  <2>2. \A k \in 1 .. Len(values) : values[k] \in 0 .. 255 BY <1>3
  <2> HIDE DEF values
  <2>3. pixel \in [0 .. BLOCK_LEN - 1 -> 0 .. 255] BY <2>1, <2>2
  <2> QED BY <2>0, <2>3, Zenon
<1>8. Stores => pixel = WithValues(f.entry[f.cur].pixel, x, values)
  <2> SUFFICES ASSUME Stores PROVE pixel = WithValues(f.entry[f.cur].pixel, x, values)
    OBVIOUS
  <2>1. DOMAIN f.entry[f.cur].pixel = Indexes BY <1>4 DEF PixelsOf, Indexes
  <2>2. Len(values) = CELLS BY DEF CELLS
  <2> HIDE DEF values
  <2> QED BY <2>1, <2>2, Zenon DEF WithValues
<1> HIDE DEF pixel, d
<1>7. SetCache(Altered(f, pixel, TRUE)) BY <1>2, <1>5
<1>9. /\ CacheOK' /\ (Stores' <=> Stores)
      /\ Stores => IsAltered(f, Cache', o, pixel, TRUE)
  BY <1>1, <1>4, <1>6, <1>7, AlteredOK
<1> QED BY <1>8, <1>9, Zenon DEF f, o, x, offset, values

\* The queue reads a slot; the block is marked clean.
LEMMA FromOK ==
  ASSUME IInv, Queueing, NEW slot \in Nat, slot < s_list_size,
         from_mem_disk(CELLS * slot, CELLS), UNCHANGED session
  PROVE  LET f == Found(CELLS * slot)
         IN  /\ CacheOK' /\ (Stores' <=> Stores)
             /\ Stores => IsAltered(f, Cache', block_offset(CELLS * slot), f.entry[f.cur].pixel, FALSE)
<1> DEFINE offset == CELLS * slot
           f == Found(offset)
           o == block_offset(offset)
           pixel == f.entry[f.cur].pixel
           d == [f EXCEPT !.entry[f.cur].dirty = FALSE]
<1>1. /\ session # Closed /\ session.kind = "queue" /\ offset \in Nat /\ offset < Area(session)
  BY SlotType
<1>2. SetCache(d)
  BY Zenon DEF from_mem_disk
<1>4. /\ FoundAt(f, o) /\ IsBlock(session, o)
      /\ Stores => Held(session, f) /\ pixel \in PixelsOf(session)
  BY <1>1, FoundOK
<1> HIDE DEF offset, f, o
<1>5. d = Altered(f, pixel, FALSE)
  <2>1. d = [f EXCEPT !.entry = [@ EXCEPT ![f.cur].dirty = FALSE, ![f.cur].pixel = pixel]]
    BY <1>4 DEF FoundAt, Sound, IsCache, AreEntries, IsEntry
  <2> QED BY <2>1, Zenon DEF Altered
<1> HIDE DEF pixel, d
<1>7. SetCache(Altered(f, pixel, FALSE)) BY <1>2, <1>5
<1>8. /\ CacheOK' /\ (Stores' <=> Stores)
      /\ Stores => IsAltered(f, Cache', o, pixel, FALSE)
  BY <1>1, <1>4, <1>7, AlteredOK
<1> QED BY <1>8, Zenon DEF f, o, pixel, offset

\* A step that leaves the row alone, and one that leaves the queue alone.
CursorVars == <<session, s_cur_row, s_cur_row_base>>
LEMMA Untouched == ASSUME IInv, UNCHANGED CursorVars PROVE CursorOK'
BY DEF IInv, CursorVars, CursorOK, RowBaseKept

QueueStays == <<session, s_list_front, s_list_back, s_list_size>>
LEMMA QueueUntouched == ASSUME IInv, UNCHANGED QueueStays PROVE QueueOK' /\ SessionOK'
BY DEF IInv, QueueStays, QueueOK, SessionOK, Queueing

\* The parts of the invariant.
LEMMA Together == ASSUME SessionOK', CacheOK', CursorOK', QueueOK' PROVE IInv'
BY DEF IInv, CacheOK

\* The ring goes on within its size.
LEMMA RingStep ==
  ASSUME NEW i \in Nat, NEW n \in Nat, i < n
  PROVE  (i + 1) % n \in Nat /\ (i + 1) % n < n
OBVIOUS

\* No step of the disk video or of the queue breaks the invariant.
THEOREM CacheIInv == QSpec => []IInv
<1>1. QInit => IInv
  <2> SUFFICES ASSUME QInit PROVE IInv
    OBVIOUS
  <2>1. Sound(Cache)
    <3>1. 0 \in Entries /\ 0 \in BlockStarts \cup {-1} BY CacheAssumption, BlockAssumption DEF Entries, BlockStarts
    <3>2. Cache = [entry |-> NoEntries, hash |-> PresetChains, lru |-> 0, cur |-> 0, curOffset |-> 0,
                   high |-> 0, seek |-> 0, m |-> Cache.m]
      BY DEF QInit, Init, Cache
    <3>3. Sound([entry |-> NoEntries, hash |-> PresetChains, lru |-> 0, cur |-> 0, curOffset |-> 0,
                 high |-> 0, seek |-> 0, m |-> Cache.m])
      BY <3>1, EmptySound
    <3> QED BY <3>2, <3>3
  <2>2. session = Closed /\ s_dv_handle = NoHandle /\ s_list_front = 0 /\ s_list_back = 0 /\ s_list_size = 0
        /\ s_cur_row = 0 /\ s_cur_row_base = 0
    BY DEF QInit, Init
  <2>3. ~Queueing BY <2>2 DEF Queueing, Closed
  <2>4. SessionOK /\ CurrentBlock /\ CursorOK BY <2>2 DEF SessionOK, CurrentBlock, CursorOK, RowBaseKept
  <2>5. QueueOK /\ HandleOK /\ HeldOK BY <2>2, <2>3 DEF QueueOK, HandleOK, NoHandle, HeldOK, Stores
  <2> QED BY <2>1, <2>4, <2>5 DEF IInv
<1>2. IInv /\ [QNext]_allVars => IInv'
  <2> SUFFICES ASSUME IInv, [QNext]_allVars PROVE IInv'
    OBVIOUS
  <2>1. CASE UNCHANGED allVars
    <3>1. UNCHANGED CacheStays /\ UNCHANGED CursorVars /\ UNCHANGED QueueStays
      BY <2>1 DEF allVars, vars, queueVars, CacheStays, CursorVars, QueueStays
    <3> QED BY <3>1, SameCache, Untouched, QueueUntouched, Together
  <2>2. ASSUME UNCHANGED queueVars, ~Queueing' PROVE QueueOK'
    BY <2>2 DEF queueVars, QueueOK, IInv
  <2>3. CASE Others
    <3>1. UNCHANGED queueVars BY <2>3 DEF Others
    <3>2. ASSUME NEW s \in Sessions, Start(s) PROVE IInv'
      <4>1. IsSession(s) /\ s.kind # "queue" BY SessionTypes, InputAssumption
      <4>2. CacheOK' /\ CursorOK' /\ session' \in {s, Closed} BY <3>2, <4>1, Begins DEF Start
      <4>3. SessionOK' /\ ~Queueing' BY <4>1, <4>2 DEF SessionOK, Queueing, Closed
      <4> QED BY <2>2, <3>1, <4>2, <4>3, Together
    <3>3. CASE end_disk
      <4>1. CacheOK' /\ CursorOK' /\ session' = Closed BY <3>3, Ends
      <4>2. SessionOK' /\ ~Queueing' BY <4>1 DEF SessionOK, Queueing, Closed
      <4> QED BY <2>2, <3>1, <4>1, <4>2, Together
    <3>4. CASE Draw
      <4>1. PICK p \in session.asked : \/ disk_read_pixel(p[1], p[2])
                                       \/ \E color \in Colors : disk_write_pixel(p[1], p[2], color)
        BY <3>4 DEF Draw
      <4>2. CacheOK' /\ CursorOK' /\ UNCHANGED session
        <5>1. CASE disk_read_pixel(p[1], p[2]) BY <5>1, ReadOK
        <5>2. CASE \E color \in Colors : disk_write_pixel(p[1], p[2], color) BY <5>2, WriteOK
        <5> QED BY <4>1, <5>1, <5>2
      <4>3. UNCHANGED QueueStays BY <3>1, <4>2 DEF queueVars, QueueStays
      <4> QED BY <4>2, <4>3, QueueUntouched, Together
    <3> QED BY <2>3, <3>2, <3>3, <3>4 DEF Others, Next, Session
  <2>4. CASE init_queue
    <3>0. Request \in Nat BY QueueAssumption
    <3>1. CASE \E size \in Sizes : /\ common_start_disk(QueueSession(size)) /\ session' # Closed
                                   /\ SetList(0, 0, size, 0)
      <4>1. PICK size \in 1 .. Request : /\ common_start_disk(QueueSession(size)) /\ session' # Closed
                                         /\ SetList(0, 0, size, 0)
        BY <3>1 DEF Sizes
      <4>2. IsSession(QueueSession(size)) BY QueueSessions
      <4>3. CacheOK' /\ CursorOK' /\ session' \in {QueueSession(size), Closed} BY <4>1, <4>2, Begins
      <4>4. SessionOK' BY <4>1, <4>3 DEF SessionOK
      <4>5. QueueOK' BY <3>0, <4>1, <4>3 DEF QueueOK, SetList
      <4> QED BY <4>3, <4>4, <4>5, Together
    <3>2. CASE /\ common_start_disk(QueueSession(Request)) /\ session' = Closed
               /\ SetList(s_list_front, s_list_back, 0, s_l_size)
      <4>1. CacheOK' /\ CursorOK' BY <3>2, Begins
      <4>2. SessionOK' /\ QueueOK' BY <3>2 DEF SessionOK, QueueOK, SetList, Queueing, Closed, IInv
      <4> QED BY <4>1, <4>2, Together
    <3> QED BY <2>4, <3>1, <3>2 DEF init_queue
  <2>5. CASE free_queue
    <3>1. CacheOK' /\ CursorOK' /\ session' = Closed BY <2>5, Ends DEF free_queue
    <3>2. SessionOK' /\ QueueOK' BY <2>5, <3>1 DEF free_queue, SetList, SessionOK, QueueOK, Queueing, Closed
    <3> QED BY <3>1, <3>2, Together
  <2>6. CASE clear_queue
    <3>1. UNCHANGED CacheStays /\ UNCHANGED CursorVars BY <2>6 DEF clear_queue, vars, CacheStays, CursorVars
    <3>2. SessionOK' BY <3>1 DEF IInv, SessionOK, CursorVars
    <3>3. QueueOK' BY <2>6, <3>1 DEF clear_queue, SetList, CursorVars, IInv, QueueOK, Queueing
    <3> QED BY <3>1, <3>2, <3>3, SameCache, Untouched, Together
  <2>7. ASSUME NEW front \in Nat, NEW back \in Nat, Queueing, front < s_list_size, back < s_list_size, CacheOK',
               UNCHANGED CursorVars, s_list_front' = front, s_list_back' = back, s_list_size' = s_list_size
        PROVE  IInv'
    <3>1. SessionOK' BY <2>7 DEF IInv, SessionOK, CursorVars
    <3>2. QueueOK' BY <2>7 DEF IInv, QueueOK, CursorVars, Queueing
    <3> QED BY <2>7, <3>1, <3>2, Untouched, Together
  <2>8. ASSUME Queueing
        PROVE  /\ s_list_front \in Nat /\ s_list_back \in Nat /\ s_list_size \in Nat
               /\ s_list_front < s_list_size /\ s_list_back < s_list_size
    BY <2>8 DEF IInv, QueueOK
  <2>9. ASSUME NEW p \in PointsPut, push_float(p[1], p[2]) PROVE IInv'
    <3>1. Queueing /\ UNCHANGED CursorVars BY <2>9 DEF push_float, CursorVars
    <3>2. CASE Room
      <4>1. /\ to_mem_disk(CELLS * s_list_front, <<p[1], p[2]>>)
            /\ s_list_front' = (s_list_front + 1) % s_list_size /\ s_list_back' = s_list_back /\ s_list_size' = s_list_size
        BY <2>9, <3>2 DEF push_float, SetList
      <4>2. CacheOK' BY <2>8, <3>1, <4>1, ToOK DEF CursorVars
      <4> QED BY <2>7, <2>8, <3>1, <4>1, <4>2, RingStep
    <3>3. CASE ~Room
      <4>1. UNCHANGED CacheStays /\ UNCHANGED QueueStays
        BY <2>9, <3>3 DEF push_float, CacheStays, QueueStays
      <4> QED BY <3>1, <4>1, SameCache, Untouched, QueueUntouched, Together
    <3> QED BY <3>2, <3>3
  <2>10. ASSUME NEW slot \in Nat, NEW front \in Nat, NEW back \in Nat, Queueing, Take(slot, front, back),
                slot < s_list_size, front < s_list_size, back < s_list_size
         PROVE  IInv'
    <3>1. /\ from_mem_disk(CELLS * slot, CELLS) /\ UNCHANGED CursorVars
          /\ s_list_front' = front /\ s_list_back' = back /\ s_list_size' = s_list_size
      BY <2>10 DEF Take, SetList, CursorVars
    <3>2. CacheOK' BY <2>10, <3>1, FromOK DEF CursorVars
    <3> QED BY <2>7, <2>10, <3>1, <3>2
  <2>11. ASSUME TakeNone PROVE IInv'
    <3>1. UNCHANGED CacheStays /\ UNCHANGED QueueStays /\ UNCHANGED CursorVars
      BY <2>11 DEF TakeNone, CacheStays, QueueStays, CursorVars
    <3> QED BY <3>1, SameCache, Untouched, QueueUntouched, Together
  <2>12. CASE pop_float
    <3>1. Queueing BY <2>12 DEF pop_float
    <3>2. Top \in Nat /\ Top < s_list_size BY <2>8, <3>1 DEF Top
    <3> QED BY <2>8, <2>10, <2>11, <2>12, <3>1, <3>2 DEF pop_float
  <2>13. CASE dequeue_float
    <3>1. Queueing BY <2>13 DEF dequeue_float
    <3>2. (s_list_back + 1) % s_list_size \in Nat /\ (s_list_back + 1) % s_list_size < s_list_size
      BY <2>8, <3>1, RingStep
    <3> QED BY <2>8, <2>10, <2>11, <2>13, <3>1, <3>2 DEF dequeue_float
  <2> QED BY <2>1, <2>3, <2>4, <2>5, <2>6, <2>9, <2>12, <2>13 DEF QNext, QueueStep
<1> QED BY <1>1, <1>2, PTL DEF QSpec

\* What the cache remembers of itself is so, and the store is where a read that goes on
\* without a seek begins (find_load_cache, write_cache_lru, init_cache, disk_read_pixel,
\* disk_write_pixel, mem_getc).
THEOREM CacheAlwaysKept == QSpec => []CacheInv
<1>1. IInv => TypeOK
  <2> SUFFICES ASSUME IInv PROVE TypeOK
    OBVIOUS
  <2>1. session = Closed \/ SessionType(session)
    BY SessionTypes DEF IInv, SessionOK, IsSession
  <2>2. IsCache(Cache) BY DEF IInv, Sound
  <2>3. /\ s_hash_ptr \in [Chains -> SUBSET Entries]
        /\ s_cache_lru \in Entries /\ s_cur_cache \in Entries
        /\ s_cur_offset \in BlockStarts \cup {-1}
        /\ s_high_offset \in Nat \cup {-1} /\ s_seek_offset \in Nat \cup {-1}
    BY <2>2 DEF IsCache, Cache
  <2>4. AreEntries(entry) BY <2>2 DEF IsCache, Cache
  <2>5. DOMAIN entry = Entries BY <2>4 DEF AreEntries
  <2>6. \A e \in Entries : entry[e].offset \in Nat /\ entry[e].dirty \in BOOLEAN /\ entry[e].lru \in BOOLEAN
    BY <2>4 DEF AreEntries, IsEntry
  <2>7. s_cur_offset = -1 \/ block_index(s_cur_offset) = 0 BY <2>3 DEF BlockStarts, block_index
  <2>8. DOMAIN s_hash_ptr = 0 .. HASH_SIZE - 1 /\ \A h \in DOMAIN s_hash_ptr : s_hash_ptr[h] \subseteq Entries
    BY <2>3 DEF Chains
  <2> QED BY <2>1, <2>3, <2>5, <2>6, <2>7, <2>8, Zenon DEF TypeOK
<1>2. IInv => CacheKept
  BY HashRange DEF IInv, Sound, IsCache, AreEntries, IsEntry, OnChain, Apart, Cache, CacheKept, OneEntryPerBlock, CursorOK, Chains
<1>3. IInv => SeekInPlace
  <2> SUFFICES ASSUME IInv, Stores, s_seek_offset # -1
               PROVE  mem.offset * BLOCK_LEN + mem.ptr = s_seek_offset \div PerByte(session) + session.header
    BY DEF SeekInPlace, Stores
  <2>1. Cache.seek = s_seek_offset /\ Cache.m.offset = mem.offset /\ Cache.m.ptr = mem.ptr BY DEF Cache
  <2>2. Spot(Cache.m) = Place(session, Cache.seek) BY <2>1 DEF IInv, HeldOK, Held, InPlace
  <2> QED BY <2>1, <2>2 DEF Spot, Place
<1>4. IInv => CacheInv BY <1>1, <1>2, <1>3 DEF CacheInv
<1> QED BY <1>4, CacheIInv, PTL

-----------------------------------------------------------------------------
\* The pixels that are seen.

OffsetOf(s, p) == p[2] * s.rowSize + p[1]
SeenAt(s, c, offset) == Seen(s, c, block_offset(offset), block_index(offset))
Shown(s, c) == [p \in Points(s) |-> SeenAt(s, c, OffsetOf(s, p))]

\* A point has its offset.
LEMMA PointOffset ==
  ASSUME NEW s, SessionType(s), NEW p \in Points(s)
  PROVE  /\ p \in Nat \X Nat /\ p[1] < s.rowSize /\ p[2] < s.colSize
         /\ OffsetOf(s, p) \in Nat /\ OffsetOf(s, p) < Area(s)
<1>1. p \in Nat \X Nat /\ s.rowSize \in Nat /\ s.colSize \in Nat /\ p[1] < s.rowSize /\ p[2] < s.colSize
  BY DEF Points, SessionType
<1>2. PICK x \in Nat, y \in Nat, w \in Nat, h \in Nat :
           x = p[1] /\ y = p[2] /\ w = s.rowSize /\ h = s.colSize /\ y < h /\ x < w
  BY <1>1
<1>3. y * w + w <= h * w BY <1>2, Factors
<1>4. y * w \in Nat /\ h * w \in Nat BY <1>2
<1>5. y * w + x \in Nat /\ y * w + x < h * w BY <1>2, <1>3, <1>4
<1>6. Area(s) = h * w BY <1>2 DEF Area
<1>7. OffsetOf(s, p) = y * w + x BY <1>2 DEF OffsetOf
<1> QED BY <1>1, <1>5, <1>6, <1>7

\* And no other one has it.
LEMMA PointsDiffer ==
  ASSUME NEW s, SessionType(s), NEW p \in Points(s), NEW q \in Points(s), OffsetOf(s, p) = OffsetOf(s, q)
  PROVE  p = q
<1>1. PICK x \in Nat, y \in Nat, u \in Nat, v \in Nat, w \in Nat :
         /\ x = p[1] /\ y = p[2] /\ u = q[1] /\ v = q[2] /\ w = s.rowSize /\ x < w /\ u < w
         /\ p = <<x, y>> /\ q = <<u, v>>
  <2>1. p \in Nat \X Nat /\ p[1] < s.rowSize /\ q \in Nat \X Nat /\ q[1] < s.rowSize BY PointOffset
  <2>2. s.rowSize \in Nat BY DEF SessionType
  <2>3. p = <<p[1], p[2]>> /\ q = <<q[1], q[2]>> BY <2>1
  <2> QED BY <2>1, <2>2, <2>3
<1>2. y * w + x = v * w + u BY <1>1 DEF OffsetOf
<1>3. y * w \in Nat /\ v * w \in Nat BY <1>1
<1>4. ~(y < v)
  <2> SUFFICES ASSUME y < v PROVE FALSE OBVIOUS
  <2>1. y * w + w <= v * w BY Factors
  <2> QED BY <1>1, <1>2, <1>3, <2>1
<1>5. ~(v < y)
  <2> SUFFICES ASSUME v < y PROVE FALSE OBVIOUS
  <2>1. v * w + w <= y * w BY Factors
  <2> QED BY <1>1, <1>2, <1>3, <2>1
<1>6. y = v BY <1>1, <1>4, <1>5
<1>7. x = u BY <1>2, <1>3, <1>6
<1> QED BY <1>1, <1>6, <1>7

\* A pixel as the model looks at it is what is seen.
LEMMA LookSeen ==
  ASSUME NEW s, IsSession(s), NEW c, Sound(c), Held(s, c), NEW offset \in Nat, offset < Area(s)
  PROVE  LookAt(s, c, offset) = SeenAt(s, c, offset)
<1> DEFINE o == block_offset(offset)
           i == block_index(offset)
           holders == Holders(c, o)
<1>1. o \in BlockStarts /\ o \in Nat /\ i \in Indexes /\ offset = o + i /\ hash_index(o) \in Chains
  <2>1. o \in BlockStarts /\ i \in Indexes /\ offset = o + i BY BlockStart DEF Indexes
  <2>2. o \in Nat BY <2>1 DEF BlockStarts
  <2> QED BY <2>1, <2>2, HashRange
<1>2. IsBlock(s, o)
  <2>1. Area(s) \in Nat BY DEF Area, IsSession, SessionType
  <2>2. o <= offset BY <1>1 DEF Indexes
  <2> QED BY <1>1, <2>1, <2>2 DEF IsBlock, BlockStarts
<1>3. LookAt(s, c, offset) =
        IF holders # {} THEN c.entry[CHOOSE e \in holders : TRUE].pixel[i]
        ELSE IF o > c.high THEN 0
        ELSE StoredPixel(s, c.m, offset)
  BY Zenon DEF LookAt, StoredPixel, Place, Byte, ByteOf, ByteAt
<1> HIDE DEF o, i
<1>4. CASE holders # {}
  <2> DEFINE e == CHOOSE e \in holders : TRUE
  <2>1. e \in holders BY <1>4
  <2>2. e \in Entries /\ c.entry[e].offset = o BY <1>1, <2>1 DEF Holders, Sound, IsCache
  <2> HIDE DEF e
  <2>3. Has(c, o) /\ At(c, o) = e BY <2>2, AtEntry DEF Sound
  <2>4. LookAt(s, c, offset) = c.entry[e].pixel[i] BY <1>3, <1>4 DEF e
  <2> QED BY <2>3, <2>4 DEF SeenAt, Seen, o, i
<1>5. CASE holders = {}
  <2>1. ~Has(c, o) BY <1>1, <1>5 DEF Holders, Has, Sound, OnChain
  <2>2. SeenAt(s, c, offset) = StoredPixel(s, c.m, offset) BY <1>1, <2>1 DEF SeenAt, Seen, o, i
  <2>3. CASE o > c.high
    <3>1. c.high < o BY <1>1, <2>3 DEF Sound, IsCache
    <3>2. StoredPixel(s, c.m, o + i) = 0 BY <1>1, <1>2, <3>1 DEF Held, ClearAbove
    <3> QED BY <1>1, <1>3, <1>5, <2>2, <2>3, <3>2
  <2>4. CASE ~(o > c.high) BY <1>3, <1>5, <2>2, <2>4
  <2> QED BY <2>3, <2>4
<1> QED BY <1>4, <1>5

\* The session, the pixels and the answer of the pixel store.
BarSession == IF Kept THEN session ELSE Closed
BarPixels  == IF Kept THEN [p \in Points(session) |-> Visible(p[2] * session.rowSize + p[1])] ELSE <<>>
BarAnswer  == IF Kept THEN answer ELSE NoAnswer

LEMMA BarNow ==
  ASSUME IInv, Kept
  PROVE  BarSession = session /\ BarAnswer = answer /\ BarPixels = Shown(session, Cache)
<1>1. IsSession(session) /\ Sound(Cache) /\ Held(session, Cache)
  BY SessionTypes DEF IInv, SessionOK, Kept, HeldOK, Stores
<1>2. \A offset : Visible(offset) = LookAt(session, Cache, offset)
  BY DEF Visible
<1>3. ASSUME NEW p \in Points(session)
      PROVE  Visible(p[2] * session.rowSize + p[1]) = SeenAt(session, Cache, OffsetOf(session, p))
  <2>1. OffsetOf(session, p) \in Nat /\ OffsetOf(session, p) < Area(session) BY <1>1, PointOffset DEF IsSession
  <2>2. LookAt(session, Cache, OffsetOf(session, p)) = SeenAt(session, Cache, OffsetOf(session, p)) BY <1>1, <2>1, LookSeen
  <2> QED BY <1>2, <2>2 DEF OffsetOf
<1>4. BarPixels = [p \in Points(session) |-> Visible(p[2] * session.rowSize + p[1])] BY DEF BarPixels
<1> HIDE DEF Shown
<1>5. BarPixels = Shown(session, Cache) BY <1>3, <1>4 DEF Shown
<1> QED BY <1>5 DEF BarSession, BarAnswer

LEMMA BarNext ==
  ASSUME IInv', Kept'
  PROVE  BarSession' = session' /\ BarAnswer' = answer' /\ BarPixels' = Shown(session', Cache')
<1>1. IsSession(session') /\ Sound(Cache') /\ Held(session', Cache')
  BY SessionTypes DEF IInv, SessionOK, Kept, HeldOK, Stores
<1>2. \A p : Visible(p[2] * session.rowSize + p[1])' = LookAt(session', Cache', p[2] * session'.rowSize + p[1])
  BY DEF Visible
<1>3. ASSUME NEW p \in Points(session')
      PROVE  Visible(p[2] * session.rowSize + p[1])' = SeenAt(session', Cache', OffsetOf(session', p))
  <2>1. OffsetOf(session', p) \in Nat /\ OffsetOf(session', p) < Area(session') BY <1>1, PointOffset DEF IsSession
  <2>2. LookAt(session', Cache', OffsetOf(session', p)) = SeenAt(session', Cache', OffsetOf(session', p)) BY <1>1, <2>1, LookSeen
  <2> QED BY <1>2, <2>2 DEF OffsetOf
<1>4. BarPixels' = [p \in Points(session') |-> Visible(p[2] * session.rowSize + p[1])'] BY DEF BarPixels
<1>5. BarPixels' = Shown(session', Cache') BY <1>3, <1>4 DEF Shown
<1> QED BY <1>5 DEF BarSession, BarAnswer

\* A session begins with the pixels it is given.
LEMMA GivenShown ==
  ASSUME NEW s, IsSession(s), NEW c, c.m = StartStore(s), \A o : IsBlock(s, o) => ~Has(c, o)
  PROVE  Shown(s, c) = Given(s)
<1>1. ASSUME NEW p \in Points(s)
      PROVE  SeenAt(s, c, OffsetOf(s, p))
                = IF s.kind = "targa" /\ OffsetOf(s, p) + s.header >= BLOCK_LEN THEN FileByte ELSE 0
  <2> DEFINE offset == OffsetOf(s, p)
             o == block_offset(offset)
             i == block_index(offset)
  <2>1. offset \in Nat /\ offset < Area(s) BY PointOffset DEF IsSession
  <2> HIDE DEF offset
  <2>2. o \in BlockStarts /\ o \in Nat /\ i \in Indexes /\ offset = o + i
    <3>1. o \in BlockStarts /\ i \in Indexes /\ offset = o + i BY <2>1, BlockStart DEF Indexes
    <3> QED BY <3>1 DEF BlockStarts
  <2>3. IsBlock(s, o)
    <3>1. Area(s) \in Nat BY DEF Area, IsSession, SessionType
    <3>2. o <= offset BY <2>2 DEF Indexes
    <3> QED BY <2>1, <2>2, <3>1, <3>2 DEF IsBlock, BlockStarts
  <2> HIDE DEF o, i
  <2>4. SeenAt(s, c, offset) = StoredPixel(s, StartStore(s), o + i) BY <2>3, Zenon DEF SeenAt, Seen, o, i
  <2>5. CASE s.kind # "targa"
    <3>1. Place(s, o + i) \in Addresses(s) BY <2>2, <2>3, PixelAddress DEF Indexes
    <3>2. ByteOf(StartStore(s), Place(s, o + i)) = 0 BY <2>5, <3>1, StartByte
    <3>3. StoredPixel(s, StartStore(s), o + i) = 0 BY <2>2, <2>3, <3>2, ZeroPixel
    <3> QED BY <2>4, <2>5, <3>3 DEF offset
  <2>6. CASE s.kind = "targa"
    <3>1. PerByte(s) = 1
      <4>1. 2^0 = 1 OBVIOUS
      <4> QED BY <2>6, <4>1, Zenon DEF PerByte, ShiftOf
    <3>2. PICK b \in 0 .. 255 : b = IF offset + s.header >= BLOCK_LEN THEN FileByte ELSE 0
      BY InputAssumption
    <3>3. ByteOf(StartStore(s), offset + s.header) = b BY <2>1, <2>6, <3>2, TargaByte
    <3>4. offset \div 1 = offset /\ offset % 1 = 0 BY <2>1
    <3>5. Place(s, offset) = offset + s.header /\ offset % PerByte(s) = 0 BY <3>1, <3>4, Zenon DEF Place
    <3>6. StoredPixel(s, StartStore(s), offset) = PixelOf(s, b, 0) BY <3>3, <3>5, Zenon DEF StoredPixel
    <3>7. PixelOf(s, b, 0) = b
      <4>1. 0 \in 0 .. PerByte(s) - 1 BY <3>1
      <4> QED BY <3>1, <4>1, PixelRange DEF IsSession
    <3> QED BY <2>2, <2>4, <2>6, <3>2, <3>6, <3>7 DEF offset
  <2> QED BY <2>5, <2>6
<1> QED BY <1>1, Zenon DEF Shown, Given, OffsetOf

\* Where all is seen as it was the points are.
LEMMA SamePoints ==
  ASSUME NEW s, IsSession(s), NEW c, NEW d, SameSeen(s, c, d), NEW p \in Points(s)
  PROVE  SeenAt(s, d, OffsetOf(s, p)) = SeenAt(s, c, OffsetOf(s, p))
<1> DEFINE offset == OffsetOf(s, p)
           o == block_offset(offset)
           i == block_index(offset)
<1>1. offset \in Nat /\ offset < Area(s) BY PointOffset DEF IsSession
<1> HIDE DEF offset
<1>2. IsBlock(s, o) /\ i \in Indexes
  <2>1. o \in BlockStarts /\ i \in Indexes /\ offset = o + i BY <1>1, BlockStart DEF Indexes
  <2>2. o \in Nat /\ o <= offset BY <2>1 DEF BlockStarts, Indexes
  <2>3. Area(s) \in Nat BY DEF Area, IsSession, SessionType
  <2> QED BY <1>1, <2>1, <2>2, <2>3 DEF IsBlock, BlockStarts
<1> HIDE DEF o, i
<1>3. Seen(s, d, o, i) = Seen(s, c, o, i) BY <1>2, Zenon DEF SameSeen
<1> QED BY <1>3, Zenon DEF SeenAt, o, i, offset

\* A pixel read is the one that is seen, and no pixel changes.
LEMMA ReadShown ==
  ASSUME IInv, Kept, NEW p \in session.asked, disk_read_pixel(p[1], p[2])
  PROVE  /\ session' = session /\ Kept' /\ Shown(session, Cache') = Shown(session, Cache)
         /\ \/ answer' = Outside
            \/ p \in Points(session) /\ answer' = [at |-> p, value |-> Shown(session, Cache)[p]]
<1>1. Stores /\ IsSession(session) BY SessionTypes DEF IInv, SessionOK, Kept, Stores
<1>2. /\ UNCHANGED session /\ (Stores' <=> Stores) /\ SameSeen(session, Cache, Cache')
      /\ \/ answer' = Outside
         \/ /\ p \in Points(session)
            /\ answer' = [at |-> p, value |-> SeenAt(session, Cache, OffsetOf(session, p))]
  BY <1>1, ReadOK DEF SeenAt, OffsetOf
<1>3. Kept' BY <1>1, <1>2 DEF Kept, Stores
<1>4. Shown(session, Cache') = Shown(session, Cache)
  <2>1. \A q \in Points(session) : SeenAt(session, Cache', OffsetOf(session, q)) = SeenAt(session, Cache, OffsetOf(session, q))
    BY <1>1, <1>2, SamePoints
  <2> QED BY <2>1, Zenon DEF Shown
<1>5. p \in Points(session) => Shown(session, Cache)[p] = SeenAt(session, Cache, OffsetOf(session, p))
  BY DEF Shown
<1> QED BY <1>2, <1>3, <1>4, <1>5

\* A pixel written is that pixel alone.
LEMMA WriteShown ==
  ASSUME IInv, Kept, NEW p \in session.asked, NEW color \in Colors, disk_write_pixel(p[1], p[2], color)
  PROVE  /\ session' = session /\ Kept'
         /\ \/ answer' = Outside /\ Shown(session, Cache') = Shown(session, Cache)
            \/ /\ p \in Points(session) /\ answer' = [at |-> p, value |-> color]
               /\ Shown(session, Cache') = [Shown(session, Cache) EXCEPT ![p] = color]
<1>1. Stores /\ IsSession(session) BY SessionTypes DEF IInv, SessionOK, Kept, Stores
<1> DEFINE offset == OffsetOf(session, p)
<1>2. /\ UNCHANGED session /\ (Stores' <=> Stores)
      /\ \/ answer' = Outside /\ SameSeen(session, Cache, Cache')
         \/ /\ p \in Points(session) /\ answer' = [at |-> p, value |-> color]
            /\ IsDrawn(session, Cache, Cache', offset, color)
  BY <1>1, WriteOK DEF OffsetOf
<1>3. Kept' BY <1>1, <1>2 DEF Kept, Stores
<1>4. CASE answer' = Outside /\ SameSeen(session, Cache, Cache')
  <2>1. \A q \in Points(session) : SeenAt(session, Cache', OffsetOf(session, q)) = SeenAt(session, Cache, OffsetOf(session, q))
    BY <1>1, <1>4, SamePoints
  <2>2. Shown(session, Cache') = Shown(session, Cache) BY <2>1, Zenon DEF Shown
  <2> QED BY <1>2, <1>3, <1>4, <2>2
<1>5. CASE /\ p \in Points(session) /\ answer' = [at |-> p, value |-> color]
           /\ IsDrawn(session, Cache, Cache', offset, color)
  <2>1. ASSUME NEW q \in Points(session)
        PROVE  SeenAt(session, Cache', OffsetOf(session, q))
                  = IF q = p THEN color ELSE SeenAt(session, Cache, OffsetOf(session, q))
    <3> DEFINE other == OffsetOf(session, q)
               o == block_offset(other)
               i == block_index(other)
    <3>1. other \in Nat /\ other < Area(session) /\ offset \in Nat BY <1>1, <1>5, PointOffset DEF IsSession
    <3> HIDE DEF other, offset
    <3>2. o \in BlockStarts /\ i \in Indexes /\ other = o + i /\ offset = block_offset(offset) + block_index(offset)
      BY <3>1, BlockStart DEF Indexes
    <3>3. IsBlock(session, o)
      <4>1. o \in Nat /\ o <= other BY <3>2 DEF BlockStarts, Indexes
      <4>2. Area(session) \in Nat BY <1>1 DEF Area, IsSession, SessionType
      <4> QED BY <3>1, <3>2, <4>1, <4>2 DEF IsBlock, BlockStarts
    <3> HIDE DEF o, i
    <3>4. Seen(session, Cache', o, i) = IF o = block_offset(offset) /\ i = block_index(offset) THEN color
                                        ELSE Seen(session, Cache, o, i)
      BY <1>5, <3>2, <3>3, Zenon DEF IsDrawn
    <3>5. SeenAt(session, Cache', other) = Seen(session, Cache', o, i) /\ SeenAt(session, Cache, other) = Seen(session, Cache, o, i)
      BY Zenon DEF SeenAt, o, i
    <3>6. q = p <=> (o = block_offset(offset) /\ i = block_index(offset))
      <4>1. ASSUME q = p PROVE o = block_offset(offset) /\ i = block_index(offset) BY <4>1, Zenon DEF o, i, other, offset
      <4>2. ASSUME o = block_offset(offset), i = block_index(offset) PROVE q = p
        <5>1. other = offset BY <3>2, <4>2
        <5> QED BY <1>1, <1>5, <5>1, PointsDiffer DEF other, offset, IsSession
      <4> QED BY <4>1, <4>2
    <3> QED BY <3>4, <3>5, <3>6, Zenon DEF other
  <2>2. Shown(session, Cache') = [Shown(session, Cache) EXCEPT ![p] = color]
    BY <2>1 DEF Shown
  <2> QED BY <1>2, <1>3, <1>5, <2>2
<1> QED BY <1>2, <1>4, <1>5

\* What starts is the session asked for, or none.
LEMMA BeginsOrNot ==
  ASSUME NEW s, common_start_disk(s)
  PROVE  session' = s \/ session' = Closed
BY DEF common_start_disk

\* The disk video keeps pixels: between a session's start and its end a pixel reads as it was
\* last written, however the blocks come and go between the cache and the store
\* (find_load_cache, write_cache_lru, mem_seek, mem_putc, mem_getc).
THEOREM CacheImplementsPixelStore == QSpec => ImplementsPixelStore
<1>1. QInit => Pixels!Init
  BY DEF QInit, Init, Pixels!Init, Pixels!Closed, Pixels!NoAnswer, NoAnswer, Closed, Kept
<1>2. IInv /\ IInv' /\ [QNext]_allVars => [Pixels!Next]_(Pixels!vars)
  <2> SUFFICES ASSUME IInv, IInv', [QNext]_allVars PROVE [Pixels!Next]_(Pixels!vars)
    OBVIOUS
  <2>1. CASE ~Kept'
    <3>1. BarSession' = Closed /\ BarPixels' = <<>> /\ BarAnswer' = NoAnswer
      BY <2>1 DEF BarSession, BarPixels, BarAnswer
    <3>2. Pixels!Close
      BY <3>1 DEF Pixels!Close, Pixels!Closed, Pixels!NoAnswer, Closed, NoAnswer, BarSession, BarPixels, BarAnswer
    <3> QED BY <3>2 DEF Pixels!Next
  <2>2. CASE UNCHANGED allVars
    <3>1. BarSession' = BarSession /\ BarPixels' = BarPixels /\ BarAnswer' = BarAnswer
      <4>1. Cache' = Cache /\ session' = session /\ s_dv_handle' = s_dv_handle /\ answer' = answer
        BY <2>2 DEF allVars, vars, cacheVars, store, Cache
      <4>2. Kept' <=> Kept BY <4>1 DEF Kept
      <4> QED BY <4>1, <4>2, BarNow, BarNext DEF BarSession, BarPixels, BarAnswer
    <3> QED BY <3>1 DEF Pixels!vars, BarSession, BarPixels, BarAnswer
  <2>3. ASSUME Kept', QNext PROVE (\E s \in Sessions : Start(s)) \/ (Draw /\ Kept)
    <3>1. session' # Closed /\ session'.kind # "queue" BY <2>3 DEF Kept
    <3>2. ~QueueStep
      <4>1. ~init_queue
        <5>1. ASSUME init_queue PROVE FALSE
          <6>1. PICK size : common_start_disk(QueueSession(size)) BY <5>1 DEF init_queue
          <6>2. session' = QueueSession(size) \/ session' = Closed BY <6>1, BeginsOrNot
          <6>3. QueueSession(size).kind = "queue" BY DEF QueueSession
          <6> QED BY <3>1, <6>2, <6>3
        <5> QED BY <5>1
      <4>2. ~free_queue BY <3>1 DEF free_queue, end_disk
      <4>3. ~(QueueStep /\ session' = session)
        BY <3>1, <4>1, <4>2 DEF QueueStep, clear_queue, push_float, pop_float, dequeue_float, Queueing
      <4>4. QueueStep => init_queue \/ free_queue \/ session' = session
        BY DEF QueueStep, clear_queue, push_float, pop_float, dequeue_float, TakeNone, Take, vars
      <4> QED BY <4>1, <4>2, <4>3, <4>4
    <3>3. ~end_disk BY <3>1 DEF end_disk
    <3>4. (\E s \in Sessions : Start(s)) \/ Draw BY <2>3, <3>2, <3>3 DEF QNext, Others, Next, Session
    <3>5. ASSUME Draw PROVE Kept
      <4>1. PICK p \in session.asked : \/ disk_read_pixel(p[1], p[2])
                                       \/ \E color \in Colors : disk_write_pixel(p[1], p[2], color)
        BY <3>5 DEF Draw
      <4>2. UNCHANGED session /\ (Stores' <=> Stores) BY <4>1, ReadOK, WriteOK
      <4> QED BY <2>3, <4>2 DEF Kept, Stores
    <3> QED BY <3>4, <3>5
  <2>4. ASSUME Kept', NEW s \in Sessions, Start(s) PROVE Pixels!Next
    <3>1. IsSession(s) BY SessionTypes
    <3>2. common_start_disk(s) /\ answer' = NoAnswer BY <2>4 DEF Start
    <3>3. Stores' /\ session' # Closed BY <2>4 DEF Kept, Stores
    <3>4. session' = s /\ Cache'.m = StartStore(s) /\ \A o : IsBlock(s, o) => ~Has(Cache', o)
      BY <3>1, <3>2, <3>3, Begins
    <3>5. Shown(s, Cache') = Given(s) BY <3>1, <3>4, GivenShown
    <3>6. BarSession' = s /\ BarAnswer' = NoAnswer /\ BarPixels' = Given(s)
      BY <2>4, <3>2, <3>4, <3>5, BarNext
    <3>7. BarSession' # Closed /\ BarPixels' \in {Given(BarSession')} BY <3>3, <3>4, <3>6
    <3>8. Pixels!Open
      BY <3>6, <3>7, Zenon DEF Pixels!Open, Pixels!Closed, Pixels!NoAnswer, NoAnswer, Closed, BarSession, BarPixels, BarAnswer
    <3> QED BY <3>8 DEF Pixels!Next
  <2>5. ASSUME Kept, NEW p \in session.asked, disk_read_pixel(p[1], p[2]) PROVE Pixels!Next
    <3>1. /\ session' = session /\ Kept' /\ Shown(session, Cache') = Shown(session, Cache)
          /\ \/ answer' = Outside
             \/ p \in Points(session) /\ answer' = [at |-> p, value |-> Shown(session, Cache)[p]]
      BY <2>5, ReadShown
    <3>2. /\ BarSession = session /\ BarPixels = Shown(session, Cache) /\ BarAnswer' = answer'
          /\ BarSession' = BarSession /\ BarPixels' = BarPixels /\ BarSession # Closed
      BY <2>5, <3>1, BarNow, BarNext DEF Kept
    <3>3. CASE answer' = Outside
      <4>1. Pixels!Outside
        BY <3>2, <3>3 DEF Pixels!Outside, Pixels!Closed, Closed, Outside, BarSession, BarPixels, BarAnswer
      <4> QED BY <4>1 DEF Pixels!Next
    <3>4. CASE p \in Points(session) /\ answer' = [at |-> p, value |-> Shown(session, Cache)[p]]
      <4>1. p \in DOMAIN BarPixels /\ BarAnswer' = [at |-> p, value |-> BarPixels[p]] BY <3>2, <3>4 DEF Shown
      <4>2. Pixels!Read
        BY <3>2, <4>1 DEF Pixels!Read, Pixels!Closed, Closed, BarSession, BarPixels, BarAnswer
      <4> QED BY <4>2 DEF Pixels!Next
    <3> QED BY <3>1, <3>3, <3>4
  <2>6. ASSUME Kept, NEW p \in session.asked, NEW color \in Colors, disk_write_pixel(p[1], p[2], color) PROVE Pixels!Next
    <3>1. /\ session' = session /\ Kept'
          /\ \/ answer' = Outside /\ Shown(session, Cache') = Shown(session, Cache)
             \/ /\ p \in Points(session) /\ answer' = [at |-> p, value |-> color]
                /\ Shown(session, Cache') = [Shown(session, Cache) EXCEPT ![p] = color]
      BY <2>6, WriteShown
    <3>2. /\ BarSession = session /\ BarPixels = Shown(session, Cache) /\ BarAnswer' = answer'
          /\ BarSession' = BarSession /\ BarPixels' = Shown(session, Cache') /\ BarSession # Closed
      BY <2>6, <3>1, BarNow, BarNext DEF Kept
    <3>3. CASE answer' = Outside /\ Shown(session, Cache') = Shown(session, Cache)
      <4>1. Pixels!Outside
        BY <3>2, <3>3 DEF Pixels!Outside, Pixels!Closed, Closed, Outside, BarSession, BarPixels, BarAnswer
      <4> QED BY <4>1 DEF Pixels!Next
    <3>4. CASE /\ p \in Points(session) /\ answer' = [at |-> p, value |-> color]
               /\ Shown(session, Cache') = [Shown(session, Cache) EXCEPT ![p] = color]
      <4>1. p \in DOMAIN BarPixels /\ BarAnswer' = [at |-> p, value |-> color]
            /\ BarPixels' = [BarPixels EXCEPT ![p] = color] /\ color \in Colors \cup {0, FileByte}
        BY <3>2, <3>4 DEF Shown
      <4>2. Pixels!Write
        BY <3>2, <4>1 DEF Pixels!Write, Pixels!Closed, Closed, BarSession, BarPixels, BarAnswer
      <4> QED BY <4>2 DEF Pixels!Next
    <3> QED BY <3>1, <3>3, <3>4
  <2>7. CASE Kept' /\ QNext
    <3>1. CASE \E s \in Sessions : Start(s) BY <2>4, <2>7, <3>1
    <3>2. CASE Draw /\ Kept BY <2>5, <2>6, <3>2 DEF Draw
    <3> QED BY <2>3, <2>7, <3>1, <3>2
  <2> QED BY <2>1, <2>2, <2>7
<1> QED BY <1>1, <1>2, CacheIInv, PTL DEF QSpec, ImplementsPixelStore, Pixels!Spec

-----------------------------------------------------------------------------
\* The queue of points.  Its blocks are fewer than the entries of the cache, which takes an
\* entry that has had no block as long as there is one, in their order: none of its
\* blocks is given away, and what from_mem_disk takes for clean is not lost.
Fresh(n) == IsPreset(n) /\ ~n.lru
Ring(c) == \/ \A e \in Entries : ~IsPreset(c.entry[e])
           \/ \A e \in Entries : IF e \in 1 .. c.lru THEN ~IsPreset(c.entry[e]) ELSE Fresh(c.entry[e])

RingOK == Queueing /\ Stores => Ring(Cache)

\* The ring begins empty.
LEMMA EmptyRing == ASSUME NEW c, c.entry = NoEntries, c.lru = 0 PROVE Ring(c)
<1>1. \A e \in Entries : Fresh(c.entry[e]) BY NoneYet DEF Fresh, NoEntries
<1>2. 1 .. 0 = {} OBVIOUS
<1> QED BY <1>1, <1>2 DEF Ring

\* When every entry has had a block, each block of the session has an entry.
LEMMA AllBlocks ==
  ASSUME NEW s, IsSession(s), Area(s) <= NEntries * BLOCK_LEN, NEW c, Apart(c.entry), Held(s, c),
         \A e \in Entries : ~IsPreset(c.entry[e]), NEW o, IsBlock(s, o)
  PROVE  Has(c, o)
<1>1. PICK L \in Nat \ {0}, N \in Nat \ {0} : L = BLOCK_LEN /\ N = NEntries BY BlockAssumption, CacheAssumption
<1>2. Area(s) \in Nat BY DEF Area, IsSession, SessionType
<1>3. ASSUME NEW b, IsBlock(s, b) PROVE b \div L \in 0 .. N - 1 /\ b = (b \div L) * L
  <2>1. b \in Nat /\ b % L = 0 /\ b < N * L BY <1>1, <1>2, <1>3 DEF IsBlock
  <2>2. PICK q \in Nat : q = b \div L BY <2>1, <1>1
  <2>3. b = q * L BY <2>1, <2>2, <1>1
  <2>4. q < N
    <3>1. CASE N = q BY <2>1, <2>3, <3>1
    <3>2. CASE N < q
      <4>1. N * L + L <= q * L BY <3>2, Factors
      <4>2. N * L \in Nat /\ q * L \in Nat BY <1>1
      <4> QED BY <1>1, <2>1, <2>3, <4>1, <4>2
    <3> QED BY <3>1, <3>2
  <2> QED BY <2>2, <2>3, <2>4
<1> DEFINE f == [e \in Entries |-> c.entry[e].offset \div L]
<1>4. \A e \in Entries : IsBlock(s, c.entry[e].offset) BY DEF Held, IsKnown, IsReal
<1>5. f \in [Entries -> Entries] BY <1>1, <1>3, <1>4 DEF Entries
<1>6. \A d, e \in Entries : f[d] = f[e] => d = e
  <2> SUFFICES ASSUME NEW d \in Entries, NEW e \in Entries, f[d] = f[e] PROVE d = e
    OBVIOUS
  <2>1. c.entry[d].offset = f[d] * L /\ c.entry[e].offset = f[e] * L BY <1>3, <1>4
  <2> QED BY <2>1 DEF Apart
<1> HIDE DEF f
<1>7. f \in Injection(Entries, Entries) BY <1>5, <1>6 DEF Injection, IsInjective
<1>8. IsFiniteSet(Entries) BY FS_Interval, CacheAssumption DEF Entries
<1>9. f \in Surjection(Entries, Entries) BY <1>7, <1>8, FS_Injection
<1>10. o \div L \in Entries BY <1>1, <1>3 DEF Entries
<1>11. PICK e \in Entries : f[e] = o \div L BY <1>9, <1>10 DEF Surjection
<1>12. c.entry[e].offset = f[e] * L BY <1>3, <1>4 DEF f
<1>13. c.entry[e].offset = o BY <1>3, <1>11, <1>12
<1> QED BY <1>13 DEF Has

\* The hand goes on by one when the next entry is not marked.
LEMMA TurnedOnce ==
  ASSUME NEW c, Sound(c), ~c.entry[After(c.lru, 1)].lru
  PROVE  Turned(c).lru = After(c.lru, 1) /\ \A e \in Entries : Turned(c).entry[e].lru = c.entry[e].lru
<1> DEFINE S == {k \in 1 .. NEntries : ~c.entry[After(c.lru, k)].lru} \cup {NEntries + 1}
           n == Min(S)
           passed == {After(c.lru, k) : k \in 1 .. n - 1}
           t == Turned(c)
<1>1. n = 1
  <2>1. S \subseteq Nat /\ 1 \in S /\ \A k \in S : k >= 1 BY CacheAssumption
  <2>2. S # {} BY <2>1
  <2> HIDE DEF S
  <2>3. Min(S) \in S /\ Min(S) <= 1 BY <2>1, <2>2, LeastMember
  <2>4. Min(S) \in Nat /\ Min(S) >= 1 BY <2>1, <2>3, Zenon
  <2> QED BY <2>3, <2>4
<1>2. t = [c EXCEPT !.lru = After(c.lru, n),
                  !.entry = [e \in Entries |-> [c.entry[e] EXCEPT !.lru = @ /\ e \notin passed]]]
  BY Zenon DEF Turned
<1>3. passed = {} BY <1>1
<1> HIDE DEF n, passed, t
<1>4. t.lru = After(c.lru, n) /\ t.entry = [e \in Entries |-> [c.entry[e] EXCEPT !.lru = c.entry[e].lru /\ e \notin passed]]
  BY <1>2 DEF Sound, IsCache
<1>5. ASSUME NEW e \in Entries PROVE t.entry[e].lru = c.entry[e].lru
  <2>1. IsEntry(c.entry[e]) BY DEF Sound, IsCache, AreEntries
  <2>2. t.entry[e] = [c.entry[e] EXCEPT !.lru = c.entry[e].lru /\ e \notin passed] BY <1>4
  <2>3. c.entry[e].lru \in BOOLEAN BY <2>1 DEF IsEntry
  <2>4. t.entry[e].lru = (c.entry[e].lru /\ e \notin passed) BY <2>1, <2>2 DEF IsEntry
  <2> QED BY <1>3, <2>3, <2>4
<1> QED BY <1>1, <1>4, <1>5 DEF t

\* Where the marks and the offsets are the same so is the ring.
LEMMA SameRing ==
  ASSUME NEW c, NEW d, Ring(c), d.lru = c.lru,
         \A e \in Entries : /\ d.entry[e].offset = c.entry[e].offset
                            /\ IsPreset(c.entry[e]) => d.entry[e] = c.entry[e]
                            /\ ~IsPreset(c.entry[e]) => ~IsPreset(d.entry[e])
  PROVE  Ring(d)
BY DEF Ring, Fresh

\* A block that is sought keeps the ring, and nothing that is seen changes.
LEMMA FindRing ==
  ASSUME IsSession(session), Area(session) <= NEntries * BLOCK_LEN,
         NEW c0, Sound(c0), Held(session, c0), Ring(c0), NEW offset, IsBlock(session, offset)
  PROVE  LET r == find_load_cache(c0, offset)
         IN  Ring(r) /\ SameSeen(session, c0, r)
<1> DEFINE c == [c0 EXCEPT !.curOffset = offset]
           t == Turned(c)
           w == IF t.entry[t.lru].dirty THEN write_cache_lru(t) ELSE t
           ev == Evicted(w)
           l == Loaded(ev, offset)
           r == Chained(l)
<1>0. offset \in BlockStarts /\ offset % BLOCK_LEN = 0 BY DEF IsBlock, BlockStarts
<1>1. Sound(c) /\ c.curOffset = offset /\ SameContent(c0, c) /\ c.entry = c0.entry /\ c.lru = c0.lru
  BY <1>0 DEF Sound, IsCache, OnChain, Apart, SameContent
<1>2. Held(session, c) /\ SameSeen(session, c0, c) /\ Ring(c) BY <1>1, SameHeld DEF Sound, Ring
<1> HIDE DEF c
<1>3. hash_index(offset) \in Chains
  BY <1>0, HashRange DEF BlockStarts
<1>4. CASE Holders(c, offset) # {}
  <2> DEFINE e == CHOOSE e \in Holders(c, offset) : TRUE
             h == [c EXCEPT !.cur = e, !.entry[e].lru = TRUE]
  <2>1. e \in Entries /\ c.entry[e].offset = offset
    BY <1>1, <1>3, <1>4 DEF Holders, Sound, IsCache
  <2>2. find_load_cache(c0, offset) = h
    BY <1>4, Zenon DEF find_load_cache, c, e
  <2> HIDE DEF e
  <2>3. SameContent(c, h)
    BY <1>1, <2>1 DEF Sound, IsCache, AreEntries, IsEntry, SameContent
  <2>4. h.lru = c.lru /\ \A g \in Entries : g # e => h.entry[g] = c.entry[g]
    BY <1>1, <2>1 DEF Sound, IsCache, AreEntries
  <2> HIDE DEF h
  <2>5. SameSeen(session, c, h) BY <1>1, <1>2, <2>3, SameHeld DEF Sound
  <2>6. ~IsPreset(c.entry[e]) /\ ~IsPreset(h.entry[e]) /\ h.entry[e].offset = c.entry[e].offset
    BY <1>0, <2>1, <2>3 DEF IsPreset, SameContent
  <2>7. Ring(h) BY <1>2, <2>4, <2>6, SameRing
  <2> QED BY <1>2, <2>2, <2>5, <2>7 DEF SameSeen
<1>5. CASE Holders(c, offset) = {}
  <2>1. \A e \in Entries : c.entry[e].offset # offset
    BY <1>1, <1>3, <1>5 DEF Holders, Sound, OnChain
  <2>2. \A e \in Entries : IF e \in 1 .. c.lru THEN ~IsPreset(c.entry[e]) ELSE Fresh(c.entry[e])
    <3>1. ~Has(c, offset) BY <2>1 DEF Has
    <3>2. ~ \A e \in Entries : ~IsPreset(c.entry[e]) BY <1>1, <1>2, <3>1, AllBlocks DEF Sound
    <3> QED BY <1>2, <3>2 DEF Ring
  <2> DEFINE next == After(c.lru, 1)
  <2>3. next \in Entries /\ c.lru \in Entries /\ next = IF c.lru = NEntries - 1 THEN 0 ELSE c.lru + 1
    <3>1. c.lru \in Entries BY <1>1 DEF Sound, IsCache
    <3>2. PICK N \in Nat \ {0}, k \in Nat : N = NEntries /\ k = c.lru /\ k < N BY <3>1, CacheAssumption DEF Entries
    <3>3. (k + 1) % N = IF k = N - 1 THEN 0 ELSE k + 1 BY <3>2
    <3>4. next = IF c.lru = NEntries - 1 THEN 0 ELSE c.lru + 1 BY <3>2, <3>3 DEF After
    <3> QED BY <3>1, <3>2, <3>4 DEF Entries
  <2> HIDE DEF next
  <2>4. Fresh(c.entry[next])
    <3>1. next \notin 1 .. c.lru BY <2>3, CacheAssumption DEF Entries
    <3> QED BY <2>2, <2>3, <3>1
  <2>5. Sound(t) /\ SameContent(c, t)
    BY <1>1, TurnedSound, TurnedContent, Zenon
  <2>6. t.lru = next /\ \A e \in Entries : t.entry[e].lru = c.entry[e].lru
    <3>1. ~c.entry[After(c.lru, 1)].lru BY <2>4 DEF Fresh, next
    <3>2. t.lru = After(c.lru, 1) /\ \A e \in Entries : t.entry[e].lru = c.entry[e].lru
      BY <1>1, <3>1, TurnedOnce
    <3> QED BY <3>2, Zenon DEF next
  <2> HIDE DEF t
  <2>7. Held(session, t) /\ SameSeen(session, c, t) BY <1>1, <1>2, <2>5, SameHeld DEF Sound
  <2>8. IsPreset(t.entry[next]) BY <2>3, <2>4, <2>5 DEF Fresh, IsPreset, SameContent
  <2>9. w = t BY <2>6, <2>8 DEF IsPreset
  <2> HIDE DEF w
  <2>10. IsCache(ev) /\ ev.lru = next /\ ev.entry = t.entry /\ SameContent(t, ev)
    <3>1. Sound(w) BY <2>5, <2>9
    <3>2. IsCache(ev) /\ ev.lru = w.lru /\ ev.entry = w.entry /\ SameContent(w, ev)
      BY <3>1, HashRange DEF Evicted, Sound, IsCache, AreEntries, IsEntry, SameContent
    <3> HIDE DEF ev
    <3> QED BY <2>6, <2>9, <3>2
  <2> HIDE DEF ev
  <2>11. Held(session, ev) /\ SameSeen(session, t, ev) /\ Apart(ev.entry)
    BY <2>5, <2>7, <2>10, SameHeld DEF Sound
  <2>12. ~Has(ev, offset) BY <2>1, <2>5, <2>10 DEF Has, SameContent
  <2>13. ~ev.entry[ev.lru].dirty /\ IsPreset(ev.entry[ev.lru]) BY <2>8, <2>10 DEF IsPreset
  <2>14. Held(session, l) /\ SameSeen(session, ev, l)
    BY <2>10, <2>11, <2>12, <2>13, LoadHeld
  <2>15. PICK pixel \in PixelsOf(session) : IsLoaded(ev, offset, l, pixel) BY <2>10, <2>11, LoadedPixels
  <2>16. /\ l.entry[next].offset = offset
         /\ \A e \in Entries : e # next => l.entry[e] = ev.entry[e]
    BY <2>3, <2>10, <2>15 DEF IsLoaded, IsCache, AreEntries
  <2>17. IsCache(l) /\ l.lru = next
    BY <1>0, <2>10, LoadedEntry
  <2> HIDE DEF l
  <2>18. Apart(l.entry)
    BY <2>11, <2>12, <2>16 DEF Apart, Has
  <2>19. SameContent(l, r) /\ r.lru = next /\ r.entry = l.entry BY <2>17 DEF SameContent, Chained, IsCache
  <2> HIDE DEF r
  <2>20. SameSeen(session, l, r) BY <2>14, <2>18, <2>19, SameHeld
  <2>21. find_load_cache(c0, offset) = r
    BY <1>5, Zenon DEF find_load_cache, c, t, w, ev, l, r
  <2>22. SameSeen(session, c0, r)
    BY <1>2, <2>7, <2>11, <2>14, <2>20 DEF SameSeen
  <2>23. ~IsPreset(r.entry[next]) BY <1>0, <2>16, <2>19 DEF IsPreset
  <2>24. ASSUME NEW e \in Entries, e # next PROVE (IsPreset(r.entry[e]) <=> IsPreset(c.entry[e])) /\ r.entry[e].lru = c.entry[e].lru
    BY <2>5, <2>6, <2>10, <2>16, <2>19, <2>24 DEF IsPreset, SameContent
  <2>25. CASE next = 0
    <3>1. c.lru = NEntries - 1 BY <2>3, <2>25 DEF Entries
    <3>2. \A e \in Entries : e # next => e \in 1 .. c.lru BY <2>25, <3>1, CacheAssumption DEF Entries
    <3>3. \A e \in Entries : ~IsPreset(r.entry[e]) BY <2>2, <2>23, <2>24, <3>2
    <3> QED BY <2>21, <2>22, <3>3 DEF Ring
  <2>26. CASE next # 0
    <3>1. next = c.lru + 1 /\ c.lru \in Nat BY <2>3, <2>26 DEF Entries
    <3>2. ASSUME NEW e \in Entries PROVE IF e \in 1 .. r.lru THEN ~IsPreset(r.entry[e]) ELSE Fresh(r.entry[e])
      <4>1. CASE e = next BY <2>19, <2>23, <3>1, <4>1
      <4>2. CASE e # next
        <5>1. e \in 1 .. r.lru <=> e \in 1 .. c.lru BY <2>19, <3>1, <4>2 DEF Entries
        <5> QED BY <2>2, <2>24, <4>2, <5>1 DEF Fresh
      <4> QED BY <4>1, <4>2
    <3> QED BY <2>21, <2>22, <3>2 DEF Ring
  <2> QED BY <2>25, <2>26
<1> QED BY <1>4, <1>5

\* The ring has room in the cache.
LEMMA QueueArea == ASSUME IInv, Queueing PROVE Area(session) <= NEntries * BLOCK_LEN
<1>1. PICK size \in 1 .. Request : session = QueueSession(size) BY DEF IInv, QueueOK
<1>2. Area(session) = size * CELLS BY <1>1, QueueSessions
<1>3. PICK k \in Int : k = NEntries * BLOCK_LEN BY BlockAssumption, CacheAssumption
<1>4. size * CELLS <= k BY <1>3, QueueAssumption DEF CELLS
<1> QED BY <1>2, <1>3, <1>4

\* The block of a slot is found, with all that is seen as it was: the queue that marks
\* its blocks clean loses none of them.
LEMMA FoundRing ==
  ASSUME IInv, Queueing, Stores, Ring(Cache), NEW offset \in Nat, offset < Area(session)
  PROVE  Ring(Found(offset)) /\ SameSeen(session, Cache, Found(offset))
<1>1. CASE s_cur_offset = block_offset(offset)
  <2>1. Found(offset) = Cache BY <1>1, Zenon DEF Found
  <2>2. SameSeen(session, Cache, Cache) BY DEF SameSeen
  <2> QED BY <2>1, <2>2, Zenon
<1>2. CASE s_cur_offset # block_offset(offset)
  <2> DEFINE r == find_load_cache(Cache, block_offset(offset))
  <2>1. IsSession(session) /\ session # Closed /\ Sound(Cache) /\ Held(session, Cache)
    BY SessionTypes DEF IInv, SessionOK, HeldOK, Stores
  <2>2. IsBlock(session, block_offset(offset)) BY <2>1, FoundOK
  <2>3. Ring(r) /\ SameSeen(session, Cache, r) BY <2>1, <2>2, QueueArea, FindRing
  <2>4. Found(offset) = r BY <1>2, Zenon DEF Found
  <2> QED BY <2>3, <2>4, Zenon
<1> QED BY <1>1, <1>2

\* A block that is altered is in the ring as before.
LEMMA AlteredRing ==
  ASSUME NEW c, NEW o, FoundAt(c, o), o % BLOCK_LEN = 0, Ring(c), NEW pixel, NEW dirty \in BOOLEAN
  PROVE  Ring(Altered(c, pixel, dirty))
<1> DEFINE d == Altered(c, pixel, dirty)
<1>1. c.cur \in Entries /\ d.entry = [c.entry EXCEPT ![c.cur].dirty = dirty, ![c.cur].pixel = pixel] /\ d.lru = c.lru
  BY DEF FoundAt, Sound, IsCache, Altered
<1> HIDE DEF d
<1>2. \A e \in Entries : e # c.cur => d.entry[e] = c.entry[e]
  BY <1>1 DEF FoundAt, Sound, IsCache, AreEntries
<1>3. d.entry[c.cur].offset = o /\ c.entry[c.cur].offset = o
  <2> DEFINE x == c.entry[c.cur]
  <2>1. IsEntry(x) /\ x.offset = o BY <1>1 DEF FoundAt, Sound, IsCache, AreEntries
  <2>2. d.entry[c.cur] = [x EXCEPT !.dirty = dirty, !.pixel = pixel]
    BY <1>1, <2>1 DEF FoundAt, Sound, IsCache, AreEntries, IsEntry
  <2> HIDE DEF x
  <2>3. d.entry[c.cur].offset = x.offset BY <2>1, <2>2 DEF IsEntry
  <2> QED BY <2>1, <2>3 DEF x
<1>4. ~IsPreset(c.entry[c.cur]) /\ ~IsPreset(d.entry[c.cur]) BY <1>3 DEF IsPreset
<1>5. Ring(d) BY <1>1, <1>2, <1>3, <1>4, SameRing
<1> QED BY <1>5 DEF d

\* A point lies in one block.
LEMMA TwoCells ==
  ASSUME NEW offset \in Nat, Fits(offset, CELLS)
  PROVE  /\ block_offset(offset + 1) = block_offset(offset)
         /\ block_index(offset + 1) = block_index(offset) + 1
         /\ block_index(offset) \in Indexes /\ block_index(offset) + 1 \in Indexes
<1>1. PICK q \in Nat, i \in 0 .. BLOCK_LEN - 1 : offset = q * BLOCK_LEN + i /\ i = offset % BLOCK_LEN
  BY AddressPlace
<1>2. block_index(offset) = i /\ i + 1 \in 0 .. BLOCK_LEN - 1
  BY <1>1, BlockAssumption DEF block_index, Fits, CELLS
<1>3. PICK k \in Int : k = q * BLOCK_LEN BY BlockAssumption
<1>4. offset + 1 = q * BLOCK_LEN + (i + 1) BY <1>1, <1>2, <1>3
<1>5. (offset + 1) % BLOCK_LEN = i + 1 BY <1>2, <1>4, BlockPlace
<1>6. block_offset(offset + 1) = block_offset(offset) /\ block_index(offset + 1) = i + 1
  BY <1>1, <1>2, <1>5 DEF block_offset, block_index
<1> QED BY <1>1, <1>2, <1>6 DEF Indexes

\* The block and the place of an offset within the session.
LEMMA OffsetPlace ==
  ASSUME NEW s, IsSession(s), NEW offset \in Nat, offset < Area(s)
  PROVE  /\ IsBlock(s, block_offset(offset)) /\ block_index(offset) \in Indexes
         /\ block_offset(offset) \in Nat /\ offset = block_offset(offset) + block_index(offset)
<1> DEFINE o == block_offset(offset)
           i == block_index(offset)
<1>1. o \in BlockStarts /\ i \in Indexes /\ offset = o + i BY BlockStart DEF Indexes
<1> HIDE DEF o, i
<1>2. o \in Nat /\ o <= offset BY <1>1 DEF BlockStarts, Indexes
<1>3. Area(s) \in Nat BY DEF Area, IsSession, SessionType
<1>4. IsBlock(s, o) BY <1>1, <1>2, <1>3 DEF IsBlock, BlockStarts
<1> QED BY <1>1, <1>2, <1>4 DEF o, i

\* What is seen after a block was found and altered.
LEMMA AlteredSeen ==
  ASSUME IInv, Queueing, Stores, Ring(Cache), NEW offset \in Nat, offset < Area(session),
         NEW pixel, NEW dirty \in BOOLEAN, IsAltered(Found(offset), Cache', block_offset(offset), pixel, dirty)
  PROVE  /\ Ring(Cache')
         /\ \A i \in Indexes : Found(offset).entry[Found(offset).cur].pixel[i] = Seen(session, Cache, block_offset(offset), i)
         /\ \A q \in Nat : q < Area(session) =>
               SeenAt(session, Cache', q) = IF block_offset(q) = block_offset(offset) THEN pixel[block_index(q)]
                                            ELSE SeenAt(session, Cache, q)
<1> DEFINE f == Found(offset)
           o == block_offset(offset)
<1>0. IsSession(session) /\ session # Closed BY SessionTypes DEF IInv, SessionOK, Stores
<1>1. Ring(f) /\ SameSeen(session, Cache, f) BY FoundRing
<1>2. FoundAt(f, o) /\ IsBlock(session, o) /\ \A i \in Indexes : f.entry[f.cur].pixel[i] = Seen(session, f, o, i)
  BY <1>0, FoundOK
<1>3. /\ Cache' = Altered(f, pixel, dirty)
      /\ \A q, i : IsBlock(session, q) /\ i \in Indexes =>
            Seen(session, Cache', q, i) = IF q = o THEN pixel[i] ELSE Seen(session, f, q, i)
  BY Zenon DEF IsAltered
<1> HIDE DEF f, o
<1>4. o % BLOCK_LEN = 0 BY <1>2 DEF IsBlock
<1>5. Ring(Cache') BY <1>1, <1>2, <1>3, <1>4, AlteredRing
<1>6. \A i \in Indexes : f.entry[f.cur].pixel[i] = Seen(session, Cache, o, i) BY <1>1, <1>2 DEF SameSeen
<1>7. ASSUME NEW q \in Nat, q < Area(session)
      PROVE  SeenAt(session, Cache', q) = IF block_offset(q) = o THEN pixel[block_index(q)] ELSE SeenAt(session, Cache, q)
  <2>1. IsBlock(session, block_offset(q)) /\ block_index(q) \in Indexes BY <1>0, <1>7, OffsetPlace
  <2>2. Seen(session, f, block_offset(q), block_index(q)) = Seen(session, Cache, block_offset(q), block_index(q))
    BY <1>1, <2>1, Zenon DEF SameSeen
  <2> QED BY <1>3, <2>1, <2>2, Zenon DEF SeenAt
<1> QED BY <1>5, <1>6, <1>7 DEF f, o

\* Two cells with the values, and the rest as it was.
IsPutAt(c, d, offset, values) ==
    \A q \in Nat : q < Area(session) =>
        SeenAt(session, d, q) = IF q = offset THEN values[1] ELSE IF q = offset + 1 THEN values[2] ELSE SeenAt(session, c, q)

LEMMA PushSeen ==
  ASSUME IInv, Queueing, Stores, Ring(Cache), NEW slot \in Nat, slot < s_list_size, NEW p \in PointsPut,
         to_mem_disk(CELLS * slot, <<p[1], p[2]>>), UNCHANGED session
  PROVE  Ring(Cache') /\ IsPutAt(Cache, Cache', CELLS * slot, <<p[1], p[2]>>)
<1> DEFINE offset == CELLS * slot
           values == <<p[1], p[2]>>
           f == Found(offset)
           o == block_offset(offset)
           x == block_index(offset)
           old == f.entry[f.cur].pixel
           new == WithValues(old, x, values)
<1>0. IsSession(session) /\ offset \in Nat /\ offset < Area(session) BY SlotType
<1>1. IsAltered(f, Cache', o, new, TRUE) BY ToOK
<1>2. Fits(offset, CELLS)
  <2>1. Len(values) = CELLS BY DEF CELLS
  <2> QED BY <2>1, Zenon DEF to_mem_disk
<1> HIDE DEF offset, values
<1>3. /\ Ring(Cache') /\ \A i \in Indexes : old[i] = Seen(session, Cache, o, i)
      /\ \A q \in Nat : q < Area(session) =>
            SeenAt(session, Cache', q) = IF block_offset(q) = o THEN new[block_index(q)] ELSE SeenAt(session, Cache, q)
  BY <1>0, <1>1, AlteredSeen
<1>4. block_offset(offset + 1) = o /\ block_index(offset + 1) = x + 1 /\ x \in Indexes /\ x + 1 \in Indexes
      /\ o \in Nat /\ offset = o + x
  BY <1>0, <1>2, TwoCells, OffsetPlace
<1> HIDE DEF f, o, x, old
<1>5. ASSUME NEW q \in Nat, q < Area(session)
      PROVE  SeenAt(session, Cache', q)
                = IF q = offset THEN values[1] ELSE IF q = offset + 1 THEN values[2] ELSE SeenAt(session, Cache, q)
  <2> DEFINE i == block_index(q)
  <2>1. i \in Indexes /\ block_offset(q) \in Nat /\ q = block_offset(q) + i BY <1>0, <1>5, OffsetPlace
  <2>2. CASE block_offset(q) # o
    <3>1. q # offset /\ q # offset + 1 BY <1>4, <2>2 DEF o
    <3> QED BY <1>3, <1>5, <2>2, <3>1
  <2>3. CASE block_offset(q) = o
    <3>1. SeenAt(session, Cache', q) = new[i] BY <1>3, <1>5, <2>3
    <3> HIDE DEF i, new
    <3>2. new[i] = IF i - x + 1 \in 1 .. CELLS THEN values[i - x + 1] ELSE old[i]
      BY <2>1 DEF new, WithValues
    <3>3. old[i] = SeenAt(session, Cache, q) BY <1>3, <2>1, <2>3 DEF SeenAt, i
    <3>4. i \in Int /\ x \in Int BY <1>4, <2>1 DEF Indexes
    <3>5. CASE q = offset
      <4>1. i - x + 1 = 1 BY <1>4, <2>1, <2>3, <3>4, <3>5
      <4> QED BY <3>1, <3>2, <3>5, <4>1 DEF CELLS
    <3>6. CASE q = offset + 1
      <4>1. i - x + 1 = 2 BY <1>4, <2>1, <2>3, <3>4, <3>6
      <4> QED BY <1>0, <3>1, <3>2, <3>6, <4>1 DEF CELLS
    <3>7. CASE q # offset /\ q # offset + 1
      <4>1. i - x + 1 \notin 1 .. CELLS BY <1>4, <2>1, <2>3, <3>4, <3>7 DEF CELLS
      <4> QED BY <3>1, <3>2, <3>3, <3>7, <4>1
    <3> QED BY <3>5, <3>6, <3>7
  <2> QED BY <2>2, <2>3
<1>6. IsPutAt(Cache, Cache', offset, values) BY <1>5, Zenon DEF IsPutAt
<1> QED BY <1>3, <1>6 DEF offset, values

\* What is taken is what is seen, which stays as it is.
IsSameAt(c, d) == \A q \in Nat : q < Area(session) => SeenAt(session, d, q) = SeenAt(session, c, q)

LEMMA TakeSeen ==
  ASSUME IInv, Queueing, Stores, Ring(Cache), NEW slot \in Nat, slot < s_list_size,
         from_mem_disk(CELLS * slot, CELLS), UNCHANGED session
  PROVE  /\ Ring(Cache') /\ IsSameAt(Cache, Cache')
         /\ answer'.value[1] = SeenAt(session, Cache, CELLS * slot)
         /\ answer'.value[2] = SeenAt(session, Cache, CELLS * slot + 1)
<1> DEFINE offset == CELLS * slot
           f == Found(offset)
           o == block_offset(offset)
           x == block_index(offset)
           old == f.entry[f.cur].pixel
<1>0. IsSession(session) /\ offset \in Nat /\ offset < Area(session) BY SlotType
<1>1. IsAltered(f, Cache', o, old, FALSE) BY FromOK
<1>2. Fits(offset, CELLS) BY Zenon DEF from_mem_disk
<1>a. answer'.value = [k \in 1 .. CELLS |-> old[x + k - 1]]
  <2>1. answer' = [at |-> <<offset>>, value |-> [k \in 1 .. CELLS |-> old[x + k - 1]]] BY Zenon DEF from_mem_disk
  <2> HIDE DEF offset, f, x, old
  <2> QED BY <2>1
<1> HIDE DEF offset
<1>3. /\ Ring(Cache') /\ \A i \in Indexes : old[i] = Seen(session, Cache, o, i)
      /\ \A q \in Nat : q < Area(session) =>
            SeenAt(session, Cache', q) = IF block_offset(q) = o THEN old[block_index(q)] ELSE SeenAt(session, Cache, q)
  BY <1>0, <1>1, AlteredSeen
<1>4. block_offset(offset + 1) = o /\ block_index(offset + 1) = x + 1 /\ x \in Indexes /\ x + 1 \in Indexes
  BY <1>0, <1>2, TwoCells, OffsetPlace
<1>5. ASSUME NEW q \in Nat, q < Area(session) PROVE SeenAt(session, Cache', q) = SeenAt(session, Cache, q)
  <2>1. block_index(q) \in Indexes BY <1>0, <1>5, OffsetPlace
  <2> QED BY <1>3, <1>5, <2>1, Zenon DEF SeenAt
<1>6. IsSameAt(Cache, Cache') BY <1>5, Zenon DEF IsSameAt
<1> HIDE DEF old, f
<1>7. answer'.value[1] = old[x] /\ answer'.value[2] = old[x + 1]
  <2>1. x \in Int BY <1>4 DEF Indexes
  <2>2. x + 1 - 1 = x /\ x + 2 - 1 = x + 1 BY <2>1
  <2> HIDE DEF x
  <2> QED BY <1>a, <2>2 DEF CELLS
<1>8. answer'.value[1] = SeenAt(session, Cache, offset) BY <1>3, <1>4, <1>7, Zenon DEF SeenAt, o, x
<1>9. answer'.value[2] = SeenAt(session, Cache, offset + 1) BY <1>3, <1>4, <1>7, Zenon DEF SeenAt
<1> QED BY <1>3, <1>6, <1>8, <1>9 DEF offset

-----------------------------------------------------------------------------
\* The ends of the ring.

\* A number a little outside the ring comes back into it.
LEMMA Wraps ==
  ASSUME NEW n \in Nat \ {0}, NEW x \in Int
  PROVE  /\ x \in 0 .. n - 1 => x % n = x
         /\ x - n \in 0 .. n - 1 => x % n = x - n
         /\ x + n \in 0 .. n - 1 => x % n = x + n
OBVIOUS

CountOf(front, back, n) == IF front >= back THEN front - back ELSE front - back + n
SlotOf(back, n, i) == IF back + i - 1 < n THEN back + i - 1 ELSE back + i - 1 - n
Onward(i, n) == IF i + 1 = n THEN 0 ELSE i + 1

LEMMA RingEnds ==
  ASSUME NEW n \in Nat \ {0}, NEW front \in 0 .. n - 1, NEW back \in 0 .. n - 1
  PROVE  /\ (front - back) % n = CountOf(front, back, n) /\ CountOf(front, back, n) \in 0 .. n - 1
         /\ (front + 1) % n = Onward(front, n) /\ (back + 1) % n = Onward(back, n)
         /\ \A i \in 1 .. n : /\ (back + i - 1) % n = SlotOf(back, n, i)
                              /\ SlotOf(back, n, i) \in 0 .. n - 1
<1>1. (front - back) % n = CountOf(front, back, n) /\ CountOf(front, back, n) \in 0 .. n - 1
  <2>1. PICK x \in Int : x = front - back OBVIOUS
  <2>2. CASE front >= back BY <2>1, <2>2, Wraps DEF CountOf
  <2>3. CASE ~(front >= back)
    <3>1. x + n \in 0 .. n - 1 BY <2>1, <2>3
    <3>2. x % n = x + n BY <3>1, Wraps
    <3> QED BY <2>1, <2>3, <3>1, <3>2 DEF CountOf
  <2> QED BY <2>2, <2>3
<1>2. (front + 1) % n = Onward(front, n) /\ (back + 1) % n = Onward(back, n)
  BY Wraps DEF Onward
<1>3. ASSUME NEW i \in 1 .. n PROVE (back + i - 1) % n = SlotOf(back, n, i) /\ SlotOf(back, n, i) \in 0 .. n - 1
  <2>1. PICK x \in Int : x = back + i - 1 OBVIOUS
  <2>2. CASE x < n
    <3>1. x \in 0 .. n - 1 BY <2>1, <2>2
    <3>2. x % n = x BY <3>1, Wraps
    <3> QED BY <2>1, <2>2, <3>1, <3>2 DEF SlotOf
  <2>3. CASE ~(x < n)
    <3>1. x - n \in 0 .. n - 1 BY <2>1, <2>3
    <3>2. x % n = x - n BY <3>1, Wraps
    <3> QED BY <2>1, <2>3, <3>1, <3>2 DEF SlotOf
  <2> QED BY <2>2, <2>3
<1> QED BY <1>1, <1>2, <1>3

\* A list of n things, and what is done to it at its ends.
IsList(u, n) == u = [i \in 1 .. n |-> u[i]]

LEMMA ListSeq ==
  ASSUME NEW n \in Nat, NEW u, IsList(u, n), NEW S, \A i \in 1 .. n : u[i] \in S
  PROVE  u \in Seq(S) /\ Len(u) = n
BY DEF IsList

LEMMA ListAppend ==
  ASSUME NEW n \in Nat, NEW u, IsList(u, n), NEW v, IsList(v, n + 1), \A i \in 1 .. n : v[i] = u[i]
  PROVE  v = Append(u, v[n + 1]) /\ Len(u) = n
<1> DEFINE S == {v[i] : i \in 1 .. n + 1}
<1>2. n + 1 \in Nat /\ (\A i \in 1 .. n + 1 : v[i] \in S) /\ \A i \in 1 .. n : u[i] \in S OBVIOUS
<1> HIDE DEF S
<1>1. v \in Seq(S) /\ Len(v) = n + 1 BY <1>2, ListSeq
<1>3. u \in Seq(S) /\ Len(u) = n BY <1>2, ListSeq
<1>4. v[n + 1] \in S BY <1>2
<1>5. /\ Append(u, v[n + 1]) \in Seq(S) /\ Len(Append(u, v[n + 1])) = n + 1
      /\ \A i \in 1 .. n : Append(u, v[n + 1])[i] = u[i]
      /\ Append(u, v[n + 1])[n + 1] = v[n + 1]
  BY <1>3, <1>4, AppendProperties
<1>6. \A i \in 1 .. n + 1 : v[i] = Append(u, v[n + 1])[i] BY <1>5
<1> QED BY <1>1, <1>3, <1>5, <1>6, SeqEqual

LEMMA ListTail ==
  ASSUME NEW n \in Nat, NEW u, IsList(u, n + 1), NEW v, IsList(v, n), \A i \in 1 .. n : v[i] = u[i + 1]
  PROVE  u # <<>> /\ v = Tail(u) /\ u[1] = Head(u)
<1> DEFINE S == {u[i] : i \in 1 .. n + 1}
<1>2. n + 1 \in Nat /\ (\A i \in 1 .. n + 1 : u[i] \in S) /\ \A i \in 1 .. n : v[i] \in S OBVIOUS
<1> HIDE DEF S
<1>1. u \in Seq(S) /\ Len(u) = n + 1 BY <1>2, ListSeq
<1>3. v \in Seq(S) /\ Len(v) = n BY <1>2, ListSeq
<1>4. u # <<>> BY <1>1
<1>5. Tail(u) \in Seq(S) /\ Len(Tail(u)) = n /\ \A i \in 1 .. n : Tail(u)[i] = u[i + 1]
  BY <1>1, <1>4, HeadTailProperties
<1>6. v = Tail(u) BY <1>3, <1>5, SeqEqual
<1>7. u[1] = Head(u) BY <1>1, <1>4
<1> QED BY <1>4, <1>6, <1>7

LEMMA ListFront ==
  ASSUME NEW n \in Nat, NEW u, IsList(u, n + 1), NEW v, IsList(v, n), \A i \in 1 .. n : v[i] = u[i]
  PROVE  u # <<>> /\ v = SubSeq(u, 1, Len(u) - 1) /\ Len(u) = n + 1
<1> DEFINE S == {u[i] : i \in 1 .. n + 1}
<1>2. n + 1 \in Nat /\ (\A i \in 1 .. n + 1 : u[i] \in S) /\ \A i \in 1 .. n : v[i] \in S /\ u[i] \in S OBVIOUS
<1> HIDE DEF S
<1>1. u \in Seq(S) /\ Len(u) = n + 1 BY <1>2, ListSeq
<1>3. v \in Seq(S) /\ Len(v) = n BY <1>2, ListSeq
<1>4. u # <<>> BY <1>1
<1>5. SubSeq(u, 1, n) \in Seq(S) /\ Len(SubSeq(u, 1, n)) = n /\ \A i \in 1 .. n : SubSeq(u, 1, n)[i] = u[i]
  BY <1>2, SubSeqProperties
<1>6. v = SubSeq(u, 1, n) BY <1>2, <1>3, <1>5, SeqEqual
<1>7. Len(u) - 1 = n BY <1>1
<1> QED BY <1>1, <1>4, <1>6, <1>7

-----------------------------------------------------------------------------
\* The items of the ring, as they are seen.
PointAt(s, c, slot) == Point(SeenAt(s, c, CELLS * slot), SeenAt(s, c, CELLS * slot + 1))
ItemsOf(s, c, front, back, n) == [i \in 1 .. CountOf(front, back, n) |-> PointAt(s, c, SlotOf(back, n, i))]
RingItems == ItemsOf(session, Cache, s_list_front, s_list_back, s_list_size)

\* The cells of a slot.
LEMMA SlotCells ==
  ASSUME IInv, Queueing, NEW slot \in 0 .. s_list_size - 1
  PROVE  /\ CELLS * slot \in Nat /\ CELLS * slot < Area(session)
         /\ CELLS * slot + 1 \in Nat /\ CELLS * slot + 1 < Area(session)
<1>1. s_list_size \in 1 .. Request /\ session = QueueSession(s_list_size) BY DEF IInv, QueueOK
<1>2. Request \in Nat BY QueueAssumption
<1>3. Area(session) = s_list_size * CELLS BY <1>1, QueueSessions
<1> QED BY <1>1, <1>2, <1>3 DEF CELLS

\* The ends of a ring in use.
LEMMA EndsType ==
  ASSUME IInv, Queueing
  PROVE  s_list_size \in Nat \ {0} /\ s_list_front \in 0 .. s_list_size - 1 /\ s_list_back \in 0 .. s_list_size - 1
BY QueueAssumption DEF IInv, QueueOK

LEMMA ItemsSeen == IInv /\ Queueing /\ Stores => Items = RingItems
<1> SUFFICES ASSUME IInv, Queueing, Stores PROVE Items = RingItems
  OBVIOUS
<1>1. IsSession(session) /\ Sound(Cache) /\ Held(session, Cache)
  BY SessionTypes DEF IInv, SessionOK, HeldOK, Stores
<1>2. s_list_size \in Nat \ {0} /\ s_list_front \in 0 .. s_list_size - 1 /\ s_list_back \in 0 .. s_list_size - 1
  BY EndsType
<1> DEFINE n == CountOf(s_list_front, s_list_back, s_list_size)
<1>3. Count = n /\ n \in 0 .. s_list_size - 1
  <2>1. (s_list_front - s_list_back) % s_list_size = n /\ n \in 0 .. s_list_size - 1 BY <1>2, RingEnds
  <2> HIDE DEF n
  <2> QED BY <1>2, <2>1 DEF Count
<1>4. ASSUME NEW i \in 1 .. n
      PROVE  Point(Visible(CELLS * Slot(i)), Visible(CELLS * Slot(i) + 1)) = PointAt(session, Cache, SlotOf(s_list_back, s_list_size, i))
  <2> DEFINE slot == SlotOf(s_list_back, s_list_size, i)
  <2>1. Slot(i) = slot /\ slot \in 0 .. s_list_size - 1
    <3>1. i \in 1 .. s_list_size BY <1>2, <1>3
    <3> QED BY <1>2, <3>1, RingEnds DEF Slot
  <2> HIDE DEF slot
  <2>2. /\ CELLS * slot \in Nat /\ CELLS * slot < Area(session)
        /\ CELLS * slot + 1 \in Nat /\ CELLS * slot + 1 < Area(session)
    BY <2>1, SlotCells
  <2>3. Visible(CELLS * slot) = SeenAt(session, Cache, CELLS * slot) BY <1>1, <2>2, LookSeen DEF Visible
  <2>4. Visible(CELLS * slot + 1) = SeenAt(session, Cache, CELLS * slot + 1) BY <1>1, <2>2, LookSeen DEF Visible
  <2> QED BY <2>1, <2>3, <2>4, Zenon DEF PointAt, slot
<1> HIDE DEF n
<1>5. Items = [i \in 1 .. n |-> Point(Visible(CELLS * Slot(i)), Visible(CELLS * Slot(i) + 1))] BY <1>3, Zenon DEF Items
<1>6. RingItems = [i \in 1 .. n |-> PointAt(session, Cache, SlotOf(s_list_back, s_list_size, i))]
  BY Zenon DEF RingItems, ItemsOf, n
<1> QED BY <1>4, <1>5, <1>6, Zenon

LEMMA ItemsSeenNext == (IInv /\ Queueing /\ Stores => Items = RingItems)'
BY ItemsSeen, PTL

\* The items of a ring whose ends meet, and those that are left when one is taken at the
\* back end or at the front end.
LEMMA NoItems == ASSUME NEW s, NEW c, NEW k \in Nat, NEW n PROVE ItemsOf(s, c, k, k, n) = <<>>
<1>1. CountOf(k, k, n) = 0 BY DEF CountOf
<1> QED BY <1>1 DEF ItemsOf

LEMMA ItemsAre ==
  ASSUME NEW s, NEW c, NEW front, NEW back, NEW n
  PROVE  /\ IsList(ItemsOf(s, c, front, back, n), CountOf(front, back, n))
         /\ \A i \in 1 .. CountOf(front, back, n) : ItemsOf(s, c, front, back, n)[i] = PointAt(s, c, SlotOf(back, n, i))
BY DEF ItemsOf, IsList

LEMMA BackTaken ==
  ASSUME NEW s, NEW c, NEW n \in Nat \ {0}, NEW front \in 0 .. n - 1, NEW back \in 0 .. n - 1, front # back
  PROVE  LET u == ItemsOf(s, c, front, back, n)
         IN  u # <<>> /\ ItemsOf(s, c, front, Onward(back, n), n) = Tail(u) /\ Head(u) = PointAt(s, c, back)
<1> DEFINE u == ItemsOf(s, c, front, back, n)
           v == ItemsOf(s, c, front, Onward(back, n), n)
           m == CountOf(front, Onward(back, n), n)
<1>1. m \in Nat /\ CountOf(front, back, n) = m + 1 BY DEF CountOf, Onward
<1>2. \A i \in 1 .. m : SlotOf(Onward(back, n), n, i) = SlotOf(back, n, i + 1) BY DEF CountOf, Onward, SlotOf
<1>3. SlotOf(back, n, 1) = back BY DEF SlotOf
<1>4. IsList(u, m + 1) /\ \A i \in 1 .. m + 1 : u[i] = PointAt(s, c, SlotOf(back, n, i)) BY <1>1, ItemsAre
<1>5. IsList(v, m) /\ \A i \in 1 .. m : v[i] = PointAt(s, c, SlotOf(Onward(back, n), n, i)) BY ItemsAre
<1> HIDE DEF u, v, m
<1>6. \A i \in 1 .. m : v[i] = u[i + 1] BY <1>1, <1>2, <1>4, <1>5
<1>7. u # <<>> /\ v = Tail(u) /\ u[1] = Head(u) BY <1>1, <1>4, <1>5, <1>6, ListTail
<1>8. u[1] = PointAt(s, c, back) BY <1>1, <1>3, <1>4
<1> QED BY <1>7, <1>8 DEF u, v

Below(front, n) == (IF front = 0 THEN n ELSE front) - 1

LEMMA FrontTaken ==
  ASSUME NEW s, NEW c, NEW n \in Nat \ {0}, NEW front \in 0 .. n - 1, NEW back \in 0 .. n - 1, front # back
  PROVE  LET u == ItemsOf(s, c, front, back, n)
         IN  /\ u # <<>> /\ ItemsOf(s, c, Below(front, n), back, n) = SubSeq(u, 1, Len(u) - 1)
             /\ u[Len(u)] = PointAt(s, c, Below(front, n)) /\ Below(front, n) \in 0 .. n - 1
<1> DEFINE u == ItemsOf(s, c, front, back, n)
           v == ItemsOf(s, c, Below(front, n), back, n)
           m == CountOf(Below(front, n), back, n)
<1>1. m \in Nat /\ CountOf(front, back, n) = m + 1 /\ Below(front, n) \in 0 .. n - 1 BY DEF CountOf, Below
<1>3. SlotOf(back, n, m + 1) = Below(front, n) BY DEF SlotOf, CountOf, Below
<1>4. IsList(u, m + 1) /\ \A i \in 1 .. m + 1 : u[i] = PointAt(s, c, SlotOf(back, n, i)) BY <1>1, ItemsAre
<1>5. IsList(v, m) /\ \A i \in 1 .. m : v[i] = PointAt(s, c, SlotOf(back, n, i)) BY ItemsAre
<1> HIDE DEF u, v, m
<1>6. \A i \in 1 .. m : v[i] = u[i] BY <1>1, <1>4, <1>5
<1>7. u # <<>> /\ v = SubSeq(u, 1, Len(u) - 1) /\ Len(u) = m + 1 BY <1>1, <1>4, <1>5, <1>6, ListFront
<1>8. u[Len(u)] = PointAt(s, c, Below(front, n)) BY <1>1, <1>3, <1>4, <1>7
<1> QED BY <1>1, <1>7, <1>8 DEF u, v

\* And those of one that gets another: every slot but the one at the front end is as it was.
OthersAlike(s, c, d, front, n) == \A slot \in 0 .. n - 1 : slot # front => PointAt(s, d, slot) = PointAt(s, c, slot)

LEMMA FrontPut ==
  ASSUME NEW s, NEW c, NEW d, NEW n \in Nat \ {0}, NEW front \in 0 .. n - 1, NEW back \in 0 .. n - 1,
         Onward(front, n) # back, OthersAlike(s, c, d, front, n)
  PROVE  ItemsOf(s, d, Onward(front, n), back, n) = Append(ItemsOf(s, c, front, back, n), PointAt(s, d, front))
<1> DEFINE u == ItemsOf(s, c, front, back, n)
           v == ItemsOf(s, d, Onward(front, n), back, n)
           m == CountOf(front, back, n)
<1>1. m \in Nat /\ CountOf(Onward(front, n), back, n) = m + 1 BY DEF CountOf, Onward
<1>2. \A i \in 1 .. m : SlotOf(back, n, i) \in 0 .. n - 1 /\ SlotOf(back, n, i) # front BY DEF SlotOf, CountOf
<1>3. SlotOf(back, n, m + 1) = front BY DEF SlotOf, CountOf
<1>4. IsList(u, m) /\ \A i \in 1 .. m : u[i] = PointAt(s, c, SlotOf(back, n, i)) BY ItemsAre
<1>5. IsList(v, m + 1) /\ \A i \in 1 .. m + 1 : v[i] = PointAt(s, d, SlotOf(back, n, i)) BY <1>1, ItemsAre
<1> HIDE DEF u, v, m
<1>6. \A i \in 1 .. m : v[i] = u[i] BY <1>1, <1>2, <1>4, <1>5 DEF OthersAlike
<1>7. v = Append(u, v[m + 1]) BY <1>1, <1>4, <1>5, <1>6, ListAppend
<1>8. v[m + 1] = PointAt(s, d, front) BY <1>1, <1>3, <1>5
<1> QED BY <1>7, <1>8 DEF u, v

\* There is room while the ring has one item less than slots to spare.
LEMMA RoomLeft ==
  ASSUME NEW s, NEW c, NEW n \in Nat \ {0}, NEW front \in 0 .. n - 1, NEW back \in 0 .. n - 1
  PROVE  Onward(front, n) # back <=> Len(ItemsOf(s, c, front, back, n)) < n - 1
<1> DEFINE u == ItemsOf(s, c, front, back, n)
           m == CountOf(front, back, n)
<1>1. m \in Nat /\ (Onward(front, n) # back <=> m < n - 1) BY DEF CountOf, Onward
<1>2. IsList(u, m) BY ItemsAre
<1> HIDE DEF u, m
<1>3. Len(u) = m BY <1>1, <1>2 DEF IsList
<1> QED BY <1>1, <1>3 DEF u

-----------------------------------------------------------------------------
\* The operations of the queue, on what is seen.

\* Slots that are seen alike hold the same points.
LEMMA SlotSame ==
  ASSUME IInv, Queueing, NEW c, NEW d, IsSameAt(c, d), NEW slot \in 0 .. s_list_size - 1
  PROVE  PointAt(session, d, slot) = PointAt(session, c, slot)
<1>1. /\ CELLS * slot \in Nat /\ CELLS * slot < Area(session)
      /\ CELLS * slot + 1 \in Nat /\ CELLS * slot + 1 < Area(session)
  BY SlotCells
<1>2. SeenAt(session, d, CELLS * slot) = SeenAt(session, c, CELLS * slot) BY <1>1, Zenon DEF IsSameAt
<1>3. SeenAt(session, d, CELLS * slot + 1) = SeenAt(session, c, CELLS * slot + 1) BY <1>1, Zenon DEF IsSameAt
<1> QED BY <1>2, <1>3, Zenon DEF PointAt

\* A point that is put in one slot changes no other.
LEMMA SlotPut ==
  ASSUME IInv, Queueing, NEW c, NEW d, NEW front \in 0 .. s_list_size - 1, NEW x, NEW y,
         IsPutAt(c, d, CELLS * front, <<x, y>>), NEW slot \in 0 .. s_list_size - 1
  PROVE  PointAt(session, d, slot) = IF slot = front THEN Point(x, y) ELSE PointAt(session, c, slot)
<1> DEFINE a == CELLS * front
           b == CELLS * slot
<1>1. b \in Nat /\ b < Area(session) /\ b + 1 \in Nat /\ b + 1 < Area(session) /\ a \in Nat
  BY SlotCells
<1>2. (b = a <=> slot = front) /\ b # a + 1 /\ b + 1 # a /\ (b + 1 = a + 1 <=> slot = front)
  BY EndsType DEF CELLS
<1> HIDE DEF a, b
<1>3. SeenAt(session, d, b) = IF slot = front THEN x ELSE SeenAt(session, c, b)
  BY <1>1, <1>2 DEF IsPutAt, a
<1>4. SeenAt(session, d, b + 1) = IF slot = front THEN y ELSE SeenAt(session, c, b + 1)
  <2>1. SeenAt(session, d, b + 1) = IF b + 1 = a THEN x ELSE IF b + 1 = a + 1 THEN y ELSE SeenAt(session, c, b + 1)
    BY <1>1 DEF IsPutAt, a
  <2> QED BY <1>2, <2>1
<1>5. PointAt(session, d, slot) = Point(SeenAt(session, d, b), SeenAt(session, d, b + 1))
      /\ PointAt(session, c, slot) = Point(SeenAt(session, c, b), SeenAt(session, c, b + 1))
  BY Zenon DEF PointAt, b
<1> QED BY <1>3, <1>4, <1>5

\* The queue in use before and after.
Goes == session' = session /\ Stores' /\ Ring(Cache') /\ s_list_size' = s_list_size

LEMMA PushRing ==
  ASSUME IInv, Queueing, Stores, Ring(Cache), NEW p \in PointsPut, push_float(p[1], p[2])
  PROVE  /\ Goes /\ taken' = NoPoint
         /\ RingItems' = IF Len(RingItems) < s_list_size - 1 THEN Append(RingItems, Point(p[1], p[2])) ELSE RingItems
<1>1. session' = session /\ taken' = NoPoint /\ UNCHANGED CursorVars BY DEF push_float, CursorVars
<1>2. s_list_size \in Nat \ {0} /\ s_list_front \in 0 .. s_list_size - 1 /\ s_list_back \in 0 .. s_list_size - 1
  BY EndsType
<1>3. (s_list_front + 1) % s_list_size = Onward(s_list_front, s_list_size) BY <1>2, RingEnds
<1>4. Room <=> Len(RingItems) < s_list_size - 1
  <2>1. Onward(s_list_front, s_list_size) # s_list_back <=> Len(RingItems) < s_list_size - 1
    BY <1>2, RoomLeft DEF RingItems
  <2> QED BY <1>3, <2>1, Zenon DEF Room
<1>5. CASE Room
  <2>1. /\ to_mem_disk(CELLS * s_list_front, <<p[1], p[2]>>)
        /\ s_list_front' = Onward(s_list_front, s_list_size) /\ s_list_back' = s_list_back /\ s_list_size' = s_list_size
    BY <1>3, <1>5, Zenon DEF push_float, SetList
  <2>2. s_list_front \in Nat /\ s_list_front < s_list_size BY <1>2
  <2>3. Stores' BY <1>1, <2>1, <2>2, ToOK
  <2>4. Ring(Cache') /\ IsPutAt(Cache, Cache', CELLS * s_list_front, <<p[1], p[2]>>)
    BY <1>1, <2>1, <2>2, PushSeen
  <2>5. \A slot \in 0 .. s_list_size - 1 :
          PointAt(session, Cache', slot) = IF slot = s_list_front THEN Point(p[1], p[2]) ELSE PointAt(session, Cache, slot)
    BY <1>2, <2>4, SlotPut
  <2>6. Onward(s_list_front, s_list_size) # s_list_back BY <1>3, <1>5, Zenon DEF Room
  <2>7. ItemsOf(session, Cache', Onward(s_list_front, s_list_size), s_list_back, s_list_size)
           = Append(RingItems, PointAt(session, Cache', s_list_front))
    <3>1. OthersAlike(session, Cache, Cache', s_list_front, s_list_size)
      BY <2>5 DEF OthersAlike
    <3>2. \A d : OthersAlike(session, Cache, d, s_list_front, s_list_size) =>
             ItemsOf(session, d, Onward(s_list_front, s_list_size), s_list_back, s_list_size)
                = Append(RingItems, PointAt(session, d, s_list_front))
      BY <1>2, <2>6, FrontPut DEF RingItems
    <3> QED BY <3>1, <3>2, Zenon
  <2>8. PointAt(session, Cache', s_list_front) = Point(p[1], p[2]) BY <1>2, <2>5
  <2>9. RingItems' = Append(RingItems, Point(p[1], p[2])) BY <1>1, <2>1, <2>7, <2>8, Zenon DEF RingItems
  <2> QED BY <1>1, <1>4, <1>5, <2>1, <2>3, <2>4, <2>9 DEF Goes
<1>6. CASE ~Room
  <2>1. UNCHANGED CacheStays /\ UNCHANGED QueueStays
    BY <1>6 DEF push_float, CacheStays, QueueStays
  <2>2. Cache' = Cache /\ s_dv_handle' = s_dv_handle BY <2>1 DEF CacheStays, cacheVars, store, Cache
  <2>3. RingItems' = RingItems BY <2>1, <2>2 DEF RingItems, QueueStays
  <2>4. Goes BY <2>1, <2>2 DEF Goes, QueueStays, Stores
  <2> QED BY <1>1, <1>4, <1>6, <2>3, <2>4
<1> QED BY <1>5, <1>6

LEMMA TakeRing ==
  ASSUME IInv, Queueing, Stores, Ring(Cache), NEW slot \in 0 .. s_list_size - 1,
         NEW front \in 0 .. s_list_size - 1, NEW back \in 0 .. s_list_size - 1, Take(slot, front, back)
  PROVE  /\ Goes /\ taken' = PointAt(session, Cache, slot)
         /\ RingItems' = ItemsOf(session, Cache, front, back, s_list_size)
<1>1. /\ from_mem_disk(CELLS * slot, CELLS) /\ session' = session /\ taken' = Point(answer'.value[1], answer'.value[2])
      /\ s_list_front' = front /\ s_list_back' = back /\ s_list_size' = s_list_size
  BY DEF Take, SetList
<1>2. slot \in Nat /\ slot < s_list_size /\ s_list_size \in Nat \ {0} BY EndsType
<1>3. Stores' BY <1>1, <1>2, FromOK
<1>4. /\ Ring(Cache') /\ IsSameAt(Cache, Cache')
      /\ answer'.value[1] = SeenAt(session, Cache, CELLS * slot)
      /\ answer'.value[2] = SeenAt(session, Cache, CELLS * slot + 1)
  BY <1>1, <1>2, TakeSeen
<1>5. taken' = PointAt(session, Cache, slot) BY <1>1, <1>4, Zenon DEF PointAt
<1>6. \A k \in 0 .. s_list_size - 1 : PointAt(session, Cache', k) = PointAt(session, Cache, k) BY <1>4, SlotSame
<1>7. \A i \in 1 .. CountOf(front, back, s_list_size) : SlotOf(back, s_list_size, i) \in 0 .. s_list_size - 1
  <2>1. CountOf(front, back, s_list_size) \in 0 .. s_list_size - 1 BY <1>2, RingEnds
  <2>2. \A i \in 1 .. CountOf(front, back, s_list_size) : i \in 1 .. s_list_size BY <1>2, <2>1
  <2> QED BY <1>2, <2>2, RingEnds
<1>8. ItemsOf(session, Cache', front, back, s_list_size) = ItemsOf(session, Cache, front, back, s_list_size)
  BY <1>6, <1>7, Zenon DEF ItemsOf
<1>9. RingItems' = ItemsOf(session, Cache, front, back, s_list_size) BY <1>1, <1>8, Zenon DEF RingItems
<1> QED BY <1>1, <1>3, <1>4, <1>5, <1>9 DEF Goes

\* Nothing is taken from an empty queue.
LEMMA NoneRing ==
  ASSUME IInv, Queueing, Stores, Ring(Cache), TakeNone
  PROVE  Goes /\ taken' = NoPoint /\ RingItems = <<>> /\ RingItems' = <<>>
<1>1. UNCHANGED CacheStays /\ UNCHANGED QueueStays /\ taken' = NoPoint /\ s_list_front = s_list_back
  BY DEF TakeNone, CacheStays, QueueStays, queue_empty
<1>2. Cache' = Cache /\ s_dv_handle' = s_dv_handle BY <1>1 DEF CacheStays, cacheVars, store, Cache
<1>3. RingItems' = RingItems BY <1>1, <1>2 DEF RingItems, QueueStays
<1>4. Goes BY <1>1, <1>2 DEF Goes, QueueStays, Stores
<1>5. s_list_front \in Nat BY EndsType
<1>6. RingItems = <<>> BY <1>1, <1>5, NoItems DEF RingItems
<1> QED BY <1>1, <1>3, <1>4, <1>6

LEMMA DequeueRing ==
  ASSUME IInv, Queueing, Stores, Ring(Cache), dequeue_float
  PROVE  /\ Goes
         /\ \/ RingItems = <<>> /\ RingItems' = <<>> /\ taken' = NoPoint
            \/ RingItems # <<>> /\ RingItems' = Tail(RingItems) /\ taken' = Head(RingItems)
<1>1. s_list_size \in Nat \ {0} /\ s_list_front \in 0 .. s_list_size - 1 /\ s_list_back \in 0 .. s_list_size - 1
  BY EndsType
<1>2. CASE queue_empty BY <1>2, NoneRing DEF dequeue_float
<1>3. CASE ~queue_empty
  <2>1. (s_list_back + 1) % s_list_size = Onward(s_list_back, s_list_size) BY <1>1, RingEnds
  <2>2. Onward(s_list_back, s_list_size) \in 0 .. s_list_size - 1 BY <1>1 DEF Onward
  <2>3. Take(s_list_back, s_list_front, Onward(s_list_back, s_list_size)) BY <1>3, <2>1, Zenon DEF dequeue_float
  <2>4. /\ Goes /\ taken' = PointAt(session, Cache, s_list_back)
        /\ RingItems' = ItemsOf(session, Cache, s_list_front, Onward(s_list_back, s_list_size), s_list_size)
    BY <1>1, <2>2, <2>3, TakeRing
  <2>5. /\ RingItems # <<>> /\ Head(RingItems) = PointAt(session, Cache, s_list_back)
        /\ ItemsOf(session, Cache, s_list_front, Onward(s_list_back, s_list_size), s_list_size) = Tail(RingItems)
    BY <1>1, <1>3, BackTaken DEF RingItems, queue_empty
  <2> QED BY <2>4, <2>5
<1> QED BY <1>2, <1>3

LEMMA PopRing ==
  ASSUME IInv, Queueing, Stores, Ring(Cache), pop_float
  PROVE  /\ Goes
         /\ \/ RingItems = <<>> /\ RingItems' = <<>> /\ taken' = NoPoint
            \/ RingItems # <<>> /\ RingItems' = SubSeq(RingItems, 1, Len(RingItems) - 1)
                                /\ taken' = RingItems[Len(RingItems)]
<1>1. s_list_size \in Nat \ {0} /\ s_list_front \in 0 .. s_list_size - 1 /\ s_list_back \in 0 .. s_list_size - 1
  BY EndsType
<1>2. CASE queue_empty BY <1>2, NoneRing DEF pop_float
<1>3. CASE ~queue_empty
  <2>1. Top = Below(s_list_front, s_list_size) BY DEF Top, Below
  <2>2. Take(Top, Top, s_list_back) BY <1>3 DEF pop_float
  <2>3. /\ RingItems # <<>> /\ RingItems[Len(RingItems)] = PointAt(session, Cache, Top) /\ Top \in 0 .. s_list_size - 1
        /\ ItemsOf(session, Cache, Top, s_list_back, s_list_size) = SubSeq(RingItems, 1, Len(RingItems) - 1)
    BY <1>1, <1>3, <2>1, FrontTaken DEF RingItems, queue_empty
  <2>4. /\ Goes /\ taken' = PointAt(session, Cache, Top)
        /\ RingItems' = ItemsOf(session, Cache, Top, s_list_back, s_list_size)
    BY <1>1, <2>2, <2>3, TakeRing
  <2> QED BY <2>3, <2>4
<1> QED BY <1>2, <1>3

\* A queue that begins, or is cleared, has no items.
LEMMA BeginRing ==
  ASSUME NEW n, common_start_disk(QueueSession(n)), SetList(0, 0, n, 0)
  PROVE  Ring(Cache') /\ RingItems' = <<>>
<1>1. entry' = NoEntries /\ s_cache_lru' = 0 /\ s_list_front' = 0 /\ s_list_back' = 0
  BY DEF common_start_disk, EmptyCache, SetList
<1>2. Cache'.entry = NoEntries /\ Cache'.lru = 0 BY <1>1 DEF Cache
<1>3. Ring(Cache') BY <1>2, EmptyRing
<1>4. RingItems' = ItemsOf(session', Cache', 0, 0, s_list_size') BY <1>1, Zenon DEF RingItems
<1> QED BY <1>3, <1>4, NoItems

LEMMA ClearRing ==
  ASSUME IInv, Queueing, Stores, Ring(Cache), clear_queue
  PROVE  Goes /\ taken' = NoPoint /\ RingItems' = <<>>
<1>1. UNCHANGED CacheStays /\ taken' = NoPoint /\ s_list_front' = 0 /\ s_list_back' = 0 /\ s_list_size' = s_list_size
  BY DEF clear_queue, vars, CacheStays, SetList
<1>2. Cache' = Cache /\ s_dv_handle' = s_dv_handle /\ session' = session
  BY <1>1 DEF CacheStays, cacheVars, store, Cache
<1>3. Goes BY <1>1, <1>2 DEF Goes, Stores
<1>4. RingItems' = ItemsOf(session', Cache', 0, 0, s_list_size') BY <1>1, Zenon DEF RingItems
<1> QED BY <1>1, <1>3, <1>4, NoItems

\* A queue is in use after a step of another user only if that user did nothing.
LEMMA OthersRing == ASSUME Others PROVE ~Queueing'
<1>1. session.kind # "queue" /\ Next BY DEF Others
<1>2. ASSUME NEW s \in Sessions, Start(s) PROVE session'.kind # "queue"
  <2>1. session' = s \/ session' = Closed BY <1>2, BeginsOrNot DEF Start
  <2> QED BY <2>1, InputAssumption DEF Closed
<1>3. end_disk => session'.kind # "queue" BY DEF end_disk, Closed
<1>4. Draw => session' = session BY DEF Draw, disk_read_pixel, disk_write_pixel
<1> QED BY <1>1, <1>2, <1>3, <1>4 DEF Next, Session, Queueing

\* No block of a queue leaves the cache.
QInv == IInv /\ RingOK

THEOREM QueueInv == QSpec => []QInv
<1>1. QInit => RingOK BY DEF QInit, Init, RingOK, Queueing, Closed
<1>2. IInv /\ RingOK /\ IInv' /\ [QNext]_allVars => RingOK'
  <2> SUFFICES ASSUME IInv, RingOK, [QNext]_allVars, Queueing', Stores' PROVE Ring(Cache')
    BY DEF RingOK
  <2>1. CASE UNCHANGED allVars
    <3>1. Cache' = Cache /\ session' = session /\ s_dv_handle' = s_dv_handle
      BY <2>1 DEF allVars, vars, cacheVars, store, Cache
    <3> QED BY <3>1 DEF RingOK, Queueing, Stores
  <2>2. CASE Others BY <2>2, OthersRing
  <2>3. CASE init_queue
    <3>1. PICK n : common_start_disk(QueueSession(n)) /\ SetList(0, 0, n, 0)
      BY <2>3 DEF init_queue, Queueing, Closed
    <3> QED BY <3>1, BeginRing
  <2>4. CASE free_queue BY <2>4 DEF free_queue, end_disk, Queueing, Closed
  <2>5. ASSUME Queueing, session' = session, s_dv_handle'.stored_at = s_dv_handle.stored_at PROVE Stores /\ Ring(Cache)
    BY <2>5 DEF RingOK, Stores
  <2>6. ASSUME Queueing, UNCHANGED s_dv_handle \/ \E c : SetCache(c)
        PROVE  s_dv_handle'.stored_at = s_dv_handle.stored_at
    BY <2>6 DEF SetCache, IInv, HandleOK
  <2>7. CASE clear_queue
    <3>1. Queueing /\ session' = session /\ UNCHANGED s_dv_handle BY <2>7 DEF clear_queue, vars, store
    <3> QED BY <2>5, <2>6, <2>7, <3>1, ClearRing DEF Goes
  <2>8. ASSUME NEW p \in PointsPut, push_float(p[1], p[2]) PROVE Ring(Cache')
    <3>1. Queueing /\ session' = session /\ (UNCHANGED s_dv_handle \/ \E c : SetCache(c))
      BY <2>8 DEF push_float, to_mem_disk, store
    <3> QED BY <2>5, <2>6, <2>8, <3>1, PushRing DEF Goes
  <2>9. ASSUME TakeNone \/ \E slot, front, back : Take(slot, front, back)
        PROVE  session' = session /\ (UNCHANGED s_dv_handle \/ \E c : SetCache(c))
    BY <2>9 DEF Take, TakeNone, from_mem_disk, store
  <2>10. CASE pop_float
    <3>1. Queueing /\ session' = session /\ (UNCHANGED s_dv_handle \/ \E c : SetCache(c))
      BY <2>9, <2>10 DEF pop_float
    <3> QED BY <2>5, <2>6, <2>10, <3>1, PopRing DEF Goes
  <2>11. CASE dequeue_float
    <3>1. Queueing /\ session' = session /\ (UNCHANGED s_dv_handle \/ \E c : SetCache(c))
      BY <2>9, <2>11 DEF dequeue_float
    <3> QED BY <2>5, <2>6, <2>11, <3>1, DequeueRing DEF Goes
  <2> QED BY <2>1, <2>2, <2>3, <2>4, <2>7, <2>8, <2>10, <2>11 DEF QNext, QueueStep
<1> QED BY <1>1, <1>2, CacheIInv, PTL DEF QSpec, QInv

\* The size, the items and the point taken last of the abstract queue.
BarSize  == IF Queueing /\ s_dv_handle.stored_at # "NOWHERE" THEN s_list_size ELSE 0
BarItems == IF Queueing /\ s_dv_handle.stored_at # "NOWHERE" THEN Items ELSE <<>>
BarTaken == IF Queueing /\ s_dv_handle.stored_at # "NOWHERE" THEN taken ELSE NoPoint

LEMMA QueueNow == IInv /\ Queueing /\ Stores => BarSize = s_list_size /\ BarItems = RingItems /\ BarTaken = taken
BY ItemsSeen DEF BarSize, BarItems, BarTaken, Stores

LEMMA QueueNext == (IInv /\ Queueing /\ Stores => BarSize = s_list_size /\ BarItems = RingItems /\ BarTaken = taken)'
BY QueueNow, PTL

LEMMA NoQueue == ~(Queueing /\ Stores) => BarSize = 0 /\ BarItems = <<>> /\ BarTaken = NoPoint
<1>1. Queueing => session # Closed BY DEF Queueing, Closed
<1> QED BY <1>1 DEF BarSize, BarItems, BarTaken, Stores

LEMMA NoQueueNext == (~(Queueing /\ Stores) => BarSize = 0 /\ BarItems = <<>> /\ BarTaken = NoPoint)'
BY NoQueue, PTL

\* The points of the inverse Julia methods come out of the ring in the order the methods
\* count on, breadth first or depth first, however its blocks lie in the cache and though
\* from_mem_disk marks them clean (init_queue, push_float, pop_float, dequeue_float, clear_queue).
THEOREM RingImplementsPointQueue == QSpec => ImplementsQueue
<1>1. QInit => Queue!Init
  BY DEF QInit, Init, Queue!Init, Queueing, Closed
<1>2. QInv /\ QInv' /\ [QNext]_allVars => [Queue!Next]_(Queue!vars)
  <2> SUFFICES ASSUME QInv, QInv', [QNext]_allVars PROVE [Queue!Next]_(Queue!vars)
    OBVIOUS
  <2>0. IInv /\ RingOK /\ IInv' BY DEF QInv
  <2>1. CASE UNCHANGED allVars
    <3>1. Cache' = Cache /\ session' = session /\ s_dv_handle' = s_dv_handle /\ taken' = taken
          /\ s_list_size' = s_list_size /\ s_list_front' = s_list_front /\ s_list_back' = s_list_back
      BY <2>1 DEF allVars, vars, queueVars, cacheVars, store, Cache
    <3>2. (Queueing' <=> Queueing) /\ (Stores' <=> Stores) BY <3>1 DEF Queueing, Stores
    <3>3. RingItems' = RingItems BY <3>1, Zenon DEF RingItems
    <3>4. BarSize' = BarSize /\ BarItems' = BarItems /\ BarTaken' = BarTaken
      BY <2>0, <3>1, <3>2, <3>3, QueueNow, QueueNext, NoQueue, NoQueueNext
    <3> QED BY <3>4 DEF Queue!vars, BarSize, BarItems, BarTaken
  <2>2. CASE ~(Queueing' /\ Stores')
    <3>1. BarSize' = 0 /\ BarItems' = <<>> /\ BarTaken' = NoPoint BY <2>2, NoQueueNext
    <3>2. Queue!Resize BY <3>1 DEF Queue!Resize, Queue!Set, BarSize, BarItems, BarTaken
    <3> QED BY <3>2 DEF Queue!Next
  <2>3. CASE Queueing' /\ Stores' /\ init_queue
    <3>1. PICK n : common_start_disk(QueueSession(n)) /\ SetList(0, 0, n, 0) /\ taken' = NoPoint
      BY <2>3 DEF init_queue, Queueing, Closed
    <3>2. RingItems' = <<>> BY <3>1, BeginRing
    <3>3. BarSize' \in Nat /\ BarItems' = <<>> /\ BarTaken' = NoPoint
      BY <2>0, <2>3, <3>1, <3>2, QueueNext DEF IInv, QueueOK
    <3>4. Queue!Resize BY <3>3 DEF Queue!Resize, Queue!Set, BarSize, BarItems, BarTaken
    <3> QED BY <3>4 DEF Queue!Next
  <2>4. CASE Queueing /\ Stores
    <3>1. Ring(Cache) BY <2>0, <2>4 DEF RingOK
    <3>2. BarSize = s_list_size /\ BarItems = RingItems /\ BarTaken = taken /\ BarSize # 0
      BY <2>0, <2>4, QueueNow, EndsType
    <3>3. ASSUME Goes PROVE BarSize' = BarSize /\ BarItems' = RingItems' /\ BarTaken' = taken'
      <4>1. Queueing' /\ Stores' BY <2>4, <3>3 DEF Goes, Queueing
      <4> QED BY <2>0, <3>2, <3>3, <4>1, QueueNext DEF Goes
    <3>4. CASE clear_queue
      <4>1. Goes /\ taken' = NoPoint /\ RingItems' = <<>> BY <2>0, <2>4, <3>1, <3>4, ClearRing
      <4>2. Queue!Clear
        BY <3>2, <3>3, <4>1 DEF Queue!Clear, Queue!Set, BarSize, BarItems, BarTaken
      <4> QED BY <4>2 DEF Queue!Next
    <3>5. ASSUME NEW p \in PointsPut, push_float(p[1], p[2]) PROVE Queue!Next
      <4>1. /\ Goes /\ taken' = NoPoint
            /\ RingItems' = IF Len(RingItems) < s_list_size - 1 THEN Append(RingItems, Point(p[1], p[2])) ELSE RingItems
        BY <2>0, <2>4, <3>1, <3>5, PushRing
      <4>2. /\ BarSize' = BarSize /\ BarTaken' = NoPoint /\ BarSize # 0
            /\ BarItems' = IF Len(BarItems) < BarSize - 1 THEN Append(BarItems, Point(p[1], p[2])) ELSE BarItems
        BY <3>2, <3>3, <4>1, Zenon
      <4>3. Point(p[1], p[2]) \in {Point(q[1], q[2]) : q \in PointsPut} OBVIOUS
      <4>4. Queue!Push
        BY <4>2, <4>3, Zenon DEF Queue!Push, Queue!Set, BarSize, BarItems, BarTaken
      <4> QED BY <4>4 DEF Queue!Next
    <3>6. CASE dequeue_float
      <4>1. /\ Goes
            /\ \/ RingItems = <<>> /\ RingItems' = <<>> /\ taken' = NoPoint
               \/ RingItems # <<>> /\ RingItems' = Tail(RingItems) /\ taken' = Head(RingItems)
        BY <2>0, <2>4, <3>1, <3>6, DequeueRing
      <4>2. /\ BarSize' = BarSize /\ BarSize # 0
            /\ IF BarItems # <<>> THEN BarItems' = Tail(BarItems) /\ BarTaken' = Head(BarItems)
               ELSE BarItems' = <<>> /\ BarTaken' = NoPoint
        BY <3>2, <3>3, <4>1, Zenon
      <4>3. Queue!Dequeue
        BY <4>2, Zenon DEF Queue!Dequeue, Queue!Set, BarSize, BarItems, BarTaken
      <4> QED BY <4>3 DEF Queue!Next
    <3>7. CASE pop_float
      <4>1. /\ Goes
            /\ \/ RingItems = <<>> /\ RingItems' = <<>> /\ taken' = NoPoint
               \/ RingItems # <<>> /\ RingItems' = SubSeq(RingItems, 1, Len(RingItems) - 1)
                                   /\ taken' = RingItems[Len(RingItems)]
        BY <2>0, <2>4, <3>1, <3>7, PopRing
      <4>2. /\ BarSize' = BarSize /\ BarSize # 0
            /\ IF BarItems # <<>> THEN BarItems' = SubSeq(BarItems, 1, Len(BarItems) - 1) /\ BarTaken' = BarItems[Len(BarItems)]
               ELSE BarItems' = <<>> /\ BarTaken' = NoPoint
        BY <3>2, <3>3, <4>1, Zenon
      <4>3. Queue!Pop
        BY <4>2, Zenon DEF Queue!Pop, Queue!Set, BarSize, BarItems, BarTaken
      <4> QED BY <4>3 DEF Queue!Next
    <3>8. CASE Queueing' /\ Stores' /\ QNext
      <4>1. ~Others BY <2>4 DEF Others, Queueing
      <4>2. ~free_queue BY <3>8 DEF free_queue, end_disk, Queueing, Closed
      <4> QED BY <2>3, <3>4, <3>5, <3>6, <3>7, <3>8, <4>1, <4>2 DEF QNext, QueueStep
    <3> QED BY <2>1, <2>2, <3>8
  <2>5. CASE Queueing' /\ Stores' /\ ~(Queueing /\ Stores) /\ QNext
    <3>1. init_queue
      <4>1. ~Others BY <2>5, OthersRing
      <4>2. ~free_queue BY <2>5 DEF free_queue, end_disk, Queueing, Closed
      <4>3. ASSUME Queueing, session' = session, UNCHANGED s_dv_handle \/ \E c : SetCache(c) PROVE FALSE
        <5>1. s_dv_handle'.stored_at = s_dv_handle.stored_at BY <2>0, <4>3 DEF SetCache, IInv, HandleOK
        <5> QED BY <2>5, <4>3, <5>1 DEF Stores
      <4>4. ~clear_queue
        <5>1. clear_queue => Queueing /\ session' = session /\ UNCHANGED s_dv_handle BY DEF clear_queue, vars, store
        <5> QED BY <4>3, <5>1
      <4>5. ASSUME NEW p \in PointsPut PROVE ~push_float(p[1], p[2])
        <5>1. push_float(p[1], p[2]) => Queueing /\ session' = session /\ (UNCHANGED s_dv_handle \/ \E c : SetCache(c))
          BY DEF push_float, to_mem_disk, store
        <5> QED BY <4>3, <5>1
      <4>6. ASSUME TakeNone \/ \E slot, front, back : Take(slot, front, back)
            PROVE  session' = session /\ (UNCHANGED s_dv_handle \/ \E c : SetCache(c))
        BY <4>6 DEF Take, TakeNone, from_mem_disk, store
      <4>7. ~pop_float /\ ~dequeue_float
        <5>1. pop_float => Queueing /\ (TakeNone \/ \E slot, front, back : Take(slot, front, back)) BY DEF pop_float
        <5>2. dequeue_float => Queueing /\ (TakeNone \/ \E slot, front, back : Take(slot, front, back)) BY DEF dequeue_float
        <5> QED BY <4>3, <4>6, <5>1, <5>2
      <4> QED BY <2>5, <4>1, <4>2, <4>4, <4>5, <4>7 DEF QNext, QueueStep
    <3> QED BY <2>3, <2>5, <3>1
  <2> QED BY <2>1, <2>2, <2>4, <2>5
<1> QED BY <1>1, <1>2, QueueInv, PTL DEF QSpec, ImplementsQueue, Queue!Spec


-----------------------------------------------------------------------------
\* The end of a Targa file.

\* The caches that a flush of cache c goes through.
FlushEntries(c) == [Entries -> [offset : Nat, pixel : {c.entry[e].pixel : e \in Entries}, dirty : BOOLEAN, lru : BOOLEAN]]
FlushCaches(c) == [entry : FlushEntries(c), hash : {c.hash}, lru : Entries, cur : {c.cur}, curOffset : {c.curOffset},
                   high : {c.high}, seek : Nat \cup {-1}, m : StoreOf(session)]
Flushing(c, x) == x \in FlushCaches(c) /\ Sound(x) /\ Held(session, x) /\ SameSeen(session, c, x)

\* The hand is put on an entry.
LEMMA HandPut ==
  ASSUME NEW c, NEW x, Flushing(c, x), NEW e \in Entries
  PROVE  /\ Flushing(c, [x EXCEPT !.lru = e])
         /\ [x EXCEPT !.lru = e].lru = e /\ [x EXCEPT !.lru = e].entry = x.entry
<1> DEFINE y == [x EXCEPT !.lru = e]
<1>1. y \in FlushCaches(c) BY DEF Flushing, FlushCaches
<1>2. /\ y.lru = e /\ y.entry = x.entry /\ y.m = x.m /\ y.high = x.high /\ y.seek = x.seek /\ y.hash = x.hash
      /\ y.curOffset = x.curOffset /\ y.cur = x.cur
  BY DEF Flushing, FlushCaches
<1>3. IsCache(y)
  <2>1. y \in [entry : {y.entry}, hash : [Chains -> SUBSET Entries], lru : Entries, cur : Entries,
               curOffset : BlockStarts \cup {-1}, high : Nat \cup {-1}, seek : Nat \cup {-1}, m : {y.m}]
    BY <1>1, <1>2 DEF Flushing, FlushCaches, Sound, IsCache
  <2>2. AreEntries(y.entry) BY <1>2 DEF Flushing, Sound, IsCache
  <2> QED BY <2>1, <2>2 DEF IsCache
<1> HIDE DEF y
<1>4. Sound(y) BY <1>2, <1>3 DEF Flushing, Sound, OnChain
<1>5. Apart(x.entry) /\ SameContent(x, y) /\ Held(session, x) BY <1>2 DEF SameContent, Flushing, Sound
<1>6. Held(session, y) /\ SameSeen(session, x, y) BY <1>5, SameHeld
<1>7. SameSeen(session, c, y) BY <1>6 DEF Flushing, SameSeen
<1> QED BY <1>1, <1>2, <1>4, <1>6, <1>7 DEF Flushing, y

\* Where the hand is at a dirty entry it is written, and no entry becomes dirty.
LEMMA HandWritten ==
  ASSUME IsSession(session), NEW c, NEW x, Flushing(c, x), x.entry[x.lru].dirty
  PROVE  LET w == write_cache_lru(x)
         IN  /\ Flushing(c, w) /\ ~w.entry[x.lru].dirty
             /\ \A e \in Entries : w.entry[e].dirty => x.entry[e].dirty
<1> DEFINE w == write_cache_lru(x)
           Clean(run) == [e \in Entries |-> [x.entry[e] EXCEPT !.dirty = @ /\ x.entry[e].offset \notin run]]
<1>1. Sound(x) /\ Held(session, x) /\ x \in FlushCaches(c) /\ SameSeen(session, c, x) BY DEF Flushing
<1>2. Sound(w) BY <1>1, WrittenSound
<1>3. Held(session, w) /\ SameSeen(session, x, w) /\ ~w.entry[x.lru].dirty BY <1>1, WriteHeld
<1>4. PICK m \in StoreOf(session) : w = SeekAgain([x EXCEPT !.m = m, !.entry = Clean(Run(x))])
  BY <1>1, WrittenStore
<1> HIDE DEF w
<1>5. PICK run : run = Run(x) OBVIOUS
<1>6. /\ w.entry = Clean(run) /\ w.hash = x.hash /\ w.lru = x.lru /\ w.cur = x.cur /\ w.curOffset = x.curOffset
      /\ w.high = x.high /\ w.seek = -1 /\ w.m = m
      /\ w = [entry |-> w.entry, hash |-> w.hash, lru |-> w.lru, cur |-> w.cur, curOffset |-> w.curOffset,
              high |-> w.high, seek |-> w.seek, m |-> w.m]
  BY <1>1, <1>4, <1>5 DEF SeekAgain, FlushCaches
<1>7. ASSUME NEW e \in Entries
      PROVE  /\ w.entry[e] \in [offset : Nat, pixel : {c.entry[g].pixel : g \in Entries}, dirty : BOOLEAN, lru : BOOLEAN]
             /\ w.entry[e].dirty => x.entry[e].dirty
  <2> DEFINE n == x.entry[e]
  <2>1. n \in [offset : Nat, pixel : {c.entry[g].pixel : g \in Entries}, dirty : BOOLEAN, lru : BOOLEAN]
    BY <1>1 DEF FlushCaches, FlushEntries
  <2>2. w.entry[e] = [n EXCEPT !.dirty = (n.dirty /\ n.offset \notin run)] BY <1>6
  <2> HIDE DEF n
  <2>3. /\ w.entry[e] \in [offset : Nat, pixel : {c.entry[g].pixel : g \in Entries}, dirty : BOOLEAN, lru : BOOLEAN]
        /\ w.entry[e].dirty => n.dirty
    BY <2>1, <2>2
  <2> QED BY <2>3 DEF n
<1>8. w.entry \in FlushEntries(c)
  <2>1. w.entry = [e \in Entries |-> w.entry[e]] BY <1>6
  <2> QED BY <1>7, <2>1 DEF FlushEntries
<1>9. w \in FlushCaches(c)
  BY <1>1, <1>6, <1>8 DEF FlushCaches
<1>10. SameSeen(session, c, w) BY <1>1, <1>3 DEF SameSeen
<1> QED BY <1>2, <1>3, <1>7, <1>9, <1>10 DEF Flushing, w

\* A flush leaves no entry dirty and what is seen as it was.
LEMMA FlushClean ==
  ASSUME IsSession(session), Sound(Cache), Held(session, Cache)
  PROVE  Flushing(Cache, Flushed) /\ \A e \in Entries : ~Flushed.entry[e].dirty
<1> DEFINE Turn(x, k) == IF x.entry[k - 1].dirty THEN write_cache_lru([x EXCEPT !.lru = k - 1]) ELSE [x EXCEPT !.lru = k - 1]
           IsLoop(a) == a = [k \in 0 .. NEntries |->
                                IF k = 0 THEN Cache
                                ELSE IF a[k - 1].entry[k - 1].dirty THEN write_cache_lru([a[k - 1] EXCEPT !.lru = k - 1])
                                ELSE [a[k - 1] EXCEPT !.lru = k - 1]]
           after == CHOOSE a : IsLoop(a)
           S == {x \in FlushCaches(Cache) : Flushing(Cache, x)}
<1>1. Flushed = after[NEntries] BY Zenon DEF Flushed
<1>2. NEntries \in Nat /\ \A k \in 1 .. NEntries : k - 1 \in Entries BY CacheAssumption DEF Entries
<1>3. ASSUME NEW x, Flushing(Cache, x), NEW k \in 1 .. NEntries
      PROVE  /\ Flushing(Cache, Turn(x, k)) /\ ~Turn(x, k).entry[k - 1].dirty
             /\ \A e \in Entries : Turn(x, k).entry[e].dirty => x.entry[e].dirty
  <2> DEFINE y == [x EXCEPT !.lru = k - 1]
             w == write_cache_lru(y)
  <2>1. PICK g \in Entries : g = k - 1 BY <1>2, <1>3
  <2>2. Flushing(Cache, y) /\ y.lru = g /\ y.entry = x.entry BY <1>3, <2>1, HandPut
  <2>3. CASE x.entry[k - 1].dirty
    <3>1. Turn(x, k) = w BY <2>3
    <3>2. Flushing(Cache, w) /\ ~w.entry[y.lru].dirty /\ \A e \in Entries : w.entry[e].dirty => y.entry[e].dirty
      <4> HIDE DEF y
      <4> QED BY <2>1, <2>2, <2>3, HandWritten
    <3> HIDE DEF w, y, Turn
    <3> QED BY <2>1, <2>2, <3>1, <3>2
  <2>4. CASE ~x.entry[k - 1].dirty
    <3>1. Turn(x, k) = y BY <2>4
    <3> HIDE DEF y, Turn
    <3> QED BY <2>1, <2>2, <2>4, <3>1
  <2> QED BY <2>3, <2>4
<1>4. Flushing(Cache, Cache)
  <2>1. IsCache(Cache) BY DEF Sound
  <2>2. Cache.m \in StoreOf(session) BY DEF Held
  <2>3. entry \in FlushEntries(Cache)
    <3>1. AreEntries(entry) BY <2>1 DEF IsCache, Cache
    <3>2. Cache.entry = entry BY DEF Cache
    <3> QED BY <3>1, <3>2 DEF FlushEntries, AreEntries, IsEntry
  <2>4. PICK n, m : n = entry /\ m = Cache.m /\ n \in FlushEntries(Cache) /\ m \in StoreOf(session) BY <2>2, <2>3
  <2>5. Cache = [entry |-> n, hash |-> s_hash_ptr, lru |-> s_cache_lru, cur |-> s_cur_cache,
                 curOffset |-> s_cur_offset, high |-> s_high_offset, seek |-> s_seek_offset, m |-> m]
    BY <2>4 DEF Cache
  <2>6. s_cache_lru \in Entries /\ s_seek_offset \in Nat \cup {-1} BY <2>1 DEF IsCache, Cache
  <2>7. Cache.hash = s_hash_ptr /\ Cache.cur = s_cur_cache /\ Cache.curOffset = s_cur_offset /\ Cache.high = s_high_offset
    BY DEF Cache
  <2>8. Cache \in FlushCaches(Cache) BY <2>4, <2>5, <2>6, <2>7 DEF FlushCaches
  <2> QED BY <2>8 DEF Flushing, SameSeen
<1> HIDE DEF Turn
<1>5. \E a : IsLoop(a) /\ a \in [0 .. NEntries -> S]
  <2> DEFINE step == [p \in S \X (1 .. NEntries) |-> Turn(p[1], p[2])]
  <2>1. step \in [S \X (1 .. NEntries) -> S] BY <1>3 DEF Flushing
  <2>2. Cache \in S BY <1>4 DEF Flushing
  <2>3. PICK a : TurnsOf(a, S, Cache, NEntries, step)
    <3> HIDE DEF step, S
    <3> QED BY <1>2, <2>1, <2>2, LoopExists
  <2>4. a \in [0 .. NEntries -> S] /\ a[0] = Cache /\ \A k \in 1 .. NEntries : a[k] = step[<<a[k - 1], k>>]
    BY <2>3 DEF TurnsOf
  <2>5. ASSUME NEW k \in 1 .. NEntries PROVE a[k] = Turn(a[k - 1], k)
    <3>1. a[k - 1] \in S BY <2>4, <1>2
    <3> QED BY <2>4, <3>1
  <2> HIDE DEF step, S
  <2>6. \A k \in 0 .. NEntries : a[k] = IF k = 0 THEN Cache ELSE Turn(a[k - 1], k)
    BY <1>2, <2>4, <2>5
  <2>7. IsLoop(a)
    <3>1. a = [k \in 0 .. NEntries |-> a[k]] BY <2>4
    <3> QED BY <2>6, <3>1 DEF Turn
  <2> QED BY <2>4, <2>7
<1>6. IsLoop(after)
  <2> HIDE DEF IsLoop
  <2> QED BY <1>5
<1> HIDE DEF after
<1>7. after[0] = Cache /\ \A k \in 1 .. NEntries : after[k] = Turn(after[k - 1], k)
  <2> DEFINE Value(k) == IF k = 0 THEN Cache
                         ELSE IF after[k - 1].entry[k - 1].dirty THEN write_cache_lru([after[k - 1] EXCEPT !.lru = k - 1])
                         ELSE [after[k - 1] EXCEPT !.lru = k - 1]
  <2>1. after = [k \in 0 .. NEntries |-> Value(k)] BY <1>6
  <2>2. Value(0) = Cache OBVIOUS
  <2>3. ASSUME NEW k \in 1 .. NEntries PROVE Value(k) = Turn(after[k - 1], k)
    <3>1. k # 0 BY <1>2
    <3> QED BY <3>1, Zenon DEF Turn
  <2>4. 0 \in 0 .. NEntries /\ \A k \in 1 .. NEntries : k \in 0 .. NEntries BY <1>2
  <2> HIDE DEF Value
  <2>5. \A k \in 0 .. NEntries : after[k] = Value(k) BY <2>1
  <2> QED BY <2>2, <2>3, <2>4, <2>5
<1> HIDE DEF IsLoop
<1> DEFINE Good(k) == Flushing(Cache, after[k]) /\ \A e \in Entries : e < k => ~after[k].entry[e].dirty
           P == {k \in 0 .. NEntries : Good(k)}
<1>8. Good(0)
  <2>1. \A e \in Entries : ~(e < 0) BY DEF Entries
  <2> QED BY <1>4, <1>7, <2>1
<1>9. ASSUME NEW k \in 1 .. NEntries, Good(k - 1) PROVE Good(k)
  <2>1. Flushing(Cache, after[k - 1]) BY <1>9
  <2>2. /\ Flushing(Cache, after[k]) /\ ~after[k].entry[k - 1].dirty
        /\ \A e \in Entries : after[k].entry[e].dirty => after[k - 1].entry[e].dirty
    BY <1>3, <1>7, <2>1
  <2>3. ASSUME NEW e \in Entries, e < k PROVE e = k - 1 \/ e < k - 1 BY <1>2, <2>3 DEF Entries
  <2> QED BY <1>9, <2>2, <2>3
<1>10. Good(NEntries)
  <2>1. P \subseteq 0 .. NEntries OBVIOUS
  <2>2. 0 \in P BY <1>2, <1>8
  <2>3. ASSUME NEW k \in 1 .. NEntries, k - 1 \in P PROVE k \in P
    <3> HIDE DEF Good
    <3> QED BY <1>2, <1>9, <2>3
  <2>4. \A k \in 0 .. NEntries : k \in P
    <3> HIDE DEF P
    <3> QED BY <1>2, <2>1, <2>2, <2>3, Turns
  <2> HIDE DEF Good
  <2> QED BY <1>2, <2>4
<1>11. \A e \in Entries : e < NEntries BY <1>2 DEF Entries
<1> QED BY <1>1, <1>10, <1>11

\* With no entry dirty the store has what is seen.
LEMMA CleanStored ==
  ASSUME NEW s, IsSession(s), s.kind # "queue", NEW c, Held(s, c), \A e \in Entries : ~c.entry[e].dirty,
         NEW o, IsBlock(s, o), NEW i \in Indexes
  PROVE  Seen(s, c, o, i) = StoredPixel(s, c.m, o + i)
<1>1. CASE Has(c, o)
  <2>1. At(c, o) \in Entries /\ c.entry[At(c, o)].offset = o BY <1>1 DEF Has, At
  <2>2. ~IsPreset(c.entry[At(c, o)]) BY <2>1 DEF IsPreset, IsBlock
  <2>3. AsStored(s, c, c.entry[At(c, o)]) BY <2>1, <2>2 DEF Held
  <2> QED BY <1>1, <2>1, <2>3 DEF AsStored, Seen
<1>2. CASE ~Has(c, o) BY <1>2 DEF Seen
<1> QED BY <1>1, <1>2

\* A pixel of a Targa file is the byte at its offset behind the header.
LEMMA TargaPixel ==
  ASSUME NEW s, IsSession(s), s.kind = "targa", NEW m \in StoreOf(s), NEW offset \in Nat, Place(s, offset) \in Addresses(s)
  PROVE  StoredPixel(s, m, offset) = ByteOf(m, offset + s.header)
<1>1. SessionType(s) /\ PerByte(s) = 1
  BY DEF IsSession, PerByte, ShiftOf
<1>2. offset \div 1 = offset /\ offset % 1 = 0 BY Z3
<1>3. Place(s, offset) = offset + s.header BY <1>1, <1>2 DEF Place
<1>5. LastBlock(s) \in Nat BY SomeBlocks
<1>4. PICK a \in Nat : a = offset + s.header /\ a < (LastBlock(s) + 1) * BLOCK_LEN
  <2>1. s.header \in Nat BY BlockAssumption DEF IsSession, SessionType
  <2>2. PICK end \in Nat : end = (LastBlock(s) + 1) * BLOCK_LEN BY <1>5, BlockAssumption
  <2>3. offset + s.header \in 0 .. end - 1 BY <1>3, <2>2 DEF Addresses
  <2> QED BY <2>1, <2>2, <2>3
<1>6. a \div BLOCK_LEN \in 0 .. LastBlock(s) /\ a % BLOCK_LEN \in 0 .. BLOCK_LEN - 1 BY <1>4, <1>5, AddressPlace
<1>7. ByteOf(m, a) \in 0 .. 255
  <2> DEFINE b == a \div BLOCK_LEN
             j == a % BLOCK_LEN
  <2>1. m.buf \in BlockBytesSet /\ m.blocks[b] \in BlockBytesSet BY <1>6 DEF StoreOf
  <2> HIDE DEF b, j
  <2>2. j \in 0 .. BLOCK_LEN - 1 BY <1>6 DEF j
  <2>3. ByteAt(m, b, j) \in 0 .. 255 BY <2>1, <2>2 DEF BlockBytesSet, ByteAt
  <2> QED BY <2>3 DEF ByteOf, b, j
<1>8. PixelOf(s, ByteOf(m, a), 0) = ByteOf(m, a)
  <2>1. 0 \in 0 .. PerByte(s) - 1 BY <1>1
  <2> QED BY <1>1, <1>7, <2>1, PixelRange
<1> QED BY <1>1, <1>2, <1>3, <1>4, <1>8 DEF StoredPixel

\* When a Targa session ends, each pixel whose block is not in the buffer is in the file as
\* it was last seen (end_disk, write_cache_lru, mem_putc, mem_seek).
THEOREM TargaFileWritten == QSpec => TargaWritten
<1>1. ASSUME IInv, Kept, session.kind = "targa", NEW p \in Points(session)
      PROVE  LET a == p[2] * session.rowSize + p[1] + session.header
             IN  a \div BLOCK_LEN = Flushed.m.offset \/ FileWritten[a \div BLOCK_LEN][a % BLOCK_LEN] = Visible(a - session.header)
  <2> DEFINE offset == OffsetOf(session, p)
             o == block_offset(offset)
             i == block_index(offset)
             a == offset + session.header
             F == Flushed
  <2>1. IsSession(session) /\ Sound(Cache) /\ Held(session, Cache) /\ session # Closed
    BY <1>1, SessionTypes DEF IInv, SessionOK, Kept, HeldOK, Stores
  <2>2. offset \in Nat /\ offset < Area(session) BY <2>1, PointOffset DEF IsSession
  <2>3. session.header \in Nat /\ Area(session) \in Nat BY <2>1, BlockAssumption DEF IsSession, SessionType, Area
  <2>4. Flushing(Cache, F) /\ \A e \in Entries : ~F.entry[e].dirty BY <2>1, FlushClean
  <2>5. a - session.header = offset BY <2>2, <2>3
  <2>6. p[2] * session.rowSize + p[1] + session.header = a BY DEF OffsetOf
  <2>7. Visible(offset) = SeenAt(session, Cache, offset)
    <3>1. Visible(offset) = LookAt(session, Cache, offset) BY DEF Visible
    <3> HIDE DEF offset
    <3> QED BY <2>1, <2>2, <3>1, LookSeen
  <2>8. o \in BlockStarts /\ o \in Nat /\ i \in Indexes /\ offset = o + i /\ o < Area(session)
    <3> HIDE DEF offset
    <3>1. o \in BlockStarts /\ i \in Indexes /\ offset = o + i BY <2>2, BlockStart DEF Indexes
    <3>2. o \in Nat /\ i \in Nat BY <3>1, BlockAssumption DEF BlockStarts, Indexes
    <3> QED BY <2>2, <2>3, <3>1, <3>2
  <2>9. IsBlock(session, o) BY <2>8 DEF IsBlock, BlockStarts
  <2> HIDE DEF offset, o, i, F
  <2>10. Seen(session, F, o, i) = Seen(session, Cache, o, i) BY <2>4, <2>8, <2>9 DEF Flushing, SameSeen
  <2>11. Seen(session, F, o, i) = StoredPixel(session, F.m, offset)
    <3>1. Held(session, F) BY <2>4 DEF Flushing
    <3>2. Seen(session, F, o, i) = StoredPixel(session, F.m, o + i) BY <1>1, <2>1, <2>4, <2>8, <2>9, <3>1, CleanStored
    <3> QED BY <2>8, <3>2
  <2>12. StoredPixel(session, F.m, offset) = ByteOf(F.m, a)
    <3>1. F.m \in StoreOf(session) BY <2>4 DEF Flushing, FlushCaches
    <3>2. Place(session, o + i) \in Addresses(session) BY <2>1, <2>8, <2>9, PixelAddress DEF Indexes
    <3> QED BY <1>1, <2>1, <2>2, <2>8, <3>1, <3>2, TargaPixel
  <2>13. Visible(offset) = ByteOf(F.m, a)
    BY <2>7, <2>10, <2>11, <2>12 DEF SeenAt, o, i
  <2>14. FileWritten = F.m.blocks BY <1>1, <2>1 DEF FileWritten, F
  <2>15. ASSUME a \div BLOCK_LEN # F.m.offset
         PROVE  FileWritten[a \div BLOCK_LEN][a % BLOCK_LEN] = Visible(a - session.header)
    BY <2>5, <2>13, <2>14, <2>15 DEF ByteOf, ByteAt
  <2> HIDE DEF a
  <2>16. a \div BLOCK_LEN = F.m.offset \/ FileWritten[a \div BLOCK_LEN][a % BLOCK_LEN] = Visible(a - session.header)
    BY <2>15
  <2> QED BY <2>6, <2>16, Zenon DEF F
<1> DEFINE Good(p) == LET a == p[2] * session.rowSize + p[1] + session.header
                      IN  a \div BLOCK_LEN = Flushed.m.offset
                          \/ FileWritten[a \div BLOCK_LEN][a % BLOCK_LEN] = Visible(a - session.header)
<1>2. IInv => (Kept /\ session.kind = "targa" => \A p \in Points(session) : Good(p)) BY <1>1
<1>3. IInv => [Kept /\ session.kind = "targa" /\ session' = Closed => \A p \in Points(session) : Good(p)]_vars
  <2> HIDE DEF Good
  <2> QED BY <1>2
<1> QED BY <1>3, CacheIInv, PTL DEF TargaWritten

=============================================================================
