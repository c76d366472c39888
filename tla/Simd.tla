--------------------------------- MODULE Simd ---------------------------------
(***************************************************************************)
(* The x86 vector instructions the kernels are written with.  A register   *)
(* is a function from its elements, numbered from 0 in memory order; what  *)
(* an element is (an integer, or the name of a weight) is the caller's     *)
(* choice wherever an instruction only moves elements.                     *)
(***************************************************************************)
EXTENDS Integers, FiniteSetsExt

(* A register of n elements from an operator on indices is [i \in 0 .. n-1 *)
(* |-> ...]; Width(x) is n.                                                *)
Width(x) == Cardinality(DOMAIN x)

(* unpacklo / unpackhi on words: within each group of four words, g = 1    *)
(* for epi32 and g = 2 for epi64.                                          *)
Unpack(x, y, g, base) ==
  [i \in DOMAIN x |->
     LET j == i % 4
         w == i - j + base + g * (j \div (2 * g)) + (j % g)
     IN IF (j \div g) % 2 = 0 THEN x[w] ELSE y[w]]
UnpackLo(x, y, g) == Unpack(x, y, g, 0)
UnpackHi(x, y, g) == Unpack(x, y, g, 2)

(* permute2x128: half h of x, then half h of y. *)
Halves(x, y, h) ==
  LET n == Width(x) \div 2
  IN [i \in DOMAIN x |-> IF i < n THEN x[h * n + i] ELSE y[h * n + i - n]]

(* shuffle_i32x4 with 0x88 (h = 0) or 0xDD (h = 1): the 128-bit lanes h    *)
(* and h + 2 of x, then of y.                                              *)
Lanes4(x, y, h) ==
  [i \in 0 .. 15 |->
     LET l == i \div 4
         from == 4 * (h + 2 * (l % 2)) + (i % 4)
     IN IF l < 2 THEN x[from] ELSE y[from]]

Total(f) == MapThenSumSet(LAMBDA i : f[i], DOMAIN f)

(* Sixteen-bit results: saturated by vpmaddubsw and vpackssdw, wrapped by  *)
(* vpaddw and vphaddw.                                                     *)
Sat16(v) == IF v > 32767 THEN 32767 ELSE IF v < -32768 THEN -32768 ELSE v
Wrap16(v) == ((v + 32768) % 65536) - 32768

(* vpmaddubsw: unsigned bytes u times signed bytes s, in pairs. *)
MaddUbs(u, s) ==
  [i \in 0 .. Width(u) \div 2 - 1 |->
     Sat16(u[2 * i] * s[2 * i] + u[2 * i + 1] * s[2 * i + 1])]

(* vpmaddwd against ones: pairs of 16-bit elements to 32 bits. *)
MaddOnes(x) == [i \in 0 .. Width(x) \div 2 - 1 |-> x[2 * i] + x[2 * i + 1]]

(* vpdpbusd: four byte products per 32-bit element, added to acc. *)
DpBusd(acc, u, s) ==
  [i \in DOMAIN acc |->
     acc[i] + u[4 * i] * s[4 * i] + u[4 * i + 1] * s[4 * i + 1]
            + u[4 * i + 2] * s[4 * i + 2] + u[4 * i + 3] * s[4 * i + 3]]

Add16(x, y) == [i \in DOMAIN x |-> Wrap16(x[i] + y[i])]

(* vphaddw: within each group of eight, the pair sums of x and then of y. *)
HAdd16(x, y) ==
  [i \in DOMAIN x |->
     LET j == i % 8
         w == i - j + 2 * (j % 4)
     IN IF j < 4 THEN Wrap16(x[w] + x[w + 1]) ELSE Wrap16(y[w] + y[w + 1])]

=============================================================================
