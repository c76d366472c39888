------------------------------- MODULE LayerProofs -------------------------------
(***************************************************************************)
(* The layers for every input: the fused calls of FusedMlp with any number *)
(* of tasks, any layer sizes and any scheduling, in which no row is        *)
(* computed twice and nothing stale is returned; the integer part of the   *)
(* 1-bit kernels of Q1Dot, and the int8 and ternary kernels of Linear at   *)
(* rows of any length, each of which computes the dot product of the       *)
(* scalar one; the binary kernels, which compute that of the signs; what   *)
(* comes back from packed rows; and how the rows of a product are cut into *)
(* tasks.                                                                  *)
(***************************************************************************)
EXTENDS FusedMlp, FiniteSets, FiniteSetTheorems, WellFoundedInduction, Sequences, TLAPS

Q1D == INSTANCE Q1Dot
Lin == INSTANCE Linear WITH Block <- 64, MinChunk <- 128

-----------------------------------------------------------------------------
(* The fused calls.                                                        *)
Holds(w, r) == claim[w].from <= r /\ r < claim[w].to
(* A scope whose tasks share out rows is running. *)
Sharing == phase = "rows" \/ (phase = "down" /\ call = "mlp_all")

Name == {"stale", "act", "q", "k", "v", "gate", "up", "mid", "down"}

TypeOK ==
  /\ call \in Call /\ phase \in {"rows", "down", "done"}
  /\ next \in Nat /\ running \subseteq Worker
  /\ claim \in [Worker -> [from : Nat, to : Nat]]
  /\ cells \in [Cell -> Name \X Int]

(* What tasks hold is disjoint and behind the counter, and a task that has *)
(* ended saw the counter past the last row.                                *)
Claims ==
  /\ \A w \in Worker : claim[w].from <= claim[w].to
  /\ \A w \in Worker : claim[w].from < claim[w].to =>
       w \in running /\ claim[w].to <= next /\ claim[w].to <= Total(call, phase)
  /\ \A v, w \in Worker : v # w => claim[v].to <= claim[w].from \/ claim[w].to <= claim[v].from
                                    \/ claim[v].from = claim[v].to \/ claim[w].from = claim[w].to
  /\ Sharing => \A w \in Worker \ running : next >= Total(call, phase)

(* A row of the running scope is unclaimed, held by a task, or stored. *)
Stored ==
  Sharing => \A r \in 0 .. Total(call, phase) - 1 :
    cells[Place(call, phase, r)] =
      IF r >= next \/ \E w \in Worker : Holds(w, r) THEN Stale ELSE Place(call, phase, r)

Phases ==
  /\ phase = "rows" => \A i \in 0 .. Out - 1 : cells[<<"down", i>>] = Stale
  /\ phase = "down" => MidWhole /\ call \in {"mlp_all", "mlp_gate_up_down"}
  /\ phase # "rows" /\ ~Sharing => running = {}
  /\ phase = "done" => OutputsWhole

Inv == TypeOK /\ Claims /\ Stored /\ Phases

-----------------------------------------------------------------------------
(* Rows are stored to different cells, each to a cell of the buffers.      *)
LEMMA PlaceInCell ==
  ASSUME NEW c \in Call, NEW p \in {"rows", "down"}, NEW r \in 0 .. Total(c, p) - 1
  PROVE  Place(c, p, r) \in Cell /\ Place(c, p, r) \in Name \X Int
<1>1. ASSUME NEW b \in {"q", "k", "v", "gate", "up", "down"}, NEW i \in Int,
             \/ b = "q" /\ i \in 0 .. Q - 1
             \/ b = "k" /\ i \in 0 .. K - 1
             \/ b = "v" /\ i \in 0 .. V - 1
             \/ b \in {"gate", "up"} /\ i \in 0 .. Inter - 1
             \/ b = "down" /\ i \in 0 .. Out - 1
      PROVE  <<b, i>> \in Cell /\ <<b, i>> \in Name \X Int
  <2>1. <<b, i>> \in Name \X Int BY <1>1 DEF Name
  <2>2. CASE b = "q" BY <1>1, <2>2, <2>1 DEF Cell
  <2>3. CASE b = "k" BY <1>1, <2>3, <2>1 DEF Cell
  <2>4. CASE b = "v" BY <1>1, <2>4, <2>1 DEF Cell
  <2>5. CASE b \in {"gate", "up"} BY <1>1, <2>5, <2>1 DEF Cell
  <2>6. CASE b = "down" BY <1>1, <2>6, <2>1 DEF Cell
  <2> QED BY <2>2, <2>3, <2>4, <2>5, <2>6
<1>2. CASE p = "down"
  <2>1. r \in 0 .. Out - 1 /\ Place(c, p, r) = <<"down", r>> BY <1>2 DEF Place, Total
  <2> QED BY <1>1, <2>1
<1>3. CASE p = "rows" /\ c = "qkv"
  <2>0. r \in 0 .. (Q + K + V) - 1 BY <1>3 DEF Total
  <2>1. CASE r < Q
    <3>1. r \in 0 .. Q - 1 /\ Place(c, p, r) = <<"q", r>> BY <1>3, <2>0, <2>1, SizesAssumption DEF Place
    <3> QED BY <1>1, <3>1
  <2>2. CASE ~(r < Q) /\ r < Q + K
    <3>1. r - Q \in 0 .. K - 1 /\ r - Q \in Int /\ Place(c, p, r) = <<"k", r - Q>>
      BY <1>3, <2>0, <2>2, SizesAssumption DEF Place
    <3> QED BY <1>1, <3>1
  <2>3. CASE ~(r < Q) /\ ~(r < Q + K)
    <3>1. r - Q - K \in 0 .. V - 1 /\ r - Q - K \in Int /\ Place(c, p, r) = <<"v", r - Q - K>>
      BY <1>3, <2>0, <2>3, SizesAssumption DEF Place
    <3> QED BY <1>1, <3>1
  <2> QED BY <2>1, <2>2, <2>3
<1>4. CASE p = "rows" /\ c # "qkv"
  <2>0. r \in 0 .. (Inter + Inter) - 1 BY <1>4 DEF Total
  <2>1. CASE r < Inter
    <3>1. r \in 0 .. Inter - 1 /\ Place(c, p, r) = <<"gate", r>>
      BY <1>4, <2>0, <2>1, SizesAssumption DEF Place
    <3> QED BY <1>1, <3>1
  <2>2. CASE ~(r < Inter)
    <3>1. r - Inter \in 0 .. Inter - 1 /\ r - Inter \in Int /\ Place(c, p, r) = <<"up", r - Inter>>
      BY <1>4, <2>0, <2>2, SizesAssumption DEF Place
    <3> QED BY <1>1, <3>1
  <2> QED BY <2>1, <2>2
<1> QED BY <1>2, <1>3, <1>4

(* compute_row stores no two rows of a scope to the same element.          *)
LEMMA PlaceInjective ==
  ASSUME NEW c \in Call, NEW p \in {"rows", "down"},
         NEW r \in 0 .. Total(c, p) - 1, NEW s \in 0 .. Total(c, p) - 1, r # s
  PROVE  Place(c, p, r) # Place(c, p, s)
<1>1. CASE p = "down" BY <1>1, SizesAssumption DEF Place, Total
<1>2. CASE p = "rows" /\ c = "qkv" BY <1>2, SizesAssumption DEF Place, Total
<1>3. CASE p = "rows" /\ c # "qkv" BY <1>3, SizesAssumption DEF Place, Total
<1> QED BY <1>1, <1>2, <1>3

(* A scope has a natural number of rows, and a claim is never empty.       *)
LEMMA Sized ==
  /\ \A c, p : Total(c, p) \in Nat
  /\ \A n \in Nat : Chunk(n) \in Nat \ {0}
<1>1. \A c, p : Total(c, p) \in Nat BY SizesAssumption DEF Total
<1>2. ASSUME NEW n \in Nat PROVE Chunk(n) \in Nat \ {0}
  <2>1. (n + Threads - 1) \div Threads \in Int BY SizesAssumption
  <2> QED BY <2>1, SizesAssumption DEF Chunk
<1> QED BY <1>1, <1>2

(* Once every task has ended, every row is stored. *)
LEMMA AllStored ==
  ASSUME Inv, Sharing, running = {}, NEW r \in 0 .. Total(call, phase) - 1
  PROVE  cells[Place(call, phase, r)] = Place(call, phase, r)
<1>1. PICK w \in Worker : TRUE BY SizesAssumption
<1>2. next >= Total(call, phase) BY <1>1 DEF Inv, Claims
<1>3. ASSUME NEW v \in Worker PROVE ~Holds(v, r)
  <2>1. claim[v].from \in Nat /\ claim[v].to \in Nat BY DEF Inv, TypeOK
  <2>2. ~(claim[v].from < claim[v].to) BY DEF Inv, Claims
  <2> QED BY <2>1, <2>2 DEF Holds
<1>4. next \in Nat /\ ~(r >= next) BY <1>2, Sized DEF Inv, TypeOK
<1> QED BY <1>3, <1>4 DEF Inv, Stored

(* The invariant holds when a call starts.                                 *)
THEOREM InitInv == Init => Inv
<1> SUFFICES ASSUME Init PROVE Inv OBVIOUS
<1>1. TypeOK
  <2>1. Stale \in Name \X Int BY DEF Stale, Name
  <2>2. Idle \in [from : Nat, to : Nat] BY DEF Idle
  <2> QED BY <2>1, <2>2 DEF Init, TypeOK
<1>2. Claims BY DEF Init, Claims, Idle
<1>3. Stored
  <2>1. ASSUME NEW r \in 0 .. Total(call, phase) - 1 PROVE cells[Place(call, phase, r)] = Stale
    <3>1. Place(call, phase, r) \in Cell BY PlaceInCell DEF Init
    <3> QED BY <3>1 DEF Init
  <2>2. \A r \in 0 .. Total(call, phase) - 1 : r >= next BY DEF Init
  <2> QED BY <2>1, <2>2 DEF Stored
<1>4. Phases
  <2>1. ASSUME NEW i \in 0 .. Out - 1 PROVE cells[<<"down", i>>] = Stale
    BY DEF Init, Cell
  <2> QED BY <2>1 DEF Init, Phases, Sharing
<1> QED BY <1>1, <1>2, <1>3, <1>4 DEF Inv

(* fetch_add: the rows a task gets are new ones, held by nobody else.      *)
LEMMA ClaimKeeps ==
  ASSUME Inv, NEW w \in Worker, Claim(w)
  PROVE  Inv'
<1> DEFINE T == Total(call, phase)
<1>0. /\ T \in Nat /\ Chunk(T) \in Nat \ {0} /\ next \in Nat /\ next' = next + Chunk(T) /\ T' = T
      /\ claim \in [Worker -> [from : Nat, to : Nat]]
      /\ claim[w].from = claim[w].to /\ w \in running /\ running \subseteq Worker
  BY Sized DEF Claim, Advanced, Inv, TypeOK
<1>s. Sharing /\ Sharing' BY <1>0 DEF Inv, Phases, Claim, Sharing
<1>1. CASE next >= T
  <2>1. running' = running \ {w} /\ claim' = claim /\ UNCHANGED <<call, phase, cells>>
    BY <1>1 DEF Claim
  <2>2. TypeOK' BY <1>0, <2>1 DEF Inv, TypeOK
  <2>3. Claims'
    <3>1. \A v \in Worker : claim'[v].from <= claim'[v].to BY <2>1 DEF Inv, Claims
    <3>2. \A v \in Worker : claim'[v].from < claim'[v].to =>
            v \in running' /\ claim'[v].to <= next' /\ claim'[v].to <= T'
      BY <1>0, <2>1 DEF Inv, Claims
    <3>3. \A v \in Worker \ running' : next' >= T' BY <1>0, <1>1
    <3> QED BY <2>1, <3>1, <3>2, <3>3 DEF Inv, Claims
  <2>4. Stored'
    <3> SUFFICES ASSUME NEW r \in 0 .. T - 1
        PROVE cells'[Place(call, phase, r)] =
                IF r >= next' \/ \E v \in Worker : Holds(v, r)' THEN Stale ELSE Place(call, phase, r)
      BY <2>1, <1>0 DEF Stored
    <3>1. ~(r >= next) /\ ~(r >= next') BY <1>0, <1>1
    <3> QED BY <3>1, <2>1, <1>s DEF Inv, Stored, Holds
  <2>5. Phases' BY <2>1, <1>s DEF Inv, Phases, MidWhole, OutputsWhole, Sharing
  <2> QED BY <2>2, <2>3, <2>4, <2>5 DEF Inv
<1>2. CASE next < T
  <2> DEFINE new == Claimed(next, T)
  <2>1. running' = running /\ claim' = [claim EXCEPT ![w] = new] /\ UNCHANGED <<call, phase, cells>>
    BY <1>0, <1>2 DEF Claim
  <2>2. /\ new.from = next /\ new.to \in Nat /\ new.to <= T /\ new.to <= next' /\ next < new.to
        /\ new.to = T \/ new.to = next'
        /\ new \in [from : Nat, to : Nat]
    BY <1>0, <1>2 DEF Claimed
  <2> HIDE DEF new
  <2>3. claim'[w] = new /\ \A v \in Worker : v # w => claim'[v] = claim[v] BY <1>0, <2>1
  <2>4. TypeOK' BY <1>0, <2>1, <2>2 DEF Inv, TypeOK
  <2>5. Claims'
    <3>1. \A v \in Worker : claim'[v].from <= claim'[v].to BY <1>0, <2>2, <2>3 DEF Inv, Claims
    <3>2. ASSUME NEW v \in Worker, claim'[v].from < claim'[v].to
          PROVE v \in running' /\ claim'[v].to <= next' /\ claim'[v].to <= T'
      <4>1. CASE v = w BY <4>1, <1>0, <2>1, <2>2, <2>3
      <4>2. CASE v # w BY <4>2, <3>2, <1>0, <2>1, <2>3 DEF Inv, Claims
      <4> QED BY <4>1, <4>2
    <3>3. ASSUME NEW v \in Worker, NEW u \in Worker, v # u
          PROVE claim'[v].to <= claim'[u].from \/ claim'[u].to <= claim'[v].from
                  \/ claim'[v].from = claim'[v].to \/ claim'[u].from = claim'[u].to
      <4>0. \A x \in Worker : /\ claim[x].from \in Nat /\ claim[x].to \in Nat
                              /\ claim[x].to <= next \/ claim[x].from = claim[x].to
        BY <1>0 DEF Inv, Claims
      <4>1. CASE v = w BY <4>0, <4>1, <3>3, <2>2, <2>3
      <4>2. CASE u = w BY <4>0, <4>2, <3>3, <2>2, <2>3
      <4>3. CASE v # w /\ u # w BY <4>3, <3>3, <2>3 DEF Inv, Claims
      <4> QED BY <4>1, <4>2, <4>3
    <3>4. \A v \in Worker \ running' : next' >= T'
      BY <1>0, <1>s, <1>2, <2>1 DEF Inv, Claims
    <3> QED BY <3>1, <3>2, <3>3, <3>4 DEF Claims
  <2>6. Stored'
    <3> SUFFICES ASSUME NEW r \in 0 .. T - 1
        PROVE cells'[Place(call, phase, r)] =
                IF r >= next' \/ \E v \in Worker : Holds(v, r)' THEN Stale ELSE Place(call, phase, r)
      BY <2>1, <1>0 DEF Stored
    <3>1. cells'[Place(call, phase, r)] =
            IF r >= next \/ \E v \in Worker : Holds(v, r) THEN Stale ELSE Place(call, phase, r)
      BY <1>s, <2>1 DEF Inv, Stored
    <3>2. Holds(w, r)' <=> next <= r /\ r < new.to BY <2>2, <2>3 DEF Holds
    <3>3. ~Holds(w, r) BY <1>0 DEF Holds
    <3>4. \A v \in Worker : v # w => (Holds(v, r)' <=> Holds(v, r)) BY <2>3 DEF Holds
    <3>5. r >= next <=> r >= next' \/ Holds(w, r)' BY <1>0, <2>2, <3>2
    <3> QED BY <3>1, <3>3, <3>4, <3>5
  <2>7. Phases' BY <2>1, <1>s DEF Inv, Phases, MidWhole, OutputsWhole, Sharing
  <2> QED BY <2>4, <2>5, <2>6, <2>7 DEF Inv
<1> QED BY <1>0, <1>1, <1>2

(* A task stores the row it holds; no other row is stored there. *)
LEMMA ComputeKeeps ==
  ASSUME Inv, NEW w \in Worker, Compute(w)
  PROVE  Inv'
<1> DEFINE T == Total(call, phase)
<1> DEFINE m == claim[w].from
<1> DEFINE place == Place(call, phase, m)
<1>0. /\ T \in Nat /\ next \in Nat /\ call \in Call /\ UNCHANGED <<call, phase, next, running>> /\ T' = T
      /\ claim \in [Worker -> [from : Nat, to : Nat]] /\ m \in Nat /\ claim[w].to \in Nat
      /\ m < claim[w].to /\ claim[w].to <= next /\ claim[w].to <= T /\ w \in running
      /\ cells \in [Cell -> Name \X Int]
  BY Sized DEF Compute, Inv, TypeOK, Claims
<1>s. Sharing /\ Sharing' /\ phase \in {"rows", "down"}
  BY <1>0 DEF Inv, Phases, Sharing
<1>1. m \in 0 .. T - 1 BY <1>0
<1>2. place \in Cell /\ place \in Name \X Int BY <1>0, <1>1, <1>s, PlaceInCell
<1>3. Dot(phase, place) = place BY <1>s DEF Dot, Inv, Phases
<1>4. cells' = [cells EXCEPT ![place] = place] BY <1>3 DEF Compute
<1>5. /\ claim'[w].from = m + 1 /\ claim'[w].to = claim[w].to
      /\ \A v \in Worker : v # w => claim'[v] = claim[v]
      /\ claim' \in [Worker -> [from : Nat, to : Nat]]
  BY <1>0 DEF Compute
<1>6. \A c \in Cell : c # place => cells'[c] = cells[c] BY <1>0, <1>4
<1>7. cells'[place] = place BY <1>0, <1>2, <1>4
<1> HIDE DEF place
<1>8. TypeOK' BY <1>0, <1>2, <1>4, <1>5 DEF Inv, TypeOK
<1>9. Claims'
  <2>1. \A v \in Worker : claim'[v].from <= claim'[v].to BY <1>0, <1>5 DEF Inv, Claims
  <2>2. \A v \in Worker : claim'[v].from < claim'[v].to =>
          v \in running' /\ claim'[v].to <= next' /\ claim'[v].to <= T'
    BY <1>0, <1>5 DEF Inv, Claims
  <2>3. ASSUME NEW v \in Worker, NEW u \in Worker, v # u
        PROVE claim'[v].to <= claim'[u].from \/ claim'[u].to <= claim'[v].from
                \/ claim'[v].from = claim'[v].to \/ claim'[u].from = claim'[u].to
    <3>1. \A x \in Worker : claim[x].from \in Nat /\ claim[x].to \in Nat BY <1>0
    <3>2. claim[v].to <= claim[u].from \/ claim[u].to <= claim[v].from
            \/ claim[v].from = claim[v].to \/ claim[u].from = claim[u].to
      BY <2>3 DEF Inv, Claims
    <3>3. CASE v = w BY <1>0, <1>5, <2>3, <3>1, <3>2, <3>3
    <3>4. CASE u = w BY <1>0, <1>5, <2>3, <3>1, <3>2, <3>4
    <3>5. CASE v # w /\ u # w BY <1>5, <3>2, <3>5
    <3> QED BY <3>3, <3>4, <3>5
  <2>4. \A v \in Worker \ running' : next' >= T' BY <1>0, <1>s DEF Inv, Claims
  <2> QED BY <2>1, <2>2, <2>3, <2>4 DEF Claims
<1>10. Stored'
  <2> SUFFICES ASSUME NEW r \in 0 .. T - 1
      PROVE cells'[Place(call, phase, r)] =
              IF r >= next \/ \E v \in Worker : Holds(v, r)' THEN Stale ELSE Place(call, phase, r)
    BY <1>0 DEF Stored
  <2>1. cells[Place(call, phase, r)] =
          IF r >= next \/ \E v \in Worker : Holds(v, r) THEN Stale ELSE Place(call, phase, r)
    BY <1>s DEF Inv, Stored
  <2>2. CASE r = m
    <3>1. ~(r >= next) BY <1>0, <2>2
    <3>2. ASSUME NEW v \in Worker PROVE ~Holds(v, r)'
      <4>1. CASE v = w BY <1>0, <1>5, <2>2, <4>1 DEF Holds
      <4>2. CASE v # w
        <5>1. claim[v].from \in Nat /\ claim[v].to \in Nat BY <1>0
        <5>2. claim[v].to <= claim[w].from \/ claim[w].to <= claim[v].from \/ claim[v].from = claim[v].to
          BY <1>0, <4>2 DEF Inv, Claims
        <5>3. ~Holds(v, r) BY <1>0, <2>2, <5>1, <5>2 DEF Holds
        <5> QED BY <1>5, <4>2, <5>3 DEF Holds
      <4> QED BY <4>1, <4>2
    <3> QED BY <1>7, <2>2, <3>1, <3>2 DEF place
  <2>3. CASE r # m
    <3>1. Place(call, phase, r) # place BY <1>0, <1>1, <1>s, <2>3, PlaceInjective DEF place
    <3>2. Place(call, phase, r) \in Cell BY <1>0, <1>s, PlaceInCell
    <3>3. Holds(w, r)' <=> Holds(w, r)
      <4>1. r \in Nat BY <1>0
      <4>2. m + 1 <= r <=> m <= r BY <1>0, <2>3, <4>1
      <4> QED BY <1>5, <4>2 DEF Holds
    <3>4. \A v \in Worker : Holds(v, r)' <=> Holds(v, r) BY <1>5, <3>3 DEF Holds
    <3> QED BY <1>6, <2>1, <3>1, <3>2, <3>4
  <2> QED BY <2>2, <2>3
<1>11. Phases'
  <2>1. ASSUME phase = "rows", NEW i \in 0 .. Out - 1 PROVE cells'[<<"down", i>>] = Stale
    <3>1. <<"down", i>> # place BY <2>1 DEF place, Place
    <3>2. <<"down", i>> \in Cell BY DEF Cell
    <3> QED BY <1>6, <2>1, <3>1, <3>2 DEF Inv, Phases
  <2>2. ASSUME phase = "down" PROVE MidWhole'
    <3> SUFFICES ASSUME NEW i \in 0 .. Inter - 1 PROVE cells'[<<"mid", i>>] = Activated(i)
      BY DEF MidWhole, Activated
    <3>1. <<"mid", i>> # place BY <2>2 DEF place, Place
    <3>2. <<"mid", i>> \in Cell BY DEF Cell
    <3> QED BY <1>6, <2>2, <3>1, <3>2 DEF Inv, Phases, MidWhole
  <2> QED BY <1>0, <1>s, <2>1, <2>2 DEF Inv, Phases
<1> QED BY <1>8, <1>9, <1>10, <1>11 DEF Inv

(* Every element of an output is the place of a row. *)
LEMMA PlaceOnto ==
  ASSUME NEW c \in Cell, NEW f \in Call,
         \/ f \in {"qkv", "gate_up"} /\ c[1] \in Result(f)
         \/ f \in {"mlp_all", "mlp_gate_up_down"} /\ c[1] \in {"gate", "up"}
  PROVE  \E r \in 0 .. Total(f, "rows") - 1 : Place(f, "rows", r) = c
<1>1. CASE f = "qkv"
  <2>1. CASE c[1] = "q"
    <3>1. c = <<"q", c[2]>> /\ c[2] \in 0 .. Q - 1 BY <2>1 DEF Cell
    <3>2. c[2] \in 0 .. Total(f, "rows") - 1 /\ Place(f, "rows", c[2]) = c
      BY <1>1, <3>1, SizesAssumption DEF Total, Place
    <3> QED BY <3>2
  <2>2. CASE c[1] = "k"
    <3>1. c = <<"k", c[2]>> /\ c[2] \in 0 .. K - 1 BY <2>2 DEF Cell
    <3>2. /\ Q + c[2] \in 0 .. Total(f, "rows") - 1 /\ ~(Q + c[2] < Q) /\ Q + c[2] < Q + K
          /\ (Q + c[2]) - Q = c[2]
      BY <1>1, <3>1, SizesAssumption DEF Total
    <3>3. Place(f, "rows", Q + c[2]) = c BY <1>1, <3>1, <3>2 DEF Place
    <3> QED BY <3>2, <3>3
  <2>3. CASE c[1] = "v"
    <3>1. c = <<"v", c[2]>> /\ c[2] \in 0 .. V - 1 BY <2>3 DEF Cell
    <3> DEFINE r == Q + K + c[2]
    <3>2. r \in 0 .. Total(f, "rows") - 1 /\ ~(r < Q) /\ ~(r < Q + K) /\ r - Q - K = c[2]
      BY <1>1, <3>1, SizesAssumption DEF Total
    <3> HIDE DEF r
    <3>3. Place(f, "rows", r) = c BY <1>1, <3>1, <3>2 DEF Place
    <3> QED BY <3>2, <3>3
  <2> QED BY <1>1, <2>1, <2>2, <2>3 DEF Result
<1>2. CASE f # "qkv"
  <2>0. Total(f, "rows") = Inter + Inter BY <1>2 DEF Total
  <2>1. CASE c[1] = "gate"
    <3>1. c = <<"gate", c[2]>> /\ c[2] \in 0 .. Inter - 1 BY <2>1 DEF Cell
    <3>2. c[2] \in 0 .. Total(f, "rows") - 1 /\ Place(f, "rows", c[2]) = c
      BY <1>2, <2>0, <3>1, SizesAssumption DEF Place
    <3> QED BY <3>2
  <2>2. CASE c[1] = "up"
    <3>1. c = <<"up", c[2]>> /\ c[2] \in 0 .. Inter - 1 BY <2>2 DEF Cell
    <3> DEFINE r == Inter + c[2]
    <3>2. r \in 0 .. Total(f, "rows") - 1 /\ ~(r < Inter) /\ r - Inter = c[2]
      BY <2>0, <3>1, SizesAssumption
    <3> HIDE DEF r
    <3>3. Place(f, "rows", r) = c BY <1>2, <3>1, <3>2 DEF Place
    <3> QED BY <3>2, <3>3
  <2> QED BY <1>2, <2>1, <2>2 DEF Result
<1> QED BY <1>1, <1>2

(* The scope has ended, so a plain call returns rows that are all stored.  *)
LEMMA ReturnKeeps == ASSUME Inv, Return PROVE Inv'
<1>0. running = {} /\ phase' = "done" /\ UNCHANGED <<call, next, running, claim, cells>> BY DEF Return
<1>1. TypeOK' BY <1>0 DEF Inv, TypeOK
<1>2. ~Sharing' BY <1>0 DEF Sharing
<1>3. Claims'
  <2>1. \A w \in Worker : ~(claim[w].from < claim[w].to) BY <1>0 DEF Inv, Claims
  <2> QED BY <1>0, <1>2, <2>1 DEF Inv, Claims
<1>4. OutputsWhole'
  <2> SUFFICES ASSUME NEW c \in Cell, c[1] \in Result(call) PROVE cells[c] = c
    BY <1>0 DEF OutputsWhole
  <2>1. CASE phase = "rows" /\ call \in {"qkv", "gate_up"}
    <3>0. \E r \in 0 .. Total(call, "rows") - 1 : Place(call, "rows", r) = c
      <4>1. call \in {"qkv", "gate_up"} /\ c[1] \in Result(call) BY <2>1
      <4>2. call \in Call BY DEF Inv, TypeOK
      <4> QED BY <4>1, <4>2, PlaceOnto
    <3>1. PICK r \in 0 .. Total(call, phase) - 1 : Place(call, phase, r) = c BY <2>1, <3>0
    <3> QED BY <1>0, <2>1, <3>1, AllStored DEF Sharing
  <2>2. CASE phase = "down" /\ call = "mlp_all"
    <3>1. c = <<"down", c[2]>> /\ c[2] \in 0 .. Out - 1 BY <2>2 DEF Result, Cell
    <3>2. c[2] \in 0 .. Total(call, phase) - 1 /\ Place(call, phase, c[2]) = c
      BY <2>2, <3>1 DEF Total, Place
    <3> QED BY <1>0, <2>2, <3>2, AllStored DEF Sharing
  <2> QED BY <2>1, <2>2 DEF Return
<1>5. Phases' BY <1>0, <1>2, <1>4 DEF Phases
<1> QED BY <1>1, <1>2, <1>3, <1>5 DEF Inv, Stored

(* The activation reads gate and up when they are whole, and leaves the    *)
(* rows of down as unclaimed as those of a first scope.                    *)
LEMMA ActivateKeeps == ASSUME Inv, Activate PROVE Inv'
<1>0. /\ phase = "rows" /\ running = {} /\ call \in {"mlp_all", "mlp_gate_up_down"} /\ phase' = "down"
      /\ cells' = [c \in Cell |-> CASE c[1] = "mid" -> Mid(c[2])
                                   [] c[1] \in {"gate", "up"} -> Stale
                                   [] OTHER -> cells[c]]
      /\ next' = 0 /\ UNCHANGED <<call, claim>>
      /\ running' = IF call = "mlp_all" THEN Worker ELSE {}
      /\ Sharing
  BY DEF Activate, Sharing
<1>1. \A i \in 0 .. Inter - 1 : cells[<<"gate", i>>] = <<"gate", i>> /\ cells[<<"up", i>>] = <<"up", i>>
  <2>1. ASSUME NEW i \in 0 .. Inter - 1, NEW b \in {"gate", "up"} PROVE cells[<<b, i>>] = <<b, i>>
    <3>1. <<b, i>> \in Cell /\ <<b, i>>[1] = b BY <2>1 DEF Cell
    <3>2. PICK r \in 0 .. Total(call, phase) - 1 : Place(call, phase, r) = <<b, i>>
      BY <1>0, <3>1, PlaceOnto DEF Inv, TypeOK
    <3> QED BY <1>0, <3>2, AllStored
  <2> QED BY <2>1
<1>2. \A i \in 0 .. Inter - 1 : cells'[<<"mid", i>>] = Activated(i)
  <2> SUFFICES ASSUME NEW i \in 0 .. Inter - 1 PROVE cells'[<<"mid", i>>] = Activated(i) OBVIOUS
  <2>1. <<"mid", i>> \in Cell BY DEF Cell
  <2>2. cells'[<<"mid", i>>] = Mid(i) BY <1>0, <2>1
  <2> QED BY <1>1, <2>2 DEF Mid
<1>3. \A i \in 0 .. Out - 1 : cells'[<<"down", i>>] = Stale
  <2> SUFFICES ASSUME NEW i \in 0 .. Out - 1 PROVE cells'[<<"down", i>>] = Stale OBVIOUS
  <2>1. <<"down", i>> \in Cell BY DEF Cell
  <2> QED BY <1>0, <2>1 DEF Inv, Phases
<1>4. TypeOK'
  <2>1. ASSUME NEW c \in Cell PROVE cells'[c] \in Name \X Int
    <3>1. Stale \in Name \X Int BY DEF Stale, Name
    <3>2. CASE c[1] = "mid"
      <4>1. c[2] \in Int BY <3>2 DEF Cell
      <4>2. Activated(c[2]) \in Name \X Int BY <4>1 DEF Activated, Name
      <4> QED BY <1>0, <3>1, <3>2, <4>2 DEF Mid
    <3>3. CASE c[1] \in {"gate", "up"} BY <1>0, <3>1, <3>3
    <3>4. CASE c[1] \notin {"mid", "gate", "up"} BY <1>0, <3>4 DEF Inv, TypeOK
    <3> QED BY <3>2, <3>3, <3>4
  <2>2. cells' \in [Cell -> Name \X Int] BY <1>0, <2>1
  <2> QED BY <1>0, <2>2 DEF Inv, TypeOK
<1>5. Claims'
  <2>1. \A w \in Worker : ~(claim[w].from < claim[w].to) BY <1>0 DEF Inv, Claims
  <2>2. Sharing' => Worker \ running' = {} BY <1>0 DEF Sharing
  <2> QED BY <1>0, <2>1, <2>2 DEF Inv, Claims
<1>6. Stored'
  <2> SUFFICES ASSUME NEW r \in 0 .. Out - 1
      PROVE cells'[Place(call, "down", r)] =
              IF r >= 0 \/ \E w \in Worker : Holds(w, r)' THEN Stale ELSE Place(call, "down", r)
    BY <1>0, Zenon DEF Stored, Total
  <2>1. r >= 0 BY SizesAssumption
  <2> QED BY <1>3, <2>1 DEF Place
<1>7. Phases' BY <1>0, <1>2 DEF Phases, Sharing, MidWhole, Activated
<1> QED BY <1>4, <1>5, <1>6, <1>7 DEF Inv

(* The down layer reads an activation that is whole.                       *)
LEMMA DownForwardKeeps == ASSUME Inv, DownForward PROVE Inv'
<1>0. /\ phase = "down" /\ call = "mlp_gate_up_down" /\ phase' = "done"
      /\ cells' = [c \in Cell |-> IF c[1] = "down" THEN Dot(phase, c) ELSE cells[c]]
      /\ UNCHANGED <<call, next, running, claim>> /\ running = {}
  BY DEF DownForward, Inv, Phases, Sharing
<1>1. \A c : Dot(phase, c) = c BY <1>0 DEF Dot, Inv, Phases
<1>2. TypeOK'
  <2>1. ASSUME NEW c \in Cell, c[1] = "down" PROVE c \in Name \X Int BY <2>1 DEF Cell, Name
  <2>2. cells' \in [Cell -> Name \X Int] BY <1>0, <1>1, <2>1 DEF Inv, TypeOK
  <2> QED BY <1>0, <2>2 DEF Inv, TypeOK
<1>3. ~Sharing' BY <1>0 DEF Sharing
<1>4. Claims'
  <2>1. \A w \in Worker : ~(claim[w].from < claim[w].to) BY <1>0 DEF Inv, Claims
  <2> QED BY <1>0, <1>3, <2>1 DEF Inv, Claims
<1>5. OutputsWhole' BY <1>0, <1>1 DEF OutputsWhole, Result
<1> QED BY <1>0, <1>2, <1>3, <1>4, <1>5 DEF Inv, Stored, Phases

(* Every step keeps the invariant.                                         *)
THEOREM NextInv == Inv /\ [Next]_vars => Inv'
<1> SUFFICES ASSUME Inv, [Next]_vars PROVE Inv' OBVIOUS
<1>1. CASE \E w \in Worker : Claim(w) BY <1>1, ClaimKeeps
<1>2. CASE \E w \in Worker : Compute(w) BY <1>2, ComputeKeeps
<1>3. CASE Return BY <1>3, ReturnKeeps
<1>4. CASE Activate BY <1>4, ActivateKeeps
<1>5. CASE DownForward BY <1>5, DownForwardKeeps
<1>6. CASE UNCHANGED vars
  BY <1>6 DEF vars, Inv, TypeOK, Claims, Stored, Phases, Sharing, Holds, MidWhole, OutputsWhole
<1> QED BY <1>1, <1>2, <1>3, <1>4, <1>5, <1>6 DEF Next

(* The rows the tasks hold are disjoint and none of them has been stored,  *)
(* and the outputs of a call that has ended are all of that call           *)
(* (FusedExact), however many tasks there are, whatever the sizes of the   *)
(* layers and of a claim, and however the tasks are scheduled.             *)
THEOREM RowsWrittenOnce == Spec => []FusedExact
<1>1. Inv => FusedExact
  <2> SUFFICES ASSUME Inv PROVE FusedExact OBVIOUS
  <2>1. ASSUME NEW w \in Worker, NEW r \in claim[w].from .. claim[w].to - 1
        PROVE cells[Place(call, phase, r)] = Stale
    <3>1. /\ claim[w].from \in Nat /\ claim[w].to \in Nat /\ Holds(w, r) /\ claim[w].from < claim[w].to
      BY DEF Inv, TypeOK, Holds
    <3>2. Sharing BY <3>1 DEF Inv, Claims, Phases, Sharing
    <3>3. r \in 0 .. Total(call, phase) - 1 BY <3>1, Sized DEF Inv, Claims, Holds
    <3> QED BY <3>1, <3>2, <3>3 DEF Inv, Stored
  <2>2. RowsOnce BY <2>1 DEF Inv, Claims, RowsOnce
  <2>3. OutputsWhole BY DEF Inv, Phases, OutputsWhole
  <2> QED BY <2>2, <2>3 DEF FusedExact
<1> QED BY <1>1, InitInv, NextInv, PTL DEF Spec

-----------------------------------------------------------------------------
(* The sums of sets and of sequences, which are defined by CHOOSE: they     *)
(* exist, are unique, and add up along an interval.                        *)

(* A nonempty set of numbers has a least one. *)
LEMMA LeastNat ==
  ASSUME NEW S \in SUBSET Nat, S # {}
  PROVE  \E m \in S : \A n \in S : m <= n
<1> DEFINE R == OpToRel(<, Nat)
<1>1. \A a, b \in Nat : a < b => <<a, b>> \in R
  <2>1. R = {ss \in Nat \X Nat : ss[1] < ss[2]} BY Zenon DEF OpToRel
  <2> QED BY <2>1
<1>2. IsWellFoundedOn(R, Nat) BY NatLessThanWellFounded
<1> HIDE DEF R
<1>3. PICK m \in S : \A n \in S : <<n, m>> \notin R BY <1>2, WFMin, Zenon
<1>4. ASSUME NEW n \in S PROVE m <= n
  <2>1. ~(n < m) BY <1>1, <1>3, Zenon
  <2> QED BY <2>1
<1> QED BY <1>4

(* Induction on a set of numbers. *)
LEMMA Naturals ==
  ASSUME NEW G, 0 \in G, \A n \in Nat : n \in G => n + 1 \in G
  PROVE  \A n \in Nat : n \in G
<1> SUFFICES ASSUME NEW n \in Nat, n \notin G PROVE FALSE OBVIOUS
<1>1. PICK m \in {k \in Nat : k \notin G} : \A k \in {k \in Nat : k \notin G} : m <= k
  BY LeastNat
<1>2. m \in Nat /\ m # 0 /\ m \notin G BY <1>1
<1>3. m - 1 \in Nat /\ m = (m - 1) + 1 BY <1>2
<1>4. m - 1 \in G BY <1>1, <1>3
<1> QED BY <1>2, <1>3, <1>4

(* What a fold over the subsets of a set is: it takes the element ch       *)
(* chooses, and combines it with the fold of the others.                   *)
Folded(it, S, base, step, ch) ==
  \A T \in SUBSET S : it[T] = IF T = {} THEN base ELSE step[<<ch[T], it[T \ {ch[T]}]>>]

Foldable(S, X, base, step, ch) ==
  /\ IsFiniteSet(S) /\ base \in X
  /\ \A T \in SUBSET S : T # {} => ch[T] \in T
  /\ \A x \in S, a \in X : step[<<x, a>>] \in X
HasFold(S, X, base, step, ch) == \E it \in [SUBSET S -> X] : Folded(it, S, base, step, ch)

(* A finite set without one of its elements is smaller by one. *)
LEMMA Smaller ==
  ASSUME NEW S, IsFiniteSet(S), NEW T \in SUBSET S, NEW x \in T
  PROVE  /\ T \ {x} \in SUBSET S /\ IsFiniteSet(T) /\ Cardinality(T) \in Nat
         /\ Cardinality(T \ {x}) \in Nat /\ Cardinality(T \ {x}) = Cardinality(T) - 1
<1>1. IsFiniteSet(T) /\ IsFiniteSet(T \ {x}) BY FS_Subset
<1>2. Cardinality(T) \in Nat /\ Cardinality(T \ {x}) \in Nat BY <1>1, FS_CardinalityType
<1>3. Cardinality(T \ {x}) = Cardinality(T) - 1 BY <1>1, FS_RemoveElement
<1> QED BY <1>1, <1>2, <1>3

(* There is a fold over the subsets of a finite set, by induction on their  *)
(* size.                                                                    *)
LEMMA FoldExists ==
  ASSUME NEW S, NEW X, NEW base, NEW ch, NEW step, Foldable(S, X, base, step, ch)
  PROVE  HasFold(S, X, base, step, ch)
<1> USE DEF Foldable
<1>0. IsFiniteSet(S) /\ base \in X OBVIOUS
<1> DEFINE Upto(n) == {T \in SUBSET S : Cardinality(T) <= n}
           Right(it, T) == it[T] = IF T = {} THEN base ELSE step[<<ch[T], it[T \ {ch[T]}]>>]
           Some(n) == \E it \in [Upto(n) -> X] : \A T \in Upto(n) : Right(it, T)
           G == {n \in Nat : Some(n)}
<1>1. \A T \in SUBSET S : Cardinality(T) \in Nat /\ (T = {} <=> Cardinality(T) = 0)
  <2>1. \A T \in SUBSET S : IsFiniteSet(T) BY FS_Subset
  <2> QED BY <2>1, FS_CardinalityType, FS_EmptySet
<1>2. 0 \in G
  <2> DEFINE it == [T \in Upto(0) |-> base]
  <2>1. \A T \in Upto(0) : T = {} BY <1>1
  <2>2. it \in [Upto(0) -> X] /\ \A T \in Upto(0) : Right(it, T) BY <2>1
  <2>3. Some(0) BY <2>2
  <2> QED BY <2>3
<1>3. ASSUME NEW n \in Nat, n \in G PROVE n + 1 \in G
  <2>1. PICK it \in [Upto(n) -> X] : \A T \in Upto(n) : Right(it, T) BY <1>3
  <2> DEFINE more == [T \in Upto(n + 1) |-> IF T = {} THEN base ELSE step[<<ch[T], it[T \ {ch[T]}]>>]]
  <2>2. ASSUME NEW T \in Upto(n + 1), T # {}
        PROVE  T \ {ch[T]} \in Upto(n) /\ ch[T] \in S /\ more[T] \in X
    <3>1. ch[T] \in T /\ T \in SUBSET S BY <2>2
    <3>0. Cardinality(T) <= n + 1 OBVIOUS
    <3> HIDE DEF more, Upto, Some, G
    <3>2. T \ {ch[T]} \in SUBSET S /\ Cardinality(T) \in Nat /\ Cardinality(T \ {ch[T]}) = Cardinality(T) - 1
      BY <3>1, Smaller
    <3>3. T \ {ch[T]} \in Upto(n) BY <3>0, <3>2 DEF Upto
    <3>4. it[T \ {ch[T]}] \in X BY <2>1, <3>3
    <3> QED BY <2>2, <3>1, <3>3, <3>4 DEF more
  <2>3. ASSUME NEW T \in Upto(n) PROVE T \in Upto(n + 1) /\ more[T] = it[T]
    <3>1. T \in Upto(n + 1) BY <1>1
    <3>2. Right(it, T) BY <2>1
    <3> QED BY <3>1, <3>2
  <2>4. more \in [Upto(n + 1) -> X]
    <3>1. \A T \in Upto(n + 1) : more[T] \in X BY <2>2
    <3> QED BY <3>1
  <2>5. ASSUME NEW T \in Upto(n + 1) PROVE Right(more, T)
    <3>1. CASE T = {} BY <3>1
    <3>2. CASE T # {}
      <4>1. more[T \ {ch[T]}] = it[T \ {ch[T]}] BY <2>2, <2>3, <3>2
      <4> QED BY <3>2, <4>1
    <3> QED BY <3>1, <3>2
  <2> HIDE DEF more, Upto
  <2>6. Some(n + 1) BY <2>4, <2>5
  <2> QED BY <2>6
<1>4. \A n \in Nat : n \in G
  <2> HIDE DEF G
  <2> QED BY <1>2, <1>3, Naturals
<1>5. \A T \in SUBSET S : Cardinality(T) <= Cardinality(S) BY FS_Subset
<1>6. Upto(Cardinality(S)) = SUBSET S BY <1>5
<1>7. Cardinality(S) \in Nat BY <1>1
<1>8. Some(Cardinality(S)) BY <1>4, <1>7
<1> HIDE DEF Upto
<1>9. PICK it \in [SUBSET S -> X] : \A T \in SUBSET S : Right(it, T) BY <1>6, <1>8
<1> QED BY <1>9 DEF Folded, HasFold

(* And there is one only, so CHOOSE picks it. *)
LEMMA FoldUnique ==
  ASSUME NEW S, IsFiniteSet(S), NEW base,
         NEW ch, \A T \in SUBSET S : T # {} => ch[T] \in T, NEW step,
         NEW a, Folded(a, S, base, step, ch), NEW b, Folded(b, S, base, step, ch)
  PROVE  \A T \in SUBSET S : a[T] = b[T]
<1> DEFINE G == {n \in Nat : \A T \in SUBSET S : Cardinality(T) = n => a[T] = b[T]}
<1>1. \A T \in SUBSET S : Cardinality(T) \in Nat /\ (T = {} <=> Cardinality(T) = 0)
  <2>1. \A T \in SUBSET S : IsFiniteSet(T) BY FS_Subset
  <2> QED BY <2>1, FS_CardinalityType, FS_EmptySet
<1>2. 0 \in G BY <1>1 DEF Folded
<1>3. ASSUME NEW n \in Nat, n \in G PROVE n + 1 \in G
  <2>1. ASSUME NEW T \in SUBSET S, Cardinality(T) = n + 1 PROVE a[T] = b[T]
    <3>1. T # {} /\ ch[T] \in T BY <1>1, <2>1
    <3>2. T \ {ch[T]} \in SUBSET S /\ Cardinality(T \ {ch[T]}) = n BY <2>1, <3>1, Smaller
    <3>3. a[T \ {ch[T]}] = b[T \ {ch[T]}] BY <1>3, <3>2
    <3> QED BY <3>1, <3>3 DEF Folded
  <2> QED BY <2>1
<1>4. \A n \in Nat : n \in G
  <2> HIDE DEF G
  <2> QED BY <1>2, <1>3, Naturals
<1> QED BY <1>1, <1>4

(* A sum does not depend on the order. *)
Pick(T) == CHOOSE x \in T : TRUE
Adds(sum, f, S) ==
  /\ sum \in [SUBSET S -> Int] /\ sum[{}] = 0
  /\ \A T \in SUBSET S : \A x \in T : sum[T] = f[x] + sum[T \ {x}]
Plus(f, S) == [p \in S \X Int |-> f[p[1]] + p[2]]
Picks(S) == [T \in SUBSET S |-> Pick(T)]

(* A sum may take the elements of a set in any order. *)
LEMMA AnyOrder ==
  ASSUME NEW S, IsFiniteSet(S), NEW f \in [S -> Int], NEW sum \in [SUBSET S -> Int],
         Folded(sum, S, 0, Plus(f, S), Picks(S))
  PROVE  Adds(sum, f, S)
<1> DEFINE Any(T) == \A x \in T : sum[T] = f[x] + sum[T \ {x}]
           G == {n \in Nat : \A T \in SUBSET S : Cardinality(T) = n => Any(T)}
<1>0. \A T \in SUBSET S : sum[T] \in Int OBVIOUS
<1>1. \A T \in SUBSET S : Cardinality(T) \in Nat /\ (T = {} <=> Cardinality(T) = 0)
  <2>1. \A T \in SUBSET S : IsFiniteSet(T) BY FS_Subset
  <2> QED BY <2>1, FS_CardinalityType, FS_EmptySet
<1>2. ASSUME NEW T \in SUBSET S, T # {} PROVE Pick(T) \in T /\ sum[T] = f[Pick(T)] + sum[T \ {Pick(T)}]
  <2>1. Pick(T) \in T BY <1>2 DEF Pick
  <2>2. T \ {Pick(T)} \in SUBSET S OBVIOUS
  <2>3. <<Pick(T), sum[T \ {Pick(T)}]>> \in S \X Int BY <1>0, <2>1, <2>2
  <2> QED BY <1>2, <2>1, <2>3 DEF Folded, Plus, Picks
<1>3. 0 \in G BY <1>1
<1>4. ASSUME NEW n \in Nat, n \in G PROVE n + 1 \in G
  <2>1. ASSUME NEW T \in SUBSET S, Cardinality(T) = n + 1, NEW x \in T
        PROVE  sum[T] = f[x] + sum[T \ {x}]
    <3> DEFINE p == Pick(T)
    <3>1. p \in T /\ sum[T] = f[p] + sum[T \ {p}] BY <1>2
    <3>2. CASE x = p BY <3>1, <3>2
    <3>3. CASE x # p
      <4>1. T \ {p} \in SUBSET S /\ Cardinality(T \ {p}) = n BY <2>1, <3>1, Smaller
      <4>2. T \ {x} \in SUBSET S /\ Cardinality(T \ {x}) = n BY <2>1, Smaller
      <4> HIDE DEF p
      <4>3. sum[T \ {p}] = f[x] + sum[(T \ {p}) \ {x}] BY <1>4, <3>3, <4>1
      <4>4. sum[T \ {x}] = f[p] + sum[(T \ {x}) \ {p}] BY <1>4, <3>1, <3>3, <4>2
      <4>5. (T \ {p}) \ {x} = (T \ {x}) \ {p} OBVIOUS
      <4>6. (T \ {x}) \ {p} \in SUBSET S /\ f[x] \in Int /\ f[p] \in Int BY <3>1
      <4>7. sum[(T \ {x}) \ {p}] \in Int BY <1>0, <4>6
      <4>8. sum[T] = f[p] + sum[T \ {p}] BY <3>1
      <4>9. f[p] + (f[x] + sum[(T \ {x}) \ {p}]) = f[x] + (f[p] + sum[(T \ {x}) \ {p}]) BY <4>6, <4>7
      <4> QED BY <4>3, <4>4, <4>5, <4>8, <4>9
    <3> QED BY <3>2, <3>3
  <2> QED BY <2>1
<1>5. \A n \in Nat : n \in G
  <2> HIDE DEF G
  <2> QED BY <1>3, <1>4, Naturals
<1>6. sum[{}] = 0 BY DEF Folded
<1>7. \A T \in SUBSET S : Any(T) BY <1>1, <1>5
<1> QED BY <1>6, <1>7 DEF Adds

(* Every function on a finite set has a sum. *)
LEMMA SumsExist ==
  ASSUME NEW S, IsFiniteSet(S), NEW f \in [S -> Int]
  PROVE  \E s \in [SUBSET S -> Int] : Folded(s, S, 0, Plus(f, S), Picks(S))
<1>1. \A T \in SUBSET S : T # {} => Picks(S)[T] \in T BY DEF Picks, Pick
<1>2. \A x \in S, a \in Int : Plus(f, S)[<<x, a>>] \in Int BY DEF Plus
<1>3. Foldable(S, Int, 0, Plus(f, S), Picks(S)) BY <1>1, <1>2 DEF Foldable
<1> QED BY <1>3, FoldExists DEF HasFold

(* A function that adds what Pick chooses computes these sums. *)
AddsPicked(g, f, S) ==
  \A T \in SUBSET S : g[T] = IF T = {} THEN 0 ELSE f[Pick(T)] + g[T \ {Pick(T)}]

(* However the elements were picked, the sum is the same. *)
LEMMA SumUnique ==
  ASSUME NEW S, IsFiniteSet(S), NEW f, NEW sum, Adds(sum, f, S), NEW g, AddsPicked(g, f, S)
  PROVE  \A T \in SUBSET S : g[T] = sum[T]
<1> DEFINE G == {n \in Nat : \A T \in SUBSET S : Cardinality(T) = n => g[T] = sum[T]}
<1>1. \A T \in SUBSET S : Cardinality(T) \in Nat /\ (T = {} <=> Cardinality(T) = 0)
  <2>1. \A T \in SUBSET S : IsFiniteSet(T) BY FS_Subset
  <2> QED BY <2>1, FS_CardinalityType, FS_EmptySet
<1>2. 0 \in G BY <1>1 DEF Adds, AddsPicked
<1>3. ASSUME NEW n \in Nat, n \in G PROVE n + 1 \in G
  <2>1. ASSUME NEW T \in SUBSET S, Cardinality(T) = n + 1 PROVE g[T] = sum[T]
    <3>1. T # {} BY <1>1, <2>1
    <3>2. Pick(T) \in T BY <3>1 DEF Pick
    <3>3. T \ {Pick(T)} \in SUBSET S /\ Cardinality(T \ {Pick(T)}) = n BY <2>1, <3>2, Smaller
    <3>4. g[T \ {Pick(T)}] = sum[T \ {Pick(T)}] BY <1>3, <3>3
    <3>5. sum[T] = f[Pick(T)] + sum[T \ {Pick(T)}] BY <3>2 DEF Adds
    <3> QED BY <3>1, <3>4, <3>5 DEF AddsPicked
  <2> QED BY <2>1
<1>4. \A n \in Nat : n \in G
  <2> HIDE DEF G
  <2> QED BY <1>2, <1>3, Naturals
<1> QED BY <1>1, <1>4

(* The total of a function is such a sum. *)
LEMMA TotalAdds ==
  ASSUME NEW S, IsFiniteSet(S), NEW f \in [S -> Int]
  PROVE  \E sum : Adds(sum, f, S) /\ Q1D!Total(f) = sum[S]
<1> DEFINE value(g) == [T \in SUBSET S |-> IF T = {} THEN 0 ELSE f[Pick(T)] + g[T \ {Pick(T)}]]
           sum == CHOOSE g : g = value(g)
<1>0. DOMAIN f = S OBVIOUS
<1>1. Q1D!Total(f) = sum[S]
  BY <1>0 DEF Q1D!Total, Q1D!MapThenSumSet, Q1D!MapThenFoldSet, Pick
<1>4. PICK s \in [SUBSET S -> Int] : Folded(s, S, 0, Plus(f, S), Picks(S))
  <2> HIDE DEF value, sum
  <2> QED BY SumsExist
<1>5. Adds(s, f, S) BY <1>4, AnyOrder
<1>6. s = value(s)
  <2> DEFINE v == value(s)
  <2>1. ASSUME NEW T \in SUBSET S PROVE v[T] = s[T]
    <3>1. CASE T = {} BY <1>5, <3>1 DEF Adds
    <3>2. CASE T # {}
      <4>1. Pick(T) \in T BY <3>2 DEF Pick
      <4> QED BY <1>5, <3>2, <4>1 DEF Adds
    <3> QED BY <3>1, <3>2
  <2>2. s = [T \in SUBSET S |-> s[T]] /\ v = [T \in SUBSET S |-> v[T]] OBVIOUS
  <2> HIDE DEF v
  <2>3. s = v BY <2>1, <2>2
  <2> QED BY <2>3 DEF v
<1> HIDE DEF value
<1>7. sum = value(sum) BY <1>6
<1> HIDE DEF sum
<1>8. AddsPicked(sum, f, S) BY <1>7 DEF value, AddsPicked
<1> HIDE DEF value
<1>9. \A T \in SUBSET S : sum[T] = s[T] BY <1>5, <1>8, SumUnique
<1>10. S \in SUBSET S OBVIOUS
<1> QED BY <1>1, <1>5, <1>9, <1>10

(* And is added up along the numbers of an interval. *)
LEMMA TotalUp ==
  ASSUME NEW n \in Nat, NEW f \in [0 .. n - 1 -> Int]
  PROVE  \E c \in [0 .. n -> Int] :
           c[0] = 0 /\ (\A k \in 0 .. n - 1 : c[k + 1] = c[k] + f[k]) /\ Q1D!Total(f) = c[n]
<1> DEFINE S == 0 .. n - 1
<1>1. IsFiniteSet(S) BY FS_Interval
<1>2. PICK sum : Adds(sum, f, S) /\ Q1D!Total(f) = sum[S] BY <1>1, TotalAdds
<1> DEFINE c == [k \in 0 .. n |-> sum[0 .. k - 1]]
<1>3. \A k \in 0 .. n : 0 .. k - 1 \in SUBSET S OBVIOUS
<1>4. c \in [0 .. n -> Int] BY <1>2, <1>3 DEF Adds
<1>5. c[0] = 0
  <2>1. 0 .. 0 - 1 = {} OBVIOUS
  <2> QED BY <1>2, <2>1 DEF Adds
<1>6. ASSUME NEW k \in 0 .. n - 1 PROVE c[k + 1] = c[k] + f[k]
  <2>1. k + 1 \in 0 .. n /\ k \in 0 .. n /\ (k + 1) - 1 = k OBVIOUS
  <2>2. c[k + 1] = sum[0 .. k] /\ c[k] = sum[0 .. k - 1] BY <2>1
  <2>3. k \in 0 .. k /\ (0 .. k) \ {k} = 0 .. k - 1 /\ 0 .. k \in SUBSET S OBVIOUS
  <2> DEFINE T == 0 .. k
  <2>6. \A x \in T : sum[T] = f[x] + sum[T \ {x}]
    <3> HIDE DEF c, T
    <3>1. T \in SUBSET S BY <2>3 DEF T
    <3> QED BY <1>2, <3>1 DEF Adds
  <2>4. sum[0 .. k] = f[k] + sum[0 .. k - 1] BY <2>3, <2>6
  <2>5. f[k] \in Int /\ c[k] \in Int BY <1>4, <2>1
  <2> HIDE DEF c
  <2> QED BY <2>2, <2>4, <2>5
<1>7. c[n] = sum[S] OBVIOUS
<1> HIDE DEF c
<1> QED BY <1>2, <1>4, <1>5, <1>6, <1>7

-----------------------------------------------------------------------------
(* A fold of FoldLeft, and a sum of vpdpbusd over groups of bytes.         *)

(* The largest element of a set of positive numbers is one of them. *)
LEMMA MaxIn ==
  ASSUME NEW n \in Nat, NEW T \in SUBSET (1 .. n), T # {}
  PROVE  Q1D!Max(T) \in T /\ \A x \in T : x <= Q1D!Max(T)
<1> DEFINE D == {d \in Nat : n - d \in T}
<1>1. D \in SUBSET Nat /\ D # {}
  <2>1. PICK x \in T : TRUE OBVIOUS
  <2>2. n - x \in Nat /\ n - (n - x) = x BY <2>1
  <2>3. n - x \in D BY <2>1, <2>2
  <2> QED BY <2>3
<1>2. PICK d \in D : \A e \in D : d <= e
  <2> HIDE DEF D
  <2> QED BY <1>1, LeastNat
<1>3. n - d \in T /\ d \in Nat BY <1>2
<1>4. \A x \in T : n - d >= x
  <2> TAKE x \in T
  <2>1. n - x \in Nat /\ n - (n - x) = x /\ x \in Nat OBVIOUS
  <2>2. n - x \in D BY <2>1
  <2>3. d <= n - x BY <1>2, <2>2
  <2> QED BY <1>3, <2>1, <2>3
<1> HIDE DEF D
<1>5. \E x \in T : \A y \in T : x >= y BY <1>3, <1>4
<1>6. Q1D!Max(T) \in T /\ \A y \in T : Q1D!Max(T) >= y BY <1>5, Zenon DEF Q1D!Max
<1> QED BY <1>6

(* The largest element of 1 .. k is k. *)
LEMMA MaxUpTo ==
  ASSUME NEW n \in Nat, NEW k \in 1 .. n
  PROVE  Q1D!Max(1 .. k) = k /\ (1 .. k) \ {k} = 1 .. k - 1 /\ 1 .. k # {}
<1>1. k \in 1 .. k /\ 1 .. k \in SUBSET (1 .. n) OBVIOUS
<1>2. Q1D!Max(1 .. k) \in 1 .. k /\ k <= Q1D!Max(1 .. k) BY <1>1, MaxIn
<1> QED BY <1>1, <1>2

(* A fold over the numbers to n from the largest down, as FoldLeft makes   *)
(* it: what is added last is the step of n.                                *)
Closed(n, X, base, step) == base \in X /\ \A k \in 1 .. n, a \in X : step[<<k, a>>] \in X
Descends(it, n, base, step) ==
  \A T \in SUBSET (1 .. n) : it[T] = IF T = {} THEN base ELSE step[<<Q1D!Max(T), it[T \ {Q1D!Max(T)}]>>]
CanDescend(n, X, base, step) == \E it \in [SUBSET (1 .. n) -> X] : Descends(it, n, base, step)

(* A fold may take the largest element first. *)
LEMMA FoldDown ==
  ASSUME NEW n \in Nat, NEW X, NEW base, NEW step, Closed(n, X, base, step)
  PROVE  CanDescend(n, X, base, step)
<1> DEFINE S == 1 .. n
           ch == [T \in SUBSET S |-> Q1D!Max(T)]
<1>1. IsFiniteSet(S) BY FS_Interval
<1>2. \A T \in SUBSET S : T # {} => ch[T] \in T BY MaxIn
<1>3. Foldable(S, X, base, step, ch) BY <1>1, <1>2 DEF Foldable, Closed
<1>4. HasFold(S, X, base, step, ch)
  <2> HIDE DEF S, ch
  <2> QED BY <1>3, FoldExists
<1>5. PICK it \in [SUBSET S -> X] : Folded(it, S, base, step, ch) BY <1>4 DEF HasFold
<1>6. Descends(it, n, base, step) BY <1>5 DEF Folded, Descends
<1> QED BY <1>6 DEF CanDescend

Along(it, n, X, base, step) ==
  /\ it[{}] = base
  /\ \A T \in SUBSET (1 .. n) : T # {} /\ it[T \ {Q1D!Max(T)}] \in X =>
       it[T] = step[<<Q1D!Max(T), it[T \ {Q1D!Max(T)}]>>]

Chained(it, n, X, base, step) ==
  /\ it[1 .. 0] = base /\ \A k \in 0 .. n : it[1 .. k] \in X
  /\ \A k \in 1 .. n : it[1 .. k] = step[<<k, it[1 .. k - 1]>>]

(* Which makes it a fold along the indices of a sequence, from the first. *)
LEMMA FoldAlong ==
  ASSUME NEW n \in Nat, NEW X, NEW base, NEW step, Closed(n, X, base, step),
         NEW it, Along(it, n, X, base, step)
  PROVE  Chained(it, n, X, base, step)
<1>1. it[1 .. 0] = base
  <2>1. 1 .. 0 = {} OBVIOUS
  <2> QED BY <2>1 DEF Along
<1>2. ASSUME NEW k \in 1 .. n, it[1 .. k - 1] \in X
      PROVE  it[1 .. k] = step[<<k, it[1 .. k - 1]>>] /\ it[1 .. k] \in X
  <2>1. 1 .. k \in SUBSET (1 .. n) OBVIOUS
  <2>2. Q1D!Max(1 .. k) = k /\ (1 .. k) \ {k} = 1 .. k - 1 /\ 1 .. k # {} BY MaxUpTo
  <2>3. it[1 .. k] = step[<<k, it[1 .. k - 1]>>] BY <1>2, <2>1, <2>2 DEF Along
  <2> QED BY <1>2, <2>3 DEF Closed
<1> DEFINE G == {k \in Nat : k <= n => it[1 .. k] \in X}
<1>3. \A k \in Nat : k \in G
  <2>1. 0 \in G BY <1>1 DEF Closed
  <2>2. ASSUME NEW k \in Nat, k \in G PROVE k + 1 \in G
    <3>1. CASE k + 1 <= n
      <4>1. k + 1 \in 1 .. n /\ (k + 1) - 1 = k BY <3>1
      <4>2. it[1 .. k] \in X BY <2>2, <3>1
      <4>3. it[1 .. k + 1] \in X BY <1>2, <4>1, <4>2
      <4> QED BY <4>3
    <3> QED BY <3>1
  <2> HIDE DEF G
  <2> QED BY <2>1, <2>2, Naturals
<1>4. \A k \in 0 .. n : it[1 .. k] \in X BY <1>3
<1>5. ASSUME NEW k \in 1 .. n PROVE it[1 .. k] = step[<<k, it[1 .. k - 1]>>]
  <2>1. k - 1 \in 0 .. n OBVIOUS
  <2> QED BY <1>2, <1>4, <2>1
<1> QED BY <1>1, <1>4, <1>5 DEF Chained

(* Four products of bytes, in one lane. *)
Byte4(u) == \A p \in 0 .. 3 : u[p] \in Int
DpTerm(u, s) == u[0] * s[0] + u[1] * s[1] + u[2] * s[2] + u[3] * s[3]

(* The four products that vpdpbusd adds to a lane are an integer. *)
LEMMA DpTermInt ==
  ASSUME NEW u, NEW s, Byte4(u), Byte4(s)
  PROVE  DpTerm(u, s) \in Int
<1>1. \A x, y \in Int : x * y \in Int OBVIOUS
<1>2. \A p \in 0 .. 3 : u[p] * s[p] \in Int BY <1>1 DEF Byte4
<1>3. u[0] * s[0] \in Int /\ u[1] * s[1] \in Int /\ u[2] * s[2] \in Int /\ u[3] * s[3] \in Int
  BY <1>2
<1> QED BY <1>3 DEF DpTerm

(* vpdpbusd adds them, without saturation. *)
LEMMA DpBusdIs ==
  ASSUME NEW a \in [{0} -> Int], NEW u, NEW s, Byte4(u), Byte4(s)
  PROVE  Q1D!DpBusd(a, u, s) = [i \in {0} |-> a[0] + DpTerm(u, s)]
<1>1. \A x, y \in Int : x * y \in Int OBVIOUS
<1>2. \A p \in 0 .. 3 : u[p] * s[p] \in Int BY <1>1 DEF Byte4
<1>3. u[0] * s[0] \in Int /\ u[1] * s[1] \in Int /\ u[2] * s[2] \in Int /\ u[3] * s[3] \in Int
  BY <1>2
<1>4. Q1D!DpBusd(a, u, s) = [i \in {0} |-> a[0] + u[0] * s[0] + u[1] * s[1] + u[2] * s[2] + u[3] * s[3]]
  <2>1. \A i \in {0} : 4 * i = 0 OBVIOUS
  <2>2. DOMAIN a = {0} OBVIOUS
  <2> QED BY <2>1, <2>2 DEF Q1D!DpBusd
<1>5. a[0] + u[0] * s[0] + u[1] * s[1] + u[2] * s[2] + u[3] * s[3] = a[0] + DpTerm(u, s)
  <2>1. a[0] \in Int OBVIOUS
  <2> QED BY <1>3, <2>1 DEF DpTerm
<1> QED BY <1>4, <1>5

(* The terms of a sequence of groups added to acc, one after the other.    *)
Terms(bytes, qp) == [g \in 0 .. 7 |-> DpTerm(bytes[g], Q1D!Bcast(qp, g))]
AddedUp(n, groups, t, acc, sum) ==
  \E c : /\ c[0] = acc /\ (\A k \in 0 .. n : c[k] \in Int)
         /\ \A k \in 1 .. n : c[k] = c[k - 1] + t[groups[k]]
         /\ sum = c[n]

(* The loop of vpdpbusd adds the terms of its groups one after the other. *)
LEMMA SumDpIs ==
  ASSUME NEW n \in Nat, NEW groups \in [1 .. n -> 0 .. 7], NEW bytes, NEW qp, NEW acc \in Int,
         \A g \in 0 .. 7 : Byte4(bytes[g]) /\ Byte4(Q1D!Bcast(qp, g))
  PROVE  AddedUp(n, groups, Terms(bytes, qp), acc, Q1D!SumDp(bytes, qp, groups, acc))
<1> DEFINE D == DOMAIN groups
           Taken(k, a) == Q1D!DpBusd(a, bytes[groups[k]], Q1D!Bcast(qp, groups[k]))
           base == [l \in {0} |-> acc]
           value(f) == [T \in SUBSET D |->
                         IF T = {} THEN base
                         ELSE Q1D!DpBusd(f[T \ {Q1D!Max(T)}], bytes[groups[Q1D!Max(T)]],
                                         Q1D!Bcast(qp, groups[Q1D!Max(T)]))]
           it == CHOOSE f : f = value(f)
           X == [{0} -> Int]
           step == [p \in (1 .. n) \X X |-> Taken(p[1], p[2])]
<1>1. Q1D!SumDp(bytes, qp, groups, acc) = it[D][0]
  BY DEF Q1D!SumDp, Q1D!FoldLeft, Q1D!MapThenFoldSet
<1>2. D = 1 .. n OBVIOUS
<1> DEFINE term(k) == DpTerm(bytes[groups[k]], Q1D!Bcast(qp, groups[k]))
<1>3. ASSUME NEW k \in 1 .. n, NEW a \in X
      PROVE  /\ Taken(k, a) = [i \in {0} |-> a[0] + term(k)] /\ Taken(k, a) \in X
             /\ step[<<k, a>>] = Taken(k, a) /\ term(k) \in Int
  <2>1. groups[k] \in 0 .. 7 OBVIOUS
  <2> DEFINE u == bytes[groups[k]]  s == Q1D!Bcast(qp, groups[k])
  <2>2. Byte4(u) /\ Byte4(s) BY <2>1
  <2> HIDE DEF u, s
  <2>3. Q1D!DpBusd(a, u, s) = [i \in {0} |-> a[0] + DpTerm(u, s)] BY <2>2, DpBusdIs
  <2>4. a[0] \in Int /\ DpTerm(u, s) \in Int BY <2>2, DpTermInt
  <2>5. [i \in {0} |-> a[0] + DpTerm(u, s)] \in X BY <2>4
  <2>6. step[<<k, a>>] = Taken(k, a) OBVIOUS
  <2> QED BY <2>3, <2>4, <2>5, <2>6 DEF u, s
<1>4. Closed(n, X, base, step)
  <2>1. base \in X OBVIOUS
  <2>2. \A k \in 1 .. n, a \in X : step[<<k, a>>] \in X
    <3> TAKE k \in 1 .. n, a \in X
    <3>1. step[<<k, a>>] = Taken(k, a) /\ Taken(k, a) \in X BY <1>3
    <3> HIDE DEF step, X, Taken
    <3> QED BY <3>1
  <2> HIDE DEF step, X, base
  <2> QED BY <2>1, <2>2 DEF Closed
<1> HIDE DEF term
<1>5. PICK f \in [SUBSET (1 .. n) -> X] : Descends(f, n, base, step)
  <2> HIDE DEF step, X, base
  <2> QED BY <1>4, FoldDown DEF CanDescend
<1>6. f = value(f)
  <2> DEFINE v == value(f)
  <2>1. ASSUME NEW T \in SUBSET (1 .. n) PROVE v[T] = f[T]
    <3>1. CASE T = {} BY <1>2, <1>5, <3>1 DEF Descends
    <3>2. CASE T # {}
      <4> DEFINE m == Q1D!Max(T)
      <4>1. m \in 1 .. n /\ T \ {m} \in SUBSET (1 .. n) BY <3>2, MaxIn
      <4>2. f[T \ {m}] \in X BY <4>1
      <4>3. v[T] = Taken(m, f[T \ {m}]) BY <1>2, <3>2
      <4>4. step[<<m, f[T \ {m}]>>] = Taken(m, f[T \ {m}]) BY <1>3, <4>1, <4>2
      <4>5. f[T] = step[<<m, f[T \ {m}]>>] BY <1>5, <3>2 DEF Descends
      <4> QED BY <4>3, <4>4, <4>5
    <3> QED BY <3>1, <3>2
  <2>2. f = [T \in SUBSET (1 .. n) |-> f[T]] /\ v = [T \in SUBSET (1 .. n) |-> v[T]] BY <1>2
  <2> HIDE DEF v
  <2>3. f = v BY <2>1, <2>2
  <2> QED BY <2>3 DEF v
<1> HIDE DEF value
<1>7. it = value(it) BY <1>6
<1> HIDE DEF it
<1>8. Along(it, n, X, base, step)
  <2>1. it[{}] = base
    <3>1. {} \in SUBSET D OBVIOUS
    <3> QED BY <1>7, <3>1 DEF value
  <2>2. ASSUME NEW T \in SUBSET (1 .. n), T # {}, it[T \ {Q1D!Max(T)}] \in X
        PROVE  it[T] = step[<<Q1D!Max(T), it[T \ {Q1D!Max(T)}]>>]
    <3> DEFINE m == Q1D!Max(T)  a == it[T \ {m}]
    <3>1. m \in 1 .. n BY <2>2, MaxIn
    <3>2. it[T] = Taken(m, a) BY <1>2, <1>7, <2>2 DEF value
    <3>3. step[<<m, a>>] = Taken(m, a) BY <1>3, <2>2, <3>1
    <3> HIDE DEF step, Taken
    <3> QED BY <3>2, <3>3
  <2> HIDE DEF step, base, X
  <2> QED BY <2>1, <2>2 DEF Along
<1>9. /\ it[1 .. 0] = base /\ \A k \in 0 .. n : it[1 .. k] \in X
      /\ \A k \in 1 .. n : it[1 .. k] = step[<<k, it[1 .. k - 1]>>]
  <2> HIDE DEF step, base, X
  <2>1. Chained(it, n, X, base, step) BY <1>4, <1>8, FoldAlong
  <2> QED BY <2>1 DEF Chained
<1> DEFINE c == [k \in 0 .. n |-> it[1 .. k][0]]
<1>10. c[0] = acc BY <1>9
<1>11. \A k \in 0 .. n : c[k] \in Int
  <2> TAKE k \in 0 .. n
  <2>1. it[1 .. k] \in X BY <1>9
  <2> QED BY <2>1
<1>12. ASSUME NEW k \in 1 .. n PROVE c[k] = c[k - 1] + term(k)
  <2>1. k - 1 \in 0 .. n /\ k \in 0 .. n BY <1>2
  <2> DEFINE a == it[1 .. k - 1]
  <2>2. a \in X BY <1>9, <2>1
  <2>3. step[<<k, a>>] = [i \in {0} |-> a[0] + term(k)] BY <1>3, <2>2
  <2>4. it[1 .. k] = [i \in {0} |-> a[0] + term(k)] BY <1>9, <2>3
  <2> QED BY <2>1, <2>4
<1>13. it[D][0] = c[n] BY <1>2
<1>14. \A k \in 1 .. n : term(k) = Terms(bytes, qp)[groups[k]]
  <2>1. \A k \in 1 .. n : groups[k] \in 0 .. 7 OBVIOUS
  <2> QED BY <2>1 DEF Terms, term
<1> HIDE DEF c
<1> QED BY <1>1, <1>10, <1>11, <1>12, <1>13, <1>14 DEF AddedUp

-----------------------------------------------------------------------------
(* A sum of vpmaddubsw over groups: no pair saturates, no sum wraps.       *)

Unsigned == [0 .. 3 -> 0 .. 2]
Signed == [0 .. 3 -> -127 .. 127]

(* A byte of 0, 1 or 2 times an int8 activation is at most 254. *)
LEMMA SmallProduct ==
  ASSUME NEW x \in 0 .. 2, NEW y \in -127 .. 127
  PROVE  x * y \in -254 .. 254
<1>1. CASE x = 0 BY <1>1
<1>2. CASE x = 1 BY <1>2
<1>3. CASE x = 2 BY <1>3
<1> QED BY <1>1, <1>2, <1>3

(* A vector of n lanes has the width n. *)
LEMMA WidthIs ==
  ASSUME NEW n \in Nat, NEW f, DOMAIN f = 0 .. n - 1
  PROVE  Q1D!Width(f) = n
<1>1. Cardinality(0 .. n - 1) = n BY FS_Interval
<1>2. Q1D!Cardinality(0 .. n - 1) = Cardinality(0 .. n - 1) BY DEF Q1D!Cardinality, Cardinality
<1> QED BY <1>1, <1>2 DEF Q1D!Width

Pairs == {v \in Int : v <= 508 /\ v + 508 >= 0}
(* Pairs of products of small bytes do not saturate. *)
LEMMA PairsFit ==
  ASSUME NEW u \in Unsigned, NEW s \in Signed
  PROVE  /\ Q1D!MaddUbs(u, s) \in [0 .. 1 -> Pairs]
         /\ Q1D!MaddUbs(u, s)[0] + Q1D!MaddUbs(u, s)[1] = DpTerm(u, s)
<1>1. \A p \in 0 .. 3 : u[p] * s[p] \in -254 .. 254
  <2> TAKE p \in 0 .. 3
  <2>1. u[p] \in 0 .. 2 /\ s[p] \in -127 .. 127 BY DEF Unsigned, Signed
  <2> QED BY <2>1, SmallProduct
<1>2. Q1D!Width(u) = 4
  <2>1. DOMAIN u = 0 .. 4 - 1 BY DEF Unsigned
  <2> QED BY <2>1, WidthIs
<1>3. Q1D!MaddUbs(u, s) =
        [i \in 0 .. 1 |-> Q1D!Sat16(u[2 * i] * s[2 * i] + u[2 * i + 1] * s[2 * i + 1])]
  <2>1. Q1D!Width(u) \div 2 - 1 = 1 BY <1>2
  <2> QED BY <2>1 DEF Q1D!MaddUbs
<1>4. u[0] * s[0] \in -254 .. 254 /\ u[1] * s[1] \in -254 .. 254
      /\ u[2] * s[2] \in -254 .. 254 /\ u[3] * s[3] \in -254 .. 254 BY <1>1
<1> DEFINE a == u[0] * s[0]  b == u[1] * s[1]  c == u[2] * s[2]  d == u[3] * s[3]
<1>5. a + b \in -508 .. 508 /\ c + d \in -508 .. 508 /\ (a + b) + (c + d) = a + b + c + d
  <2>1. a \in -254 .. 254 /\ b \in -254 .. 254 /\ c \in -254 .. 254 /\ d \in -254 .. 254 BY <1>4
  <2> HIDE DEF a, b, c, d
  <2> QED BY <2>1
<1>6. \A v \in -508 .. 508 : Q1D!Sat16(v) = v BY DEF Q1D!Sat16
<1>7. Q1D!MaddUbs(u, s)[0] = a + b
  <2>1. Q1D!MaddUbs(u, s)[0] = Q1D!Sat16(u[2 * 0] * s[2 * 0] + u[2 * 0 + 1] * s[2 * 0 + 1]) BY <1>3
  <2>2. 2 * 0 = 0 /\ 2 * 0 + 1 = 1 OBVIOUS
  <2> QED BY <1>5, <1>6, <2>1, <2>2
<1>8. Q1D!MaddUbs(u, s)[1] = c + d
  <2>1. Q1D!MaddUbs(u, s)[1] = Q1D!Sat16(u[2 * 1] * s[2 * 1] + u[2 * 1 + 1] * s[2 * 1 + 1]) BY <1>3
  <2>2. 2 * 1 = 2 /\ 2 * 1 + 1 = 3 OBVIOUS
  <2> QED BY <1>5, <1>6, <2>1, <2>2
<1>9. DpTerm(u, s) = a + b + c + d BY DEF DpTerm
<1> HIDE DEF a, b, c, d
<1>10. Q1D!MaddUbs(u, s) \in [0 .. 1 -> Pairs]
  <2>1. \A i \in 0 .. 1 : i = 0 \/ i = 1 OBVIOUS
  <2>5. a + b \in Pairs /\ c + d \in Pairs
    <3> DEFINE v == a + b  w == c + d
    <3>1. v \in -508 .. 508 /\ w \in -508 .. 508 BY <1>5
    <3> HIDE DEF v, w
    <3>2. v \in Pairs /\ w \in Pairs BY <3>1 DEF Pairs
    <3> QED BY <3>2 DEF v, w
  <2>2. \A i \in 0 .. 1 : Q1D!MaddUbs(u, s)[i] \in Pairs BY <1>7, <1>8, <2>1, <2>5
  <2>3. DOMAIN Q1D!MaddUbs(u, s) = 0 .. 1 BY <1>3
  <2>4. Q1D!MaddUbs(u, s) = [i \in 0 .. 1 |-> Q1D!MaddUbs(u, s)[i]] BY <1>3
  <2> QED BY <2>2, <2>4
<1> QED BY <1>5, <1>7, <1>8, <1>9, <1>10

(* A sum of k such pairs needs no wrapping. *)
Within(k) == {a \in [0 .. 1 -> Int] : \A i \in 0 .. 1 : a[i] <= 508 * k /\ a[i] + 508 * k >= 0}

(* The (k + 1)st pair that is added to a 16-bit lane does not wrap. *)
LEMMA PairAdds ==
  ASSUME NEW k \in 0 .. 7, NEW a \in Int, NEW y \in Pairs, a <= 508 * k, a + 508 * k >= 0
  PROVE  /\ Q1D!Wrap16(a + y) = a + y /\ a + y \in Int
         /\ a + y <= 508 * (k + 1) /\ (a + y) + 508 * (k + 1) >= 0
<1> DEFINE b == 508 * k
<1>1. b \in Int /\ b <= 3556 /\ 508 * (k + 1) = b + 508 OBVIOUS
<1>2. a <= b /\ a + b >= 0 OBVIOUS
<1>3. y \in Int /\ y <= 508 /\ y + 508 >= 0 BY DEF Pairs
<1> HIDE DEF b
<1>4. a + y \in Int /\ a + y <= 4064 /\ (a + y) + 4064 >= 0 BY <1>1, <1>2, <1>3
<1>5. \A v \in Int : v <= 4064 /\ v + 4064 >= 0 => Q1D!Wrap16(v) = v BY DEF Q1D!Wrap16
<1>6. a + y <= b + 508 /\ (a + y) + (b + 508) >= 0 BY <1>1, <1>2, <1>3
<1>7. Q1D!Wrap16(a + y) = a + y BY <1>4, <1>5
<1> QED BY <1>1, <1>4, <1>6, <1>7

(* Nor does a vector addition of such pairs. *)
LEMMA AddFits ==
  ASSUME NEW k \in 0 .. 7, NEW a \in Within(k), NEW y \in [0 .. 1 -> Pairs]
  PROVE  /\ Q1D!Add16(a, y) \in Within(k + 1)
         /\ Q1D!Add16(a, y)[0] + Q1D!Add16(a, y)[1] = a[0] + a[1] + (y[0] + y[1])
<1>1. \A i \in 0 .. 1 : a[i] \in Int /\ a[i] <= 508 * k /\ a[i] + 508 * k >= 0 BY DEF Within
<1>2. ASSUME NEW i \in 0 .. 1
      PROVE  /\ Q1D!Wrap16(a[i] + y[i]) = a[i] + y[i] /\ a[i] + y[i] \in Int
             /\ a[i] + y[i] <= 508 * (k + 1) /\ (a[i] + y[i]) + 508 * (k + 1) >= 0
  <2> DEFINE v == a[i]  w == y[i]
  <2>1. v \in Int /\ w \in Pairs /\ v <= 508 * k /\ v + 508 * k >= 0 BY <1>1
  <2> HIDE DEF v, w
  <2>2. /\ Q1D!Wrap16(v + w) = v + w /\ v + w \in Int
        /\ v + w <= 508 * (k + 1) /\ (v + w) + 508 * (k + 1) >= 0
    BY <2>1, PairAdds
  <2> QED BY <2>2 DEF v, w
<1> DEFINE sum == [i \in 0 .. 1 |-> a[i] + y[i]]
<1>3. Q1D!Add16(a, y) = sum
  <2>1. DOMAIN a = 0 .. 1 BY DEF Within
  <2>2. Q1D!Add16(a, y) = [i \in 0 .. 1 |-> Q1D!Wrap16(a[i] + y[i])] BY <2>1 DEF Q1D!Add16
  <2> QED BY <1>2, <2>2
<1>4. sum \in Within(k + 1)
  <2>1. sum \in [0 .. 1 -> Int] BY <1>2
  <2>2. \A i \in 0 .. 1 : sum[i] <= 508 * (k + 1) /\ sum[i] + 508 * (k + 1) >= 0 BY <1>2
  <2> HIDE DEF sum
  <2> QED BY <2>1, <2>2 DEF Within
<1>5. 0 \in 0 .. 1 /\ 1 \in 0 .. 1 OBVIOUS
<1>6. sum[0] = a[0] + y[0] /\ sum[1] = a[1] + y[1] BY <1>5
<1>7. a[0] \in Int /\ a[1] \in Int BY <1>1, <1>5
<1>8. y[0] \in Int /\ y[1] \in Int
  <2>1. y[0] \in Pairs /\ y[1] \in Pairs BY <1>5
  <2> QED BY <2>1 DEF Pairs
<1> HIDE DEF sum
<1> QED BY <1>3, <1>4, <1>6, <1>7, <1>8

Loaded(bytes, qp) == \A g \in 0 .. 7 : bytes[g] \in Unsigned /\ Q1D!Bcast(qp, g) \in Signed

(* The loop of vpmaddubsw, without saturation and wrapping, adds the terms  *)
(* of all groups.                                                           *)
LEMMA SumMaddIs ==
  ASSUME NEW bytes, NEW qp, Loaded(bytes, qp)
  PROVE  AddedUp(8, Q1D!AllGroups, Terms(bytes, qp), 0, Q1D!SumMadd(bytes, qp))
<1>0. \A g \in 0 .. 7 : bytes[g] \in Unsigned /\ Q1D!Bcast(qp, g) \in Signed BY DEF Loaded
<1> DEFINE D == DOMAIN Q1D!AllGroups
           Taken(g, a) == Q1D!Add16(a, Q1D!MaddUbs(bytes[g], Q1D!Bcast(qp, g)))
           base == [h \in 0 .. 1 |-> 0]
           value(f) == [T \in SUBSET D |->
                         IF T = {} THEN base
                         ELSE Q1D!Add16(f[T \ {Q1D!Max(T)}],
                                        Q1D!MaddUbs(bytes[Q1D!AllGroups[Q1D!Max(T)]],
                                                    Q1D!Bcast(qp, Q1D!AllGroups[Q1D!Max(T)])))]
           it == CHOOSE f : f = value(f)
           X == [0 .. 1 -> Int]
           step == [p \in (1 .. 8) \X X |-> Taken(p[1] - 1, p[2])]
<1>1. Q1D!SumMadd(bytes, qp) = Q1D!MaddOnes(it[D])[0]
  BY DEF Q1D!SumMadd, Q1D!FoldLeft, Q1D!MapThenFoldSet
<1>2. D = 1 .. 8 /\ \A k \in 1 .. 8 : Q1D!AllGroups[k] = k - 1 BY DEF Q1D!AllGroups
<1>3. ASSUME NEW k \in 1 .. 8, NEW a \in X
      PROVE  Taken(k - 1, a) \in X /\ step[<<k, a>>] = Taken(k - 1, a)
  <2>1. k - 1 \in 0 .. 7 OBVIOUS
  <2> DEFINE y == Q1D!MaddUbs(bytes[k - 1], Q1D!Bcast(qp, k - 1))
  <2>2. y \in [0 .. 1 -> Pairs] BY <1>0, <2>1, PairsFit
  <2>3. \A v \in Int : Q1D!Wrap16(v) \in Int BY DEF Q1D!Wrap16
  <2> HIDE DEF y
  <2>4. \A i \in 0 .. 1 : a[i] + y[i] \in Int
    <3> TAKE i \in 0 .. 1
    <3>1. y[i] \in Pairs BY <2>2
    <3>2. y[i] \in Int /\ a[i] \in Int BY <3>1 DEF Pairs
    <3> QED BY <3>2
  <2>5. Q1D!Add16(a, y) \in X BY <2>3, <2>4 DEF Q1D!Add16
  <2> QED BY <2>5 DEF y
<1>4. Closed(8, X, base, step)
  <2>1. base \in X OBVIOUS
  <2>2. \A k \in 1 .. 8, a \in X : step[<<k, a>>] \in X
    <3> TAKE k \in 1 .. 8, a \in X
    <3>1. step[<<k, a>>] = Taken(k - 1, a) /\ Taken(k - 1, a) \in X BY <1>3
    <3> HIDE DEF step, X, Taken
    <3> QED BY <3>1
  <2> HIDE DEF step, X, base
  <2> QED BY <2>1, <2>2 DEF Closed
<1>5. PICK f \in [SUBSET (1 .. 8) -> X] : Descends(f, 8, base, step)
  <2> HIDE DEF step, X, base
  <2> QED BY <1>4, FoldDown DEF CanDescend
<1>6. f = value(f)
  <2> DEFINE v == value(f)
  <2>1. ASSUME NEW T \in SUBSET (1 .. 8) PROVE v[T] = f[T]
    <3>1. CASE T = {} BY <1>2, <1>5, <3>1 DEF Descends
    <3>2. CASE T # {}
      <4> DEFINE m == Q1D!Max(T)
      <4>1. m \in 1 .. 8 /\ T \ {m} \in SUBSET (1 .. 8) BY <3>2, MaxIn
      <4>2. f[T \ {m}] \in X BY <4>1
      <4>3. v[T] = Taken(Q1D!AllGroups[m], f[T \ {m}]) BY <1>2, <3>2
      <4>4. step[<<m, f[T \ {m}]>>] = Taken(m - 1, f[T \ {m}]) BY <1>3, <4>1, <4>2
      <4>5. f[T] = step[<<m, f[T \ {m}]>>] BY <1>5, <3>2 DEF Descends
      <4>6. Q1D!AllGroups[m] = m - 1 BY <1>2, <4>1
      <4> HIDE DEF v, step, m
      <4> QED BY <4>3, <4>4, <4>5, <4>6
    <3> QED BY <3>1, <3>2
  <2>2. f = [T \in SUBSET (1 .. 8) |-> f[T]] /\ v = [T \in SUBSET (1 .. 8) |-> v[T]] BY <1>2
  <2> HIDE DEF v
  <2>3. f = v BY <2>1, <2>2
  <2> QED BY <2>3 DEF v
<1> HIDE DEF value
<1>7. it = value(it) BY <1>6
<1> HIDE DEF it
<1>8. Along(it, 8, X, base, step)
  <2>1. it[{}] = base
    <3>1. {} \in SUBSET D OBVIOUS
    <3> QED BY <1>7, <3>1 DEF value
  <2>2. ASSUME NEW T \in SUBSET (1 .. 8), T # {}, it[T \ {Q1D!Max(T)}] \in X
        PROVE  it[T] = step[<<Q1D!Max(T), it[T \ {Q1D!Max(T)}]>>]
    <3> DEFINE m == Q1D!Max(T)  a == it[T \ {m}]
    <3>1. m \in 1 .. 8 BY <2>2, MaxIn
    <3>2. it[T] = Taken(Q1D!AllGroups[m], a) BY <1>2, <1>7, <2>2 DEF value
    <3>3. step[<<m, a>>] = Taken(m - 1, a) BY <1>3, <2>2, <3>1
    <3>4. Q1D!AllGroups[m] = m - 1 BY <1>2, <3>1
    <3> HIDE DEF step, m
    <3>5. it[T] = step[<<m, a>>] BY <3>2, <3>3, <3>4
    <3> QED BY <3>5 DEF m
  <2> HIDE DEF step, base, X
  <2> QED BY <2>1, <2>2 DEF Along
<1>9. /\ it[1 .. 0] = base /\ \A k \in 0 .. 8 : it[1 .. k] \in X
      /\ \A k \in 1 .. 8 : it[1 .. k] = step[<<k, it[1 .. k - 1]>>]
  <2> HIDE DEF step, base, X
  <2> DEFINE n == 8
  <2>1. n \in Nat /\ Closed(n, X, base, step) /\ Along(it, n, X, base, step) BY <1>4, <1>8
  <2> HIDE DEF n
  <2>2. Chained(it, n, X, base, step) BY <2>1, FoldAlong
  <2> QED BY <2>2 DEF n, Chained
<1> DEFINE c == [k \in 0 .. 8 |-> it[1 .. k][0] + it[1 .. k][1]]
           G == {k \in Nat : k <= 8 => it[1 .. k] \in Within(k)}
<1>10. c[0] = 0 BY <1>9
<1>11. \A k \in 0 .. 8 : c[k] \in Int
  <2> TAKE k \in 0 .. 8
  <2>1. it[1 .. k] \in X BY <1>9
  <2> QED BY <2>1
<1>12. ASSUME NEW k \in 1 .. 8, it[1 .. k - 1] \in Within(k - 1)
       PROVE  /\ it[1 .. k] \in Within(k)
              /\ c[k] = c[k - 1] + DpTerm(bytes[k - 1], Q1D!Bcast(qp, k - 1))
  <2>1. k - 1 \in 0 .. 8 /\ k \in 0 .. 8 /\ k - 1 \in 0 .. 7 /\ (k - 1) + 1 = k OBVIOUS
  <2> DEFINE a == it[1 .. k - 1]  y == Q1D!MaddUbs(bytes[k - 1], Q1D!Bcast(qp, k - 1))
  <2>2. a \in X BY <1>9, <2>1
  <2>3. step[<<k, a>>] = Q1D!Add16(a, y) BY <1>3, <2>2
  <2>4. it[1 .. k] = Q1D!Add16(a, y) BY <1>9, <2>3
  <2>5. c[k] = it[1 .. k][0] + it[1 .. k][1] /\ c[k - 1] = a[0] + a[1] BY <2>1
  <2>6. y \in [0 .. 1 -> Pairs] /\ y[0] + y[1] = DpTerm(bytes[k - 1], Q1D!Bcast(qp, k - 1))
    BY <1>0, <2>1, PairsFit
  <2>7. a \in Within(k - 1) BY <1>12
  <2> HIDE DEF a, y, c, step, X
  <2>8. Q1D!Add16(a, y) \in Within((k - 1) + 1)
        /\ Q1D!Add16(a, y)[0] + Q1D!Add16(a, y)[1] = a[0] + a[1] + (y[0] + y[1])
    BY <2>1, <2>6, <2>7, AddFits
  <2> QED BY <2>1, <2>4, <2>5, <2>6, <2>8
<1>13. \A k \in Nat : k \in G
  <2>1. 0 \in G BY <1>9 DEF Within
  <2>2. ASSUME NEW k \in Nat, k \in G PROVE k + 1 \in G
    <3>1. CASE k + 1 <= 8
      <4>1. k + 1 \in 1 .. 8 /\ (k + 1) - 1 = k BY <3>1
      <4>2. it[1 .. k] \in Within(k) BY <2>2, <3>1
      <4>3. it[1 .. k + 1] \in Within(k + 1) BY <1>12, <4>1, <4>2
      <4> QED BY <4>3
    <3> QED BY <3>1
  <2> HIDE DEF G
  <2> QED BY <2>1, <2>2, Naturals
<1>14. ASSUME NEW k \in 1 .. 8
       PROVE  c[k] = c[k - 1] + DpTerm(bytes[k - 1], Q1D!Bcast(qp, k - 1))
  <2>1. k - 1 \in Nat /\ k - 1 <= 8 OBVIOUS
  <2>2. it[1 .. k - 1] \in Within(k - 1) BY <1>13, <2>1
  <2> HIDE DEF c
  <2> QED BY <1>12, <2>2
<1>15. Q1D!MaddOnes(it[D])[0] = c[8]
  <2>1. it[D] \in X BY <1>2, <1>9
  <2>2. Q1D!Width(it[D]) = 2
    <3>1. DOMAIN it[D] = 0 .. 2 - 1 BY <2>1
    <3> QED BY <3>1, WidthIs
  <2>3. Q1D!MaddOnes(it[D]) = [i \in 0 .. 0 |-> it[D][2 * i] + it[D][2 * i + 1]]
    <3>1. Q1D!Width(it[D]) \div 2 - 1 = 0 BY <2>2
    <3> QED BY <3>1 DEF Q1D!MaddOnes
  <2>4. Q1D!MaddOnes(it[D])[0] = it[D][0] + it[D][1] BY <2>3
  <2> QED BY <1>2, <2>4
<1>16. \A k \in 1 .. 8 : DpTerm(bytes[k - 1], Q1D!Bcast(qp, k - 1)) = Terms(bytes, qp)[Q1D!AllGroups[k]]
  <2>1. \A k \in 1 .. 8 : k - 1 \in 0 .. 7 OBVIOUS
  <2> QED BY <1>2, <2>1 DEF Terms
<1> HIDE DEF c
<1> QED BY <1>1, <1>10, <1>11, <1>14, <1>15, <1>16 DEF AddedUp

-----------------------------------------------------------------------------
(* The dot product by columns, and what a group of bytes adds to it.       *)

Elem == 0 .. 31
(* What column g of the eight columns of four elements adds. *)
Column(f, g) == f[g] + f[8 + g] + f[16 + g] + f[24 + g]
Columns(f) == Column(f, 0) + Column(f, 1) + Column(f, 2) + Column(f, 3)
                + Column(f, 4) + Column(f, 5) + Column(f, 6) + Column(f, 7)

(* The total over a sub-block is that of the columns of its eight groups. *)
LEMMA Total32 ==
  ASSUME NEW f \in [Elem -> Int]
  PROVE  Q1D!Total(f) = Columns(f) /\ Columns(f) \in Int /\ \A g \in 0 .. 7 : Column(f, g) \in Int
<1> DEFINE n == 32
<1>1. f \in [0 .. n - 1 -> Int]
  <2>1. n - 1 = 31 OBVIOUS
  <2> QED BY <2>1 DEF Elem
<1>2. n \in Nat OBVIOUS
<1>3. \E c \in [0 .. n -> Int] :
        c[0] = 0 /\ (\A k \in 0 .. n - 1 : c[k + 1] = c[k] + f[k]) /\ Q1D!Total(f) = c[n]
  <2> HIDE DEF n
  <2> QED BY <1>1, <1>2, TotalUp
<1>4. PICK c \in [0 .. 32 -> Int] :
        c[0] = 0 /\ (\A k \in 0 .. 31 : c[k + 1] = c[k] + f[k]) /\ Q1D!Total(f) = c[32]
  <2>1. n - 1 = 31 OBVIOUS
  <2> QED BY <1>3, <2>1
<1>5. \A e \in 0 .. 31 : f[e] \in Int BY DEF Elem
<1>6. \A j \in 0 .. 24 :
        c[j + 8] = c[j] + f[j] + f[j + 1] + f[j + 2] + f[j + 3] + f[j + 4] + f[j + 5] + f[j + 6] + f[j + 7]
  <2> TAKE j \in 0 .. 24
  <2>1. \A i \in 0 .. 7 : j + i \in 0 .. 31 /\ c[j + i] \in Int /\ f[j + i] \in Int BY <1>5
  <2>2. \A i \in 0 .. 7 : c[(j + i) + 1] = c[j + i] + f[j + i] BY <1>4, <2>1
  <2>3. c[j + 1] = c[j] + f[j] /\ c[j + 2] = c[j + 1] + f[j + 1]
    <3>1. c[(j + 0) + 1] = c[j + 0] + f[j + 0] /\ c[(j + 1) + 1] = c[j + 1] + f[j + 1] BY <2>2
    <3>2. (j + 0) + 1 = j + 1 /\ j + 0 = j /\ (j + 1) + 1 = j + 2 OBVIOUS
    <3> QED BY <3>1, <3>2
  <2>4. c[j + 3] = c[j + 2] + f[j + 2] /\ c[j + 4] = c[j + 3] + f[j + 3]
    <3>1. c[(j + 2) + 1] = c[j + 2] + f[j + 2] /\ c[(j + 3) + 1] = c[j + 3] + f[j + 3] BY <2>2
    <3>2. (j + 2) + 1 = j + 3 /\ (j + 3) + 1 = j + 4 OBVIOUS
    <3> QED BY <3>1, <3>2
  <2>5. c[j + 5] = c[j + 4] + f[j + 4] /\ c[j + 6] = c[j + 5] + f[j + 5]
    <3>1. c[(j + 4) + 1] = c[j + 4] + f[j + 4] /\ c[(j + 5) + 1] = c[j + 5] + f[j + 5] BY <2>2
    <3>2. (j + 4) + 1 = j + 5 /\ (j + 5) + 1 = j + 6 OBVIOUS
    <3> QED BY <3>1, <3>2
  <2>6. c[j + 7] = c[j + 6] + f[j + 6] /\ c[j + 8] = c[j + 7] + f[j + 7]
    <3>1. c[(j + 6) + 1] = c[j + 6] + f[j + 6] /\ c[(j + 7) + 1] = c[j + 7] + f[j + 7] BY <2>2
    <3>2. (j + 6) + 1 = j + 7 /\ (j + 7) + 1 = j + 8 OBVIOUS
    <3> QED BY <3>1, <3>2
  <2> QED BY <2>3, <2>4, <2>5, <2>6
<1>7. c[8] = f[0] + f[1] + f[2] + f[3] + f[4] + f[5] + f[6] + f[7]
  <2>1. c[0 + 8] = c[0] + f[0] + f[0 + 1] + f[0 + 2] + f[0 + 3] + f[0 + 4] + f[0 + 5] + f[0 + 6] + f[0 + 7] BY <1>6
  <2> QED BY <2>1, <1>4, <1>5
<1>8. c[16] = c[8] + f[8] + f[9] + f[10] + f[11] + f[12] + f[13] + f[14] + f[15]
  <2>1. c[8 + 8] = c[8] + f[8] + f[8 + 1] + f[8 + 2] + f[8 + 3] + f[8 + 4] + f[8 + 5] + f[8 + 6] + f[8 + 7] BY <1>6
  <2> QED BY <2>1
<1>9. c[24] = c[16] + f[16] + f[17] + f[18] + f[19] + f[20] + f[21] + f[22] + f[23]
  <2>1. c[16 + 8] = c[16] + f[16] + f[16 + 1] + f[16 + 2] + f[16 + 3] + f[16 + 4] + f[16 + 5] + f[16 + 6] + f[16 + 7] BY <1>6
  <2> QED BY <2>1
<1>10. c[32] = c[24] + f[24] + f[25] + f[26] + f[27] + f[28] + f[29] + f[30] + f[31]
  <2>1. c[24 + 8] = c[24] + f[24] + f[24 + 1] + f[24 + 2] + f[24 + 3] + f[24 + 4] + f[24 + 5] + f[24 + 6] + f[24 + 7] BY <1>6
  <2> QED BY <2>1
<1>11. /\ f[0] \in Int /\ f[1] \in Int /\ f[2] \in Int /\ f[3] \in Int /\ f[4] \in Int /\ f[5] \in Int
       /\ f[6] \in Int /\ f[7] \in Int /\ f[8] \in Int /\ f[9] \in Int /\ f[10] \in Int /\ f[11] \in Int
       /\ f[12] \in Int /\ f[13] \in Int /\ f[14] \in Int /\ f[15] \in Int /\ f[16] \in Int /\ f[17] \in Int
       /\ f[18] \in Int /\ f[19] \in Int /\ f[20] \in Int /\ f[21] \in Int /\ f[22] \in Int /\ f[23] \in Int
       /\ f[24] \in Int /\ f[25] \in Int /\ f[26] \in Int /\ f[27] \in Int /\ f[28] \in Int /\ f[29] \in Int
       /\ f[30] \in Int /\ f[31] \in Int
  BY <1>5
<1> HIDE DEF n
<1>12. c[32] = Columns(f) /\ c[32] \in Int BY <1>7, <1>8, <1>9, <1>10, <1>11 DEF Columns, Column
<1>13. \A g \in 0 .. 7 : Column(f, g) \in Int
  <2> TAKE g \in 0 .. 7
  <2>1. f[g] \in Int /\ f[8 + g] \in Int /\ f[16 + g] \in Int /\ f[24 + g] \in Int BY <1>5
  <2> QED BY <2>1 DEF Column
<1> QED BY <1>4, <1>12, <1>13

Bits == [Elem -> 0 .. 1]
Int8s == [Elem -> -127 .. 127]
Chosen(bit, q) == [e \in Elem |-> IF bit[e] = 1 THEN q[e] ELSE 0]

(* The reference dot product: twice the activations whose bit is set, less  *)
(* all.                                                                     *)
LEMMA DotIs ==
  ASSUME NEW bit \in Bits, NEW q \in Int8s
  PROVE  /\ Chosen(bit, q) \in [Elem -> Int] /\ q \in [Elem -> Int]
         /\ Q1D!Total(q) \in Int /\ Columns(Chosen(bit, q)) \in Int
         /\ Q1D!Dot(bit, q) = 2 * Columns(Chosen(bit, q)) - Q1D!Total(q)
<1> DEFINE v == Chosen(bit, q)
           d == [e \in Elem |-> IF bit[e] = 1 THEN q[e] ELSE -q[e]]
<1>1. \A e \in Elem : q[e] \in Int
  <2> TAKE e \in Elem
  <2>1. q[e] \in -127 .. 127 BY DEF Int8s
  <2> QED BY <2>1
<1>2. q \in [Elem -> Int] BY <1>1 DEF Int8s
<1>3. \A e \in Elem : v[e] \in Int /\ d[e] \in Int /\ d[e] = 2 * v[e] - q[e] BY <1>1 DEF Chosen
<1>4. v \in [Elem -> Int] /\ d \in [Elem -> Int] BY <1>1 DEF Chosen
<1>5. Q1D!Dot(bit, q) = Q1D!Total(d) BY DEF Q1D!Dot, Q1D!Elem, Elem
<1> HIDE DEF v, d
<1>6. \A g \in 0 .. 7 : Column(d, g) = 2 * Column(v, g) - Column(q, g)
  <2> TAKE g \in 0 .. 7
  <2>1. g \in Elem /\ 8 + g \in Elem /\ 16 + g \in Elem /\ 24 + g \in Elem BY DEF Elem
  <2> QED BY <1>1, <1>3, <2>1 DEF Column
<1>7. /\ Q1D!Total(q) = Columns(q) /\ Columns(q) \in Int /\ Q1D!Total(d) = Columns(d)
      /\ Columns(v) \in Int
      /\ \A g \in 0 .. 7 : Column(q, g) \in Int /\ Column(v, g) \in Int
  BY <1>2, <1>4, Total32
<1>8. Columns(d) = 2 * Columns(v) - Columns(q) BY <1>6, <1>7 DEF Columns
<1> QED BY <1>2, <1>4, <1>5, <1>7, <1>8 DEF v

(* What the bytes of the groups add. *)
LEMMA GroupTerms ==
  ASSUME NEW bit \in Bits, NEW q \in Int8s, NEW g \in 0 .. 7
  PROVE  /\ Q1D!Bcast(Q1D!Permuted(q), g) \in Signed
         /\ Q1D!Group01(bit, g) \in Unsigned /\ Q1D!Group02(bit, g) \in Unsigned /\ Q1D!SlabGroup(bit, g) \in Unsigned
         /\ DpTerm(Q1D!Group01(bit, g), Q1D!Bcast(Q1D!Permuted(q), g)) = Column(Chosen(bit, q), g)
         /\ DpTerm(Q1D!Group02(bit, g), Q1D!Bcast(Q1D!Permuted(q), g)) = 2 * Column(Chosen(bit, q), g)
         /\ DpTerm(Q1D!SlabGroup(bit, g), Q1D!Bcast(Q1D!Permuted(q), g)) = 2 * Column(Chosen(bit, q), g)
<1> DEFINE s == Q1D!Bcast(Q1D!Permuted(q), g)
           One(p) == IF bit[8 * p + g] = 1 THEN 1 ELSE 0
           u1 == Q1D!Group01(bit, g)
           u2 == Q1D!Group02(bit, g)
           u3 == Q1D!SlabGroup(bit, g)
<1>1. \A p \in 0 .. 3 : 8 * p + g \in Elem /\ 4 * g + p \in Elem
                       /\ (4 * g + p) % 4 = p /\ (4 * g + p) \div 4 = g
  BY DEF Elem
<1>2. \A p \in 0 .. 3 : q[8 * p + g] \in -127 .. 127 /\ bit[8 * p + g] \in 0 .. 1 BY <1>1 DEF Int8s, Bits
<1>3. s = [p \in 0 .. 3 |-> q[8 * p + g]]
  <2>1. \A p \in 0 .. 3 : Q1D!Permuted(q)[4 * g + p] = q[8 * p + g]
    BY <1>1 DEF Q1D!Permuted, Q1D!Elem, Elem
  <2> QED BY <2>1 DEF Q1D!Bcast
<1>4. u1 = [p \in 0 .. 3 |-> One(p)]
  <2>1. \A p \in 0 .. 3 : 8 * p + 0 + g = 8 * p + g OBVIOUS
  <2> QED BY <1>1, <2>1 DEF Q1D!Group01, Q1D!Expand, Q1D!Elem, Elem
<1>5. u2 = [p \in 0 .. 3 |-> 2 * One(p)]
  <2>1. \A p \in 0 .. 3 : 8 * p + 1 + (g - 1) = 8 * p + g OBVIOUS
  <2> QED BY <1>1, <2>1 DEF Q1D!Group02, Q1D!Expand, Q1D!Elem, Elem
<1>6. u3 = [p \in 0 .. 3 |-> 2 * One(p)] BY <1>4 DEF Q1D!SlabGroup
<1>7. s \in Signed /\ u1 \in Unsigned /\ u2 \in Unsigned /\ u3 \in Unsigned
  <2>1. s \in Signed BY <1>2, <1>3 DEF Signed
  <2>2. \A p \in 0 .. 3 : One(p) \in 0 .. 2 /\ 2 * One(p) \in 0 .. 2 OBVIOUS
  <2> HIDE DEF One
  <2> QED BY <1>4, <1>5, <1>6, <2>1, <2>2 DEF Unsigned
<1> DEFINE v == Chosen(bit, q)
<1>8. \A p \in 0 .. 3 : One(p) * q[8 * p + g] = v[8 * p + g] /\ (2 * One(p)) * q[8 * p + g] = 2 * v[8 * p + g]
  <2> TAKE p \in 0 .. 3
  <2>1. q[8 * p + g] \in -127 .. 127 BY <1>2
  <2>2. q[8 * p + g] \in Int BY <2>1
  <2>3. v[8 * p + g] = IF bit[8 * p + g] = 1 THEN q[8 * p + g] ELSE 0 BY <1>1 DEF Chosen
  <2>4. CASE bit[8 * p + g] = 1
    <3>1. One(p) = 1 /\ 2 * One(p) = 2 /\ v[8 * p + g] = q[8 * p + g] BY <2>3, <2>4
    <3> HIDE DEF One, v
    <3> QED BY <2>2, <3>1
  <2>5. CASE bit[8 * p + g] # 1
    <3>1. One(p) = 0 /\ 2 * One(p) = 0 /\ v[8 * p + g] = 0 BY <2>3, <2>5
    <3> HIDE DEF One, v
    <3> QED BY <2>2, <3>1
  <2> QED BY <2>4, <2>5
<1>9. \A p \in 0 .. 3 : v[8 * p + g] \in Int
  <2> TAKE p \in 0 .. 3
  <2>1. q[8 * p + g] \in -127 .. 127 BY <1>2
  <2>2. v[8 * p + g] = IF bit[8 * p + g] = 1 THEN q[8 * p + g] ELSE 0 BY <1>1 DEF Chosen
  <2> QED BY <2>1, <2>2
<1>10. /\ v[g] \in Int /\ v[8 + g] \in Int /\ v[16 + g] \in Int /\ v[24 + g] \in Int
  <2>1. 8 * 0 + g = g /\ 8 * 1 + g = 8 + g /\ 8 * 2 + g = 16 + g /\ 8 * 3 + g = 24 + g OBVIOUS
  <2> HIDE DEF v
  <2> QED BY <1>9, <2>1
<1>11. \A p \in 0 .. 3 : u1[p] * s[p] = v[8 * p + g] BY <1>3, <1>4, <1>8
<1>12. \A p \in 0 .. 3 : u2[p] * s[p] = 2 * v[8 * p + g] BY <1>3, <1>5, <1>8
<1>13. \A p \in 0 .. 3 : u3[p] * s[p] = 2 * v[8 * p + g] BY <1>3, <1>6, <1>8
<1> HIDE DEF u1, u2, u3, s, v
<1>14. /\ 0 \in 0 .. 3 /\ 1 \in 0 .. 3 /\ 2 \in 0 .. 3 /\ 3 \in 0 .. 3
       /\ 8 * 0 + g = g /\ 8 * 1 + g = 8 + g /\ 8 * 2 + g = 16 + g /\ 8 * 3 + g = 24 + g OBVIOUS
<1>15. DpTerm(u1, s) = Column(v, g)
  <2>1. u1[0] * s[0] = v[g] /\ u1[1] * s[1] = v[8 + g] /\ u1[2] * s[2] = v[16 + g] /\ u1[3] * s[3] = v[24 + g]
    BY <1>11, <1>14
  <2> QED BY <1>10, <2>1 DEF DpTerm, Column
<1>16. DpTerm(u2, s) = 2 * Column(v, g)
  <2>1. u2[0] * s[0] = 2 * v[g] /\ u2[1] * s[1] = 2 * v[8 + g] /\ u2[2] * s[2] = 2 * v[16 + g] /\ u2[3] * s[3] = 2 * v[24 + g]
    BY <1>12, <1>14
  <2> QED BY <1>10, <2>1 DEF DpTerm, Column
<1>17. DpTerm(u3, s) = 2 * Column(v, g)
  <2>1. u3[0] * s[0] = 2 * v[g] /\ u3[1] * s[1] = 2 * v[8 + g] /\ u3[2] * s[2] = 2 * v[16 + g] /\ u3[3] * s[3] = 2 * v[24 + g]
    BY <1>13, <1>14
  <2> QED BY <1>10, <2>1 DEF DpTerm, Column
<1> QED BY <1>7, <1>15, <1>16, <1>17 DEF u1, u2, u3, s, v

-----------------------------------------------------------------------------
(* The kernels that go group by group.                                     *)

(* What the kernels load are bytes. *)
LEMMA SmallBytes ==
  /\ \A u \in Unsigned : Byte4(u)
  /\ \A s \in Signed : Byte4(s)
<1>1. ASSUME NEW u \in Unsigned PROVE Byte4(u) BY DEF Unsigned, Byte4
<1>2. ASSUME NEW s \in Signed, NEW p \in 0 .. 3 PROVE s[p] \in Int
  <2>1. s[p] \in -127 .. 127 BY <1>2 DEF Signed
  <2> QED BY <2>1
<1> QED BY <1>1, <1>2 DEF Byte4

(* The loop of vpdpbusd for such bytes. *)
LEMMA SumDpAdds ==
  ASSUME NEW n \in Nat, NEW groups \in [1 .. n -> 0 .. 7], NEW bytes, NEW qp, NEW acc \in Int,
         Loaded(bytes, qp)
  PROVE  AddedUp(n, groups, Terms(bytes, qp), acc, Q1D!SumDp(bytes, qp, groups, acc))
<1>1. \A g \in 0 .. 7 : Byte4(bytes[g]) /\ Byte4(Q1D!Bcast(qp, g)) BY SmallBytes DEF Loaded
<1> QED BY <1>1, SumDpIs

(* What four groups add. *)
LEMMA FourAdded ==
  ASSUME NEW groups \in [1 .. 4 -> 0 .. 7], NEW t \in [0 .. 7 -> Int], NEW sum, AddedUp(4, groups, t, 0, sum)
  PROVE  sum = t[groups[1]] + t[groups[2]] + t[groups[3]] + t[groups[4]]
<1>1. PICK c : /\ c[0] = 0 /\ (\A k \in 0 .. 4 : c[k] \in Int)
               /\ \A k \in 1 .. 4 : c[k] = c[k - 1] + t[groups[k]]
               /\ sum = c[4]
  BY DEF AddedUp
<1>2. \A k \in 1 .. 4 : t[groups[k]] \in Int
  <2> TAKE k \in 1 .. 4
  <2>1. groups[k] \in 0 .. 7 OBVIOUS
  <2> QED BY <2>1
<1>3. 1 - 1 = 0 /\ 2 - 1 = 1 /\ 3 - 1 = 2 /\ 4 - 1 = 3 OBVIOUS
<1>4. c[1] = c[0] + t[groups[1]] /\ c[2] = c[1] + t[groups[2]]
      /\ c[3] = c[2] + t[groups[3]] /\ c[4] = c[3] + t[groups[4]]
  BY <1>1, <1>3
<1> QED BY <1>1, <1>2, <1>4

(* What all eight groups add. *)
LEMMA EightAdded ==
  ASSUME NEW t \in [0 .. 7 -> Int], NEW acc \in Int, NEW sum, AddedUp(8, Q1D!AllGroups, t, acc, sum)
  PROVE  sum = acc + (t[0] + t[1] + t[2] + t[3] + t[4] + t[5] + t[6] + t[7])
<1>1. PICK c : /\ c[0] = acc /\ (\A k \in 0 .. 8 : c[k] \in Int)
               /\ \A k \in 1 .. 8 : c[k] = c[k - 1] + t[Q1D!AllGroups[k]]
               /\ sum = c[8]
  BY DEF AddedUp
<1>2. \A k \in 1 .. 8 : Q1D!AllGroups[k] = k - 1 BY DEF Q1D!AllGroups
<1>3. \A k \in 1 .. 8 : c[k] = c[k - 1] + t[k - 1] BY <1>1, <1>2
<1>4. 1 - 1 = 0 /\ 2 - 1 = 1 /\ 3 - 1 = 2 /\ 4 - 1 = 3 /\ 5 - 1 = 4 /\ 6 - 1 = 5 /\ 7 - 1 = 6 /\ 8 - 1 = 7
  OBVIOUS
<1>5. /\ c[1] = c[0] + t[0] /\ c[2] = c[1] + t[1] /\ c[3] = c[2] + t[2] /\ c[4] = c[3] + t[3]
      /\ c[5] = c[4] + t[4] /\ c[6] = c[5] + t[5] /\ c[7] = c[6] + t[6] /\ c[8] = c[7] + t[7]
  BY <1>3, <1>4
<1>6. /\ t[0] \in Int /\ t[1] \in Int /\ t[2] \in Int /\ t[3] \in Int
      /\ t[4] \in Int /\ t[5] \in Int /\ t[6] \in Int /\ t[7] \in Int OBVIOUS
<1> QED BY <1>1, <1>5, <1>6

(* What the two vector sums give for bytes whose terms are t. *)
LEMMA GroupSums ==
  ASSUME NEW bytes, NEW qp, Loaded(bytes, qp), NEW t \in [0 .. 7 -> Int], Terms(bytes, qp) = t, NEW acc \in Int
  PROVE  /\ Q1D!SumDp(bytes, qp, <<0, 2, 4, 6>>, 0) + Q1D!SumDp(bytes, qp, <<1, 3, 5, 7>>, 0)
              = t[0] + t[1] + t[2] + t[3] + t[4] + t[5] + t[6] + t[7]
         /\ Q1D!SumDp(bytes, qp, Q1D!AllGroups, acc)
              = acc + (t[0] + t[1] + t[2] + t[3] + t[4] + t[5] + t[6] + t[7])
         /\ Q1D!SumMadd(bytes, qp) = t[0] + t[1] + t[2] + t[3] + t[4] + t[5] + t[6] + t[7]
<1> DEFINE e == <<0, 2, 4, 6>>  o == <<1, 3, 5, 7>>
<1>1. e[1] = 0 /\ e[2] = 2 /\ e[3] = 4 /\ e[4] = 6 /\ o[1] = 1 /\ o[2] = 3 /\ o[3] = 5 /\ o[4] = 7 OBVIOUS
<1>2. e \in [1 .. 4 -> 0 .. 7] /\ o \in [1 .. 4 -> 0 .. 7] OBVIOUS
<1>3. Q1D!AllGroups \in [1 .. 8 -> 0 .. 7] BY DEF Q1D!AllGroups
<1>4. /\ t[0] \in Int /\ t[1] \in Int /\ t[2] \in Int /\ t[3] \in Int
      /\ t[4] \in Int /\ t[5] \in Int /\ t[6] \in Int /\ t[7] \in Int OBVIOUS
<1> HIDE DEF e, o
<1>5. 4 \in Nat /\ 8 \in Nat /\ 0 \in Int OBVIOUS
<1>6. AddedUp(4, e, t, 0, Q1D!SumDp(bytes, qp, e, 0)) BY <1>2, <1>5, SumDpAdds
<1>7. AddedUp(4, o, t, 0, Q1D!SumDp(bytes, qp, o, 0)) BY <1>2, <1>5, SumDpAdds
<1>8. AddedUp(8, Q1D!AllGroups, t, acc, Q1D!SumDp(bytes, qp, Q1D!AllGroups, acc))
  BY <1>3, <1>5, SumDpAdds
<1>9. AddedUp(8, Q1D!AllGroups, t, 0, Q1D!SumMadd(bytes, qp)) BY SumMaddIs
<1>10. Q1D!SumDp(bytes, qp, e, 0) = t[0] + t[2] + t[4] + t[6]
  <2>1. Q1D!SumDp(bytes, qp, e, 0) = t[e[1]] + t[e[2]] + t[e[3]] + t[e[4]] BY <1>2, <1>6, FourAdded
  <2> QED BY <1>1, <2>1
<1>11. Q1D!SumDp(bytes, qp, o, 0) = t[1] + t[3] + t[5] + t[7]
  <2>1. Q1D!SumDp(bytes, qp, o, 0) = t[o[1]] + t[o[2]] + t[o[3]] + t[o[4]] BY <1>2, <1>7, FourAdded
  <2> QED BY <1>1, <2>1
<1>12. Q1D!SumDp(bytes, qp, Q1D!AllGroups, acc)
         = acc + (t[0] + t[1] + t[2] + t[3] + t[4] + t[5] + t[6] + t[7]) BY <1>8, EightAdded
<1>13. Q1D!SumMadd(bytes, qp) = 0 + (t[0] + t[1] + t[2] + t[3] + t[4] + t[5] + t[6] + t[7])
  BY <1>5, <1>9, EightAdded
<1>14. Q1D!SumDp(bytes, qp, e, 0) + Q1D!SumDp(bytes, qp, o, 0)
         = t[0] + t[1] + t[2] + t[3] + t[4] + t[5] + t[6] + t[7] BY <1>4, <1>10, <1>11
<1>15. Q1D!SumMadd(bytes, qp) = t[0] + t[1] + t[2] + t[3] + t[4] + t[5] + t[6] + t[7] BY <1>4, <1>13
<1> QED BY <1>12, <1>14, <1>15 DEF e, o

(* The kernels of one sub-block. *)
LEMMA GroupKernels ==
  ASSUME NEW bit \in Bits, NEW q \in Int8s
  PROVE  {Q1D!DotAvx512Vnni(bit, q), Q1D!DotAvx512Bw(bit, q), Q1D!DotMultiVnni(bit, q), Q1D!DotMulti(bit, q),
          Q1D!DotTile(bit, q), Q1D!DotTileVnni(bit, q)} = {Q1D!Dot(bit, q)}
<1> DEFINE v == Chosen(bit, q)
           qp == Q1D!Permuted(q)
           b1 == [g \in 0 .. 7 |-> Q1D!Group01(bit, g)]
           b2 == [g \in 0 .. 7 |-> Q1D!Group02(bit, g)]
           b3 == [g \in 0 .. 7 |-> Q1D!SlabGroup(bit, g)]
           t == [g \in 0 .. 7 |-> Column(v, g)]
           tt == [g \in 0 .. 7 |-> 2 * Column(v, g)]
           neg == Q1D!NegSum(q)
<1>1. v \in [Elem -> Int] /\ Q1D!Total(q) \in Int /\ Columns(v) \in Int
      /\ Q1D!Dot(bit, q) = 2 * Columns(v) - Q1D!Total(q) BY DotIs
<1>2. \A g \in 0 .. 7 : Column(v, g) \in Int
  <2> HIDE DEF v
  <2> QED BY <1>1, Total32
<1>3. neg \in Int /\ neg = -Q1D!Total(q) BY <1>1 DEF Q1D!NegSum
<1>4. t \in [0 .. 7 -> Int] /\ tt \in [0 .. 7 -> Int] BY <1>2
<1>5. \A g \in 0 .. 7 : /\ b1[g] \in Unsigned /\ b2[g] \in Unsigned /\ b3[g] \in Unsigned
                       /\ Q1D!Bcast(qp, g) \in Signed
                       /\ DpTerm(b1[g], Q1D!Bcast(qp, g)) = t[g]
                       /\ DpTerm(b2[g], Q1D!Bcast(qp, g)) = tt[g]
                       /\ DpTerm(b3[g], Q1D!Bcast(qp, g)) = tt[g]
  BY GroupTerms
<1>11. /\ Loaded(b1, qp) /\ Loaded(b2, qp) /\ Loaded(b3, qp)
       /\ Terms(b1, qp) = t /\ Terms(b2, qp) = tt /\ Terms(b3, qp) = tt
  <2>1. t = [g \in 0 .. 7 |-> t[g]] /\ tt = [g \in 0 .. 7 |-> tt[g]] OBVIOUS
  <2> HIDE DEF v, qp, b1, b2, b3, t, tt
  <2> QED BY <1>5, <2>1 DEF Loaded, Terms
<1>7. Columns(v) = t[0] + t[1] + t[2] + t[3] + t[4] + t[5] + t[6] + t[7]
  <2> HIDE DEF v
  <2>1. \A g \in 0 .. 7 : t[g] = Column(v, g) OBVIOUS
  <2> HIDE DEF t
  <2> QED BY <2>1 DEF Columns
<1>8. /\ t[0] \in Int /\ t[1] \in Int /\ t[2] \in Int /\ t[3] \in Int
      /\ t[4] \in Int /\ t[5] \in Int /\ t[6] \in Int /\ t[7] \in Int BY <1>4
<1>9. tt[0] + tt[1] + tt[2] + tt[3] + tt[4] + tt[5] + tt[6] + tt[7] = 2 * Columns(v)
  <2> HIDE DEF v
  <2>1. \A g \in 0 .. 7 : tt[g] = 2 * t[g] OBVIOUS
  <2> HIDE DEF t, tt
  <2>2. /\ tt[0] = 2 * t[0] /\ tt[1] = 2 * t[1] /\ tt[2] = 2 * t[2] /\ tt[3] = 2 * t[3]
        /\ tt[4] = 2 * t[4] /\ tt[5] = 2 * t[5] /\ tt[6] = 2 * t[6] /\ tt[7] = 2 * t[7] BY <2>1
  <2> QED BY <1>7, <1>8, <2>2
<1> HIDE DEF v, qp, b1, b2, b3, t, tt, neg
<1>10. /\ Q1D!SumDp(b1, qp, <<0, 2, 4, 6>>, 0) + Q1D!SumDp(b1, qp, <<1, 3, 5, 7>>, 0) = Columns(v)
       /\ Q1D!SumMadd(b1, qp) = Columns(v) BY <1>3, <1>4, <1>7, <1>11, GroupSums
<1>12. /\ Q1D!SumMadd(b2, qp) = 2 * Columns(v)
       /\ Q1D!SumDp(b2, qp, Q1D!AllGroups, neg) = neg + 2 * Columns(v) BY <1>3, <1>4, <1>9, <1>11, GroupSums
<1>13. /\ Q1D!SumMadd(b3, qp) = 2 * Columns(v)
       /\ Q1D!SumDp(b3, qp, Q1D!AllGroups, neg) = neg + 2 * Columns(v) BY <1>3, <1>4, <1>9, <1>11, GroupSums
<1>14. Q1D!DotAvx512Vnni(bit, q) = Q1D!Dot(bit, q)
  <2>1. Q1D!DotAvx512Vnni(bit, q)
          = 2 * (Q1D!SumDp(b1, qp, <<0, 2, 4, 6>>, 0) + Q1D!SumDp(b1, qp, <<1, 3, 5, 7>>, 0)) + neg
    BY DEF Q1D!DotAvx512Vnni, b1, qp, neg
  <2> QED BY <1>1, <1>3, <1>10, <2>1
<1>15. Q1D!DotAvx512Bw(bit, q) = Q1D!Dot(bit, q)
  <2>1. Q1D!DotAvx512Bw(bit, q) = 2 * Q1D!SumMadd(b1, qp) + neg BY DEF Q1D!DotAvx512Bw, b1, qp, neg
  <2> QED BY <1>1, <1>3, <1>10, <2>1
<1>16. Q1D!DotMultiVnni(bit, q) = Q1D!Dot(bit, q)
  <2>1. Q1D!DotMultiVnni(bit, q) = Q1D!SumDp(b2, qp, Q1D!AllGroups, neg) BY DEF Q1D!DotMultiVnni, b2, qp, neg
  <2> QED BY <1>1, <1>3, <1>12, <1>13, <2>1
<1>17. Q1D!DotTileVnni(bit, q) = Q1D!Dot(bit, q)
  <2>1. Q1D!DotTileVnni(bit, q) = Q1D!SumDp(b3, qp, Q1D!AllGroups, neg) BY DEF Q1D!DotTileVnni, b3, qp, neg
  <2> QED BY <1>1, <1>3, <1>12, <1>13, <2>1
<1>18. Q1D!DotMulti(bit, q) = Q1D!Dot(bit, q)
  <2>1. Q1D!DotMulti(bit, q) = neg + Q1D!SumMadd(b2, qp) BY DEF Q1D!DotMulti, b2, qp, neg
  <2> QED BY <1>1, <1>3, <1>12, <1>13, <2>1
<1>19. Q1D!DotTile(bit, q) = Q1D!Dot(bit, q)
  <2>1. Q1D!DotTile(bit, q) = neg + Q1D!SumMadd(b3, qp) BY DEF Q1D!DotTile, b3, qp, neg
  <2> QED BY <1>1, <1>3, <1>12, <1>13, <2>1
<1> QED BY <1>14, <1>15, <1>16, <1>17, <1>18, <1>19

-----------------------------------------------------------------------------
(* The AVX2 row kernel: the tree of vphaddw.                               *)

(* Sixteen-bit elements no larger than b. *)
Fits(b) == [0 .. 15 -> {v \in Int : v <= b /\ v + b >= 0}]

(* Small 16-bit numbers are added without wrapping. *)
LEMMA WrapsNot ==
  ASSUME NEW b \in Nat, b <= 8000, NEW x \in {v \in Int : v <= b /\ v + b >= 0},
         NEW y \in {v \in Int : v <= b /\ v + b >= 0}
  PROVE  Q1D!Wrap16(x + y) = x + y /\ x + y \in {v \in Int : v <= 2 * b /\ v + 2 * b >= 0}
<1>1. x + y \in Int /\ x + y <= 16000 /\ (x + y) + 16000 >= 0 OBVIOUS
<1>2. \A v \in Int : v <= 16000 /\ v + 16000 >= 0 => Q1D!Wrap16(v) = v BY DEF Q1D!Wrap16
<1> QED BY <1>1, <1>2

(* vphaddw adds neighbours, in each 128-bit half of its own. *)
LEMMA HAddIs ==
  ASSUME NEW b \in Nat, b <= 8000, NEW x \in Fits(b), NEW y \in Fits(b)
  PROVE  /\ Q1D!HAdd16(x, y) \in Fits(2 * b)
         /\ \A o \in {0, 8}, j \in 0 .. 3 :
              /\ Q1D!HAdd16(x, y)[o + j] = x[o + 2 * j] + x[o + 2 * j + 1]
              /\ Q1D!HAdd16(x, y)[o + 4 + j] = y[o + 2 * j] + y[o + 2 * j + 1]
<1> DEFINE D == {v \in Int : v <= b /\ v + b >= 0}
           w(i) == i - (i % 8) + 2 * ((i % 8) % 4)
           h == Q1D!HAdd16(x, y)
<1>1. x \in [0 .. 15 -> D] /\ y \in [0 .. 15 -> D] BY DEF Fits
<1>2. h = [i \in 0 .. 15 |-> IF i % 8 < 4 THEN Q1D!Wrap16(x[w(i)] + x[w(i) + 1])
                                          ELSE Q1D!Wrap16(y[w(i)] + y[w(i) + 1])]
  BY <1>1 DEF Q1D!HAdd16
<1>3. \A i \in 0 .. 15 : w(i) \in 0 .. 15 /\ w(i) + 1 \in 0 .. 15
  <2> TAKE i \in 0 .. 15
  <2>1. CASE i < 8
    <3>1. i % 8 = i /\ i - (i % 8) = 0 /\ (i % 8) % 4 \in 0 .. 3 BY <2>1
    <3> QED BY <3>1
  <2>2. CASE i >= 8
    <3>1. i - (i % 8) = 8 /\ (i % 8) % 4 \in 0 .. 3 BY <2>2
    <3> QED BY <3>1
  <2> QED BY <2>1, <2>2
<1>4. ASSUME NEW i \in 0 .. 15
      PROVE  /\ Q1D!Wrap16(x[w(i)] + x[w(i) + 1]) = x[w(i)] + x[w(i) + 1]
             /\ Q1D!Wrap16(y[w(i)] + y[w(i) + 1]) = y[w(i)] + y[w(i) + 1]
             /\ x[w(i)] + x[w(i) + 1] \in {v \in Int : v <= 2 * b /\ v + 2 * b >= 0}
             /\ y[w(i)] + y[w(i) + 1] \in {v \in Int : v <= 2 * b /\ v + 2 * b >= 0}
  <2> DEFINE k == w(i)
  <2>1. k \in 0 .. 15 /\ k + 1 \in 0 .. 15 BY <1>3
  <2> HIDE DEF k
  <2>2. x[k] \in D /\ x[k + 1] \in D /\ y[k] \in D /\ y[k + 1] \in D BY <1>1, <2>1
  <2>3. Q1D!Wrap16(x[k] + x[k + 1]) = x[k] + x[k + 1]
        /\ x[k] + x[k + 1] \in {v \in Int : v <= 2 * b /\ v + 2 * b >= 0} BY <2>2, WrapsNot
  <2>4. Q1D!Wrap16(y[k] + y[k + 1]) = y[k] + y[k + 1]
        /\ y[k] + y[k + 1] \in {v \in Int : v <= 2 * b /\ v + 2 * b >= 0} BY <2>2, WrapsNot
  <2> QED BY <2>3, <2>4 DEF k
<1>5. \A i \in 0 .. 15 : h[i] = IF i % 8 < 4 THEN x[w(i)] + x[w(i) + 1] ELSE y[w(i)] + y[w(i) + 1]
  <2> TAKE i \in 0 .. 15
  <2>1. h[i] = IF i % 8 < 4 THEN Q1D!Wrap16(x[w(i)] + x[w(i) + 1])
                            ELSE Q1D!Wrap16(y[w(i)] + y[w(i) + 1]) BY <1>2
  <2> HIDE DEF h, w
  <2> QED BY <1>4, <2>1
<1>6. h \in Fits(2 * b)
  <2>1. DOMAIN h = 0 .. 15 BY <1>2
  <2>2. h = [i \in 0 .. 15 |-> h[i]] BY <1>2
  <2> HIDE DEF h, w
  <2>3. \A i \in 0 .. 15 : h[i] \in {v \in Int : v <= 2 * b /\ v + 2 * b >= 0} BY <1>4, <1>5
  <2> QED BY <2>2, <2>3 DEF Fits
<1>7. ASSUME NEW o \in {0, 8}, NEW j \in 0 .. 3
      PROVE  h[o + j] = x[o + 2 * j] + x[o + 2 * j + 1] /\ h[o + 4 + j] = y[o + 2 * j] + y[o + 2 * j + 1]
  <2>1. /\ o + j \in 0 .. 15 /\ (o + j) % 8 = j /\ j % 4 = j
        /\ o + 4 + j \in 0 .. 15 /\ (o + 4 + j) % 8 = 4 + j /\ (4 + j) % 4 = j OBVIOUS
  <2>2. w(o + j) = o + 2 * j /\ w(o + 4 + j) = o + 2 * j BY <2>1
  <2> HIDE DEF h, w
  <2> QED BY <1>5, <2>1, <2>2
<1> QED BY <1>6, <1>7

(* Two levels of the tree, and all three. *)
Quarter(x, k) == x[k] + x[k + 1] + x[k + 2] + x[k + 3]

(* Four elements and their sum. *)
LEMMA FourIn ==
  ASSUME NEW b \in Nat, NEW x \in Fits(b), NEW k \in 0 .. 12
  PROVE  /\ x[k] \in Int /\ x[k + 1] \in Int /\ x[k + 2] \in Int /\ x[k + 3] \in Int
         /\ Quarter(x, k) \in Int /\ Quarter(x, k) = (x[k] + x[k + 1]) + (x[k + 2] + x[k + 3])
<1>1. \A i \in 0 .. 15 : x[i] \in Int BY DEF Fits
<1>2. k \in 0 .. 15 /\ k + 1 \in 0 .. 15 /\ k + 2 \in 0 .. 15 /\ k + 3 \in 0 .. 15 OBVIOUS
<1>3. x[k] \in Int /\ x[k + 1] \in Int /\ x[k + 2] \in Int /\ x[k + 3] \in Int BY <1>1, <1>2
<1> QED BY <1>3 DEF Quarter

(* Two levels of vphaddw add four neighbours of four vectors. *)
LEMMA TwoLevels ==
  ASSUME NEW b \in Nat, b <= 4000, NEW x \in Fits(b), NEW y \in Fits(b), NEW z \in Fits(b), NEW w \in Fits(b),
         NEW r, r = Q1D!HAdd16(Q1D!HAdd16(x, y), Q1D!HAdd16(z, w))
  PROVE  /\ r \in Fits(4 * b)
         /\ \A o \in {0, 8} :
              /\ r[o] = Quarter(x, o) /\ r[o + 1] = Quarter(x, o + 4)
              /\ r[o + 2] = Quarter(y, o) /\ r[o + 3] = Quarter(y, o + 4)
              /\ r[o + 4] = Quarter(z, o) /\ r[o + 5] = Quarter(z, o + 4)
              /\ r[o + 6] = Quarter(w, o) /\ r[o + 7] = Quarter(w, o + 4)
<1> DEFINE s == Q1D!HAdd16(x, y)  t == Q1D!HAdd16(z, w)  c == 2 * b
<1>1. b <= 8000 /\ c \in Nat /\ c <= 8000 /\ 2 * c = 4 * b OBVIOUS
<1>2. /\ s \in Fits(c) /\ \A o \in {0, 8}, j \in 0 .. 3 :
           s[o + j] = x[o + 2 * j] + x[o + 2 * j + 1] /\ s[o + 4 + j] = y[o + 2 * j] + y[o + 2 * j + 1]
  BY <1>1, HAddIs
<1>3. /\ t \in Fits(c) /\ \A o \in {0, 8}, j \in 0 .. 3 :
           t[o + j] = z[o + 2 * j] + z[o + 2 * j + 1] /\ t[o + 4 + j] = w[o + 2 * j] + w[o + 2 * j + 1]
  BY <1>1, HAddIs
<1>4. r = Q1D!HAdd16(s, t) OBVIOUS
<1> HIDE DEF s, t, c
<1>5. /\ r \in Fits(2 * c) /\ \A o \in {0, 8}, j \in 0 .. 3 :
           r[o + j] = s[o + 2 * j] + s[o + 2 * j + 1] /\ r[o + 4 + j] = t[o + 2 * j] + t[o + 2 * j + 1]
  BY <1>1, <1>2, <1>3, <1>4, HAddIs
<1>6. ASSUME NEW o \in {0, 8}
      PROVE  /\ r[o] = Quarter(x, o) /\ r[o + 1] = Quarter(x, o + 4)
             /\ r[o + 2] = Quarter(y, o) /\ r[o + 3] = Quarter(y, o + 4)
             /\ r[o + 4] = Quarter(z, o) /\ r[o + 5] = Quarter(z, o + 4)
             /\ r[o + 6] = Quarter(w, o) /\ r[o + 7] = Quarter(w, o + 4)
  <2>1. 0 \in 0 .. 3 /\ 1 \in 0 .. 3 /\ 2 \in 0 .. 3 /\ 3 \in 0 .. 3 OBVIOUS
  <2>2. /\ o + 0 = o /\ 2 * 0 = 0 /\ 2 * 1 = 2 /\ 2 * 2 = 4 /\ 2 * 3 = 6
        /\ o + 2 + 1 = o + 3 /\ o + 4 + 1 = o + 5 /\ o + 6 + 1 = o + 7 /\ o + 0 + 1 = o + 1
        /\ o + 4 + 0 = o + 4 /\ o + 4 + 2 = o + 6 /\ o + 4 + 3 = o + 7 OBVIOUS
  <2>3. /\ s[o] = x[o] + x[o + 1] /\ s[o + 1] = x[o + 2] + x[o + 3]
        /\ s[o + 2] = x[o + 4] + x[o + 5] /\ s[o + 3] = x[o + 6] + x[o + 7]
        /\ s[o + 4] = y[o] + y[o + 1] /\ s[o + 5] = y[o + 2] + y[o + 3]
        /\ s[o + 6] = y[o + 4] + y[o + 5] /\ s[o + 7] = y[o + 6] + y[o + 7]
    BY <1>2, <2>1, <2>2
  <2>4. /\ t[o] = z[o] + z[o + 1] /\ t[o + 1] = z[o + 2] + z[o + 3]
        /\ t[o + 2] = z[o + 4] + z[o + 5] /\ t[o + 3] = z[o + 6] + z[o + 7]
        /\ t[o + 4] = w[o] + w[o + 1] /\ t[o + 5] = w[o + 2] + w[o + 3]
        /\ t[o + 6] = w[o + 4] + w[o + 5] /\ t[o + 7] = w[o + 6] + w[o + 7]
    BY <1>3, <2>1, <2>2
  <2>5. /\ r[o] = s[o] + s[o + 1] /\ r[o + 1] = s[o + 2] + s[o + 3]
        /\ r[o + 2] = s[o + 4] + s[o + 5] /\ r[o + 3] = s[o + 6] + s[o + 7]
        /\ r[o + 4] = t[o] + t[o + 1] /\ r[o + 5] = t[o + 2] + t[o + 3]
        /\ r[o + 6] = t[o + 4] + t[o + 5] /\ r[o + 7] = t[o + 6] + t[o + 7]
    BY <1>5, <2>1, <2>2
  <2>6. o \in 0 .. 12 /\ o + 4 \in 0 .. 12
        /\ o + 4 + 1 = o + 5 /\ o + 4 + 2 = o + 6 /\ o + 4 + 3 = o + 7 OBVIOUS
  <2>7. \A f \in Fits(b), k \in 0 .. 12 : Quarter(f, k) = (f[k] + f[k + 1]) + (f[k + 2] + f[k + 3]) BY FourIn
  <2>8. \A f \in Fits(b) : /\ Quarter(f, o) = (f[o] + f[o + 1]) + (f[o + 2] + f[o + 3])
                           /\ Quarter(f, o + 4) = (f[o + 4] + f[o + 5]) + (f[o + 6] + f[o + 7])
    <3> TAKE f \in Fits(b)
    <3>1. Quarter(f, o + 4) = (f[o + 4] + f[o + 4 + 1]) + (f[o + 4 + 2] + f[o + 4 + 3]) BY <2>6, <2>7
    <3> QED BY <2>6, <2>7, <3>1
  <2> QED BY <2>3, <2>4, <2>5, <2>8
<1> QED BY <1>1, <1>5, <1>6

(* All three levels, over the 128-bit halves of eight vectors. *)
LEMMA TreeIs ==
  ASSUME NEW p \in [0 .. 7 -> Fits(508)]
  PROVE  \A s \in 0 .. 7 :
           /\ Q1D!HaddTree(p)[s] = Quarter(p[s], 0) + Quarter(p[s], 4)
           /\ Q1D!HaddTree(p)[s + 8] = Quarter(p[s], 8) + Quarter(p[s], 12)
<1> DEFINE b == 508  c == 4 * b
           x == Q1D!HAdd16(Q1D!HAdd16(p[0], p[1]), Q1D!HAdd16(p[2], p[3]))
           y == Q1D!HAdd16(Q1D!HAdd16(p[4], p[5]), Q1D!HAdd16(p[6], p[7]))
           h == Q1D!HaddTree(p)
<1>1. b \in Nat /\ b <= 4000 /\ c \in Nat /\ c <= 8000 OBVIOUS
<1>2. /\ p[0] \in Fits(b) /\ p[1] \in Fits(b) /\ p[2] \in Fits(b) /\ p[3] \in Fits(b)
      /\ p[4] \in Fits(b) /\ p[5] \in Fits(b) /\ p[6] \in Fits(b) /\ p[7] \in Fits(b) OBVIOUS
<1>3. h = Q1D!HAdd16(x, y) BY DEF Q1D!HaddTree
<1> HIDE DEF b, h
<1>4. /\ x \in Fits(c)
      /\ \A o \in {0, 8} :
           /\ x[o] = Quarter(p[0], o) /\ x[o + 1] = Quarter(p[0], o + 4)
           /\ x[o + 2] = Quarter(p[1], o) /\ x[o + 3] = Quarter(p[1], o + 4)
           /\ x[o + 4] = Quarter(p[2], o) /\ x[o + 5] = Quarter(p[2], o + 4)
           /\ x[o + 6] = Quarter(p[3], o) /\ x[o + 7] = Quarter(p[3], o + 4)
  <2> HIDE DEF x
  <2> QED BY <1>1, <1>2, TwoLevels DEF x
<1>5. /\ y \in Fits(c)
      /\ \A o \in {0, 8} :
           /\ y[o] = Quarter(p[4], o) /\ y[o + 1] = Quarter(p[4], o + 4)
           /\ y[o + 2] = Quarter(p[5], o) /\ y[o + 3] = Quarter(p[5], o + 4)
           /\ y[o + 4] = Quarter(p[6], o) /\ y[o + 5] = Quarter(p[6], o + 4)
           /\ y[o + 6] = Quarter(p[7], o) /\ y[o + 7] = Quarter(p[7], o + 4)
  <2> HIDE DEF y
  <2> QED BY <1>1, <1>2, TwoLevels DEF y
<1> HIDE DEF x, y, c
<1>6. \A o \in {0, 8}, j \in 0 .. 3 :
        h[o + j] = x[o + 2 * j] + x[o + 2 * j + 1] /\ h[o + 4 + j] = y[o + 2 * j] + y[o + 2 * j + 1]
  <2>1. c \in Nat /\ c <= 8000 /\ x \in Fits(c) /\ y \in Fits(c) BY <1>1, <1>4, <1>5
  <2>2. /\ Q1D!HAdd16(x, y) \in Fits(2 * c)
        /\ \A o \in {0, 8}, j \in 0 .. 3 :
             /\ Q1D!HAdd16(x, y)[o + j] = x[o + 2 * j] + x[o + 2 * j + 1]
             /\ Q1D!HAdd16(x, y)[o + 4 + j] = y[o + 2 * j] + y[o + 2 * j + 1]
    BY <2>1, HAddIs
  <2> QED BY <1>3, <2>2
<1>7. ASSUME NEW o \in {0, 8}
      PROVE  /\ h[o] = Quarter(p[0], o) + Quarter(p[0], o + 4)
             /\ h[o + 1] = Quarter(p[1], o) + Quarter(p[1], o + 4)
             /\ h[o + 2] = Quarter(p[2], o) + Quarter(p[2], o + 4)
             /\ h[o + 3] = Quarter(p[3], o) + Quarter(p[3], o + 4)
             /\ h[o + 4] = Quarter(p[4], o) + Quarter(p[4], o + 4)
             /\ h[o + 5] = Quarter(p[5], o) + Quarter(p[5], o + 4)
             /\ h[o + 6] = Quarter(p[6], o) + Quarter(p[6], o + 4)
             /\ h[o + 7] = Quarter(p[7], o) + Quarter(p[7], o + 4)
  <2>1. 0 \in 0 .. 3 /\ 1 \in 0 .. 3 /\ 2 \in 0 .. 3 /\ 3 \in 0 .. 3 OBVIOUS
  <2>2. /\ o + 0 = o /\ 2 * 0 = 0 /\ 2 * 1 = 2 /\ 2 * 2 = 4 /\ 2 * 3 = 6
        /\ o + 2 + 1 = o + 3 /\ o + 4 + 1 = o + 5 /\ o + 6 + 1 = o + 7 /\ o + 0 + 1 = o + 1
        /\ o + 4 + 0 = o + 4 /\ o + 4 + 2 = o + 6 /\ o + 4 + 3 = o + 7 OBVIOUS
  <2>3. /\ h[o] = x[o] + x[o + 1] /\ h[o + 1] = x[o + 2] + x[o + 3]
        /\ h[o + 2] = x[o + 4] + x[o + 5] /\ h[o + 3] = x[o + 6] + x[o + 7]
        /\ h[o + 4] = y[o] + y[o + 1] /\ h[o + 5] = y[o + 2] + y[o + 3]
        /\ h[o + 6] = y[o + 4] + y[o + 5] /\ h[o + 7] = y[o + 6] + y[o + 7]
    BY <1>6, <2>1, <2>2
  <2> QED BY <1>4, <1>5, <2>3
<1>8. /\ 0 + 1 = 1 /\ 0 + 2 = 2 /\ 0 + 3 = 3 /\ 0 + 4 = 4 /\ 0 + 5 = 5 /\ 0 + 6 = 6 /\ 0 + 7 = 7
      /\ 8 + 1 = 9 /\ 8 + 2 = 10 /\ 8 + 3 = 11 /\ 8 + 4 = 12 /\ 8 + 5 = 13 /\ 8 + 6 = 14 /\ 8 + 7 = 15 OBVIOUS
<1>9. ASSUME NEW s \in 0 .. 7 PROVE h[s] = Quarter(p[s], 0) + Quarter(p[s], 4)
  <2>1. s \in {0, 1, 2, 3, 4, 5, 6, 7} OBVIOUS
  <2> QED BY <1>7, <1>8, <2>1
<1>10. ASSUME NEW s \in 0 .. 7 PROVE h[s + 8] = Quarter(p[s], 8) + Quarter(p[s], 12)
  <2>1. s \in {0, 1, 2, 3, 4, 5, 6, 7} /\ 0 + 8 = 8 OBVIOUS
  <2> QED BY <1>7, <1>8, <2>1
<1> QED BY <1>9, <1>10 DEF h

(* The pair sums of one sub-block, one sum per two of its activations. *)
LEMMA PairSumsAre ==
  ASSUME NEW bit \in Bits, NEW q \in Int8s, NEW v, v = Chosen(bit, q)
  PROVE  /\ Q1D!PairSums(bit, q) \in Fits(508)
         /\ \A g \in 0 .. 7 : /\ Q1D!PairSums(bit, q)[2 * g] = v[g] + v[8 + g]
                              /\ Q1D!PairSums(bit, q)[2 * g + 1] = v[16 + g] + v[24 + g]
<1> DEFINE x == [o \in Elem |-> Q1D!Group01(bit, o \div 4)[o % 4]]
           qp == Q1D!Permuted(q)
           at(o) == 8 * (o % 4) + (o \div 4)
           ps == Q1D!PairSums(bit, q)
<1>1. \A o \in Elem : at(o) \in Elem /\ o % 4 \in 0 .. 3 /\ o \div 4 \in 0 .. 7
  BY DEF Elem
<1>2. \A e \in Elem : q[e] \in -127 .. 127 /\ bit[e] \in 0 .. 1 /\ v[e] = IF bit[e] = 1 THEN q[e] ELSE 0
  BY DEF Int8s, Bits, Chosen
<1>3. \A e \in Elem : v[e] \in -127 .. 127 BY <1>2
<1>4. \A o \in Elem : qp[o] = q[at(o)] BY DEF Q1D!Permuted, Q1D!Elem, Elem
<1>5. \A o \in Elem : x[o] = IF bit[at(o)] = 1 THEN 1 ELSE 0
  <2> TAKE o \in Elem
  <2> DEFINE g == o \div 4  r == o % 4
  <2>1. g \in 0 .. 7 /\ r \in 0 .. 3 /\ at(o) = 8 * r + g /\ 8 * r + 0 + g = 8 * r + g /\ 8 * r + g \in Elem
    BY <1>1
  <2>2. x[o] = Q1D!Group01(bit, g)[r] OBVIOUS
  <2> HIDE DEF g, r, x, at
  <2> QED BY <2>1, <2>2 DEF Q1D!Group01, Q1D!Expand, Q1D!Elem, Elem
<1>6. \A o \in Elem : x[o] * qp[o] = v[at(o)]
  <2> TAKE o \in Elem
  <2> DEFINE e == at(o)
  <2>1. e \in Elem /\ qp[o] = q[e] /\ x[o] = IF bit[e] = 1 THEN 1 ELSE 0 BY <1>1, <1>4, <1>5
  <2> HIDE DEF e, x, qp
  <2>2. q[e] \in Int
    <3>1. q[e] \in -127 .. 127 BY <1>2, <2>1
    <3> QED BY <3>1
  <2>3. v[e] = IF bit[e] = 1 THEN q[e] ELSE 0 BY <1>2, <2>1
  <2>4. CASE bit[e] = 1
    <3>1. x[o] = 1 /\ v[e] = q[e] BY <2>1, <2>3, <2>4
    <3> QED BY <2>1, <2>2, <3>1 DEF e
  <2>5. CASE bit[e] # 1
    <3>1. x[o] = 0 /\ v[e] = 0 BY <2>1, <2>3, <2>5
    <3> QED BY <2>1, <2>2, <3>1 DEF e
  <2> QED BY <2>4, <2>5
<1>7. Q1D!Width(x) = 32
  <2>1. DOMAIN x = 0 .. 32 - 1 BY DEF Elem
  <2> HIDE DEF x
  <2> QED BY <2>1, WidthIs
<1>8. ps = [i \in 0 .. 15 |-> Q1D!Sat16(x[2 * i] * qp[2 * i] + x[2 * i + 1] * qp[2 * i + 1])]
  <2>1. ps = Q1D!MaddUbs(x, qp) BY DEF Q1D!PairSums, Q1D!Elem, Elem
  <2> HIDE DEF x, qp, ps
  <2>2. Q1D!Width(x) \div 2 - 1 = 15 BY <1>7
  <2> QED BY <2>1, <2>2 DEF Q1D!MaddUbs
<1> HIDE DEF x, qp, ps
<1>9. ASSUME NEW i \in 0 .. 15
      PROVE  /\ at(2 * i) \in Elem /\ at(2 * i + 1) \in Elem
             /\ ps[i] = v[at(2 * i)] + v[at(2 * i + 1)]
             /\ ps[i] \in {n \in Int : n <= 508 /\ n + 508 >= 0}
  <2>1. 2 * i \in Elem /\ 2 * i + 1 \in Elem BY DEF Elem
  <2> DEFINE k == at(2 * i)  l == at(2 * i + 1)
  <2>2. k \in Elem /\ l \in Elem BY <1>1, <2>1
  <2>3. x[2 * i] * qp[2 * i] = v[k] /\ x[2 * i + 1] * qp[2 * i + 1] = v[l] BY <1>6, <2>1
  <2>4. ps[i] = Q1D!Sat16(v[k] + v[l]) BY <1>8, <2>3
  <2> HIDE DEF k, l, at
  <2>5. v[k] \in -127 .. 127 /\ v[l] \in -127 .. 127 BY <1>3, <2>2
  <2> DEFINE a == v[k]  c == v[l]
  <2>6. a \in -127 .. 127 /\ c \in -127 .. 127 /\ ps[i] = Q1D!Sat16(a + c) BY <2>4, <2>5
  <2> HIDE DEF a, c
  <2>7. ps[i] = a + c /\ ps[i] \in {n \in Int : n <= 508 /\ n + 508 >= 0} BY <2>6 DEF Q1D!Sat16
  <2> QED BY <2>2, <2>7 DEF a, c, k, l
<1>10. ps \in Fits(508)
  <2>1. ps = [i \in 0 .. 15 |-> ps[i]] BY <1>8
  <2> QED BY <1>9, <2>1 DEF Fits
<1>11. ASSUME NEW g \in 0 .. 7
       PROVE  ps[2 * g] = v[g] + v[8 + g] /\ ps[2 * g + 1] = v[16 + g] + v[24 + g]
  <2>1. 2 * g \in 0 .. 15 /\ 2 * g + 1 \in 0 .. 15
        /\ at(2 * (2 * g)) = g /\ at(2 * (2 * g) + 1) = 8 + g
        /\ at(2 * (2 * g + 1)) = 16 + g /\ at(2 * (2 * g + 1) + 1) = 24 + g
    <3>1. /\ (2 * (2 * g)) % 4 = 0 /\ (2 * (2 * g)) \div 4 = g
          /\ (2 * (2 * g) + 1) % 4 = 1 /\ (2 * (2 * g) + 1) \div 4 = g
          /\ (2 * (2 * g + 1)) % 4 = 2 /\ (2 * (2 * g + 1)) \div 4 = g
          /\ (2 * (2 * g + 1) + 1) % 4 = 3 /\ (2 * (2 * g + 1) + 1) \div 4 = g OBVIOUS
    <3> QED BY <3>1
  <2> HIDE DEF at
  <2> QED BY <1>9, <2>1
<1> QED BY <1>10, <1>11 DEF ps

(* The AVX2 row kernel, its eight sub-blocks at a time and its tail.       *)
LEMMA TailIs ==
  ASSUME NEW bit \in Bits, NEW q \in Int8s
  PROVE  Q1D!DotAvx2Tail(bit, q) = Q1D!Dot(bit, q)
<1> DEFINE v == Chosen(bit, q)
           ps == Q1D!PairSums(bit, q)
           m == Q1D!MaddOnes(ps)
<1>1. v \in [Elem -> Int] /\ Q1D!Total(q) \in Int /\ Columns(v) \in Int
      /\ Q1D!Dot(bit, q) = 2 * Columns(v) - Q1D!Total(q) BY DotIs
<1>2. \A g \in 0 .. 7 : Column(v, g) \in Int
  <2> HIDE DEF v
  <2> QED BY <1>1, Total32
<1>3. /\ ps \in Fits(508)
      /\ \A g \in 0 .. 7 : ps[2 * g] = v[g] + v[8 + g] /\ ps[2 * g + 1] = v[16 + g] + v[24 + g]
  BY PairSumsAre
<1>4. \A e \in Elem : v[e] \in Int BY <1>1
<1> HIDE DEF v, ps
<1>5. m = [i \in 0 .. 7 |-> ps[2 * i] + ps[2 * i + 1]]
  <2>1. Q1D!Width(ps) = 16
    <3>1. DOMAIN ps = 0 .. 16 - 1 BY <1>3 DEF Fits
    <3> QED BY <3>1, WidthIs
  <2>2. Q1D!Width(ps) \div 2 - 1 = 7 BY <2>1
  <2> QED BY <2>2 DEF Q1D!MaddOnes
<1>6. \A g \in 0 .. 7 : m[g] = Column(v, g)
  <2> TAKE g \in 0 .. 7
  <2>1. v[g] \in Int /\ v[8 + g] \in Int /\ v[16 + g] \in Int /\ v[24 + g] \in Int BY <1>4 DEF Elem
  <2>2. m[g] = (v[g] + v[8 + g]) + (v[16 + g] + v[24 + g]) BY <1>3, <1>5
  <2> QED BY <2>1, <2>2 DEF Column
<1>7. m \in [0 .. 7 -> Int]
  <2>1. m = [i \in 0 .. 7 |-> m[i]] BY <1>5
  <2> HIDE DEF m
  <2> QED BY <1>2, <1>6, <2>1
<1> HIDE DEF m
<1>8. Q1D!Total(m) = Columns(v)
  <2> DEFINE n == 8
  <2>1. n \in Nat /\ m \in [0 .. n - 1 -> Int] BY <1>7
  <2> HIDE DEF n
  <2>2. PICK c \in [0 .. n -> Int] :
          c[0] = 0 /\ (\A k \in 0 .. n - 1 : c[k + 1] = c[k] + m[k]) /\ Q1D!Total(m) = c[n]
    BY <2>1, TotalUp
  <2>3. c[0] = 0 /\ (\A k \in 0 .. 7 : c[k + 1] = c[k] + m[k]) /\ Q1D!Total(m) = c[8] BY <2>2 DEF n
  <2>4. 0 + 1 = 1 /\ 1 + 1 = 2 /\ 2 + 1 = 3 /\ 3 + 1 = 4 /\ 4 + 1 = 5 /\ 5 + 1 = 6 /\ 6 + 1 = 7 /\ 7 + 1 = 8
    OBVIOUS
  <2>5. /\ c[1] = c[0] + m[0] /\ c[2] = c[1] + m[1] /\ c[3] = c[2] + m[2] /\ c[4] = c[3] + m[3]
        /\ c[5] = c[4] + m[4] /\ c[6] = c[5] + m[5] /\ c[7] = c[6] + m[6] /\ c[8] = c[7] + m[7]
    BY <2>3, <2>4
  <2>6. /\ m[0] \in Int /\ m[1] \in Int /\ m[2] \in Int /\ m[3] \in Int
        /\ m[4] \in Int /\ m[5] \in Int /\ m[6] \in Int /\ m[7] \in Int BY <1>7
  <2>7. c[8] = m[0] + m[1] + m[2] + m[3] + m[4] + m[5] + m[6] + m[7] BY <2>3, <2>5, <2>6
  <2>8. /\ m[0] = Column(v, 0) /\ m[1] = Column(v, 1) /\ m[2] = Column(v, 2) /\ m[3] = Column(v, 3)
        /\ m[4] = Column(v, 4) /\ m[5] = Column(v, 5) /\ m[6] = Column(v, 6) /\ m[7] = Column(v, 7) BY <1>6
  <2> QED BY <2>3, <2>7, <2>8 DEF Columns
<1>9. Q1D!DotAvx2Tail(bit, q) = 2 * Q1D!Total(m) + Q1D!NegSum(q) BY DEF Q1D!DotAvx2Tail, m, ps
<1> QED BY <1>1, <1>8, <1>9 DEF Q1D!NegSum

(* The AVX2 row kernel: each of its eight lanes is the dot product of its   *)
(* sub-block.                                                               *)
LEMMA RowOfEight ==
  ASSUME NEW bits \in [0 .. 7 -> Bits], NEW qs \in [0 .. 7 -> Int8s], NEW s \in 0 .. 7
  PROVE  Q1D!DotsAvx2(bits, qs)[s] = Q1D!Dot(bits[s], qs[s])
<1> DEFINE p == [k \in 0 .. 7 |-> Q1D!PairSums(bits[k], qs[k])]
           h == Q1D!HaddTree(p)
           v == Chosen(bits[s], qs[s])
           x == p[s]
<1>1. bits[s] \in Bits /\ qs[s] \in Int8s /\ \A k \in 0 .. 7 : bits[k] \in Bits /\ qs[k] \in Int8s OBVIOUS
<1>2. v \in [Elem -> Int] /\ Q1D!Total(qs[s]) \in Int /\ Columns(v) \in Int
      /\ Q1D!Dot(bits[s], qs[s]) = 2 * Columns(v) - Q1D!Total(qs[s]) BY <1>1, DotIs
<1>3. p \in [0 .. 7 -> Fits(508)]
  <2>1. \A k \in 0 .. 7 : Q1D!PairSums(bits[k], qs[k]) \in Fits(508) BY <1>1, PairSumsAre
  <2> QED BY <2>1
<1>4. \A g \in 0 .. 7 : x[2 * g] = v[g] + v[8 + g] /\ x[2 * g + 1] = v[16 + g] + v[24 + g]
  <2>1. x = Q1D!PairSums(bits[s], qs[s]) OBVIOUS
  <2> HIDE DEF x
  <2> QED BY <1>1, <2>1, PairSumsAre
<1>5. \A e \in Elem : v[e] \in Int BY <1>2
<1>6. Q1D!DotsAvx2(bits, qs)[s] = 2 * Q1D!Wrap16(h[s] + h[s + 8]) + Q1D!NegSum(qs[s]) BY DEF Q1D!DotsAvx2
<1> HIDE DEF p, v, h
<1>7. h[s] = Quarter(x, 0) + Quarter(x, 4) /\ h[s + 8] = Quarter(x, 8) + Quarter(x, 12)
  BY <1>3, TreeIs DEF h
<1>8. x \in Fits(508) BY <1>3
<1> HIDE DEF x
<1>9. \A g \in 0 .. 7 : Column(v, g) = x[2 * g] + x[2 * g + 1]
  <2> TAKE g \in 0 .. 7
  <2>1. v[g] \in Int /\ v[8 + g] \in Int /\ v[16 + g] \in Int /\ v[24 + g] \in Int BY <1>5 DEF Elem
  <2> QED BY <1>4, <2>1 DEF Column
<1>10. \A i \in 0 .. 15 : x[i] \in Int /\ x[i] <= 508 /\ x[i] + 508 >= 0 BY <1>8 DEF Fits
<1>11. /\ x[0] \in Int /\ x[1] \in Int /\ x[2] \in Int /\ x[3] \in Int /\ x[4] \in Int /\ x[5] \in Int
       /\ x[6] \in Int /\ x[7] \in Int /\ x[8] \in Int /\ x[9] \in Int /\ x[10] \in Int /\ x[11] \in Int
       /\ x[12] \in Int /\ x[13] \in Int /\ x[14] \in Int /\ x[15] \in Int BY <1>10
<1>12. /\ Quarter(x, 0) = x[0] + x[1] + x[2] + x[3] /\ Quarter(x, 4) = x[4] + x[5] + x[6] + x[7]
       /\ Quarter(x, 8) = x[8] + x[9] + x[10] + x[11] /\ Quarter(x, 12) = x[12] + x[13] + x[14] + x[15]
  BY DEF Quarter
<1>13. /\ Column(v, 0) = x[0] + x[1] /\ Column(v, 1) = x[2] + x[3] /\ Column(v, 2) = x[4] + x[5]
       /\ Column(v, 3) = x[6] + x[7] /\ Column(v, 4) = x[8] + x[9] /\ Column(v, 5) = x[10] + x[11]
       /\ Column(v, 6) = x[12] + x[13] /\ Column(v, 7) = x[14] + x[15]
  <2>1. /\ 2 * 0 = 0 /\ 2 * 1 = 2 /\ 2 * 2 = 4 /\ 2 * 3 = 6 /\ 2 * 4 = 8 /\ 2 * 5 = 10 /\ 2 * 6 = 12 /\ 2 * 7 = 14
        /\ 0 + 1 = 1 /\ 2 + 1 = 3 /\ 4 + 1 = 5 /\ 6 + 1 = 7 /\ 8 + 1 = 9 /\ 10 + 1 = 11 /\ 12 + 1 = 13 /\ 14 + 1 = 15
    OBVIOUS
  <2> QED BY <1>9, <2>1
<1>14. h[s] + h[s + 8] = Columns(v) BY <1>7, <1>11, <1>12, <1>13 DEF Columns
<1>15. Columns(v) <= 8128 /\ Columns(v) + 8128 >= 0
  <2>1. \A k \in 0 .. 12 : Quarter(x, k) \in Int /\ Quarter(x, k) <= 2032 /\ Quarter(x, k) + 2032 >= 0
    <3> TAKE k \in 0 .. 12
    <3>1. k \in 0 .. 15 /\ k + 1 \in 0 .. 15 /\ k + 2 \in 0 .. 15 /\ k + 3 \in 0 .. 15 OBVIOUS
    <3> DEFINE a == x[k]  b == x[k + 1]  c == x[k + 2]  d == x[k + 3]
    <3>2. /\ a \in Int /\ b \in Int /\ c \in Int /\ d \in Int
          /\ a <= 508 /\ b <= 508 /\ c <= 508 /\ d <= 508
          /\ a + 508 >= 0 /\ b + 508 >= 0 /\ c + 508 >= 0 /\ d + 508 >= 0 BY <1>10, <3>1
    <3>3. Quarter(x, k) = a + b + c + d BY DEF Quarter
    <3> HIDE DEF a, b, c, d
    <3> QED BY <3>2, <3>3
  <2> QED BY <1>7, <1>14, <2>1
<1>16. \A n \in Int : n <= 8128 /\ n + 8128 >= 0 => Q1D!Wrap16(n) = n BY DEF Q1D!Wrap16
<1>17. Q1D!Wrap16(h[s] + h[s + 8]) = Columns(v) BY <1>2, <1>14, <1>15, <1>16
<1> QED BY <1>2, <1>6, <1>17 DEF Q1D!NegSum

-----------------------------------------------------------------------------
(* The copies the AVX2 quantizer stores.                                   *)

(* Where vpackssdw and vpacksswb leave a byte, and vpermd puts it. *)
LEMMA PackedAt ==
  ASSUME NEW a \in 0 .. 7, NEW r \in 0 .. 3, NEW k, k = 4 * a + r
  PROVE  k \in 0 .. 31 /\ 8 * ((k % 16) \div 4) + 4 * (k \div 16) + (k % 4) = 4 * (2 * (a % 4) + (a \div 4)) + r
<1>1. CASE a < 4
  <2>1. k < 16 /\ a % 4 = a /\ a \div 4 = 0 BY <1>1
  <2>2. k % 16 = k /\ k \div 16 = 0 BY <2>1
  <2>3. k \div 4 = a /\ k % 4 = r OBVIOUS
  <2> QED BY <2>1, <2>2, <2>3
<1>2. CASE a >= 4
  <2>1. k >= 16 /\ k < 32 /\ a % 4 = a - 4 /\ a \div 4 = 1 BY <1>2
  <2>2. k % 16 = k - 16 /\ k \div 16 = 1 BY <2>1
  <2>3. (k - 16) \div 4 = a - 4 /\ k % 4 = r BY <1>2
  <2> QED BY <2>1, <2>2, <2>3
<1> QED BY <1>1, <1>2

(* The copies the AVX2 quantizer stores are those the scalar one stores. *)
LEMMA Copies ==
  ASSUME NEW q \in [Elem -> Int]
  PROVE  /\ Q1D!StoredAvx2(q) = q /\ Q1D!PermutedAvx2(q) = Q1D!Permuted(q)
         /\ Q1D!NegSumAvx2(q) = Q1D!NegSum(q)
<1> USE DEF Elem, Q1D!Elem
<1>1. \A o \in Elem : o \div 4 \in 0 .. 7 /\ o % 4 \in 0 .. 3 /\ o = 4 * (o \div 4) + (o % 4) OBVIOUS
<1>2. \A w \in 0 .. 7 :
        \/ w = 0 /\ Q1D!Order[w + 1] = 0
        \/ w = 1 /\ Q1D!Order[w + 1] = 4
        \/ w = 2 /\ Q1D!Order[w + 1] = 1
        \/ w = 3 /\ Q1D!Order[w + 1] = 5
        \/ w = 4 /\ Q1D!Order[w + 1] = 2
        \/ w = 5 /\ Q1D!Order[w + 1] = 6
        \/ w = 6 /\ Q1D!Order[w + 1] = 3
        \/ w = 7 /\ Q1D!Order[w + 1] = 7
  BY DEF Q1D!Order
<1>3. ASSUME NEW w \in 0 .. 7, NEW r \in 0 .. 3, NEW k, k = 4 * Q1D!Order[w + 1] + r
      PROVE  k \in Elem /\ 8 * ((k % 16) \div 4) + 4 * (k \div 16) + (k % 4) = 4 * w + r
  <2> DEFINE a == Q1D!Order[w + 1]
  <2>1. a \in 0 .. 7 /\ w = 2 * (a % 4) + (a \div 4) BY <1>2
  <2>2. k = 4 * a + r BY <1>3
  <2> HIDE DEF a
  <2>3. k \in 0 .. 31 /\ 8 * ((k % 16) \div 4) + 4 * (k \div 16) + (k % 4) = 4 * (2 * (a % 4) + (a \div 4)) + r
    BY <2>1, <2>2, PackedAt
  <2> QED BY <2>1, <2>3
<1>4. \A o \in Elem : Q1D!StoredAvx2(q)[o] = q[o]
  <2> TAKE o \in Elem
  <2> DEFINE w == o \div 4  r == o % 4  k == 4 * Q1D!Order[w + 1] + r
  <2>1. w \in 0 .. 7 /\ r \in 0 .. 3 /\ o = 4 * w + r BY <1>1
  <2>2. Q1D!StoredAvx2(q)[o] = Q1D!Packs(q)[k] BY DEF Q1D!StoredAvx2, Q1D!PermWords
  <2>3. k \in Elem /\ 8 * ((k % 16) \div 4) + 4 * (k \div 16) + (k % 4) = o BY <1>3, <2>1
  <2> HIDE DEF k
  <2>4. Q1D!Packs(q)[k] = q[8 * ((k % 16) \div 4) + 4 * (k \div 16) + (k % 4)] BY <2>3 DEF Q1D!Packs
  <2> QED BY <2>2, <2>3, <2>4
<1>5. Q1D!StoredAvx2(q) = q
  <2>1. Q1D!StoredAvx2(q) = [o \in Elem |-> Q1D!StoredAvx2(q)[o]] BY DEF Q1D!StoredAvx2, Q1D!PermWords
  <2>2. q = [o \in Elem |-> q[o]] OBVIOUS
  <2> QED BY <1>4, <2>1, <2>2
<1>6. \A w \in 0 .. 7 :
        \/ w = 0 /\ Q1D!Pairs[w + 1] = 0
        \/ w = 1 /\ Q1D!Pairs[w + 1] = 2
        \/ w = 2 /\ Q1D!Pairs[w + 1] = 4
        \/ w = 3 /\ Q1D!Pairs[w + 1] = 6
        \/ w = 4 /\ Q1D!Pairs[w + 1] = 1
        \/ w = 5 /\ Q1D!Pairs[w + 1] = 3
        \/ w = 6 /\ Q1D!Pairs[w + 1] = 5
        \/ w = 7 /\ Q1D!Pairs[w + 1] = 7
  BY DEF Q1D!Pairs
<1>7. \A j \in 0 .. 3, p \in 0 .. 3 : Q1D!Transpose4[4 * j + p + 1] = 4 * p + j
  <2> TAKE j \in 0 .. 3, p \in 0 .. 3
  <2>1. (j = 0 \/ j = 1 \/ j = 2 \/ j = 3) /\ (p = 0 \/ p = 1 \/ p = 2 \/ p = 3) OBVIOUS
  <2> QED BY <2>1 DEF Q1D!Transpose4
<1>8. \A o \in Elem : Q1D!PermutedAvx2(q)[o] = Q1D!Permuted(q)[o]
  <2> TAKE o \in Elem
  <2> DEFINE h == o \div 16  j == (o % 16) \div 4  p == o % 4
             k == 16 * h + 4 * p + j
             w == k \div 4  r == k % 4
  <2>1. /\ h \in 0 .. 1 /\ j \in 0 .. 3 /\ p \in 0 .. 3 /\ o = 16 * h + 4 * j + p /\ o % 16 = 4 * j + p
        /\ o \div 4 = 4 * h + j OBVIOUS
  <2> HIDE DEF h, j, p
  <2>2. k \in Elem /\ w = 4 * h + p /\ r = j /\ w \in 0 .. 7 BY <2>1
  <2>3. Q1D!PermutedAvx2(q)[o] = Q1D!PermWords(q, Q1D!Pairs)[16 * (o \div 16) + Q1D!Transpose4[(o % 16) + 1]]
    BY <1>5 DEF Q1D!PermutedAvx2, Q1D!ShuffleHalves
  <2>4. Q1D!Transpose4[(o % 16) + 1] = 4 * p + j BY <1>7, <2>1
  <2>5. Q1D!PermutedAvx2(q)[o] = Q1D!PermWords(q, Q1D!Pairs)[k] BY <2>1, <2>3, <2>4 DEF h
  <2>6. Q1D!PermWords(q, Q1D!Pairs)[k] = q[4 * Q1D!Pairs[w + 1] + r] BY <2>2 DEF Q1D!PermWords
  <2>7. 4 * Q1D!Pairs[w + 1] + r = 8 * p + (4 * h + j)
    <3>1. Q1D!Pairs[w + 1] = 2 * p + h
      <4> HIDE DEF w
      <4> QED BY <1>6, <2>1, <2>2
    <3> QED BY <2>1, <2>2, <3>1
  <2>8. Q1D!Permuted(q)[o] = q[8 * (o % 4) + (o \div 4)] BY DEF Q1D!Permuted
  <2>9. o % 4 = p BY DEF p
  <2> QED BY <2>1, <2>5, <2>6, <2>7, <2>8, <2>9
<1>9. Q1D!PermutedAvx2(q) = Q1D!Permuted(q)
  <2>1. Q1D!PermutedAvx2(q) = [o \in Elem |-> Q1D!PermutedAvx2(q)[o]] BY DEF Q1D!PermutedAvx2, Q1D!ShuffleHalves
  <2>2. Q1D!Permuted(q) = [o \in Elem |-> Q1D!Permuted(q)[o]] BY DEF Q1D!Permuted
  <2> QED BY <1>8, <2>1, <2>2
<1>10. Q1D!NegSumAvx2(q) = Q1D!NegSum(q)
  <2> DEFINE f == [e \in Elem |-> q[e] + 128]
  <2>1. f \in [Elem -> Int] OBVIOUS
  <2>2. Q1D!Total(f) = Columns(f) /\ Q1D!Total(q) = Columns(q)
        /\ \A g \in 0 .. 7 : Column(f, g) \in Int /\ Column(q, g) \in Int BY <2>1, Total32
  <2>3. \A g \in 0 .. 7 : Column(f, g) = Column(q, g) + 512
    <3> TAKE g \in 0 .. 7
    <3>1. q[g] \in Int /\ q[8 + g] \in Int /\ q[16 + g] \in Int /\ q[24 + g] \in Int OBVIOUS
    <3>2. f[g] = q[g] + 128 /\ f[8 + g] = q[8 + g] + 128 /\ f[16 + g] = q[16 + g] + 128
          /\ f[24 + g] = q[24 + g] + 128 OBVIOUS
    <3> HIDE DEF f
    <3> QED BY <3>1, <3>2 DEF Column
  <2>4. Q1D!NegSumAvx2(q) = 32 * 128 - Q1D!Total(f) BY <1>5 DEF Q1D!NegSumAvx2
  <2> HIDE DEF f
  <2>5. Columns(f) = Columns(q) + 4096 /\ Columns(q) \in Int BY <2>2, <2>3 DEF Columns
  <2> QED BY <2>2, <2>4, <2>5 DEF Q1D!NegSum
<1> QED BY <1>5, <1>9, <1>10

-----------------------------------------------------------------------------
(* The transposes, by the binary digits of their indices.                  *)

(* The digits of an index: unpacking exchanges the lowest two. *)
Digit == 0 .. 1
Three(a, b, c) == 4 * a + 2 * b + c
Four(a, b, c, d) == Three(2 * a + b, c, d)

(* What r holds at each index when it unpacks x and y one element at a     *)
(* time, or two at a time, from their half c.                              *)
Ones(r, x, y, c) ==
  /\ DOMAIN r = DOMAIN x
  /\ \A d \in 0 .. 3, e, f \in Digit : Three(d, e, f) \in DOMAIN x =>
       r[Three(d, e, f)] = IF f = 0 THEN x[Three(d, c, e)] ELSE y[Three(d, c, e)]
Twos(r, x, y, c) ==
  /\ DOMAIN r = DOMAIN x
  /\ \A d \in 0 .. 3, e, f \in Digit : Three(d, e, f) \in DOMAIN x =>
       r[Three(d, e, f)] = IF e = 0 THEN x[Three(d, c, f)] ELSE y[Three(d, c, f)]

(* An unpack exchanges binary digits of the index of a lane. *)
LEMMA UnpackDigits ==
  ASSUME NEW x, NEW y, NEW c \in Digit
  PROVE  Ones(Q1D!Unpack(x, y, 1, 2 * c), x, y, c) /\ Twos(Q1D!Unpack(x, y, 2, 2 * c), x, y, c)
<1> DEFINE base == 2 * c  p == Q1D!Unpack(x, y, 1, base)  q == Q1D!Unpack(x, y, 2, base)
<1>0. DOMAIN p = DOMAIN x /\ DOMAIN q = DOMAIN x BY DEF Q1D!Unpack
<1> HIDE DEF p, q
<1>1. ASSUME NEW d \in 0 .. 3, NEW e \in Digit, NEW f \in Digit, Three(d, e, f) \in DOMAIN x
      PROVE  /\ p[Three(d, e, f)] = IF f = 0 THEN x[Three(d, c, e)] ELSE y[Three(d, c, e)]
             /\ q[Three(d, e, f)] = IF e = 0 THEN x[Three(d, c, f)] ELSE y[Three(d, c, f)]
  <2> DEFINE i == Three(d, e, f)
  <2>1. e \in {0, 1} /\ f \in {0, 1} /\ c \in {0, 1} BY DEF Digit
  <2>2. i % 4 = 2 * e + f BY <2>1 DEF Three
  <2>3. (2 * e + f) \div 2 = e /\ (2 * e + f) % 1 = 0 /\ (2 * e + f) \div 1 = 2 * e + f
        /\ (2 * e + f) \div 4 = 0 /\ (2 * e + f) % 2 = f /\ e % 2 = e BY <2>1
  <2>4. i - (2 * e + f) + base + 1 * e + 0 = Three(d, c, e)
        /\ i - (2 * e + f) + base + 2 * 0 + f = Three(d, c, f) BY <2>1 DEF Three
  <2> HIDE DEF base
  <2>5. 2 * 1 = 2 /\ 2 * 2 = 4 OBVIOUS
  <2>6. p[i] = IF ((i % 4) \div 1) % 2 = 0 THEN x[i - (i % 4) + base + 1 * ((i % 4) \div (2 * 1)) + ((i % 4) % 1)]
                                          ELSE y[i - (i % 4) + base + 1 * ((i % 4) \div (2 * 1)) + ((i % 4) % 1)]
    BY <1>1 DEF Q1D!Unpack, p
  <2>7. q[i] = IF ((i % 4) \div 2) % 2 = 0 THEN x[i - (i % 4) + base + 2 * ((i % 4) \div (2 * 2)) + ((i % 4) % 2)]
                                          ELSE y[i - (i % 4) + base + 2 * ((i % 4) \div (2 * 2)) + ((i % 4) % 2)]
    BY <1>1 DEF Q1D!Unpack, q
  <2> HIDE DEF i
  <2>8. p[i] = IF f = 0 THEN x[Three(d, c, e)] ELSE y[Three(d, c, e)] BY <2>2, <2>3, <2>4, <2>5, <2>6
  <2>9. q[i] = IF e = 0 THEN x[Three(d, c, f)] ELSE y[Three(d, c, f)] BY <2>2, <2>3, <2>4, <2>5, <2>7
  <2> QED BY <2>8, <2>9 DEF i
<1>2. Ones(p, x, y, c) BY <1>0, <1>1 DEF Ones
<1>3. Twos(q, x, y, c) BY <1>0, <1>1 DEF Twos
<1> QED BY <1>2, <1>3 DEF p, q, base

(* The binary digits. *)
LEMMA TwoDigits == 0 \in Digit /\ 1 \in Digit /\ \A a \in Digit : a = 0 \/ a = 1
BY DEF Digit

(* A lane's index has three or four of them. *)
LEMMA Digits ==
  /\ \A a, b, c \in Digit : Three(a, b, c) \in 0 .. 7
  /\ \A i \in 0 .. 7 : \E a, b, c \in Digit : i = Three(a, b, c)
  /\ \A a, b, c, d \in Digit : Four(a, b, c, d) \in 0 .. 15 /\ 2 * a + b \in 0 .. 3
  /\ \A i \in 0 .. 15 : \E a, b, c, d \in Digit : i = Four(a, b, c, d)
<1>1. \A a, b, c \in Digit : Three(a, b, c) \in 0 .. 7 BY DEF Digit, Three
<1>2. ASSUME NEW i \in 0 .. 7 PROVE \E a, b, c \in Digit : i = Three(a, b, c)
  <2>1. /\ i \div 4 \in Digit /\ (i \div 2) % 2 \in Digit /\ i % 2 \in Digit
        /\ i = 4 * (i \div 4) + 2 * ((i \div 2) % 2) + (i % 2) BY DEF Digit
  <2>2. i = Three(i \div 4, (i \div 2) % 2, i % 2) BY <2>1 DEF Three
  <2> QED BY <2>1, <2>2
<1>3. \A a, b, c, d \in Digit : Four(a, b, c, d) \in 0 .. 15 /\ 2 * a + b \in 0 .. 3 BY DEF Digit, Three, Four
<1>4. ASSUME NEW i \in 0 .. 15 PROVE \E a, b, c, d \in Digit : i = Four(a, b, c, d)
  <2> DEFINE a == i \div 8  b == (i \div 4) % 2  c == (i \div 2) % 2  d == i % 2
  <2>1. a \in Digit /\ b \in Digit /\ c \in Digit /\ d \in Digit BY DEF Digit
  <2>2. i \div 4 = 2 * a + b /\ i \div 2 = 2 * (i \div 4) + c /\ i = 2 * (i \div 2) + d OBVIOUS
  <2> HIDE DEF a, b, c, d
  <2>3. i = Four(a, b, c, d) BY <2>1, <2>2 DEF Four, Three, Digit
  <2> QED BY <2>1, <2>3
<1> QED BY <1>1, <1>2, <1>3, <1>4

Square(v, n) == \A r \in 0 .. n - 1 : DOMAIN v[r] = 0 .. n - 1

(* The transposition of eight rows of eight words. *)
LEMMA Eight ==
  ASSUME NEW v, Square(v, 8)
  PROVE  \A s, l \in 0 .. 7 : Q1D!Transpose8(v)[s][l] = v[l][s]
<1> DEFINE u == [i \in 0 .. 7 |-> IF i % 2 = 0 THEN Q1D!UnpackLo(v[i], v[i + 1], 1)
                                              ELSE Q1D!UnpackHi(v[i - 1], v[i], 1)]
           at(i) == 4 * (i \div 4) + ((i % 4) \div 2)
           w == [i \in 0 .. 7 |-> IF i % 2 = 0 THEN Q1D!UnpackLo(u[at(i)], u[at(i) + 2], 2)
                                              ELSE Q1D!UnpackHi(u[at(i)], u[at(i) + 2], 2)]
           t == Q1D!Transpose8(v)
<1>1. t = [s \in 0 .. 7 |-> Q1D!Halves(w[s % 4], w[(s % 4) + 4], s \div 4)] BY DEF Q1D!Transpose8
<1>2. \A r \in 0 .. 7 : DOMAIN v[r] = 0 .. 7 BY DEF Square
<1> HIDE DEF t
<1>3. \A d \in Digit : d \in 0 .. 3 BY DEF Digit
<1>4. ASSUME NEW a \in Digit, NEW b \in Digit, NEW c \in Digit
      PROVE  u[Three(a, b, c)] = Q1D!Unpack(v[Three(a, b, 0)], v[Three(a, b, 1)], 1, 2 * c)
  <2> DEFINE i == Three(a, b, c)
  <2>1. i \in 0 .. 7 /\ i % 2 = c BY DEF Three, Digit
  <2>2. CASE c = 0
    <3>1. i = Three(a, b, 0) /\ i + 1 = Three(a, b, 1) /\ 2 * c = 0 BY <2>2 DEF Three, Digit
    <3> QED BY <2>1, <2>2, <3>1 DEF Q1D!UnpackLo
  <2>3. CASE c = 1
    <3>1. i = Three(a, b, 1) /\ i - 1 = Three(a, b, 0) /\ 2 * c = 2 BY <2>3 DEF Three, Digit
    <3> QED BY <2>1, <2>3, <3>1 DEF Q1D!UnpackHi
  <2> QED BY <2>2, <2>3, TwoDigits
<1>5. ASSUME NEW a \in Digit, NEW b \in Digit, NEW c \in Digit
      PROVE  w[Three(a, b, c)] = Q1D!Unpack(u[Three(a, 0, b)], u[Three(a, 1, b)], 2, 2 * c)
  <2> DEFINE i == Three(a, b, c)
  <2>1. i \in 0 .. 7 /\ i % 2 = c /\ i \div 4 = a /\ i % 4 = 2 * b + c /\ (2 * b + c) \div 2 = b
    BY DEF Three, Digit
  <2>2. at(i) = Three(a, 0, b) /\ at(i) + 2 = Three(a, 1, b) BY <2>1 DEF Three, Digit
  <2> HIDE DEF u, at
  <2>3. CASE c = 0
    <3>1. 2 * c = 0 BY <2>3
    <3> QED BY <2>1, <2>2, <2>3, <3>1 DEF Q1D!UnpackLo
  <2>4. CASE c = 1
    <3>1. 2 * c = 2 BY <2>4
    <3> QED BY <2>1, <2>2, <2>4, <3>1 DEF Q1D!UnpackHi
  <2> QED BY <2>3, <2>4, TwoDigits
<1> HIDE DEF u, at, w
<1> DEFINE Left(a, b, c) == /\ DOMAIN u[Three(a, b, c)] = 0 .. 7
                            /\ \A d, e, f \in Digit : u[Three(a, b, c)][Three(d, e, f)] = v[Three(a, b, f)][Three(d, c, e)]
           Done(a, b, c) == /\ DOMAIN w[Three(a, b, c)] = 0 .. 7
                            /\ \A d, e, f \in Digit : w[Three(a, b, c)][Three(d, e, f)] = v[Three(a, e, f)][Three(d, b, c)]
<1>6. ASSUME NEW a \in Digit, NEW b \in Digit, NEW c \in Digit PROVE Left(a, b, c)
  <2> DEFINE x == v[Three(a, b, 0)]  y == v[Three(a, b, 1)]  r == u[Three(a, b, c)]
  <2>1. DOMAIN x = 0 .. 7
    <3>1. Three(a, b, 0) \in 0 .. 7 BY TwoDigits, Digits
    <3> QED BY <1>2, <3>1
  <2>2. r = Q1D!Unpack(x, y, 1, 2 * c) BY <1>4
  <2> HIDE DEF x, y, r
  <2>3. Ones(r, x, y, c) BY <2>2, UnpackDigits
  <2>4. ASSUME NEW d \in Digit, NEW e \in Digit, NEW f \in Digit
        PROVE  r[Three(d, e, f)] = v[Three(a, b, f)][Three(d, c, e)]
    <3>1. d \in 0 .. 3 /\ Three(d, e, f) \in DOMAIN x BY <1>3, <2>1, Digits
    <3>2. r[Three(d, e, f)] = IF f = 0 THEN x[Three(d, c, e)] ELSE y[Three(d, c, e)] BY <2>3, <3>1 DEF Ones
    <3>3. f = 0 \/ f = 1 BY TwoDigits
    <3>4. CASE f = 0 BY <3>2, <3>4 DEF x
    <3>5. CASE f = 1 BY <3>2, <3>5 DEF y
    <3> QED BY <3>3, <3>4, <3>5
  <2>5. DOMAIN r = 0 .. 7 BY <2>1, <2>3 DEF Ones
  <2> QED BY <2>4, <2>5 DEF r
<1>7. ASSUME NEW a \in Digit, NEW b \in Digit, NEW c \in Digit PROVE Done(a, b, c)
  <2> DEFINE x == u[Three(a, 0, b)]  y == u[Three(a, 1, b)]  r == w[Three(a, b, c)]
  <2> HIDE DEF Left
  <2>1. Left(a, 0, b) /\ Left(a, 1, b) BY <1>6, TwoDigits
  <2>2. /\ DOMAIN x = 0 .. 7
        /\ \A d, e, f \in Digit : x[Three(d, e, f)] = v[Three(a, 0, f)][Three(d, b, e)]
        /\ \A d, e, f \in Digit : y[Three(d, e, f)] = v[Three(a, 1, f)][Three(d, b, e)]
    BY <2>1 DEF Left
  <2>3. r = Q1D!Unpack(x, y, 2, 2 * c) BY <1>5
  <2> HIDE DEF x, y, r
  <2>4. Twos(r, x, y, c) BY <2>3, UnpackDigits
  <2>5. ASSUME NEW d \in Digit, NEW e \in Digit, NEW f \in Digit
        PROVE  r[Three(d, e, f)] = v[Three(a, e, f)][Three(d, b, c)]
    <3>1. d \in 0 .. 3 /\ Three(d, e, f) \in DOMAIN x BY <1>3, <2>2, Digits
    <3>2. r[Three(d, e, f)] = IF e = 0 THEN x[Three(d, c, f)] ELSE y[Three(d, c, f)] BY <2>4, <3>1 DEF Twos
    <3>3. x[Three(d, c, f)] = v[Three(a, 0, f)][Three(d, b, c)] /\ y[Three(d, c, f)] = v[Three(a, 1, f)][Three(d, b, c)]
      BY <2>2
    <3>4. e = 0 \/ e = 1 BY TwoDigits
    <3> QED BY <3>2, <3>3, <3>4
  <2>6. DOMAIN r = 0 .. 7 BY <2>2, <2>4 DEF Twos
  <2> QED BY <2>5, <2>6 DEF r
<1> HIDE DEF Left, Done
<1>8. ASSUME NEW s \in 0 .. 7, NEW l \in 0 .. 7 PROVE t[s][l] = v[l][s]
  <2>1. PICK a, b, c \in Digit : s = Three(a, b, c) BY Digits
  <2>2. PICK d, e, f \in Digit : l = Three(d, e, f) BY Digits
  <2> DEFINE x == w[Three(0, b, c)]  y == w[Three(1, b, c)]
  <2>3. /\ s % 4 = Three(0, b, c) /\ (s % 4) + 4 = Three(1, b, c) /\ s \div 4 = a
        /\ (l < 4 <=> d = 0) BY <2>1, <2>2 DEF Three, Digit
  <2>4. t[s] = Q1D!Halves(x, y, a) BY <1>1, <2>3
  <2>5. Done(0, b, c) /\ Done(1, b, c) BY <1>7, TwoDigits
  <2>6. /\ DOMAIN x = 0 .. 7 /\ x[Three(a, e, f)] = v[Three(0, e, f)][Three(a, b, c)]
        /\ y[Three(a, e, f)] = v[Three(1, e, f)][Three(a, b, c)]
    BY <2>5 DEF Done
  <2>7. /\ d = 0 => a * 4 + l = Three(a, e, f)
        /\ d = 1 => a * 4 + l - 4 = Three(a, e, f) BY <2>2 DEF Three, Digit
  <2> HIDE DEF x, y
  <2>8. Q1D!Width(x) = 8
    <3>1. DOMAIN x = 0 .. 8 - 1 BY <2>6
    <3> QED BY <3>1, WidthIs
  <2>9. t[s][l] = IF l < 4 THEN x[a * 4 + l] ELSE y[a * 4 + l - 4]
    <3>1. Q1D!Width(x) \div 2 = 4 BY <2>8
    <3> QED BY <2>4, <2>6, <3>1 DEF Q1D!Halves
  <2>10. d = 0 \/ d = 1 BY TwoDigits
  <2>11. CASE d = 0 BY <2>1, <2>2, <2>3, <2>6, <2>7, <2>9, <2>11
  <2>12. CASE d = 1 BY <2>1, <2>2, <2>3, <2>6, <2>7, <2>9, <2>12
  <2> QED BY <2>10, <2>11, <2>12
<1> QED BY <1>8 DEF t

(* The shuffle that brings together the 128-bit lanes h and h + 2. *)
LEMMA Lanes ==
  ASSUME NEW x, NEW y, NEW h \in Digit, NEW e \in Digit, NEW f \in Digit, NEW g \in Digit, NEW k \in Digit
  PROVE  Q1D!Lanes4(x, y, h)[Four(e, f, g, k)] = IF e = 0 THEN x[Four(f, h, g, k)] ELSE y[Four(f, h, g, k)]
<1> DEFINE i == Four(e, f, g, k)
<1>1. /\ i \in 0 .. 15 /\ i \div 4 = 2 * e + f /\ i % 4 = 2 * g + k
      /\ (2 * e + f) % 2 = f /\ (2 * e + f < 2 <=> e = 0)
      /\ 4 * (h + 2 * f) + (2 * g + k) = Four(f, h, g, k) BY DEF Four, Three, Digit
<1>2. Q1D!Lanes4(x, y, h)[i] = IF i \div 4 < 2 THEN x[4 * (h + 2 * ((i \div 4) % 2)) + (i % 4)]
                                              ELSE y[4 * (h + 2 * ((i \div 4) % 2)) + (i % 4)]
  BY <1>1 DEF Q1D!Lanes4
<1> HIDE DEF i
<1>3. Q1D!Lanes4(x, y, h)[i] = IF e = 0 THEN x[Four(f, h, g, k)] ELSE y[Four(f, h, g, k)] BY <1>1, <1>2
<1> QED BY <1>3 DEF i

(* The transposition of sixteen rows of sixteen words. *)
LEMMA Sixteen ==
  ASSUME NEW v, Square(v, 16)
  PROVE  \A s, l \in 0 .. 15 : Q1D!Transpose16(v)[s][l] = v[l][s]
<1> DEFINE two(i) == 2 * (i \div 2)
           u == [i \in 0 .. 15 |-> IF i % 2 = 0 THEN Q1D!UnpackLo(v[two(i)], v[two(i) + 1], 1)
                                               ELSE Q1D!UnpackHi(v[two(i)], v[two(i) + 1], 1)]
           at(i) == 4 * (i \div 4) + ((i % 4) \div 2)
           w == [i \in 0 .. 15 |-> IF i % 2 = 0 THEN Q1D!UnpackLo(u[at(i)], u[at(i) + 2], 2)
                                               ELSE Q1D!UnpackHi(u[at(i)], u[at(i) + 2], 2)]
           of(i) == 8 * (i \div 8) + (i % 4)
           z == [i \in 0 .. 15 |-> Q1D!Lanes4(w[of(i)], w[of(i) + 4], (i \div 4) % 2)]
           from(s) == 4 * ((s \div 4) % 2) + (s % 4)
           t == Q1D!Transpose16(v)
<1>1. t = [s \in 0 .. 15 |-> Q1D!Lanes4(z[from(s)], z[from(s) + 8], s \div 8)] BY DEF Q1D!Transpose16
<1> HIDE DEF t
<1>2. \A r \in 0 .. 15 : DOMAIN v[r] = 0 .. 15 BY DEF Square
<1>3. \A a, b, c, d \in Digit : Four(a, b, c, d) \in 0 .. 15 BY Digits
<1>4. ASSUME NEW a \in Digit, NEW b \in Digit, NEW c \in Digit, NEW d \in Digit
      PROVE  u[Four(a, b, c, d)] = Q1D!Unpack(v[Four(a, b, c, 0)], v[Four(a, b, c, 1)], 1, 2 * d)
  <2> DEFINE i == Four(a, b, c, d)
  <2>1. i \in 0 .. 15 /\ i % 2 = d /\ two(i) = Four(a, b, c, 0) /\ two(i) + 1 = Four(a, b, c, 1)
    BY DEF Four, Three, Digit
  <2> HIDE DEF i, two
  <2>2. CASE d = 0
    <3>1. 2 * d = 0 BY <2>2
    <3> QED BY <2>1, <2>2, <3>1 DEF Q1D!UnpackLo, i
  <2>3. CASE d = 1
    <3>1. 2 * d = 2 BY <2>3
    <3> QED BY <2>1, <2>3, <3>1 DEF Q1D!UnpackHi, i
  <2> QED BY <2>2, <2>3, TwoDigits
<1>5. ASSUME NEW a \in Digit, NEW b \in Digit, NEW c \in Digit, NEW d \in Digit
      PROVE  w[Four(a, b, c, d)] = Q1D!Unpack(u[Four(a, b, 0, c)], u[Four(a, b, 1, c)], 2, 2 * d)
  <2> DEFINE i == Four(a, b, c, d)
  <2>1. i \in 0 .. 15 /\ i % 2 = d /\ i \div 4 = 2 * a + b /\ i % 4 = 2 * c + d /\ (2 * c + d) \div 2 = c
    BY DEF Four, Three, Digit
  <2>2. at(i) = Four(a, b, 0, c) /\ at(i) + 2 = Four(a, b, 1, c)
    <3> HIDE DEF i
    <3> QED BY <2>1 DEF Four, Three, Digit
  <2> HIDE DEF i, u, at
  <2>3. CASE d = 0
    <3>1. 2 * d = 0 BY <2>3
    <3> QED BY <2>1, <2>2, <2>3, <3>1 DEF Q1D!UnpackLo, i
  <2>4. CASE d = 1
    <3>1. 2 * d = 2 BY <2>4
    <3> QED BY <2>1, <2>2, <2>4, <3>1 DEF Q1D!UnpackHi, i
  <2> QED BY <2>3, <2>4, TwoDigits
<1>6. ASSUME NEW a \in Digit, NEW b \in Digit, NEW c \in Digit, NEW d \in Digit
      PROVE  z[Four(a, b, c, d)] = Q1D!Lanes4(w[Four(a, 0, c, d)], w[Four(a, 1, c, d)], b)
  <2> DEFINE i == Four(a, b, c, d)
  <2>1. i \in 0 .. 15 /\ i \div 8 = a /\ i \div 4 = 2 * a + b /\ (2 * a + b) % 2 = b /\ i % 4 = 2 * c + d
    BY DEF Four, Three, Digit
  <2>2. of(i) = Four(a, 0, c, d) /\ of(i) + 4 = Four(a, 1, c, d)
    <3> HIDE DEF i
    <3> QED BY <2>1 DEF Four, Three, Digit
  <2> HIDE DEF w, of, i
  <2> QED BY <2>1, <2>2 DEF i
<1>7. ASSUME NEW a \in Digit, NEW b \in Digit, NEW c \in Digit, NEW d \in Digit
      PROVE  t[Four(a, b, c, d)] = Q1D!Lanes4(z[Four(0, b, c, d)], z[Four(1, b, c, d)], a)
  <2> DEFINE i == Four(a, b, c, d)
  <2>1. i \in 0 .. 15 /\ i \div 8 = a /\ i \div 4 = 2 * a + b /\ (2 * a + b) % 2 = b /\ i % 4 = 2 * c + d
    BY DEF Four, Three, Digit
  <2>2. from(i) = Four(0, b, c, d) /\ from(i) + 8 = Four(1, b, c, d)
    <3> HIDE DEF i
    <3> QED BY <2>1 DEF Four, Three, Digit
  <2> HIDE DEF z, from, i
  <2> QED BY <1>1, <2>1, <2>2 DEF i
<1> HIDE DEF two, u, at, w, of, z, from
<1> DEFINE Left(a, b, c, d) ==
             /\ DOMAIN u[Four(a, b, c, d)] = 0 .. 15
             /\ \A e, f, g, k \in Digit : u[Four(a, b, c, d)][Four(e, f, g, k)] = v[Four(a, b, c, k)][Four(e, f, d, g)]
           Rows(a, b, c, d) ==
             \A e, f, g, k \in Digit : w[Four(a, b, c, d)][Four(e, f, g, k)] = v[Four(a, b, g, k)][Four(e, f, c, d)]
           Halved(a, b, c, d) ==
             \A e, f, g, k \in Digit : z[Four(a, b, c, d)][Four(e, f, g, k)] = v[Four(a, e, g, k)][Four(f, b, c, d)]
<1>8. ASSUME NEW a \in Digit, NEW b \in Digit, NEW c \in Digit, NEW d \in Digit PROVE Left(a, b, c, d)
  <2> DEFINE x == v[Four(a, b, c, 0)]  y == v[Four(a, b, c, 1)]  r == u[Four(a, b, c, d)]
  <2>1. DOMAIN x = 0 .. 15
    <3>1. Four(a, b, c, 0) \in 0 .. 15 BY <1>3, TwoDigits
    <3> QED BY <1>2, <3>1
  <2>2. r = Q1D!Unpack(x, y, 1, 2 * d) BY <1>4
  <2> HIDE DEF x, y, r
  <2>3. Ones(r, x, y, d) BY <2>2, UnpackDigits
  <2>4. ASSUME NEW e \in Digit, NEW f \in Digit, NEW g \in Digit, NEW k \in Digit
        PROVE  r[Four(e, f, g, k)] = v[Four(a, b, c, k)][Four(e, f, d, g)]
    <3>1. 2 * e + f \in 0 .. 3 /\ Three(2 * e + f, g, k) \in DOMAIN x BY <1>3, <2>1, Digits DEF Four
    <3>2. r[Three(2 * e + f, g, k)] = IF k = 0 THEN x[Three(2 * e + f, d, g)] ELSE y[Three(2 * e + f, d, g)]
      BY <2>3, <3>1 DEF Ones
    <3>3. k = 0 \/ k = 1 BY TwoDigits
    <3>4. CASE k = 0 BY <3>2, <3>4 DEF x, Four
    <3>5. CASE k = 1 BY <3>2, <3>5 DEF y, Four
    <3> QED BY <3>3, <3>4, <3>5
  <2>5. DOMAIN r = 0 .. 15 BY <2>1, <2>3 DEF Ones
  <2> QED BY <2>4, <2>5 DEF r
<1>9. ASSUME NEW a \in Digit, NEW b \in Digit, NEW c \in Digit, NEW d \in Digit PROVE Rows(a, b, c, d)
  <2> DEFINE x == u[Four(a, b, 0, c)]  y == u[Four(a, b, 1, c)]  r == w[Four(a, b, c, d)]
  <2> HIDE DEF Left
  <2>1. Left(a, b, 0, c) /\ Left(a, b, 1, c) BY <1>8, TwoDigits
  <2>2. /\ DOMAIN x = 0 .. 15
        /\ \A e, f, g, k \in Digit : x[Four(e, f, g, k)] = v[Four(a, b, 0, k)][Four(e, f, c, g)]
        /\ \A e, f, g, k \in Digit : y[Four(e, f, g, k)] = v[Four(a, b, 1, k)][Four(e, f, c, g)]
    BY <2>1 DEF Left
  <2>3. r = Q1D!Unpack(x, y, 2, 2 * d) BY <1>5
  <2> HIDE DEF x, y, r
  <2>4. Twos(r, x, y, d) BY <2>3, UnpackDigits
  <2>5. ASSUME NEW e \in Digit, NEW f \in Digit, NEW g \in Digit, NEW k \in Digit
        PROVE  r[Four(e, f, g, k)] = v[Four(a, b, g, k)][Four(e, f, c, d)]
    <3>1. 2 * e + f \in 0 .. 3 /\ Three(2 * e + f, g, k) \in DOMAIN x BY <1>3, <2>2, Digits DEF Four
    <3>2. r[Three(2 * e + f, g, k)] = IF g = 0 THEN x[Three(2 * e + f, d, k)] ELSE y[Three(2 * e + f, d, k)]
      BY <2>4, <3>1 DEF Twos
    <3>3. r[Four(e, f, g, k)] = IF g = 0 THEN x[Four(e, f, d, k)] ELSE y[Four(e, f, d, k)] BY <3>2 DEF Four
    <3>4. x[Four(e, f, d, k)] = v[Four(a, b, 0, k)][Four(e, f, c, d)]
          /\ y[Four(e, f, d, k)] = v[Four(a, b, 1, k)][Four(e, f, c, d)] BY <2>2
    <3>5. g = 0 \/ g = 1 BY TwoDigits
    <3> QED BY <3>3, <3>4, <3>5
  <2> QED BY <2>5 DEF r
<1>10. ASSUME NEW a \in Digit, NEW b \in Digit, NEW c \in Digit, NEW d \in Digit PROVE Halved(a, b, c, d)
  <2> DEFINE x == w[Four(a, 0, c, d)]  y == w[Four(a, 1, c, d)]  r == z[Four(a, b, c, d)]
  <2> HIDE DEF Rows
  <2>1. Rows(a, 0, c, d) /\ Rows(a, 1, c, d) BY <1>9, TwoDigits
  <2>2. /\ \A e, f, g, k \in Digit : x[Four(e, f, g, k)] = v[Four(a, 0, g, k)][Four(e, f, c, d)]
        /\ \A e, f, g, k \in Digit : y[Four(e, f, g, k)] = v[Four(a, 1, g, k)][Four(e, f, c, d)]
    BY <2>1 DEF Rows
  <2>3. r = Q1D!Lanes4(x, y, b) BY <1>6
  <2> HIDE DEF x, y, r
  <2>4. ASSUME NEW e \in Digit, NEW f \in Digit, NEW g \in Digit, NEW k \in Digit
        PROVE  r[Four(e, f, g, k)] = v[Four(a, e, g, k)][Four(f, b, c, d)]
    <3>1. r[Four(e, f, g, k)] = IF e = 0 THEN x[Four(f, b, g, k)] ELSE y[Four(f, b, g, k)] BY <2>3, Lanes
    <3>2. x[Four(f, b, g, k)] = v[Four(a, 0, g, k)][Four(f, b, c, d)]
          /\ y[Four(f, b, g, k)] = v[Four(a, 1, g, k)][Four(f, b, c, d)] BY <2>2
    <3>3. e = 0 \/ e = 1 BY TwoDigits
    <3> QED BY <3>1, <3>2, <3>3
  <2> QED BY <2>4 DEF r
<1> HIDE DEF Left, Rows, Halved
<1>11. ASSUME NEW s \in 0 .. 15, NEW l \in 0 .. 15 PROVE t[s][l] = v[l][s]
  <2>1. PICK a, b, c, d \in Digit : s = Four(a, b, c, d) BY Digits
  <2>2. PICK e, f, g, k \in Digit : l = Four(e, f, g, k) BY Digits
  <2> DEFINE x == z[Four(0, b, c, d)]  y == z[Four(1, b, c, d)]
  <2>3. t[s] = Q1D!Lanes4(x, y, a) BY <1>7, <2>1
  <2>4. Halved(0, b, c, d) /\ Halved(1, b, c, d) BY <1>10, TwoDigits
  <2>5. /\ x[Four(f, a, g, k)] = v[Four(0, f, g, k)][Four(a, b, c, d)]
        /\ y[Four(f, a, g, k)] = v[Four(1, f, g, k)][Four(a, b, c, d)]
    BY <2>4 DEF Halved
  <2> HIDE DEF x, y
  <2>6. t[s][l] = IF e = 0 THEN x[Four(f, a, g, k)] ELSE y[Four(f, a, g, k)] BY <2>2, <2>3, Lanes
  <2>7. e = 0 \/ e = 1 BY TwoDigits
  <2> QED BY <2>1, <2>2, <2>5, <2>6, <2>7
<1> QED BY <1>11 DEF t

-----------------------------------------------------------------------------
(* The theorems.                                                           *)

(* Every 1-bit kernel, whatever its layout and its saturating or wrapping  *)
(* instructions, computes the dot product dot_rows_scalar does, for all    *)
(* sign bits and all int8 activations; the AVX2 row kernel for each of the *)
(* eight sub-blocks it takes together.                                     *)
THEOREM Q1KernelsExact ==
  /\ \A bit \in Bits, q \in Int8s :
       {Q1D!DotAvx512Vnni(bit, q), Q1D!DotAvx512Bw(bit, q), Q1D!DotMultiVnni(bit, q), Q1D!DotMulti(bit, q),
        Q1D!DotTile(bit, q), Q1D!DotTileVnni(bit, q), Q1D!DotAvx2Tail(bit, q)} = {Q1D!Dot(bit, q)}
  /\ \A bits \in [0 .. 7 -> Bits], qs \in [0 .. 7 -> Int8s], s \in 0 .. 7 :
       Q1D!DotsAvx2(bits, qs)[s] = Q1D!Dot(bits[s], qs[s])
<1>1. ASSUME NEW bit \in Bits, NEW q \in Int8s
      PROVE  {Q1D!DotAvx512Vnni(bit, q), Q1D!DotAvx512Bw(bit, q), Q1D!DotMultiVnni(bit, q), Q1D!DotMulti(bit, q),
              Q1D!DotTile(bit, q), Q1D!DotTileVnni(bit, q), Q1D!DotAvx2Tail(bit, q)} = {Q1D!Dot(bit, q)}
  <2>1. {Q1D!DotAvx512Vnni(bit, q), Q1D!DotAvx512Bw(bit, q), Q1D!DotMultiVnni(bit, q), Q1D!DotMulti(bit, q),
         Q1D!DotTile(bit, q), Q1D!DotTileVnni(bit, q)} = {Q1D!Dot(bit, q)} BY GroupKernels
  <2>2. Q1D!DotAvx2Tail(bit, q) = Q1D!Dot(bit, q) BY TailIs
  <2> QED BY <2>1, <2>2
<1> QED BY <1>1, RowOfEight

(* The copies the AVX2 quantizer stores are the ones of the scalar one,    *)
(* and the words the vector kernels load for eight or sixteen rows are     *)
(* those of the rows, one row to a lane, with zero past the last sub-block *)
(* of the tile.                                                            *)
THEOREM Q1LayoutsExact ==
  /\ \A q \in Int8s : /\ Q1D!StoredAvx2(q) = q /\ Q1D!PermutedAvx2(q) = Q1D!Permuted(q)
                      /\ Q1D!NegSumAvx2(q) = Q1D!NegSum(q)
  /\ \A n \in {8, 16}, cnt \in Nat : \A v \in [0 .. n - 1 -> [0 .. n - 1 -> Nat]] :
       \A s, l \in 0 .. n - 1 : Q1D!Words(v, cnt)[s][l] = IF s < cnt THEN v[l][s] ELSE 0
<1>1. ASSUME NEW q \in Int8s
      PROVE  /\ Q1D!StoredAvx2(q) = q /\ Q1D!PermutedAvx2(q) = Q1D!Permuted(q)
             /\ Q1D!NegSumAvx2(q) = Q1D!NegSum(q)
  <2>1. \A e \in Elem : q[e] \in Int
    <3> TAKE e \in Elem
    <3>1. q[e] \in -127 .. 127 BY DEF Int8s
    <3> QED BY <3>1
  <2>2. q \in [Elem -> Int] BY <2>1 DEF Int8s
  <2> QED BY <2>2, Copies
<1>2. ASSUME NEW n \in {8, 16}, NEW cnt \in Nat, NEW v \in [0 .. n - 1 -> [0 .. n - 1 -> Nat]]
      PROVE  \A s, l \in 0 .. n - 1 : Q1D!Words(v, cnt)[s][l] = IF s < cnt THEN v[l][s] ELSE 0
  <2> DEFINE kept == [r \in 0 .. n - 1 |-> [s \in 0 .. n - 1 |-> IF s < cnt THEN v[r][s] ELSE 0]]
  <2>1. Q1D!Width(v) = n
    <3>1. n \in Nat /\ DOMAIN v = 0 .. n - 1 OBVIOUS
    <3> QED BY <3>1, WidthIs
  <2>2. Q1D!Words(v, cnt) = IF n = 8 THEN Q1D!Transpose8(kept) ELSE Q1D!Transpose16(kept)
    <3>1. DOMAIN v = 0 .. n - 1 OBVIOUS
    <3> QED BY <2>1, <3>1 DEF Q1D!Words
  <2>3. Square(kept, n) BY DEF Square
  <2>4. \A l, s \in 0 .. n - 1 : kept[l][s] = IF s < cnt THEN v[l][s] ELSE 0 OBVIOUS
  <2> HIDE DEF kept
  <2>5. CASE n = 8
    <3>1. Square(kept, 8) /\ n - 1 = 7 BY <2>3, <2>5
    <3>2. \A s, l \in 0 .. 7 : Q1D!Transpose8(kept)[s][l] = kept[l][s] BY <3>1, Eight
    <3> QED BY <2>2, <2>4, <2>5, <3>1, <3>2
  <2>6. CASE n = 16
    <3>1. Square(kept, 16) /\ n - 1 = 15 /\ n # 8 BY <2>3, <2>6
    <3>2. \A s, l \in 0 .. 15 : Q1D!Transpose16(kept)[s][l] = kept[l][s] BY <3>1, Sixteen
    <3>3. Q1D!Words(v, cnt) = Q1D!Transpose16(kept) BY <2>2, <3>1
    <3> TAKE s, l \in 0 .. n - 1
    <3>4. s \in 0 .. 15 /\ l \in 0 .. 15 BY <3>1
    <3>5. Q1D!Words(v, cnt)[s][l] = kept[l][s] BY <3>2, <3>3, <3>4
    <3> QED BY <2>4, <3>5
  <2> QED BY <2>5, <2>6
<1> QED BY <1>1, <1>2

-----------------------------------------------------------------------------
(* Sums, cut, renamed and added up.                                        *)

(* The sum of a function is the last of its partial sums.                  *)
LEMMA TotalIs ==
  ASSUME NEW S, IsFiniteSet(S), NEW f \in [S -> Int], NEW s, Adds(s, f, S)
  PROVE  Q1D!Total(f) = s[S] /\ s[S] \in Int
<1>1. PICK sum : Adds(sum, f, S) /\ Q1D!Total(f) = sum[S] BY TotalAdds
<1>2. AddsPicked(s, f, S)
  <2>1. ASSUME NEW T \in SUBSET S PROVE s[T] = IF T = {} THEN 0 ELSE f[Pick(T)] + s[T \ {Pick(T)}]
    <3>1. CASE T = {} BY <3>1 DEF Adds
    <3>2. CASE T # {}
      <4>1. Pick(T) \in T BY <3>2 DEF Pick
      <4> QED BY <3>2, <4>1 DEF Adds
    <3> QED BY <3>1, <3>2
  <2> QED BY <2>1 DEF AddsPicked
<1>3. \A T \in SUBSET S : s[T] = sum[T] BY <1>1, <1>2, SumUnique
<1>4. s[S] \in Int BY DEF Adds
<1> QED BY <1>1, <1>3, <1>4

(* Sums of integers are integers, and of nothing is 0. *)
LEMMA TotalInt ==
  ASSUME NEW S, IsFiniteSet(S), NEW f \in [S -> Int]
  PROVE  Q1D!Total(f) \in Int /\ (S = {} => Q1D!Total(f) = 0)
<1>1. PICK sum : Adds(sum, f, S) /\ Q1D!Total(f) = sum[S] BY TotalAdds
<1> QED BY <1>1 DEF Adds

(* The sum over two sets apart is the sum of their sums. *)
LEMMA TotalSplit ==
  ASSUME NEW A, IsFiniteSet(A), NEW B, IsFiniteSet(B), A \cap B = {}, NEW f \in [A \cup B -> Int]
  PROVE  Q1D!Total(f) = Q1D!Total([x \in A |-> f[x]]) + Q1D!Total([x \in B |-> f[x]])
<1> DEFINE S == A \cup B
           fa == [x \in A |-> f[x]]
           fb == [x \in B |-> f[x]]
<1>1. IsFiniteSet(S) BY FS_Union
<1>2. PICK s : Adds(s, f, S) /\ Q1D!Total(f) = s[S] BY <1>1, TotalAdds
<1> DEFINE sb == [T \in SUBSET B |-> s[T]]
           sa == [T \in SUBSET A |-> s[T \cup B] - s[B]]
<1>3. \A T \in SUBSET S : s[T] \in Int BY <1>2 DEF Adds
<1>4. \A T \in SUBSET S : \A x \in T : s[T] = f[x] + s[T \ {x}] BY <1>2 DEF Adds
<1>5. Adds(sb, fb, B)
  <2>1. sb \in [SUBSET B -> Int] BY <1>3
  <2>2. sb[{}] = 0 BY <1>2 DEF Adds
  <2>3. ASSUME NEW T \in SUBSET B, NEW x \in T PROVE sb[T] = fb[x] + sb[T \ {x}]
    <3>1. s[T] = f[x] + s[T \ {x}] BY <1>4
    <3> QED BY <3>1
  <2> QED BY <2>1, <2>2, <2>3 DEF Adds
<1>6. Adds(sa, fa, A)
  <2>1. sa \in [SUBSET A -> Int]
    <3>1. ASSUME NEW T \in SUBSET A PROVE s[T \cup B] - s[B] \in Int
      <4>1. T \cup B \in SUBSET S /\ B \in SUBSET S OBVIOUS
      <4> QED BY <1>3, <4>1
    <3> QED BY <3>1
  <2>2. sa[{}] = 0
    <3>1. {} \cup B = B /\ s[B] \in Int BY <1>3
    <3>2. sa[{}] = s[{} \cup B] - s[B] OBVIOUS
    <3> QED BY <3>1, <3>2
  <2>3. ASSUME NEW T \in SUBSET A, NEW x \in T PROVE sa[T] = fa[x] + sa[T \ {x}]
    <3>1. T \cup B \in SUBSET S /\ x \in T \cup B /\ (T \cup B) \ {x} = (T \ {x}) \cup B OBVIOUS
    <3>2. s[T \cup B] = f[x] + s[(T \ {x}) \cup B] BY <1>4, <3>1
    <3>3. (T \ {x}) \cup B \in SUBSET S /\ B \in SUBSET S OBVIOUS
    <3>4. s[(T \ {x}) \cup B] \in Int /\ s[B] \in Int /\ f[x] \in Int BY <1>3, <3>3
    <3>5. sa[T] = s[T \cup B] - s[B] /\ sa[T \ {x}] = s[(T \ {x}) \cup B] - s[B] /\ fa[x] = f[x] OBVIOUS
    <3> HIDE DEF sa, fa
    <3> QED BY <3>2, <3>4, <3>5
  <2> QED BY <2>1, <2>2, <2>3 DEF Adds
<1>7. fa \in [A -> Int] /\ fb \in [B -> Int] OBVIOUS
<1>8. Q1D!Total(fb) = s[B]
  <2>1. Q1D!Total(fb) = sb[B] BY <1>5, <1>7, TotalIs
  <2> QED BY <2>1
<1>9. Q1D!Total(fa) = s[S] - s[B]
  <2>1. Q1D!Total(fa) = sa[A] BY <1>6, <1>7, TotalIs
  <2> QED BY <2>1
<1>10. s[S] \in Int /\ s[B] \in Int BY <1>3
<1> HIDE DEF fa, fb
<1>11. Q1D!Total(f) = Q1D!Total(fa) + Q1D!Total(fb) BY <1>2, <1>8, <1>9, <1>10
<1> QED BY <1>11 DEF fa, fb

(* h renames the elements of A as those of B.                             *)
Renames(h, A, B) ==
  /\ h \in [A -> B] /\ \A x, y \in A : h[x] = h[y] => x = y
  /\ \A z \in B : \E x \in A : h[x] = z
(* Renaming the elements does not change a sum.                            *)
LEMMA TotalMoved ==
  ASSUME NEW A, IsFiniteSet(A), NEW B, IsFiniteSet(B), NEW h, Renames(h, A, B), NEW f \in [B -> Int]
  PROVE  Q1D!Total([x \in A |-> f[h[x]]]) = Q1D!Total(f)
<1> DEFINE g == [x \in A |-> f[h[x]]]
           Image(T) == {h[x] : x \in T}
<1>1. PICK s : Adds(s, f, B) /\ Q1D!Total(f) = s[B] BY TotalAdds
<1> DEFINE t == [T \in SUBSET A |-> s[Image(T)]]
<1>2. \A T \in SUBSET A : Image(T) \in SUBSET B BY DEF Renames
<1>3. g \in [A -> Int] BY DEF Renames
<1>4. Adds(t, g, A)
  <2>1. t \in [SUBSET A -> Int] BY <1>1, <1>2 DEF Adds
  <2>2. t[{}] = 0
    <3>1. Image({}) = {} OBVIOUS
    <3> QED BY <1>1, <3>1 DEF Adds
  <2>3. ASSUME NEW T \in SUBSET A, NEW x \in T PROVE t[T] = g[x] + t[T \ {x}]
    <3>1. h[x] \in Image(T) /\ Image(T) \ {h[x]} = Image(T \ {x}) BY DEF Renames
    <3>2. s[Image(T)] = f[h[x]] + s[Image(T) \ {h[x]}] BY <1>1, <1>2, <3>1 DEF Adds
    <3>3. t[T] = s[Image(T)] /\ t[T \ {x}] = s[Image(T \ {x})] /\ g[x] = f[h[x]] OBVIOUS
    <3> QED BY <3>1, <3>2, <3>3
  <2> QED BY <2>1, <2>2, <2>3 DEF Adds
<1>5. Q1D!Total(g) = t[A] BY <1>3, <1>4, TotalIs
<1>6. Image(A) = B BY DEF Renames
<1> QED BY <1>1, <1>5, <1>6

(* The sum of sums, and of multiples. *)
LEMMA TotalSum ==
  ASSUME NEW S, IsFiniteSet(S), NEW f \in [S -> Int], NEW g \in [S -> Int]
  PROVE  Q1D!Total([x \in S |-> f[x] + g[x]]) = Q1D!Total(f) + Q1D!Total(g)
<1>1. PICK s : Adds(s, f, S) /\ Q1D!Total(f) = s[S] BY TotalAdds
<1>2. PICK t : Adds(t, g, S) /\ Q1D!Total(g) = t[S] BY TotalAdds
<1> DEFINE e == [x \in S |-> f[x] + g[x]]
           u == [T \in SUBSET S |-> s[T] + t[T]]
<1>3. e \in [S -> Int] OBVIOUS
<1>4. \A T \in SUBSET S : s[T] \in Int /\ t[T] \in Int BY <1>1, <1>2 DEF Adds
<1>5. Adds(u, e, S)
  <2>1. u \in [SUBSET S -> Int] BY <1>4
  <2>2. u[{}] = 0 BY <1>1, <1>2 DEF Adds
  <2>3. ASSUME NEW T \in SUBSET S, NEW x \in T PROVE u[T] = e[x] + u[T \ {x}]
    <3>1. s[T] = f[x] + s[T \ {x}] /\ t[T] = g[x] + t[T \ {x}] BY <1>1, <1>2 DEF Adds
    <3>2. s[T \ {x}] \in Int /\ t[T \ {x}] \in Int /\ f[x] \in Int /\ g[x] \in Int BY <1>4
    <3>3. u[T] = s[T] + t[T] /\ u[T \ {x}] = s[T \ {x}] + t[T \ {x}] /\ e[x] = f[x] + g[x] OBVIOUS
    <3> HIDE DEF u, e
    <3> QED BY <3>1, <3>2, <3>3
  <2> QED BY <2>1, <2>2, <2>3 DEF Adds
<1>6. Q1D!Total(e) = u[S] BY <1>3, <1>5, TotalIs
<1> QED BY <1>1, <1>2, <1>6

(* Multiplying each term multiplies the sum.                                *)
LEMMA TotalTimes ==
  ASSUME NEW S, IsFiniteSet(S), NEW f \in [S -> Int], NEW c \in Int
  PROVE  Q1D!Total([x \in S |-> c * f[x]]) = c * Q1D!Total(f)
<1>1. PICK s : Adds(s, f, S) /\ Q1D!Total(f) = s[S] BY TotalAdds
<1> DEFINE e == [x \in S |-> c * f[x]]
           u == [T \in SUBSET S |-> c * s[T]]
<1>0. \A x, y \in Int : c * x \in Int /\ c * (x + y) = c * x + c * y OBVIOUS
<1>3. e \in [S -> Int] BY <1>0
<1>4. \A T \in SUBSET S : s[T] \in Int BY <1>1 DEF Adds
<1>5. Adds(u, e, S)
  <2>1. u \in [SUBSET S -> Int] BY <1>0, <1>4
  <2>2. u[{}] = 0
    <3>1. s[{}] = 0 /\ c * 0 = 0 BY <1>1 DEF Adds
    <3> QED BY <3>1
  <2>3. ASSUME NEW T \in SUBSET S, NEW x \in T PROVE u[T] = e[x] + u[T \ {x}]
    <3>1. s[T] = f[x] + s[T \ {x}] BY <1>1 DEF Adds
    <3>2. s[T \ {x}] \in Int /\ f[x] \in Int BY <1>4
    <3>3. u[T] = c * s[T] /\ u[T \ {x}] = c * s[T \ {x}] /\ e[x] = c * f[x] OBVIOUS
    <3>4. c * (f[x] + s[T \ {x}]) = c * f[x] + c * s[T \ {x}] BY <1>0, <3>2
    <3> HIDE DEF u, e
    <3> QED BY <3>1, <3>3, <3>4
  <2> QED BY <2>1, <2>2, <2>3 DEF Adds
<1>6. Q1D!Total(e) = u[S] BY <1>3, <1>5, TotalIs
<1> QED BY <1>1, <1>6

(* A stretch of the elements from `from`, numbered from 0.                 *)
Stretch(f, from, w) == [i \in 0 .. w - 1 |-> f[from + i]]
Part(f, from, to) == [i \in from .. to - 1 |-> f[i]]
(* Numbering from 0 does not change a sum.                                  *)
LEMMA TotalShift ==
  ASSUME NEW from \in Int, NEW w \in Nat, NEW f, \A i \in from .. from + w - 1 : f[i] \in Int
  PROVE  Q1D!Total(Stretch(f, from, w)) = Q1D!Total(Part(f, from, from + w)) /\ Q1D!Total(Stretch(f, from, w)) \in Int
<1> DEFINE A == 0 .. w - 1
           B == from .. from + w - 1
           h == [i \in A |-> from + i]
           p == Part(f, from, from + w)
<1>1. IsFiniteSet(A) /\ IsFiniteSet(B) BY FS_Interval
<1>2. p \in [B -> Int] BY DEF Part
<1>3. Renames(h, A, B)
  <2>1. h \in [A -> B] OBVIOUS
  <2>2. \A x, y \in A : h[x] = h[y] => x = y OBVIOUS
  <2>3. ASSUME NEW z \in B PROVE \E x \in A : h[x] = z
    <3>1. z - from \in A /\ h[z - from] = z OBVIOUS
    <3> QED BY <3>1
  <2> QED BY <2>1, <2>2, <2>3 DEF Renames
<1>4. [i \in A |-> p[h[i]]] = Stretch(f, from, w)
  <2>1. \A i \in A : p[h[i]] = f[from + i] BY DEF Part
  <2> QED BY <2>1 DEF Stretch
<1> HIDE DEF h, A, B, p
<1>5. Q1D!Total([i \in A |-> p[h[i]]]) = Q1D!Total(p) BY <1>1, <1>2, <1>3, TotalMoved
<1>6. Q1D!Total(p) \in Int BY <1>1, <1>2, TotalInt
<1> QED BY <1>4, <1>5, <1>6 DEF p

(* A sum over an interval is cut where one likes. *)
LEMMA TotalCutAt ==
  ASSUME NEW lo \in Int, NEW mid \in Int, NEW hi \in Int, lo <= mid, mid <= hi,
         NEW f, \A i \in lo .. hi - 1 : f[i] \in Int
  PROVE  /\ Q1D!Total(Part(f, lo, hi)) = Q1D!Total(Part(f, lo, mid)) + Q1D!Total(Part(f, mid, hi))
         /\ Q1D!Total(Part(f, lo, mid)) \in Int /\ Q1D!Total(Part(f, mid, hi)) \in Int
<1> DEFINE A == lo .. mid - 1
           B == mid .. hi - 1
           p == Part(f, lo, hi)
<1>1. IsFiniteSet(A) /\ IsFiniteSet(B) BY FS_Interval
<1>2. A \cap B = {} /\ A \cup B = lo .. hi - 1 OBVIOUS
<1>3. p \in [A \cup B -> Int] BY <1>2 DEF Part
<1>4. Part(f, lo, mid) = [x \in A |-> p[x]]
  <2>1. \A x \in A : p[x] = f[x] BY <1>2 DEF Part
  <2> QED BY <2>1 DEF Part
<1>5. Part(f, mid, hi) = [x \in B |-> p[x]]
  <2>1. \A x \in B : p[x] = f[x] BY <1>2 DEF Part
  <2> QED BY <2>1 DEF Part
<1>6. [x \in A |-> p[x]] \in [A -> Int] /\ [x \in B |-> p[x]] \in [B -> Int] BY <1>3
<1> HIDE DEF A, B, p
<1>7. Q1D!Total(p) = Q1D!Total([x \in A |-> p[x]]) + Q1D!Total([x \in B |-> p[x]])
  <2>1. IsFiniteSet(A) /\ IsFiniteSet(B) /\ A \cap B = {} BY <1>1, <1>2
  <2> QED BY <1>3, <2>1, TotalSplit, SMTT(40)
<1>8. Q1D!Total([x \in A |-> p[x]]) \in Int /\ Q1D!Total([x \in B |-> p[x]]) \in Int BY <1>1, <1>6, TotalInt
<1> QED BY <1>4, <1>5, <1>7, <1>8 DEF p

(* A stretch of integers; the sums of whole chunks of a width.             *)
Ints(f, from, to) == \A i \in from .. to - 1 : f[i] \in Int
Chunked(ch, f, w, m) == ch = [c \in 0 .. m - 1 |-> Q1D!Total(Stretch(f, w * c, w))]
(* A sum of whole chunks of a width is the sum of the chunks' sums.        *)
LEMMA TotalChunks ==
  ASSUME NEW w \in Nat, NEW m \in Nat, NEW all \in Nat, all = w * m, NEW f, Ints(f, 0, all),
         NEW ch, Chunked(ch, f, w, m)
  PROVE  Q1D!Total(Part(f, 0, all)) = Q1D!Total(ch) /\ ch \in [0 .. m - 1 -> Int]
<1>0. \A i \in 0 .. all - 1 : f[i] \in Int BY DEF Ints
<1>1. ASSUME NEW k \in 0 .. m - 1
      PROVE  /\ w * (k + 1) = w * k + w /\ w * k \in Nat /\ w * k + w <= all
             /\ ch[k] = Q1D!Total(Stretch(f, w * k, w)) /\ ch[k] \in Int
             /\ ch[k] = Q1D!Total(Part(f, w * k, w * k + w))
  <2>1. m - (k + 1) \in Nat /\ \A d \in Nat : w * d \in Nat OBVIOUS
  <2>2. w * m = w * k + w + w * (m - (k + 1)) OBVIOUS
  <2>3. w * (k + 1) = w * k + w OBVIOUS
  <2>4. w * (m - (k + 1)) \in Nat /\ w * k \in Nat BY <2>1
  <2>5. w * k + w <= all BY <2>2, <2>4
  <2> DEFINE from == w * k
  <2>6. ch[k] = Q1D!Total(Stretch(f, from, w)) BY DEF Chunked
  <2>7. from \in Nat /\ from + w <= all BY <2>4, <2>5
  <2> HIDE DEF from
  <2>8. \A i \in from .. from + w - 1 : f[i] \in Int
    <3>1. \A i \in from .. from + w - 1 : i \in 0 .. all - 1 BY <2>7
    <3> QED BY <1>0, <3>1
  <2>9. Q1D!Total(Stretch(f, from, w)) = Q1D!Total(Part(f, from, from + w)) /\ Q1D!Total(Stretch(f, from, w)) \in Int
    BY <2>7, <2>8, TotalShift
  <2> QED BY <2>3, <2>4, <2>5, <2>6, <2>9 DEF from
<1>2. ch \in [0 .. m - 1 -> Int]
  <2>1. ch = [c \in 0 .. m - 1 |-> ch[c]] BY DEF Chunked
  <2> QED BY <1>1, <2>1
<1>3. PICK c \in [0 .. m -> Int] :
        c[0] = 0 /\ (\A k \in 0 .. m - 1 : c[k + 1] = c[k] + ch[k]) /\ Q1D!Total(ch) = c[m] BY <1>2, TotalUp
<1> DEFINE G == {k \in Nat : k <= m => Q1D!Total(Part(f, 0, w * k)) = c[k]}
<1>4. 0 \in G
  <2>1. w * 0 = 0 /\ 0 .. 0 - 1 = {} OBVIOUS
  <2>2. Part(f, 0, 0) \in [{} -> Int] /\ IsFiniteSet({}) BY <2>1, FS_EmptySet DEF Part
  <2>3. Q1D!Total(Part(f, 0, 0)) = 0 BY <2>2, TotalInt
  <2> QED BY <1>3, <2>1, <2>3
<1>5. ASSUME NEW k \in Nat, k \in G PROVE k + 1 \in G
  <2>1. CASE k + 1 <= m
    <3> DEFINE from == w * k
    <3>1. k \in 0 .. m - 1 BY <2>1
    <3>2. from \in Nat /\ w * (k + 1) = from + w /\ from + w <= all /\ ch[k] = Q1D!Total(Part(f, from, from + w))
      BY <1>1, <3>1
    <3>3. Q1D!Total(Part(f, 0, from)) = c[k] BY <1>5, <2>1
    <3>4. c[k + 1] = c[k] + ch[k] BY <1>3, <3>1
    <3> HIDE DEF from
    <3>5. \A i \in 0 .. from + w - 1 : f[i] \in Int
      <4>1. \A i \in 0 .. from + w - 1 : i \in 0 .. all - 1 BY <3>2
      <4> QED BY <1>0, <4>1
    <3>6. 0 <= from /\ from <= from + w /\ from + w \in Int /\ from \in Int BY <3>2
    <3>7. Q1D!Total(Part(f, 0, from + w)) = Q1D!Total(Part(f, 0, from)) + Q1D!Total(Part(f, from, from + w))
      BY <3>5, <3>6, TotalCutAt
    <3>8. Q1D!Total(Part(f, 0, w * (k + 1))) = c[k + 1] BY <3>2, <3>3, <3>4, <3>7
    <3> QED BY <3>8
  <2>2. CASE ~(k + 1 <= m) BY <2>2
  <2> QED BY <2>1, <2>2
<1>6. \A k \in Nat : k \in G
  <2> HIDE DEF G
  <2> QED BY <1>4, <1>5, Naturals
<1> QED BY <1>2, <1>3, <1>6

(* The quotient and the remainder of a division by a positive number.      *)
LEMMA DivIs ==
  ASSUME NEW n \in Nat, NEW d \in Nat \ {0}
  PROVE  n \div d \in Nat /\ d * (n \div d) <= n /\ n < d * (n \div d) + d
OBVIOUS

(* The least of two numbers.                                                *)
LEMMA MinTwo ==
  ASSUME NEW x \in Int, NEW y \in Int
  PROVE  /\ Lin!Min({x, y}) = IF x <= y THEN x ELSE y
         /\ Q1D!Min({x, y}) = IF x <= y THEN x ELSE y
         /\ Lin!Max({x, y}) = IF x <= y THEN y ELSE x
         /\ Q1D!Max({x, y}) = IF x <= y THEN y ELSE x
<1>1. \E m \in {x, y} : \A z \in {x, y} : m <= z OBVIOUS
<1>2. \E m \in {x, y} : \A z \in {x, y} : m >= z OBVIOUS
<1>3. Lin!Min({x, y}) \in {x, y} /\ \A z \in {x, y} : Lin!Min({x, y}) <= z BY <1>1 DEF Lin!Min
<1>4. Q1D!Min({x, y}) \in {x, y} /\ \A z \in {x, y} : Q1D!Min({x, y}) <= z BY <1>1 DEF Q1D!Min
<1>5. Lin!Max({x, y}) \in {x, y} /\ \A z \in {x, y} : Lin!Max({x, y}) >= z BY <1>2 DEF Lin!Max
<1>6. Q1D!Max({x, y}) \in {x, y} /\ \A z \in {x, y} : Q1D!Max({x, y}) >= z BY <1>2 DEF Q1D!Max
<1> QED BY <1>3, <1>4, <1>5, <1>6

(* Both instances sum alike.                                                *)
LEMMA LinTotal == ASSUME NEW f PROVE Lin!Total(f) = Q1D!Total(f)
BY DEF Lin!Total, Lin!MapThenSumSet, Lin!MapThenFoldSet, Q1D!Total, Q1D!MapThenSumSet, Q1D!MapThenFoldSet

-----------------------------------------------------------------------------
(* The tasks of a product: its rows and tokens, each cell once.            *)

(* Rows cut in chunks: chunk c is of Min({chunk, outs - c * chunk}) rows.  *)
Size(outs, chunk, c) == Lin!Min({chunk, outs - c * chunk})
Chunks(outs, chunk) == (outs + chunk - 1) \div chunk
InChunk(outs, chunk, c, o) == o \in c * chunk .. c * chunk + Size(outs, chunk, c) - 1
(* Each row is in one chunk.                                               *)
LEMMA CutOnce ==
  ASSUME NEW chunk \in Nat \ {0}, NEW outs \in Nat \ {0}
  PROVE  /\ Chunks(outs, chunk) \in Nat
         /\ \A c \in 0 .. Chunks(outs, chunk) - 1 :
              /\ c * chunk \in Nat /\ Size(outs, chunk, c) \in Nat \ {0}
              /\ c * chunk + Size(outs, chunk, c) <= outs
         /\ \A o \in 0 .. outs - 1 : \E c \in 0 .. Chunks(outs, chunk) - 1 :
              /\ InChunk(outs, chunk, c, o)
              /\ \A e \in 0 .. Chunks(outs, chunk) - 1 : InChunk(outs, chunk, e, o) => e = c
<1> DEFINE n == Chunks(outs, chunk)
<1>1. n \in Nat /\ chunk * n <= outs + chunk - 1 /\ outs + chunk - 1 < chunk * n + chunk
  <2>1. outs + chunk - 1 \in Nat OBVIOUS
  <2> QED BY <2>1, DivIs DEF Chunks
<1> HIDE DEF n
<1>2. \A x, y \in Int : x < y => chunk * x + chunk <= chunk * y
  <2> TAKE x, y \in Int
  <2> SUFFICES ASSUME x < y PROVE chunk * x + chunk <= chunk * y OBVIOUS
  <2>1. y - x - 1 \in Nat OBVIOUS
  <2>2. \A z \in Nat : chunk * z \in Nat OBVIOUS
  <2>3. chunk * (y - x - 1) = chunk * y - chunk * x - chunk OBVIOUS
  <2>4. chunk * x \in Int /\ chunk * y \in Int OBVIOUS
  <2> QED BY <2>1, <2>2, <2>3, <2>4
<1>3. \A x \in Int : chunk * x = x * chunk /\ chunk * x \in Int OBVIOUS
<1>4. ASSUME NEW c \in 0 .. n - 1
      PROVE  /\ c * chunk \in Nat /\ c * chunk = chunk * c /\ Size(outs, chunk, c) \in Nat \ {0}
             /\ c * chunk + Size(outs, chunk, c) <= outs
             /\ Size(outs, chunk, c) = IF chunk <= outs - c * chunk THEN chunk ELSE outs - c * chunk
  <2>0. c \in Nat /\ c < n BY <1>1
  <2>1. chunk * c + chunk <= chunk * n BY <1>1, <1>2, <2>0
  <2>2. c * chunk \in Nat /\ c * chunk = chunk * c BY <2>0
  <2>3. chunk * n \in Int BY <1>1, <1>3
  <2>4. chunk * c < outs BY <1>1, <2>1, <2>2, <2>3
  <2>5. Size(outs, chunk, c) = IF chunk <= outs - c * chunk THEN chunk ELSE outs - c * chunk
    BY <2>2, MinTwo DEF Size
  <2> QED BY <2>2, <2>4, <2>5
<1>5. ASSUME NEW o \in 0 .. outs - 1
      PROVE  \E c \in 0 .. n - 1 : InChunk(outs, chunk, c, o) /\ \A e \in 0 .. n - 1 : InChunk(outs, chunk, e, o) => e = c
  <2> DEFINE c == o \div chunk
  <2>1. c \in Nat /\ chunk * c <= o /\ o < chunk * c + chunk
    <3>1. o \in Nat OBVIOUS
    <3> QED BY <3>1, DivIs
  <2> HIDE DEF c
  <2>2. c < n
    <3>0. c \in Nat /\ n \in Nat BY <1>1, <2>1
    <3> SUFFICES ASSUME n <= c PROVE FALSE BY <3>0
    <3>1. chunk * n <= chunk * c
      <4>1. CASE n = c
        <5>1. chunk * n \in Int BY <1>1, <1>3
        <5> QED BY <4>1, <5>1
      <4>2. CASE n < c
        <5>1. chunk * n + chunk <= chunk * c BY <1>1, <1>2, <2>1, <4>2
        <5>2. chunk * n \in Int /\ chunk * c \in Int BY <1>1, <1>3, <2>1
        <5> QED BY <5>1, <5>2
      <4>3. n = c \/ n < c BY <3>0
      <4> QED BY <4>1, <4>2, <4>3
    <3>2. chunk * n \in Int /\ chunk * c \in Int BY <1>1, <1>3, <2>1
    <3> QED BY <1>1, <2>1, <3>1, <3>2
  <2>3. c \in 0 .. n - 1
    <3>1. c \in Nat /\ n \in Nat BY <1>1, <2>1
    <3> QED BY <2>2, <3>1
  <2>4. InChunk(outs, chunk, c, o) BY <1>4, <2>1, <2>3 DEF InChunk
  <2>5. ASSUME NEW e \in 0 .. n - 1, InChunk(outs, chunk, e, o) PROVE e = c
    <3>1. e * chunk <= o /\ o < e * chunk + chunk /\ e * chunk = chunk * e /\ e * chunk \in Nat
      BY <1>4, <2>5 DEF InChunk
    <3>2. e \in Int /\ c \in Int BY <1>1, <2>1
    <3>3. ~(e < c)
      <4>1. e < c => chunk * e + chunk <= chunk * c BY <1>2, <3>2
      <4>2. chunk * c \in Int BY <1>3, <3>2
      <4> QED BY <2>1, <3>1, <4>1, <4>2
    <3>4. ~(c < e)
      <4>1. c < e => chunk * c + chunk <= chunk * e BY <1>2, <3>2
      <4>2. chunk * c \in Int BY <1>3, <3>2
      <4> QED BY <2>1, <3>1, <4>1, <4>2
    <3> QED BY <3>2, <3>3, <3>4
  <2> QED BY <2>3, <2>4, <2>5
<1> QED BY <1>1, <1>4, <1>5 DEF n

(* Each element of the output is written by one task, and each task writes some. *)
OneEach(tasks, tokens, outs) ==
  /\ \A t \in tasks : Lin!CellsOf(t) # {} /\ Lin!CellsOf(t) \subseteq (0 .. tokens - 1) \X (0 .. outs - 1)
  /\ \A cell \in (0 .. tokens - 1) \X (0 .. outs - 1) :
       \E t \in tasks : cell \in Lin!CellsOf(t) /\ \A u \in tasks : cell \in Lin!CellsOf(u) => u = t

(* The tasks of chunks of rows for each token.                             *)
Grid(tokens, outs, chunk) ==
  {<<t, c * chunk, Size(outs, chunk, c)>> : t \in 0 .. tokens - 1, c \in 0 .. Chunks(outs, chunk) - 1}
(* They write each cell once.                                              *)
LEMMA GridOnce ==
  ASSUME NEW tokens \in Nat \ {0}, NEW outs \in Nat \ {0}, NEW chunk \in Nat \ {0}
  PROVE  OneEach(Grid(tokens, outs, chunk), tokens, outs)
<1> DEFINE n == Chunks(outs, chunk)
           Task(t, c) == <<t, c * chunk, Size(outs, chunk, c)>>
<1>1. n \in Nat BY CutOnce
<1>2. \A c \in 0 .. n - 1 :
        /\ c * chunk \in Nat /\ Size(outs, chunk, c) \in Nat \ {0}
        /\ c * chunk + Size(outs, chunk, c) <= outs BY CutOnce
<1>3. \A o \in 0 .. outs - 1 : \E c \in 0 .. n - 1 :
        InChunk(outs, chunk, c, o) /\ \A e \in 0 .. n - 1 : InChunk(outs, chunk, e, o) => e = c BY CutOnce
<1>4. Grid(tokens, outs, chunk) = {Task(t, c) : t \in 0 .. tokens - 1, c \in 0 .. n - 1} BY DEF Grid
<1>5. \A t, c : Lin!CellsOf(Task(t, c)) = {<<t, o>> : o \in c * chunk .. c * chunk + Size(outs, chunk, c) - 1}
  BY DEF Lin!CellsOf
<1>6. \A t, c, s, o : <<s, o>> \in Lin!CellsOf(Task(t, c)) <=> s = t /\ InChunk(outs, chunk, c, o)
  BY <1>5 DEF InChunk
<1> HIDE DEF n
<1>7. ASSUME NEW t \in 0 .. tokens - 1, NEW c \in 0 .. n - 1
      PROVE  /\ Lin!CellsOf(Task(t, c)) # {}
             /\ Lin!CellsOf(Task(t, c)) \subseteq (0 .. tokens - 1) \X (0 .. outs - 1)
  <2> DEFINE first == c * chunk
             size == Size(outs, chunk, c)
  <2>1. first \in Nat /\ size \in Nat \ {0} /\ first + size <= outs BY <1>2
  <2>2. Lin!CellsOf(Task(t, c)) = {<<t, o>> : o \in first .. first + size - 1} BY <1>5
  <2> HIDE DEF first, size
  <2>3. first \in first .. first + size - 1 BY <2>1
  <2>4. \A o \in first .. first + size - 1 : o \in 0 .. outs - 1 BY <2>1
  <2> HIDE DEF Task
  <2>5. <<t, first>> \in Lin!CellsOf(Task(t, c)) BY <2>2, <2>3
  <2>6. Lin!CellsOf(Task(t, c)) \subseteq (0 .. tokens - 1) \X (0 .. outs - 1)
    <3> SUFFICES ASSUME NEW cell \in Lin!CellsOf(Task(t, c)) PROVE cell \in (0 .. tokens - 1) \X (0 .. outs - 1) OBVIOUS
    <3>1. PICK o \in first .. first + size - 1 : cell = <<t, o>> BY <2>2
    <3> QED BY <2>4, <3>1
  <2> QED BY <2>5, <2>6
<1>8. ASSUME NEW s \in 0 .. tokens - 1, NEW o \in 0 .. outs - 1
      PROVE  \E t \in 0 .. tokens - 1, c \in 0 .. n - 1 :
               /\ <<s, o>> \in Lin!CellsOf(Task(t, c))
               /\ \A r \in 0 .. tokens - 1, e \in 0 .. n - 1 : <<s, o>> \in Lin!CellsOf(Task(r, e)) => r = t /\ e = c
  <2>1. PICK c \in 0 .. n - 1 : InChunk(outs, chunk, c, o) /\ \A e \in 0 .. n - 1 : InChunk(outs, chunk, e, o) => e = c
    BY <1>3
  <2> HIDE DEF Task
  <2>2. <<s, o>> \in Lin!CellsOf(Task(s, c)) BY <1>6, <2>1
  <2>3. \A r \in 0 .. tokens - 1, e \in 0 .. n - 1 : <<s, o>> \in Lin!CellsOf(Task(r, e)) => r = s /\ e = c
    BY <1>6, <2>1
  <2> QED BY <2>2, <2>3
<1> HIDE DEF Task
<1>9. \A t \in Grid(tokens, outs, chunk) :
        Lin!CellsOf(t) # {} /\ Lin!CellsOf(t) \subseteq (0 .. tokens - 1) \X (0 .. outs - 1) BY <1>4, <1>7
<1>10. ASSUME NEW cell \in (0 .. tokens - 1) \X (0 .. outs - 1)
       PROVE  \E t \in Grid(tokens, outs, chunk) :
                cell \in Lin!CellsOf(t) /\ \A u \in Grid(tokens, outs, chunk) : cell \in Lin!CellsOf(u) => u = t
  <2>1. PICK s \in 0 .. tokens - 1, o \in 0 .. outs - 1 : cell = <<s, o>> OBVIOUS
  <2>2. PICK t \in 0 .. tokens - 1, c \in 0 .. n - 1 :
               /\ <<s, o>> \in Lin!CellsOf(Task(t, c))
               /\ \A r \in 0 .. tokens - 1, e \in 0 .. n - 1 : <<s, o>> \in Lin!CellsOf(Task(r, e)) => r = t /\ e = c
    BY <1>8
  <2>3. Task(t, c) \in Grid(tokens, outs, chunk) BY <1>4
  <2>4. ASSUME NEW u \in Grid(tokens, outs, chunk), cell \in Lin!CellsOf(u) PROVE u = Task(t, c)
    <3>1. PICK r \in 0 .. tokens - 1, e \in 0 .. n - 1 : u = Task(r, e) BY <1>4
    <3>2. r = t /\ e = c BY <2>1, <2>2, <2>4, <3>1
    <3> QED BY <3>1, <3>2
  <2> QED BY <2>1, <2>2, <2>3, <2>4
<1> QED BY <1>9, <1>10 DEF OneEach

(* A task for each token, of all its rows. *)
LEMMA TokensOnce ==
  ASSUME NEW tokens \in Nat \ {0}, NEW outs \in Nat \ {0}
  PROVE  OneEach({<<t, 0, outs>> : t \in 0 .. tokens - 1}, tokens, outs)
<1>1. \A t : Lin!CellsOf(<<t, 0, outs>>) = {<<t, o>> : o \in 0 .. outs - 1}
  <2>1. 0 + outs - 1 = outs - 1 OBVIOUS
  <2> QED BY <2>1 DEF Lin!CellsOf
<1>2. 0 \in 0 .. outs - 1 OBVIOUS
<1>3. \A t \in 0 .. tokens - 1 : Lin!CellsOf(<<t, 0, outs>>) # {}
                               /\ Lin!CellsOf(<<t, 0, outs>>) \subseteq (0 .. tokens - 1) \X (0 .. outs - 1)
  <2> TAKE t \in 0 .. tokens - 1
  <2>1. <<t, 0>> \in Lin!CellsOf(<<t, 0, outs>>) BY <1>1, <1>2
  <2> QED BY <1>1, <2>1
<1>4. ASSUME NEW s \in 0 .. tokens - 1, NEW o \in 0 .. outs - 1
      PROVE  <<s, o>> \in Lin!CellsOf(<<s, 0, outs>>) /\ \A r : <<s, o>> \in Lin!CellsOf(<<r, 0, outs>>) => r = s
  BY <1>1
<1> DEFINE tasks == {<<t, 0, outs>> : t \in 0 .. tokens - 1}
<1>5. ASSUME NEW cell \in (0 .. tokens - 1) \X (0 .. outs - 1)
      PROVE  \E t \in tasks : cell \in Lin!CellsOf(t) /\ \A u \in tasks : cell \in Lin!CellsOf(u) => u = t
  <2>1. PICK s \in 0 .. tokens - 1, o \in 0 .. outs - 1 : cell = <<s, o>> OBVIOUS
  <2>2. <<s, 0, outs>> \in tasks OBVIOUS
  <2>3. \A u \in tasks : cell \in Lin!CellsOf(u) => u = <<s, 0, outs>> BY <1>4, <2>1
  <2> QED BY <1>4, <2>1, <2>2, <2>3
<1>6. \A t \in tasks : Lin!CellsOf(t) # {} /\ Lin!CellsOf(t) \subseteq (0 .. tokens - 1) \X (0 .. outs - 1)
  BY <1>3
<1> HIDE DEF tasks
<1>7. OneEach(tasks, tokens, outs) BY <1>5, <1>6 DEF OneEach
<1> QED BY <1>7 DEF tasks

(* The chunk a number of threads shares rows out in is a positive number.   *)
LEMMA ChunkSize ==
  ASSUME NEW x \in Int, NEW least \in Nat \ {0}
  PROVE  Lin!Max({x, least}) \in Nat \ {0} /\ Q1D!Max({x, least}) \in Nat \ {0}
<1>1. Lin!Max({x, least}) = (IF x <= least THEN least ELSE x) /\ Q1D!Max({x, least}) = IF x <= least THEN least ELSE x
  BY MinTwo
<1> QED BY <1>1

(* Whatever the threads and the sizes, the tasks of every forward write    *)
(* each element of the output once.                                        *)
THEOREM TasksOnce ==
  \A tokens, outs, threads \in Nat \ {0} :
    /\ OneEach(Lin!LinearTasks(tokens, outs, threads), tokens, outs)
    /\ OneEach(Lin!TernaryOpTasks(tokens, outs, threads), tokens, outs)
    /\ OneEach(Q1D!ForwardTasks(tokens, outs, threads), tokens, outs)
    /\ OneEach(Q1D!OpTasks(tokens, outs), tokens, outs)
<1> TAKE tokens, outs, threads \in Nat \ {0}
<1>0. \A S : Q1D!Min(S) = Lin!Min(S) BY DEF Q1D!Min, Lin!Min
<1>1. OneEach(Lin!LinearTasks(tokens, outs, threads), tokens, outs)
  <2> DEFINE chunk == Lin!RowChunk(outs, threads)
  <2>1. chunk \in Nat \ {0}
    <3>1. Lin!DivCeil(outs, threads) \in Int
      <4>1. outs + threads - 1 \in Nat OBVIOUS
      <4> QED BY <4>1, DivIs DEF Lin!DivCeil
    <3> QED BY <3>1, ChunkSize DEF Lin!RowChunk
  <2> HIDE DEF chunk
  <2>2. CASE tokens = 1
    <3>1. Lin!LinearTasks(tokens, outs, threads)
            = {<<0, c * chunk, Size(outs, chunk, c)>> : c \in 0 .. Chunks(outs, chunk) - 1}
      BY <2>2 DEF Lin!LinearTasks, Lin!DivCeil, Size, Chunks, chunk
    <3>2. 0 .. tokens - 1 = {0} BY <2>2
    <3>3. Grid(tokens, outs, chunk)
            = {<<0, c * chunk, Size(outs, chunk, c)>> : c \in 0 .. Chunks(outs, chunk) - 1} BY <3>2 DEF Grid
    <3>4. Lin!LinearTasks(tokens, outs, threads) = Grid(tokens, outs, chunk) BY <3>1, <3>3
    <3> QED BY <2>1, <3>4, GridOnce
  <2>3. CASE tokens # 1
    <3>1. Lin!LinearTasks(tokens, outs, threads) = {<<t, 0, outs>> : t \in 0 .. tokens - 1}
      BY <2>3 DEF Lin!LinearTasks
    <3> QED BY <3>1, TokensOnce
  <2> QED BY <2>2, <2>3
<1>2. OneEach(Lin!TernaryOpTasks(tokens, outs, threads), tokens, outs)
  <2> DEFINE chunk == Lin!OpChunk(outs, threads)
  <2>1. chunk \in Nat \ {0}
    <3>1. Lin!Max({threads, 1}) \in Nat \ {0} BY ChunkSize
    <3>2. outs \div Lin!Max({threads, 1}) \in Int BY <3>1, DivIs
    <3> QED BY <3>2, ChunkSize DEF Lin!OpChunk
  <2> HIDE DEF chunk
  <2>2. Lin!TernaryOpTasks(tokens, outs, threads) = Grid(tokens, outs, chunk)
    BY DEF Lin!TernaryOpTasks, Lin!DivCeil, Size, Chunks, chunk, Grid
  <2> QED BY <2>1, <2>2, GridOnce
<1>3. OneEach(Q1D!ForwardTasks(tokens, outs, threads), tokens, outs)
  <2> DEFINE chunk == Q1D!Max({(outs + threads - 1) \div threads, 128})
  <2>1. chunk \in Nat \ {0}
    <3>1. (outs + threads - 1) \div threads \in Int
      <4>1. outs + threads - 1 \in Nat OBVIOUS
      <4> QED BY <4>1, DivIs
    <3>2. 128 \in Nat \ {0} OBVIOUS
    <3> QED BY <3>1, <3>2, ChunkSize
  <2> HIDE DEF chunk
  <2>2. CASE tokens = 1
    <3>1. Q1D!ForwardTasks(tokens, outs, threads)
            = {<<0, c * chunk, Q1D!Min({chunk, outs - c * chunk})>> : c \in 0 .. Chunks(outs, chunk) - 1}
      BY <2>2 DEF Q1D!ForwardTasks, Chunks, chunk
    <3>2. 0 .. tokens - 1 = {0} BY <2>2
    <3>3. \A c : Q1D!Min({chunk, outs - c * chunk}) = Size(outs, chunk, c) BY <1>0 DEF Size
    <3>4. Grid(tokens, outs, chunk)
            = {<<0, c * chunk, Size(outs, chunk, c)>> : c \in 0 .. Chunks(outs, chunk) - 1} BY <3>2 DEF Grid
    <3>5. Q1D!ForwardTasks(tokens, outs, threads) = Grid(tokens, outs, chunk) BY <3>1, <3>3, <3>4
    <3> QED BY <2>1, <3>5, GridOnce
  <2>3. CASE tokens # 1
    <3>1. Q1D!ForwardTasks(tokens, outs, threads) = {<<t, 0, outs>> : t \in 0 .. tokens - 1}
      BY <2>3 DEF Q1D!ForwardTasks
    <3> QED BY <3>1, TokensOnce
  <2> QED BY <2>2, <2>3
<1>4. OneEach(Q1D!OpTasks(tokens, outs), tokens, outs)
  <2>1. outs + 64 - 1 = outs + 63 OBVIOUS
  <2>2. \A c \in Int : 64 * c = c * 64 /\ Q1D!Min({64, outs - 64 * c}) = Size(outs, 64, c)
    <3>1. \A c \in Int : 64 * c = c * 64 OBVIOUS
    <3> QED BY <1>0, <3>1 DEF Size
  <2> DEFINE n == Chunks(outs, 64)
  <2>3. n = (outs + 63) \div 64 BY <2>1 DEF Chunks
  <2>4. \A c \in 0 .. n - 1 : c \in Int OBVIOUS
  <2> HIDE DEF n
  <2>5. Q1D!OpTasks(tokens, outs) = {<<t, 64 * c, Q1D!Min({64, outs - 64 * c})>> : t \in 0 .. tokens - 1, c \in 0 .. n - 1}
    BY <2>3 DEF Q1D!OpTasks
  <2>6. Grid(tokens, outs, 64) = {<<t, c * 64, Size(outs, 64, c)>> : t \in 0 .. tokens - 1, c \in 0 .. n - 1}
    BY DEF Grid, n
  <2>7. Q1D!OpTasks(tokens, outs) = Grid(tokens, outs, 64)
    <3>1. \A t, c : c \in 0 .. n - 1 =>
            <<t, 64 * c, Q1D!Min({64, outs - 64 * c})>> = <<t, c * 64, Size(outs, 64, c)>> BY <2>2, <2>4
    <3> DEFINE I == 0 .. n - 1
               J == 0 .. tokens - 1
               One(t, c) == <<t, 64 * c, Q1D!Min({64, outs - 64 * c})>>
               Two(t, c) == <<t, c * 64, Size(outs, 64, c)>>
    <3>2. \A t, c : c \in I => One(t, c) = Two(t, c) BY <3>1
    <3>3. Q1D!OpTasks(tokens, outs) = {One(t, c) : t \in J, c \in I} BY <2>5
    <3>4. Grid(tokens, outs, 64) = {Two(t, c) : t \in J, c \in I} BY <2>6
    <3> HIDE DEF One, Two, I, J
    <3> QED BY <3>2, <3>3, <3>4
  <2>8. 64 \in Nat \ {0} OBVIOUS
  <2> QED BY <2>7, <2>8, GridOnce
<1> QED BY <1>1, <1>2, <1>3, <1>4

-----------------------------------------------------------------------------
(* The chunked dot products.                                               *)

(* A plan that takes each chunk once; what it adds up.                     *)
OncePlan(plan, chunks, h) ==
  /\ h \in [0 .. chunks - 1 -> plan]
  /\ \A c \in 0 .. chunks - 1 : h[c][2] = c
  /\ \A p \in plan : p[2] \in 0 .. chunks - 1 /\ h[p[2]] = p
Planned(plan, ch) == [p \in plan |-> ch[p[2]]]
(* A plan that takes each chunk once adds what the chunks add up to.       *)
LEMMA TotalPlan ==
  ASSUME NEW chunks \in Nat, NEW plan, NEW h, OncePlan(plan, chunks, h), NEW ch \in [0 .. chunks - 1 -> Int]
  PROVE  Q1D!Total(Planned(plan, ch)) = Q1D!Total(ch)
<1> DEFINE A == 0 .. chunks - 1
           f == Planned(plan, ch)
<1>1. IsFiniteSet(A) BY FS_Interval
<1>2. Renames(h, A, plan)
  <2>1. h \in [A -> plan] BY DEF OncePlan
  <2>2. \A x, y \in A : h[x] = h[y] => x = y BY DEF OncePlan
  <2>3. \A z \in plan : \E x \in A : h[x] = z BY DEF OncePlan
  <2> QED BY <2>1, <2>2, <2>3 DEF Renames
<1>3. IsFiniteSet(plan)
  <2>1. h \in Surjection(A, plan) BY <1>2 DEF Surjection, Renames
  <2> QED BY <1>1, <2>1, FS_Surjection
<1>4. f \in [plan -> Int] BY DEF OncePlan, Planned
<1>5. [x \in A |-> f[h[x]]] = ch
  <2>1. \A x \in A : f[h[x]] = ch[x] BY DEF OncePlan, Planned
  <2> QED BY <2>1
<1> HIDE DEF A, f
<1>6. Q1D!Total([x \in A |-> f[h[x]]]) = Q1D!Total(f) BY <1>1, <1>2, <1>3, <1>4, TotalMoved
<1> QED BY <1>5, <1>6 DEF f

(* Sums of two and of four. *)
LEMMA TwoAdd ==
  ASSUME NEW f \in [0 .. 1 -> Int]
  PROVE  Q1D!Total(f) = f[0] + f[1]
<1> DEFINE n == 2
<1>1. f \in [0 .. n - 1 -> Int] /\ n \in Nat OBVIOUS
<1> HIDE DEF n
<1>2. PICK c \in [0 .. n -> Int] : c[0] = 0 /\ (\A k \in 0 .. n - 1 : c[k + 1] = c[k] + f[k]) /\ Q1D!Total(f) = c[n]
  BY <1>1, TotalUp
<1>3. c[1] = c[0] + f[0] /\ c[2] = c[1] + f[1]
  <2>1. 0 \in 0 .. n - 1 /\ 1 \in 0 .. n - 1 BY DEF n
  <2>2. c[0 + 1] = c[0] + f[0] /\ c[1 + 1] = c[1] + f[1] BY <1>2, <2>1
  <2> QED BY <2>2
<1>4. f[0] \in Int /\ f[1] \in Int OBVIOUS
<1> QED BY <1>2, <1>3, <1>4 DEF n

(* A function on four times as many elements, added in fours.               *)
LEMMA FourAdd ==
  ASSUME NEW f \in [0 .. 3 -> Int]
  PROVE  Q1D!Total(f) = f[0] + f[1] + f[2] + f[3]
<1> DEFINE n == 4
<1>1. f \in [0 .. n - 1 -> Int] /\ n \in Nat OBVIOUS
<1> HIDE DEF n
<1>2. PICK c \in [0 .. n -> Int] : c[0] = 0 /\ (\A k \in 0 .. n - 1 : c[k + 1] = c[k] + f[k]) /\ Q1D!Total(f) = c[n]
  BY <1>1, TotalUp
<1>3. c[1] = c[0] + f[0] /\ c[2] = c[1] + f[1] /\ c[3] = c[2] + f[2] /\ c[4] = c[3] + f[3]
  <2>1. 0 \in 0 .. n - 1 /\ 1 \in 0 .. n - 1 /\ 2 \in 0 .. n - 1 /\ 3 \in 0 .. n - 1 BY DEF n
  <2>2. c[0 + 1] = c[0] + f[0] /\ c[1 + 1] = c[1] + f[1] /\ c[2 + 1] = c[2] + f[2] /\ c[3 + 1] = c[3] + f[3]
    BY <1>2, <2>1
  <2> QED BY <2>2
<1>4. f[0] \in Int /\ f[1] \in Int /\ f[2] \in Int /\ f[3] \in Int OBVIOUS
<1> QED BY <1>2, <1>3, <1>4 DEF n

(* Sums in twos and in fours. *)
LEMMA TotalTwos ==
  ASSUME NEW m \in Nat, NEW f, \A i \in 0 .. 2 * m - 1 : f[i] \in Int
  PROVE  Q1D!Total([i \in 0 .. m - 1 |-> f[2 * i] + f[2 * i + 1]]) = Q1D!Total(Part(f, 0, 2 * m))
<1> DEFINE ch == [i \in 0 .. m - 1 |-> f[2 * i] + f[2 * i + 1]]
<1>1. \A c \in 0 .. m - 1 : f[2 * c] \in Int /\ f[2 * c + 1] \in Int
  <2> TAKE c \in 0 .. m - 1
  <2>1. 2 * c \in 0 .. 2 * m - 1 /\ 2 * c + 1 \in 0 .. 2 * m - 1 OBVIOUS
  <2> QED BY <2>1
<1>2. ch \in [0 .. m - 1 -> Int] BY <1>1
<1>3. ASSUME NEW c \in 0 .. m - 1 PROVE ch[c] = Q1D!Total(Stretch(f, 2 * c, 2))
  <2>1. Stretch(f, 2 * c, 2) = [i \in 0 .. 1 |-> f[2 * c + i]]
    <3>1. 2 - 1 = 1 OBVIOUS
    <3> QED BY <3>1 DEF Stretch
  <2> DEFINE s == [i \in 0 .. 1 |-> f[2 * c + i]]
  <2>2. s[0] = f[2 * c] /\ s[1] = f[2 * c + 1]
    <3>1. 2 * c + 0 = 2 * c OBVIOUS
    <3> QED BY <3>1
  <2>3. s \in [0 .. 1 -> Int]
    <3>1. \A i \in 0 .. 1 : i = 0 \/ i = 1 OBVIOUS
    <3>2. \A i \in 0 .. 1 : s[i] \in Int BY <1>1, <2>2, <3>1
    <3> QED BY <3>2
  <2> HIDE DEF s
  <2>4. Q1D!Total(s) = s[0] + s[1] BY <2>3, TwoAdd
  <2> QED BY <2>1, <2>2, <2>4 DEF s
<1>4. Chunked(ch, f, 2, m) BY <1>3 DEF Chunked
<1> DEFINE all == 2 * m
<1>5. all \in Nat /\ all = 2 * m /\ 2 \in Nat /\ Ints(f, 0, all) BY DEF Ints
<1> HIDE DEF ch, all
<1>6. Q1D!Total(Part(f, 0, all)) = Q1D!Total(ch) BY <1>4, <1>5, TotalChunks
<1> QED BY <1>6 DEF ch, all

(* ... in fours.                                                            *)
LEMMA TotalFours ==
  ASSUME NEW m \in Nat, NEW f, \A i \in 0 .. 4 * m - 1 : f[i] \in Int
  PROVE  Q1D!Total([i \in 0 .. m - 1 |-> f[4 * i] + f[4 * i + 1] + f[4 * i + 2] + f[4 * i + 3]])
           = Q1D!Total(Part(f, 0, 4 * m))
<1> DEFINE ch == [i \in 0 .. m - 1 |-> f[4 * i] + f[4 * i + 1] + f[4 * i + 2] + f[4 * i + 3]]
<1>1. \A c \in 0 .. m - 1 : f[4 * c] \in Int /\ f[4 * c + 1] \in Int /\ f[4 * c + 2] \in Int /\ f[4 * c + 3] \in Int
  <2> TAKE c \in 0 .. m - 1
  <2>1. 4 * c \in 0 .. 4 * m - 1 /\ 4 * c + 1 \in 0 .. 4 * m - 1 /\ 4 * c + 2 \in 0 .. 4 * m - 1
        /\ 4 * c + 3 \in 0 .. 4 * m - 1 OBVIOUS
  <2> QED BY <2>1
<1>2. ch \in [0 .. m - 1 -> Int] BY <1>1
<1>3. ASSUME NEW c \in 0 .. m - 1 PROVE ch[c] = Q1D!Total(Stretch(f, 4 * c, 4))
  <2>1. Stretch(f, 4 * c, 4) = [i \in 0 .. 3 |-> f[4 * c + i]]
    <3>1. 4 - 1 = 3 OBVIOUS
    <3> QED BY <3>1 DEF Stretch
  <2> DEFINE s == [i \in 0 .. 3 |-> f[4 * c + i]]
  <2>2. s[0] = f[4 * c] /\ s[1] = f[4 * c + 1] /\ s[2] = f[4 * c + 2] /\ s[3] = f[4 * c + 3]
    <3>1. 4 * c + 0 = 4 * c OBVIOUS
    <3> QED BY <3>1
  <2>3. s \in [0 .. 3 -> Int]
    <3>1. \A i \in 0 .. 3 : i = 0 \/ i = 1 \/ i = 2 \/ i = 3 OBVIOUS
    <3>2. \A i \in 0 .. 3 : s[i] \in Int BY <1>1, <2>2, <3>1
    <3> QED BY <3>2
  <2> HIDE DEF s
  <2>4. Q1D!Total(s) = s[0] + s[1] + s[2] + s[3] BY <2>3, FourAdd
  <2> QED BY <2>1, <2>2, <2>4 DEF s
<1>4. Chunked(ch, f, 4, m) BY <1>3 DEF Chunked
<1> DEFINE all == 4 * m
<1>5. all \in Nat /\ all = 4 * m /\ 4 \in Nat /\ Ints(f, 0, all) BY DEF Ints
<1> HIDE DEF ch, all
<1>6. Q1D!Total(Part(f, 0, all)) = Q1D!Total(ch) BY <1>4, <1>5, TotalChunks
<1> QED BY <1>6 DEF ch, all

(* Whole chunks and a tail. *)
LEMMA ChunksAndTail ==
  ASSUME NEW w \in Nat, NEW m \in Nat, NEW n \in Nat, NEW all \in Nat, all = w * m, all <= n,
         NEW f, Ints(f, 0, n), NEW ch, Chunked(ch, f, w, m)
  PROVE  /\ Q1D!Total(Part(f, 0, n)) = Q1D!Total(ch) + Q1D!Total(Part(f, all, n))
         /\ ch \in [0 .. m - 1 -> Int] /\ Q1D!Total(ch) = Q1D!Total(Part(f, 0, all))
         /\ Q1D!Total(ch) \in Int /\ Q1D!Total(Part(f, all, n)) \in Int
<1>1. Ints(f, 0, all)
  <2>1. \A i \in 0 .. all - 1 : i \in 0 .. n - 1 OBVIOUS
  <2> QED BY <2>1 DEF Ints
<1>2. Q1D!Total(Part(f, 0, all)) = Q1D!Total(ch) /\ ch \in [0 .. m - 1 -> Int] BY <1>1, TotalChunks
<1>3. 0 <= all /\ 0 \in Int /\ all \in Int /\ n \in Int OBVIOUS
<1>4. \A i \in 0 .. n - 1 : f[i] \in Int BY DEF Ints
<1>5. /\ Q1D!Total(Part(f, 0, n)) = Q1D!Total(Part(f, 0, all)) + Q1D!Total(Part(f, all, n))
      /\ Q1D!Total(Part(f, 0, all)) \in Int /\ Q1D!Total(Part(f, all, n)) \in Int
  BY <1>3, <1>4, TotalCutAt
<1> QED BY <1>2, <1>5

Int8 == -128 .. 127
(* The products of the elements, from 0.                                   *)
Products(a, b) == [e \in 0 .. Len(a) - 1 |-> a[e + 1] * b[e + 1]]
Alike(a, b) == a \in Seq(Int8) /\ b \in Seq(Int8) /\ Len(a) = Len(b)

(* Bytes are integers.                                                      *)
LEMMA Int8Int == \A x \in Int8 : x \in Int
BY DEF Int8

(* The products of two rows of bytes are integers.                          *)
LEMMA ProductsInt ==
  ASSUME NEW a, NEW b, Alike(a, b)
  PROVE  /\ Len(a) \in Nat /\ Ints(Products(a, b), 0, Len(a))
         /\ \A e \in 0 .. Len(a) - 1 : /\ a[e + 1] \in Int8 /\ b[e + 1] \in Int8
                                       /\ Products(a, b)[e] = a[e + 1] * b[e + 1] /\ Products(a, b)[e] \in Int
<1>1. Len(a) \in Nat /\ Len(b) = Len(a) BY DEF Alike
<1>2. ASSUME NEW e \in 0 .. Len(a) - 1 PROVE a[e + 1] \in Int8 /\ b[e + 1] \in Int8
  <2>1. e + 1 \in 1 .. Len(a) /\ e + 1 \in 1 .. Len(b) BY <1>1
  <2> QED BY <2>1 DEF Alike
<1>3. \A x, y \in Int8 : x * y \in Int
  <2>1. \A x, y \in Int : x * y \in Int OBVIOUS
  <2>2. Int8 \subseteq Int BY DEF Int8
  <2> QED BY <2>1, <2>2
<1>4. \A e \in 0 .. Len(a) - 1 : Products(a, b)[e] = a[e + 1] * b[e + 1] BY DEF Products
<1>5. \A e \in 0 .. Len(a) - 1 : Products(a, b)[e] \in Int BY <1>2, <1>3, <1>4
<1> QED BY <1>1, <1>2, <1>4, <1>5 DEF Ints

(* The scalar loop adds the products of a part of the row.                  *)
LEMMA ProductIs ==
  ASSUME NEW a, NEW b, Alike(a, b), NEW from \in Nat, NEW to \in Int, to <= Len(a)
  PROVE  Lin!Product(a, b, from, to) = Q1D!Total(Part(Products(a, b), from, to))
<1>0. Len(a) \in Nat BY ProductsInt
<1>1. \A e \in from .. to - 1 : e \in 0 .. Len(a) - 1 BY <1>0
<1>2. \A e \in from .. to - 1 : Products(a, b)[e] = a[e + 1] * b[e + 1] BY <1>1, ProductsInt
<1>3. [e \in from .. to - 1 |-> a[e + 1] * b[e + 1]] = Part(Products(a, b), from, to) BY <1>2 DEF Part
<1> QED BY <1>3, LinTotal DEF Lin!Product

(* vpmaddwd adds the products of a chunk. *)
LEMMA MaddIs ==
  ASSUME NEW a, NEW b, Alike(a, b), NEW m \in Nat, NEW width \in Nat, width = 2 * m,
         NEW from \in Nat, from + width <= Len(a)
  PROVE  Lin!MaddChunk(a, b, from, width) = Q1D!Total(Stretch(Products(a, b), from, width))
<1> DEFINE P == Products(a, b)
           f == Stretch(P, from, width)
<1>0. width \div 2 = m OBVIOUS
<1>1. \A i \in 0 .. width - 1 : f[i] = a[from + i + 1] * b[from + i + 1] /\ f[i] \in Int
  <2> TAKE i \in 0 .. width - 1
  <2>1. from + i \in 0 .. Len(a) - 1 BY ProductsInt
  <2>2. P[from + i] = a[from + i + 1] * b[from + i + 1] /\ P[from + i] \in Int BY <2>1, ProductsInt
  <2>3. f[i] = P[from + i] BY DEF Stretch
  <2> QED BY <2>2, <2>3
<1>2. \A i \in 0 .. m - 1 :
        a[from + 2 * i + 1] * b[from + 2 * i + 1] + a[from + 2 * i + 2] * b[from + 2 * i + 2] = f[2 * i] + f[2 * i + 1]
  <2> TAKE i \in 0 .. m - 1
  <2>1. 2 * i \in 0 .. width - 1 /\ 2 * i + 1 \in 0 .. width - 1 OBVIOUS
  <2>2. from + (2 * i + 1) + 1 = from + 2 * i + 2 OBVIOUS
  <2>3. f[2 * i] = a[from + 2 * i + 1] * b[from + 2 * i + 1] BY <1>1, <2>1
  <2>4. f[2 * i + 1] = a[from + (2 * i + 1) + 1] * b[from + (2 * i + 1) + 1] BY <1>1, <2>1
  <2> QED BY <2>2, <2>3, <2>4
<1>3. Lin!MaddChunk(a, b, from, width) = Q1D!Total([i \in 0 .. m - 1 |-> f[2 * i] + f[2 * i + 1]])
  <2>1. [i \in 0 .. m - 1 |-> a[from + 2 * i + 1] * b[from + 2 * i + 1] + a[from + 2 * i + 2] * b[from + 2 * i + 2]]
          = [i \in 0 .. m - 1 |-> f[2 * i] + f[2 * i + 1]] BY <1>2
  <2> HIDE DEF f
  <2> QED BY <1>0, <2>1, LinTotal DEF Lin!MaddChunk
<1>4. \A i \in 0 .. 2 * m - 1 : f[i] \in Int BY <1>1
<1>5. Part(f, 0, 2 * m) = f BY DEF Part, Stretch
<1> HIDE DEF f
<1>6. Q1D!Total([i \in 0 .. m - 1 |-> f[2 * i] + f[2 * i + 1]]) = Q1D!Total(Part(f, 0, 2 * m)) BY <1>4, TotalTwos
<1> QED BY <1>3, <1>5, <1>6 DEF f

(* The AVX2 int8 kernel is the scalar loop.                                 *)
LEMMA I8Avx2 ==
  ASSUME NEW a, NEW b, Alike(a, b)
  PROVE  Lin!DotI8Avx2(a, b) = Lin!Product(a, b, 0, Len(a))
<1> DEFINE P == Products(a, b)
           n == Len(a)
           m == n \div 32
           all == 32 * m
           ch == [c \in 0 .. m - 1 |-> Lin!MaddChunk(a, b, 32 * c, 32)]
<1>1. n \in Nat /\ Ints(P, 0, n) BY ProductsInt
<1> HIDE DEF n
<1>2. m \in Nat /\ all \in Nat /\ all <= n BY <1>1
<1> HIDE DEF m
<1>3. ASSUME NEW c \in 0 .. m - 1 PROVE Lin!MaddChunk(a, b, 32 * c, 32) = Q1D!Total(Stretch(P, 32 * c, 32))
  <2> DEFINE from == 32 * c
             width == 32
             h == 16
  <2>1. from \in Nat /\ from + 32 <= n BY <1>1, <1>2
  <2>2. h \in Nat /\ width \in Nat /\ width = 2 * h /\ from + width <= Len(a) BY <2>1 DEF n
  <2> HIDE DEF from, width, h
  <2>3. Lin!MaddChunk(a, b, from, width) = Q1D!Total(Stretch(P, from, width)) BY <2>1, <2>2, MaddIs
  <2> QED BY <2>3 DEF from, width
<1>4. Chunked(ch, P, 32, m) BY <1>3 DEF Chunked
<1> HIDE DEF ch, P
<1>5. Q1D!Total(Part(P, 0, n)) = Q1D!Total(ch) + Q1D!Total(Part(P, all, n))
  <2>1. all = 32 * m /\ 32 \in Nat OBVIOUS
  <2> HIDE DEF all
  <2> QED BY <1>1, <1>2, <1>4, <2>1, ChunksAndTail
<1>6. Lin!Product(a, b, all, n) = Q1D!Total(Part(P, all, n)) /\ Lin!Product(a, b, 0, n) = Q1D!Total(Part(P, 0, n))
  <2>1. 0 \in Nat /\ n \in Int /\ n <= Len(a) BY <1>1 DEF n
  <2> HIDE DEF all
  <2> QED BY <1>2, <2>1, ProductIs DEF P
<1>7. Lin!DotI8Avx2(a, b) = Lin!Total(ch) + Lin!Product(a, b, all, n)
  <2>1. 64 \div 2 = 32 OBVIOUS
  <2> QED BY <2>1 DEF Lin!DotI8Avx2, n, m, ch
<1> QED BY <1>5, <1>6, <1>7, LinTotal DEF n

(* So is the AVX-512 one, with its half chunk.                              *)
LEMMA I8Avx512 ==
  ASSUME NEW a, NEW b, Alike(a, b)
  PROVE  Lin!DotI8Avx512(a, b) = Lin!Product(a, b, 0, Len(a))
<1> DEFINE P == Products(a, b)
           n == Len(a)
           m == n \div 64
           all == 64 * m
           half == all + 32 <= n
           rest == all + (IF half THEN 32 ELSE 0)
           ch == [c \in 0 .. m - 1 |-> Lin!MaddChunk(a, b, 64 * c, 64)]
<1>1. n \in Nat /\ Ints(P, 0, n) BY ProductsInt
<1> HIDE DEF n
<1>2. m \in Nat /\ all \in Nat /\ all <= n /\ rest \in Nat /\ rest <= n BY <1>1
<1> HIDE DEF m
<1>3. ASSUME NEW c \in 0 .. m - 1 PROVE Lin!MaddChunk(a, b, 64 * c, 64) = Q1D!Total(Stretch(P, 64 * c, 64))
  <2> DEFINE from == 64 * c
             width == 64
             h == 32
  <2>1. from \in Nat /\ from + 64 <= n BY <1>1, <1>2
  <2>2. h \in Nat /\ width \in Nat /\ width = 2 * h /\ from + width <= Len(a) BY <2>1 DEF n
  <2> HIDE DEF from, width, h
  <2>3. Lin!MaddChunk(a, b, from, width) = Q1D!Total(Stretch(P, from, width)) BY <2>1, <2>2, MaddIs
  <2> QED BY <2>3 DEF from, width
<1>4. Chunked(ch, P, 64, m) BY <1>3 DEF Chunked
<1>5. half => Lin!MaddChunk(a, b, all, 32) = Q1D!Total(Part(P, all, rest))
  <2> SUFFICES ASSUME half PROVE Lin!MaddChunk(a, b, all, 32) = Q1D!Total(Part(P, all, rest)) OBVIOUS
  <2> DEFINE width == 32
             h == 16
  <2>1. h \in Nat /\ width \in Nat /\ width = 2 * h /\ all + width <= Len(a) BY DEF n
  <2>2. rest = all + width OBVIOUS
  <2>3. \A i \in all .. all + width - 1 : P[i] \in Int
    <3>1. \A i \in all .. all + width - 1 : i \in 0 .. n - 1 BY <1>1, <1>2
    <3> QED BY <1>1, <3>1 DEF Ints
  <2> HIDE DEF all, width, h, P, rest
  <2>4. Lin!MaddChunk(a, b, all, width) = Q1D!Total(Stretch(P, all, width)) BY <1>2, <2>1, MaddIs DEF P
  <2>5. Q1D!Total(Stretch(P, all, width)) = Q1D!Total(Part(P, all, all + width)) BY <1>2, <2>1, <2>3, TotalShift
  <2> QED BY <2>2, <2>4, <2>5 DEF width
<1> HIDE DEF ch, P
<1>6. Q1D!Total(Part(P, 0, n)) = Q1D!Total(ch) + Q1D!Total(Part(P, all, n)) /\ Q1D!Total(ch) \in Int
      /\ Q1D!Total(Part(P, all, n)) \in Int
  <2>1. all = 64 * m /\ 64 \in Nat OBVIOUS
  <2> HIDE DEF all
  <2> QED BY <1>1, <1>2, <1>4, <2>1, ChunksAndTail
<1>7. Q1D!Total(Part(P, all, n)) = (IF half THEN Lin!MaddChunk(a, b, all, 32) ELSE 0) + Q1D!Total(Part(P, rest, n))
  <2>1. CASE half
    <3>1. all <= rest /\ rest <= n /\ all \in Int /\ rest \in Int /\ n \in Int BY <1>1, <1>2, <2>1
    <3>2. \A i \in all .. n - 1 : P[i] \in Int
      <4>1. \A i \in all .. n - 1 : i \in 0 .. n - 1 BY <1>1, <1>2
      <4> QED BY <1>1, <4>1 DEF Ints
    <3> HIDE DEF all, rest, half
    <3>3. Q1D!Total(Part(P, all, n)) = Q1D!Total(Part(P, all, rest)) + Q1D!Total(Part(P, rest, n))
      BY <3>1, <3>2, TotalCutAt
    <3> QED BY <1>5, <2>1, <3>3
  <2>2. CASE ~half
    <3>1. rest = all BY <1>2, <2>2
    <3> HIDE DEF rest, all, half
    <3> QED BY <1>6, <2>2, <3>1
  <2> QED BY <2>1, <2>2
<1>8. Lin!Product(a, b, rest, n) = Q1D!Total(Part(P, rest, n)) /\ Lin!Product(a, b, 0, n) = Q1D!Total(Part(P, 0, n))
  <2>1. 0 \in Nat /\ n \in Int /\ n <= Len(a) BY <1>1 DEF n
  <2> HIDE DEF rest
  <2> QED BY <1>2, <2>1, ProductIs DEF P
<1>9. Lin!DotI8Avx512(a, b) = Lin!Total(ch) + (IF half THEN Lin!MaddChunk(a, b, all, 32) ELSE 0)
                                + Lin!Product(a, b, rest, n)
  <2>1. 64 \div 2 = 32 OBVIOUS
  <2> QED BY <2>1 DEF Lin!DotI8Avx512, n, m, ch
<1>10. (IF half THEN Lin!MaddChunk(a, b, all, 32) ELSE 0) \in Int /\ Q1D!Total(Part(P, rest, n)) \in Int
  <2>1. \A i \in all .. rest - 1 : P[i] \in Int
    <3>1. \A i \in all .. rest - 1 : i \in 0 .. n - 1 BY <1>1, <1>2
    <3> QED BY <1>1, <3>1 DEF Ints
  <2>2. \A i \in rest .. n - 1 : P[i] \in Int
    <3>1. \A i \in rest .. n - 1 : i \in 0 .. n - 1 BY <1>1, <1>2
    <3> QED BY <1>1, <3>1 DEF Ints
  <2> HIDE DEF rest, all
  <2>3. Part(P, all, rest) \in [all .. rest - 1 -> Int] /\ Part(P, rest, n) \in [rest .. n - 1 -> Int] BY <2>1, <2>2 DEF Part
  <2>4. IsFiniteSet(all .. rest - 1) /\ IsFiniteSet(rest .. n - 1) BY <1>1, <1>2, FS_Interval
  <2>5. Q1D!Total(Part(P, all, rest)) \in Int /\ Q1D!Total(Part(P, rest, n)) \in Int BY <2>3, <2>4, TotalInt
  <2> HIDE DEF half
  <2> QED BY <1>5, <2>5
<1>11. Lin!Total(ch) = Q1D!Total(ch) BY LinTotal
<1> HIDE DEF rest, all, half
<1>12. Lin!DotI8Avx512(a, b) = Lin!Product(a, b, 0, n) BY <1>6, <1>7, <1>8, <1>9, <1>10, <1>11
<1> QED BY <1>12 DEF n

(* The unrolled loops take each chunk once. *)
LEMMA UnrolledOnce ==
  ASSUME NEW chunks \in Nat, NEW u \in Nat \ {0}
  PROVE  \E h : OncePlan(Lin!Unrolled(chunks, u), chunks, h)
<1> DEFINE k == u * (chunks \div u)
           plan == {<<c % u, c>> : c \in 0 .. k - 1} \cup {<<0, c>> : c \in k .. chunks - 1}
           h == [c \in 0 .. chunks - 1 |-> IF c < k THEN <<c % u, c>> ELSE <<0, c>>]
<1>1. k \in Nat /\ k <= chunks
  <2>1. chunks \div u \in Nat /\ k <= chunks BY DivIs
  <2>2. \A x \in Nat : u * x \in Nat OBVIOUS
  <2> HIDE DEF k
  <2>3. k \in Nat BY <2>1, <2>2 DEF k
  <2> QED BY <2>1, <2>3
<1>2. Lin!Unrolled(chunks, u) = plan BY DEF Lin!Unrolled
<1> HIDE DEF k
<1>3. \A c \in 0 .. chunks - 1 : c < k => c \in 0 .. k - 1 BY <1>1
<1>4. \A c \in 0 .. chunks - 1 : ~(c < k) => c \in k .. chunks - 1 BY <1>1
<1>5. h \in [0 .. chunks - 1 -> plan] BY <1>3, <1>4
<1>6. \A c \in 0 .. chunks - 1 : h[c][2] = c OBVIOUS
<1>7. ASSUME NEW p \in plan PROVE p[2] \in 0 .. chunks - 1 /\ h[p[2]] = p
  <2>1. CASE p \in {<<c % u, c>> : c \in 0 .. k - 1}
    <3>1. PICK c \in 0 .. k - 1 : p = <<c % u, c>> BY <2>1
    <3>2. c \in 0 .. chunks - 1 /\ c < k BY <1>1
    <3> QED BY <3>1, <3>2
  <2>2. CASE p \in {<<0, c>> : c \in k .. chunks - 1}
    <3>1. PICK c \in k .. chunks - 1 : p = <<0, c>> BY <2>2
    <3>2. c \in 0 .. chunks - 1 /\ ~(c < k) BY <1>1
    <3> QED BY <3>1, <3>2
  <2> QED BY <2>1, <2>2
<1> HIDE DEF plan, h
<1>8. OncePlan(plan, chunks, h) BY <1>5, <1>6, <1>7 DEF OncePlan
<1> QED BY <1>2, <1>8

(* So do the steps of eight, four, two and one. *)
LEMMA VnniPlanOnce ==
  ASSUME NEW chunks \in Nat
  PROVE  \E h : OncePlan(Lin!VnniPlan(chunks), chunks, h)
<1> DEFINE eights == 8 * (chunks \div 8)
           four == eights + (IF eights + 4 <= chunks THEN 4 ELSE 0)
           two == four + (IF four + 2 <= chunks THEN 2 ELSE 0)
           A == {<<c % 8, c>> : c \in 0 .. eights - 1}
           B == {<<c - eights, c>> : c \in eights .. four - 1}
           C == {<<4 + c - four, c>> : c \in four .. two - 1}
           D == {<<6, c>> : c \in IF two < chunks THEN {two} ELSE {}}
           plan == A \cup B \cup C \cup D
           at(c) == IF c < eights THEN <<c % 8, c>> ELSE IF c < four THEN <<c - eights, c>>
                    ELSE IF c < two THEN <<4 + c - four, c>> ELSE <<6, c>>
           h == [c \in 0 .. chunks - 1 |-> at(c)]
<1>1. /\ eights \in Nat /\ four \in Nat /\ two \in Nat
      /\ eights <= four /\ four <= two /\ two <= chunks /\ chunks <= two + 1
  OBVIOUS
<1>2. Lin!VnniPlan(chunks) = plan BY DEF Lin!VnniPlan
<1> HIDE DEF eights, four, two
<1>3. ASSUME NEW c \in 0 .. chunks - 1 PROVE at(c) \in plan /\ at(c)[2] = c
  <2>1. CASE c < eights
    <3>1. c \in 0 .. eights - 1 BY <1>1, <2>1
    <3> QED BY <2>1, <3>1
  <2>2. CASE ~(c < eights) /\ c < four
    <3>1. c \in eights .. four - 1 BY <1>1, <2>2
    <3> QED BY <2>2, <3>1
  <2>3. CASE ~(c < eights) /\ ~(c < four) /\ c < two
    <3>1. c \in four .. two - 1 BY <1>1, <2>3
    <3> QED BY <2>3, <3>1
  <2>4. CASE ~(c < eights) /\ ~(c < four) /\ ~(c < two)
    <3>1. c = two /\ two < chunks BY <1>1, <2>4
    <3> QED BY <2>4, <3>1
  <2> QED BY <2>1, <2>2, <2>3, <2>4
<1>4. ASSUME NEW p \in plan PROVE p[2] \in 0 .. chunks - 1 /\ at(p[2]) = p
  <2>1. CASE p \in A
    <3>1. PICK c \in 0 .. eights - 1 : p = <<c % 8, c>> BY <2>1
    <3>2. c \in 0 .. chunks - 1 /\ c < eights BY <1>1
    <3> QED BY <3>1, <3>2
  <2>2. CASE p \in B
    <3>1. PICK c \in eights .. four - 1 : p = <<c - eights, c>> BY <2>2
    <3>2. c \in 0 .. chunks - 1 /\ ~(c < eights) /\ c < four BY <1>1
    <3> QED BY <3>1, <3>2
  <2>3. CASE p \in C
    <3>1. PICK c \in four .. two - 1 : p = <<4 + c - four, c>> BY <2>3
    <3>2. c \in 0 .. chunks - 1 /\ ~(c < eights) /\ ~(c < four) /\ c < two BY <1>1
    <3> QED BY <3>1, <3>2
  <2>4. CASE p \in D
    <3>1. two < chunks /\ p = <<6, two>> BY <2>4
    <3>2. two \in 0 .. chunks - 1 /\ ~(two < eights) /\ ~(two < four) /\ ~(two < two) BY <1>1, <3>1
    <3> QED BY <3>1, <3>2
  <2> QED BY <2>1, <2>2, <2>3, <2>4
<1> HIDE DEF plan, at
<1>5. OncePlan(plan, chunks, h) BY <1>3, <1>4 DEF OncePlan
<1> QED BY <1>2, <1>5

(* vpdpbusd on sixteen lanes adds the 64 products. *)
LEMMA DpIs ==
  ASSUME NEW u, NEW s, NEW f, \A i \in 0 .. 63 : f[i] = u[i] * s[i] /\ f[i] \in Int
  PROVE  Lin!Dp(u, s, 16) = Q1D!Total(Part(f, 0, 64))
<1> DEFINE m == 16
           ch == [i \in 0 .. m - 1 |-> f[4 * i] + f[4 * i + 1] + f[4 * i + 2] + f[4 * i + 3]]
           acc == [l \in 0 .. 15 |-> 0]
<1>1. \A i \in 0 .. 15 : 0 + u[4 * i] * s[4 * i] + u[4 * i + 1] * s[4 * i + 1] + u[4 * i + 2] * s[4 * i + 2]
                           + u[4 * i + 3] * s[4 * i + 3] = f[4 * i] + f[4 * i + 1] + f[4 * i + 2] + f[4 * i + 3]
  <2> TAKE i \in 0 .. 15
  <2>1. 4 * i \in 0 .. 63 /\ 4 * i + 1 \in 0 .. 63 /\ 4 * i + 2 \in 0 .. 63 /\ 4 * i + 3 \in 0 .. 63 OBVIOUS
  <2>2. /\ f[4 * i] = u[4 * i] * s[4 * i] /\ f[4 * i] \in Int
        /\ f[4 * i + 1] = u[4 * i + 1] * s[4 * i + 1] /\ f[4 * i + 1] \in Int
        /\ f[4 * i + 2] = u[4 * i + 2] * s[4 * i + 2] /\ f[4 * i + 2] \in Int
        /\ f[4 * i + 3] = u[4 * i + 3] * s[4 * i + 3] /\ f[4 * i + 3] \in Int
    BY <2>1
  <2>3. 0 + f[4 * i] + f[4 * i + 1] + f[4 * i + 2] + f[4 * i + 3] = f[4 * i] + f[4 * i + 1] + f[4 * i + 2] + f[4 * i + 3]
    BY <2>2
  <2> QED BY <2>2, <2>3
<1>2. Lin!DpBusd(acc, u, s) = [i \in 0 .. 15 |-> f[4 * i] + f[4 * i + 1] + f[4 * i + 2] + f[4 * i + 3]]
  <2>1. DOMAIN acc = 0 .. 15 /\ \A i \in 0 .. 15 : acc[i] = 0 OBVIOUS
  <2> HIDE DEF acc
  <2> QED BY <1>1, <2>1 DEF Lin!DpBusd
<1>3. Lin!DpBusd(acc, u, s) = ch
  <2>1. m - 1 = 15 OBVIOUS
  <2> QED BY <1>2, <2>1
<1>4. Lin!Dp(u, s, 16) = Lin!Total(Lin!DpBusd(acc, u, s))
  <2>1. 16 - 1 = 15 OBVIOUS
  <2> QED BY <2>1 DEF Lin!Dp
<1>5. m \in Nat /\ \A i \in 0 .. 4 * m - 1 : f[i] \in Int OBVIOUS
<1>6. 4 * m = 64 OBVIOUS
<1> HIDE DEF m
<1>7. Q1D!Total(ch) = Q1D!Total(Part(f, 0, 4 * m)) BY <1>5, TotalFours
<1> QED BY <1>3, <1>4, <1>6, <1>7, LinTotal

(* A part of the sum of two, one of them 128 times. *)
LEMMA ZeroPointSum ==
  ASSUME NEW n \in Nat, NEW P, Ints(P, 0, n), NEW B, Ints(B, 0, n), NEW f,
         \A e \in 0 .. n - 1 : f[e] = P[e] + 128 * B[e]
  PROVE  Q1D!Total(Part(f, 0, n)) = Q1D!Total(Part(P, 0, n)) + 128 * Q1D!Total(Part(B, 0, n))
<1> DEFINE S == 0 .. n - 1
           p == Part(P, 0, n)
           q == Part(B, 0, n)
           r == [e \in S |-> 128 * q[e]]
<1>1. IsFiniteSet(S) BY FS_Interval
<1>2. p \in [S -> Int] /\ q \in [S -> Int] BY DEF Part, Ints
<1>3. r \in [S -> Int] BY <1>2
<1>4. Part(f, 0, n) = [e \in S |-> p[e] + r[e]]
  <2>1. \A e \in S : f[e] = p[e] + r[e] BY DEF Part
  <2> QED BY <2>1 DEF Part
<1> HIDE DEF S, p, q, r
<1>5. Q1D!Total([e \in S |-> p[e] + r[e]]) = Q1D!Total(p) + Q1D!Total(r) BY <1>1, <1>2, <1>3, TotalSum
<1>6. Q1D!Total(r) = 128 * Q1D!Total(q)
  <2>1. 128 \in Int OBVIOUS
  <2>2. Q1D!Total([e \in S |-> 128 * q[e]]) = 128 * Q1D!Total(q) BY <1>1, <1>2, <2>1, TotalTimes
  <2> QED BY <2>2 DEF r
<1> QED BY <1>4, <1>5, <1>6 DEF p, q

(* The weights of a row, from 0; what they add up to. *)
LEMMA RowSumIs ==
  ASSUME NEW b \in Seq(Int8)
  PROVE  Lin!RowSum(b) = Q1D!Total(Part([e \in 0 .. Len(b) - 1 |-> b[e + 1]], 0, Len(b)))
<1> DEFINE n == Len(b)
           A == 0 .. n - 1
           h == [e \in A |-> e + 1]
<1>1. n \in Nat /\ DOMAIN b = 1 .. n /\ b \in [1 .. n -> Int]
  <2>1. b \in [1 .. n -> Int8] /\ n \in Nat OBVIOUS
  <2>2. \A i \in 1 .. n : b[i] \in Int BY <2>1, Int8Int
  <2> QED BY <2>1, <2>2
<1> HIDE DEF n
<1>2. IsFiniteSet(A) /\ IsFiniteSet(1 .. n) BY <1>1, FS_Interval
<1>3. Renames(h, A, 1 .. n)
  <2>1. h \in [A -> 1 .. n] /\ \A x, y \in A : h[x] = h[y] => x = y BY <1>1
  <2>2. ASSUME NEW z \in 1 .. n PROVE \E x \in A : h[x] = z
    <3>1. z - 1 \in A /\ h[z - 1] = z BY <1>1
    <3> QED BY <3>1
  <2> QED BY <2>1, <2>2 DEF Renames
<1>4. [x \in A |-> b[h[x]]] = Part([e \in A |-> b[e + 1]], 0, n) BY DEF Part
<1> HIDE DEF A, h
<1>5. Q1D!Total([x \in A |-> b[h[x]]]) = Q1D!Total(b) BY <1>1, <1>2, <1>3, TotalMoved
<1> QED BY <1>4, <1>5, LinTotal DEF Lin!RowSum, A, n

(* And the VNNI one, its zero point taken off the sum of the row.           *)
LEMMA I8Vnni ==
  ASSUME NEW a, NEW b, Alike(a, b)
  PROVE  Lin!DotI8Vnni(Lin!ZeroPoint(a), b, Lin!RowSum(b)) = Lin!Product(a, b, 0, Len(a))
<1> DEFINE P == Products(a, b)
           n == Len(a)
           m == n \div 64
           all == 64 * m
           u == Lin!ZeroPoint(a)
           B == [e \in 0 .. n - 1 |-> b[e + 1]]
           f == [e \in 0 .. n - 1 |-> u[e + 1] * b[e + 1]]
           UB(g) == [i \in 0 .. 63 |-> u[64 * g + i + 1]]
           BB(g) == [i \in 0 .. 63 |-> b[64 * g + i + 1]]
           ch == [g \in 0 .. m - 1 |-> Lin!Dp(UB(g), BB(g), 16)]
           plan == Lin!Unrolled(m, 8)
           once == [p \in plan |-> Lin!Dp(UB(p[2]), BB(p[2]), 16)]
<1>1. n \in Nat /\ Ints(P, 0, n) BY ProductsInt
<1>2. Len(u) = n /\ Len(b) = n
  <2>1. a \in [1 .. n -> Int8] /\ n \in Nat /\ DOMAIN a = 1 .. n BY DEF Alike
  <2>2. u = [i \in 1 .. n |-> a[i] + 128] BY <2>1 DEF Lin!ZeroPoint
  <2>3. u \in Seq(Int) /\ Len(u) = n
    <3>0. \A i \in 1 .. n : a[i] \in Int BY <2>1, Int8Int
    <3>1. \A i \in 1 .. n : a[i] + 128 \in Int BY <3>0
    <3> HIDE DEF n
    <3> QED BY <2>1, <2>2, <3>1
  <2> QED BY <2>3 DEF Alike
<1>3. ASSUME NEW e \in 0 .. n - 1
      PROVE  /\ u[e + 1] = a[e + 1] + 128 /\ P[e] = a[e + 1] * b[e + 1] /\ P[e] \in Int /\ B[e] = b[e + 1] /\ b[e + 1] \in Int
             /\ a[e + 1] \in Int /\ f[e] = P[e] + 128 * B[e] /\ f[e] \in Int /\ f[e] = u[e + 1] * b[e + 1]
             /\ (u[e + 1] - 128) * b[e + 1] = P[e]
  <2>1. a[e + 1] \in Int8 /\ b[e + 1] \in Int8 /\ P[e] = a[e + 1] * b[e + 1] /\ P[e] \in Int BY ProductsInt
  <2>2. e + 1 \in DOMAIN a
    <3>1. DOMAIN a = 1 .. n BY DEF Alike
    <3> QED BY <1>1, <3>1
  <2>3. u[e + 1] = a[e + 1] + 128 BY <2>2 DEF Lin!ZeroPoint
  <2>4. \A x, y \in Int : (x + 128) * y = x * y + 128 * y /\ x * y \in Int /\ 128 * y \in Int /\ ((x + 128) - 128) * y = x * y OBVIOUS
  <2>5. a[e + 1] \in Int /\ b[e + 1] \in Int BY <2>1, Int8Int
  <2>6. f[e] = u[e + 1] * b[e + 1] /\ B[e] = b[e + 1] OBVIOUS
  <2> HIDE DEF f, P, u, B
  <2>7. f[e] = P[e] + 128 * B[e] /\ f[e] \in Int
    <3> DEFINE x == a[e + 1]
               y == b[e + 1]
    <3>1. x \in Int /\ y \in Int /\ f[e] = (x + 128) * y /\ P[e] = x * y /\ B[e] = y BY <2>1, <2>3, <2>5, <2>6
    <3> HIDE DEF x, y
    <3>2. (x + 128) * y = x * y + 128 * y /\ x * y \in Int /\ 128 * y \in Int BY <2>4, <3>1
    <3> QED BY <3>1, <3>2
  <2>8. (u[e + 1] - 128) * b[e + 1] = P[e] BY <2>1, <2>3, <2>4, <2>5
  <2> QED BY <2>1, <2>3, <2>5, <2>6, <2>7, <2>8
<1> HIDE DEF n, P, f, u, B
<1>4. m \in Nat /\ all \in Nat /\ all <= n BY <1>1
<1>5. Ints(f, 0, n) /\ Ints(B, 0, n) BY <1>3 DEF Ints
<1> HIDE DEF m, plan
<1>6. ASSUME NEW g \in 0 .. m - 1 PROVE ch[g] = Q1D!Total(Stretch(f, 64 * g, 64))
  <2> DEFINE F == Stretch(f, 64 * g, 64)
             U == UB(g)
             W == BB(g)
  <2>1. ASSUME NEW i \in 0 .. 63 PROVE F[i] = U[i] * W[i] /\ F[i] \in Int
    <3>1. 64 * g + i \in 0 .. n - 1 BY <1>1, <1>4
    <3>2. f[64 * g + i] = u[64 * g + i + 1] * b[64 * g + i + 1] /\ f[64 * g + i] \in Int BY <1>3, <3>1
    <3>3. F[i] = f[64 * g + i]
      <4>1. 64 - 1 = 63 OBVIOUS
      <4> QED BY <4>1 DEF Stretch
    <3> QED BY <3>2, <3>3
  <2>2. Part(F, 0, 64) = F BY DEF Part, Stretch
  <2>3. ch[g] = Lin!Dp(U, W, 16) OBVIOUS
  <2> HIDE DEF F, U, W, ch
  <2>4. Lin!Dp(U, W, 16) = Q1D!Total(Part(F, 0, 64)) BY <2>1, DpIs
  <2> QED BY <2>2, <2>3, <2>4 DEF F
<1>7. Chunked(ch, f, 64, m)
  <2>1. ch = [g \in 0 .. m - 1 |-> ch[g]] OBVIOUS
  <2> HIDE DEF ch
  <2> QED BY <1>6, <2>1 DEF Chunked
<1>8. \A g \in 0 .. m - 1 : ch[g] = Lin!Dp(UB(g), BB(g), 16) OBVIOUS
<1> HIDE DEF ch, UB, BB
<1>9. ch \in [0 .. m - 1 -> Int] /\ Q1D!Total(ch) = Q1D!Total(Part(f, 0, all))
  <2>1. all = 64 * m /\ 64 \in Nat OBVIOUS
  <2> HIDE DEF all
  <2> QED BY <1>1, <1>4, <1>5, <1>7, <2>1, ChunksAndTail
<1>10. Q1D!Total(once) = Q1D!Total(ch)
  <2>1. 8 \in Nat \ {0} OBVIOUS
  <2>2. PICK h : OncePlan(plan, m, h) BY <1>4, <2>1, UnrolledOnce DEF plan
  <2>3. once = Planned(plan, ch)
    <3>1. \A p \in plan : p[2] \in 0 .. m - 1 BY <2>2 DEF OncePlan
    <3> QED BY <1>8, <3>1 DEF Planned
  <2> HIDE DEF once
  <2> QED BY <1>4, <1>9, <2>2, <2>3, TotalPlan
<1>11. Q1D!Total(Part(f, 0, all)) = Q1D!Total(Part(P, 0, all)) + 128 * Q1D!Total(Part(B, 0, all))
       /\ Q1D!Total(Part(P, 0, all)) \in Int /\ Q1D!Total(Part(B, 0, all)) \in Int
       /\ Q1D!Total(Part(P, all, n)) \in Int /\ Q1D!Total(Part(B, all, n)) \in Int
       /\ Q1D!Total(Part(P, 0, n)) = Q1D!Total(Part(P, 0, all)) + Q1D!Total(Part(P, all, n))
       /\ Q1D!Total(Part(B, 0, n)) = Q1D!Total(Part(B, 0, all)) + Q1D!Total(Part(B, all, n))
  <2> HIDE DEF all
  <2>1. \A e \in 0 .. all - 1 : e \in 0 .. n - 1 BY <1>1, <1>4
  <2>2. Ints(P, 0, all) /\ Ints(B, 0, all) BY <1>1, <1>5, <2>1 DEF Ints
  <2>3. \A e \in 0 .. all - 1 : f[e] = P[e] + 128 * B[e] BY <1>3, <2>1
  <2>4. Q1D!Total(Part(f, 0, all)) = Q1D!Total(Part(P, 0, all)) + 128 * Q1D!Total(Part(B, 0, all))
    BY <1>4, <2>2, <2>3, ZeroPointSum
  <2>5. 0 <= all /\ 0 \in Int /\ all \in Int /\ n \in Int /\ all <= n BY <1>1, <1>4
  <2>6. (\A e \in 0 .. n - 1 : P[e] \in Int) /\ (\A e \in 0 .. n - 1 : B[e] \in Int) BY <1>1, <1>5 DEF Ints
  <2>7. Q1D!Total(Part(P, 0, n)) = Q1D!Total(Part(P, 0, all)) + Q1D!Total(Part(P, all, n))
        /\ Q1D!Total(Part(P, 0, all)) \in Int /\ Q1D!Total(Part(P, all, n)) \in Int
    BY <2>5, <2>6, TotalCutAt
  <2>8. Q1D!Total(Part(B, 0, n)) = Q1D!Total(Part(B, 0, all)) + Q1D!Total(Part(B, all, n))
        /\ Q1D!Total(Part(B, 0, all)) \in Int /\ Q1D!Total(Part(B, all, n)) \in Int
    BY <2>5, <2>6, TotalCutAt
  <2> QED BY <2>4, <2>7, <2>8
<1>12. Lin!DotI8Vnni(u, b, Lin!RowSum(b))
         = Lin!Total(once) - 128 * Lin!Covered(m, b, Lin!RowSum(b))
             + Lin!Total([e \in all .. n - 1 |-> (u[e + 1] - 128) * b[e + 1]])
  <2>1. 64 \div 4 = 16 /\ 64 - 1 = 63 OBVIOUS
  <2> HIDE DEF all
  <2>2. Len(u) \div 64 = m /\ 64 * m = all BY <1>2 DEF m, all
  <2> QED BY <1>2, <2>1, <2>2 DEF Lin!DotI8Vnni, Lin!Accumulated, plan, UB, BB
<1>13. Lin!Total([e \in all .. n - 1 |-> (u[e + 1] - 128) * b[e + 1]]) = Q1D!Total(Part(P, all, n))
  <2> HIDE DEF all
  <2>1. \A e \in all .. n - 1 : e \in 0 .. n - 1 BY <1>1, <1>4
  <2>2. [e \in all .. n - 1 |-> (u[e + 1] - 128) * b[e + 1]] = Part(P, all, n) BY <1>3, <2>1 DEF Part
  <2> QED BY <2>2, LinTotal
<1>14. Lin!Covered(m, b, Lin!RowSum(b)) = Q1D!Total(Part(B, 0, all))
  <2>1. Lin!RowSum(b) = Q1D!Total(Part(B, 0, n)) BY <1>2, RowSumIs DEF B, Alike
  <2>2. [e \in all .. n - 1 |-> b[e + 1]] = Part(B, all, n)
    <3> HIDE DEF all
    <3>1. \A e \in all .. n - 1 : e \in 0 .. n - 1 BY <1>1, <1>4
    <3> QED BY <1>3, <3>1 DEF Part
  <2>3. Lin!Covered(m, b, Lin!RowSum(b)) = Lin!RowSum(b) - Lin!Total([e \in all .. n - 1 |-> b[e + 1]])
    BY <1>2 DEF Lin!Covered
  <2> HIDE DEF all
  <2>4. Lin!RowSum(b) - Lin!Total([e \in all .. n - 1 |-> b[e + 1]])
          = Q1D!Total(Part(B, 0, n)) - Q1D!Total(Part(B, all, n)) BY <2>1, <2>2, LinTotal
  <2>5. Q1D!Total(Part(B, 0, n)) - Q1D!Total(Part(B, all, n)) = Q1D!Total(Part(B, 0, all)) BY <1>11
  <2> QED BY <2>3, <2>4, <2>5
<1>15. Lin!Product(a, b, 0, n) = Q1D!Total(Part(P, 0, n))
  <2>1. 0 \in Nat /\ n \in Int /\ n <= Len(a) BY <1>1 DEF n
  <2> QED BY <2>1, ProductIs DEF P
<1> HIDE DEF once, all
<1>16. Lin!Total(once) = Q1D!Total(Part(P, 0, all)) + 128 * Q1D!Total(Part(B, 0, all))
  BY <1>9, <1>10, <1>11, LinTotal
<1>17. Lin!DotI8Vnni(u, b, Lin!RowSum(b)) = Lin!Product(a, b, 0, n)
  BY <1>11, <1>12, <1>13, <1>14, <1>15, <1>16
<1> QED BY <1>17 DEF u, n

(* The f32 kernel, in integers: its four accumulators, its single vectors and its rest. *)
LEMMA F32Avx2 ==
  ASSUME NEW a, NEW b, Alike(a, b)
  PROVE  Lin!DotF32Avx2(a, b) = Lin!Product(a, b, 0, Len(a))
<1> DEFINE P == Products(a, b)
           n == Len(a)
           fours == n \div 32
           ones == (n - 32 * fours) \div 8
           m == 4 * fours
           all == 8 * m
           tail == 8 * (m + ones)
           ch == [c \in 0 .. m - 1 |-> Q1D!Total(Stretch(P, 8 * c, 8))]
           plan == (0 .. 3) \X (0 .. fours - 1)
           at(p) == 4 * p[2] + p[1]
           sums == [p \in plan |-> Lin!Product(a, b, 8 * at(p), 8 * (at(p) + 1))]
           h == [c \in 0 .. m - 1 |-> <<c % 4, c \div 4>>]
<1>1. n \in Nat /\ Ints(P, 0, n) BY ProductsInt
<1> HIDE DEF n
<1>2. fours \in Nat /\ ones \in Nat /\ m \in Nat /\ all \in Nat /\ tail \in Nat /\ all <= tail /\ tail <= n
      /\ all = 32 * fours BY <1>1
<1>3. Chunked(ch, P, 8, m) BY DEF Chunked
<1>4. \A c \in 0 .. m - 1 : ch[c] = Q1D!Total(Stretch(P, 8 * c, 8)) OBVIOUS
<1> HIDE DEF fours, ones, ch
<1>5. /\ Q1D!Total(Part(P, 0, n)) = Q1D!Total(ch) + Q1D!Total(Part(P, all, n)) /\ ch \in [0 .. m - 1 -> Int]
      /\ Q1D!Total(ch) \in Int
  <2>1. all = 8 * m /\ 8 \in Nat OBVIOUS
  <2> HIDE DEF all, m, P
  <2> QED BY <1>1, <1>2, <1>3, <2>1, ChunksAndTail
<1>6. ASSUME NEW p \in plan
      PROVE  /\ at(p) \in 0 .. m - 1 /\ h[at(p)] = p
             /\ Lin!Product(a, b, 8 * at(p), 8 * (at(p) + 1)) = ch[at(p)]
  <2> DEFINE c == at(p)
             from == 8 * c
             to == 8 * (c + 1)
  <2>1. p[1] \in 0 .. 3 /\ p[2] \in 0 .. fours - 1 /\ p = <<p[1], p[2]>> OBVIOUS
  <2>2. c \in 0 .. m - 1 /\ c % 4 = p[1] /\ c \div 4 = p[2] BY <1>2, <2>1
  <2>3. h[c] = p BY <2>1, <2>2
  <2> HIDE DEF c
  <2>4. from \in Nat /\ to \in Int /\ to <= n /\ to = from + 8 BY <1>1, <1>2, <2>2
  <2>5. ch[c] = Q1D!Total(Stretch(P, from, 8)) BY <1>4, <2>2
  <2>6. \A i \in from .. from + 8 - 1 : P[i] \in Int
    <3> HIDE DEF from, to, P
    <3>1. \A i \in from .. from + 8 - 1 : i \in 0 .. n - 1 BY <1>1, <2>4
    <3> QED BY <1>1, <3>1 DEF Ints
  <2> HIDE DEF from, to
  <2>7. Lin!Product(a, b, from, to) = Q1D!Total(Part(P, from, to)) BY <2>4, ProductIs DEF n
  <2> DEFINE w == 8
  <2>8. w \in Nat /\ to = from + w /\ \A i \in from .. from + w - 1 : P[i] \in Int BY <2>4, <2>6
  <2>9. ch[c] = Q1D!Total(Stretch(P, from, w)) BY <2>5
  <2> HIDE DEF w, P
  <2>10. Q1D!Total(Stretch(P, from, w)) = Q1D!Total(Part(P, from, to)) BY <2>4, <2>8, TotalShift
  <2> QED BY <2>2, <2>3, <2>7, <2>9, <2>10 DEF c, from, to, P
<1>7. Q1D!Total(sums) = Q1D!Total(ch)
  <2>1. sums = [p \in plan |-> ch[at(p)]] BY <1>6
  <2>2. Renames(h, 0 .. m - 1, plan)
    <3>1. \A c \in 0 .. m - 1 : c % 4 \in 0 .. 3 /\ c \div 4 \in 0 .. fours - 1 /\ c = 4 * (c \div 4) + (c % 4) BY <1>2
    <3>2. h \in [0 .. m - 1 -> plan] BY <3>1
    <3>3. \A c \in 0 .. m - 1 : at(h[c]) = c BY <3>1
    <3>4. \A x, y \in 0 .. m - 1 : h[x] = h[y] => x = y BY <3>3
    <3>5. \A z \in plan : \E x \in 0 .. m - 1 : h[x] = z BY <1>6
    <3> QED BY <3>2, <3>4, <3>5 DEF Renames
  <2>3. \A c \in 0 .. m - 1 : sums[h[c]] = ch[c]
    <3>1. \A c \in 0 .. m - 1 : h[c] \in plan /\ at(h[c]) = c
      <4>1. \A c \in 0 .. m - 1 : c % 4 \in 0 .. 3 /\ c \div 4 \in 0 .. fours - 1 /\ c = 4 * (c \div 4) + (c % 4) BY <1>2
      <4> QED BY <4>1
    <3>2. \A p \in plan : sums[p] = ch[at(p)] BY <1>6
    <3> HIDE DEF sums, h, at, plan
    <3> QED BY <3>1, <3>2
  <2>4. sums \in [plan -> Int]
    <3>1. \A p \in plan : ch[at(p)] \in Int BY <1>5, <1>6
    <3> HIDE DEF at, plan, sums
    <3> QED BY <2>1, <3>1
  <2> DEFINE A == 0 .. m - 1
  <2>5. IsFiniteSet(A) BY <1>2, FS_Interval
  <2> HIDE DEF plan, sums, h, m
  <2>6. IsFiniteSet(plan)
    <3>1. h \in Surjection(A, plan) BY <2>2 DEF Surjection, Renames
    <3> QED BY <2>5, <3>1, FS_Surjection
  <2>7. [x \in A |-> sums[h[x]]] = ch
    <3>1. ch = [x \in A |-> ch[x]] BY <1>5
    <3>2. \A x \in A : sums[h[x]] = ch[x] BY <2>3
    <3> HIDE DEF A
    <3> QED BY <3>1, <3>2
  <2>8. Renames(h, A, plan) BY <2>2
  <2> HIDE DEF A
  <2>9. Q1D!Total([x \in A |-> sums[h[x]]]) = Q1D!Total(sums) BY <2>4, <2>5, <2>6, <2>8, TotalMoved
  <2> QED BY <2>7, <2>9
<1>8. /\ Q1D!Total(Part(P, all, n)) = Q1D!Total(Part(P, all, tail)) + Q1D!Total(Part(P, tail, n))
      /\ Q1D!Total(Part(P, all, tail)) \in Int /\ Q1D!Total(Part(P, tail, n)) \in Int
  <2> HIDE DEF all, tail, P
  <2>1. all \in Int /\ tail \in Int /\ n \in Int /\ all <= tail /\ tail <= n BY <1>1, <1>2
  <2>2. \A i \in all .. n - 1 : P[i] \in Int
    <3>1. \A i \in all .. n - 1 : i \in 0 .. n - 1 BY <1>1, <1>2
    <3> QED BY <1>1, <3>1 DEF Ints
  <2> QED BY <2>1, <2>2, TotalCutAt
<1>9. /\ Lin!Product(a, b, all, tail) = Q1D!Total(Part(P, all, tail))
      /\ Lin!Product(a, b, tail, n) = Q1D!Total(Part(P, tail, n))
      /\ Lin!Product(a, b, 0, n) = Q1D!Total(Part(P, 0, n))
  <2>1. 0 \in Nat /\ all \in Nat /\ tail \in Nat /\ tail \in Int /\ n \in Int /\ tail <= Len(a) /\ n <= Len(a)
    BY <1>1, <1>2 DEF n
  <2> HIDE DEF all, tail
  <2> QED BY <2>1, ProductIs DEF P
<1>10. Lin!DotF32Avx2(a, b) = Lin!Total(sums) + Lin!Product(a, b, all, tail) + Lin!Product(a, b, tail, n)
  <2>1. 64 \div 8 = 8 /\ 4 * 8 = 32 OBVIOUS
  <2>2. 4 * 8 * fours = all /\ 8 * (4 * fours + ones) = tail BY <1>2
  <2>3. 0 .. 4 - 1 = 0 .. 3 OBVIOUS
  <2>4. sums = [p \in (0 .. 3) \X (0 .. fours - 1) |->
                  Lin!Product(a, b, 8 * (4 * p[2] + p[1]), 8 * (4 * p[2] + p[1] + 1))] OBVIOUS
  <2> HIDE DEF all, tail, sums, m
  <2>5. fours = Len(a) \div 32 /\ ones = (Len(a) - 32 * fours) \div 8 BY DEF fours, ones, n
  <2> QED BY <2>1, <2>2, <2>4, <2>5 DEF Lin!DotF32Avx2, n
<1>11. Lin!Total(sums) = Q1D!Total(ch) BY <1>7, LinTotal
<1> HIDE DEF sums, all, tail, P
<1>12. Lin!DotF32Avx2(a, b) = Lin!Product(a, b, 0, n) BY <1>5, <1>8, <1>9, <1>10, <1>11
<1> QED BY <1>12 DEF n

(* Every kernel of the linear layers adds the products of all elements,    *)
(* whatever the length: the int8 ones, the one with a zero point, and the  *)
(* f32 one in the order of its accumulators.                               *)
THEOREM LinearKernelsExact ==
  \A a, b : Alike(a, b) =>
    {Lin!DotI8Avx2(a, b), Lin!DotI8Avx512(a, b), Lin!DotI8Vnni(Lin!ZeroPoint(a), b, Lin!RowSum(b)),
     Lin!DotF32Avx2(a, b)} = {Lin!Product(a, b, 0, Len(a))}
BY I8Avx2, I8Avx512, I8Vnni, F32Avx2

-----------------------------------------------------------------------------
(* The ternary kernels.                                                    *)

(* Activations of n elements, and the packed bytes of a row of n weights.  *)
Acts7 == -127 .. 127
RowOf(a, b, n) ==
  /\ n \in Nat /\ a \in Seq(Acts7) /\ Len(a) = n
  /\ b \in Seq(0 .. 255) /\ Len(b) = Lin!DivCeil(n, 4)

(* Powers of four.                                                          *)
LEMMA Powers == 4 ^ 0 = 1 /\ 4 ^ 1 = 4 /\ 4 ^ 2 = 16 /\ 4 ^ 3 = 64
OBVIOUS

(* However a kernel decodes a weight, it is the same one of -1, 0 and 1. *)
LEMMA Decoders ==
  ASSUME NEW a, NEW b, NEW n, RowOf(a, b, n), NEW e \in 0 .. n - 1
  PROVE  /\ Lin!Digit(b[(e \div 4) + 1], 4, e % 4) \in 0 .. 3
         /\ Lin!Weight4(b, e) \in {-1, 0, 1}
         /\ Lin!ByShifts(b, e) = Lin!Weight4(b, e) /\ Lin!ByLut(b, e) = Lin!Weight4(b, e)
         /\ <<0, 1, 2, 1>>[Lin!Digit(b[(e \div 4) + 1], 4, e % 4) + 1] = Lin!Weight4(b, e) + 1
         /\ a[e + 1] \in Acts7
<1> DEFINE byte == b[(e \div 4) + 1]
           p == e % 4
           d == Lin!Digit(byte, 4, p)
<1>1. byte \in 0 .. 255 /\ a[e + 1] \in Acts7
  <2>1. n \in Nat /\ Len(b) = (n + 4 - 1) \div 4 BY DEF RowOf, Lin!DivCeil
  <2>2. (e \div 4) + 1 \in 1 .. ((n + 4 - 1) \div 4) BY <2>1
  <2>3. (e \div 4) + 1 \in 1 .. Len(b) /\ e + 1 \in 1 .. Len(a) BY <2>1, <2>2 DEF RowOf
  <2> QED BY <2>3 DEF RowOf
<1>2. p \in {0, 1, 2, 3}
  <2>1. e \in Nat BY DEF RowOf
  <2> QED BY <2>1
<1> HIDE DEF byte, p
<1>3. d = IF p = 0 THEN byte % 4 ELSE IF p = 1 THEN (byte \div 4) % 4
          ELSE IF p = 2 THEN (byte \div 16) % 4 ELSE (byte \div 64) % 4
  <2>1. byte \div 1 = byte BY <1>1
  <2> QED BY <1>2, <2>1, Powers DEF Lin!Digit
<1>4. d \in 0 .. 3 BY <1>1, <1>2, <1>3
<1>5. Lin!Weight4(b, e) = Lin!Decoded(d) BY DEF Lin!Weight4, byte, p
<1>6. Lin!ByShifts(b, e) = <<-1, 0, 1, 0>>[d + 1] BY DEF Lin!ByShifts, byte, p
<1> DEFINE spread == IF p < 2 THEN byte ELSE byte \div 16
           idx == IF e % 2 = 0 THEN spread % 4 ELSE 4 * ((spread \div 4) % 4)
           lut == <<-1, 0, 1, 0, 0, 0, 0, 0, 1, 0, 0, 0, 0, 0, 0, 0>>
<1>7. Lin!ByLut(b, e) = lut[idx + 1] BY DEF Lin!ByLut, byte, p
<1>8. idx = IF p \in {0, 2} THEN d ELSE 4 * d
  <2>1. p \in {0, 2} <=> e % 2 = 0
    <3>1. e \in Nat BY DEF RowOf
    <3> QED BY <3>1 DEF p
  <2>2. p = 2 => (byte \div 16) % 4 = d BY <1>3
  <2>3. p = 3 => ((byte \div 16) \div 4) % 4 = d
    <3>1. (byte \div 16) \div 4 = byte \div 64 BY <1>1
    <3> QED BY <1>3, <3>1
  <2> HIDE DEF d
  <2> QED BY <1>2, <1>3, <2>1, <2>2, <2>3
<1> HIDE DEF d, idx
<1>9. d = 0 \/ d = 1 \/ d = 2 \/ d = 3 BY <1>4
<1>10. /\ Lin!Decoded(d) \in {-1, 0, 1} /\ <<-1, 0, 1, 0>>[d + 1] = Lin!Decoded(d)
       /\ <<0, 1, 2, 1>>[d + 1] = Lin!Decoded(d) + 1
  BY <1>9 DEF Lin!Decoded
<1>11. lut[d + 1] = Lin!Decoded(d) /\ (p \notin {0, 2} => lut[4 * d + 1] = Lin!Decoded(d))
  <2>1. lut[1] = -1 /\ lut[2] = 0 /\ lut[3] = 1 /\ lut[4] = 0 OBVIOUS
  <2>2. lut[5] = 0 /\ lut[9] = 1 /\ lut[13] = 0 OBVIOUS
  <2> HIDE DEF lut
  <2> QED BY <1>9, <2>1, <2>2 DEF Lin!Decoded
<1>12. Lin!ByLut(b, e) = Lin!Decoded(d) BY <1>7, <1>8, <1>11
<1> QED BY <1>1, <1>4, <1>5, <1>6, <1>10, <1>12 DEF d, byte, p

(* The width of a vector is that of its interval.                           *)
LEMMA LinWidth ==
  ASSUME NEW m \in Nat, NEW x, DOMAIN x = 0 .. m - 1
  PROVE  Lin!Width(x) = m
<1>1. Cardinality(0 .. m - 1) = m BY FS_Interval
<1>2. Lin!Cardinality(0 .. m - 1) = Cardinality(0 .. m - 1) BY DEF Lin!Cardinality, Cardinality
<1> QED BY <1>1, <1>2 DEF Lin!Width

(* Signed bytes, added in pairs without saturation and then in fours. *)
LEMMA SignedSum ==
  ASSUME NEW k \in Nat, NEW width \in Nat, width = 4 * k, NEW s, DOMAIN s = 0 .. width - 1,
         \A i \in 0 .. width - 1 : s[i] \in -127 .. 127
  PROVE  Lin!Total(Lin!MaddOnes(Lin!MaddUbs([i \in 0 .. width - 1 |-> 1], s))) = Q1D!Total(Part(s, 0, width))
<1> DEFINE ones == [i \in 0 .. width - 1 |-> 1]
           x == Lin!MaddUbs(ones, s)
           h == 2 * k
<1>0. \A i \in 0 .. width - 1 : s[i] \in Int
  <2>1. \A z \in -127 .. 127 : z \in Int OBVIOUS
  <2> QED BY <2>1
<1>1. width \div 2 = h /\ h \in Nat /\ h \div 2 = k OBVIOUS
<1>2. x = [i \in 0 .. h - 1 |-> s[2 * i] + s[2 * i + 1]]
  <2>1. Lin!Width(ones) = width
    <3>1. DOMAIN ones = 0 .. width - 1 OBVIOUS
    <3> HIDE DEF ones
    <3> QED BY <3>1, LinWidth
  <2>2. \A i \in 0 .. h - 1 : Lin!Sat16(ones[2 * i] * s[2 * i] + ones[2 * i + 1] * s[2 * i + 1]) = s[2 * i] + s[2 * i + 1]
    <3> TAKE i \in 0 .. h - 1
    <3>1. 2 * i \in 0 .. width - 1 /\ 2 * i + 1 \in 0 .. width - 1 OBVIOUS
    <3>2. ones[2 * i] = 1 /\ ones[2 * i + 1] = 1 BY <3>1
    <3>3. s[2 * i] \in -127 .. 127 /\ s[2 * i + 1] \in -127 .. 127 BY <3>1
    <3>4. \A y, z \in -127 .. 127 : Lin!Sat16(1 * y + 1 * z) = y + z BY DEF Lin!Sat16
    <3> QED BY <3>2, <3>3, <3>4
  <2> HIDE DEF ones, h
  <2> QED BY <1>1, <2>1, <2>2 DEF Lin!MaddUbs
<1>3. Lin!MaddOnes(x) = [i \in 0 .. k - 1 |-> s[4 * i] + s[4 * i + 1] + s[4 * i + 2] + s[4 * i + 3]]
  <2>1. Lin!Width(x) = h
    <3>1. DOMAIN x = 0 .. h - 1 BY <1>2
    <3> HIDE DEF x, h
    <3> QED BY <1>1, <3>1, LinWidth
  <2>2. \A i \in 0 .. k - 1 : x[2 * i] + x[2 * i + 1] = s[4 * i] + s[4 * i + 1] + s[4 * i + 2] + s[4 * i + 3]
    <3> TAKE i \in 0 .. k - 1
    <3>1. 2 * i \in 0 .. h - 1 /\ 2 * i + 1 \in 0 .. h - 1 OBVIOUS
    <3>2. 2 * (2 * i) = 4 * i /\ 2 * (2 * i) + 1 = 4 * i + 1 /\ 2 * (2 * i + 1) = 4 * i + 2 /\ 2 * (2 * i + 1) + 1 = 4 * i + 3
      OBVIOUS
    <3>3. x[2 * i] = s[4 * i] + s[4 * i + 1] /\ x[2 * i + 1] = s[4 * i + 2] + s[4 * i + 3]
      <4> HIDE DEF x
      <4> QED BY <1>2, <3>1, <3>2
    <3>4. 4 * i \in 0 .. width - 1 /\ 4 * i + 1 \in 0 .. width - 1 /\ 4 * i + 2 \in 0 .. width - 1 /\ 4 * i + 3 \in 0 .. width - 1
      OBVIOUS
    <3>5. s[4 * i] \in Int /\ s[4 * i + 1] \in Int /\ s[4 * i + 2] \in Int /\ s[4 * i + 3] \in Int BY <1>0, <3>4
    <3> HIDE DEF x
    <3> QED BY <3>3, <3>5
  <2> HIDE DEF x, h
  <2> QED BY <1>1, <2>1, <2>2 DEF Lin!MaddOnes
<1>4. \A i \in 0 .. 4 * k - 1 : s[i] \in Int BY <1>0
<1>5. Q1D!Total([i \in 0 .. k - 1 |-> s[4 * i] + s[4 * i + 1] + s[4 * i + 2] + s[4 * i + 3]]) = Q1D!Total(Part(s, 0, 4 * k))
  BY <1>4, TotalFours
<1> QED BY <1>3, <1>5, LinTotal

(* The products of activations with weights, over a stretch of elements.   *)
Termwise(f, a, w, from, width) ==
  \A e \in from .. from + width - 1 : a[e + 1] \in Acts7 /\ w[e] \in {-1, 0, 1} /\ f[e] = a[e + 1] * w[e]
(* The first chunks of a width, whole. *)
Whole(all, width, m) == all = width * m

(* A chunk of the signed kernels adds the products of its elements with    *)
(* their weights.                                                          *)
LEMMA SignedChunkIs ==
  ASSUME NEW a, NEW w, NEW k \in Nat, NEW width \in Nat, width = 4 * k, NEW c \in Nat, NEW from \in Nat, Whole(from, width, c),
         NEW f, Termwise(f, a, w, from, width)
  PROVE  Lin!SignedChunk(a, w, width, c) = Q1D!Total(Stretch(f, from, width))
<1> DEFINE s == [i \in 0 .. width - 1 |-> Lin!SignedByte(a[from + i + 1], w[from + i])]
<1>1. \A i \in 0 .. width - 1 : s[i] = f[from + i] /\ s[i] \in -127 .. 127
  <2> TAKE i \in 0 .. width - 1
  <2>1. from + i \in from .. from + width - 1 OBVIOUS
  <2> DEFINE x == a[from + i + 1]
             y == w[from + i]
  <2>2. x \in -127 .. 127 /\ y \in {-1, 0, 1} /\ f[from + i] = x * y BY <2>1 DEF Acts7, Termwise
  <2>3. s[i] = Lin!Byte(x * y) BY DEF Lin!SignedByte
  <2> HIDE DEF x, y, s
  <2>4. x * y \in -127 .. 127
    <3>1. (y = -1 => x * y = -x) /\ (y = 0 => x * y = 0) /\ (y = 1 => x * y = x) BY <2>2
    <3> QED BY <2>2, <3>1
  <2>5. \A z \in -127 .. 127 : Lin!Byte(z) = z BY DEF Lin!Byte
  <2> QED BY <2>2, <2>3, <2>4, <2>5
<1>2. s = Part(s, 0, width) /\ s = Stretch(f, from, width)
  <2>1. \A i \in 0 .. width - 1 : s[i] = f[from + i] BY <1>1
  <2>2. s = [i \in 0 .. width - 1 |-> s[i]] OBVIOUS
  <2> HIDE DEF s
  <2> QED BY <2>1, <2>2 DEF Part, Stretch
<1>3. Lin!SignedChunk(a, w, width, c) = Lin!Total(Lin!MaddOnes(Lin!MaddUbs([i \in 0 .. width - 1 |-> 1], s)))
  <2>1. width * c = from BY DEF Whole
  <2> QED BY <2>1 DEF Lin!SignedChunk
<1>4. DOMAIN s = 0 .. width - 1 OBVIOUS
<1> HIDE DEF s
<1>5. Lin!Total(Lin!MaddOnes(Lin!MaddUbs([i \in 0 .. width - 1 |-> 1], s))) = Q1D!Total(Part(s, 0, width))
  BY <1>1, <1>4, SignedSum
<1> QED BY <1>2, <1>3, <1>5

-----------------------------------------------------------------------------
(* The products of the elements with their weights, from 0.                *)
Terns(a, b, n) == [e \in 0 .. n - 1 |-> a[e + 1] * Lin!Weight4(b, e)]

(* The products of a ternary row are integers, and the tail adds its part.  *)
LEMMA TernsInt ==
  ASSUME NEW a, NEW b, NEW n, RowOf(a, b, n)
  PROVE  /\ n \in Nat /\ Ints(Terns(a, b, n), 0, n)
         /\ \A from \in Nat : Lin!Tail4(a, b, from, n) = Q1D!Total(Part(Terns(a, b, n), from, n))
<1>1. n \in Nat BY DEF RowOf
<1>2. ASSUME NEW e \in 0 .. n - 1
      PROVE  Terns(a, b, n)[e] = a[e + 1] * Lin!Weight4(b, e) /\ Terns(a, b, n)[e] \in Int
  <2>1. a[e + 1] \in Acts7 /\ Lin!Weight4(b, e) \in {-1, 0, 1} BY Decoders
  <2>2. a[e + 1] \in Int /\ Lin!Weight4(b, e) \in Int BY <2>1 DEF Acts7
  <2>3. \A x, y \in Int : x * y \in Int OBVIOUS
  <2>4. Terns(a, b, n)[e] = a[e + 1] * Lin!Weight4(b, e) BY DEF Terns
  <2> QED BY <2>2, <2>3, <2>4
<1>3. ASSUME NEW from \in Nat PROVE Lin!Tail4(a, b, from, n) = Q1D!Total(Part(Terns(a, b, n), from, n))
  <2>1. \A e \in from .. n - 1 : e \in 0 .. n - 1 BY <1>1
  <2>2. [e \in from .. n - 1 |-> a[e + 1] * Lin!Weight4(b, e)] = Part(Terns(a, b, n), from, n)
    BY <1>2, <2>1 DEF Part
  <2> QED BY <2>2, LinTotal DEF Lin!Tail4
<1> QED BY <1>1, <1>2, <1>3 DEF Ints

(* A kernel of chunks, by a plan that takes each once, and a tail. *)
LEMMA PlannedKernel ==
  ASSUME NEW a, NEW b, NEW n, RowOf(a, b, n), NEW width \in Nat, NEW m \in Nat, NEW all \in Nat, Whole(all, width, m), all <= n,
         NEW plan, NEW h, OncePlan(plan, m, h), NEW ch, Chunked(ch, Terns(a, b, n), width, m)
  PROVE  Lin!Total(Planned(plan, ch)) + Lin!Tail4(a, b, all, n) = Lin!Pack4Scalar(a, b, n)
<1> DEFINE f == Terns(a, b, n)
<1>1. n \in Nat /\ Ints(f, 0, n) BY TernsInt
<1>2. Lin!Tail4(a, b, all, n) = Q1D!Total(Part(f, all, n)) /\ Lin!Tail4(a, b, 0, n) = Q1D!Total(Part(f, 0, n))
  <2>1. 0 \in Nat OBVIOUS
  <2> HIDE DEF f
  <2> QED BY <2>1, TernsInt DEF f
<1>3. Chunked(ch, f, width, m) OBVIOUS
<1> HIDE DEF f
<1>4. Q1D!Total(Part(f, 0, n)) = Q1D!Total(ch) + Q1D!Total(Part(f, all, n)) /\ ch \in [0 .. m - 1 -> Int]
  <2>1. all = width * m BY DEF Whole
  <2> QED BY <1>1, <1>3, <2>1, ChunksAndTail
<1>5. Q1D!Total(Planned(plan, ch)) = Q1D!Total(ch) BY <1>4, TotalPlan
<1> QED BY <1>2, <1>4, <1>5, LinTotal DEF Lin!Pack4Scalar

(* The signed kernels, whatever the decoder, the width and the unrolling.  *)
LEMMA SignedKernelIs ==
  ASSUME NEW a, NEW b, NEW n, RowOf(a, b, n), NEW w, \A e \in 0 .. n - 1 : w[e] = Lin!Weight4(b, e),
         NEW k \in Nat \ {0}, NEW width \in Nat, width = 4 * k, NEW u \in Nat \ {0}
  PROVE  Lin!SignedKernel(a, b, n, w, width, u) = Lin!Pack4Scalar(a, b, n)
<1> DEFINE f == Terns(a, b, n)
           m == n \div width
           ch == [c \in 0 .. m - 1 |-> Lin!SignedChunk(a, w, width, c)]
           plan == Lin!Unrolled(m, u)
<1>1. n \in Nat BY DEF RowOf
<1>2. m \in Nat /\ width * m <= n /\ width \in Nat \ {0} BY <1>1, DivIs
<1> HIDE DEF m
<1>3. PICK h : OncePlan(plan, m, h) BY <1>2, UnrolledOnce
<1>4. ASSUME NEW c \in 0 .. m - 1 PROVE ch[c] = Q1D!Total(Stretch(f, width * c, width))
  <2> DEFINE from == width * c
  <2>1. from \in Nat /\ from + width <= n /\ from = width * c /\ c \in Nat
    <3>1. m - (c + 1) \in Nat /\ c \in Nat /\ \A d \in Nat : width * d \in Nat BY <1>2
    <3>2. width * m = width * c + width + width * (m - (c + 1)) BY <1>2
    <3>3. width * (m - (c + 1)) \in Nat /\ width * c \in Nat /\ width * m \in Int BY <1>2, <3>1
    <3> QED BY <1>1, <1>2, <3>1, <3>2, <3>3
  <2> HIDE DEF from, f
  <2>2. ASSUME NEW e \in from .. from + width - 1
        PROVE  a[e + 1] \in Acts7 /\ w[e] \in {-1, 0, 1} /\ f[e] = a[e + 1] * w[e]
    <3>1. e \in 0 .. n - 1 BY <1>1, <2>1
    <3> QED BY <3>1, Decoders DEF f, Terns
  <2>3. Lin!SignedChunk(a, w, width, c) = Q1D!Total(Stretch(f, from, width)) 
    <3>1. Termwise(f, a, w, from, width) BY <2>2 DEF Termwise
    <3>2. Whole(from, width, c) BY <2>1 DEF Whole
    <3> QED BY <2>1, <3>1, <3>2, SignedChunkIs
  <2> QED BY <2>1, <2>3
<1>5. Chunked(ch, f, width, m)
  <2>1. ch = [c \in 0 .. m - 1 |-> ch[c]] OBVIOUS
  <2> HIDE DEF ch
  <2> QED BY <1>4, <2>1 DEF Chunked
<1>6. [p \in plan |-> Lin!SignedChunk(a, w, width, p[2])] = [p \in plan |-> ch[p[2]]]
  <2>1. \A p \in plan : p[2] \in 0 .. m - 1 BY <1>3 DEF OncePlan
  <2> HIDE DEF plan
  <2> QED BY <2>1
<1>7. Lin!SignedKernel(a, b, n, w, width, u) = Lin!Total([p \in plan |-> ch[p[2]]]) + Lin!Tail4(a, b, width * m, n)
  <2> HIDE DEF ch
  <2> QED BY <1>6 DEF Lin!SignedKernel, Lin!Accumulated, m
<1> DEFINE all == width * m
<1>8. all \in Nat /\ all = width * m /\ all <= n /\ width \in Nat
  <2>1. \A x \in Nat : width * x \in Nat OBVIOUS
  <2> QED BY <1>2, <2>1
<1> HIDE DEF ch, plan, f, all
<1>9. Lin!Total(Planned(plan, ch)) + Lin!Tail4(a, b, all, n) = Lin!Pack4Scalar(a, b, n)
  <2>1. m \in Nat BY <1>2
  <2>2. Chunked(ch, Terns(a, b, n), width, m) BY <1>5 DEF f
  <2>3. OncePlan(plan, m, h) BY <1>3
  <2>4. all \in Nat /\ all <= n /\ width \in Nat /\ Whole(all, width, m) BY <1>8 DEF Whole
  <2> QED BY <2>1, <2>2, <2>3, <2>4, PlannedKernel
<1> QED BY <1>7, <1>9 DEF all, Planned

(* The four signed kernels, each with its decoder.                          *)
LEMMA SignedDecoders ==
  ASSUME NEW a, NEW b, NEW n, RowOf(a, b, n)
  PROVE  /\ Lin!Pack4Avx512(a, b, n) = Lin!Pack4Scalar(a, b, n)
         /\ Lin!Pack4Avx2(a, b, n) = Lin!Pack4Scalar(a, b, n)
         /\ Lin!Pack4Lut(a, b, n) = Lin!Pack4Scalar(a, b, n)
         /\ Lin!Pack4Hybrid(a, b, n) = Lin!Pack4Scalar(a, b, n)
<1> DEFINE shifts == [e \in 0 .. n - 1 |-> Lin!ByShifts(b, e)]
           lut == [e \in 0 .. n - 1 |-> Lin!ByLut(b, e)]
           steps == 4 * ((n \div 32) \div 4)
           mixed == [e \in 0 .. n - 1 |->
                       IF e < 32 * steps /\ (e \div 32) % 2 = 1 THEN Lin!ByShifts(b, e) ELSE Lin!ByLut(b, e)]
<1>1. \A e \in 0 .. n - 1 : shifts[e] = Lin!Weight4(b, e) /\ lut[e] = Lin!Weight4(b, e) /\ mixed[e] = Lin!Weight4(b, e)
  <2> TAKE e \in 0 .. n - 1
  <2>1. Lin!ByShifts(b, e) = Lin!Weight4(b, e) /\ Lin!ByLut(b, e) = Lin!Weight4(b, e) BY Decoders
  <2> QED BY <2>1
<1>2. 64 \div 2 = 32 /\ 32 \in Nat /\ 64 \in Nat /\ 32 = 4 * 8 /\ 64 = 4 * 16 OBVIOUS
<1>3. /\ Lin!Pack4Avx512(a, b, n) = Lin!SignedKernel(a, b, n, shifts, 64, 4)
      /\ Lin!Pack4Avx2(a, b, n) = Lin!SignedKernel(a, b, n, shifts, 32, 2)
      /\ Lin!Pack4Lut(a, b, n) = Lin!SignedKernel(a, b, n, lut, 32, 2)
      /\ Lin!Pack4Hybrid(a, b, n) = Lin!SignedKernel(a, b, n, mixed, 32, 4)
  <2> HIDE DEF shifts, lut
  <2>1. Lin!Pack4Avx512(a, b, n) = Lin!SignedKernel(a, b, n, shifts, 64, 4) BY DEF Lin!Pack4Avx512, shifts
  <2>2. Lin!Pack4Avx2(a, b, n) = Lin!SignedKernel(a, b, n, shifts, 32, 2) BY <1>2 DEF Lin!Pack4Avx2, shifts
  <2>3. Lin!Pack4Lut(a, b, n) = Lin!SignedKernel(a, b, n, lut, 32, 2) BY <1>2 DEF Lin!Pack4Lut, lut
  <2>4. Lin!Pack4Hybrid(a, b, n) = Lin!SignedKernel(a, b, n, mixed, 32, 4) BY <1>2 DEF Lin!Pack4Hybrid
  <2> QED BY <2>1, <2>2, <2>3, <2>4
<1> HIDE DEF shifts, lut, mixed
<1>4. \A w : (\A e \in 0 .. n - 1 : w[e] = Lin!Weight4(b, e)) =>
        /\ Lin!SignedKernel(a, b, n, w, 64, 4) = Lin!Pack4Scalar(a, b, n)
        /\ Lin!SignedKernel(a, b, n, w, 32, 2) = Lin!Pack4Scalar(a, b, n)
        /\ Lin!SignedKernel(a, b, n, w, 32, 4) = Lin!Pack4Scalar(a, b, n)
  <2> SUFFICES ASSUME NEW w, \A e \in 0 .. n - 1 : w[e] = Lin!Weight4(b, e)
               PROVE  /\ Lin!SignedKernel(a, b, n, w, 64, 4) = Lin!Pack4Scalar(a, b, n)
                      /\ Lin!SignedKernel(a, b, n, w, 32, 2) = Lin!Pack4Scalar(a, b, n)
                      /\ Lin!SignedKernel(a, b, n, w, 32, 4) = Lin!Pack4Scalar(a, b, n)
    OBVIOUS
  <2>1. ASSUME NEW k \in Nat \ {0}, NEW width \in Nat, width = 4 * k, NEW u \in Nat \ {0}
        PROVE  Lin!SignedKernel(a, b, n, w, width, u) = Lin!Pack4Scalar(a, b, n)
    BY <2>1, SignedKernelIs
  <2>2. 16 \in Nat \ {0} /\ 8 \in Nat \ {0} /\ 2 \in Nat \ {0} /\ 4 \in Nat \ {0} OBVIOUS
  <2> QED BY <1>2, <2>1, <2>2
<1> QED BY <1>1, <1>3, <1>4

(* Activations are integers.                                                *)
LEMMA Acts7Int == \A x \in Acts7 : x \in Int
BY DEF Acts7

(* Codes and activations, less the activations. *)
LEMMA DpLess ==
  ASSUME NEW codes, NEW ones, NEW acts, NEW f,
         \A i \in 0 .. 63 : /\ acts[i] \in Int /\ ones[i] = 1 /\ codes[i] \in Int
                            /\ f[i] = acts[i] * (codes[i] - 1)
  PROVE  Lin!Dp(codes, acts, 16) - Lin!Dp(ones, acts, 16) = Q1D!Total(Part(f, 0, 64))
<1> DEFINE S == 0 .. 63
           p == [i \in S |-> codes[i] * acts[i]]
           q == [i \in S |-> ones[i] * acts[i]]
           g == [i \in S |-> f[i]]
<1>0. \A x, y \in Int : x * y \in Int /\ y * (x - 1) \in Int /\ x * y = y * (x - 1) + 1 * y OBVIOUS
<1>1. \A i \in S : p[i] \in Int /\ q[i] \in Int /\ g[i] \in Int /\ p[i] = g[i] + q[i]
  <2> TAKE i \in S
  <2>1. acts[i] \in Int /\ ones[i] = 1 /\ codes[i] \in Int /\ f[i] = acts[i] * (codes[i] - 1) OBVIOUS
  <2>2. p[i] = codes[i] * acts[i] /\ q[i] = 1 * acts[i] /\ g[i] = acts[i] * (codes[i] - 1) /\ 1 * acts[i] = acts[i] BY <2>1
  <2> HIDE DEF p, q, g
  <2> QED BY <1>0, <2>1, <2>2
<1>2. \A i \in 0 .. 63 : p[i] = codes[i] * acts[i] /\ q[i] = ones[i] * acts[i] OBVIOUS
<1>3. Part(p, 0, 64) = p /\ Part(q, 0, 64) = q /\ Part(f, 0, 64) = g /\ p = [i \in S |-> g[i] + q[i]]
  <2>1. 64 - 1 = 63 OBVIOUS
  <2>2. Part(p, 0, 64) = [i \in S |-> p[i]] /\ Part(q, 0, 64) = [i \in S |-> q[i]] BY <2>1 DEF Part
  <2>3. Part(f, 0, 64) = g BY <2>1 DEF Part
  <2>4. p = [i \in S |-> p[i]] /\ q = [i \in S |-> q[i]] OBVIOUS
  <2> HIDE DEF p, q, g, S
  <2> QED BY <1>1, <2>2, <2>3, <2>4
<1>4. p \in [S -> Int] /\ q \in [S -> Int] /\ g \in [S -> Int]
  <2>1. p = [i \in S |-> p[i]] /\ q = [i \in S |-> q[i]] /\ g = [i \in S |-> g[i]] OBVIOUS
  <2> HIDE DEF p, q, g
  <2> QED BY <1>1, <2>1
<1>5. IsFiniteSet(S)
  <2>1. 0 \in Int /\ 63 \in Int OBVIOUS
  <2> QED BY <2>1, FS_Interval
<1>6. Lin!Dp(codes, acts, 16) = Q1D!Total(p)
  <2>1. \A i \in 0 .. 63 : p[i] = codes[i] * acts[i] /\ p[i] \in Int BY <1>1, <1>2
  <2> HIDE DEF p
  <2>2. Lin!Dp(codes, acts, 16) = Q1D!Total(Part(p, 0, 64)) BY <2>1, DpIs
  <2> QED BY <1>3, <2>2
<1>7. Lin!Dp(ones, acts, 16) = Q1D!Total(q)
  <2>1. \A i \in 0 .. 63 : q[i] = ones[i] * acts[i] /\ q[i] \in Int BY <1>1, <1>2
  <2> HIDE DEF q
  <2>2. Lin!Dp(ones, acts, 16) = Q1D!Total(Part(q, 0, 64)) BY <2>1, DpIs
  <2> QED BY <1>3, <2>2
<1> HIDE DEF p, q, g, S
<1>8. Q1D!Total([i \in S |-> g[i] + q[i]]) = Q1D!Total(g) + Q1D!Total(q) BY <1>4, <1>5, TotalSum
<1>9. Q1D!Total(g) \in Int /\ Q1D!Total(q) \in Int BY <1>4, <1>5, TotalInt
<1> QED BY <1>3, <1>6, <1>7, <1>8, <1>9

(* The VNNI kernel of codes, the activations taken off.                     *)
LEMMA Vnni4 ==
  ASSUME NEW a, NEW b, NEW n, RowOf(a, b, n)
  PROVE  Lin!Pack4Vnni(a, b, n) = Lin!Pack4Scalar(a, b, n)
<1> DEFINE f == Terns(a, b, n)
           m == n \div 64
           all == 64 * m
           acts(c) == [i \in 0 .. 63 |-> a[64 * c + i + 1]]
           codes(c) == [i \in 0 .. 63 |-> <<0, 1, 2, 1>>[Lin!Digit(b[((64 * c + i) \div 4) + 1], 4, i % 4) + 1]]
           ones == [i \in 0 .. 63 |-> 1]
           chunk(c) == Lin!Dp(codes(c), acts(c), 16) - Lin!Dp(ones, acts(c), 16)
           ch == [c \in 0 .. m - 1 |-> chunk(c)]
           plan == Lin!VnniPlan(m)
<1>1. n \in Nat BY DEF RowOf
<1>2. m \in Nat /\ all \in Nat /\ all <= n BY <1>1
<1> HIDE DEF m, f, plan
<1>3. PICK h : OncePlan(plan, m, h) BY <1>2, VnniPlanOnce DEF plan
<1>4. ASSUME NEW c \in 0 .. m - 1 PROVE chunk(c) = Q1D!Total(Stretch(f, 64 * c, 64))
  <2> DEFINE F == Stretch(f, 64 * c, 64)
             A == acts(c)
             C == codes(c)
  <2>1. ASSUME NEW i \in 0 .. 63 PROVE A[i] \in Int /\ ones[i] = 1 /\ C[i] \in Int /\ F[i] = A[i] * (C[i] - 1)
    <3> DEFINE e == 64 * c + i
    <3>1. e \in 0 .. n - 1 /\ e % 4 = i % 4 BY <1>1, <1>2
    <3>2. A[i] = a[e + 1] /\ C[i] = <<0, 1, 2, 1>>[Lin!Digit(b[(e \div 4) + 1], 4, i % 4) + 1] OBVIOUS
    <3>3. F[i] = f[e]
      <4>1. 64 - 1 = 63 OBVIOUS
      <4> QED BY <4>1 DEF Stretch
    <3>4. ones[i] = 1 OBVIOUS
    <3> HIDE DEF e, A, C, F, ones
    <3>5. C[i] = Lin!Weight4(b, e) + 1 /\ Lin!Weight4(b, e) \in {-1, 0, 1} /\ a[e + 1] \in Acts7 BY <3>1, <3>2, Decoders
    <3>6. f[e] = a[e + 1] * Lin!Weight4(b, e) BY <3>1 DEF f, Terns
    <3>7. Lin!Weight4(b, e) \in Int /\ a[e + 1] \in Int BY <3>5, Acts7Int
    <3>8. C[i] \in Int /\ C[i] - 1 = Lin!Weight4(b, e) BY <3>5, <3>7
    <3> QED BY <3>2, <3>3, <3>4, <3>6, <3>7, <3>8
  <2>2. Part(F, 0, 64) = F BY DEF Part, Stretch
  <2> HIDE DEF F, A, C, ones
  <2>3. Lin!Dp(C, A, 16) - Lin!Dp(ones, A, 16) = Q1D!Total(Part(F, 0, 64)) BY <2>1, DpLess
  <2> QED BY <2>2, <2>3 DEF F, A, C
<1> HIDE DEF ones, acts, codes
<1>5. Lin!Pack4Vnni(a, b, n) = Lin!Total([p \in plan |-> chunk(p[2])]) + Lin!Tail4(a, b, all, n)
  <2>1. 64 \div 4 = 16 /\ 64 - 1 = 63 OBVIOUS
  <2> QED BY <2>1 DEF Lin!Pack4Vnni, Lin!Accumulated, plan, m, ones, acts, codes
<1> HIDE DEF chunk
<1>6. Chunked(ch, Terns(a, b, n), 64, m) BY <1>4 DEF Chunked, f
<1>7. [p \in plan |-> chunk(p[2])] = Planned(plan, ch)
  <2>1. \A p \in plan : p[2] \in 0 .. m - 1 BY <1>3 DEF OncePlan
  <2>2. \A p \in plan : chunk(p[2]) = ch[p[2]] BY <2>1
  <2> HIDE DEF ch
  <2> QED BY <2>2 DEF Planned
<1>8. 64 \in Nat /\ Whole(all, 64, m) BY DEF Whole
<1> HIDE DEF ch, all
<1>9. Lin!Total(Planned(plan, ch)) + Lin!Tail4(a, b, all, n) = Lin!Pack4Scalar(a, b, n)
  BY <1>2, <1>3, <1>6, <1>8, PlannedKernel
<1> QED BY <1>5, <1>7, <1>9

(* The weights of a row's lanes. *)
LaneWeights(w, r, from, n) ==
  \A e \in from .. n - 1 : w[e] = IF e - from \notin r.mask THEN 0 ELSE IF e - from \in r.neg THEN -1 ELSE 1

(* A chunk of 64.                                                           *)
LEMMA SignedChunk64 ==
  ASSUME NEW a, NEW w, NEW c \in Nat, NEW from \in Nat, Whole(from, 64, c),
         NEW f, Termwise(f, a, w, from, 64)
  PROVE  Lin!SignedChunk(a, w, 64, c) = Q1D!Total(Stretch(f, from, 64))
<1> DEFINE width == 64
           q == 16
<1>1. q \in Nat /\ width \in Nat /\ width = 4 * q OBVIOUS
<1>2. Whole(from, width, c) OBVIOUS
<1>3. Termwise(f, a, w, from, width) OBVIOUS
<1> HIDE DEF width, q
<1>4. Lin!SignedChunk(a, w, width, c) = Q1D!Total(Stretch(f, from, width)) BY <1>1, <1>2, <1>3, SignedChunkIs
<1> QED BY <1>4 DEF width

(* A whole block of a sparse row, as the vector kernel decodes it and as   *)
(* the scalar one walks its lanes.                                         *)
LEMMA SparseChunk ==
  ASSUME NEW n \in Nat, NEW a \in Seq(Acts7), Len(a) = n, NEW r, NEW c \in Nat, NEW from \in Nat,
         Whole(from, 64, c), from + 64 <= n,
         NEW w, LaneWeights(w, r, from, n)
  PROVE  Lin!SignedChunk(a, w, 64, c) = Lin!SparseBlock(a, r, from, 64)
<1> DEFINE f == [e \in from .. n - 1 |-> IF e - from \notin r.mask THEN 0
                                         ELSE IF e - from \in r.neg THEN -a[e + 1] ELSE a[e + 1]]
<1>1. 64 - 1 = 63 OBVIOUS
<1>2. ASSUME NEW e \in from .. from + 63
      PROVE  a[e + 1] \in Acts7 /\ w[e] \in {-1, 0, 1} /\ f[e] = a[e + 1] * w[e]
  <2>1. e \in from .. n - 1 /\ e + 1 \in 1 .. n OBVIOUS
  <2>2. a[e + 1] \in Acts7 BY <2>1
  <2>3. w[e] = IF e - from \notin r.mask THEN 0 ELSE IF e - from \in r.neg THEN -1 ELSE 1 BY <2>1 DEF LaneWeights
  <2>4. f[e] = IF e - from \notin r.mask THEN 0 ELSE IF e - from \in r.neg THEN -a[e + 1] ELSE a[e + 1] BY <2>1
  <2>5. a[e + 1] \in Int BY <2>2, Acts7Int
  <2> HIDE DEF f
  <2>6. a[e + 1] * 0 = 0 /\ a[e + 1] * (-1) = -a[e + 1] /\ a[e + 1] * 1 = a[e + 1] BY <2>5
  <2> QED BY <2>2, <2>3, <2>4, <2>6
<1>3. Lin!SparseBlock(a, r, from, 64) = Lin!Total(Stretch(f, from, 64))
  <2>1. ASSUME NEW l \in 0 .. 63
        PROVE  f[from + l] = IF l \notin r.mask THEN 0 ELSE IF l \in r.neg THEN -a[from + l + 1] ELSE a[from + l + 1]
    <3>1. from + l \in from .. n - 1 /\ (from + l) - from = l OBVIOUS
    <3> QED BY <3>1
  <2> HIDE DEF f
  <2>2. Stretch(f, from, 64) = [l \in 0 .. 63 |-> f[from + l]] BY <1>1 DEF Stretch
  <2>3. [l \in 0 .. 63 |-> f[from + l]]
          = [l \in 0 .. 63 |-> IF l \notin r.mask THEN 0 ELSE IF l \in r.neg THEN -a[from + l + 1] ELSE a[from + l + 1]]
    BY <2>1
  <2>4. 64 - 1 = 63 OBVIOUS
  <2> QED BY <2>2, <2>3, <2>4 DEF Lin!SparseBlock
<1> HIDE DEF f
<1>4. Lin!SignedChunk(a, w, 64, c) = Q1D!Total(Stretch(f, from, 64))
  <2>1. from + 64 - 1 = from + 63 OBVIOUS
  <2>2. Termwise(f, a, w, from, 64) BY <1>2, <2>1 DEF Termwise
  <2> QED BY <2>2, SignedChunk64
<1> QED BY <1>3, <1>4, LinTotal

(* Rows kept as the signs of their non-zero lanes. *)
LEMMA SparseIs ==
  ASSUME NEW n \in Nat, NEW a \in Seq(Acts7), Len(a) = n, NEW row,
         DOMAIN row \subseteq Nat \ {0}
  PROVE  Lin!SparseAvx512(a, row, n) = Lin!SparseScalar(a, row, n)
<1> DEFINE base(k) == 64 * (k - 1)
           lanes(k) == [e \in base(k) .. n - 1 |->
                          IF e - base(k) \notin row[k].mask THEN 0 ELSE IF e - base(k) \in row[k].neg THEN -1 ELSE 1]
           wide(k) == IF n - base(k) < 64 THEN Lin!SparseBlock(a, row[k], base(k), n - base(k))
                      ELSE Lin!SignedChunk(a, lanes(k), 64, k - 1)
           one(k) == Lin!SparseBlock(a, row[k], base(k), Lin!Min({64, n - base(k)}))
<1>1. ASSUME NEW k \in DOMAIN row PROVE wide(k) = one(k)
  <2> DEFINE from == base(k)
             w == lanes(k)
             c == k - 1
  <2>1. from \in Nat /\ c \in Nat /\ Whole(from, 64, c) /\ n - from \in Int BY DEF Whole
  <2>2. Lin!Min({64, n - from}) = IF 64 <= n - from THEN 64 ELSE n - from BY <2>1, MinTwo
  <2>3. CASE n - from < 64
    <3>1. Lin!Min({64, n - from}) = n - from BY <2>1, <2>2, <2>3
    <3> QED BY <2>3, <3>1
  <2>4. CASE ~(n - from < 64)
    <3>1. Lin!Min({64, n - from}) = 64 /\ from + 64 <= n BY <2>1, <2>2, <2>4
    <3>2. wide(k) = Lin!SignedChunk(a, w, 64, c) /\ one(k) = Lin!SparseBlock(a, row[k], from, 64) BY <2>4, <3>1
    <3>3. LaneWeights(w, row[k], from, n) BY DEF LaneWeights
    <3> HIDE DEF from, c, w, wide, one
    <3>4. Lin!SignedChunk(a, w, 64, c) = Lin!SparseBlock(a, row[k], from, 64) BY <2>1, <3>1, <3>3, SparseChunk
    <3> QED BY <3>2, <3>4
  <2> QED BY <2>3, <2>4
<1>2. Lin!SparseAvx512(a, row, n) = Lin!Total([k \in DOMAIN row |-> wide(k)]) BY DEF Lin!SparseAvx512
<1>3. Lin!SparseScalar(a, row, n) = Lin!Total([k \in DOMAIN row |-> one(k)]) BY DEF Lin!SparseScalar
<1> HIDE DEF wide, one
<1>4. [k \in DOMAIN row |-> wide(k)] = [k \in DOMAIN row |-> one(k)] BY <1>1
<1> QED BY <1>2, <1>3, <1>4

(* Every ternary kernel computes what the scalar one does, whatever the    *)
(* length, the packed bytes, the unused code among them, and the           *)
(* activations; and for the sparse rows the vector kernel what the scalar  *)
(* one does, whatever the lanes.                                           *)
THEOREM TernaryKernelsExact ==
  /\ \A n \in Nat : \A a, b : RowOf(a, b, n) =>
       {Lin!Pack4Avx512(a, b, n), Lin!Pack4Avx2(a, b, n), Lin!Pack4Lut(a, b, n),
        Lin!Pack4Hybrid(a, b, n), Lin!Pack4Vnni(a, b, n)} = {Lin!Pack4Scalar(a, b, n)}
  /\ \A a \in Seq(Acts7) : \A row \in Seq([mask : SUBSET (0 .. 63), neg : SUBSET (0 .. 63)]) :
       Lin!SparseAvx512(a, row, Len(a)) = Lin!SparseScalar(a, row, Len(a))
<1>1. ASSUME NEW n \in Nat, NEW a, NEW b, RowOf(a, b, n)
      PROVE  {Lin!Pack4Avx512(a, b, n), Lin!Pack4Avx2(a, b, n), Lin!Pack4Lut(a, b, n),
              Lin!Pack4Hybrid(a, b, n), Lin!Pack4Vnni(a, b, n)} = {Lin!Pack4Scalar(a, b, n)}
  BY <1>1, SignedDecoders, Vnni4
<1>2. ASSUME NEW a \in Seq(Acts7), NEW row \in Seq([mask : SUBSET (0 .. 63), neg : SUBSET (0 .. 63)])
      PROVE  Lin!SparseAvx512(a, row, Len(a)) = Lin!SparseScalar(a, row, Len(a))
  <2>1. DOMAIN row \subseteq Nat \ {0} /\ Len(a) \in Nat
    <3>1. DOMAIN row = 1 .. Len(row) /\ Len(row) \in Nat OBVIOUS
    <3> QED BY <3>1
  <2> QED BY <2>1, SparseIs
<1> QED BY <1>1, <1>2

-----------------------------------------------------------------------------
(* The binary kernels.                                                     *)

(* Packed vectors of n signs: whole bytes of bits, any past the length.    *)
BitsOf(n) == [0 .. 8 * Q1D!Bytes(n) - 1 -> {0, 1}]
(* Where two packed vectors agree.                                         *)
Agree(a, b, n) == [i \in 0 .. 8 * Q1D!Bytes(n) - 1 |-> IF a[i] = b[i] THEN 1 ELSE 0]

(* A set counted by adding ones.                                           *)
LEMMA CountIs ==
  ASSUME NEW S, IsFiniteSet(S), NEW T \in SUBSET S
  PROVE  Q1D!Total([x \in S |-> IF x \in T THEN 1 ELSE 0]) = Cardinality(T)
<1> DEFINE f == [x \in S |-> IF x \in T THEN 1 ELSE 0]
           s == [U \in SUBSET S |-> Cardinality(U \cap T)]
<1>1. \A U \in SUBSET S : IsFiniteSet(U \cap T) /\ Cardinality(U \cap T) \in Nat
  <2> TAKE U \in SUBSET S
  <2>1. IsFiniteSet(U \cap T) BY FS_Subset
  <2> QED BY <2>1, FS_CardinalityType
<1>2. f \in [S -> Int] OBVIOUS
<1>3. s \in [SUBSET S -> Int]
  <2>1. \A U \in SUBSET S : s[U] \in Int BY <1>1
  <2> QED BY <2>1
<1>4. s[{}] = 0
  <2>1. {} \cap T = {} /\ {} \in SUBSET S OBVIOUS
  <2> QED BY <2>1, FS_EmptySet
<1>5. ASSUME NEW U \in SUBSET S, NEW x \in U PROVE s[U] = f[x] + s[U \ {x}]
  <2>1. U \ {x} \in SUBSET S /\ s[U] = Cardinality(U \cap T) /\ s[U \ {x}] = Cardinality((U \ {x}) \cap T)
    OBVIOUS
  <2>2. CASE x \in T
    <3>1. (U \ {x}) \cap T = (U \cap T) \ {x} /\ x \in U \cap T /\ f[x] = 1 BY <2>2
    <3>2. Cardinality((U \cap T) \ {x}) = Cardinality(U \cap T) - 1 BY <1>1, <3>1, FS_RemoveElement
    <3>3. Cardinality(U \cap T) \in Nat BY <1>1
    <3> HIDE DEF f, s
    <3>4. s[U \ {x}] = Cardinality((U \cap T) \ {x}) BY <2>1, <3>1
    <3>5. s[U] = Cardinality(U \cap T) BY <2>1
    <3>6. s[U \ {x}] = s[U] - 1 /\ s[U] \in Nat BY <3>2, <3>3, <3>4, <3>5
    <3>7. f[x] = 1 BY <3>1
    <3> QED BY <3>6, <3>7
  <2>3. CASE x \notin T
    <3>1. (U \ {x}) \cap T = U \cap T /\ f[x] = 0 BY <2>3
    <3>2. Cardinality(U \cap T) \in Nat BY <1>1
    <3> HIDE DEF f, s
    <3> QED BY <2>1, <3>1, <3>2
  <2> QED BY <2>2, <2>3
<1>6. S \in SUBSET S /\ S \cap T = T /\ s[S] = Cardinality(S \cap T) OBVIOUS
<1> HIDE DEF f, s
<1>7. Adds(s, f, S) BY <1>3, <1>4, <1>5 DEF Adds
<1>8. Q1D!Total(f) = s[S] BY <1>2, <1>7, TotalIs
<1> QED BY <1>6, <1>8 DEF f

(* The bits that agree in a part of the vectors, counted.                  *)
LEMMA AgreeIn ==
  ASSUME NEW n \in Nat, NEW a, NEW b, NEW from \in Nat, NEW to \in Int, to <= 8 * Q1D!Bytes(n)
  PROVE  Q1D!Cardinality({i \in from .. to - 1 : a[i] = b[i]}) = Q1D!Total(Part(Agree(a, b, n), from, to))
<1> DEFINE S == from .. to - 1
           T == {i \in S : a[i] = b[i]}
<1>1. IsFiniteSet(S)
  <2>1. from \in Int /\ to - 1 \in Int OBVIOUS
  <2> QED BY <2>1, FS_Interval
<1>2. Part(Agree(a, b, n), from, to) = [x \in S |-> IF x \in T THEN 1 ELSE 0]
  <2>1. \A i \in S : i \in 0 .. 8 * Q1D!Bytes(n) - 1 BY DEF Q1D!Bytes
  <2>2. \A i \in S : Agree(a, b, n)[i] = IF i \in T THEN 1 ELSE 0 BY <2>1 DEF Agree
  <2> HIDE DEF T
  <2> QED BY <2>2 DEF Part
<1>3. T \in SUBSET S OBVIOUS
<1>4. Q1D!Cardinality(T) = Cardinality(T) BY DEF Q1D!Cardinality, Cardinality
<1> HIDE DEF S, T
<1>5. Q1D!Total([x \in S |-> IF x \in T THEN 1 ELSE 0]) = Cardinality(T) BY <1>1, <1>3, CountIs
<1> QED BY <1>2, <1>4, <1>5 DEF S, T

(* They are integers: ones and zeros.                                      *)
LEMMA AgreeInt ==
  ASSUME NEW n \in Nat, NEW a, NEW b
  PROVE  /\ Ints(Agree(a, b, n), 0, 8 * Q1D!Bytes(n)) /\ Q1D!Bytes(n) \in Nat
         /\ \A i \in 0 .. 8 * Q1D!Bytes(n) - 1 :
              Agree(a, b, n)[i] = (IF a[i] = b[i] THEN 1 ELSE 0) /\ Agree(a, b, n)[i] \in Int
<1>1. Q1D!Bytes(n) \in Nat BY DEF Q1D!Bytes
<1>2. \A i \in 0 .. 8 * Q1D!Bytes(n) - 1 :
        Agree(a, b, n)[i] = (IF a[i] = b[i] THEN 1 ELSE 0) /\ Agree(a, b, n)[i] \in Int BY DEF Agree
<1> QED BY <1>1, <1>2 DEF Ints

(* A nibble's count, looked up.                                            *)
LEMMA NibbleIs ==
  ASSUME NEW p \in {0, 1}, NEW q \in {0, 1}, NEW r \in {0, 1}, NEW s \in {0, 1}
  PROVE  Q1D!NibbleCount[(p + 2 * q + 4 * r + 8 * s) + 1] = p + q + r + s
<1> DEFINE t == Q1D!NibbleCount
<1>1. /\ t[1] = 0 /\ t[2] = 1 /\ t[3] = 1 /\ t[4] = 2 /\ t[5] = 1 /\ t[6] = 2 /\ t[7] = 2 /\ t[8] = 3
      /\ t[9] = 1 /\ t[10] = 2 /\ t[11] = 2 /\ t[12] = 3 /\ t[13] = 2 /\ t[14] = 3 /\ t[15] = 3 /\ t[16] = 4
  BY DEF Q1D!NibbleCount
<1> HIDE DEF t
<1>2. (p = 0 \/ p = 1) /\ (q = 0 \/ q = 1) /\ (r = 0 \/ r = 1) /\ (s = 0 \/ s = 1) OBVIOUS
<1>3. t[(p + 2 * q + 4 * r + 8 * s) + 1] = p + q + r + s
  <2>1. CASE s = 0 /\ r = 0 BY <1>1, <1>2, <2>1
  <2>2. CASE s = 0 /\ r = 1 BY <1>1, <1>2, <2>2
  <2>3. CASE s = 1 /\ r = 0 BY <1>1, <1>2, <2>3
  <2>4. CASE s = 1 /\ r = 1 BY <1>1, <1>2, <2>4
  <2> QED BY <1>2, <2>1, <2>2, <2>3, <2>4
<1> QED BY <1>3 DEF t

(* Powers of two.                                                          *)
LEMMA PowersOfTwo == 2 ^ 0 = 1 /\ 2 ^ 1 = 2 /\ 2 ^ 2 = 4 /\ 2 ^ 3 = 8
OBVIOUS

(* The lookup of a nibble counts where its bits agree.                     *)
LEMMA NibbleAgrees ==
  ASSUME NEW n \in Nat, NEW a, NEW b, NEW k \in Nat, k + 3 < 8 * Q1D!Bytes(n)
  PROVE  Q1D!NibbleCount[Q1D!Nibble(a, b, k) + 1]
           = Agree(a, b, n)[k] + Agree(a, b, n)[k + 1] + Agree(a, b, n)[k + 2] + Agree(a, b, n)[k + 3]
<1> DEFINE e == Agree(a, b, n)
           t == [j \in 0 .. 3 |-> IF a[k + j] = b[k + j] THEN 2 ^ j ELSE 0]
<1>0. Q1D!Bytes(n) \in Nat BY AgreeInt
<1>1. ASSUME NEW j \in 0 .. 3 PROVE e[k + j] = IF a[k + j] = b[k + j] THEN 1 ELSE 0
  <2>1. k + j \in 0 .. 8 * Q1D!Bytes(n) - 1 BY <1>0
  <2> QED BY <2>1, AgreeInt
<1>2. k + 0 = k OBVIOUS
<1>3. 0 \in 0 .. 3 /\ 1 \in 0 .. 3 /\ 2 \in 0 .. 3 /\ 3 \in 0 .. 3 /\ \A j \in 0 .. 3 : j = 0 \/ j = 1 \/ j = 2 \/ j = 3
  OBVIOUS
<1> HIDE DEF e
<1>4. e[k] \in {0, 1} /\ e[k + 1] \in {0, 1} /\ e[k + 2] \in {0, 1} /\ e[k + 3] \in {0, 1}
  <2>1. \A j \in 0 .. 3 : e[k + j] \in {0, 1} BY <1>1
  <2>2. e[k + 0] \in {0, 1} /\ e[k + 1] \in {0, 1} /\ e[k + 2] \in {0, 1} /\ e[k + 3] \in {0, 1} BY <1>3, <2>1
  <2> QED BY <1>2, <2>2
<1>5. t[0] = e[k] /\ t[1] = 2 * e[k + 1] /\ t[2] = 4 * e[k + 2] /\ t[3] = 8 * e[k + 3]
  <2>1. \A j \in 0 .. 3 : t[j] = IF a[k + j] = b[k + j] THEN 2 ^ j ELSE 0 OBVIOUS
  <2> HIDE DEF t
  <2>2. ASSUME NEW j \in 0 .. 3 PROVE t[j] = IF e[k + j] = 1 THEN 2 ^ j ELSE 0
    <3>1. e[k + j] = 1 <=> a[k + j] = b[k + j] BY <1>1
    <3> QED BY <2>1, <3>1
  <2>3. /\ t[0] = (IF e[k + 0] = 1 THEN 2 ^ 0 ELSE 0) /\ t[1] = (IF e[k + 1] = 1 THEN 2 ^ 1 ELSE 0)
        /\ t[2] = (IF e[k + 2] = 1 THEN 2 ^ 2 ELSE 0) /\ t[3] = (IF e[k + 3] = 1 THEN 2 ^ 3 ELSE 0)
    BY <1>3, <2>2
  <2> QED BY <1>2, <1>4, <2>3, PowersOfTwo
<1>6. t \in [0 .. 3 -> Int]
  <2>1. \A j \in 0 .. 3 : t[j] \in Int
    <3> HIDE DEF t
    <3>1. t[0] \in Int /\ t[1] \in Int /\ t[2] \in Int /\ t[3] \in Int BY <1>4, <1>5
    <3> QED BY <1>3, <3>1
  <2> QED BY <2>1
<1>7. Q1D!Nibble(a, b, k) = Q1D!Total(t) BY DEF Q1D!Nibble
<1> HIDE DEF t
<1>8. Q1D!Total(t) = t[0] + t[1] + t[2] + t[3] BY <1>6, FourAdd
<1>9. Q1D!Nibble(a, b, k) = e[k] + 2 * e[k + 1] + 4 * e[k + 2] + 8 * e[k + 3] BY <1>4, <1>5, <1>7, <1>8
<1>10. Q1D!NibbleCount[(e[k] + 2 * e[k + 1] + 4 * e[k + 2] + 8 * e[k + 3]) + 1] = e[k] + e[k + 1] + e[k + 2] + e[k + 3]
  BY <1>4, NibbleIs
<1> QED BY <1>9, <1>10 DEF e

(* A 32-byte step counts where its 256 bits agree.                         *)
LEMMA LookedUpIs ==
  ASSUME NEW n \in Nat, NEW a, NEW b, NEW from \in Nat, from + 256 <= 8 * Q1D!Bytes(n), NEW c \in Nat, Whole(from, 256, c)
  PROVE  Q1D!LookedUp(a, b, c) = Q1D!Total(Stretch(Agree(a, b, n), from, 256))
<1> DEFINE e == Agree(a, b, n)
           f == Stretch(e, from, 256)
           g == [x \in 0 .. 63 |-> Q1D!NibbleCount[Q1D!Nibble(a, b, from + 4 * x) + 1]]
           m == 64
<1>0. Q1D!Bytes(n) \in Nat BY AgreeInt
<1>1. \A i \in 0 .. 255 : f[i] = e[from + i] /\ f[i] \in Int
  <2> TAKE i \in 0 .. 255
  <2>1. from + i \in 0 .. 8 * Q1D!Bytes(n) - 1 BY <1>0
  <2>2. e[from + i] \in Int BY <2>1, AgreeInt
  <2>3. 256 - 1 = 255 OBVIOUS
  <2>4. f[i] = e[from + i] BY <2>3 DEF Stretch
  <2> QED BY <2>2, <2>4
<1>2. \A x \in 0 .. 63 : g[x] = f[4 * x] + f[4 * x + 1] + f[4 * x + 2] + f[4 * x + 3]
  <2> TAKE x \in 0 .. 63
  <2> DEFINE k == from + 4 * x
  <2>1. k \in Nat /\ k + 3 < 8 * Q1D!Bytes(n) BY <1>0
  <2>2. g[x] = Q1D!NibbleCount[Q1D!Nibble(a, b, k) + 1] OBVIOUS
  <2>3. 4 * x \in 0 .. 255 /\ 4 * x + 1 \in 0 .. 255 /\ 4 * x + 2 \in 0 .. 255 /\ 4 * x + 3 \in 0 .. 255 OBVIOUS
  <2>4. from + (4 * x + 1) = k + 1 /\ from + (4 * x + 2) = k + 2 /\ from + (4 * x + 3) = k + 3 OBVIOUS
  <2> HIDE DEF f, g, e
  <2>5. f[4 * x] = e[k] /\ f[4 * x + 1] = e[k + 1] /\ f[4 * x + 2] = e[k + 2] /\ f[4 * x + 3] = e[k + 3]
    BY <1>1, <2>3, <2>4
  <2> HIDE DEF k
  <2>6. Q1D!NibbleCount[Q1D!Nibble(a, b, k) + 1] = e[k] + e[k + 1] + e[k + 2] + e[k + 3]
    BY <2>1, NibbleAgrees DEF e
  <2> QED BY <2>2, <2>5, <2>6
<1>3. Q1D!LookedUp(a, b, c) = Q1D!Total(g)
  <2>1. 256 * c = from BY DEF Whole
  <2> QED BY <2>1 DEF Q1D!LookedUp
<1>4. m \in Nat /\ m - 1 = 63 /\ 4 * m = 256 /\ 4 * m - 1 = 255 OBVIOUS
<1>5. g = [x \in 0 .. m - 1 |-> f[4 * x] + f[4 * x + 1] + f[4 * x + 2] + f[4 * x + 3]]
  <2>1. g = [x \in 0 .. 63 |-> g[x]] OBVIOUS
  <2> HIDE DEF g, m, f
  <2> QED BY <1>2, <1>4, <2>1
<1>6. Part(f, 0, 256) = f
  <2> QED BY DEF Part, Stretch
<1> HIDE DEF f, g, m
<1>7. Q1D!Total([x \in 0 .. m - 1 |-> f[4 * x] + f[4 * x + 1] + f[4 * x + 2] + f[4 * x + 3]]) = Q1D!Total(Part(f, 0, 4 * m))
  <2>1. \A i \in 0 .. 4 * m - 1 : f[i] \in Int BY <1>1, <1>4
  <2>2. m \in Nat BY <1>4
  <2> QED BY <2>1, <2>2, TotalFours
<1>8. Q1D!Total(g) = Q1D!Total(Part(f, 0, 256)) BY <1>4, <1>5, <1>7
<1> QED BY <1>3, <1>6, <1>8 DEF f, e

(* What is left past whole steps, and a 64-bit word, counted.              *)
LEMMA MatchesIs ==
  ASSUME NEW n \in Nat, NEW a, NEW b, NEW from \in Nat, NEW to \in Nat, to <= Q1D!Bytes(n)
  PROVE  Q1D!Matches(a, b, from, to) = Q1D!Total(Part(Agree(a, b, n), 8 * from, 8 * to))
<1> DEFINE lo == 8 * from
           hi == 8 * to
<1>1. lo \in Nat /\ hi \in Int /\ hi <= 8 * Q1D!Bytes(n) BY AgreeInt
<1>2. Q1D!Matches(a, b, from, to) = Q1D!Cardinality({i \in lo .. hi - 1 : a[i] = b[i]}) BY DEF Q1D!Matches
<1> HIDE DEF lo, hi
<1>3. Q1D!Cardinality({i \in lo .. hi - 1 : a[i] = b[i]}) = Q1D!Total(Part(Agree(a, b, n), lo, hi)) BY <1>1, AgreeIn
<1> QED BY <1>2, <1>3 DEF lo, hi

(* Twice the matches less the length, the padding taken off.               *)
LEMMA SignedIs ==
  ASSUME NEW n \in Nat, NEW a, NEW b
  PROVE  Q1D!Signed(Q1D!Total(Part(Agree(a, b, n), 0, 8 * Q1D!Bytes(n))), a, b, n)
           = 2 * Q1D!Total(Part(Agree(a, b, n), 0, n)) - n
<1> DEFINE e == Agree(a, b, n)
           all == 8 * Q1D!Bytes(n)
<1>1. all \in Nat /\ n <= all /\ (n % 8 = 0 => all = n) BY DEF Q1D!Bytes
<1>2. \A i \in 0 .. all - 1 : e[i] \in Int BY AgreeInt DEF Ints
<1>3. Q1D!PaddingMatches(a, b, n) = IF n % 8 = 0 THEN 0 ELSE Q1D!Cardinality({i \in n .. all - 1 : a[i] = b[i]})
  BY DEF Q1D!PaddingMatches
<1>4. Q1D!Cardinality({i \in n .. all - 1 : a[i] = b[i]}) = Q1D!Total(Part(e, n, all))
  <2>1. all <= 8 * Q1D!Bytes(n) BY <1>1
  <2> HIDE DEF all
  <2> QED BY <1>1, <2>1, AgreeIn
<1> HIDE DEF e, all
<1>5. /\ Q1D!Total(Part(e, 0, all)) = Q1D!Total(Part(e, 0, n)) + Q1D!Total(Part(e, n, all))
      /\ Q1D!Total(Part(e, 0, n)) \in Int /\ Q1D!Total(Part(e, n, all)) \in Int
  <2>1. 0 \in Int /\ n \in Int /\ all \in Int /\ 0 <= n /\ n <= all BY <1>1
  <2> QED BY <1>2, <2>1, TotalCutAt
<1>6. Q1D!PaddingMatches(a, b, n) = Q1D!Total(Part(e, n, all))
  <2>1. CASE n % 8 = 0
    <3>1. n .. n - 1 = {} /\ all = n BY <1>1, <2>1
    <3>2. Part(e, n, all) \in [{} -> Int] BY <3>1 DEF Part
    <3>3. Q1D!Total(Part(e, n, all)) = 0 BY <3>2, TotalInt, FS_EmptySet
    <3> QED BY <1>3, <2>1, <3>3
  <2>2. CASE n % 8 # 0 BY <1>3, <1>4, <2>2
  <2> QED BY <2>1, <2>2
<1>7. Q1D!Signed(Q1D!Total(Part(e, 0, all)), a, b, n) = 2 * (Q1D!Total(Part(e, 0, all)) - Q1D!PaddingMatches(a, b, n)) - n
  BY DEF Q1D!Signed
<1>8. Q1D!Signed(Q1D!Total(Part(e, 0, all)), a, b, n) = 2 * Q1D!Total(Part(e, 0, n)) - n BY <1>5, <1>6, <1>7
<1> QED BY <1>8 DEF e, all

Signs(e, n) == [i \in 0 .. n - 1 |-> IF e[i] = 1 THEN 1 ELSE -1]
(* Agreements count 1 and disagreements -1.                                *)
LEMMA SignsAdd ==
  ASSUME NEW n \in Nat, NEW e, \A i \in 0 .. n - 1 : e[i] \in {0, 1}
  PROVE  Q1D!Total(Signs(e, n)) = 2 * Q1D!Total(Part(e, 0, n)) - n
<1> DEFINE S == 0 .. n - 1
           p == [i \in S |-> e[i]]
           g == Signs(e, n)
           ones == [i \in S |-> 1]
<1>1. IsFiniteSet(S) /\ Cardinality(S) = n
  <2>1. 0 \in Int /\ n - 1 \in Int OBVIOUS
  <2>2. IsFiniteSet(S) /\ Cardinality(S) = IF 0 > n - 1 THEN 0 ELSE (n - 1) - 0 + 1 BY <2>1, FS_Interval
  <2> QED BY <2>2
<1>2. p \in [S -> Int] /\ g \in [S -> Int] /\ ones \in [S -> Int]
      /\ \A i \in S : p[i] \in Int /\ g[i] \in Int /\ ones[i] \in Int /\ g[i] + ones[i] = p[i] + p[i]
  <2>1. ASSUME NEW i \in S
        PROVE  (p[i] = 0 \/ p[i] = 1) /\ ones[i] = 1 /\ (p[i] = 1 => g[i] = 1) /\ (p[i] = 0 => g[i] = -1)
    <3>1. p[i] = e[i] /\ e[i] \in {0, 1} /\ ones[i] = 1 OBVIOUS
    <3>2. g[i] = IF e[i] = 1 THEN 1 ELSE -1 BY DEF Signs
    <3> QED BY <3>1, <3>2
  <2>2. p = [i \in S |-> p[i]] /\ ones = [i \in S |-> ones[i]] /\ g = [i \in S |-> g[i]] BY DEF Signs
  <2> HIDE DEF p, ones, S, g
  <2>3. ASSUME NEW i \in S PROVE p[i] \in Int /\ g[i] \in Int /\ ones[i] \in Int /\ g[i] + ones[i] = p[i] + p[i]
    <3>1. CASE p[i] = 0 BY <2>1, <3>1
    <3>2. CASE p[i] = 1 BY <2>1, <3>2
    <3> QED BY <2>1, <3>1, <3>2
  <2> QED BY <2>2, <2>3
<1>3. Q1D!Total(ones) = n
  <2>1. S \in SUBSET S /\ ones = [x \in S |-> IF x \in S THEN 1 ELSE 0] OBVIOUS
  <2> HIDE DEF S, ones
  <2> QED BY <1>1, <2>1, CountIs
<1>4. Part(e, 0, n) = p BY DEF Part
<1> HIDE DEF S, p, ones, g
<1>5. [i \in S |-> g[i] + ones[i]] = [i \in S |-> p[i] + p[i]] BY <1>2
<1>6. Q1D!Total([i \in S |-> g[i] + ones[i]]) = Q1D!Total(g) + Q1D!Total(ones) BY <1>1, <1>2, TotalSum
<1>7. Q1D!Total([i \in S |-> p[i] + p[i]]) = Q1D!Total(p) + Q1D!Total(p) BY <1>1, <1>2, TotalSum
<1>8. Q1D!Total(g) \in Int /\ Q1D!Total(p) \in Int BY <1>1, <1>2, TotalInt
<1> QED BY <1>3, <1>4, <1>5, <1>6, <1>7, <1>8 DEF g

(* The dot product of the signs packed in a and b.                         *)
SignsOf(a, b, n) == Q1D!Total([i \in 0 .. n - 1 |-> IF a[i] = b[i] THEN 1 ELSE -1])

(* Whole chunks of bits and the rest are all of them, in the words of the  *)
(* scalar kernel and in the steps of the vector one.                       *)
LEMMA XnorChunks ==
  ASSUME NEW n \in Nat, NEW a, NEW b, NEW size \in Nat \ {0}, NEW ch,
         LET m == Q1D!Bytes(n) \div size
         IN Chunked(ch, Agree(a, b, n), 8 * size, m)
  PROVE  LET m == Q1D!Bytes(n) \div size
         IN Q1D!Signed(Q1D!Total(ch) + Q1D!Matches(a, b, size * m, Q1D!Bytes(n)), a, b, n) = SignsOf(a, b, n)
<1> DEFINE e == Agree(a, b, n)
           bytes == Q1D!Bytes(n)
           m == bytes \div size
           from == size * m
           all == 8 * from
           w == 8 * size
           total == 8 * bytes
<1>1. bytes \in Nat /\ Ints(e, 0, total) BY AgreeInt
<1>2. Chunked(ch, e, w, m) OBVIOUS
<1> HIDE DEF bytes
<1>3. m \in Nat /\ from <= bytes BY <1>1, DivIs
<1>4. from \in Nat /\ w \in Nat /\ total \in Nat
  <2>1. \A x \in Nat : size * x \in Nat OBVIOUS
  <2> HIDE DEF m
  <2> QED BY <1>1, <1>3, <2>1
<1>5. all \in Nat /\ all <= total /\ all = w * m
  <2>1. 8 * (size * m) = (8 * size) * m
    <3> HIDE DEF m
    <3> QED BY <1>3
  <2> HIDE DEF m
  <2>2. all = w * m BY <2>1
  <2> HIDE DEF from, w
  <2> QED BY <1>1, <1>3, <1>4, <2>2
<1>6. Q1D!Matches(a, b, from, bytes) = Q1D!Total(Part(e, all, total))
  <2>1. bytes <= Q1D!Bytes(n) BY <1>1 DEF bytes
  <2> HIDE DEF from, e
  <2> QED BY <1>1, <1>4, <2>1, MatchesIs DEF e
<1> HIDE DEF e, all, w, total, m
<1>7. Q1D!Total(Part(e, 0, total)) = Q1D!Total(ch) + Q1D!Total(Part(e, all, total))
  BY <1>1, <1>2, <1>3, <1>4, <1>5, ChunksAndTail
<1>8. Q1D!Signed(Q1D!Total(Part(e, 0, total)), a, b, n) = 2 * Q1D!Total(Part(e, 0, n)) - n
  BY SignedIs DEF e, total, bytes
<1>9. SignsOf(a, b, n) = 2 * Q1D!Total(Part(e, 0, n)) - n
  <2>1. n <= 8 * Q1D!Bytes(n) BY DEF Q1D!Bytes
  <2>2. ASSUME NEW i \in 0 .. n - 1 PROVE e[i] = (IF a[i] = b[i] THEN 1 ELSE 0)
    <3>1. i \in 0 .. 8 * Q1D!Bytes(n) - 1 BY <2>1, AgreeInt
    <3> QED BY <3>1, AgreeInt DEF e
  <2>3. \A i \in 0 .. n - 1 : e[i] \in {0, 1} /\ (e[i] = 1 <=> a[i] = b[i]) BY <2>2
  <2>4. Signs(e, n) = [i \in 0 .. n - 1 |-> IF a[i] = b[i] THEN 1 ELSE -1] BY <2>3 DEF Signs
  <2>6. Q1D!Total(Signs(e, n)) = 2 * Q1D!Total(Part(e, 0, n)) - n BY <2>3, SignsAdd
  <2> QED BY <2>4, <2>6 DEF SignsOf
<1> QED BY <1>6, <1>7, <1>8, <1>9 DEF m, bytes, from

(* The scalar kernel, by 64-bit words.                                     *)
LEMMA ScalarXnor ==
  ASSUME NEW n \in Nat, NEW a, NEW b
  PROVE  Q1D!XnorScalar(a, b, n) = SignsOf(a, b, n)
<1> DEFINE m == Q1D!Bytes(n) \div 8
           ch == [w \in 0 .. m - 1 |-> Q1D!Matches(a, b, 8 * w, 8 * w + 8)]
<1>1. Q1D!Bytes(n) \in Nat BY AgreeInt
<1>2. m \in Nat /\ 8 * m <= Q1D!Bytes(n) BY <1>1
<1> HIDE DEF m
<1>3. ASSUME NEW w \in 0 .. m - 1
      PROVE  Q1D!Matches(a, b, 8 * w, 8 * w + 8) = Q1D!Total(Stretch(Agree(a, b, n), 64 * w, 64))
  <2> DEFINE lo == 8 * w
             hi == 8 * w + 8
             from == 64 * w
             e == Agree(a, b, n)
  <2>1. lo \in Nat /\ hi \in Nat /\ hi <= Q1D!Bytes(n) /\ from \in Int /\ 64 \in Nat BY <1>1, <1>2
  <2>2. 8 * lo = from /\ 8 * hi = from + 64 OBVIOUS
  <2>3. \A i \in from .. from + 64 - 1 : i \in 0 .. 8 * Q1D!Bytes(n) - 1 BY <1>1, <1>2
  <2> HIDE DEF lo, hi, from
  <2>4. \A i \in from .. from + 64 - 1 : e[i] \in Int BY <2>3, AgreeInt
  <2>5. Q1D!Matches(a, b, lo, hi) = Q1D!Total(Part(e, 8 * lo, 8 * hi)) BY <2>1, MatchesIs
  <2> HIDE DEF e
  <2>6. Q1D!Total(Stretch(e, from, 64)) = Q1D!Total(Part(e, from, from + 64)) BY <2>1, <2>4, TotalShift
  <2>7. Q1D!Matches(a, b, lo, hi) = Q1D!Total(Stretch(e, from, 64)) BY <2>2, <2>5, <2>6
  <2> QED BY <2>7 DEF lo, hi, from, e
<1>4. 8 * 8 = 64 /\ 8 \in Nat \ {0} OBVIOUS
<1>5. Chunked(ch, Agree(a, b, n), 8 * 8, m) BY <1>3, <1>4 DEF Chunked
<1>6. Q1D!XnorScalar(a, b, n) = Q1D!Signed(Q1D!Total(ch) + Q1D!Matches(a, b, 8 * m, Q1D!Bytes(n)), a, b, n)
  BY DEF Q1D!XnorScalar, m
<1> HIDE DEF ch
<1> DEFINE size == 8
<1>7. size \in Nat \ {0} /\ Chunked(ch, Agree(a, b, n), 8 * size, Q1D!Bytes(n) \div size) BY <1>5 DEF m
<1> HIDE DEF size
<1>8. Q1D!Signed(Q1D!Total(ch) + Q1D!Matches(a, b, size * (Q1D!Bytes(n) \div size), Q1D!Bytes(n)), a, b, n) = SignsOf(a, b, n)
  BY <1>7, XnorChunks
<1> QED BY <1>6, <1>8 DEF size, m

(* The AVX2 kernel, by steps of 32 bytes.                                  *)
LEMMA Avx2Xnor ==
  ASSUME NEW n \in Nat, NEW a, NEW b
  PROVE  Q1D!XnorAvx2(a, b, n) = SignsOf(a, b, n)
<1> DEFINE m == Q1D!Bytes(n) \div 32
           ch == [c \in 0 .. m - 1 |-> Q1D!LookedUp(a, b, c)]
<1>1. Q1D!Bytes(n) \in Nat BY AgreeInt
<1>2. m \in Nat /\ 32 * m <= Q1D!Bytes(n) BY <1>1
<1> HIDE DEF m
<1>3. ASSUME NEW c \in 0 .. m - 1 PROVE Q1D!LookedUp(a, b, c) = Q1D!Total(Stretch(Agree(a, b, n), 256 * c, 256))
  <2> DEFINE from == 256 * c
  <2>1. from \in Nat /\ from + 256 <= 8 * Q1D!Bytes(n) /\ c \in Nat BY <1>1, <1>2
  <2>2. Whole(from, 256, c) BY DEF Whole
  <2> HIDE DEF from
  <2>3. Q1D!LookedUp(a, b, c) = Q1D!Total(Stretch(Agree(a, b, n), from, 256)) BY <2>1, <2>2, LookedUpIs
  <2> QED BY <2>3 DEF from
<1>4. 8 * 32 = 256 OBVIOUS
<1>5. Chunked(ch, Agree(a, b, n), 8 * 32, m) BY <1>3, <1>4 DEF Chunked
<1>6. Q1D!XnorAvx2(a, b, n) = Q1D!Signed(Q1D!Total(ch) + Q1D!Matches(a, b, 32 * m, Q1D!Bytes(n)), a, b, n)
  BY DEF Q1D!XnorAvx2, m
<1> HIDE DEF ch
<1> DEFINE size == 32
<1>7. size \in Nat \ {0} /\ Chunked(ch, Agree(a, b, n), 8 * size, Q1D!Bytes(n) \div size) BY <1>5 DEF m
<1> HIDE DEF size
<1>8. Q1D!Signed(Q1D!Total(ch) + Q1D!Matches(a, b, size * (Q1D!Bytes(n) \div size), Q1D!Bytes(n)), a, b, n) = SignsOf(a, b, n)
  BY <1>7, XnorChunks
<1> QED BY <1>6, <1>8 DEF size, m

(* A number of whole widths and a remainder.                               *)
LEMMA QuotientIs ==
  ASSUME NEW w \in Nat \ {0}, NEW o \in Nat, NEW i \in Nat, i < w
  PROVE  (w * o + i) \div w = o /\ (w * o + i) % w = i
OBVIOUS

(* A row read back from the packed rows is the row packed.                 *)
LEMMA RowReadBack ==
  ASSUME NEW n \in Nat, NEW rows \in Seq(Seq(Int)), \A i \in DOMAIN rows : Len(rows[i]) = n,
         NEW o \in 0 .. Len(rows) - 1
  PROVE  Q1D!PackedRow(Q1D!PackRows(rows), o, n) = Q1D!Pack1(rows[o + 1])
<1> DEFINE w == 8 * Q1D!Bytes(n)
           packed == Q1D!PackRows(rows)
           row == Q1D!Pack1(rows[o + 1])
           k == Len(rows)
<1>1. Q1D!Bytes(n) \in Nat /\ w \in Nat /\ k \in Nat /\ 1 \in 1 .. k /\ o + 1 \in 1 .. k /\ DOMAIN rows = 1 .. k
  <2>1. Q1D!Bytes(n) \in Nat BY AgreeInt
  <2>2. k \in Nat /\ DOMAIN rows = 1 .. k OBVIOUS
  <2>3. o \in 0 .. k - 1 OBVIOUS
  <2> HIDE DEF k
  <2> QED BY <2>1, <2>2, <2>3
<1>2. Len(rows[1]) = n /\ Len(rows[o + 1]) = n
  <2>1. 1 \in DOMAIN rows /\ o + 1 \in DOMAIN rows BY <1>1
  <2> QED BY <2>1
<1>3. packed = [x \in 0 .. w * k - 1 |-> Q1D!Pack1(rows[(x \div w) + 1])[x % w]] BY <1>2 DEF Q1D!PackRows
<1>4. Q1D!PackedRow(packed, o, n) = [i \in 0 .. w - 1 |-> packed[w * o + i]]
  <2>1. 8 * o * Q1D!Bytes(n) = w * o
    <3>1. \A y \in Nat : 8 * o * y = (8 * y) * o OBVIOUS
    <3> QED BY <1>1, <3>1
  <2> HIDE DEF packed
  <2> QED BY <2>1 DEF Q1D!PackedRow
<1>5. row = [i \in 0 .. w - 1 |-> row[i]]
  <2>1. row = [i \in 0 .. w - 1 |-> IF i < n /\ rows[o + 1][i + 1] >= 0 THEN 1 ELSE 0] BY <1>2 DEF Q1D!Pack1
  <2> HIDE DEF row
  <2> QED BY <2>1
<1> HIDE DEF packed, row, w, k
<1>6. ASSUME NEW i \in 0 .. w - 1 PROVE packed[w * o + i] = row[i]
  <2> DEFINE x == w * o + i
  <2>1. w \in Nat \ {0} /\ i \in Nat /\ i < w /\ o \in Nat /\ k - (o + 1) \in Nat BY <1>1 DEF k
  <2>2. x \in 0 .. w * k - 1
    <3>1. \A y \in Nat : w * y \in Nat BY <1>1
    <3>2. w * k = w * o + w + w * (k - (o + 1))
      <4>1. \A y, z \in Int : w * (y + 1 + z) = w * y + w + w * z BY <2>1
      <4>2. o \in Int /\ k - (o + 1) \in Int /\ o + 1 + (k - (o + 1)) = k BY <1>1, <2>1
      <4> QED BY <4>1, <4>2
    <3>3. w * o \in Nat /\ w * (k - (o + 1)) \in Nat /\ w * k \in Nat
      <4>1. k \in Nat BY <1>1
      <4> QED BY <2>1, <3>1, <4>1
    <3> DEFINE u == w * o
               v == w * (k - (o + 1))
               z == w * k
    <3>4. u \in Nat /\ v \in Nat /\ z \in Nat /\ z = u + w + v BY <3>2, <3>3
    <3>5. x = u + i OBVIOUS
    <3> HIDE DEF u, v, z
    <3>6. x \in 0 .. z - 1 BY <2>1, <3>4, <3>5
    <3> QED BY <3>6 DEF z
  <2>3. x \div w = o /\ x % w = i BY <2>1, QuotientIs
  <2> HIDE DEF x
  <2>4. packed[x] = Q1D!Pack1(rows[o + 1])[i] BY <1>3, <2>2, <2>3
  <2> QED BY <2>4 DEF x, row
<1> QED BY <1>4, <1>5, <1>6 DEF packed, row

(* Both binary kernels give the dot product of the signs of two vectors of *)
(* any length, packed alone or read back from a matrix of packed rows, and *)
(* whatever the bits past their ends hold.                                 *)
THEOREM BinaryKernelsExact ==
  \A n \in Nat :
    /\ \A a, b \in BitsOf(n) :
         {Q1D!XnorScalar(a, b, n), Q1D!XnorAvx2(a, b, n)}
           = {Q1D!Total([i \in 0 .. n - 1 |-> IF a[i] = b[i] THEN 1 ELSE -1])}
    /\ \A w \in Seq(Int), rows \in Seq(Seq(Int)) : \A o \in 0 .. Len(rows) - 1 :
         Len(w) = n /\ (\A i \in DOMAIN rows : Len(rows[i]) = n) =>
           LET p == Q1D!Pack1(w)
               q == Q1D!PackedRow(Q1D!PackRows(rows), o, n)
           IN {Q1D!XnorScalar(p, q, n), Q1D!XnorAvx2(p, q, n)}
                = {Q1D!Total([i \in 0 .. n - 1 |-> IF (w[i + 1] >= 0) = (rows[o + 1][i + 1] >= 0) THEN 1 ELSE -1])}
<1> SUFFICES ASSUME NEW n \in Nat
             PROVE  /\ \A a, b \in BitsOf(n) :
                         {Q1D!XnorScalar(a, b, n), Q1D!XnorAvx2(a, b, n)}
                           = {Q1D!Total([i \in 0 .. n - 1 |-> IF a[i] = b[i] THEN 1 ELSE -1])}
                    /\ \A w \in Seq(Int), rows \in Seq(Seq(Int)) : \A o \in 0 .. Len(rows) - 1 :
                         Len(w) = n /\ (\A i \in DOMAIN rows : Len(rows[i]) = n) =>
                           LET p == Q1D!Pack1(w)
                               q == Q1D!PackedRow(Q1D!PackRows(rows), o, n)
                           IN {Q1D!XnorScalar(p, q, n), Q1D!XnorAvx2(p, q, n)}
                                = {Q1D!Total([i \in 0 .. n - 1 |->
                                     IF (w[i + 1] >= 0) = (rows[o + 1][i + 1] >= 0) THEN 1 ELSE -1])}
  OBVIOUS
<1>1. \A a, b : {Q1D!XnorScalar(a, b, n), Q1D!XnorAvx2(a, b, n)} = {SignsOf(a, b, n)} BY ScalarXnor, Avx2Xnor
<1>2. ASSUME NEW a, NEW b
      PROVE  {Q1D!XnorScalar(a, b, n), Q1D!XnorAvx2(a, b, n)}
               = {Q1D!Total([i \in 0 .. n - 1 |-> IF a[i] = b[i] THEN 1 ELSE -1])}
  BY <1>1 DEF SignsOf
<1>3. ASSUME NEW w \in Seq(Int), NEW rows \in Seq(Seq(Int)), NEW o \in 0 .. Len(rows) - 1, Len(w) = n,
             \A i \in DOMAIN rows : Len(rows[i]) = n
      PROVE  LET p == Q1D!Pack1(w)
                 q == Q1D!PackedRow(Q1D!PackRows(rows), o, n)
             IN {Q1D!XnorScalar(p, q, n), Q1D!XnorAvx2(p, q, n)}
                  = {Q1D!Total([i \in 0 .. n - 1 |-> IF (w[i + 1] >= 0) = (rows[o + 1][i + 1] >= 0) THEN 1 ELSE -1])}
  <2> DEFINE p == Q1D!Pack1(w)
             q == Q1D!PackedRow(Q1D!PackRows(rows), o, n)
             x == rows[o + 1]
  <2>1. q = Q1D!Pack1(x) BY <1>3, RowReadBack
  <2>2. Len(x) = n
    <3>1. DOMAIN rows = 1 .. Len(rows) /\ Len(rows) \in Nat OBVIOUS
    <3>2. o + 1 \in DOMAIN rows BY <3>1
    <3> QED BY <1>3, <3>2
  <2> HIDE DEF q, x
  <2>3. ASSUME NEW i \in 0 .. n - 1
        PROVE  p[i] = (IF w[i + 1] >= 0 THEN 1 ELSE 0) /\ q[i] = (IF x[i + 1] >= 0 THEN 1 ELSE 0)
    <3>1. i \in 0 .. 8 * Q1D!Bytes(n) - 1 /\ i < n BY DEF Q1D!Bytes
    <3>2. p = [j \in 0 .. 8 * Q1D!Bytes(n) - 1 |-> IF j < n /\ w[j + 1] >= 0 THEN 1 ELSE 0] BY <1>3 DEF Q1D!Pack1
    <3>3. q = [j \in 0 .. 8 * Q1D!Bytes(n) - 1 |-> IF j < n /\ x[j + 1] >= 0 THEN 1 ELSE 0] BY <2>1, <2>2 DEF Q1D!Pack1
    <3> HIDE DEF p
    <3> QED BY <3>1, <3>2, <3>3
  <2>4. \A i \in 0 .. n - 1 : p[i] = q[i] <=> ((w[i + 1] >= 0) = (x[i + 1] >= 0)) BY <2>3
  <2> HIDE DEF p
  <2>5. [i \in 0 .. n - 1 |-> IF p[i] = q[i] THEN 1 ELSE -1]
          = [i \in 0 .. n - 1 |-> IF (w[i + 1] >= 0) = (x[i + 1] >= 0) THEN 1 ELSE -1] BY <2>4
  <2>6. {Q1D!XnorScalar(p, q, n), Q1D!XnorAvx2(p, q, n)}
          = {Q1D!Total([i \in 0 .. n - 1 |-> IF p[i] = q[i] THEN 1 ELSE -1])} BY <1>2
  <2> QED BY <2>5, <2>6 DEF p, q, x
<1> QED BY <1>2, <1>3

-----------------------------------------------------------------------------
(* Packed rows: what comes back from them.                                 *)

(* Five terms.                                                             *)
LEMMA FiveAdd ==
  ASSUME NEW f \in [0 .. 4 -> Int]
  PROVE  Q1D!Total(f) = f[0] + f[1] + f[2] + f[3] + f[4]
<1> DEFINE n == 5
<1>1. f \in [0 .. n - 1 -> Int] /\ n \in Nat OBVIOUS
<1> HIDE DEF n
<1>2. PICK c \in [0 .. n -> Int] : c[0] = 0 /\ (\A k \in 0 .. n - 1 : c[k + 1] = c[k] + f[k]) /\ Q1D!Total(f) = c[n]
  BY <1>1, TotalUp
<1>3. c[1] = c[0] + f[0] /\ c[2] = c[1] + f[1] /\ c[3] = c[2] + f[2] /\ c[4] = c[3] + f[3] /\ c[5] = c[4] + f[4]
  <2>1. 0 \in 0 .. n - 1 /\ 1 \in 0 .. n - 1 /\ 2 \in 0 .. n - 1 /\ 3 \in 0 .. n - 1 /\ 4 \in 0 .. n - 1 BY DEF n
  <2>2. c[0 + 1] = c[0] + f[0] /\ c[1 + 1] = c[1] + f[1] /\ c[2 + 1] = c[2] + f[2] /\ c[3 + 1] = c[3] + f[3]
        /\ c[4 + 1] = c[4] + f[4]
    BY <1>2, <2>1
  <2> QED BY <2>2
<1>4. f[0] \in Int /\ f[1] \in Int /\ f[2] \in Int /\ f[3] \in Int /\ f[4] \in Int OBVIOUS
<1> QED BY <1>2, <1>3, <1>4 DEF n

(* A function up to m, zero from there to w.                               *)
Padded(f, m, w) == [i \in 0 .. w - 1 |-> IF i < m THEN f[i] ELSE 0]

(* Zeros add nothing.                                                      *)
LEMMA TotalPadded ==
  ASSUME NEW m \in Nat, NEW w \in Nat, m <= w, NEW f, \A i \in 0 .. m - 1 : f[i] \in Int
  PROVE  /\ Q1D!Total(Part(f, 0, m)) = Q1D!Total(Padded(f, m, w))
         /\ Padded(f, m, w) \in [0 .. w - 1 -> Int]
<1> DEFINE g == Padded(f, m, w)
           S == m .. w - 1
<1>1. \A i \in 0 .. w - 1 : g[i] = (IF i < m THEN f[i] ELSE 0) /\ g[i] \in Int
  <2> TAKE i \in 0 .. w - 1
  <2>1. g[i] = IF i < m THEN f[i] ELSE 0 BY DEF Padded
  <2>2. i < m => i \in 0 .. m - 1 OBVIOUS
  <2> HIDE DEF g
  <2> QED BY <2>1, <2>2
<1>2. g = [i \in 0 .. w - 1 |-> g[i]] BY DEF Padded
<1> HIDE DEF g
<1>3. g \in [0 .. w - 1 -> Int] BY <1>1, <1>2
<1>4. Part(g, 0, w) = g BY <1>2 DEF Part
<1>5. 0 \in Int /\ m \in Int /\ w \in Int /\ 0 <= m OBVIOUS
<1>6. Q1D!Total(Part(g, 0, w)) = Q1D!Total(Part(g, 0, m)) + Q1D!Total(Part(g, m, w)) /\ Q1D!Total(Part(g, 0, m)) \in Int
  BY <1>1, <1>5, TotalCutAt
<1>7. Part(g, 0, m) = Part(f, 0, m)
  <2>1. \A i \in 0 .. m - 1 : g[i] = f[i] BY <1>1
  <2> QED BY <2>1 DEF Part
<1>8. Q1D!Total(Part(g, m, w)) = 0
  <2>1. IsFiniteSet(S)
    <3>1. w - 1 \in Int OBVIOUS
    <3> QED BY <1>5, <3>1, FS_Interval
  <2>2. Part(g, m, w) = [x \in S |-> IF x \in {} THEN 1 ELSE 0]
    <3>1. \A i \in S : g[i] = 0 BY <1>1
    <3> QED BY <3>1 DEF Part
  <2>3. {} \in SUBSET S OBVIOUS
  <2> HIDE DEF S
  <2>4. Q1D!Total([x \in S |-> IF x \in {} THEN 1 ELSE 0]) = Cardinality({}) BY <2>1, <2>3, CountIs
  <2> QED BY <2>2, <2>4, FS_EmptySet
<1> QED BY <1>3, <1>4, <1>6, <1>7, <1>8 DEF g

(* Powers of three.                                                        *)
LEMMA PowersOfThree == 3 ^ 0 = 1 /\ 3 ^ 1 = 3 /\ 3 ^ 2 = 9 /\ 3 ^ 3 = 27 /\ 3 ^ 4 = 81
OBVIOUS

(* Codes of ternary weights, m of them to a byte.                          *)
Codes(d, m) == \A i \in 0 .. m - 1 : d[i] \in 0 .. 2
ByteOf(d, m, base) == Q1D!Total([i \in 0 .. m - 1 |-> d[i] * base ^ i])

(* Four codes of two bits come back.                                       *)
LEMMA FourCodes ==
  ASSUME NEW m \in 0 .. 4, NEW d, Codes(d, m)
  PROVE  ByteOf(d, m, 4) \in 0 .. 255 /\ \A i \in 0 .. m - 1 : Lin!Digit(ByteOf(d, m, 4), 4, i) = d[i]
<1> DEFINE f == [i \in 0 .. m - 1 |-> d[i] * 4 ^ i]
           g == Padded(f, m, 4)
           c == [i \in 0 .. 3 |-> IF i < m THEN d[i] ELSE 0]
<1>1. \A i \in 0 .. 3 : i = 0 \/ i = 1 \/ i = 2 \/ i = 3 OBVIOUS
<1>2. \A i \in 0 .. 3 : c[i] = (IF i < m THEN d[i] ELSE 0) /\ c[i] \in 0 .. 2
  <2> TAKE i \in 0 .. 3
  <2>1. i < m => i \in 0 .. m - 1 OBVIOUS
  <2> QED BY <2>1 DEF Codes
<1> HIDE DEF c
<1>3. c[0] \in 0 .. 2 /\ c[1] \in 0 .. 2 /\ c[2] \in 0 .. 2 /\ c[3] \in 0 .. 2 BY <1>2
<1>4. g[0] = c[0] /\ g[1] = 4 * c[1] /\ g[2] = 16 * c[2] /\ g[3] = 64 * c[3]
  <2>1. \A i \in 0 .. 3 : g[i] = IF i < m THEN d[i] * 4 ^ i ELSE 0
    <3>1. 4 - 1 = 3 OBVIOUS
    <3> QED BY <3>1 DEF Padded
  <2> HIDE DEF g
  <2>2. ASSUME NEW i \in 0 .. 3, NEW p \in Nat, 4 ^ i = p PROVE g[i] = p * c[i]
    <3>1. CASE i < m
      <4>1. g[i] = d[i] * p /\ c[i] = d[i] /\ c[i] \in 0 .. 2 BY <1>2, <2>1, <2>2, <3>1
      <4> QED BY <4>1
    <3>2. CASE ~(i < m)
      <4>1. g[i] = 0 /\ c[i] = 0 BY <1>2, <2>1, <3>2
      <4> QED BY <4>1
    <3> QED BY <3>1, <3>2
  <2>3. 4 ^ 0 = 1 /\ 4 ^ 1 = 4 /\ 4 ^ 2 = 16 /\ 4 ^ 3 = 64 BY Powers
  <2>4. g[0] = 1 * c[0] BY <2>2, <2>3
  <2>5. g[1] = 4 * c[1] BY <2>2, <2>3
  <2>6. g[2] = 16 * c[2] BY <2>2, <2>3
  <2>7. g[3] = 64 * c[3] BY <2>2, <2>3
  <2> QED BY <1>3, <2>4, <2>5, <2>6, <2>7
<1>5. \A i \in 0 .. m - 1 : f[i] \in Int
  <2> TAKE i \in 0 .. m - 1
  <2>1. d[i] \in 0 .. 2 BY DEF Codes
  <2>2. i = 0 \/ i = 1 \/ i = 2 \/ i = 3 OBVIOUS
  <2>3. 4 ^ i \in Int BY <2>2, Powers
  <2> QED BY <2>1, <2>3
<1>6. Part(f, 0, m) = f BY DEF Part
<1> DEFINE w == 4
<1>7. m \in Nat /\ w \in Nat /\ m <= w /\ w - 1 = 3 OBVIOUS
<1> HIDE DEF f, w
<1>8. Q1D!Total(Part(f, 0, m)) = Q1D!Total(Padded(f, m, w)) /\ Padded(f, m, w) \in [0 .. w - 1 -> Int]
  BY <1>5, <1>7, TotalPadded
<1>9. g = Padded(f, m, w) /\ g \in [0 .. 3 -> Int]
  <2>1. g = Padded(f, m, w) BY DEF w
  <2> QED BY <1>7, <1>8, <2>1
<1> HIDE DEF g
<1>10. Q1D!Total(g) = g[0] + g[1] + g[2] + g[3] BY <1>9, FourAdd
<1>11. ByteOf(d, m, 4) = c[0] + 4 * c[1] + 16 * c[2] + 64 * c[3]
  <2>1. ByteOf(d, m, 4) = Q1D!Total(f) BY DEF ByteOf, f
  <2> QED BY <1>3, <1>4, <1>6, <1>8, <1>9, <1>10, <2>1
<1> DEFINE b == ByteOf(d, m, 4)
<1>12. b \in 0 .. 255 BY <1>3, <1>11
<1>13. /\ b % 4 = c[0] /\ (b \div 4) % 4 = c[1] /\ (b \div 16) % 4 = c[2] /\ (b \div 64) % 4 = c[3] /\ b \div 1 = b
  <2> DEFINE x == c[0]  y == c[1]  z == c[2]  v == c[3]
  <2>1. x \in 0 .. 2 /\ y \in 0 .. 2 /\ z \in 0 .. 2 /\ v \in 0 .. 2 /\ b = x + 4 * y + 16 * z + 64 * v BY <1>3, <1>11
  <2> HIDE DEF x, y, z, v, b
  <2>2. b % 4 = x /\ (b \div 4) % 4 = y /\ (b \div 16) % 4 = z /\ (b \div 64) % 4 = v /\ b \div 1 = b BY <2>1
  <2> QED BY <2>2 DEF x, y, z, v
<1> HIDE DEF b
<1>14. \A i \in 0 .. 3 : Lin!Digit(b, 4, i) = c[i]
  <2>1. Lin!Digit(b, 4, 0) = c[0] /\ Lin!Digit(b, 4, 1) = c[1] /\ Lin!Digit(b, 4, 2) = c[2] /\ Lin!Digit(b, 4, 3) = c[3]
    BY <1>13, Powers DEF Lin!Digit
  <2> QED BY <1>1, <2>1
<1>15. \A i \in 0 .. m - 1 : i \in 0 .. 3 /\ c[i] = d[i]
  <2> TAKE i \in 0 .. m - 1
  <2>1. i \in 0 .. 3 /\ i < m OBVIOUS
  <2> QED BY <1>2, <2>1
<1> QED BY <1>12, <1>14, <1>15 DEF b

(* Five codes of base three come back.                                     *)
LEMMA FiveCodes ==
  ASSUME NEW m \in 0 .. 5, NEW d, Codes(d, m)
  PROVE  ByteOf(d, m, 3) \in 0 .. 255 /\ \A i \in 0 .. m - 1 : Lin!Digit(ByteOf(d, m, 3), 3, i) = d[i]
<1> DEFINE f == [i \in 0 .. m - 1 |-> d[i] * 3 ^ i]
           g == Padded(f, m, 5)
           c == [i \in 0 .. 4 |-> IF i < m THEN d[i] ELSE 0]
<1>1. \A i \in 0 .. 4 : i = 0 \/ i = 1 \/ i = 2 \/ i = 3 \/ i = 4 OBVIOUS
<1>2. \A i \in 0 .. 4 : c[i] = (IF i < m THEN d[i] ELSE 0) /\ c[i] \in 0 .. 2
  <2> TAKE i \in 0 .. 4
  <2>1. i < m => i \in 0 .. m - 1 OBVIOUS
  <2> QED BY <2>1 DEF Codes
<1> HIDE DEF c
<1>3. c[0] \in 0 .. 2 /\ c[1] \in 0 .. 2 /\ c[2] \in 0 .. 2 /\ c[3] \in 0 .. 2 /\ c[4] \in 0 .. 2 BY <1>2
<1>4. g[0] = c[0] /\ g[1] = 3 * c[1] /\ g[2] = 9 * c[2] /\ g[3] = 27 * c[3] /\ g[4] = 81 * c[4]
  <2>1. \A i \in 0 .. 4 : g[i] = IF i < m THEN d[i] * 3 ^ i ELSE 0
    <3>1. 5 - 1 = 4 OBVIOUS
    <3> QED BY <3>1 DEF Padded
  <2> HIDE DEF g
  <2>2. ASSUME NEW i \in 0 .. 4, NEW p \in Nat, 3 ^ i = p PROVE g[i] = p * c[i]
    <3>1. CASE i < m
      <4>1. g[i] = d[i] * p /\ c[i] = d[i] /\ c[i] \in 0 .. 2 BY <1>2, <2>1, <2>2, <3>1
      <4> QED BY <4>1
    <3>2. CASE ~(i < m)
      <4>1. g[i] = 0 /\ c[i] = 0 BY <1>2, <2>1, <3>2
      <4> QED BY <4>1
    <3> QED BY <3>1, <3>2
  <2>3. 3 ^ 0 = 1 /\ 3 ^ 1 = 3 /\ 3 ^ 2 = 9 /\ 3 ^ 3 = 27 /\ 3 ^ 4 = 81 BY PowersOfThree
  <2>4. g[0] = 1 * c[0] BY <2>2, <2>3
  <2>5. g[1] = 3 * c[1] BY <2>2, <2>3
  <2>6. g[2] = 9 * c[2] BY <2>2, <2>3
  <2>7. g[3] = 27 * c[3] BY <2>2, <2>3
  <2>8. g[4] = 81 * c[4] BY <2>2, <2>3
  <2> QED BY <1>3, <2>4, <2>5, <2>6, <2>7, <2>8
<1>5. \A i \in 0 .. m - 1 : f[i] \in Int
  <2> TAKE i \in 0 .. m - 1
  <2>1. d[i] \in 0 .. 2 BY DEF Codes
  <2>2. i = 0 \/ i = 1 \/ i = 2 \/ i = 3 \/ i = 4 OBVIOUS
  <2>3. 3 ^ i \in Int BY <2>2, PowersOfThree
  <2> QED BY <2>1, <2>3
<1>6. Part(f, 0, m) = f BY DEF Part
<1> DEFINE w == 5
<1>7. m \in Nat /\ w \in Nat /\ m <= w /\ w - 1 = 4 OBVIOUS
<1> HIDE DEF f, w
<1>8. Q1D!Total(Part(f, 0, m)) = Q1D!Total(Padded(f, m, w)) /\ Padded(f, m, w) \in [0 .. w - 1 -> Int]
  BY <1>5, <1>7, TotalPadded
<1>9. g = Padded(f, m, w) /\ g \in [0 .. 4 -> Int]
  <2>1. g = Padded(f, m, w) BY DEF w
  <2> QED BY <1>7, <1>8, <2>1
<1> HIDE DEF g
<1>10. Q1D!Total(g) = g[0] + g[1] + g[2] + g[3] + g[4] BY <1>9, FiveAdd
<1>11. ByteOf(d, m, 3) = c[0] + 3 * c[1] + 9 * c[2] + 27 * c[3] + 81 * c[4]
  <2>1. ByteOf(d, m, 3) = Q1D!Total(f) BY DEF ByteOf, f
  <2> QED BY <1>3, <1>4, <1>6, <1>8, <1>9, <1>10, <2>1
<1> DEFINE b == ByteOf(d, m, 3)
<1>12. b \in 0 .. 255 BY <1>3, <1>11
<1>13. /\ b % 3 = c[0] /\ (b \div 3) % 3 = c[1] /\ (b \div 9) % 3 = c[2] /\ (b \div 27) % 3 = c[3] /\ (b \div 81) % 3 = c[4] /\ b \div 1 = b
  <2> DEFINE x == c[0]  y == c[1]  z == c[2]  v == c[3]  t == c[4]
  <2>1. x \in 0 .. 2 /\ y \in 0 .. 2 /\ z \in 0 .. 2 /\ v \in 0 .. 2 /\ t \in 0 .. 2 /\ b = x + 3 * y + 9 * z + 27 * v + 81 * t BY <1>3, <1>11
  <2> HIDE DEF x, y, z, v, t, b
  <2>2. b % 3 = x /\ (b \div 3) % 3 = y /\ (b \div 9) % 3 = z /\ (b \div 27) % 3 = v /\ (b \div 81) % 3 = t /\ b \div 1 = b BY <2>1
  <2> QED BY <2>2 DEF x, y, z, v, t
<1> HIDE DEF b
<1>14. \A i \in 0 .. 4 : Lin!Digit(b, 3, i) = c[i]
  <2>1. Lin!Digit(b, 3, 0) = c[0] /\ Lin!Digit(b, 3, 1) = c[1] /\ Lin!Digit(b, 3, 2) = c[2] /\ Lin!Digit(b, 3, 3) = c[3]
        /\ Lin!Digit(b, 3, 4) = c[4]
    BY <1>13, PowersOfThree DEF Lin!Digit
  <2> QED BY <1>1, <2>1
<1>15. \A i \in 0 .. m - 1 : i \in 0 .. 4 /\ c[i] = d[i]
  <2> TAKE i \in 0 .. m - 1
  <2>1. i \in 0 .. 4 /\ i < m OBVIOUS
  <2> QED BY <1>2, <2>1
<1> QED BY <1>12, <1>14, <1>15 DEF b

(* A weight is rounded to -1, 0 or 1, and its code is decoded to it.       *)
LEMMA TernaryIn ==
  /\ \A v, s \in Int : Lin!Ternarized(v, s) \in {-1, 0, 1}
  /\ \A t \in {-1, 0, 1} : t + 1 \in 0 .. 2 /\ Lin!Decoded(t + 1) = t
  /\ \A t \in {-1, 0, 1} : Lin!Ternarized(t, 1) = t
<1>1. \A v, s \in Int : Lin!Ternarized(v, s) \in {-1, 0, 1} BY DEF Lin!Ternarized
<1>2. \A t \in {-1, 0, 1} : t + 1 \in 0 .. 2 /\ Lin!Decoded(t + 1) = t BY DEF Lin!Decoded
<1>3. \A t \in {-1, 0, 1} : Lin!Ternarized(t, 1) = t BY DEF Lin!Ternarized
<1> QED BY <1>1, <1>2, <1>3

(* What packing four or five to a byte keeps of a row.                     *)
Kept(b, row, s, per, base) ==
  /\ b \in Seq(0 .. 255) /\ Len(b) = Lin!DivCeil(Len(row), per)
  /\ \A e \in 0 .. Len(row) - 1 :
       Lin!Decoded(Lin!Digit(b[(e \div per) + 1], base, e % per)) = Lin!Ternarized(row[e + 1], s)

(* A function on 1 .. n is a sequence of n.                                *)
LEMMA SeqIs ==
  ASSUME NEW n \in Nat, NEW S, NEW b \in [1 .. n -> S]
  PROVE  b \in Seq(S) /\ Len(b) = n
OBVIOUS

(* Four to a byte.                                                         *)
LEMMA PackedFour ==
  ASSUME NEW row \in Seq(Int), NEW s \in Int
  PROVE  Kept(Lin!Pack4(row, s), row, s, 4, 4)
<1> DEFINE n == Len(row)
           b == Lin!Pack4(row, s)
           size(k) == Lin!Min({4, n - 4 * (k - 1)})
           code(k) == [i \in 0 .. size(k) - 1 |-> Lin!Ternarized(row[4 * (k - 1) + i + 1], s) + 1]
           bytes == Lin!DivCeil(n, 4)
<1>1. n \in Nat /\ bytes = (n + 4 - 1) \div 4 /\ bytes \in Nat BY DEF Lin!DivCeil
<1>2. b = [k \in 1 .. bytes |-> Q1D!Total([i \in 0 .. size(k) - 1 |->
                                             (Lin!Ternarized(row[4 * (k - 1) + i + 1], s) + 1) * 4 ^ i])]
  <2>1. b = [k \in 1 .. bytes |-> Lin!Total([i \in 0 .. size(k) - 1 |->
                                             (Lin!Ternarized(row[4 * (k - 1) + i + 1], s) + 1) * 4 ^ i])]
    BY DEF Lin!Pack4, Lin!Packed
  <2> HIDE DEF b, bytes, size
  <2> QED BY <2>1, LinTotal
<1> HIDE DEF b, n
<1>3. ASSUME NEW k \in 1 .. bytes
      PROVE  /\ size(k) \in 0 .. 4 /\ Codes(code(k), size(k)) /\ b[k] = ByteOf(code(k), size(k), 4)
             /\ \A i \in 0 .. 3 : 4 * (k - 1) + i < n => i \in 0 .. size(k) - 1
  <2>1. 4 \in Int /\ n - 4 * (k - 1) \in Int /\ k - 1 \in Nat /\ n - 4 * (k - 1) >= 0 BY <1>1
  <2>2. size(k) = IF 4 <= n - 4 * (k - 1) THEN 4 ELSE n - 4 * (k - 1) BY <2>1, MinTwo
  <2>3. size(k) \in 0 .. 4 /\ 4 * (k - 1) + size(k) <= n /\ \A i \in 0 .. 3 : 4 * (k - 1) + i < n => i \in 0 .. size(k) - 1
    <3> HIDE DEF size
    <3> QED BY <1>1, <2>1, <2>2
  <2> HIDE DEF size
  <2>4. ASSUME NEW i \in 0 .. size(k) - 1 PROVE code(k)[i] \in 0 .. 2
    <3>1. 4 * (k - 1) + i + 1 \in 1 .. n BY <1>1, <2>1, <2>3
    <3>2. row[4 * (k - 1) + i + 1] \in Int BY <3>1 DEF n
    <3>3. Lin!Ternarized(row[4 * (k - 1) + i + 1], s) \in {-1, 0, 1} BY <3>2, TernaryIn
    <3> QED BY <3>3, TernaryIn
  <2>5. [i \in 0 .. size(k) - 1 |-> (Lin!Ternarized(row[4 * (k - 1) + i + 1], s) + 1) * 4 ^ i]
          = [i \in 0 .. size(k) - 1 |-> code(k)[i] * 4 ^ i] OBVIOUS
  <2> HIDE DEF code
  <2>6. b[k] = ByteOf(code(k), size(k), 4) BY <1>2, <2>5 DEF ByteOf
  <2> QED BY <2>3, <2>4, <2>6 DEF Codes
<1>4. ASSUME NEW k \in 1 .. bytes
      PROVE  b[k] \in 0 .. 255 /\ \A i \in 0 .. size(k) - 1 : Lin!Digit(b[k], 4, i) = code(k)[i]
  <2> DEFINE m == size(k)
             d == code(k)
  <2> HIDE DEF size, code, bytes
  <2>1. m \in 0 .. 4 /\ Codes(d, m) /\ b[k] = ByteOf(d, m, 4) BY <1>3
  <2> HIDE DEF m, d
  <2>2. ByteOf(d, m, 4) \in 0 .. 255 /\ \A i \in 0 .. m - 1 : Lin!Digit(ByteOf(d, m, 4), 4, i) = d[i] BY <2>1, FourCodes
  <2>3. b[k] \in 0 .. 255 /\ \A i \in 0 .. m - 1 : Lin!Digit(b[k], 4, i) = d[i] BY <2>1, <2>2
  <2> QED BY <2>3 DEF m, d
<1>5. b \in Seq(0 .. 255) /\ Len(b) = bytes
  <2>1. b = [k \in 1 .. bytes |-> b[k]] BY <1>2
  <2>2. bytes \in Nat BY <1>1
  <2> HIDE DEF bytes
  <2>3. b \in [1 .. bytes -> 0 .. 255] BY <1>4, <2>1
  <2> QED BY <2>2, <2>3, SeqIs
<1>6. ASSUME NEW e \in 0 .. n - 1
      PROVE  Lin!Decoded(Lin!Digit(b[(e \div 4) + 1], 4, e % 4)) = Lin!Ternarized(row[e + 1], s)
  <2> DEFINE k == (e \div 4) + 1
             i == e % 4
  <2>1. k \in 1 .. bytes /\ i \in 0 .. 3 /\ 4 * (k - 1) + i = e /\ e < n BY <1>1
  <2> HIDE DEF k, i, bytes, size
  <2>2. i \in 0 .. size(k) - 1 BY <1>3, <2>1
  <2>3. Lin!Digit(b[k], 4, i) = Lin!Ternarized(row[4 * (k - 1) + i + 1], s) + 1 BY <1>4, <2>1, <2>2
  <2>4. row[e + 1] \in Int
    <3>1. e + 1 \in 1 .. n BY <1>1
    <3> QED BY <3>1 DEF n
  <2>5. Lin!Digit(b[k], 4, i) = Lin!Ternarized(row[e + 1], s) + 1 BY <2>1, <2>3
  <2>6. Lin!Ternarized(row[e + 1], s) \in {-1, 0, 1} BY <2>4, TernaryIn
  <2>7. Lin!Decoded(Lin!Digit(b[k], 4, i)) = Lin!Ternarized(row[e + 1], s) BY <2>5, <2>6, TernaryIn
  <2> QED BY <2>7 DEF k, i
<1> QED BY <1>5, <1>6 DEF Kept, b, n

(* Five to a byte.                                                         *)
LEMMA PackedFive ==
  ASSUME NEW row \in Seq(Int), NEW s \in Int
  PROVE  Kept(Lin!Pack5(row, s), row, s, 5, 3)
<1> DEFINE n == Len(row)
           b == Lin!Pack5(row, s)
           size(k) == Lin!Min({5, n - 5 * (k - 1)})
           code(k) == [i \in 0 .. size(k) - 1 |-> Lin!Ternarized(row[5 * (k - 1) + i + 1], s) + 1]
           bytes == Lin!DivCeil(n, 5)
<1>1. n \in Nat /\ bytes = (n + 5 - 1) \div 5 /\ bytes \in Nat BY DEF Lin!DivCeil
<1>2. b = [k \in 1 .. bytes |-> Q1D!Total([i \in 0 .. size(k) - 1 |->
                                             (Lin!Ternarized(row[5 * (k - 1) + i + 1], s) + 1) * 3 ^ i])]
  <2>1. b = [k \in 1 .. bytes |-> Lin!Total([i \in 0 .. size(k) - 1 |->
                                             (Lin!Ternarized(row[5 * (k - 1) + i + 1], s) + 1) * 3 ^ i])]
    BY DEF Lin!Pack5, Lin!Packed
  <2> HIDE DEF b, bytes, size
  <2> QED BY <2>1, LinTotal
<1> HIDE DEF b, n
<1>3. ASSUME NEW k \in 1 .. bytes
      PROVE  /\ size(k) \in 0 .. 5 /\ Codes(code(k), size(k)) /\ b[k] = ByteOf(code(k), size(k), 3)
             /\ \A i \in 0 .. 4 : 5 * (k - 1) + i < n => i \in 0 .. size(k) - 1
  <2>1. 5 \in Int /\ n - 5 * (k - 1) \in Int /\ k - 1 \in Nat /\ n - 5 * (k - 1) >= 0 BY <1>1
  <2>2. size(k) = IF 5 <= n - 5 * (k - 1) THEN 5 ELSE n - 5 * (k - 1) BY <2>1, MinTwo
  <2>3. size(k) \in 0 .. 5 /\ 5 * (k - 1) + size(k) <= n /\ \A i \in 0 .. 4 : 5 * (k - 1) + i < n => i \in 0 .. size(k) - 1
    <3> HIDE DEF size
    <3> QED BY <1>1, <2>1, <2>2
  <2> HIDE DEF size
  <2>4. ASSUME NEW i \in 0 .. size(k) - 1 PROVE code(k)[i] \in 0 .. 2
    <3>1. 5 * (k - 1) + i + 1 \in 1 .. n BY <1>1, <2>1, <2>3
    <3>2. row[5 * (k - 1) + i + 1] \in Int BY <3>1 DEF n
    <3>3. Lin!Ternarized(row[5 * (k - 1) + i + 1], s) \in {-1, 0, 1} BY <3>2, TernaryIn
    <3> QED BY <3>3, TernaryIn
  <2>5. [i \in 0 .. size(k) - 1 |-> (Lin!Ternarized(row[5 * (k - 1) + i + 1], s) + 1) * 3 ^ i]
          = [i \in 0 .. size(k) - 1 |-> code(k)[i] * 3 ^ i] OBVIOUS
  <2> HIDE DEF code
  <2>6. b[k] = ByteOf(code(k), size(k), 3) BY <1>2, <2>5 DEF ByteOf
  <2> QED BY <2>3, <2>4, <2>6 DEF Codes
<1>4. ASSUME NEW k \in 1 .. bytes
      PROVE  b[k] \in 0 .. 255 /\ \A i \in 0 .. size(k) - 1 : Lin!Digit(b[k], 3, i) = code(k)[i]
  <2> DEFINE m == size(k)
             d == code(k)
  <2> HIDE DEF size, code, bytes
  <2>1. m \in 0 .. 5 /\ Codes(d, m) /\ b[k] = ByteOf(d, m, 3) BY <1>3
  <2> HIDE DEF m, d
  <2>2. ByteOf(d, m, 3) \in 0 .. 255 /\ \A i \in 0 .. m - 1 : Lin!Digit(ByteOf(d, m, 3), 3, i) = d[i] BY <2>1, FiveCodes
  <2>3. b[k] \in 0 .. 255 /\ \A i \in 0 .. m - 1 : Lin!Digit(b[k], 3, i) = d[i] BY <2>1, <2>2
  <2> QED BY <2>3 DEF m, d
<1>5. b \in Seq(0 .. 255) /\ Len(b) = bytes
  <2>1. b = [k \in 1 .. bytes |-> b[k]] BY <1>2
  <2>2. bytes \in Nat BY <1>1
  <2> HIDE DEF bytes
  <2>3. b \in [1 .. bytes -> 0 .. 255] BY <1>4, <2>1
  <2> QED BY <2>2, <2>3, SeqIs
<1>6. ASSUME NEW e \in 0 .. n - 1
      PROVE  Lin!Decoded(Lin!Digit(b[(e \div 5) + 1], 3, e % 5)) = Lin!Ternarized(row[e + 1], s)
  <2> DEFINE k == (e \div 5) + 1
             i == e % 5
  <2>1. k \in 1 .. bytes /\ i \in 0 .. 4 /\ 5 * (k - 1) + i = e /\ e < n BY <1>1
  <2> HIDE DEF k, i, bytes, size
  <2>2. i \in 0 .. size(k) - 1 BY <1>3, <2>1
  <2>3. Lin!Digit(b[k], 3, i) = Lin!Ternarized(row[5 * (k - 1) + i + 1], s) + 1 BY <1>4, <2>1, <2>2
  <2>4. row[e + 1] \in Int
    <3>1. e + 1 \in 1 .. n BY <1>1
    <3> QED BY <3>1 DEF n
  <2>5. Lin!Digit(b[k], 3, i) = Lin!Ternarized(row[e + 1], s) + 1 BY <2>1, <2>3
  <2>6. Lin!Ternarized(row[e + 1], s) \in {-1, 0, 1} BY <2>4, TernaryIn
  <2>7. Lin!Decoded(Lin!Digit(b[k], 3, i)) = Lin!Ternarized(row[e + 1], s) BY <2>5, <2>6, TernaryIn
  <2> QED BY <2>7 DEF k, i
<1> QED BY <1>5, <1>6 DEF Kept, b, n

(* What comes back from a packed row, and what the kernels compute of it.  *)
Dots(a, w) == Lin!Total([e \in 0 .. Len(w) - 1 |-> a[e + 1] * w[e + 1]])

(* Rows packed four or five to a byte come back as they were rounded.      *)
LEMMA KeptUnpacked ==
  ASSUME NEW row \in Seq(Int), NEW s \in Int, NEW per \in {4, 5}
  PROVE  Lin!UnpackAs(Lin!PackAs(row, s, per), Len(row), per) = [k \in 1 .. Len(row) |-> Lin!Ternarized(row[k], s)]
<1> DEFINE n == Len(row)
<1>1. n \in Nat OBVIOUS
<1>2. CASE per = 4
  <2> DEFINE b == Lin!Pack4(row, s)
  <2>1. Kept(b, row, s, 4, 4) BY PackedFour
  <2>2. Lin!UnpackAs(Lin!PackAs(row, s, per), n, per) = Lin!Unpack4(b, n) BY <1>2 DEF Lin!UnpackAs, Lin!PackAs
  <2> HIDE DEF b, n
  <2>3. Len(b) = (n + 4 - 1) \div 4 BY <2>1 DEF Kept, Lin!DivCeil, n
  <2>4. Lin!Min({n, 4 * Len(b)}) = n
    <3>1. 4 * Len(b) \in Int /\ n <= 4 * Len(b) /\ n \in Int BY <1>1, <2>3
    <3> QED BY <3>1, MinTwo
  <2>5. ASSUME NEW k \in 1 .. n
        PROVE  Lin!Decoded(Lin!Digit(b[((k - 1) \div 4) + 1], 4, (k - 1) % 4)) = Lin!Ternarized(row[k], s)
    <3> DEFINE e == k - 1
    <3>1. e \in 0 .. n - 1 /\ e + 1 = k BY <1>1
    <3> HIDE DEF e
    <3>2. Lin!Decoded(Lin!Digit(b[(e \div 4) + 1], 4, e % 4)) = Lin!Ternarized(row[e + 1], s) BY <2>1, <3>1 DEF Kept, n
    <3>3. Lin!Decoded(Lin!Digit(b[(e \div 4) + 1], 4, e % 4)) = Lin!Ternarized(row[k], s) BY <3>1, <3>2
    <3> QED BY <3>3 DEF e
  <2>6. Lin!Unpack4(b, n) = [k \in 1 .. n |-> Lin!Ternarized(row[k], s)] BY <2>4, <2>5 DEF Lin!Unpack4
  <2> QED BY <2>2, <2>6 DEF n
<1>3. CASE per = 5
  <2> DEFINE b == Lin!Pack5(row, s)
  <2>1. Kept(b, row, s, 5, 3) BY PackedFive
  <2>2. Lin!UnpackAs(Lin!PackAs(row, s, per), n, per) = Lin!Unpack5(b, n) BY <1>3 DEF Lin!UnpackAs, Lin!PackAs
  <2> HIDE DEF b, n
  <2>3. Len(b) = (n + 5 - 1) \div 5 BY <2>1 DEF Kept, Lin!DivCeil, n
  <2>4. Lin!Min({n, 5 * Len(b)}) = n
    <3>1. 5 * Len(b) \in Int /\ n <= 5 * Len(b) /\ n \in Int BY <1>1, <2>3
    <3> QED BY <3>1, MinTwo
  <2>5. ASSUME NEW k \in 1 .. n
        PROVE  Lin!Decoded(Lin!Digit(b[((k - 1) \div 5) + 1], 3, (k - 1) % 5)) = Lin!Ternarized(row[k], s)
    <3> DEFINE e == k - 1
    <3>1. e \in 0 .. n - 1 /\ e + 1 = k BY <1>1
    <3> HIDE DEF e
    <3>2. Lin!Decoded(Lin!Digit(b[(e \div 5) + 1], 3, e % 5)) = Lin!Ternarized(row[e + 1], s) BY <2>1, <3>1 DEF Kept, n
    <3>3. Lin!Decoded(Lin!Digit(b[(e \div 5) + 1], 3, e % 5)) = Lin!Ternarized(row[k], s) BY <3>1, <3>2
    <3> QED BY <3>3 DEF e
  <2>6. Lin!Unpack5(b, n) = [k \in 1 .. n |-> Lin!Ternarized(row[k], s)] BY <2>4, <2>5 DEF Lin!Unpack5
  <2> QED BY <2>2, <2>6 DEF n
<1> QED BY <1>2, <1>3

(* The scalar kernels of packed ternary rows.                              *)
LEMMA PackedDots ==
  ASSUME NEW w \in Seq({-1, 0, 1}), NEW a \in Seq(Acts7), Len(a) = Len(w)
  PROVE  /\ RowOf(a, Lin!Pack4(w, 1), Len(w))
         /\ Lin!Pack4Scalar(a, Lin!Pack4(w, 1), Len(w)) = Dots(a, w)
         /\ Lin!Pack5Scalar(a, Lin!Pack5(w, 1), Len(w)) = Dots(a, w)
<1> DEFINE n == Len(w)
           b == Lin!Pack4(w, 1)
           c == Lin!Pack5(w, 1)
<1>1. n \in Nat /\ w \in Seq(Int) /\ 1 \in Int
  <2>1. w \in [1 .. Len(w) -> {-1, 0, 1}] /\ Len(w) \in Nat OBVIOUS
  <2>2. {-1, 0, 1} \subseteq Int OBVIOUS
  <2>3. w \in [1 .. Len(w) -> Int] BY <2>1, <2>2
  <2> QED BY <2>1, <2>3, SeqIs
<1>2. Kept(b, w, 1, 4, 4) /\ Kept(c, w, 1, 5, 3) BY <1>1, PackedFour, PackedFive
<1>3. ASSUME NEW e \in 0 .. n - 1 PROVE Lin!Ternarized(w[e + 1], 1) = w[e + 1]
  <2>1. e + 1 \in 1 .. n BY <1>1
  <2>2. w[e + 1] \in {-1, 0, 1} BY <2>1
  <2> QED BY <2>2, TernaryIn
<1> HIDE DEF b, c
<1>4. RowOf(a, b, n) BY <1>1, <1>2 DEF RowOf, Kept
<1>5. Lin!Pack4Scalar(a, b, n) = Dots(a, w)
  <2>1. \A e \in 0 .. n - 1 : Lin!Weight4(b, e) = w[e + 1] BY <1>2, <1>3 DEF Kept, Lin!Weight4
  <2>2. [e \in 0 .. n - 1 |-> a[e + 1] * Lin!Weight4(b, e)] = [e \in 0 .. n - 1 |-> a[e + 1] * w[e + 1]] BY <2>1
  <2> QED BY <2>2 DEF Lin!Pack4Scalar, Lin!Tail4, Dots
<1>6. Lin!Pack5Scalar(a, c, n) = Dots(a, w)
  <2>1. \A e \in 0 .. n - 1 : Lin!Decoded(Lin!Digit(c[(e \div 5) + 1], 3, e % 5)) = w[e + 1] BY <1>2, <1>3 DEF Kept
  <2>2. [e \in 0 .. n - 1 |-> a[e + 1] * Lin!Decoded(Lin!Digit(c[(e \div 5) + 1], 3, e % 5))]
          = [e \in 0 .. n - 1 |-> a[e + 1] * w[e + 1]] BY <2>1
  <2> QED BY <2>2 DEF Lin!Pack5Scalar, Dots
<1> QED BY <1>4, <1>5, <1>6 DEF b, c

(* A row of any length comes back from its bytes, four or five weights to  *)
(* one, as it was rounded; and every kernel computes the dot product with  *)
(* the weights that were packed.                                           *)
THEOREM PackedRowsExact ==
  /\ \A row \in Seq(Int), s \in Int, per \in {4, 5} :
       Lin!UnpackAs(Lin!PackAs(row, s, per), Len(row), per) = [k \in 1 .. Len(row) |-> Lin!Ternarized(row[k], s)]
  /\ \A w \in Seq({-1, 0, 1}), a \in Seq(Acts7) : Len(a) = Len(w) =>
       LET b == Lin!Pack4(w, 1)
           n == Len(w)
       IN {Lin!Pack4Scalar(a, b, n), Lin!Pack4Avx512(a, b, n), Lin!Pack4Avx2(a, b, n), Lin!Pack4Lut(a, b, n),
           Lin!Pack4Hybrid(a, b, n), Lin!Pack4Vnni(a, b, n), Lin!Pack5Scalar(a, Lin!Pack5(w, 1), n)}
            = {Lin!Total([e \in 0 .. n - 1 |-> a[e + 1] * w[e + 1]])}
<1>1. ASSUME NEW w \in Seq({-1, 0, 1}), NEW a \in Seq(Acts7), Len(a) = Len(w)
      PROVE  LET b == Lin!Pack4(w, 1)
                 n == Len(w)
             IN {Lin!Pack4Scalar(a, b, n), Lin!Pack4Avx512(a, b, n), Lin!Pack4Avx2(a, b, n), Lin!Pack4Lut(a, b, n),
                 Lin!Pack4Hybrid(a, b, n), Lin!Pack4Vnni(a, b, n), Lin!Pack5Scalar(a, Lin!Pack5(w, 1), n)}
                  = {Lin!Total([e \in 0 .. n - 1 |-> a[e + 1] * w[e + 1]])}
  <2> DEFINE b == Lin!Pack4(w, 1)
             c == Lin!Pack5(w, 1)
             n == Len(w)
  <2>1. RowOf(a, b, n) /\ Lin!Pack4Scalar(a, b, n) = Dots(a, w) /\ Lin!Pack5Scalar(a, c, n) = Dots(a, w)
    BY <1>1, PackedDots
  <2> HIDE DEF b, c, n
  <2>2. n \in Nat BY DEF n
  <2>3. {Lin!Pack4Avx512(a, b, n), Lin!Pack4Avx2(a, b, n), Lin!Pack4Lut(a, b, n),
         Lin!Pack4Hybrid(a, b, n), Lin!Pack4Vnni(a, b, n)} = {Lin!Pack4Scalar(a, b, n)}
    BY <2>1, <2>2, TernaryKernelsExact
  <2>4. {Lin!Pack4Scalar(a, b, n), Lin!Pack4Avx512(a, b, n), Lin!Pack4Avx2(a, b, n), Lin!Pack4Lut(a, b, n),
         Lin!Pack4Hybrid(a, b, n), Lin!Pack4Vnni(a, b, n), Lin!Pack5Scalar(a, c, n)} = {Dots(a, w)}
    BY <2>1, <2>3
  <2> QED BY <2>4 DEF b, c, n, Dots
<1> QED BY <1>1, KeptUnpacked

=================================================================================
