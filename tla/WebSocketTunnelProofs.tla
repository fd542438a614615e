----------------------- MODULE WebSocketTunnelProofs -----------------------
(***************************************************************************)
(* That no frame of a WebSocket is lost, repeated or cut short on its way  *)
(* through the tunnel, however it is cut into pieces, paused, buffered and *)
(* resumed, and that every end releases what the router holds for it.      *)
(*                                                                         *)
(* A script of n frames has 2n + 1 places: 2k is behind frame k, 2k - 1 in *)
(* the middle of it.  Every piece leads from one place to the next, so     *)
(* that a wire is a path from the place its receiver has reached to the    *)
(* place its sender holds; pieces between the same two places are the same *)
(* (SamePath).  The invariant of a stream says that these places agree.    *)
(***************************************************************************)
EXTENDS WebSocketTunnel, FunctionTheorems, FiniteSetTheorems, SequenceTheorems,
        WellFoundedInduction, TLAPS

(* Induction over the naturals, for sets instead of predicates.            *)
LEMMA NatMin ==
  ASSUME NEW T, T \subseteq Nat, T # {}
  PROVE  \E x \in T : \A y \in T : x <= y
<1> DEFINE R == {ss \in Nat \X Nat : ss[1] < ss[2]}
<1>1. IsWellFoundedOn(R, Nat) BY NatLessThanWellFounded DEF OpToRel
<1>2. \A x, y \in Nat : <<y, x>> \in R \/ x <= y OBVIOUS
<1> HIDE DEF R
<1>3. PICK x \in T : \A y \in T : ~ (<<y, x>> \in R) BY <1>1, WFMin
<1>4. \A y \in T : x \in Nat /\ y \in Nat OBVIOUS
<1>5. \A y \in T : x <= y BY <1>2, <1>3, <1>4
<1> QED BY <1>5

(* Induction over the naturals for a set, not an operator: the form the provers can use. *)
LEMMA Induct ==
  ASSUME NEW T, 0 \in T, \A n \in Nat : n \in T => n + 1 \in T
  PROVE  \A n \in Nat : n \in T
<1> DEFINE B == Nat \ T
<1>1. SUFFICES ASSUME B # {} PROVE FALSE OBVIOUS
<1>2. PICK x \in B : \A y \in B : x <= y BY <1>1, NatMin
<1>3. x # 0 /\ x - 1 \in Nat /\ x = (x - 1) + 1 BY <1>2
<1>4. x - 1 \in T BY <1>2, <1>3
<1> QED BY <1>2, <1>3, <1>4

(* A recursion over 1 .. n, its step given as a function, has a solution.  *)
Scans(f, b, n, F) == f[0] = b /\ \A i \in 1 .. n : f[i] = F[i][f[i - 1]]

(* A fold over 1 .. n has its whole table of intermediate values, so it can be reasoned
   about step by step. *)
LEMMA Scan ==
  ASSUME NEW V, NEW b \in V, NEW n \in Nat, NEW F \in [1 .. n -> [V -> V]]
  PROVE  \E f \in [0 .. n -> V] : Scans(f, b, n, F)
<1> DEFINE Sol(f, m) == f[0] = b /\ \A i \in 1 .. m : f[i] = F[i][f[i - 1]]
           T == {m \in Nat : m <= n => \E f \in [0 .. m -> V] : Sol(f, m)}
<1>1. 0 \in T
  <2>1. [i \in 0 .. 0 |-> b] \in [0 .. 0 -> V] /\ Sol([i \in 0 .. 0 |-> b], 0) OBVIOUS
  <2> QED BY <2>1
<1>2. ASSUME NEW m \in Nat, m \in T PROVE m + 1 \in T
  <2> SUFFICES ASSUME m + 1 <= n PROVE \E f \in [0 .. m + 1 -> V] : Sol(f, m + 1)
    OBVIOUS
  <2>1. PICK f \in [0 .. m -> V] : Sol(f, m) BY <1>2
  <2> DEFINE g == [i \in 0 .. m + 1 |-> IF i = m + 1 THEN F[m + 1][f[m]] ELSE f[i]]
  <2>2. F[m + 1][f[m]] \in V
    <3>1. F[m + 1] \in [V -> V] /\ f[m] \in V OBVIOUS
    <3> QED BY <3>1
  <2>3. g \in [0 .. m + 1 -> V] BY <2>2
  <2>4. g[0] = b BY <2>1
  <2>5. ASSUME NEW i \in 1 .. m + 1 PROVE g[i] = F[i][g[i - 1]]
    <3>1. i - 1 \in 0 .. m /\ i - 1 # m + 1 OBVIOUS
    <3>2. CASE i = m + 1 BY <3>1, <3>2
    <3>3. CASE i # m + 1
      <4>1. i \in 1 .. m BY <3>3
      <4>2. f[i] = F[i][f[i - 1]] BY <2>1, <4>1
      <4>3. g[i] = f[i] /\ g[i - 1] = f[i - 1] BY <3>1, <4>1
      <4> QED BY <4>2, <4>3
    <3> QED BY <3>2, <3>3
  <2> HIDE DEF g
  <2> QED BY <2>3, <2>4, <2>5
<1> HIDE DEF T
<1>3. n \in T BY <1>1, <1>2, Induct
<1>4. \E f \in [0 .. n -> V] : Sol(f, n) BY <1>3 DEF T
<1> QED BY <1>4 DEF Scans

(* The same over the subsets of 1 .. n, taken from the largest element     *)
(* down, as the folds do.                                                  *)
LEMMA MaxIs ==
  ASSUME NEW m \in Nat, NEW s \in SUBSET (1 .. m), m \in s PROVE Max(s) = m
<1>1. \A y \in s : m >= y OBVIOUS
<1>2. \A x \in s : (\A y \in s : x >= y) => x = m
  <2> SUFFICES ASSUME NEW x \in s, \A y \in s : x >= y PROVE x = m OBVIOUS
  <2>1. x >= m /\ x \in Nat /\ x <= m OBVIOUS
  <2> QED BY <2>1
<1> QED BY <1>1, <1>2, Zenon DEF Max

(* A non-empty set of positions has a greatest member, and Max is it. *)
LEMMA MaxIn ==
  ASSUME NEW m \in Nat, NEW s \in SUBSET (1 .. m), s # {}
  PROVE  Max(s) \in s /\ \A y \in s : y <= Max(s)
<1> DEFINE T == {m - y : y \in s}
<1>1. T \subseteq Nat /\ T # {}
  <2>1. \A y \in s : m - y \in Nat OBVIOUS
  <2> QED BY <2>1
<1>2. PICK x \in T : \A y \in T : x <= y BY <1>1, NatMin
<1>3. PICK z \in s : x = m - z OBVIOUS
<1>4. \A y \in s : z >= y
  <2> SUFFICES ASSUME NEW y \in s PROVE z >= y OBVIOUS
  <2>1. m - y \in T OBVIOUS
  <2>2. m - z <= m - y BY <1>2, <1>3, <2>1
  <2>3. y \in Nat /\ z \in Nat OBVIOUS
  <2> QED BY <2>2, <2>3
<1>5. Max(s) \in s /\ \A y \in s : Max(s) >= y BY <1>4, Zenon DEF Max
<1>6. \A y \in s : y \in Nat /\ Max(s) \in Nat BY <1>5
<1> QED BY <1>5, <1>6

SetScans(g, b, n, F) ==
  \A t \in SUBSET (1 .. n) : g[t] = IF t = {} THEN b ELSE F[Max(t)][g[t \ {Max(t)}]]

(* The same table for a fold over a set of positions that takes the greatest one last. *)
LEMMA SetScan ==
  ASSUME NEW V, NEW b \in V, NEW n \in Nat, NEW F \in [1 .. n -> [V -> V]]
  PROVE  \E g \in [SUBSET (1 .. n) -> V] : SetScans(g, b, n, F)
<1> DEFINE Sol(g, m) == \A t \in SUBSET (1 .. m) :
                          g[t] = IF t = {} THEN b ELSE F[Max(t)][g[t \ {Max(t)}]]
           P(m) == m <= n => \E g \in [SUBSET (1 .. m) -> V] : Sol(g, m)
<1>1. P(0)
  <2> DEFINE g == [t \in SUBSET (1 .. 0) |-> b]
  <2>1. g \in [SUBSET (1 .. 0) -> V] OBVIOUS
  <2>2. \A t \in SUBSET (1 .. 0) : t = {} OBVIOUS
  <2>3. Sol(g, 0) BY <2>2
  <2> QED BY <2>1, <2>3
<1>2. ASSUME NEW m \in Nat, P(m) PROVE P(m + 1)
  <2> SUFFICES ASSUME m + 1 <= n PROVE \E g \in [SUBSET (1 .. m + 1) -> V] : Sol(g, m + 1)
    OBVIOUS
  <2>a. m <= n OBVIOUS
  <2>1. PICK g \in [SUBSET (1 .. m) -> V] : Sol(g, m) BY <1>2, <2>a, Zenon
  <2> DEFINE h == [t \in SUBSET (1 .. m + 1) |->
                    IF m + 1 \in t THEN F[m + 1][g[t \ {m + 1}]] ELSE g[t]]
  <2>2. ASSUME NEW t \in SUBSET (1 .. m + 1), m + 1 \in t
        PROVE  t \ {m + 1} \in SUBSET (1 .. m) /\ Max(t) = m + 1
    <3>1. Max(t) = m + 1 BY <2>2, MaxIs
    <3>2. \A i \in t : i = m + 1 \/ i \in 1 .. m OBVIOUS
    <3> QED BY <3>1, <3>2
  <2>3. ASSUME NEW t \in SUBSET (1 .. m + 1), m + 1 \notin t
        PROVE  t \in SUBSET (1 .. m)
    <3>1. \A i \in 1 .. m + 1 : i = m + 1 \/ i \in 1 .. m OBVIOUS
    <3> QED BY <2>3, <3>1
  <2>4. h \in [SUBSET (1 .. m + 1) -> V]
    <3> SUFFICES ASSUME NEW t \in SUBSET (1 .. m + 1)
                 PROVE  (IF m + 1 \in t THEN F[m + 1][g[t \ {m + 1}]] ELSE g[t]) \in V
      OBVIOUS
    <3>1. CASE m + 1 \in t
      <4>1. F[m + 1] \in [V -> V] /\ g[t \ {m + 1}] \in V BY <2>2, <3>1
      <4>2. F[m + 1][g[t \ {m + 1}]] \in V BY <4>1
      <4> QED BY <3>1, <4>2
    <3>2. CASE m + 1 \notin t BY <2>3, <3>2
    <3> QED BY <3>1, <3>2
  <2>5. ASSUME NEW t \in SUBSET (1 .. m + 1)
        PROVE  h[t] = IF t = {} THEN b ELSE F[Max(t)][h[t \ {Max(t)}]]
    <3>1. CASE m + 1 \in t
      <4> DEFINE u == t \ {m + 1}
      <4>1. u \in SUBSET (1 .. m) /\ Max(t) = m + 1 BY <2>2, <3>1
      <4>2. u \in SUBSET (1 .. m + 1) /\ m + 1 \notin u OBVIOUS
      <4>3. h[u] = g[u] BY <4>2
      <4>4. h[t] = F[m + 1][g[u]] BY <3>1
      <4>5. t # {} BY <3>1
      <4> QED BY <4>1, <4>3, <4>4, <4>5
    <3>2. CASE m + 1 \notin t
      <4>1. t \in SUBSET (1 .. m) BY <2>3, <3>2
      <4>2. t \ {Max(t)} \in SUBSET (1 .. m + 1) /\ m + 1 \notin t \ {Max(t)} BY <3>2
      <4>3. h[t] = g[t] BY <3>2
      <4>4. h[t \ {Max(t)}] = g[t \ {Max(t)}] BY <4>2
      <4>5. g[t] = IF t = {} THEN b ELSE F[Max(t)][g[t \ {Max(t)}]] BY <2>1, <4>1
      <4> QED BY <4>3, <4>4, <4>5
    <3> QED BY <3>1, <3>2
  <2> HIDE DEF h
  <2> QED BY <2>4, <2>5
<1> DEFINE T == {m \in Nat : P(m)}
<1> HIDE DEF P
<1>3. 0 \in T BY <1>1
<1>4. \A m \in Nat : m \in T => m + 1 \in T BY <1>2
<1>5. T \subseteq Nat /\ \A m \in T : P(m) OBVIOUS
<1> HIDE DEF T
<1>6. n \in T BY <1>3, <1>4, Induct
<1>7. P(n) BY <1>5, <1>6
<1>8. n <= n OBVIOUS
<1> QED BY <1>7, <1>8, Zenon DEF P, SetScans

(* FlattenSeq is the concatenation of its members, one at a time. *)
LEMMA Flattened ==
  ASSUME NEW X, NEW seqs \in Seq(Seq(X))
  PROVE  \E f \in [0 .. Len(seqs) -> Seq(X)] :
           /\ f[0] = <<>>
           /\ \A i \in 1 .. Len(seqs) : f[i] = f[i - 1] \o seqs[i]
           /\ FlattenSeq(seqs) = f[Len(seqs)]
<1>n. PICK n \in Nat : n = Len(seqs) OBVIOUS
<1> DEFINE F == [i \in 1 .. n |-> [v \in Seq(X) |-> v \o seqs[i]]]
           Eq(g) == g = [i \in 1 .. n |-> IF i = 1 THEN seqs[i] ELSE g[i - 1] \o seqs[i]]
<1>1. <<>> \in Seq(X) /\ \A i \in 1 .. n : seqs[i] \in Seq(X) BY <1>n
<1>2. F \in [1 .. n -> [Seq(X) -> Seq(X)]] BY <1>1
<1>3. \A i \in 1 .. n, v \in Seq(X) : F[i][v] = v \o seqs[i] OBVIOUS
<1> HIDE DEF F
<1>s. PICK f \in [0 .. n -> Seq(X)] : Scans(f, <<>>, n, F) BY <1>1, <1>2, Scan
<1>4. f[0] = <<>> /\ \A i \in 1 .. n : f[i] = F[i][f[i - 1]] BY <1>s DEF Scans
<1>5. ASSUME NEW i \in 1 .. n PROVE f[i] = f[i - 1] \o seqs[i]
  <2>1. i - 1 \in 0 .. n OBVIOUS
  <2>2. f[i - 1] \in Seq(X) BY <2>1
  <2> QED BY <1>3, <1>4, <2>2
<1>6. FlattenSeq(seqs) = f[n]
  <2>1. CASE n = 0
    <3>1. seqs = <<>> /\ Len(seqs) = 0 BY <1>n, <2>1, EmptySeq
    <3> QED BY <1>4, <2>1, <3>1 DEF FlattenSeq
  <2>2. CASE n # 0
    <3>0. 1 \in 1 .. n BY <1>1, <2>2
    <3>1. f[1] = seqs[1]
      <4>0. 1 - 1 = 0 OBVIOUS
      <4>1. f[1] = f[0] \o seqs[1] BY <1>5, <3>0, <4>0
      <4>2. <<>> \o seqs[1] = seqs[1] BY <1>1, <3>0
      <4> QED BY <1>4, <4>1, <4>2
    <3> DEFINE h == [i \in 1 .. n |-> f[i]]
    <3>2. ASSUME NEW i \in 1 .. n
          PROVE  h[i] = IF i = 1 THEN seqs[i] ELSE h[i - 1] \o seqs[i]
      <4>1. CASE i = 1 BY <3>1, <4>1
      <4>2. CASE i # 1
        <5>1. i - 1 \in 1 .. n BY <4>2
        <5> QED BY <1>5, <4>2, <5>1
      <4> QED BY <4>1, <4>2
    <3>3. Eq(h)
      <4> DEFINE e == [i \in 1 .. n |-> IF i = 1 THEN seqs[i] ELSE h[i - 1] \o seqs[i]]
      <4>1. \A i \in 1 .. n : e[i] = h[i] BY <3>2
      <4>2. DOMAIN e = 1 .. n /\ DOMAIN h = 1 .. n OBVIOUS
      <4>3. h = [i \in 1 .. n |-> h[i]] OBVIOUS
      <4>4. e = [i \in 1 .. n |-> e[i]] OBVIOUS
      <4>5. e = h
        <5> HIDE DEF e, h
        <5> QED BY <4>1, <4>3, <4>4
      <4> QED BY <4>5
    <3> DEFINE g == CHOOSE k : Eq(k)
    <3>4. FlattenSeq(seqs) = g[n] BY <1>n, <2>2, Zenon DEF FlattenSeq
    <3>5. Eq(g)
      <4> HIDE DEF Eq, h
      <4> QED BY <3>3
    <3> HIDE DEF g
    <3>6. \A i \in 1 .. n : g[i] = IF i = 1 THEN seqs[i] ELSE g[i - 1] \o seqs[i]
      <4> DEFINE e == [i \in 1 .. n |-> IF i = 1 THEN seqs[i] ELSE g[i - 1] \o seqs[i]]
      <4>1. g = e BY <3>5
      <4>2. \A i \in 1 .. n : e[i] = IF i = 1 THEN seqs[i] ELSE g[i - 1] \o seqs[i] OBVIOUS
      <4> HIDE DEF e
      <4> QED BY <4>1, <4>2
    <3> DEFINE T == {m \in Nat : m + 1 <= n => g[m + 1] = f[m + 1]}
    <3>7. 0 \in T BY <3>0, <3>1, <3>6
    <3>8. ASSUME NEW m \in Nat, m \in T PROVE m + 1 \in T
      <4> SUFFICES ASSUME m + 2 <= n PROVE g[m + 2] = f[m + 2] OBVIOUS
      <4>1. g[m + 1] = f[m + 1] BY <3>8
      <4>2. m + 2 \in 1 .. n /\ m + 2 # 1 /\ (m + 2) - 1 = m + 1 BY <1>1
      <4>3. g[m + 2] = g[(m + 2) - 1] \o seqs[m + 2] BY <3>6, <4>2
      <4>4. f[m + 2] = f[(m + 2) - 1] \o seqs[m + 2] BY <1>5, <4>2
      <4> QED BY <4>1, <4>2, <4>3, <4>4
    <3> HIDE DEF T
    <3>9. n - 1 \in T
      <4>1. n - 1 \in Nat BY <1>1, <2>2
      <4> QED BY <3>7, <3>8, <4>1, Induct
    <3>10. g[n] = f[n] BY <1>1, <3>9 DEF T
    <3> QED BY <3>4, <3>10
  <2> QED BY <2>1, <2>2
<1> QED BY <1>n, <1>4, <1>5, <1>6

(* A fold from the left is the last of its intermediate results.           *)
Input == [part : Nat, closing : BOOLEAN, seen : Seq(Nat)]
AnyPiece == [type : {"DATA"}, frame : Nat, first : BOOLEAN, last : BOOLEAN]

(* The greatest position of 1 .. k is k, and removing it leaves 1 .. k - 1. *)
LEMMA Initial ==
  ASSUME NEW k \in Nat, k # 0
  PROVE  /\ 1 .. k # {} /\ Max(1 .. k) = k
         /\ (1 .. k) \ {k} = 1 .. k - 1
<1>1. k \in 1 .. k /\ 1 .. k \in SUBSET (1 .. k) OBVIOUS
<1>2. Max(1 .. k) = k BY <1>1, MaxIs
<1>3. \A i \in 1 .. k : i # k <=> i \in 1 .. k - 1 OBVIOUS
<1>4. \A i \in 1 .. k - 1 : i \in 1 .. k OBVIOUS
<1>5. (1 .. k) \ {k} = 1 .. k - 1 BY <1>3, <1>4
<1> QED BY <1>1, <1>2, <1>5

(* Reading one piece leaves a well-typed frame parser. *)
LEMMA Reassembled ==
  ASSUME NEW S, NEW in \in Input, NEW p \in AnyPiece
  PROVE  Reassemble(S, in, p) \in Input
  BY DEF Reassemble, Input, AnyPiece

Delivered(S, in, q) == FoldLeft(LAMBDA i, p : Reassemble(S, i, p), in, q)

InSteps(S, in, q) ==
  \E f \in [0 .. Len(q) -> Input] :
    /\ f[0] = in
    /\ \A i \in 1 .. Len(q) : f[i] = Reassemble(S, f[i - 1], q[i])
    /\ Delivered(S, in, q) = f[Len(q)]

(* Reading a sequence of pieces is reading them one after the other. *)
LEMMA Folded ==
  ASSUME NEW S, NEW in \in Input, NEW q \in Seq(AnyPiece)
  PROVE  InSteps(S, in, q)
<1>n. PICK n \in Nat : n = Len(q) OBVIOUS
<1> DEFINE F == [i \in 1 .. n |-> [v \in Input |-> Reassemble(S, v, q[i])]]
           Eq(g) == g = [t \in SUBSET (1 .. n) |->
                          IF t = {} THEN in ELSE Reassemble(S, g[t \ {Max(t)}], q[Max(t)])]
<1>1. DOMAIN q = 1 .. n /\ \A i \in 1 .. n : q[i] \in AnyPiece BY <1>n
<1>2. F \in [1 .. n -> [Input -> Input]] BY <1>1, Reassembled
<1>3. \A i \in 1 .. n, v \in Input : F[i][v] = Reassemble(S, v, q[i]) OBVIOUS
<1> HIDE DEF F
<1>s. PICK f \in [0 .. n -> Input] : Scans(f, in, n, F) BY <1>2, Scan
<1>4. f[0] = in /\ \A i \in 1 .. n : f[i] = F[i][f[i - 1]] BY <1>s DEF Scans
<1>5. ASSUME NEW i \in 1 .. n PROVE f[i] = Reassemble(S, f[i - 1], q[i])
  <2>1. i - 1 \in 0 .. n OBVIOUS
  <2>2. f[i - 1] \in Input BY <2>1
  <2> QED BY <1>3, <1>4, <2>2
<1>h. PICK h \in [SUBSET (1 .. n) -> Input] : SetScans(h, in, n, F) BY <1>2, SetScan
<1>6. \A t \in SUBSET (1 .. n) :
        h[t] = IF t = {} THEN in ELSE F[Max(t)][h[t \ {Max(t)}]]
  BY <1>h DEF SetScans
<1>7. ASSUME NEW t \in SUBSET (1 .. n)
      PROVE  h[t] = IF t = {} THEN in ELSE Reassemble(S, h[t \ {Max(t)}], q[Max(t)])
  <2>1. CASE t = {} BY <1>6, <2>1
  <2>2. CASE t # {}
    <3>1. Max(t) \in 1 .. n BY <1>1, <2>2, MaxIn
    <3>2. t \ {Max(t)} \in SUBSET (1 .. n) OBVIOUS
    <3>3. h[t \ {Max(t)}] \in Input BY <3>2
    <3>4. F[Max(t)][h[t \ {Max(t)}]] = Reassemble(S, h[t \ {Max(t)}], q[Max(t)])
      BY <1>3, <3>1, <3>3
    <3> QED BY <1>6, <2>2, <3>4
  <2> QED BY <2>1, <2>2
<1>8. Eq(h)
  <2> DEFINE e == [t \in SUBSET (1 .. n) |->
                    IF t = {} THEN in ELSE Reassemble(S, h[t \ {Max(t)}], q[Max(t)])]
  <2>1. \A t \in SUBSET (1 .. n) : e[t] = h[t] BY <1>7
  <2>2. e = [t \in SUBSET (1 .. n) |-> e[t]] OBVIOUS
  <2>3. h = [t \in SUBSET (1 .. n) |-> h[t]] OBVIOUS
  <2>4. e = h
    <3> HIDE DEF e
    <3> QED BY <2>1, <2>2, <2>3
  <2> QED BY <2>4
<1> DEFINE g == CHOOSE k : Eq(k)
<1>9. Delivered(S, in, q) = g[1 .. n]
  <2>1. Delivered(S, in, q)
          = (CHOOSE k : k = [t \in SUBSET (DOMAIN q) |->
               IF t = {} THEN in ELSE Reassemble(S, k[t \ {Max(t)}], q[Max(t)])])[DOMAIN q]
    BY Zenon DEF Delivered, FoldLeft, MapThenFoldSet
  <2> QED BY <1>1, <2>1
<1>10. Eq(g)
  <2> HIDE DEF Eq
  <2> QED BY <1>8
<1> HIDE DEF g
<1>11. \A t \in SUBSET (1 .. n) :
         g[t] = IF t = {} THEN in ELSE Reassemble(S, g[t \ {Max(t)}], q[Max(t)])
  <2> DEFINE e == [t \in SUBSET (1 .. n) |->
                    IF t = {} THEN in ELSE Reassemble(S, g[t \ {Max(t)}], q[Max(t)])]
  <2>1. g = e BY <1>10
  <2>2. \A t \in SUBSET (1 .. n) :
          e[t] = IF t = {} THEN in ELSE Reassemble(S, g[t \ {Max(t)}], q[Max(t)])
    OBVIOUS
  <2> HIDE DEF e
  <2> QED BY <2>1, <2>2
<1> DEFINE T == {m \in Nat : m <= n => g[1 .. m] = f[m]}
<1>12. 0 \in T
  <2>1. 1 .. 0 = {} /\ {} \in SUBSET (1 .. n) OBVIOUS
  <2>2. g[1 .. 0] = in BY <1>11, <2>1
  <2> QED BY <1>4, <2>2
<1>13. ASSUME NEW m \in Nat, m \in T PROVE m + 1 \in T
  <2> SUFFICES ASSUME m + 1 <= n PROVE g[1 .. m + 1] = f[m + 1] OBVIOUS
  <2>1. g[1 .. m] = f[m] BY <1>13
  <2>2. 1 .. m + 1 \in SUBSET (1 .. n) /\ m + 1 \in 1 .. n /\ (m + 1) - 1 = m OBVIOUS
  <2>3. /\ 1 .. m + 1 # {} /\ Max(1 .. m + 1) = m + 1
        /\ (1 .. m + 1) \ {m + 1} = 1 .. m
    <3>1. m + 1 \in Nat /\ m + 1 # 0 OBVIOUS
    <3>2. /\ 1 .. m + 1 # {} /\ Max(1 .. m + 1) = m + 1
          /\ (1 .. m + 1) \ {m + 1} = 1 .. (m + 1) - 1
      BY <3>1, Initial, Zenon
    <3> QED BY <2>2, <3>2
  <2>4. g[1 .. m + 1] = Reassemble(S, g[1 .. m], q[m + 1]) BY <1>11, <2>2, <2>3
  <2>5. f[m + 1] = Reassemble(S, f[(m + 1) - 1], q[m + 1]) BY <1>5, <2>2
  <2> QED BY <2>1, <2>2, <2>4, <2>5
<1> HIDE DEF T
<1>14. n \in T BY <1>1, <1>12, <1>13, Induct
<1>15. g[1 .. n] = f[n] BY <1>1, <1>14 DEF T
<1> QED BY <1>n, <1>4, <1>5, <1>9, <1>15 DEF InSteps

-----------------------------------------------------------------------------
(* A place in a script: 2n when n frames are complete, 2n - 1 between the  *)
(* two pieces of frame n, if it is large.  A piece takes one place to the  *)
(* next, a control frame stays.                                            *)
Moves(S, a, p, b) ==
  \/ p.type # "DATA" /\ a = b
  \/ \E n \in 1 .. Len(S) :
       \/ S[n] # "large" /\ p = Piece(n, TRUE, TRUE) /\ a = 2 * n - 2 /\ b = 2 * n
       \/ S[n] = "large" /\ p = Piece(n, TRUE, FALSE) /\ a = 2 * n - 2 /\ b = 2 * n - 1
       \/ S[n] = "large" /\ p = Piece(n, FALSE, TRUE) /\ a = 2 * n - 1 /\ b = 2 * n

Visits(S, q, f) == \A i \in 1 .. Len(q) : Moves(S, f[i - 1], q[i], f[i])

Path(S, a, q, b) ==
  \E f \in [0 .. Len(q) -> Nat] : f[0] = a /\ f[Len(q)] = b /\ Visits(S, q, f)

AllData(q) == \A i \in 1 .. Len(q) : q[i].type = "DATA"

(* No piece moves a reader nowhere. *)
LEMMA PathEmpty ==
  ASSUME NEW S, NEW a \in Nat PROVE Path(S, a, <<>>, a)
<1> DEFINE f == [i \in 0 .. 0 |-> a]
<1>1. f \in [0 .. Len(<<>>) -> Nat] /\ f[0] = a /\ Len(<<>>) = 0 OBVIOUS
<1>2. Visits(S, <<>>, f) BY DEF Visits
<1> HIDE DEF f
<1> QED BY <1>1, <1>2 DEF Path

(* A path of no pieces ends where it began. *)
LEMMA PathOver ==
  ASSUME NEW S, NEW a, NEW b, Path(S, a, <<>>, b) PROVE a = b /\ a \in Nat
  BY DEF Path

(* One move is a path of one piece. *)
LEMMA PathOne ==
  ASSUME NEW S, NEW a \in Nat, NEW b \in Nat, NEW p, Moves(S, a, p, b)
  PROVE  Path(S, a, <<p>>, b)
<1> DEFINE f == [i \in 0 .. 1 |-> IF i = 0 THEN a ELSE b]
<1>1. f \in [0 .. 1 -> Nat] /\ f[0] = a /\ f[1] = b OBVIOUS
<1>2. Len(<<p>>) = 1 /\ <<p>>[1] = p OBVIOUS
<1> HIDE DEF f
<1>3. Visits(S, <<p>>, f)
  <2> SUFFICES ASSUME NEW i \in 1 .. 1 PROVE Moves(S, f[i - 1], <<p>>[i], f[i])
    BY <1>2 DEF Visits
  <2>1. i = 1 /\ 1 - 1 = 0 OBVIOUS
  <2> QED BY <1>1, <1>2, <2>1
<1> QED BY <1>1, <1>2, <1>3 DEF Path

(* Paths that meet join into one. *)
LEMMA PathConcat ==
  ASSUME NEW X, NEW q \in Seq(X), NEW r \in Seq(X), NEW S, NEW a, NEW b, NEW c,
         Path(S, a, q, b), Path(S, b, r, c)
  PROVE  Path(S, a, q \o r, c)
<1>n. PICK n \in Nat : n = Len(q) OBVIOUS
<1>m. PICK m \in Nat : m = Len(r) OBVIOUS
<1>1. PICK f \in [0 .. n -> Nat] : f[0] = a /\ f[n] = b /\ Visits(S, q, f)
  BY <1>n DEF Path
<1>2. PICK g \in [0 .. m -> Nat] : g[0] = b /\ g[m] = c /\ Visits(S, r, g)
  BY <1>m DEF Path
<1> DEFINE h == [i \in 0 .. n + m |-> IF i <= n THEN f[i] ELSE g[i - n]]
<1>3. Len(q \o r) = n + m BY <1>n, <1>m
<1>4. h \in [0 .. n + m -> Nat]
  <2> SUFFICES ASSUME NEW i \in 0 .. n + m PROVE (IF i <= n THEN f[i] ELSE g[i - n]) \in Nat
    OBVIOUS
  <2>1. CASE i <= n
    <3>1. i \in 0 .. n BY <2>1
    <3> QED BY <2>1, <3>1
  <2>2. CASE ~ i <= n
    <3>1. i - n \in 0 .. m BY <2>2
    <3> QED BY <2>2, <3>1
  <2> QED BY <2>1, <2>2
<1>5. \A i \in 0 .. n : h[i] = f[i] OBVIOUS
<1>6. \A i \in 0 .. m : h[n + i] = g[i]
  <2> SUFFICES ASSUME NEW i \in 0 .. m PROVE h[n + i] = g[i] OBVIOUS
  <2>1. n + i \in 0 .. n + m OBVIOUS
  <2>2. CASE i = 0 BY <1>1, <1>2, <2>1, <2>2
  <2>3. CASE i # 0
    <3>1. ~ n + i <= n /\ (n + i) - n = i BY <2>3
    <3> QED BY <2>1, <3>1
  <2> QED BY <2>2, <2>3
<1> HIDE DEF h
<1>7. Visits(S, q \o r, h)
  <2> SUFFICES ASSUME NEW i \in 1 .. n + m PROVE Moves(S, h[i - 1], (q \o r)[i], h[i])
    BY <1>3 DEF Visits
  <2>1. CASE i <= n
    <3>1. i \in 0 .. n /\ i - 1 \in 0 .. n /\ i \in 1 .. Len(q) BY <1>n, <2>1
    <3>2. (q \o r)[i] = q[i] BY <3>1
    <3>3. Moves(S, f[i - 1], q[i], f[i]) BY <1>1, <3>1 DEF Visits
    <3> QED BY <1>5, <3>1, <3>2, <3>3
  <2>2. CASE ~ i <= n
    <3>1. PICK k \in 1 .. m : i = n + k
      <4>1. i - n \in 1 .. m /\ i = n + (i - n) BY <2>2
      <4> QED BY <4>1
    <3>2. (q \o r)[i] = r[k] BY <1>n, <1>m, <3>1
    <3>3. Moves(S, g[k - 1], r[k], g[k]) BY <1>m, <1>2 DEF Visits
    <3>4. k - 1 \in 0 .. m /\ k \in 0 .. m /\ i - 1 = n + (k - 1) BY <3>1
    <3>5. h[i - 1] = g[k - 1] /\ h[i] = g[k] BY <1>6, <3>1, <3>4
    <3> QED BY <3>2, <3>3, <3>5
  <2> QED BY <2>1, <2>2
<1>8. h[0] = a /\ h[n + m] = c
  <2>1. 0 \in 0 .. n /\ m \in 0 .. m OBVIOUS
  <2> QED BY <1>1, <1>2, <1>5, <1>6, <2>1
<1> QED BY <1>3, <1>4, <1>7, <1>8 DEF Path

(* A path can be cut after any of its pieces. *)
LEMMA PathCut ==
  ASSUME NEW X, NEW q \in Seq(X), NEW S, NEW a, NEW c, Path(S, a, q, c),
         NEW k \in 0 .. Len(q)
  PROVE  \E b \in Nat : /\ Path(S, a, SubSeq(q, 1, k), b)
                        /\ Path(S, b, SubSeq(q, k + 1, Len(q)), c)
<1>n. PICK n \in Nat : n = Len(q) OBVIOUS
<1>1. PICK f \in [0 .. n -> Nat] : f[0] = a /\ f[n] = c /\ Visits(S, q, f)
  BY <1>n DEF Path
<1>k. k \in 0 .. n /\ k \in Nat /\ n - k \in Nat BY <1>n
<1>2. \A i \in 1 .. n : Moves(S, f[i - 1], q[i], f[i]) BY <1>n, <1>1 DEF Visits
<1>3. Path(S, a, SubSeq(q, 1, k), f[k])
  <2> DEFINE g == [i \in 0 .. k |-> f[i]]
  <2>1. g \in [0 .. k -> Nat] BY <1>k
  <2>2. Len(SubSeq(q, 1, k)) = k /\ \A i \in 1 .. k : SubSeq(q, 1, k)[i] = q[i]
    BY <1>n, <1>k
  <2>3. \A i \in 0 .. k : g[i] = f[i] OBVIOUS
  <2> HIDE DEF g
  <2>4. Visits(S, SubSeq(q, 1, k), g)
    <3> SUFFICES ASSUME NEW i \in 1 .. k PROVE Moves(S, g[i - 1], SubSeq(q, 1, k)[i], g[i])
      BY <2>2 DEF Visits
    <3>1. i \in 1 .. n /\ i - 1 \in 0 .. k /\ i \in 0 .. k BY <1>k
    <3>2. Moves(S, f[i - 1], q[i], f[i]) BY <1>2, <3>1
    <3> QED BY <2>2, <2>3, <3>1, <3>2
  <2>5. 0 \in 0 .. k /\ k \in 0 .. k BY <1>k
  <2>6. g[0] = a /\ g[k] = f[k] BY <1>1, <2>3, <2>5
  <2> QED BY <2>1, <2>2, <2>4, <2>6 DEF Path
<1>4. Path(S, f[k], SubSeq(q, k + 1, Len(q)), c)
  <2>l. PICK l \in Nat : l = n - k BY <1>k
  <2> DEFINE g == [i \in 0 .. l |-> f[k + i]]
             r == SubSeq(q, k + 1, Len(q))
  <2>i. \A i \in 0 .. l : k + i \in 0 .. n BY <1>k, <2>l
  <2>1. g \in [0 .. l -> Nat] BY <2>i
  <2>2. Len(r) = l /\ \A i \in 1 .. l : r[i] = q[k + i] BY <1>n, <1>k, <2>l
  <2>3. \A i \in 0 .. l : g[i] = f[k + i] OBVIOUS
  <2> HIDE DEF g, r
  <2>4. Visits(S, r, g)
    <3> SUFFICES ASSUME NEW i \in 1 .. l PROVE Moves(S, g[i - 1], r[i], g[i])
      BY <2>2 DEF Visits
    <3>1. /\ k + i \in 1 .. n /\ i - 1 \in 0 .. l /\ i \in 0 .. l
          /\ k + (i - 1) = (k + i) - 1
      BY <1>k, <2>l
    <3>2. Moves(S, f[(k + i) - 1], q[k + i], f[k + i]) BY <1>2, <3>1
    <3> QED BY <2>2, <2>3, <3>1, <3>2
  <2>5. 0 \in 0 .. l /\ l \in 0 .. l /\ k + 0 = k /\ k + l = n BY <1>k, <2>l
  <2>6. g[0] = f[k] /\ g[l] = c BY <1>1, <2>3, <2>5
  <2> QED BY <2>1, <2>2, <2>4, <2>6 DEF Path, r
<1>5. f[k] \in Nat BY <1>k
<1> QED BY <1>3, <1>4, <1>5

(* A path that is not empty begins with one move and goes on as a path. *)
LEMMA PathHead ==
  ASSUME NEW X, NEW w \in Seq(X), w # <<>>, NEW S, NEW a, NEW c, Path(S, a, w, c)
  PROVE  \E b \in Nat : Moves(S, a, Head(w), b) /\ Path(S, b, Tail(w), c)
<1>n. PICK n \in Nat : n = Len(w) /\ n # 0 BY EmptySeq
<1>1. PICK f \in [0 .. n -> Nat] : f[0] = a /\ f[n] = c /\ Visits(S, w, f)
  BY <1>n DEF Path
<1>2. Head(w) = w[1] /\ Tail(w) \in Seq(X) /\ Len(Tail(w)) = n - 1
      /\ \A i \in 1 .. n - 1 : Tail(w)[i] = w[i + 1]
  BY <1>n, HeadTailProperties
<1>3. Moves(S, a, Head(w), f[1])
  <2>1. 1 \in 1 .. n /\ 1 - 1 = 0 BY <1>n
  <2>2. Moves(S, f[1 - 1], w[1], f[1]) BY <1>n, <1>1, <2>1 DEF Visits
  <2> QED BY <1>1, <1>2, <2>1, <2>2
<1>4. Path(S, f[1], Tail(w), c)
  <2>m. PICK m \in Nat : m = n - 1 BY <1>n
  <2> DEFINE g == [i \in 0 .. m |-> f[i + 1]]
  <2>i. \A i \in 0 .. m : i + 1 \in 0 .. n BY <2>m
  <2>1. g \in [0 .. m -> Nat] BY <2>i
  <2>2. \A i \in 0 .. m : g[i] = f[i + 1] OBVIOUS
  <2> HIDE DEF g
  <2>3. Visits(S, Tail(w), g)
    <3> SUFFICES ASSUME NEW i \in 1 .. m PROVE Moves(S, g[i - 1], Tail(w)[i], g[i])
      BY <1>2, <2>m DEF Visits
    <3>1. i + 1 \in 1 .. n /\ i - 1 \in 0 .. m /\ i \in 0 .. m /\ (i - 1) + 1 = (i + 1) - 1
      BY <2>m
    <3>2. Moves(S, f[(i + 1) - 1], w[i + 1], f[i + 1]) BY <1>n, <1>1, <3>1 DEF Visits
    <3>3. Tail(w)[i] = w[i + 1] BY <1>2, <2>m
    <3>4. g[i - 1] = f[(i + 1) - 1] /\ g[i] = f[i + 1] BY <2>2, <3>1
    <3> QED BY <3>2, <3>3, <3>4
  <2>4. g[0] = f[1] /\ g[m] = c
    <3>1. 0 \in 0 .. m /\ m \in 0 .. m /\ 0 + 1 = 1 /\ m + 1 = n BY <2>m
    <3> QED BY <1>1, <2>2, <3>1
  <2> QED BY <1>2, <2>m, <2>1, <2>3, <2>4 DEF Path
<1>5. f[1] \in Nat
  <2>1. 1 \in 0 .. n BY <1>n
  <2> QED BY <2>1
<1> QED BY <1>3, <1>4, <1>5

(* A path along a concatenation passes through a point where its parts meet. *)
LEMMA PathSplit ==
  ASSUME NEW X, NEW q \in Seq(X), NEW r \in Seq(X), NEW S, NEW a, NEW c,
         Path(S, a, q \o r, c)
  PROVE  \E b \in Nat : Path(S, a, q, b) /\ Path(S, b, r, c)
<1>1. q \o r \in Seq(X) /\ Len(q) \in 0 .. Len(q \o r) OBVIOUS
<1>2. SubSeq(q \o r, 1, Len(q)) = q OBVIOUS
<1>3. SubSeq(q \o r, Len(q) + 1, Len(q \o r)) = r OBVIOUS
<1>4. \E b \in Nat : /\ Path(S, a, SubSeq(q \o r, 1, Len(q)), b)
                     /\ Path(S, b, SubSeq(q \o r, Len(q) + 1, Len(q \o r)), c)
  BY <1>1, PathCut
<1> QED BY <1>2, <1>3, <1>4

(* Places never go back, and a piece always goes on.                       *)
LEMMA MovesOn ==
  ASSUME NEW S, Len(S) \in Nat, NEW a, NEW p, NEW b, Moves(S, a, p, b), a \in Nat
  PROVE  b >= a /\ b \in Nat /\ (p.type = "DATA" => b > a /\ b <= 2 * Len(S))
<1>1. CASE p.type # "DATA" /\ a = b BY <1>1
<1>2. CASE \E n \in 1 .. Len(S) :
             \/ S[n] # "large" /\ p = Piece(n, TRUE, TRUE) /\ a = 2 * n - 2 /\ b = 2 * n
             \/ S[n] = "large" /\ p = Piece(n, TRUE, FALSE) /\ a = 2 * n - 2 /\ b = 2 * n - 1
             \/ S[n] = "large" /\ p = Piece(n, FALSE, TRUE) /\ a = 2 * n - 1 /\ b = 2 * n
  <2>1. PICK n \in 1 .. Len(S) :
             \/ a = 2 * n - 2 /\ b = 2 * n
             \/ a = 2 * n - 2 /\ b = 2 * n - 1
             \/ a = 2 * n - 1 /\ b = 2 * n
    BY <1>2
  <2>2. b > a /\ b <= 2 * Len(S) /\ b \in Nat BY <2>1
  <2>3. b >= a BY <2>2
  <2> QED BY <2>2, <2>3
<1> QED BY <1>1, <1>2 DEF Moves

(* Pieces only ever move a reader forward in the script. *)
LEMMA PathGrows ==
  ASSUME NEW X, NEW w \in Seq(X), NEW S, Len(S) \in Nat, NEW a, NEW c, Path(S, a, w, c)
  PROVE  a \in Nat /\ c \in Nat /\ c >= a
<1>n. PICK n \in Nat : n = Len(w) OBVIOUS
<1>1. PICK f \in [0 .. n -> Nat] : f[0] = a /\ f[n] = c /\ Visits(S, w, f)
  BY <1>n DEF Path
<1> DEFINE T == {k \in Nat : k <= n => f[k] >= a}
<1>2. 0 \in T BY <1>1
<1>3. ASSUME NEW k \in Nat, k \in T PROVE k + 1 \in T
  <2> SUFFICES ASSUME k + 1 <= n PROVE f[k + 1] >= a OBVIOUS
  <2>1. f[k] >= a BY <1>3
  <2>2. k + 1 \in 1 .. n /\ (k + 1) - 1 = k /\ k \in 0 .. n /\ k + 1 \in 0 .. n OBVIOUS
  <2>3. Moves(S, f[(k + 1) - 1], w[k + 1], f[k + 1]) BY <1>n, <1>1, <2>2 DEF Visits
  <2>4. f[k] \in Nat /\ f[k + 1] \in Nat /\ a \in Nat
    <3>1. 0 \in 0 .. n OBVIOUS
    <3> QED BY <1>1, <2>2, <3>1
  <2>5. f[k + 1] >= f[k] BY <2>2, <2>3, <2>4, MovesOn
  <2> QED BY <2>1, <2>4, <2>5
<1> HIDE DEF T
<1>4. n \in T BY <1>2, <1>3, Induct
<1>5. c >= a BY <1>1, <1>4 DEF T
<1>6. 0 \in 0 .. n /\ n \in 0 .. n OBVIOUS
<1> QED BY <1>1, <1>5, <1>6

(* From a place there is one way.                                          *)
LEMMA OneWay ==
  ASSUME NEW S, Len(S) \in Nat, NEW a \in Nat, NEW p, NEW b, NEW r, NEW c,
         Moves(S, a, p, b), Moves(S, a, r, c), p.type = "DATA", r.type = "DATA"
  PROVE  p = r /\ b = c
<1>1. PICK n \in 1 .. Len(S) :
        \/ S[n] # "large" /\ p = Piece(n, TRUE, TRUE) /\ a = 2 * n - 2 /\ b = 2 * n
        \/ S[n] = "large" /\ p = Piece(n, TRUE, FALSE) /\ a = 2 * n - 2 /\ b = 2 * n - 1
        \/ S[n] = "large" /\ p = Piece(n, FALSE, TRUE) /\ a = 2 * n - 1 /\ b = 2 * n
  BY Zenon DEF Moves
<1>2. PICK m \in 1 .. Len(S) :
        \/ S[m] # "large" /\ r = Piece(m, TRUE, TRUE) /\ a = 2 * m - 2 /\ c = 2 * m
        \/ S[m] = "large" /\ r = Piece(m, TRUE, FALSE) /\ a = 2 * m - 2 /\ c = 2 * m - 1
        \/ S[m] = "large" /\ r = Piece(m, FALSE, TRUE) /\ a = 2 * m - 1 /\ c = 2 * m
  BY Zenon DEF Moves
<1>3. n = m
  <2>1. n \in Nat /\ m \in Nat OBVIOUS
  <2>2. a \in {2 * n - 2, 2 * n - 1} /\ a \in {2 * m - 2, 2 * m - 1} BY <1>1, <1>2
  <2> QED BY <2>1, <2>2
<1>4. n \in Nat OBVIOUS
<1>5. 2 * n - 2 # 2 * n - 1 BY <1>4
<1> QED BY <1>1, <1>2, <1>3, <1>5

(* The pieces of a script between two points are determined: two paths of data with the
   same ends are one. *)
LEMMA PathUnique ==
  ASSUME NEW X, NEW q \in Seq(X), NEW r \in Seq(X), NEW S, Len(S) \in Nat, NEW a, NEW b,
         Path(S, a, q, b), Path(S, a, r, b), AllData(q), AllData(r), Len(q) <= Len(r)
  PROVE  q = r
<1>n. PICK n \in Nat : n = Len(q) OBVIOUS
<1>m. PICK m \in Nat : m = Len(r) OBVIOUS
<1>1. PICK f \in [0 .. n -> Nat] : f[0] = a /\ f[n] = b /\ Visits(S, q, f)
  BY <1>n DEF Path
<1>2. PICK g \in [0 .. m -> Nat] : g[0] = a /\ g[m] = b /\ Visits(S, r, g)
  BY <1>m DEF Path
<1>3. n <= m BY <1>n, <1>m
<1> DEFINE T == {k \in Nat : k <= n => f[k] = g[k] /\ \A i \in 1 .. k : q[i] = r[i]}
<1>4. 0 \in T BY <1>1, <1>2
<1>5. ASSUME NEW k \in Nat, k \in T PROVE k + 1 \in T
  <2> SUFFICES ASSUME k + 1 <= n
               PROVE  f[k + 1] = g[k + 1] /\ \A i \in 1 .. k + 1 : q[i] = r[i]
    OBVIOUS
  <2>1. f[k] = g[k] /\ \A i \in 1 .. k : q[i] = r[i] BY <1>5
  <2>2. /\ k + 1 \in 1 .. n /\ k + 1 \in 1 .. m /\ (k + 1) - 1 = k
        /\ k \in 0 .. n
    BY <1>3
  <2>3. Moves(S, f[k], q[k + 1], f[k + 1]) BY <1>n, <1>1, <2>2 DEF Visits
  <2>4. Moves(S, g[k], r[k + 1], g[k + 1]) BY <1>m, <1>2, <2>2 DEF Visits
  <2>5. q[k + 1].type = "DATA" /\ r[k + 1].type = "DATA" BY <1>n, <1>m, <2>2 DEF AllData
  <2>6. f[k] \in Nat BY <2>2
  <2>7. f[k + 1] = g[k + 1] /\ q[k + 1] = r[k + 1] BY <2>1, <2>3, <2>4, <2>5, <2>6, OneWay
  <2>8. \A i \in 1 .. k + 1 : i = k + 1 \/ i \in 1 .. k OBVIOUS
  <2> QED BY <2>1, <2>7, <2>8
<1> HIDE DEF T
<1>6. n \in T BY <1>4, <1>5, Induct
<1>7. f[n] = g[n] /\ \A i \in 1 .. n : q[i] = r[i] BY <1>6 DEF T
<1>8. n = m
  <2>1. SUFFICES ASSUME n < m PROVE FALSE BY <1>3
  <2> DEFINE U == {k \in Nat : n + 1 + k <= m => g[n + 1 + k] > g[n]}
  <2>2. \A i \in 1 .. m : Moves(S, g[i - 1], r[i], g[i]) /\ r[i].type = "DATA"
    BY <1>m, <1>2 DEF Visits, AllData
  <2>3. \A i \in 1 .. m : g[i] > g[i - 1] /\ g[i] \in Nat /\ g[i - 1] \in Nat
    <3> SUFFICES ASSUME NEW i \in 1 .. m
                 PROVE  g[i] > g[i - 1] /\ g[i] \in Nat /\ g[i - 1] \in Nat
      OBVIOUS
    <3>1. i - 1 \in 0 .. m /\ i \in 0 .. m OBVIOUS
    <3>2. g[i - 1] \in Nat /\ g[i] \in Nat BY <3>1
    <3> QED BY <2>2, <3>2, MovesOn
  <2>4. 0 \in U
    <3>1. n + 1 \in 1 .. m /\ (n + 1) - 1 = n /\ n + 1 + 0 = n + 1 BY <2>1
    <3> QED BY <2>3, <3>1
  <2>5. ASSUME NEW k \in Nat, k \in U PROVE k + 1 \in U
    <3> SUFFICES ASSUME n + 1 + (k + 1) <= m PROVE g[n + 1 + (k + 1)] > g[n] OBVIOUS
    <3>1. g[n + 1 + k] > g[n] BY <2>5
    <3>2. n + 1 + (k + 1) \in 1 .. m /\ (n + 1 + (k + 1)) - 1 = n + 1 + k OBVIOUS
    <3>3. g[n + 1 + (k + 1)] > g[n + 1 + k] /\ g[n + 1 + k] \in Nat /\ g[n + 1 + (k + 1)] \in Nat
      BY <2>3, <3>2
    <3>4. g[n] \in Nat
      <4>1. n \in 0 .. m BY <2>1
      <4> QED BY <4>1
    <3> QED BY <3>1, <3>3, <3>4
  <2> HIDE DEF U
  <2>6. m - n - 1 \in U
    <3>1. m - n - 1 \in Nat BY <2>1
    <3> QED BY <2>4, <2>5, <3>1, Induct
  <2>7. n + 1 + (m - n - 1) = m OBVIOUS
  <2>8. g[m] > g[n] BY <2>6, <2>7 DEF U
  <2>9. g[n] = b /\ g[m] = b /\ b \in Nat BY <1>1, <1>2, <1>7
  <2> QED BY <2>8, <2>9
<1> QED BY <1>n, <1>m, <1>7, <1>8, SeqEqual

-----------------------------------------------------------------------------
(* Frames in order are cut into the pieces that lead from the place before *)
(* them to the place behind them.                                          *)
PiecesIn(S) == [type : {"DATA"}, frame : 1 .. Len(S), first : BOOLEAN, last : BOOLEAN]

Cut(S, n) ==
  IF S[n] = "large" THEN <<Piece(n, TRUE, FALSE), Piece(n, FALSE, TRUE)>>
                    ELSE <<Piece(n, TRUE, TRUE)>>

(* Two runs of data make a run of data. *)
LEMMA DataConcat ==
  ASSUME NEW X, NEW q \in Seq(X), NEW r \in Seq(X), AllData(q), AllData(r)
  PROVE  AllData(q \o r)
<1> SUFFICES ASSUME NEW i \in 1 .. Len(q) + Len(r) PROVE (q \o r)[i].type = "DATA"
  BY DEF AllData
<1>1. CASE i <= Len(q)
  <2>1. i \in 1 .. Len(q) /\ (q \o r)[i] = q[i] BY <1>1
  <2> QED BY <2>1 DEF AllData
<1>2. CASE ~ i <= Len(q)
  <2>1. i - Len(q) \in 1 .. Len(r) /\ (q \o r)[i] = r[i - Len(q)] BY <1>2
  <2> QED BY <2>1 DEF AllData
<1> QED BY <1>1, <1>2

(* The pieces of a script are data. *)
LEMMA DataIn ==
  ASSUME NEW S, NEW q \in Seq(PiecesIn(S)) PROVE AllData(q)
<1> SUFFICES ASSUME NEW i \in 1 .. Len(q) PROVE q[i].type = "DATA" BY DEF AllData
<1>1. q[i] \in PiecesIn(S) OBVIOUS
<1> QED BY <1>1 DEF PiecesIn

(* The pieces a frame is cut into move a reader over that frame and no further. *)
LEMMA CutPath ==
  ASSUME NEW S, Len(S) \in Nat, NEW n \in 1 .. Len(S)
  PROVE  Cut(S, n) \in Seq(PiecesIn(S)) /\ Path(S, 2 * n - 2, Cut(S, n), 2 * n)
<1>0. /\ 2 * n - 2 \in Nat /\ 2 * n - 1 \in Nat /\ 2 * n \in Nat
      /\ Piece(n, TRUE, TRUE) \in PiecesIn(S)
      /\ Piece(n, TRUE, FALSE) \in PiecesIn(S)
      /\ Piece(n, FALSE, TRUE) \in PiecesIn(S)
  BY DEF Piece, PiecesIn
<1> DEFINE X == PiecesIn(S)
           u == Piece(n, TRUE, TRUE)
           v == Piece(n, TRUE, FALSE)
           w == Piece(n, FALSE, TRUE)
<1>3. u \in X /\ v \in X /\ w \in X BY <1>0
<1>4. Cut(S, n) = IF S[n] = "large" THEN <<v, w>> ELSE <<u>> BY DEF Cut
<1>5. CASE S[n] = "large"
  <2>1. Moves(S, 2 * n - 2, v, 2 * n - 1) BY <1>5, Zenon DEF Moves
  <2>2. Moves(S, 2 * n - 1, w, 2 * n) BY <1>5, Zenon DEF Moves
  <2> HIDE DEF X, u, v, w
  <2>3. Path(S, 2 * n - 2, <<v>>, 2 * n - 1) BY <1>0, <2>1, PathOne
  <2>4. Path(S, 2 * n - 1, <<w>>, 2 * n) BY <1>0, <2>2, PathOne
  <2>5. <<v>> \in Seq(X) /\ <<w>> \in Seq(X) /\ <<v, w>> \in Seq(X) BY <1>3
  <2>6. Path(S, 2 * n - 2, <<v>> \o <<w>>, 2 * n) BY <2>3, <2>4, <2>5, PathConcat
  <2>7. <<v>> \o <<w>> = <<v, w>>
    <3>1. Len(<<v>>) = 1 /\ <<v>>[1] = v /\ Len(<<w>>) = 1 /\ <<w>>[1] = w OBVIOUS
    <3>2. /\ <<v>> \o <<w>> \in Seq(X) /\ Len(<<v>> \o <<w>>) = 2
          /\ (<<v>> \o <<w>>)[1] = v /\ (<<v>> \o <<w>>)[2] = w
      BY <2>5, <3>1
    <3>3. Len(<<v, w>>) = 2 /\ <<v, w>>[1] = v /\ <<v, w>>[2] = w OBVIOUS
    <3>4. \A i \in 1 .. 2 : i = 1 \/ i = 2 OBVIOUS
    <3> QED BY <2>5, <3>2, <3>3, <3>4, SeqEqual
  <2>8. Cut(S, n) = <<v, w>> BY <1>4, <1>5
  <2>9. Cut(S, n) \in Seq(X) BY <2>5, <2>8
  <2>10. Path(S, 2 * n - 2, Cut(S, n), 2 * n) BY <2>6, <2>7, <2>8
  <2> QED BY <2>9, <2>10 DEF X
<1>6. CASE S[n] # "large"
  <2>1. Moves(S, 2 * n - 2, u, 2 * n) BY <1>6, Zenon DEF Moves
  <2> HIDE DEF X, u, v, w
  <2>2. Path(S, 2 * n - 2, <<u>>, 2 * n) BY <1>0, <2>1, PathOne
  <2>3. <<u>> \in Seq(X) BY <1>3
  <2>4. Cut(S, n) = <<u>> BY <1>4, <1>6
  <2>5. Cut(S, n) \in Seq(X) BY <2>3, <2>4
  <2>6. Path(S, 2 * n - 2, Cut(S, n), 2 * n) BY <2>2, <2>4
  <2> QED BY <2>5, <2>6 DEF X
<1> QED BY <1>5, <1>6

(* The pieces of consecutive frames move a reader over exactly those frames. *)
LEMMA PiecesPath ==
  ASSUME NEW S, Len(S) \in Nat, NEW frames \in Seq(Nat), NEW a \in Nat,
         a + Len(frames) <= Len(S), \A i \in 1 .. Len(frames) : frames[i] = a + i
  PROVE  /\ PiecesOf(S, frames) \in Seq(PiecesIn(S))
         /\ Path(S, 2 * a, PiecesOf(S, frames), 2 * (a + Len(frames)))
<1>m. PICK m \in Nat : m = Len(frames) OBVIOUS
<1> DEFINE seqs == [i \in DOMAIN frames |-> Cut(S, frames[i])]
<1>1. \A i \in 1 .. m : frames[i] = a + i /\ a + i \in 1 .. Len(S) BY <1>m
<1>2. \A i \in 1 .. m : Cut(S, a + i) \in Seq(PiecesIn(S))
                        /\ Path(S, 2 * (a + i) - 2, Cut(S, a + i), 2 * (a + i))
  <2> SUFFICES ASSUME NEW i \in 1 .. m
               PROVE  /\ Cut(S, a + i) \in Seq(PiecesIn(S))
                      /\ Path(S, 2 * (a + i) - 2, Cut(S, a + i), 2 * (a + i))
    OBVIOUS
  <2>1. PICK n \in 1 .. Len(S) : n = a + i BY <1>1
  <2>2. Cut(S, n) \in Seq(PiecesIn(S)) /\ Path(S, 2 * n - 2, Cut(S, n), 2 * n) BY CutPath
  <2> QED BY <2>1, <2>2
<1>3. DOMAIN frames = 1 .. m BY <1>m
<1>4. seqs \in Seq(Seq(PiecesIn(S))) /\ Len(seqs) = m /\ \A i \in 1 .. m : seqs[i] = Cut(S, a + i)
  <2>1. seqs = [i \in 1 .. m |-> Cut(S, frames[i])] BY <1>3
  <2>2. \A i \in 1 .. m : seqs[i] = Cut(S, a + i) BY <1>1, <2>1
  <2> HIDE DEF seqs
  <2>3. DOMAIN seqs = 1 .. m BY <2>1
  <2>4. \A i \in 1 .. m : seqs[i] \in Seq(PiecesIn(S)) BY <1>2, <2>2
  <2>5. seqs \in [1 .. m -> Seq(PiecesIn(S))] BY <2>1, <2>3, <2>4, Zenon
  <2> DEFINE Q == Seq(PiecesIn(S))
  <2> HIDE DEF Q
  <2>6. seqs \in Seq(Q) BY <2>5 DEF Q
  <2>7. Len(seqs) = m BY <2>3, <2>6
  <2> QED BY <2>2, <2>6, <2>7 DEF Q
<1>5. PiecesOf(S, frames) = FlattenSeq(seqs) BY Zenon DEF PiecesOf, Cut
<1> HIDE DEF seqs
<1>6. PICK f \in [0 .. m -> Seq(PiecesIn(S))] :
        /\ f[0] = <<>>
        /\ \A i \in 1 .. m : f[i] = f[i - 1] \o seqs[i]
        /\ FlattenSeq(seqs) = f[m]
  BY <1>4, Flattened
<1> DEFINE T == {k \in Nat : k <= m => Path(S, 2 * a, f[k], 2 * (a + k))}
<1>7. 0 \in T
  <2>1. 2 * (a + 0) = 2 * a /\ 2 * a \in Nat OBVIOUS
  <2> QED BY <1>6, <2>1, PathEmpty
<1>8. ASSUME NEW k \in Nat, k \in T PROVE k + 1 \in T
  <2> SUFFICES ASSUME k + 1 <= m PROVE Path(S, 2 * a, f[k + 1], 2 * (a + (k + 1))) OBVIOUS
  <2>1. Path(S, 2 * a, f[k], 2 * (a + k)) BY <1>8
  <2>2. /\ k + 1 \in 1 .. m /\ (k + 1) - 1 = k /\ k \in 0 .. m
        /\ 2 * (a + (k + 1)) - 2 = 2 * (a + k)
    OBVIOUS
  <2>3. Path(S, 2 * (a + (k + 1)) - 2, Cut(S, a + (k + 1)), 2 * (a + (k + 1))) BY <1>2, <2>2
  <2>4. f[k + 1] = f[k] \o Cut(S, a + (k + 1)) BY <1>4, <1>6, <2>2
  <2>5. f[k] \in Seq(PiecesIn(S)) /\ Cut(S, a + (k + 1)) \in Seq(PiecesIn(S))
    BY <1>2, <2>2
  <2> QED BY <2>1, <2>2, <2>3, <2>4, <2>5, PathConcat
<1> HIDE DEF T
<1>9. m \in T BY <1>7, <1>8, Induct
<1>10. Path(S, 2 * a, f[m], 2 * (a + m)) BY <1>9 DEF T
<1>11. f[m] \in Seq(PiecesIn(S))
  <2>1. m \in 0 .. m OBVIOUS
  <2> QED BY <2>1
<1> QED BY <1>m, <1>5, <1>6, <1>10, <1>11

(* What an end keeps unsent begins at the place b: the rest of a large     *)
(* frame, and the frames read behind it.                                   *)
Holds(S, read, buffer, rest, b) ==
  \E n \in 0 .. read :
    /\ Len(buffer) = read - n /\ \A i \in 1 .. Len(buffer) : buffer[i] = n + i
    /\ \/ rest = <<>> /\ b = 2 * n
       \/ n # 0 /\ S[n] = "large" /\ rest = <<Piece(n, FALSE, TRUE)>> /\ b = 2 * n - 1

Held(S, out, b) ==
  /\ out.read \in 0 .. Len(S) /\ out.buffer \in Seq(Nat)
  /\ Holds(S, out.read, out.buffer, out.rest, b)

(* What an end still holds of its peer is the path from what it has sent to what it has
   read. *)
LEMMA HeldPath ==
  ASSUME NEW S, Len(S) \in Nat, NEW out, NEW b, Held(S, out, b)
  PROVE  /\ Output(S, out) \in Seq(PiecesIn(S)) /\ b \in Nat
         /\ Path(S, b, Output(S, out), 2 * out.read)
         /\ out.rest \in Seq(PiecesIn(S)) /\ PiecesOf(S, out.buffer) \in Seq(PiecesIn(S))
<1>0. out.read \in 0 .. Len(S) /\ out.buffer \in Seq(Nat) BY DEF Held
<1>1. PICK n \in 0 .. out.read :
        /\ Len(out.buffer) = out.read - n
        /\ \A i \in 1 .. Len(out.buffer) : out.buffer[i] = n + i
        /\ \/ out.rest = <<>> /\ b = 2 * n
           \/ /\ n # 0 /\ S[n] = "large" /\ out.rest = <<Piece(n, FALSE, TRUE)>>
              /\ b = 2 * n - 1
  BY DEF Held, Holds
<1>2. n \in Nat /\ n <= Len(S) /\ n + Len(out.buffer) = out.read /\ 2 * n \in Nat
  <2>1. PICK r \in Nat : r = out.read /\ r <= Len(S) BY <1>0
  <2>2. PICK m \in Nat : m = Len(out.buffer) BY <1>0
  <2>3. n \in 0 .. r /\ m = r - n BY <1>1, <2>1, <2>2
  <2>4. n \in Nat /\ n <= Len(S) /\ n + m = r /\ 2 * n \in Nat BY <2>1, <2>3
  <2> QED BY <2>1, <2>2, <2>4
<1>3. /\ PiecesOf(S, out.buffer) \in Seq(PiecesIn(S))
      /\ Path(S, 2 * n, PiecesOf(S, out.buffer), 2 * out.read)
  <2>1. n + Len(out.buffer) <= Len(S) BY <1>0, <1>2
  <2>2. /\ PiecesOf(S, out.buffer) \in Seq(PiecesIn(S))
        /\ Path(S, 2 * n, PiecesOf(S, out.buffer), 2 * (n + Len(out.buffer)))
    BY <1>0, <1>1, <1>2, <2>1, PiecesPath
  <2> QED BY <1>2, <2>2
<1>4. out.rest \in Seq(PiecesIn(S)) /\ b \in Nat /\ Path(S, b, out.rest, 2 * n)
  <2>1. CASE out.rest = <<>> /\ b = 2 * n BY <1>2, <2>1, PathEmpty
  <2>2. CASE /\ n # 0 /\ S[n] = "large" /\ out.rest = <<Piece(n, FALSE, TRUE)>>
             /\ b = 2 * n - 1
    <3>1. n \in 1 .. Len(S) /\ b \in Nat BY <1>2, <2>2
    <3>2. Moves(S, b, Piece(n, FALSE, TRUE), 2 * n) BY <2>2, <3>1, Zenon DEF Moves
    <3>3. Piece(n, FALSE, TRUE) \in PiecesIn(S) BY <3>1 DEF Piece, PiecesIn
    <3> DEFINE p == Piece(n, FALSE, TRUE)
    <3>4. p \in PiecesIn(S) /\ Moves(S, b, p, 2 * n) /\ out.rest = <<p>> BY <2>2, <3>2, <3>3
    <3> HIDE DEF p
    <3>5. Path(S, b, <<p>>, 2 * n) BY <1>2, <3>1, <3>4, PathOne
    <3>6. <<p>> \in Seq(PiecesIn(S)) BY <3>4
    <3> QED BY <3>1, <3>4, <3>5, <3>6
  <2> QED BY <1>1, <2>1, <2>2
<1>5. Path(S, b, out.rest \o PiecesOf(S, out.buffer), 2 * out.read)
  BY <1>3, <1>4, PathConcat
<1>6. out.rest \o PiecesOf(S, out.buffer) \in Seq(PiecesIn(S)) BY <1>3, <1>4
<1> QED BY <1>3, <1>4, <1>5, <1>6 DEF Output

(* Frames that are read go behind those kept.                              *)
LEMMA ReadHeld ==
  ASSUME NEW S, Len(S) \in Nat, NEW out, NEW b, Held(S, out, b),
         NEW n \in out.read .. Len(S), NEW out2, out2.read = n, out2.rest = out.rest,
         out2.buffer = out.buffer \o SubSeq(Upto(n), out.read + 1, n)
  PROVE  Held(S, out2, b)
<1>r. PICK r \in Nat : r = out.read /\ r <= Len(S) BY DEF Held
<1>m. PICK m \in Nat : m = Len(out.buffer) BY DEF Held
<1>0. out.buffer \in Seq(Nat) /\ n \in Nat /\ n >= r /\ n <= Len(S) BY <1>r DEF Held
<1>1. PICK z \in 0 .. r :
        /\ m = r - z /\ \A i \in 1 .. m : out.buffer[i] = z + i
        /\ \/ out.rest = <<>> /\ b = 2 * z
           \/ z # 0 /\ S[z] = "large" /\ out.rest = <<Piece(z, FALSE, TRUE)>> /\ b = 2 * z - 1
  BY <1>r, <1>m DEF Held, Holds
<1>z. z \in Nat /\ z <= n BY <1>0
<1> DEFINE u == SubSeq(Upto(n), r + 1, n)
<1>2. /\ u \in Seq(Nat) /\ Len(u) = n - r
      /\ \A i \in 1 .. n - r : u[i] = r + i
  <2>1. Upto(n) \in Seq(Nat) /\ Len(Upto(n)) = n /\ \A i \in 1 .. n : Upto(n)[i] = i
    BY <1>0 DEF Upto
  <2>2. \A i \in r + 1 .. n : Upto(n)[i] \in Nat BY <1>0, <2>1
  <2>3. r + 1 \in Int /\ n \in Int BY <1>0
  <2>4. /\ u \in Seq(Nat) /\ Len(u) = IF r + 1 <= n THEN n - (r + 1) + 1 ELSE 0
        /\ \A i \in 1 .. n - (r + 1) + 1 : u[i] = Upto(n)[r + 1 + i - 1]
    BY <2>2, <2>3, SubSeqProperties
  <2>5. Len(u) = n - r BY <1>0, <2>4
  <2>6. ASSUME NEW i \in 1 .. n - r PROVE u[i] = r + i
    <3>1. i \in 1 .. n - (r + 1) + 1 /\ r + i \in 1 .. n /\ r + 1 + i - 1 = r + i BY <1>0
    <3> QED BY <2>1, <2>4, <3>1
  <2> QED BY <2>4, <2>5, <2>6
<1> HIDE DEF u
<1>b. PICK w \in Seq(Nat) : w = out.buffer BY <1>0
<1>3. PICK q \in Seq(Nat) : q = w \o u /\ Len(q) = m + (n - r)
  <2>1. u \in Seq(Nat) /\ Len(u) = n - r /\ Len(w) = m BY <1>2, <1>b, <1>m
  <2>2. w \o u \in Seq(Nat) /\ Len(w \o u) = Len(w) + Len(u) BY <2>1, ConcatProperties
  <2> QED BY <2>1, <2>2
<1>4. Len(q) = n - z BY <1>0, <1>1, <1>3, <1>z
<1>5. ASSUME NEW i \in 1 .. Len(q) PROVE q[i] = z + i
  <2>1. CASE i <= m
    <3>1. q[i] = w[i] /\ i \in 1 .. m BY <1>2, <1>3, <1>b, <1>m, <2>1
    <3> QED BY <1>1, <1>b, <3>1
  <2>2. CASE ~ i <= m
    <3>1. i - m \in 1 .. n - r BY <1>1, <1>4, <1>0, <2>2
    <3>2. q[i] = u[i - m]
      <4>1. Len(w) = m /\ u \in Seq(Nat) /\ Len(u) = n - r BY <1>2, <1>b, <1>m
      <4>2. i \in 1 .. Len(w) + Len(u) /\ ~ i <= Len(w) BY <1>3, <2>2, <4>1
      <4>3. (w \o u)[i] = u[i - Len(w)]
        <5>1. (w \o u)[i] = IF i <= Len(w) THEN w[i] ELSE u[i - Len(w)]
          BY <4>1, <4>2, ConcatProperties
        <5> QED BY <4>2, <5>1
      <4> QED BY <1>3, <4>1, <4>3
    <3>3. r + (i - m) = z + i BY <1>1
    <3> QED BY <1>2, <3>1, <3>2, <3>3
  <2> QED BY <2>1, <2>2
<1>6. out2.buffer = q BY <1>3, <1>b, <1>r DEF u
<1>7. z \in 0 .. n BY <1>z
<1>8. Holds(S, n, q, out.rest, b) BY <1>1, <1>4, <1>5, <1>7 DEF Holds
<1>9. n \in 0 .. Len(S) BY <1>0
<1> QED BY <1>6, <1>8, <1>9 DEF Held

(* The frames begun by the first pieces of a sequence.                     *)
Begun(q, k) == Cardinality({i \in 1 .. k : q[i].first})

(* Before the first piece no frame is begun. *)
LEMMA BegunNone ==
  ASSUME NEW q PROVE Begun(q, 0) = 0
<1>1. {i \in 1 .. 0 : q[i].first} = {} OBVIOUS
<1> QED BY <1>1, FS_EmptySet DEF Begun

(* A first piece begins one more frame, any other piece none. *)
LEMMA BegunNext ==
  ASSUME NEW q, NEW k \in Nat, q[k + 1].first \in BOOLEAN
  PROVE  /\ Begun(q, k) \in Nat
         /\ q[k + 1].first => Begun(q, k + 1) = Begun(q, k) + 1
         /\ ~q[k + 1].first => Begun(q, k + 1) = Begun(q, k)
<1> DEFINE U == {i \in 1 .. k : q[i].first}
           V == {i \in 1 .. k + 1 : q[i].first}
<1>1. IsFiniteSet(U)
  <2>1. 1 \in Int /\ k \in Int /\ IsFiniteSet(1 .. k) BY FS_Interval
  <2>2. U \in SUBSET (1 .. k) OBVIOUS
  <2> QED BY <2>1, <2>2, FS_Subset
<1>2. k + 1 \notin U OBVIOUS
<1>3. ASSUME q[k + 1].first PROVE V = U \cup {k + 1}
  <2>1. \A i \in 1 .. k + 1 : i \in 1 .. k \/ i = k + 1 OBVIOUS
  <2>2. k + 1 \in 1 .. k + 1 /\ \A i \in 1 .. k : i \in 1 .. k + 1 OBVIOUS
  <2> QED BY <1>3, <2>1, <2>2
<1>4. ASSUME ~q[k + 1].first PROVE V = U
  <2>1. \A i \in 1 .. k + 1 : i \in 1 .. k \/ i = k + 1 OBVIOUS
  <2>2. \A i \in 1 .. k : i \in 1 .. k + 1 OBVIOUS
  <2> QED BY <1>4, <2>1, <2>2
<1>5. Begun(q, k) = Cardinality(U) /\ Begun(q, k + 1) = Cardinality(V) BY DEF Begun
<1> HIDE DEF U, V
<1>6. Cardinality(U) \in Nat BY <1>1, FS_CardinalityType
<1>7. Cardinality(U \cup {k + 1}) = Cardinality(U) + 1 BY <1>1, <1>2, FS_AddElement
<1> QED BY <1>3, <1>4, <1>5, <1>6, <1>7

(* The place after k pieces tells how many frames they have begun.         *)
LEMMA BegunAt ==
  ASSUME NEW S, Len(S) \in Nat, NEW q \in Seq(PiecesIn(S)), NEW z \in Nat,
         NEW f \in [0 .. Len(q) -> Nat], Visits(S, q, f),
         \/ f[0] = 2 * z
         \/ z # 0 /\ f[0] = 2 * z - 1 /\ S[z] = "large",
         NEW k \in 0 .. Len(q)
  PROVE  /\ Begun(q, k) \in Nat
         /\ \/ f[k] = 2 * (z + Begun(q, k))
            \/ /\ z + Begun(q, k) # 0 /\ f[k] = 2 * (z + Begun(q, k)) - 1
               /\ S[z + Begun(q, k)] = "large"
<1>m. PICK m \in Nat : m = Len(q) OBVIOUS
<1> DEFINE At(i) == /\ Begun(q, i) \in Nat
                    /\ \/ f[i] = 2 * (z + Begun(q, i))
                       \/ /\ z + Begun(q, i) # 0 /\ f[i] = 2 * (z + Begun(q, i)) - 1
                          /\ S[z + Begun(q, i)] = "large"
           T == {i \in Nat : i <= m => At(i)}
<1>1. 0 \in T
  <2>1. Begun(q, 0) = 0 /\ z + 0 = z BY BegunNone
  <2> QED BY <2>1
<1>2. ASSUME NEW i \in Nat, i \in T PROVE i + 1 \in T
  <2> SUFFICES ASSUME i + 1 <= m PROVE At(i + 1) OBVIOUS
  <2>1. At(i) BY <1>2
  <2>2. i + 1 \in 1 .. m /\ (i + 1) - 1 = i OBVIOUS
  <2>3. q[i + 1] \in PiecesIn(S) BY <1>m, <2>2
  <2>4. q[i + 1].first \in BOOLEAN /\ q[i + 1].type = "DATA" BY <2>3 DEF PiecesIn
  <2>5. Moves(S, f[i], q[i + 1], f[i + 1]) BY <1>m, <2>2 DEF Visits
  <2>6. PICK n \in 1 .. Len(S) :
          \/ q[i + 1] = Piece(n, TRUE, TRUE) /\ f[i] = 2 * n - 2 /\ f[i + 1] = 2 * n
          \/ /\ S[n] = "large" /\ q[i + 1] = Piece(n, TRUE, FALSE)
             /\ f[i] = 2 * n - 2 /\ f[i + 1] = 2 * n - 1
          \/ q[i + 1] = Piece(n, FALSE, TRUE) /\ f[i] = 2 * n - 1 /\ f[i + 1] = 2 * n
    BY <2>4, <2>5, Zenon DEF Moves
  <2>7. PICK y \in Nat : y = Begun(q, i) BY <2>1
  <2>8. PICK w \in Nat : w = z + y OBVIOUS
  <2>9. f[i] = 2 * w \/ (w # 0 /\ f[i] = 2 * w - 1) BY <2>1, <2>7, <2>8
  <2>10. n \in Nat /\ n # 0 OBVIOUS
  <2>11. CASE q[i + 1].first
    <3>1. Begun(q, i + 1) = y + 1 BY <2>4, <2>7, <2>11, BegunNext
    <3>2. f[i] = 2 * n - 2 /\ (f[i + 1] = 2 * n \/ (f[i + 1] = 2 * n - 1 /\ S[n] = "large"))
      <4>1. ~ Piece(n, FALSE, TRUE).first BY DEF Piece
      <4> QED BY <2>6, <2>11, <4>1
    <3>3. n = w + 1 BY <2>9, <2>10, <3>2
    <3>4. z + (y + 1) = n BY <2>8, <3>3
    <3>5. Begun(q, i + 1) \in Nat BY <3>1
    <3>6. z + Begun(q, i + 1) = n BY <3>1, <3>4
    <3> QED BY <2>10, <3>2, <3>5, <3>6
  <2>12. CASE ~q[i + 1].first
    <3>1. Begun(q, i + 1) = y BY <2>4, <2>7, <2>12, BegunNext
    <3>2. f[i] = 2 * n - 1 /\ f[i + 1] = 2 * n
      <4>1. Piece(n, TRUE, TRUE).first /\ Piece(n, TRUE, FALSE).first BY DEF Piece
      <4> QED BY <2>6, <2>12, <4>1
    <3>3. n = w BY <2>9, <2>10, <3>2
    <3> QED BY <2>8, <3>1, <3>2, <3>3
  <2> QED BY <2>4, <2>11, <2>12
<1> HIDE DEF T
<1>3. k \in Nat /\ k <= m BY <1>m
<1>4. k \in T BY <1>1, <1>2, <1>3, Induct
<1> QED BY <1>3, <1>4 DEF T

Parted(X, q, k, m) ==
  /\ SubSeq(q, 1, k) \in Seq(X) /\ Len(SubSeq(q, 1, k)) = k
  /\ \A i \in 1 .. k : SubSeq(q, 1, k)[i] = q[i]
  /\ SubSeq(q, k + 1, m) \in Seq(X) /\ Len(SubSeq(q, k + 1, m)) = m - k
  /\ \A i \in 1 .. m - k : SubSeq(q, k + 1, m)[i] = q[k + i]

(* The two parts of a sequence cut at k, member by member. *)
LEMMA CutSeq ==
  ASSUME NEW X, NEW q \in Seq(X), NEW m \in Nat, m = Len(q), NEW k \in Nat, k <= m
  PROVE  Parted(X, q, k, m)
<1>1. \A i \in 1 .. m : q[i] \in X OBVIOUS
<1>2. \A i \in 1 .. k : q[i] \in X BY <1>1
<1>3. \A i \in k + 1 .. m : q[i] \in X BY <1>1
<1>4. 1 \in Int /\ k \in Int /\ k + 1 \in Int /\ m \in Int OBVIOUS
<1>5. /\ SubSeq(q, 1, k) \in Seq(X)
      /\ Len(SubSeq(q, 1, k)) = IF 1 <= k THEN k - 1 + 1 ELSE 0
      /\ \A i \in 1 .. k - 1 + 1 : SubSeq(q, 1, k)[i] = q[1 + i - 1]
  BY <1>2, <1>4, SubSeqProperties
<1>6. /\ SubSeq(q, k + 1, m) \in Seq(X)
      /\ Len(SubSeq(q, k + 1, m)) = IF k + 1 <= m THEN m - (k + 1) + 1 ELSE 0
      /\ \A i \in 1 .. m - (k + 1) + 1 : SubSeq(q, k + 1, m)[i] = q[k + 1 + i - 1]
  BY <1>3, <1>4, SubSeqProperties
<1>7. \A i \in 1 .. k : i \in 1 .. k - 1 + 1 /\ 1 + i - 1 = i OBVIOUS
<1>8. \A i \in 1 .. m - k : i \in 1 .. m - (k + 1) + 1 /\ k + 1 + i - 1 = k + i OBVIOUS
<1>9. Len(SubSeq(q, 1, k)) = k /\ Len(SubSeq(q, k + 1, m)) = m - k BY <1>5, <1>6
<1> QED BY <1>5, <1>6, <1>7, <1>8, <1>9 DEF Parted

(* What is left after k pieces is held as well, from the place they lead   *)
(* to; when all are sent, nothing is.                                      *)
SentRest(S, out, k) ==
  Rest(S, SubSeq(Output(S, out), k + 1, Len(Output(S, out))))
SentBuffer(S, out, k) ==
  SubSeq(out.buffer, Begun(Output(S, out), k) + 1, Len(out.buffer))

(* Sending the first k pieces held moves the sent point along the path and leaves the
   rest held: no piece is dropped, repeated or overtaken where a frame is sent in part. *)
LEMMA SentHeld ==
  ASSUME NEW S, Len(S) \in Nat, NEW out, NEW b, Held(S, out, b),
         NEW k \in 0 .. Len(Output(S, out))
  PROVE  /\ \E c \in Nat :
              /\ Path(S, b, SubSeq(Output(S, out), 1, k), c)
              /\ Holds(S, out.read, SentBuffer(S, out, k), SentRest(S, out, k), c)
         /\ SubSeq(Output(S, out), 1, k) \in Seq(PiecesIn(S))
         /\ SentBuffer(S, out, k) \in Seq(Nat)
         /\ k = Len(Output(S, out)) =>
              SentBuffer(S, out, k) = <<>> /\ SentRest(S, out, k) = <<>>
<1>r. PICK r \in Nat : r = out.read /\ r <= Len(S) BY DEF Held
<1>b. PICK w \in Seq(Nat) : w = out.buffer BY DEF Held
<1>o. PICK o \in Seq(PiecesIn(S)) : o = Output(S, out) BY HeldPath
<1>p. PICK p \in Nat : p = Len(w) OBVIOUS
<1>m. PICK m \in Nat : m = Len(o) OBVIOUS
<1>k. k \in Nat /\ k <= m BY <1>o, <1>m
<1>0. PICK z \in 0 .. r :
        /\ p = r - z /\ \A i \in 1 .. p : w[i] = z + i
        /\ \/ out.rest = <<>> /\ b = 2 * z
           \/ z # 0 /\ S[z] = "large" /\ out.rest = <<Piece(z, FALSE, TRUE)>> /\ b = 2 * z - 1
  BY <1>r, <1>b, <1>p DEF Held, Holds
<1>1. Path(S, b, o, 2 * r) /\ b \in Nat BY <1>o, <1>r, HeldPath
<1>2. PICK f \in [0 .. m -> Nat] : f[0] = b /\ f[m] = 2 * r /\ Visits(S, o, f)
  BY <1>1, <1>m DEF Path
<1>3. b = 2 * z \/ (z # 0 /\ b = 2 * z - 1 /\ S[z] = "large") BY <1>0
<1>z. z \in Nat OBVIOUS
<1>4. PICK y \in Nat : /\ y = Begun(o, k)
                       /\ \/ f[k] = 2 * (z + y)
                          \/ z + y # 0 /\ f[k] = 2 * (z + y) - 1 /\ S[z + y] = "large"
  <2>1. f[0] = 2 * z \/ (z # 0 /\ f[0] = 2 * z - 1 /\ S[z] = "large") BY <1>2, <1>3
  <2>2. k \in 0 .. Len(o) /\ f \in [0 .. Len(o) -> Nat] BY <1>k, <1>m
  <2> QED BY <1>2, <1>z, <2>1, <2>2, BegunAt
<1>5. PICK n \in Nat : n = z + y OBVIOUS
<1>c. PICK c \in Nat : c = f[k]
  <2>1. k \in 0 .. m BY <1>k
  <2> QED BY <2>1
<1>6. c = 2 * n \/ (n # 0 /\ c = 2 * n - 1 /\ S[n] = "large") BY <1>4, <1>5, <1>c
<1> DEFINE q == SubSeq(o, 1, k)
           left == SubSeq(o, k + 1, m)
<1>7. /\ q \in Seq(PiecesIn(S)) /\ left \in Seq(PiecesIn(S))
      /\ Len(q) = k /\ Len(left) = m - k
      /\ \A i \in 1 .. k : q[i] = o[i]
      /\ \A i \in 1 .. m - k : left[i] = o[k + i]
  BY <1>k, <1>m, CutSeq DEF Parted
<1>8. Path(S, b, q, c)
  <2> DEFINE g == [i \in 0 .. k |-> f[i]]
  <2>1. g \in [0 .. k -> Nat] /\ \A i \in 0 .. k : g[i] = f[i] BY <1>k
  <2> HIDE DEF g, q, left
  <2>2. Visits(S, q, g)
    <3> SUFFICES ASSUME NEW i \in 1 .. k PROVE Moves(S, g[i - 1], q[i], g[i])
      BY <1>7 DEF Visits
    <3>1. i \in 1 .. m /\ i - 1 \in 0 .. k /\ i \in 0 .. k BY <1>k
    <3>2. Moves(S, f[i - 1], o[i], f[i]) BY <1>2, <1>m, <3>1 DEF Visits
    <3> QED BY <1>7, <2>1, <3>1, <3>2
  <2>3. g[0] = b /\ g[k] = c
    <3>1. 0 \in 0 .. k /\ k \in 0 .. k BY <1>k
    <3> QED BY <1>2, <1>c, <2>1, <3>1
  <2> QED BY <1>7, <2>1, <2>2, <2>3 DEF Path
<1>9. ASSUME k # m
      PROVE  \/ left[1].first /\ c = 2 * n
             \/ ~left[1].first /\ c = 2 * n - 1 /\ left[1] = Piece(n, FALSE, TRUE)
  <2>1. k + 1 \in 1 .. m /\ (k + 1) - 1 = k /\ 1 \in 1 .. m - k BY <1>9, <1>k
  <2>2. left[1] = o[k + 1] BY <1>7, <2>1
  <2>3. Moves(S, f[k], o[k + 1], f[k + 1]) BY <1>2, <1>m, <2>1 DEF Visits
  <2>4. o[k + 1].type = "DATA"
    <3>1. o[k + 1] \in PiecesIn(S) BY <1>m, <2>1
    <3> QED BY <3>1 DEF PiecesIn
  <2>5. PICK i \in 1 .. Len(S) :
          \/ o[k + 1] = Piece(i, TRUE, TRUE) /\ f[k] = 2 * i - 2
          \/ o[k + 1] = Piece(i, TRUE, FALSE) /\ f[k] = 2 * i - 2
          \/ o[k + 1] = Piece(i, FALSE, TRUE) /\ f[k] = 2 * i - 1
    BY <2>3, <2>4, Zenon DEF Moves
  <2>6. CASE o[k + 1].first
    <3>1. ~Piece(i, FALSE, TRUE).first BY DEF Piece
    <3>2. c = 2 * i - 2 BY <1>c, <2>5, <2>6, <3>1
    <3>3. c = 2 * n BY <1>6, <3>2
    <3> QED BY <2>2, <2>6, <3>3
  <2>7. CASE ~o[k + 1].first
    <3>1. Piece(i, TRUE, TRUE).first /\ Piece(i, TRUE, FALSE).first BY DEF Piece
    <3>2. c = 2 * i - 1 /\ o[k + 1] = Piece(i, FALSE, TRUE) BY <1>c, <2>5, <2>7, <3>1
    <3>3. i = n /\ c = 2 * n - 1 BY <1>6, <3>2
    <3> QED BY <2>2, <2>7, <3>2, <3>3
  <2> QED BY <2>6, <2>7
<1>10. n <= r
  <2>1. Path(S, c, left, 2 * r)
    <3> DEFINE g == [i \in 0 .. m - k |-> f[k + i]]
    <3>1. g \in [0 .. m - k -> Nat] /\ \A i \in 0 .. m - k : g[i] = f[k + i]
      <4>1. \A i \in 0 .. m - k : k + i \in 0 .. m BY <1>k
      <4> QED BY <4>1
    <3> HIDE DEF g, q, left
    <3>2. Visits(S, left, g)
      <4> SUFFICES ASSUME NEW i \in 1 .. m - k PROVE Moves(S, g[i - 1], left[i], g[i])
        BY <1>7 DEF Visits
      <4>1. /\ k + i \in 1 .. m /\ i - 1 \in 0 .. m - k /\ i \in 0 .. m - k
            /\ k + (i - 1) = (k + i) - 1
        BY <1>k
      <4>2. Moves(S, f[(k + i) - 1], o[k + i], f[k + i]) BY <1>2, <1>m, <4>1 DEF Visits
      <4> QED BY <1>7, <3>1, <4>1, <4>2
    <3>3. g[0] = c /\ g[m - k] = 2 * r
      <4>1. 0 \in 0 .. m - k /\ m - k \in 0 .. m - k /\ k + 0 = k /\ k + (m - k) = m BY <1>k
      <4> QED BY <1>2, <1>c, <3>1, <4>1
    <3> QED BY <1>7, <3>1, <3>2, <3>3 DEF Path
  <2>2. 2 * r >= c BY <1>7, <2>1, PathGrows
  <2> QED BY <1>6, <2>2
<1>11. y <= p /\ n = z + y /\ r - n = p - y BY <1>0, <1>5, <1>10
<1> DEFINE u == SubSeq(w, y + 1, p)
<1>12. /\ u \in Seq(Nat) /\ Len(u) = r - n
       /\ \A i \in 1 .. Len(u) : u[i] = n + i
  <2>1. /\ u \in Seq(Nat) /\ Len(u) = p - y /\ \A i \in 1 .. p - y : u[i] = w[y + i]
    <3>1. y \in Nat /\ p \in Nat /\ p = Len(w) /\ y <= p BY <1>p, <1>11
    <3>2. Parted(Nat, w, y, p) BY <3>1, CutSeq
    <3> QED BY <3>2, Zenon DEF Parted
  <2> HIDE DEF u
  <2>2. ASSUME NEW i \in 1 .. p - y PROVE u[i] = n + i
    <3>1. y + i \in 1 .. p /\ z + (y + i) = n + i BY <1>5
    <3>2. w[y + i] = z + (y + i) BY <1>0, <3>1
    <3> QED BY <2>1, <3>1, <3>2
  <2> QED BY <1>11, <2>1, <2>2
<1>13. Rest(S, left) = IF k = m \/ left[1].first THEN <<>> ELSE <<left[1]>>
  <2>1. left = <<>> <=> k = m
    <3> HIDE DEF left
    <3> QED BY <1>7, <1>k, <1>m, EmptySeq
  <2> HIDE DEF left
  <2> QED BY <2>1 DEF Rest
<1>14. SentBuffer(S, out, k) = u /\ SentRest(S, out, k) = Rest(S, left)
  BY <1>b, <1>o, <1>p, <1>m, <1>4, Zenon DEF SentBuffer, SentRest
<1> HIDE DEF u, left, q
<1>15. k = m => c = 2 * r
  BY <1>2, <1>c
<1>16. k = m => n = r /\ c = 2 * n BY <1>6, <1>10, <1>15
<1>17. \/ Rest(S, left) = <<>> /\ c = 2 * n
       \/ n # 0 /\ S[n] = "large" /\ Rest(S, left) = <<Piece(n, FALSE, TRUE)>> /\ c = 2 * n - 1
  <2>1. CASE k = m BY <1>13, <1>16, <2>1
  <2>2. CASE k # m /\ left[1].first BY <1>9, <1>13, <2>2
  <2>3. CASE k # m /\ ~left[1].first
    <3>1. c = 2 * n - 1 /\ Rest(S, left) = <<Piece(n, FALSE, TRUE)>> BY <1>9, <1>13, <2>3
    <3>2. n # 0 /\ S[n] = "large" BY <1>6, <3>1
    <3> QED BY <3>1, <3>2
  <2> QED BY <2>1, <2>2, <2>3
<1>18. Holds(S, r, u, Rest(S, left), c)
  <2>1. n \in 0 .. r BY <1>10
  <2> QED BY <1>12, <1>17, <2>1 DEF Holds
<1>19. k = m => u = <<>> /\ Rest(S, left) = <<>>
  <2> SUFFICES ASSUME k = m PROVE u = <<>> /\ Rest(S, left) = <<>> OBVIOUS
  <2>1. Len(u) = 0 BY <1>12, <1>16
  <2> QED BY <1>12, <1>13, <2>1, EmptySeq
<1>20. q = SubSeq(Output(S, out), 1, k) BY <1>o DEF q
<1> QED BY <1>o, <1>m, <1>r, <1>7, <1>8, <1>12, <1>14, <1>18, <1>19, <1>20

-----------------------------------------------------------------------------
(* An input has been given the pieces up to the place a: n frames, and     *)
(* perhaps the first piece of the next.                                    *)
Reached(S, in, a) ==
  \E n \in 0 .. Len(S) :
    /\ in.seen = Upto(n)
    /\ \/ in.part = 0 /\ a = 2 * n
       \/ n # Len(S) /\ S[n + 1] = "large" /\ in.part = n + 1 /\ a = 2 * n + 1

Whole(in) == in.seen = Upto(Len(in.seen))

(* Upto(n) is the sequence of the first n frames. *)
LEMMA UptoIs ==
  ASSUME NEW n \in Nat
  PROVE  /\ Upto(n) \in Seq(Nat) /\ Len(Upto(n)) = n
         /\ Append(Upto(n), n + 1) = Upto(n + 1)
<1>1. Upto(n) \in Seq(Nat) /\ Len(Upto(n)) = n /\ \A i \in 1 .. n : Upto(n)[i] = i
  BY DEF Upto
<1>2. /\ Upto(n + 1) \in Seq(Nat) /\ Len(Upto(n + 1)) = n + 1
      /\ \A i \in 1 .. n + 1 : Upto(n + 1)[i] = i
  BY DEF Upto
<1>3. n + 1 \in Nat OBVIOUS
<1>4. /\ Append(Upto(n), n + 1) \in Seq(Nat) /\ Len(Append(Upto(n), n + 1)) = n + 1
      /\ \A i \in 1 .. n : Append(Upto(n), n + 1)[i] = i
      /\ Append(Upto(n), n + 1)[n + 1] = n + 1
  BY <1>1, <1>3, AppendProperties
<1>5. \A i \in 1 .. n + 1 : i = n + 1 \/ i \in 1 .. n OBVIOUS
<1>6. \A i \in 1 .. n + 1 : Append(Upto(n), n + 1)[i] = Upto(n + 1)[i]
  BY <1>2, <1>4, <1>5
<1>7. Append(Upto(n), n + 1) = Upto(n + 1) BY <1>2, <1>4, <1>6, SeqEqual
<1> QED BY <1>1, <1>7

(* A parser that has reached a point of the script has seen only whole frames of it. *)
LEMMA ReachedWhole ==
  ASSUME NEW S, Len(S) \in Nat, NEW in, NEW a, Reached(S, in, a)
  PROVE  Whole(in) /\ a \in Nat
<1>1. PICK n \in 0 .. Len(S) : in.seen = Upto(n) /\ (a = 2 * n \/ a = 2 * n + 1)
  BY DEF Reached
<1>2. n \in Nat OBVIOUS
<1>3. Len(Upto(n)) = n BY <1>2, UptoIs
<1>4. a \in Nat BY <1>1, <1>2
<1> QED BY <1>1, <1>3, <1>4 DEF Whole

(* A parser that takes the next piece of the script reaches the next point; it closes
   only on a close frame. *)
LEMMA Reaches ==
  ASSUME NEW S, Len(S) \in Nat, NEW in \in Input, ~in.closing, NEW a, Reached(S, in, a),
         NEW p \in AnyPiece, NEW c, Moves(S, a, p, c)
  PROVE  /\ Reached(S, Reassemble(S, in, p), c)
         /\ Reassemble(S, in, p).closing =>
              \E n \in 1 .. Len(S) : S[n] = "close" /\ c = 2 * n
<1>1. PICK n \in 0 .. Len(S) :
        /\ in.seen = Upto(n)
        /\ \/ in.part = 0 /\ a = 2 * n
           \/ n # Len(S) /\ S[n + 1] = "large" /\ in.part = n + 1 /\ a = 2 * n + 1
  BY DEF Reached
<1>2. p.type = "DATA" BY DEF AnyPiece
<1>3. PICK m \in 1 .. Len(S) :
        \/ S[m] # "large" /\ p = Piece(m, TRUE, TRUE) /\ a = 2 * m - 2 /\ c = 2 * m
        \/ S[m] = "large" /\ p = Piece(m, TRUE, FALSE) /\ a = 2 * m - 2 /\ c = 2 * m - 1
        \/ S[m] = "large" /\ p = Piece(m, FALSE, TRUE) /\ a = 2 * m - 1 /\ c = 2 * m
  BY <1>2, Zenon DEF Moves
<1>4. n \in Nat /\ m \in Nat OBVIOUS
<1>5. m = n + 1
  <2>1. a \in {2 * n, 2 * n + 1} /\ a \in {2 * m - 2, 2 * m - 1} BY <1>1, <1>3
  <2> QED BY <1>4, <2>1
<1>6. m \in 0 .. Len(S) /\ n # Len(S) BY <1>5
<1>7. Append(Upto(n), m) = Upto(m) BY <1>4, <1>5, UptoIs
<1> DEFINE out == Reassemble(S, in, p)
<1>8. CASE S[m] = "large" /\ p = Piece(m, TRUE, FALSE) /\ a = 2 * m - 2 /\ c = 2 * m - 1
  <2>1. ~p.last /\ p.frame = m BY <1>8 DEF Piece
  <2>2. out = [in EXCEPT !.part = m] BY <2>1, Zenon DEF Reassemble
  <2>3. out.part = m /\ out.seen = Upto(n) /\ ~out.closing BY <1>1, <2>2 DEF Input
  <2>4. c = 2 * n + 1 BY <1>4, <1>5, <1>8
  <2> HIDE DEF out
  <2>5. Reached(S, out, c) BY <1>5, <1>6, <1>8, <2>3, <2>4 DEF Reached
  <2> QED BY <2>3, <2>5 DEF out
<1>9. ASSUME p.last, p.frame = m, in.part = (IF p.first THEN 0 ELSE m), c = 2 * m
      PROVE  /\ Reached(S, out, c)
             /\ out.closing => S[m] = "close" /\ c = 2 * m
  <2>e. PICK e \in BOOLEAN : e = (S[m] = "close") BY Zenon
  <2>1. out = [part |-> 0, closing |-> e, seen |-> Append(in.seen, m)]
    BY <1>9, <2>e, Zenon DEF Reassemble
  <2>2. out.part = 0 /\ out.seen = Upto(m) /\ (out.closing => S[m] = "close")
    <3>1. out.part = 0 /\ out.seen = Append(in.seen, m) /\ out.closing = e BY <2>1
    <3>2. e => S[m] = "close" BY <2>e
    <3> QED BY <1>1, <1>7, <3>1, <3>2
  <2> HIDE DEF out
  <2>3. Reached(S, out, c) BY <1>6, <1>9, <2>2 DEF Reached
  <2> QED BY <1>9, <2>2, <2>3
<1>10. CASE S[m] # "large" /\ p = Piece(m, TRUE, TRUE) /\ a = 2 * m - 2 /\ c = 2 * m
  <2>1. p.last /\ p.first /\ p.frame = m BY <1>10 DEF Piece
  <2>2. a = 2 * n BY <1>4, <1>5, <1>10
  <2>3. in.part = 0 BY <1>1, <1>4, <2>2
  <2>4. /\ Reached(S, out, c)
        /\ out.closing => S[m] = "close" /\ c = 2 * m
    BY <1>9, <1>10, <2>1, <2>3
  <2> QED BY <2>4
<1>11. CASE S[m] = "large" /\ p = Piece(m, FALSE, TRUE) /\ a = 2 * m - 1 /\ c = 2 * m
  <2>1. p.last /\ ~p.first /\ p.frame = m BY <1>11 DEF Piece
  <2>2. a = 2 * n + 1 BY <1>4, <1>5, <1>11
  <2>3. in.part = m BY <1>1, <1>4, <1>5, <2>2
  <2>4. /\ Reached(S, out, c)
        /\ out.closing => S[m] = "close" /\ c = 2 * m
    BY <1>9, <1>11, <2>1, <2>3
  <2> QED BY <2>4
<1> QED BY <1>3, <1>8, <1>10, <1>11

(* What is handed on at once follows the same path; a closed input stays.  *)

(* A parser that saw a close frame ignores all that follows. *)
LEMMA DeliveredClosed ==
  ASSUME NEW S, NEW in \in Input, in.closing, NEW q \in Seq(AnyPiece)
  PROVE  Delivered(S, in, q) = in
<1>n. PICK n \in Nat : n = Len(q) OBVIOUS
<1>1. PICK f \in [0 .. n -> Input] :
        /\ f[0] = in
        /\ \A i \in 1 .. n : f[i] = Reassemble(S, f[i - 1], q[i])
        /\ Delivered(S, in, q) = f[n]
  BY <1>n, Folded DEF InSteps
<1> DEFINE T == {k \in Nat : k <= n => f[k] = in}
<1>2. 0 \in T BY <1>1
<1>3. ASSUME NEW k \in Nat, k \in T PROVE k + 1 \in T
  <2> SUFFICES ASSUME k + 1 <= n PROVE f[k + 1] = in OBVIOUS
  <2>1. f[k] = in /\ k + 1 \in 1 .. n /\ (k + 1) - 1 = k BY <1>3
  <2>2. f[k + 1] = Reassemble(S, in, q[k + 1]) BY <1>1, <2>1
  <2> QED BY <2>2, Zenon DEF Reassemble
<1> HIDE DEF T
<1>4. n \in T BY <1>2, <1>3, Induct
<1> QED BY <1>1, <1>4 DEF T

(* Delivering pieces leaves a well-typed parser. *)
LEMMA DeliveredIn ==
  ASSUME NEW S, NEW in \in Input, NEW q \in Seq(AnyPiece)
  PROVE  Delivered(S, in, q) \in Input
<1>n. PICK n \in Nat : n = Len(q) OBVIOUS
<1>1. PICK f \in [0 .. n -> Input] : Delivered(S, in, q) = f[n]
  BY <1>n, Folded DEF InSteps
<1>2. n \in 0 .. n OBVIOUS
<1> QED BY <1>1, <1>2

(* Delivering a path of pieces takes the parser to its end, unless a close frame stops it
   earlier. *)
LEMMA DeliveredReaches ==
  ASSUME NEW S, Len(S) \in Nat, NEW in \in Input, ~in.closing, NEW a, Reached(S, in, a),
         NEW q \in Seq(AnyPiece), NEW c, Path(S, a, q, c)
  PROVE  \E d \in Nat : /\ Reached(S, Delivered(S, in, q), d)
                        /\ ~Delivered(S, in, q).closing => d = c
<1>n. PICK n \in Nat : n = Len(q) OBVIOUS
<1>1. PICK f \in [0 .. n -> Input] :
        /\ f[0] = in
        /\ \A i \in 1 .. n : f[i] = Reassemble(S, f[i - 1], q[i])
        /\ Delivered(S, in, q) = f[n]
  <2>1. InSteps(S, in, q) BY Folded, Zenon
  <2> QED BY <1>n, <2>1 DEF InSteps
<1>2. PICK g \in [0 .. n -> Nat] : g[0] = a /\ g[n] = c /\ Visits(S, q, g)
  BY <1>n DEF Path
<1> DEFINE At(k) == \E d \in Nat : Reached(S, f[k], d) /\ (~f[k].closing => d = g[k])
           T == {k \in Nat : k <= n => At(k)}
<1>3. 0 \in T
  <2>1. a \in Nat BY ReachedWhole
  <2>2. At(0) BY <1>1, <1>2, <2>1
  <2> QED BY <2>2
<1>4. ASSUME NEW k \in Nat, k \in T PROVE k + 1 \in T
  <2> SUFFICES ASSUME k + 1 <= n PROVE At(k + 1) OBVIOUS
  <2>1. k + 1 \in 1 .. n /\ (k + 1) - 1 = k /\ k \in 0 .. n /\ k + 1 \in 0 .. n OBVIOUS
  <2>2. PICK d \in Nat : Reached(S, f[k], d) /\ (~f[k].closing => d = g[k]) BY <1>4
  <2>3. f[k + 1] = Reassemble(S, f[k], q[k + 1]) BY <1>1, <2>1
  <2>4. f[k] \in Input /\ q[k + 1] \in AnyPiece /\ g[k + 1] \in Nat BY <1>n, <2>1
  <2>5. CASE f[k].closing
    <3>1. f[k + 1] = f[k] BY <2>3, <2>5, Zenon DEF Reassemble
    <3> QED BY <2>2, <2>5, <3>1
  <2>6. CASE ~f[k].closing
    <3>1. Moves(S, g[k], q[k + 1], g[k + 1]) BY <1>n, <1>2, <2>1 DEF Visits
    <3>2. Reached(S, f[k + 1], g[k + 1]) BY <2>2, <2>3, <2>4, <2>6, <3>1, Reaches
    <3> QED BY <2>4, <3>2
  <2> QED BY <2>5, <2>6
<1> HIDE DEF T
<1>5. n \in T BY <1>3, <1>4, Induct
<1>6. At(n) BY <1>5 DEF T
<1> HIDE DEF At
<1> QED BY <1>1, <1>2, <1>6 DEF At

-----------------------------------------------------------------------------
(* The data of a wire follow the same path as the wire.                    *)
Frame == AnyPiece \cup Controls

DataStep(data, p) == IF p.type = "DATA" THEN Append(data, p) ELSE data

DataSteps(wire) ==
  \E f \in [0 .. Len(wire) -> Seq(Frame)] :
    /\ f[0] = <<>>
    /\ \A i \in 1 .. Len(wire) : f[i] = DataStep(f[i - 1], wire[i])
    /\ DataOf(wire) = f[Len(wire)]

(* DataOf keeps the data of a sequence of wire frames, in order, one frame at a time. *)
LEMMA Filtered ==
  ASSUME NEW q \in Seq(Frame)
  PROVE  DataSteps(q)
<1>n. PICK n \in Nat : n = Len(q) OBVIOUS
<1> DEFINE V == Seq(Frame)
           F == [i \in 1 .. n |-> [v \in V |-> DataStep(v, q[i])]]
           Eq(g) == g = [t \in SUBSET (1 .. n) |->
                          IF t = {} THEN <<>> ELSE DataStep(g[t \ {Max(t)}], q[Max(t)])]
<1>1. DOMAIN q = 1 .. n /\ \A i \in 1 .. n : q[i] \in Frame BY <1>n
<1>0. <<>> \in V OBVIOUS
<1>2. F \in [1 .. n -> [V -> V]]
  <2>1. \A i \in 1 .. n, v \in V : DataStep(v, q[i]) \in V BY <1>1 DEF DataStep
  <2> HIDE DEF V
  <2> QED BY <2>1
<1> HIDE DEF V
<1>3. \A i \in 1 .. n, v \in V : F[i][v] = DataStep(v, q[i]) OBVIOUS
<1> HIDE DEF F
<1>s. PICK f \in [0 .. n -> V] : Scans(f, <<>>, n, F) BY <1>0, <1>2, Scan
<1>4. f[0] = <<>> /\ \A i \in 1 .. n : f[i] = F[i][f[i - 1]] BY <1>s DEF Scans
<1>5. ASSUME NEW i \in 1 .. n PROVE f[i] = DataStep(f[i - 1], q[i])
  <2>1. i - 1 \in 0 .. n OBVIOUS
  <2>2. f[i - 1] \in V BY <2>1
  <2> QED BY <1>3, <1>4, <2>2
<1>h. PICK h \in [SUBSET (1 .. n) -> V] : SetScans(h, <<>>, n, F) BY <1>0, <1>2, SetScan
<1>6. \A t \in SUBSET (1 .. n) :
        h[t] = IF t = {} THEN <<>> ELSE F[Max(t)][h[t \ {Max(t)}]]
  BY <1>h DEF SetScans
<1>7. ASSUME NEW t \in SUBSET (1 .. n)
      PROVE  h[t] = IF t = {} THEN <<>> ELSE DataStep(h[t \ {Max(t)}], q[Max(t)])
  <2>1. CASE t = {} BY <1>6, <2>1
  <2>2. CASE t # {}
    <3>1. Max(t) \in 1 .. n BY <1>1, <2>2, MaxIn
    <3>2. t \ {Max(t)} \in SUBSET (1 .. n) OBVIOUS
    <3>3. h[t \ {Max(t)}] \in V BY <3>2
    <3>4. F[Max(t)][h[t \ {Max(t)}]] = DataStep(h[t \ {Max(t)}], q[Max(t)])
      BY <1>3, <3>1, <3>3
    <3> QED BY <1>6, <2>2, <3>4
  <2> QED BY <2>1, <2>2
<1>8. Eq(h)
  <2> DEFINE e == [t \in SUBSET (1 .. n) |->
                    IF t = {} THEN <<>> ELSE DataStep(h[t \ {Max(t)}], q[Max(t)])]
  <2>1. \A t \in SUBSET (1 .. n) : e[t] = h[t] BY <1>7
  <2>2. e = [t \in SUBSET (1 .. n) |-> e[t]] OBVIOUS
  <2>3. h = [t \in SUBSET (1 .. n) |-> h[t]] OBVIOUS
  <2>4. e = h
    <3> HIDE DEF e
    <3> QED BY <2>1, <2>2, <2>3
  <2> QED BY <2>4
<1> DEFINE g == CHOOSE k : Eq(k)
<1>9. DataOf(q) = g[1 .. n]
  <2>1. DataOf(q)
          = (CHOOSE k : k = [t \in SUBSET (DOMAIN q) |->
               IF t = {} THEN <<>> ELSE DataStep(k[t \ {Max(t)}], q[Max(t)])])[DOMAIN q]
    BY Zenon DEF DataOf, FoldLeft, MapThenFoldSet, DataStep
  <2> QED BY <1>1, <2>1
<1>10. Eq(g)
  <2> HIDE DEF Eq
  <2> QED BY <1>8
<1> HIDE DEF g
<1>11. \A t \in SUBSET (1 .. n) :
         g[t] = IF t = {} THEN <<>> ELSE DataStep(g[t \ {Max(t)}], q[Max(t)])
  <2> DEFINE e == [t \in SUBSET (1 .. n) |->
                    IF t = {} THEN <<>> ELSE DataStep(g[t \ {Max(t)}], q[Max(t)])]
  <2>1. g = e BY <1>10
  <2>2. \A t \in SUBSET (1 .. n) :
          e[t] = IF t = {} THEN <<>> ELSE DataStep(g[t \ {Max(t)}], q[Max(t)])
    OBVIOUS
  <2> HIDE DEF e
  <2> QED BY <2>1, <2>2
<1> DEFINE T == {m \in Nat : m <= n => g[1 .. m] = f[m]}
<1>12. 0 \in T
  <2>1. 1 .. 0 = {} /\ {} \in SUBSET (1 .. n) OBVIOUS
  <2>2. g[1 .. 0] = <<>> BY <1>11, <2>1
  <2> QED BY <1>4, <2>2
<1>13. ASSUME NEW m \in Nat, m \in T PROVE m + 1 \in T
  <2> SUFFICES ASSUME m + 1 <= n PROVE g[1 .. m + 1] = f[m + 1] OBVIOUS
  <2>1. g[1 .. m] = f[m] BY <1>13
  <2>2. 1 .. m + 1 \in SUBSET (1 .. n) /\ m + 1 \in 1 .. n /\ (m + 1) - 1 = m OBVIOUS
  <2>3. /\ 1 .. m + 1 # {} /\ Max(1 .. m + 1) = m + 1
        /\ (1 .. m + 1) \ {m + 1} = 1 .. m
    <3>1. m + 1 \in Nat /\ m + 1 # 0 OBVIOUS
    <3>2. /\ 1 .. m + 1 # {} /\ Max(1 .. m + 1) = m + 1
          /\ (1 .. m + 1) \ {m + 1} = 1 .. (m + 1) - 1
      BY <3>1, Initial, Zenon
    <3> QED BY <2>2, <3>2
  <2>4. g[1 .. m + 1] = DataStep(g[1 .. m], q[m + 1]) BY <1>11, <2>2, <2>3
  <2>5. f[m + 1] = DataStep(f[(m + 1) - 1], q[m + 1]) BY <1>5, <2>2
  <2> QED BY <2>1, <2>2, <2>4, <2>5
<1> HIDE DEF T
<1>14. n \in T BY <1>1, <1>12, <1>13, Induct
<1>15. g[1 .. n] = f[n] BY <1>1, <1>14 DEF T
<1> QED BY <1>n, <1>4, <1>5, <1>9, <1>15 DEF DataSteps, V

(* Controls move no reader: the data of a path is a path with the same ends. *)
LEMMA DataPath ==
  ASSUME NEW S, NEW q \in Seq(Frame), NEW a, NEW c, Path(S, a, q, c)
  PROVE  DataOf(q) \in Seq(AnyPiece) /\ Path(S, a, DataOf(q), c)
<1>n. PICK n \in Nat : n = Len(q) OBVIOUS
<1>1. PICK f \in [0 .. n -> Seq(Frame)] :
        /\ f[0] = <<>>
        /\ \A i \in 1 .. n : f[i] = DataStep(f[i - 1], q[i])
        /\ DataOf(q) = f[n]
  <2>1. DataSteps(q) BY Filtered
  <2> QED BY <1>n, <2>1 DEF DataSteps
<1>2. PICK g \in [0 .. n -> Nat] : g[0] = a /\ g[n] = c /\ Visits(S, q, g)
  BY <1>n DEF Path
<1>a. a \in Nat
  <2>1. 0 \in 0 .. n OBVIOUS
  <2> QED BY <1>2, <2>1
<1> DEFINE At(k) == f[k] \in Seq(AnyPiece) /\ Path(S, a, f[k], g[k])
           T == {k \in Nat : k <= n => At(k)}
<1>3. 0 \in T
  <2>1. Path(S, a, <<>>, a) BY <1>a, PathEmpty
  <2>2. <<>> \in Seq(AnyPiece) OBVIOUS
  <2>3. At(0) BY <1>1, <1>2, <2>1, <2>2
  <2> QED BY <2>3
<1>4. ASSUME NEW k \in Nat, k \in T PROVE k + 1 \in T
  <2> SUFFICES ASSUME k + 1 <= n PROVE At(k + 1) OBVIOUS
  <2>1. k + 1 \in 1 .. n /\ (k + 1) - 1 = k /\ k \in 0 .. n /\ k + 1 \in 0 .. n OBVIOUS
  <2>2. f[k] \in Seq(AnyPiece) /\ Path(S, a, f[k], g[k]) BY <1>4
  <2>3. f[k + 1] = DataStep(f[k], q[k + 1]) BY <1>1, <2>1
  <2>4. Moves(S, g[k], q[k + 1], g[k + 1]) BY <1>n, <1>2, <2>1 DEF Visits
  <2>5. g[k] \in Nat /\ g[k + 1] \in Nat /\ q[k + 1] \in Frame BY <1>n, <2>1
  <2>6. CASE q[k + 1].type = "DATA"
    <3>1. q[k + 1] \in AnyPiece BY <2>5, <2>6 DEF Frame, Controls, Control
    <3>2. Path(S, g[k], <<q[k + 1]>>, g[k + 1]) BY <2>4, <2>5, PathOne
    <3>3. PICK p \in AnyPiece : p = q[k + 1] BY <3>1
    <3>4. <<p>> \in Seq(AnyPiece) OBVIOUS
    <3>5. Path(S, a, f[k] \o <<p>>, g[k + 1]) BY <2>2, <3>2, <3>3, <3>4, PathConcat
    <3>6. f[k + 1] = Append(f[k], p) BY <2>3, <2>6, <3>3 DEF DataStep
    <3>7. Append(f[k], p) = f[k] \o <<p>> /\ Append(f[k], p) \in Seq(AnyPiece)
      <4>1. PICK d \in Seq(AnyPiece) : d = f[k] BY <2>2
      <4>2. Append(d, p) = d \o <<p>> BY AppendIsConcat
      <4>3. Append(d, p) \in Seq(AnyPiece) OBVIOUS
      <4> QED BY <4>1, <4>2, <4>3
    <3> QED BY <3>5, <3>6, <3>7
  <2>7. CASE q[k + 1].type # "DATA"
    <3>1. f[k + 1] = f[k] BY <2>3, <2>7 DEF DataStep
    <3>2. g[k + 1] = g[k]
      <4>1. \A i, u, v : Piece(i, u, v).type = "DATA" BY DEF Piece
      <4>2. \A i, u, v : q[k + 1] # Piece(i, u, v) BY <2>7, <4>1
      <4> QED BY <2>4, <4>2, Zenon DEF Moves
    <3> QED BY <2>2, <3>1, <3>2
  <2> QED BY <2>6, <2>7
<1> HIDE DEF T
<1>5. n \in T BY <1>3, <1>4, Induct
<1>6. At(n) BY <1>5 DEF T
<1> QED BY <1>1, <1>2, <1>6

(* All pieces between two places are the same, whoever counts them.        *)
LEMMA SamePath ==
  ASSUME NEW q \in Seq(AnyPiece), NEW r \in Seq(AnyPiece), NEW S, Len(S) \in Nat,
         NEW a, NEW b, Path(S, a, q, b), Path(S, a, r, b)
  PROVE  q = r
<1>1. AllData(q)
  <2> SUFFICES ASSUME NEW i \in 1 .. Len(q) PROVE q[i].type = "DATA" BY DEF AllData
  <2>1. q[i] \in AnyPiece OBVIOUS
  <2> QED BY <2>1 DEF AnyPiece
<1>2. AllData(r)
  <2> SUFFICES ASSUME NEW i \in 1 .. Len(r) PROVE r[i].type = "DATA" BY DEF AllData
  <2>1. r[i] \in AnyPiece OBVIOUS
  <2> QED BY <2>1 DEF AnyPiece
<1>3. CASE Len(q) <= Len(r) BY <1>1, <1>2, <1>3, PathUnique
<1>4. CASE Len(r) <= Len(q)
  <2>1. r = q BY <1>1, <1>2, <1>4, PathUnique
  <2> QED BY <2>1
<1>5. Len(q) \in Nat /\ Len(r) \in Nat OBVIOUS
<1>6. Len(q) <= Len(r) \/ Len(r) <= Len(q) BY <1>5
<1> QED BY <1>3, <1>4, <1>6

(* The pieces of the first n frames lead from the start of the script to its point 2n. *)
LEMMA UptoPath ==
  ASSUME NEW S, Len(S) \in Nat, NEW n \in 0 .. Len(S)
  PROVE  /\ PiecesOf(S, Upto(n)) \in Seq(AnyPiece)
         /\ Path(S, 0, PiecesOf(S, Upto(n)), 2 * n)
<1>1. n \in Nat /\ n <= Len(S) OBVIOUS
<1>2. PICK u \in Seq(Nat) : u = Upto(n) /\ Len(u) = n BY <1>1, UptoIs
<1>3. \A i \in 1 .. Len(u) : u[i] = 0 + i BY <1>2 DEF Upto
<1>4. 0 + Len(u) <= Len(S) /\ 2 * 0 = 0 /\ 2 * (0 + Len(u)) = 2 * n BY <1>1, <1>2
<1>5. /\ PiecesOf(S, u) \in Seq(PiecesIn(S))
      /\ Path(S, 2 * 0, PiecesOf(S, u), 2 * (0 + Len(u)))
  BY <1>3, <1>4, PiecesPath
<1>6. PiecesIn(S) \subseteq AnyPiece BY DEF PiecesIn, AnyPiece
<1>7. PiecesOf(S, u) \in Seq(AnyPiece) BY <1>5, <1>6
<1> QED BY <1>2, <1>4, <1>5, <1>7

(* What has arrived at a parser is the path from the start of the script to the point it
   reached. *)
LEMMA ArrivedPath ==
  ASSUME NEW S, Len(S) \in Nat, NEW in, NEW a, Reached(S, in, a)
  PROVE  Arrived(S, in) \in Seq(AnyPiece) /\ Path(S, 0, Arrived(S, in), a)
<1>1. PICK n \in 0 .. Len(S) :
        /\ in.seen = Upto(n)
        /\ \/ in.part = 0 /\ a = 2 * n
           \/ n # Len(S) /\ S[n + 1] = "large" /\ in.part = n + 1 /\ a = 2 * n + 1
  BY DEF Reached
<1>2. n \in Nat /\ n <= Len(S) /\ 2 * n \in Nat OBVIOUS
<1>3. PICK q \in Seq(AnyPiece) : q = PiecesOf(S, in.seen) /\ Path(S, 0, q, 2 * n)
  BY <1>1, UptoPath
<1>4. Halved(in.part) \in Seq(AnyPiece) /\ Path(S, 2 * n, Halved(in.part), a)
  <2>1. CASE in.part = 0 /\ a = 2 * n
    <3>1. Halved(in.part) = <<>> BY <2>1 DEF Halved
    <3>2. <<>> \in Seq(AnyPiece) /\ Path(S, 2 * n, <<>>, 2 * n) BY <1>2, PathEmpty
    <3> QED BY <2>1, <3>1, <3>2
  <2>2. CASE n # Len(S) /\ S[n + 1] = "large" /\ in.part = n + 1 /\ a = 2 * n + 1
    <3>1. PICK m \in 1 .. Len(S) : m = n + 1 BY <1>2, <2>2
    <3>2. PICK p \in AnyPiece : p = Piece(m, TRUE, FALSE)
      <4>1. m \in Nat OBVIOUS
      <4>2. Piece(m, TRUE, FALSE) \in AnyPiece BY <4>1 DEF Piece, AnyPiece
      <4> QED BY <4>2
    <3>3. in.part = m /\ in.part # 0 BY <2>2, <3>1
    <3>4. Halved(in.part) = <<p>> BY <3>2, <3>3 DEF Halved
    <3>5. a = 2 * m - 1 /\ 2 * n = 2 * m - 2 /\ a \in Nat BY <1>2, <2>2, <3>1
    <3>6. S[m] = "large" BY <2>2, <3>1
    <3>7. Moves(S, 2 * m - 2, p, 2 * m - 1) BY <3>2, <3>6, Zenon DEF Moves
    <3>8. Moves(S, 2 * n, p, a) BY <3>5, <3>7
    <3>9. Path(S, 2 * n, <<p>>, a) BY <1>2, <3>5, <3>8, PathOne
    <3>10. <<p>> \in Seq(AnyPiece) OBVIOUS
    <3> QED BY <3>4, <3>9, <3>10
  <2> QED BY <1>1, <2>1, <2>2
<1>5. PICK h \in Seq(AnyPiece) : h = Halved(in.part) BY <1>4
<1>6. Path(S, 0, q \o h, a) BY <1>3, <1>4, <1>5, PathConcat
<1>7. q \o h \in Seq(AnyPiece) OBVIOUS
<1>8. Arrived(S, in) = q \o h BY <1>3, <1>5 DEF Arrived
<1> QED BY <1>6, <1>7, <1>8

(* What has arrived, what is on its way and what is still held make up     *)
(* what has been read.                                                     *)
LEMMA Complete ==
  ASSUME NEW S, Len(S) \in Nat, NEW in, NEW a, Reached(S, in, a),
         NEW q \in Seq(AnyPiece), NEW b, Path(S, a, q, b), NEW out, Held(S, out, b)
  PROVE  Arrived(S, in) \o q \o Output(S, out) = PiecesOf(S, Upto(out.read))
<1>1. PICK u \in Seq(AnyPiece) : u = Arrived(S, in) /\ Path(S, 0, u, a) BY ArrivedPath
<1>2. PICK o \in Seq(AnyPiece) : o = Output(S, out) /\ Path(S, b, o, 2 * out.read)
  <2>1. Output(S, out) \in Seq(PiecesIn(S)) /\ Path(S, b, Output(S, out), 2 * out.read)
    BY HeldPath
  <2>2. PiecesIn(S) \subseteq AnyPiece BY DEF PiecesIn, AnyPiece
  <2>3. Output(S, out) \in Seq(AnyPiece) BY <2>1, <2>2
  <2> QED BY <2>1, <2>3
<1>3. out.read \in 0 .. Len(S) BY DEF Held
<1>4. PICK w \in Seq(AnyPiece) : /\ w = PiecesOf(S, Upto(out.read))
                                 /\ Path(S, 0, w, 2 * out.read)
  BY <1>3, UptoPath
<1>5. PICK v \in Seq(AnyPiece) : v = u \o q
  <2>1. u \o q \in Seq(AnyPiece) BY ConcatProperties
  <2> QED BY <2>1
<1>6. Path(S, 0, v, b) BY <1>1, <1>5, PathConcat
<1>7. PICK z \in Seq(AnyPiece) : z = v \o o
  <2>1. v \o o \in Seq(AnyPiece) BY ConcatProperties
  <2> QED BY <2>1
<1>8. Path(S, 0, z, 2 * out.read) BY <1>2, <1>6, <1>7, PathConcat
<1>9. z = w BY <1>4, <1>8, SamePath
<1> QED BY <1>1, <1>2, <1>4, <1>5, <1>7, <1>9

-----------------------------------------------------------------------------
(* The invariant of one stream, over the values of its variables: up tells *)
(* whether the client's session lives, s and c are the two ends, br and tg *)
(* what browser and target have been given, dn and us the wires.           *)
Wire(x) == Seq(Pieces(x) \cup Controls)

HandlerTypes(x, s) ==
  /\ s \in [phase : {"idle", "open", "stuck", "done"}, upgraded : BOOLEAN,
            full : BOOLEAN, paused : BOOLEAN, read : Nat, buffer : Seq(Nat),
            rest : Seq(Pieces(x)), pump : {"idle", "scheduled", "waiting"},
            writes : SUBSET {"close", "idle", "refuse"}]
  /\ Len(s.rest) <= 1

ProxyTypes(x, c) ==
  /\ c \in [phase : {"none", "asking", "open", "stuck", "done"},
            early : Seq(Pieces(x)), full : BOOLEAN, timer : BOOLEAN,
            paused : BOOLEAN, read : Nat, buffer : Seq(Nat), rest : Seq(Pieces(x)),
            blocked : BOOLEAN, finish : BOOLEAN]
  /\ Len(c.rest) <= 1

Types(x, s, c, br, tg, dn, us) ==
  /\ HandlerTypes(x, s) /\ ProxyTypes(x, c)
  /\ br \in Input /\ tg \in Input
  /\ dn \in Wire(x) /\ us \in Wire(x)

Listens(up, c) == up /\ c.phase \in {"none", "asking", "open"}

(* A stream that has not begun is as at the start.                         *)
Idle(s, c, dn) ==
  s.phase = "idle" => s = NewHandler /\ c = NewProxy /\ dn = <<>>

(* Until the target has answered, nothing has come from it.                *)
Unanswered(s, c, br, tg, us) ==
  /\ c.phase \in {"none", "asking"} =>
       /\ tg = NewInput /\ br = NewInput /\ us = <<>> /\ ~s.upgraded
       /\ c.read = 0 /\ c.buffer = <<>> /\ c.rest = <<>>
  /\ c.phase = "none" => c = NewProxy
  /\ c.early # <<>> => c.phase = "asking"
  /\ c.finish => c.phase = "open"

(* UPGRADE comes first, and only once.                                     *)
DownWire(up, s, c, dn) ==
  /\ ~Listens(up, c) => dn = <<>>
  /\ \A i \in 1 .. Len(dn) : dn[i].type = "UPGRADE" => i = 1 /\ c.phase = "none"
  /\ c.phase = "none" /\ up /\ (s.phase = "open" \/ dn # <<>>) =>
       dn # <<>> /\ dn[1].type = "UPGRADE"

UpWire(s, us) ==
  /\ s.phase # "open" => us = <<>>
  /\ \A i \in 1 .. Len(us) : us[i].type = "UPGRADE" => i = 1

(* The receiver's place, the wire and the sender's place agree.            *)
Down(x, up, s, c, tg, dn) ==
  \E b \in Nat :
    /\ s.phase = "open" => Held(BrowserScript[x], s, b)
    /\ Listens(up, c) /\ ~tg.closing =>
         \E a \in Nat : /\ Reached(BrowserScript[x], tg, a)
                        /\ Path(BrowserScript[x], a, c.early \o dn, b)

Begins(s, us) == s.upgraded \/ (us # <<>> /\ us[1].type = "UPGRADE")

Up(x, s, c, br, us) ==
  \E b \in Nat :
    /\ c.phase = "open" => Held(TargetScript[x], c, b)
    /\ s.phase = "open" /\ Begins(s, us) =>
         \E a \in Nat : /\ Reached(TargetScript[x], br, a)
                        /\ Path(TargetScript[x], a, us, b)

(* What has been handed on is whole; after Close, it is everything.        *)
Seen(x, br, tg) ==
  /\ Whole(br) /\ Whole(tg)
  /\ br.closing => Len(br.seen) = Len(TargetScript[x])

Pumps(x, s) ==
  s.phase = "open" /\ Output(BrowserScript[x], s) # <<>> => s.pump # "idle"

Stream(x, up, s, c, br, tg, dn, us) ==
  /\ Types(x, s, c, br, tg, dn, us)
  /\ Idle(s, c, dn) /\ Unanswered(s, c, br, tg, us)
  /\ DownWire(up, s, c, dn) /\ UpWire(s, us)
  /\ Down(x, up, s, c, tg, dn) /\ Up(x, s, c, br, us)
  /\ Seen(x, br, tg) /\ Pumps(x, s)

At(x) ==
  Stream(x, clientUp, srv[x], cli[x], browser[x], target[x], toClient[x], toServer[x])

Arrays ==
  /\ srv = [x \in Streams |-> srv[x]] /\ cli = [x \in Streams |-> cli[x]]
  /\ tgt = [x \in Streams |-> tgt[x]]
  /\ browser = [x \in Streams |-> browser[x]] /\ target = [x \in Streams |-> target[x]]
  /\ toClient = [x \in Streams |-> toClient[x]]
  /\ toServer = [x \in Streams |-> toServer[x]]

Lives ==
  /\ Open # {} => serverUp
  /\ Linked # {} => clientUp

TunnelInv == TypeOK /\ SlotsMatch /\ Arrays /\ Lives /\ \A x \in Streams : At(x)

(* The scripts are finite, and a target says nothing after its close frame. *)
LEMMA ScriptsIn ==
  ASSUME NEW x \in Streams
  PROVE  /\ Len(BrowserScript[x]) \in Nat /\ Len(TargetScript[x]) \in Nat
         /\ \A n \in 1 .. Len(TargetScript[x]) :
              TargetScript[x][n] = "close" => n = Len(TargetScript[x])
<1>1. BrowserScript[x] \in Scripts /\ TargetScript[x] \in Scripts BY WebSocketAssumption
<1>2. /\ BrowserScript[x] \in Seq({"small", "large", "close"})
      /\ TargetScript[x] \in Seq({"small", "large", "close"})
      /\ \A n \in DOMAIN TargetScript[x] :
           TargetScript[x][n] = "close" => n = Len(TargetScript[x])
  BY <1>1 DEF Scripts
<1>3. DOMAIN TargetScript[x] = 1 .. Len(TargetScript[x]) BY <1>2
<1> QED BY <1>2, <1>3

(* The pieces and controls of a stream are the frames its wires carry. *)
LEMMA PiecesIncluded ==
  ASSUME NEW x \in Streams
  PROVE  /\ PiecesIn(BrowserScript[x]) \subseteq Pieces(x)
         /\ PiecesIn(TargetScript[x]) \subseteq Pieces(x)
         /\ Pieces(x) \subseteq AnyPiece /\ Pieces(x) \cup Controls \subseteq Frame
         /\ \A p \in Pieces(x) : p.type = "DATA"
         /\ Control("UPGRADE") \in Controls /\ Control("FIN") \in Controls
         /\ \A p \in Controls : p.type \in {"UPGRADE", "FIN"}
         /\ Control("UPGRADE").type = "UPGRADE" /\ Control("FIN").type = "FIN"
<1>1. Len(BrowserScript[x]) \in Nat /\ Len(TargetScript[x]) \in Nat BY ScriptsIn
<1>2. /\ 1 .. Len(BrowserScript[x]) \subseteq 1 .. Len(BrowserScript[x]) + Len(TargetScript[x])
      /\ 1 .. Len(TargetScript[x]) \subseteq 1 .. Len(BrowserScript[x]) + Len(TargetScript[x])
      /\ 1 .. Len(BrowserScript[x]) + Len(TargetScript[x]) \subseteq Nat
  <2>1. PICK l \in Nat : l = Len(BrowserScript[x]) BY <1>1
  <2>2. PICK m \in Nat : m = Len(TargetScript[x]) BY <1>1
  <2>3. 1 .. l \subseteq 1 .. l + m /\ 1 .. m \subseteq 1 .. l + m /\ 1 .. l + m \subseteq Nat
    OBVIOUS
  <2> QED BY <2>1, <2>2, <2>3
<1>3. PiecesIn(BrowserScript[x]) \subseteq Pieces(x) BY <1>2 DEF PiecesIn, Pieces
<1>4. PiecesIn(TargetScript[x]) \subseteq Pieces(x) BY <1>2 DEF PiecesIn, Pieces
<1>5. Pieces(x) \subseteq AnyPiece /\ \A p \in Pieces(x) : p.type = "DATA"
  BY <1>2 DEF Pieces, AnyPiece
<1>6. Pieces(x) \cup Controls \subseteq Frame BY <1>5 DEF Frame
<1>7. Control("UPGRADE").type = "UPGRADE" /\ Control("FIN").type = "FIN" BY DEF Control
<1>8. /\ Control("UPGRADE") \in Controls /\ Control("FIN") \in Controls
      /\ \A p \in Controls : p = Control("UPGRADE") \/ p = Control("FIN")
  BY DEF Controls
<1>9. \A p \in Controls : p.type \in {"UPGRADE", "FIN"} BY <1>7, <1>8
<1> QED BY <1>3, <1>4, <1>5, <1>6, <1>7, <1>8, <1>9

(* What an end holds depends on three fields of its record only. *)
LEMMA HeldSame ==
  ASSUME NEW S, NEW out, NEW out2, out2.read = out.read, out2.buffer = out.buffer,
         out2.rest = out.rest
  PROVE  /\ \A b : Held(S, out, b) => Held(S, out2, b)
         /\ Output(S, out2) = Output(S, out)
  BY DEF Held, Output

(* An end that has read nothing holds nothing. *)
LEMMA HeldNew ==
  ASSUME NEW S, Len(S) \in Nat, NEW out, out.read = 0, out.buffer = <<>>, out.rest = <<>>
  PROVE  Held(S, out, 0) /\ Output(S, out) = <<>>
<1>1. Holds(S, 0, <<>>, <<>>, 0)
  <2>1. 0 \in 0 .. 0 /\ Len(<<>>) = 0 - 0 /\ 2 * 0 = 0 OBVIOUS
  <2>2. \A i \in 1 .. Len(<<>>) : <<>>[i] = 0 + i OBVIOUS
  <2> QED BY <2>1, <2>2 DEF Holds
<1>2. Held(S, out, 0)
  <2>1. out.read \in 0 .. Len(S) /\ out.buffer \in Seq(Nat) OBVIOUS
  <2> QED BY <1>1, <2>1 DEF Held
<1>3. Output(S, out) = <<>>
  <2>1. Output(S, out) \in Seq(PiecesIn(S)) /\ Path(S, 0, Output(S, out), 2 * 0)
    BY <1>2, HeldPath
  <2>2. PiecesIn(S) \subseteq AnyPiece BY DEF PiecesIn, AnyPiece
  <2>3. PICK o \in Seq(AnyPiece) : o = Output(S, out) BY <2>1, <2>2
  <2>4. <<>> \in Seq(AnyPiece) /\ 2 * 0 = 0 /\ Path(S, 0, <<>>, 0) BY PathEmpty
  <2>5. Path(S, 0, o, 0) BY <2>1, <2>3, <2>4
  <2>6. o = <<>> BY <2>4, <2>5, SamePath
  <2> QED BY <2>3, <2>6
<1> QED BY <1>2, <1>3

(* A fresh parser is at the start of every script. *)
LEMMA ReachedNew ==
  ASSUME NEW S, Len(S) \in Nat
  PROVE  /\ Reached(S, NewInput, 0) /\ Whole(NewInput) /\ ~NewInput.closing
         /\ NewInput \in Input
<1>1. NewInput.part = 0 /\ NewInput.seen = <<>> /\ ~NewInput.closing BY DEF NewInput
<1>2. Upto(0) = <<>>
  <2>1. Upto(0) \in Seq(Nat) /\ Len(Upto(0)) = 0 BY UptoIs
  <2> QED BY <2>1, EmptySeq
<1>3. 0 \in 0 .. Len(S) /\ 2 * 0 = 0 OBVIOUS
<1>4. Reached(S, NewInput, 0) BY <1>1, <1>2, <1>3 DEF Reached
<1>5. NewInput \in Input BY DEF NewInput, Input
<1> QED BY <1>1, <1>4, <1>5, ReachedWhole

(* The stream invariant holds before a stream is used. *)
LEMMA StreamInit ==
  ASSUME NEW x \in Streams
  PROVE  Stream(x, TRUE, NewHandler, NewProxy, NewInput, NewInput, <<>>, <<>>)
<1>1. Len(BrowserScript[x]) \in Nat /\ Len(TargetScript[x]) \in Nat BY ScriptsIn
<1>2. /\ NewHandler.phase = "idle" /\ ~NewHandler.upgraded
      /\ NewProxy.phase = "none" /\ NewProxy.early = <<>> /\ ~NewProxy.finish
      /\ NewProxy.read = 0 /\ NewProxy.buffer = <<>> /\ NewProxy.rest = <<>>
  BY DEF NewHandler, NewProxy
<1>3. Types(x, NewHandler, NewProxy, NewInput, NewInput, <<>>, <<>>)
  <2>1. HandlerTypes(x, NewHandler) BY DEF HandlerTypes, NewHandler
  <2>2. ProxyTypes(x, NewProxy) BY DEF ProxyTypes, NewProxy
  <2>3. <<>> \in Wire(x) BY DEF Wire
  <2> QED BY <1>1, <2>1, <2>2, <2>3, ReachedNew DEF Types
<1>4. DownWire(TRUE, NewHandler, NewProxy, <<>>) BY <1>2 DEF DownWire, Listens
<1>5. UpWire(NewHandler, <<>>) BY DEF UpWire
<1>6. Down(x, TRUE, NewHandler, NewProxy, NewInput, <<>>)
  <2>1. Path(BrowserScript[x], 0, <<>>, 0) BY PathEmpty
  <2>2. <<>> \o <<>> = <<>> OBVIOUS
  <2>3. Path(BrowserScript[x], 0, NewProxy.early \o <<>>, 0) BY <1>2, <2>1, <2>2
  <2>4. Reached(BrowserScript[x], NewInput, 0) /\ 0 \in Nat BY <1>1, ReachedNew
  <2>5. NewHandler.phase # "open" BY <1>2
  <2> QED BY <2>3, <2>4, <2>5 DEF Down
<1>7. Up(x, NewHandler, NewProxy, NewInput, <<>>) BY <1>2 DEF Up
<1>8. Seen(x, NewInput, NewInput) BY <1>1, ReachedNew DEF Seen
<1>9. Pumps(x, NewHandler) BY <1>2 DEF Pumps
<1> QED BY <1>2, <1>3, <1>4, <1>5, <1>6, <1>7, <1>8, <1>9 DEF Stream, Idle, Unanswered

-----------------------------------------------------------------------------
(* What the router does to a stream.                                       *)
LEMMA HandlerAside ==
  ASSUME NEW x, NEW up, NEW s, NEW c, NEW br, NEW tg, NEW dn, NEW us,
         Stream(x, up, s, c, br, tg, dn, us), s.phase = "open",
         NEW s2, HandlerTypes(x, s2), s2.phase = "open", s2.upgraded <=> s.upgraded,
         s2.read = s.read, s2.buffer = s.buffer, s2.rest = s.rest,
         s2.pump = s.pump \/ s2.pump # "idle"
  PROVE  Stream(x, up, s2, c, br, tg, dn, us)
<1>1. Types(x, s2, c, br, tg, dn, us) BY DEF Stream, Types
<1>2. Idle(s2, c, dn) BY DEF Idle
<1>3. Unanswered(s2, c, br, tg, us) BY DEF Stream, Unanswered
<1>4. DownWire(up, s2, c, dn) BY DEF Stream, DownWire
<1>5. UpWire(s2, us) BY DEF Stream, UpWire
<1>6. Down(x, up, s2, c, tg, dn)
  <2>1. PICK b \in Nat : /\ Held(BrowserScript[x], s, b)
                         /\ Listens(up, c) /\ ~tg.closing =>
                              \E a \in Nat : /\ Reached(BrowserScript[x], tg, a)
                                             /\ Path(BrowserScript[x], a, c.early \o dn, b)
    BY DEF Stream, Down
  <2>2. Held(BrowserScript[x], s2, b) BY <2>1, HeldSame
  <2> QED BY <2>1, <2>2 DEF Down
<1>7. Up(x, s2, c, br, us)
  <2>1. Begins(s2, us) <=> Begins(s, us) BY DEF Begins
  <2> QED BY <2>1 DEF Stream, Up
<1>8. Pumps(x, s2)
  <2>1. Output(BrowserScript[x], s2) = Output(BrowserScript[x], s) BY HeldSame
  <2> QED BY <2>1 DEF Stream, Pumps
<1> QED BY <1>1, <1>2, <1>3, <1>4, <1>5, <1>6, <1>7, <1>8 DEF Stream

(* The handler reading more of the browser keeps the stream invariant. *)
LEMMA BrowserRead ==
  ASSUME NEW x \in Streams, NEW up, NEW s, NEW c, NEW br, NEW tg, NEW dn, NEW us,
         Stream(x, up, s, c, br, tg, dn, us), s.phase = "open",
         NEW n \in s.read + 1 .. Len(BrowserScript[x]),
         NEW s2, HandlerTypes(x, s2), s2.phase = "open", s2.upgraded <=> s.upgraded,
         s2.read = n, s2.rest = s.rest, s2.pump # "idle",
         s2.buffer = s.buffer \o SubSeq(Upto(n), s.read + 1, n)
  PROVE  Stream(x, up, s2, c, br, tg, dn, us)
<1>0. Len(BrowserScript[x]) \in Nat BY ScriptsIn
<1>1. Types(x, s2, c, br, tg, dn, us) BY DEF Stream, Types
<1>2. Idle(s2, c, dn) BY DEF Idle
<1>3. Unanswered(s2, c, br, tg, us) BY DEF Stream, Unanswered
<1>4. DownWire(up, s2, c, dn) BY DEF Stream, DownWire
<1>5. UpWire(s2, us) BY DEF Stream, UpWire
<1>6. Down(x, up, s2, c, tg, dn)
  <2>1. PICK b \in Nat : /\ Held(BrowserScript[x], s, b)
                         /\ Listens(up, c) /\ ~tg.closing =>
                              \E a \in Nat : /\ Reached(BrowserScript[x], tg, a)
                                             /\ Path(BrowserScript[x], a, c.early \o dn, b)
    BY DEF Stream, Down
  <2>2. s.read \in Nat BY <2>1 DEF Held
  <2>3. n \in s.read .. Len(BrowserScript[x]) BY <1>0, <2>2
  <2>4. Held(BrowserScript[x], s2, b) BY <1>0, <2>1, <2>3, ReadHeld
  <2> QED BY <2>1, <2>4 DEF Down
<1>7. Up(x, s2, c, br, us)
  <2>1. Begins(s2, us) <=> Begins(s, us) BY DEF Begins
  <2> QED BY <2>1 DEF Stream, Up
<1>8. Pumps(x, s2) BY DEF Pumps
<1> QED BY <1>1, <1>2, <1>3, <1>4, <1>5, <1>6, <1>7, <1>8 DEF Stream

(* What is put on a wire behind its first frame.                           *)
LEMMA Appended ==
  ASSUME NEW x, NEW w \in Wire(x), NEW q \in Wire(x)
  PROVE  /\ w \o q \in Wire(x)
         /\ w # <<>> => w \o q # <<>> /\ (w \o q)[1] = w[1]
         /\ \A i \in 1 .. Len(w \o q) :
              \/ i \in 1 .. Len(w) /\ (w \o q)[i] = w[i]
              \/ i - Len(w) \in 1 .. Len(q) /\ (w \o q)[i] = q[i - Len(w)] /\ i > Len(w)
<1> DEFINE F == Pieces(x) \cup Controls
<1>1. w \in Seq(F) /\ q \in Seq(F) BY DEF Wire
<1> HIDE DEF F
<1>n. PICK n \in Nat : n = Len(w) BY <1>1
<1>m. PICK m \in Nat : m = Len(q) BY <1>1
<1>2. /\ w \o q \in Seq(F) /\ Len(w \o q) = n + m
      /\ \A i \in 1 .. n + m : (w \o q)[i] = IF i <= n THEN w[i] ELSE q[i - n]
  BY <1>1, <1>n, <1>m, ConcatProperties
<1>3. ASSUME w # <<>> PROVE w \o q # <<>> /\ (w \o q)[1] = w[1]
  <2>1. n # 0 BY <1>1, <1>3, <1>n, EmptySeq
  <2>2. Len(w \o q) # 0 /\ 1 \in 1 .. n + m /\ 1 <= n BY <1>2, <2>1
  <2>3. w \o q # <<>> BY <1>2, <2>2, EmptySeq
  <2> QED BY <1>2, <2>2, <2>3
<1>4. ASSUME NEW i \in 1 .. n + m
      PROVE  \/ i \in 1 .. n /\ (w \o q)[i] = w[i]
             \/ i - n \in 1 .. m /\ (w \o q)[i] = q[i - n] /\ i > n
  <2>1. CASE i <= n
    <3>1. i \in 1 .. n BY <2>1
    <3> QED BY <1>2, <2>1, <3>1
  <2>2. CASE ~ i <= n
    <3>1. i - n \in 1 .. m /\ i > n BY <2>2
    <3> QED BY <1>2, <2>2, <3>1
  <2> QED BY <2>1, <2>2
<1> QED BY <1>2, <1>3, <1>4, <1>n, <1>m DEF Wire, F

(* Frames without UPGRADE may follow whenever the receiver listens.        *)
LEMMA DownSent ==
  ASSUME NEW x, NEW up, NEW s, NEW c, NEW dn \in Wire(x), NEW q \in Wire(x),
         DownWire(up, s, c, dn), s.phase = "open", Listens(up, c),
         \A i \in 1 .. Len(q) : q[i].type # "UPGRADE",
         NEW s2
  PROVE  DownWire(up, s2, c, dn \o q)
<1>1. /\ dn # <<>> => dn \o q # <<>> /\ (dn \o q)[1] = dn[1]
      /\ \A i \in 1 .. Len(dn \o q) :
           \/ i \in 1 .. Len(dn) /\ (dn \o q)[i] = dn[i]
           \/ i - Len(dn) \in 1 .. Len(q) /\ (dn \o q)[i] = q[i - Len(dn)] /\ i > Len(dn)
  BY Appended
<1>2. ASSUME NEW i \in 1 .. Len(dn \o q), (dn \o q)[i].type = "UPGRADE"
      PROVE  i = 1 /\ c.phase = "none"
  <2>1. i \in 1 .. Len(dn) /\ (dn \o q)[i] = dn[i] BY <1>1, <1>2
  <2> QED BY <1>2, <2>1 DEF DownWire
<1>3. c.phase = "none" /\ up => dn # <<>> /\ dn[1].type = "UPGRADE" BY DEF DownWire
<1> QED BY <1>1, <1>2, <1>3 DEF DownWire

(* What is appended to a wire extends the path along it. *)
LEMMA PathSent ==
  ASSUME NEW x \in Streams, NEW e \in Seq(Pieces(x)), NEW w \in Wire(x), NEW q \in Wire(x),
         NEW S, NEW a, NEW b, NEW d, Path(S, a, e \o w, b), Path(S, b, q, d)
  PROVE  Path(S, a, e \o (w \o q), d)
<1> DEFINE F == Pieces(x) \cup Controls
<1>1. w \in Seq(F) /\ q \in Seq(F) BY DEF Wire
<1>2. e \in Seq(F) OBVIOUS
<1> HIDE DEF F
<1>3. PICK v \in Seq(F) : v = e \o w
  <2>1. e \o w \in Seq(F) BY <1>1, <1>2, ConcatProperties
  <2> QED BY <2>1
<1>4. Path(S, a, v \o q, d) BY <1>1, <1>3, PathConcat
<1>5. (e \o w) \o q = e \o (w \o q) BY <1>1, <1>2, ConcatAssociative
<1> QED BY <1>3, <1>4, <1>5

(* Pieces of a script may travel on its wire, and are no upgrade. *)
LEMMA PiecesOnWire ==
  ASSUME NEW x \in Streams, NEW q,
         q \in Seq(PiecesIn(BrowserScript[x])) \/ q \in Seq(PiecesIn(TargetScript[x]))
  PROVE  /\ q \in Seq(Pieces(x)) /\ q \in Wire(x)
         /\ \A i \in 1 .. Len(q) : q[i].type = "DATA" /\ q[i].type # "UPGRADE"
<1>1. q \in Seq(Pieces(x)) BY PiecesIncluded
<1>2. \A i \in 1 .. Len(q) : q[i] \in Pieces(x) BY <1>1
<1>3. \A i \in 1 .. Len(q) : q[i].type = "DATA" BY <1>2, PiecesIncluded
<1>4. q \in Wire(x) BY <1>1 DEF Wire
<1> QED BY <1>1, <1>3, <1>4

(* The handler sending some of what it holds keeps the stream invariant, listened to or
   not. *)
LEMMA BrowserPumped ==
  ASSUME NEW x \in Streams, NEW up, NEW s, NEW c, NEW br, NEW tg, NEW dn, NEW us,
         Stream(x, up, s, c, br, tg, dn, us), s.phase = "open",
         NEW k \in 0 .. Len(Output(BrowserScript[x], s)),
         NEW s2, HandlerTypes(x, s2), s2.phase = "open", s2.upgraded <=> s.upgraded,
         s2.read = s.read, s2.rest = SentRest(BrowserScript[x], s, k),
         s2.buffer = SentBuffer(BrowserScript[x], s, k),
         k = Len(Output(BrowserScript[x], s)) \/ s2.pump # "idle",
         NEW dn2, dn2 = IF Listens(up, c)
                        THEN dn \o SubSeq(Output(BrowserScript[x], s), 1, k) ELSE dn
  PROVE  Stream(x, up, s2, c, br, tg, dn2, us)
<1>0. Len(BrowserScript[x]) \in Nat BY ScriptsIn
<1>d. PICK b \in Nat : /\ Held(BrowserScript[x], s, b)
                       /\ Listens(up, c) /\ ~tg.closing =>
                            \E a \in Nat : /\ Reached(BrowserScript[x], tg, a)
                                           /\ Path(BrowserScript[x], a, c.early \o dn, b)
  BY DEF Stream, Down
<1>q. PICK q \in Seq(PiecesIn(BrowserScript[x])) : q = SubSeq(Output(BrowserScript[x], s), 1, k)
  BY <1>0, <1>d, SentHeld
<1>w. q \in Wire(x) /\ \A i \in 1 .. Len(q) : q[i].type # "UPGRADE" BY PiecesOnWire
<1>c. PICK d \in Nat : Path(BrowserScript[x], b, q, d) /\ Held(BrowserScript[x], s2, d)
  <2>1. PICK d \in Nat :
          /\ Path(BrowserScript[x], b, q, d)
          /\ Holds(BrowserScript[x], s.read, SentBuffer(BrowserScript[x], s, k),
                   SentRest(BrowserScript[x], s, k), d)
    BY <1>0, <1>d, <1>q, SentHeld
  <2>2. /\ s.read \in 0 .. Len(BrowserScript[x])
        /\ SentBuffer(BrowserScript[x], s, k) \in Seq(Nat)
    BY <1>0, <1>d, SentHeld DEF Held
  <2> QED BY <2>1, <2>2 DEF Held
<1>t. dn \in Wire(x) /\ c.early \in Seq(Pieces(x)) BY DEF Stream, Types, ProxyTypes
<1>1. Types(x, s2, c, br, tg, dn2, us)
  <2>1. dn2 \in Wire(x) BY <1>q, <1>w, <1>t, Appended
  <2> QED BY <2>1 DEF Stream, Types
<1>2. Idle(s2, c, dn2) BY DEF Idle
<1>3. Unanswered(s2, c, br, tg, us) BY DEF Stream, Unanswered
<1>4. DownWire(up, s2, c, dn2)
  <2>1. CASE Listens(up, c)
    <3>1. dn2 = dn \o q BY <1>q, <2>1
    <3> QED BY <1>w, <1>t, <2>1, <3>1, DownSent DEF Stream
  <2>2. CASE ~Listens(up, c) BY <2>2 DEF Stream, DownWire
  <2> QED BY <2>1, <2>2
<1>5. UpWire(s2, us) BY DEF Stream, UpWire
<1>6. Down(x, up, s2, c, tg, dn2)
  <2>1. ASSUME Listens(up, c), ~tg.closing
        PROVE  \E a \in Nat : /\ Reached(BrowserScript[x], tg, a)
                              /\ Path(BrowserScript[x], a, c.early \o dn2, d)
    <3>1. PICK a \in Nat : /\ Reached(BrowserScript[x], tg, a)
                           /\ Path(BrowserScript[x], a, c.early \o dn, b)
      BY <1>d, <2>1
    <3>2. dn2 = dn \o q BY <1>q, <2>1
    <3>3. Path(BrowserScript[x], a, c.early \o (dn \o q), d)
      BY <1>c, <1>w, <1>t, <3>1, PathSent
    <3> QED BY <3>1, <3>2, <3>3
  <2> QED BY <1>c, <2>1 DEF Down
<1>7. Up(x, s2, c, br, us)
  <2>1. Begins(s2, us) <=> Begins(s, us) BY DEF Begins
  <2> QED BY <2>1 DEF Stream, Up
<1>8. Pumps(x, s2)
  <2>1. CASE s2.pump # "idle" BY <2>1 DEF Pumps
  <2>2. CASE k = Len(Output(BrowserScript[x], s))
    <3>1. s2.buffer = <<>> /\ s2.rest = <<>> BY <1>0, <1>d, <2>2, SentHeld
    <3>2. PICK o : o = [read |-> 0, buffer |-> <<>>, rest |-> <<>>] OBVIOUS
    <3>3. o.read = 0 /\ o.buffer = <<>> /\ o.rest = <<>> BY <3>2
    <3>4. Output(BrowserScript[x], o) = <<>> BY <1>0, <3>3, HeldNew
    <3>5. Output(BrowserScript[x], s2) = Output(BrowserScript[x], o)
      BY <3>1, <3>3, Zenon DEF Output
    <3> QED BY <3>4, <3>5 DEF Pumps
  <2> QED BY <2>1, <2>2
<1> QED BY <1>1, <1>2, <1>3, <1>4, <1>5, <1>6, <1>7, <1>8 DEF Stream

(* The stream is over at the router, or never begins.                      *)
LEMMA Dropped ==
  ASSUME NEW x \in Streams, NEW up, NEW s, NEW c, NEW br, NEW tg, NEW dn, NEW us,
         Stream(x, up, s, c, br, tg, dn, us), s.phase \in {"idle", "open"},
         NEW s2, HandlerTypes(x, s2), s2.phase \in {"done", "stuck"}, ~s2.upgraded,
         NEW dn2, \/ dn2 = dn
                  \/ /\ s.phase = "open" /\ Listens(up, c)
                     /\ dn2 = Append(dn, Control("FIN"))
  PROVE  Stream(x, up, s2, c, br, tg, dn2, <<>>)
<1>0. s2.phase # "open" /\ s2.phase # "idle" OBVIOUS
<1> DEFINE q == <<Control("FIN")>>
<1>q. /\ q \in Wire(x) /\ Len(q) = 1 /\ q[1].type # "UPGRADE" /\ q[1].type # "DATA"
      /\ \A i \in 1 .. Len(q) : q[i].type # "UPGRADE"
  <2>1. /\ Control("FIN") \in Pieces(x) \cup Controls /\ Control("FIN").type # "UPGRADE"
        /\ Control("FIN").type # "DATA"
    BY PiecesIncluded
  <2>2. q \in Wire(x) /\ Len(q) = 1 /\ q[1] = Control("FIN") BY <2>1 DEF Wire
  <2> HIDE DEF q
  <2>3. \A i \in 1 .. Len(q) : i = 1 BY <2>2
  <2> QED BY <2>1, <2>2, <2>3
<1>t. dn \in Wire(x) /\ c.early \in Seq(Pieces(x)) BY DEF Stream, Types, ProxyTypes
<1>d. dn2 = dn \/ (s.phase = "open" /\ Listens(up, c) /\ dn2 = dn \o q)
  <2>1. Control("FIN") \in Pieces(x) \cup Controls BY PiecesIncluded
  <2>2. Append(dn, Control("FIN")) = dn \o q BY <1>t, <2>1, AppendIsConcat DEF Wire
  <2> QED BY <2>2
<1> HIDE DEF q
<1>1. Types(x, s2, c, br, tg, dn2, <<>>)
  <2>1. dn2 \in Wire(x) BY <1>d, <1>q, <1>t, Appended
  <2>2. <<>> \in Wire(x) BY DEF Wire
  <2> QED BY <2>1, <2>2 DEF Stream, Types
<1>2. Idle(s2, c, dn2) BY <1>0 DEF Idle
<1>3. Unanswered(s2, c, br, tg, <<>>) BY DEF Stream, Unanswered
<1>4. DownWire(up, s2, c, dn2)
  <2>1. CASE dn2 = dn BY <1>0, <2>1 DEF Stream, DownWire
  <2>2. CASE s.phase = "open" /\ Listens(up, c) /\ dn2 = dn \o q
    BY <1>q, <1>t, <2>2, DownSent DEF Stream
  <2> QED BY <1>d, <2>1, <2>2
<1>5. UpWire(s2, <<>>) BY DEF UpWire
<1>6. Down(x, up, s2, c, tg, dn2)
  <2>1. PICK b \in Nat : Listens(up, c) /\ ~tg.closing =>
                           \E a \in Nat : /\ Reached(BrowserScript[x], tg, a)
                                          /\ Path(BrowserScript[x], a, c.early \o dn, b)
    BY DEF Stream, Down
  <2>2. ASSUME Listens(up, c), ~tg.closing
        PROVE  \E a \in Nat : /\ Reached(BrowserScript[x], tg, a)
                              /\ Path(BrowserScript[x], a, c.early \o dn2, b)
    <3>1. PICK a \in Nat : /\ Reached(BrowserScript[x], tg, a)
                           /\ Path(BrowserScript[x], a, c.early \o dn, b)
      BY <2>1, <2>2
    <3>2. CASE dn2 = dn BY <3>1, <3>2
    <3>3. CASE dn2 = dn \o q
      <4>1. Moves(BrowserScript[x], b, Control("FIN"), b) BY PiecesIncluded DEF Moves
      <4>2. Path(BrowserScript[x], b, q, b) BY <4>1, PathOne DEF q
      <4>3. Path(BrowserScript[x], a, c.early \o (dn \o q), b)
        BY <1>q, <1>t, <3>1, <4>2, PathSent
      <4> QED BY <3>1, <3>3, <4>3
    <3> QED BY <1>d, <3>2, <3>3
  <2> QED BY <1>0, <2>2 DEF Down
<1>7. Up(x, s2, c, br, <<>>) BY <1>0 DEF Stream, Up
<1>8. Pumps(x, s2) BY <1>0 DEF Pumps
<1> QED BY <1>1, <1>2, <1>3, <1>4, <1>5, <1>6, <1>7, <1>8 DEF Stream

(* Opening a stream puts its upgrade on the wire and keeps the stream invariant. *)
LEMMA Accepted ==
  ASSUME NEW x \in Streams, NEW up, NEW s, NEW c, NEW br, NEW tg, NEW dn, NEW us,
         Stream(x, up, s, c, br, tg, dn, us), s.phase = "idle",
         NEW s2, HandlerTypes(x, s2), s2 = [s EXCEPT !.phase = "open"],
         NEW dn2, dn2 = IF Listens(up, c) THEN dn \o <<Control("UPGRADE")>> ELSE dn
  PROVE  Stream(x, up, s2, c, br, tg, dn2, us)
<1>0. Len(BrowserScript[x]) \in Nat BY ScriptsIn
<1> DEFINE q == <<Control("UPGRADE")>>
<1>s. /\ s = NewHandler /\ c = NewProxy /\ dn = <<>> /\ us = <<>>
  BY DEF Stream, Idle, UpWire
<1>e. /\ s2.phase = "open" /\ ~s2.upgraded /\ s2.read = 0 /\ s2.buffer = <<>>
      /\ s2.rest = <<>>
  BY <1>s DEF NewHandler
<1>p. c.phase = "none" /\ c.early = <<>> BY <1>s DEF NewProxy
<1>g. tg = NewInput BY <1>p DEF Stream, Unanswered
<1>q. /\ q \in Wire(x) /\ Len(q) = 1 /\ q[1].type = "UPGRADE" /\ q # <<>>
      /\ \A i \in 1 .. Len(q) : i = 1
  <2>1. Control("UPGRADE") \in Pieces(x) \cup Controls /\ Control("UPGRADE").type = "UPGRADE"
    BY PiecesIncluded
  <2>2. q \in Wire(x) /\ Len(q) = 1 /\ q[1] = Control("UPGRADE") BY <2>1 DEF Wire
  <2>3. q # <<>> OBVIOUS
  <2> HIDE DEF q
  <2>4. \A i \in 1 .. Len(q) : i = 1 BY <2>2
  <2> QED BY <2>1, <2>2, <2>3, <2>4
<1>d. dn2 = IF Listens(up, c) THEN q ELSE <<>> BY <1>s
<1> HIDE DEF q
<1>l. Listens(up, c) <=> up BY <1>p DEF Listens
<1>1. Types(x, s2, c, br, tg, dn2, us)
  <2>1. <<>> \in Wire(x) BY DEF Wire
  <2>2. dn2 \in Wire(x) BY <1>d, <1>q, <2>1
  <2> QED BY <2>2 DEF Stream, Types
<1>2. Idle(s2, c, dn2) BY <1>e DEF Idle
<1>3. Unanswered(s2, c, br, tg, us) BY <1>e DEF Stream, Unanswered
<1>4. DownWire(up, s2, c, dn2)
  <2>1. \A i \in 1 .. Len(dn2) : i = 1 BY <1>d, <1>q
  <2> QED BY <1>d, <1>l, <1>p, <1>q, <2>1 DEF DownWire
<1>5. UpWire(s2, us) BY <1>e DEF Stream, UpWire
<1>6. Down(x, up, s2, c, tg, dn2)
  <2>1. Held(BrowserScript[x], s2, 0) BY <1>0, <1>e, HeldNew
  <2>2. Reached(BrowserScript[x], tg, 0) /\ 0 \in Nat BY <1>0, <1>g, ReachedNew
  <2>3. Path(BrowserScript[x], 0, dn2, 0)
    <3>1. CASE ~Listens(up, c) BY <1>d, <3>1, PathEmpty
    <3>2. CASE Listens(up, c)
      <4>1. Moves(BrowserScript[x], 0, Control("UPGRADE"), 0) BY PiecesIncluded DEF Moves
      <4>2. Path(BrowserScript[x], 0, q, 0) BY <4>1, PathOne DEF q
      <4> QED BY <1>d, <3>2, <4>2
    <3> QED BY <3>1, <3>2
  <2>4. c.early \o dn2 = dn2
    <3>1. dn2 \in Wire(x) BY <1>1 DEF Types
    <3> QED BY <1>p, <3>1, ConcatEmptySeq DEF Wire
  <2> QED BY <2>1, <2>2, <2>3, <2>4 DEF Down
<1>7. Up(x, s2, c, br, us)
  <2>1. ~Begins(s2, us) BY <1>e, <1>s DEF Begins
  <2>2. c.phase # "open" BY <1>p
  <2> QED BY <2>1, <2>2 DEF Up
<1>8. Pumps(x, s2)
  <2>1. Output(BrowserScript[x], s2) = <<>> BY <1>0, <1>e, HeldNew
  <2> QED BY <2>1 DEF Pumps
<1> QED BY <1>1, <1>2, <1>3, <1>4, <1>5, <1>6, <1>7, <1>8 DEF Stream

(* Taking the first frame of a wire moves every other one a place forward. *)
LEMMA TailOfWire ==
  ASSUME NEW x, NEW w \in Wire(x), w # <<>>
  PROVE  /\ Head(w) = w[1] /\ Head(w) \in Pieces(x) \cup Controls
         /\ Tail(w) \in Wire(x) /\ 1 \in 1 .. Len(w)
         /\ \A i \in 1 .. Len(Tail(w)) :
              i + 1 \in 1 .. Len(w) /\ i + 1 # 1 /\ Tail(w)[i] = w[i + 1]
<1> DEFINE F == Pieces(x) \cup Controls
<1>1. w \in Seq(F) BY DEF Wire
<1> HIDE DEF F
<1>n. PICK n \in Nat : n = Len(w) /\ n # 0 BY <1>1, EmptySeq
<1>2. /\ Head(w) = w[1] /\ Head(w) \in F /\ Tail(w) \in Seq(F) /\ Len(Tail(w)) = n - 1
      /\ \A i \in 1 .. n - 1 : Tail(w)[i] = w[i + 1]
  BY <1>1, <1>n, HeadTailProperties
<1>3. \A i \in 1 .. n - 1 : i + 1 \in 1 .. n /\ i + 1 # 1 OBVIOUS
<1>4. 1 \in 1 .. n BY <1>n
<1> QED BY <1>2, <1>3, <1>4, <1>n DEF Wire, F

(* A frame of the client is taken off the wire, but not handed on.         *)
LEMMA UpTaken ==
  ASSUME NEW x \in Streams, NEW up, NEW s, NEW c, NEW br, NEW tg, NEW dn, NEW us,
         Stream(x, up, s, c, br, tg, dn, us), s.phase = "open", us # <<>>,
         Head(us).type = "DATA" => ~s.upgraded,
         NEW s2, HandlerTypes(x, s2), s2.phase = "open",
         s2.upgraded => s.upgraded \/ Head(us).type = "UPGRADE",
         s2.read = s.read, s2.buffer = s.buffer, s2.rest = s.rest, s2.pump = s.pump
  PROVE  Stream(x, up, s2, c, br, tg, dn, Tail(us))
<1>t. us \in Wire(x) BY DEF Stream, Types
<1>u. /\ Head(us) = us[1] /\ Tail(us) \in Wire(x) /\ 1 \in 1 .. Len(us)
      /\ \A i \in 1 .. Len(Tail(us)) :
           i + 1 \in 1 .. Len(us) /\ i + 1 # 1 /\ Tail(us)[i] = us[i + 1]
  BY <1>t, TailOfWire
<1>n. \A i \in 1 .. Len(Tail(us)) : Tail(us)[i].type # "UPGRADE"
  BY <1>u DEF Stream, UpWire
<1>a. c.phase \notin {"none", "asking"} BY DEF Stream, Unanswered
<1>1. Types(x, s2, c, br, tg, dn, Tail(us)) BY <1>u DEF Stream, Types
<1>2. Idle(s2, c, dn) BY DEF Idle
<1>3. Unanswered(s2, c, br, tg, Tail(us)) BY <1>a DEF Stream, Unanswered
<1>4. DownWire(up, s2, c, dn) BY <1>a DEF Stream, DownWire
<1>5. UpWire(s2, Tail(us)) BY <1>n DEF UpWire
<1>6. Down(x, up, s2, c, tg, dn)
  <2>1. PICK b \in Nat : /\ Held(BrowserScript[x], s, b)
                         /\ Listens(up, c) /\ ~tg.closing =>
                              \E a \in Nat : /\ Reached(BrowserScript[x], tg, a)
                                             /\ Path(BrowserScript[x], a, c.early \o dn, b)
    BY DEF Stream, Down
  <2>2. Held(BrowserScript[x], s2, b) BY <2>1, HeldSame
  <2> QED BY <2>1, <2>2 DEF Down
<1>7. Up(x, s2, c, br, Tail(us))
  <2>1. PICK b \in Nat : /\ c.phase = "open" => Held(TargetScript[x], c, b)
                         /\ Begins(s, us) =>
                              \E a \in Nat : /\ Reached(TargetScript[x], br, a)
                                             /\ Path(TargetScript[x], a, us, b)
    BY DEF Stream, Up
  <2>2. ASSUME Begins(s2, Tail(us))
        PROVE  \E a \in Nat : /\ Reached(TargetScript[x], br, a)
                              /\ Path(TargetScript[x], a, Tail(us), b)
    <3>1. s2.upgraded
      <4>1. Tail(us) # <<>> => 1 \in 1 .. Len(Tail(us))
        <5>1. Tail(us) \in Seq(Pieces(x) \cup Controls) BY <1>u DEF Wire
        <5> HIDE DEF Pieces, Controls
        <5>2. Tail(us) # <<>> => Len(Tail(us)) # 0 /\ Len(Tail(us)) \in Nat BY <5>1, EmptySeq
        <5> QED BY <5>2
      <4> QED BY <1>n, <2>2, <4>1 DEF Begins
    <3>2. s.upgraded \/ Head(us).type = "UPGRADE" BY <3>1
    <3>3. Head(us).type # "DATA" BY <3>2
    <3>4. Begins(s, us) BY <1>u, <3>2 DEF Begins
    <3>5. PICK a \in Nat : /\ Reached(TargetScript[x], br, a)
                           /\ Path(TargetScript[x], a, us, b)
      BY <2>1, <3>4
    <3>6. us \in Seq(Pieces(x) \cup Controls) BY <1>t DEF Wire
    <3>7. PICK d \in Nat : /\ Moves(TargetScript[x], a, Head(us), d)
                           /\ Path(TargetScript[x], d, Tail(us), b)
      BY <3>5, <3>6, PathHead
    <3>8. d = a
      <4>1. \A i, u, v : Piece(i, u, v).type = "DATA" BY DEF Piece
      <4>2. \A i, u, v : Head(us) # Piece(i, u, v) BY <3>3, <4>1
      <4> QED BY <3>7, <4>2, Zenon DEF Moves
    <3> QED BY <3>5, <3>7, <3>8
  <2> QED BY <2>1, <2>2 DEF Up
<1>8. Pumps(x, s2)
  <2>1. Output(BrowserScript[x], s2) = Output(BrowserScript[x], s) BY HeldSame
  <2> QED BY <2>1 DEF Stream, Pumps
<1> QED BY <1>1, <1>2, <1>3, <1>4, <1>5, <1>6, <1>7, <1>8 DEF Stream

(* A piece is handed on to the browser.                                    *)
LEMMA UpData ==
  ASSUME NEW x \in Streams, NEW up, NEW s, NEW c, NEW br, NEW tg, NEW dn, NEW us,
         Stream(x, up, s, c, br, tg, dn, us), s.phase = "open", us # <<>>,
         Head(us).type = "DATA", s.upgraded,
         NEW s2, HandlerTypes(x, s2), s2.phase = "open", s2.upgraded,
         s2.read = s.read, s2.buffer = s.buffer, s2.rest = s.rest, s2.pump = s.pump
  PROVE  Stream(x, up, s2, c, Reassemble(TargetScript[x], br, Head(us)), tg, dn, Tail(us))
<1>0. /\ Len(TargetScript[x]) \in Nat
      /\ \A n \in 1 .. Len(TargetScript[x]) :
           TargetScript[x][n] = "close" => n = Len(TargetScript[x])
  BY ScriptsIn
<1>t. us \in Wire(x) /\ br \in Input BY DEF Stream, Types
<1>u. /\ Head(us) = us[1] /\ Tail(us) \in Wire(x) /\ 1 \in 1 .. Len(us)
      /\ Head(us) \in Pieces(x) \cup Controls
      /\ \A i \in 1 .. Len(Tail(us)) :
           i + 1 \in 1 .. Len(us) /\ i + 1 # 1 /\ Tail(us)[i] = us[i + 1]
  BY <1>t, TailOfWire
<1>p. Head(us) \in AnyPiece
  <2>1. Head(us) \notin Controls BY PiecesIncluded
  <2> QED BY <1>u, <2>1, PiecesIncluded
<1>n. \A i \in 1 .. Len(Tail(us)) : Tail(us)[i].type # "UPGRADE"
  BY <1>u DEF Stream, UpWire
<1>a. c.phase \notin {"none", "asking"} BY DEF Stream, Unanswered
<1>b. PICK b \in Nat : /\ c.phase = "open" => Held(TargetScript[x], c, b)
                       /\ \E a \in Nat : /\ Reached(TargetScript[x], br, a)
                                         /\ Path(TargetScript[x], a, us, b)
  <2>1. Begins(s, us) BY DEF Begins
  <2> QED BY <2>1 DEF Stream, Up
<1>r. PICK a \in Nat : Reached(TargetScript[x], br, a) /\ Path(TargetScript[x], a, us, b)
  BY <1>b
<1>d. PICK d \in Nat : /\ Moves(TargetScript[x], a, Head(us), d)
                       /\ Path(TargetScript[x], d, Tail(us), b)
  <2>1. us \in Seq(Pieces(x) \cup Controls) BY <1>t DEF Wire
  <2> QED BY <1>r, <2>1, PathHead
<1>c. ~br.closing
  <2> SUFFICES ASSUME br.closing PROVE FALSE OBVIOUS
  <2>1. Len(br.seen) = Len(TargetScript[x]) BY DEF Stream, Seen
  <2>2. PICK n \in 0 .. Len(TargetScript[x]) :
          br.seen = Upto(n) /\ (a = 2 * n \/ (n # Len(TargetScript[x]) /\ a = 2 * n + 1))
    BY <1>r DEF Reached
  <2>3. n \in Nat /\ Len(br.seen) = n BY <2>2, UptoIs
  <2>4. a = 2 * Len(TargetScript[x]) BY <2>1, <2>2, <2>3
  <2>5. d > a /\ d <= 2 * Len(TargetScript[x]) BY <1>0, <1>d, MovesOn
  <2> QED BY <1>0, <2>4, <2>5
<1> DEFINE br2 == Reassemble(TargetScript[x], br, Head(us))
<1>e. /\ br2 \in Input /\ Reached(TargetScript[x], br2, d)
      /\ br2.closing => \E n \in 1 .. Len(TargetScript[x]) :
                          TargetScript[x][n] = "close" /\ d = 2 * n
  BY <1>0, <1>t, <1>p, <1>r, <1>d, <1>c, Reassembled, Reaches
<1> HIDE DEF br2
<1>1. Types(x, s2, c, br2, tg, dn, Tail(us)) BY <1>u, <1>e DEF Stream, Types
<1>2. Idle(s2, c, dn) BY DEF Idle
<1>3. Unanswered(s2, c, br2, tg, Tail(us)) BY <1>a DEF Stream, Unanswered
<1>4. DownWire(up, s2, c, dn) BY <1>a DEF Stream, DownWire
<1>5. UpWire(s2, Tail(us)) BY <1>n DEF UpWire
<1>6. Down(x, up, s2, c, tg, dn)
  <2>1. PICK k \in Nat : /\ Held(BrowserScript[x], s, k)
                         /\ Listens(up, c) /\ ~tg.closing =>
                              \E i \in Nat : /\ Reached(BrowserScript[x], tg, i)
                                             /\ Path(BrowserScript[x], i, c.early \o dn, k)
    BY DEF Stream, Down
  <2>2. Held(BrowserScript[x], s2, k) BY <2>1, HeldSame
  <2> QED BY <2>1, <2>2 DEF Down
<1>7. Up(x, s2, c, br2, Tail(us)) BY <1>b, <1>d, <1>e DEF Up
<1>8. Pumps(x, s2)
  <2>1. Output(BrowserScript[x], s2) = Output(BrowserScript[x], s) BY HeldSame
  <2> QED BY <2>1 DEF Stream, Pumps
<1>9. Seen(x, br2, tg)
  <2>1. Whole(br2) BY <1>0, <1>e, ReachedWhole
  <2>2. ASSUME br2.closing PROVE Len(br2.seen) = Len(TargetScript[x])
    <3>1. d = 2 * Len(TargetScript[x]) BY <1>0, <1>e, <2>2
    <3>2. PICK n \in 0 .. Len(TargetScript[x]) :
            /\ br2.seen = Upto(n)
            /\ (d = 2 * n \/ (n # Len(TargetScript[x]) /\ d = 2 * n + 1))
      BY <1>e DEF Reached
    <3>3. n \in Nat /\ n = Len(TargetScript[x]) BY <1>0, <3>1, <3>2
    <3>4. Len(Upto(n)) = n BY <3>3, UptoIs
    <3> QED BY <3>2, <3>3, <3>4
  <2> QED BY <2>1, <2>2 DEF Stream, Seen
<1> QED BY <1>1, <1>2, <1>3, <1>4, <1>5, <1>6, <1>7, <1>8, <1>9 DEF Stream, br2

-----------------------------------------------------------------------------
(* What the proxy does to a stream.                                        *)
LEMMA UpSent ==
  ASSUME NEW x, NEW s, NEW us \in Wire(x), NEW q \in Wire(x), UpWire(s, us),
         s.phase = "open", \A i \in 1 .. Len(q) : q[i].type # "UPGRADE"
  PROVE  /\ us \o q \in Wire(x) /\ UpWire(s, us \o q)
         /\ Begins(s, us \o q) => Begins(s, us)
<1>1. /\ us \o q \in Wire(x)
      /\ us # <<>> => us \o q # <<>> /\ (us \o q)[1] = us[1]
      /\ \A i \in 1 .. Len(us \o q) :
           \/ i \in 1 .. Len(us) /\ (us \o q)[i] = us[i]
           \/ i - Len(us) \in 1 .. Len(q) /\ (us \o q)[i] = q[i - Len(us)] /\ i > Len(us)
  BY Appended
<1>2. UpWire(s, us \o q)
  <2> SUFFICES ASSUME NEW i \in 1 .. Len(us \o q), (us \o q)[i].type = "UPGRADE"
               PROVE  i = 1
    BY DEF UpWire
  <2>1. i \in 1 .. Len(us) /\ (us \o q)[i] = us[i] BY <1>1
  <2> QED BY <2>1 DEF UpWire
<1>3. ASSUME Begins(s, us \o q) PROVE Begins(s, us)
  <2>1. CASE s.upgraded BY <2>1 DEF Begins
  <2>2. CASE us \o q # <<>> /\ (us \o q)[1].type = "UPGRADE"
    <3> PICK w \in Wire(x) : w = us \o q BY <1>1
    <3>1. 1 \in 1 .. Len(w)
      <4> DEFINE F == Pieces(x) \cup Controls
      <4>1. w \in Seq(F) BY DEF Wire
      <4> HIDE DEF F
      <4>2. Len(w) \in Nat /\ Len(w) # 0 BY <2>2, <4>1, EmptySeq
      <4> QED BY <4>2
    <3>2. 1 \in 1 .. Len(us) /\ (us \o q)[1] = us[1] BY <1>1, <2>2, <3>1
    <3>3. us # <<>> BY <3>2
    <3> QED BY <2>2, <3>2, <3>3 DEF Begins
  <2> QED BY <1>3, <2>1, <2>2 DEF Begins
<1> QED BY <1>1, <1>2, <1>3

(* A final frame may travel on a wire and moves no reader. *)
LEMMA FinOnWire ==
  ASSUME NEW x \in Streams
  PROVE  /\ <<Control("FIN")>> \in Wire(x)
         /\ \A i \in 1 .. Len(<<Control("FIN")>>) : <<Control("FIN")>>[i].type # "UPGRADE"
         /\ \A S : \A b \in Nat : Path(S, b, <<Control("FIN")>>, b)
<1>1. Control("FIN") \in Pieces(x) \cup Controls /\ Control("FIN").type = "FIN"
  BY PiecesIncluded
<1> DEFINE q == <<Control("FIN")>>
<1>2. q \in Wire(x) /\ Len(q) = 1 /\ q[1] = Control("FIN") BY <1>1 DEF Wire
<1>3. ASSUME NEW S, NEW b \in Nat PROVE Path(S, b, q, b)
  <2>1. Moves(S, b, Control("FIN"), b) BY <1>1 DEF Moves
  <2> QED BY <2>1, PathOne
<1> HIDE DEF q
<1>4. \A i \in 1 .. Len(q) : i = 1 BY <1>2
<1>5. \A i \in 1 .. Len(q) : q[i].type # "UPGRADE" BY <1>1, <1>2, <1>4
<1> QED BY <1>2, <1>3, <1>5 DEF q

(* The stream is over at the proxy, or its session is.                     *)
Over(c, up2, c2) ==
  \/ c2 = c /\ ~up2
  \/ /\ c.phase # "none" /\ c2.phase \in {"done", "stuck"}
     /\ c2.early = <<>> /\ ~c2.finish

LastWord(s, c, us, us2) ==
  us2 = us \/ (s.phase = "open" /\ c.phase = "open" /\ us2 = us \o <<Control("FIN")>>)

(* A proxy stream that is over, with or without a last word to the server, keeps the
   stream invariant. *)
LEMMA ProxyGone ==
  ASSUME NEW x \in Streams, NEW up, NEW s, NEW c, NEW br, NEW tg, NEW dn, NEW us,
         Stream(x, up, s, c, br, tg, dn, us),
         NEW up2, NEW c2, ProxyTypes(x, c2), Over(c, up2, c2),
         NEW us2, LastWord(s, c, us, us2)
  PROVE  Stream(x, up2, s, c2, br, tg, <<>>, us2)
<1>o. \/ c2 = c /\ ~up2
      \/ /\ c.phase # "none" /\ c2.phase \in {"done", "stuck"}
         /\ c2.early = <<>> /\ ~c2.finish
  BY DEF Over
<1>z. us2 = us \/ (s.phase = "open" /\ c.phase = "open" /\ us2 = us \o <<Control("FIN")>>)
  BY DEF LastWord
<1>t. us \in Wire(x) BY DEF Stream, Types
<1> DEFINE q == <<Control("FIN")>>
<1>q. /\ q \in Wire(x) /\ \A i \in 1 .. Len(q) : q[i].type # "UPGRADE"
      /\ \A S : \A b \in Nat : Path(S, b, q, b)
  BY FinOnWire
<1>w. us2 = us \/ (s.phase = "open" /\ c.phase = "open" /\ us2 = us \o q) BY <1>z
<1> HIDE DEF q
<1>f. us2 \in Wire(x) /\ UpWire(s, us2) /\ (Begins(s, us2) => Begins(s, us))
  <2>1. UpWire(s, us) BY DEF Stream
  <2>2. CASE us2 = us BY <1>t, <2>1, <2>2
  <2>3. CASE s.phase = "open" /\ us2 = us \o q
    <3>1. /\ us \o q \in Wire(x) /\ UpWire(s, us \o q)
          /\ Begins(s, us \o q) => Begins(s, us)
      BY <1>t, <1>q, <2>1, <2>3, UpSent
    <3> QED BY <2>3, <3>1
  <2> QED BY <1>w, <2>2, <2>3
<1>l. ~Listens(up2, c2) BY <1>o DEF Listens
<1>1. Types(x, s, c2, br, tg, <<>>, us2)
  <2>1. <<>> \in Wire(x) BY DEF Wire
  <2> QED BY <1>f, <2>1 DEF Stream, Types
<1>2. Idle(s, c2, <<>>)
  <2>1. CASE c2 = c BY <2>1 DEF Stream, Idle
  <2>2. CASE c.phase # "none"
    <3>1. NewProxy.phase = "none" BY DEF NewProxy
    <3> QED BY <2>2, <3>1 DEF Stream, Idle
  <2> QED BY <1>o, <2>1, <2>2
<1>3. Unanswered(s, c2, br, tg, us2)
  <2>1. CASE c2 = c
    <3>1. CASE us2 = us BY <2>1, <3>1 DEF Stream, Unanswered
    <3>2. CASE c.phase = "open" BY <2>1, <3>2 DEF Stream, Unanswered
    <3> QED BY <1>w, <3>1, <3>2
  <2>2. CASE c2.phase \in {"done", "stuck"} /\ c2.early = <<>> /\ ~c2.finish
    BY <2>2 DEF Unanswered
  <2> QED BY <1>o, <2>1, <2>2
<1>4. DownWire(up2, s, c2, <<>>) BY <1>l DEF DownWire, Listens
<1>5. Down(x, up2, s, c2, tg, <<>>) BY <1>l DEF Stream, Down
<1>6. Up(x, s, c2, br, us2)
  <2>1. PICK b \in Nat : /\ c.phase = "open" => Held(TargetScript[x], c, b)
                         /\ s.phase = "open" /\ Begins(s, us) =>
                              \E a \in Nat : /\ Reached(TargetScript[x], br, a)
                                             /\ Path(TargetScript[x], a, us, b)
    BY DEF Stream, Up
  <2>2. ASSUME s.phase = "open", Begins(s, us2)
        PROVE  \E a \in Nat : /\ Reached(TargetScript[x], br, a)
                              /\ Path(TargetScript[x], a, us2, b)
    <3>1. PICK a \in Nat : /\ Reached(TargetScript[x], br, a)
                           /\ Path(TargetScript[x], a, us, b)
      BY <1>f, <2>1, <2>2
    <3>2. CASE us2 = us BY <3>1, <3>2
    <3>3. CASE us2 = us \o q
      <4>1. Path(TargetScript[x], b, q, b) BY <1>q
      <4>2. us \in Seq(Pieces(x) \cup Controls) /\ q \in Seq(Pieces(x) \cup Controls)
        BY <1>t, <1>q DEF Wire
      <4>3. Path(TargetScript[x], a, us \o q, b) BY <3>1, <4>1, <4>2, PathConcat
      <4> QED BY <3>1, <3>3, <4>3
    <3> QED BY <1>w, <3>2, <3>3
  <2>3. c2.phase = "open" => Held(TargetScript[x], c2, b) BY <1>o, <2>1
  <2> QED BY <2>2, <2>3 DEF Up
<1> QED BY <1>1, <1>2, <1>3, <1>4, <1>f, <1>5, <1>6 DEF Stream

(* A change of the proxy record that leaves what it holds alone keeps the stream
   invariant. *)
LEMMA ProxyAside ==
  ASSUME NEW x, NEW up, NEW s, NEW c, NEW br, NEW tg, NEW dn, NEW us,
         Stream(x, up, s, c, br, tg, dn, us), c.phase # "none",
         NEW c2, ProxyTypes(x, c2), c2.phase = c.phase, c2.early = c.early,
         c2.finish => c.phase = "open",
         c2.read = c.read, c2.buffer = c.buffer, c2.rest = c.rest
  PROVE  Stream(x, up, s, c2, br, tg, dn, us)
<1>1. Types(x, s, c2, br, tg, dn, us) BY DEF Stream, Types
<1>2. Idle(s, c2, dn)
  <2>1. NewProxy.phase = "none" BY DEF NewProxy
  <2> QED BY <2>1 DEF Stream, Idle
<1>3. Unanswered(s, c2, br, tg, us) BY DEF Stream, Unanswered
<1>4. DownWire(up, s, c2, dn) BY DEF Stream, DownWire, Listens
<1>5. Down(x, up, s, c2, tg, dn) BY DEF Stream, Down, Listens
<1>6. Up(x, s, c2, br, us)
  <2>1. \A b : Held(TargetScript[x], c, b) => Held(TargetScript[x], c2, b) BY HeldSame
  <2> QED BY <2>1 DEF Stream, Up
<1> QED BY <1>1, <1>2, <1>3, <1>4, <1>5, <1>6 DEF Stream

(* A frame of the router is taken off the wire.                            *)
LEMMA DownTaken ==
  ASSUME NEW x, NEW up, NEW s, NEW c, NEW dn \in Wire(x), DownWire(up, s, c, dn), dn # <<>>,
         NEW c2, Listens(up, c2), c2.phase # "none"
  PROVE  DownWire(up, s, c2, Tail(dn)) /\ Tail(dn) \in Wire(x)
<1>1. /\ Tail(dn) \in Wire(x)
      /\ \A i \in 1 .. Len(Tail(dn)) :
           i + 1 \in 1 .. Len(dn) /\ i + 1 # 1 /\ Tail(dn)[i] = dn[i + 1]
  BY TailOfWire
<1>2. ASSUME NEW i \in 1 .. Len(Tail(dn)) PROVE Tail(dn)[i].type # "UPGRADE"
  BY <1>1 DEF DownWire
<1> QED BY <1>1, <1>2 DEF DownWire

(* The client taking the upgrade off the wire keeps the stream invariant. *)
LEMMA Asks ==
  ASSUME NEW x \in Streams, NEW up, NEW s, NEW c, NEW br, NEW tg, NEW dn, NEW us,
         Stream(x, up, s, c, br, tg, dn, us), up, dn # <<>>, Head(dn).type = "UPGRADE",
         NEW c2, ProxyTypes(x, c2), c2 = [c EXCEPT !.phase = "asking"]
  PROVE  Stream(x, up, s, c2, br, tg, Tail(dn), us)
<1>t. dn \in Wire(x) BY DEF Stream, Types
<1>h. Head(dn) = dn[1] /\ 1 \in 1 .. Len(dn) BY <1>t, TailOfWire
<1>p. c.phase = "none" /\ c = NewProxy BY <1>h DEF Stream, DownWire, Unanswered
<1>s. s.phase # "idle" BY DEF Stream, Idle
<1>c. /\ c2.phase = "asking" /\ c2.early = <<>> /\ c2.early = c.early /\ ~c2.finish
      /\ c2.read = 0 /\ c2.buffer = <<>> /\ c2.rest = <<>>
  BY <1>p DEF NewProxy
<1>l. Listens(up, c) /\ Listens(up, c2) BY <1>p, <1>c DEF Listens
<1>d. DownWire(up, s, c2, Tail(dn)) /\ Tail(dn) \in Wire(x)
  <2>1. DownWire(up, s, c, dn) BY DEF Stream
  <2> QED BY <1>t, <1>c, <1>l, <2>1, DownTaken
<1>1. Types(x, s, c2, br, tg, Tail(dn), us) BY <1>d DEF Stream, Types
<1>2. Idle(s, c2, Tail(dn)) BY <1>s DEF Idle
<1>3. Unanswered(s, c2, br, tg, us)
  <2>1. tg = NewInput /\ br = NewInput /\ us = <<>> /\ ~s.upgraded
    BY <1>p DEF Stream, Unanswered
  <2> QED BY <1>c, <2>1 DEF Unanswered
<1>4. Down(x, up, s, c2, tg, Tail(dn))
  <2>1. PICK b \in Nat : /\ s.phase = "open" => Held(BrowserScript[x], s, b)
                         /\ ~tg.closing =>
                              \E a \in Nat : /\ Reached(BrowserScript[x], tg, a)
                                             /\ Path(BrowserScript[x], a, c.early \o dn, b)
    BY <1>l DEF Stream, Down
  <2>2. ASSUME ~tg.closing
        PROVE  \E a \in Nat : /\ Reached(BrowserScript[x], tg, a)
                              /\ Path(BrowserScript[x], a, c2.early \o Tail(dn), b)
    <3>1. PICK a \in Nat : /\ Reached(BrowserScript[x], tg, a)
                           /\ Path(BrowserScript[x], a, c.early \o dn, b)
      BY <2>1, <2>2
    <3>2. dn \in Seq(Pieces(x) \cup Controls) /\ Tail(dn) \in Seq(Pieces(x) \cup Controls)
      BY <1>t, <1>d DEF Wire
    <3>3. <<>> \o dn = dn /\ <<>> \o Tail(dn) = Tail(dn) BY <3>2, ConcatEmptySeq
    <3>4. Path(BrowserScript[x], a, dn, b) BY <1>c, <3>1, <3>3
    <3>5. PICK d \in Nat : /\ Moves(BrowserScript[x], a, Head(dn), d)
                           /\ Path(BrowserScript[x], d, Tail(dn), b)
      BY <3>2, <3>4, PathHead
    <3>6. d = a
      <4>1. \A i, u, v : Piece(i, u, v).type = "DATA" BY DEF Piece
      <4>2. \A i, u, v : Head(dn) # Piece(i, u, v) BY <4>1
      <4> QED BY <3>5, <4>2, Zenon DEF Moves
    <3> QED BY <1>c, <3>1, <3>3, <3>5, <3>6
  <2> QED BY <2>1, <2>2 DEF Down
<1>5. Up(x, s, c2, br, us)
  <2>1. c2.phase # "open" /\ c.phase # "open" BY <1>c, <1>p
  <2> QED BY <2>1 DEF Stream, Up
<1> QED BY <1>1, <1>2, <1>3, <1>d, <1>4, <1>5 DEF Stream

(* Data that comes before the target has answered is kept in order. *)
LEMMA Early ==
  ASSUME NEW x \in Streams, NEW up, NEW s, NEW c, NEW br, NEW tg, NEW dn, NEW us,
         Stream(x, up, s, c, br, tg, dn, us), up, dn # <<>>, Head(dn).type = "DATA",
         c.phase = "asking",
         NEW c2, ProxyTypes(x, c2), c2 = [c EXCEPT !.early = Append(@, Head(dn))]
  PROVE  Stream(x, up, s, c2, br, tg, Tail(dn), us)
<1>t. /\ dn \in Wire(x) /\ c.early \in Seq(Pieces(x))
      /\ c \in [phase : {"none", "asking", "open", "stuck", "done"},
            early : Seq(Pieces(x)), full : BOOLEAN, timer : BOOLEAN,
            paused : BOOLEAN, read : Nat, buffer : Seq(Nat), rest : Seq(Pieces(x)),
            blocked : BOOLEAN, finish : BOOLEAN]
  BY DEF Stream, Types, ProxyTypes
<1>h. Head(dn) = dn[1] /\ 1 \in 1 .. Len(dn) /\ Head(dn) \in Pieces(x) \cup Controls
  BY <1>t, TailOfWire
<1>p. Head(dn) \in Pieces(x) BY <1>h, PiecesIncluded
<1>s. s.phase # "idle" BY DEF Stream, Idle
<1>c. /\ c2.phase = "asking" /\ c2.early = Append(c.early, Head(dn)) /\ c2.finish = c.finish
      /\ c2.read = c.read /\ c2.buffer = c.buffer /\ c2.rest = c.rest
  BY <1>t
<1>l. Listens(up, c) /\ Listens(up, c2) BY <1>c DEF Listens
<1>d. DownWire(up, s, c2, Tail(dn)) /\ Tail(dn) \in Wire(x)
  <2>1. DownWire(up, s, c, dn) BY DEF Stream
  <2> QED BY <1>t, <1>c, <1>l, <2>1, DownTaken
<1>1. Types(x, s, c2, br, tg, Tail(dn), us) BY <1>d DEF Stream, Types
<1>2. Idle(s, c2, Tail(dn)) BY <1>s DEF Idle
<1>3. Unanswered(s, c2, br, tg, us) BY <1>c DEF Stream, Unanswered
<1>4. Down(x, up, s, c2, tg, Tail(dn))
  <2>1. PICK b \in Nat : /\ s.phase = "open" => Held(BrowserScript[x], s, b)
                         /\ ~tg.closing =>
                              \E a \in Nat : /\ Reached(BrowserScript[x], tg, a)
                                             /\ Path(BrowserScript[x], a, c.early \o dn, b)
    BY <1>l DEF Stream, Down
  <2>2. ASSUME ~tg.closing
        PROVE  \E a \in Nat : /\ Reached(BrowserScript[x], tg, a)
                              /\ Path(BrowserScript[x], a, c2.early \o Tail(dn), b)
    <3>1. PICK a \in Nat : /\ Reached(BrowserScript[x], tg, a)
                           /\ Path(BrowserScript[x], a, c.early \o dn, b)
      BY <2>1, <2>2
    <3> DEFINE F == Pieces(x) \cup Controls
    <3>2. dn \in Seq(F) /\ Tail(dn) \in Seq(F) /\ c.early \in Seq(F) /\ Head(dn) \in F
      BY <1>t, <1>d, <1>p DEF Wire
    <3> HIDE DEF F
    <3>3. PICK m \in Nat : /\ Path(BrowserScript[x], a, c.early, m)
                           /\ Path(BrowserScript[x], m, dn, b)
      BY <3>1, <3>2, PathSplit
    <3>4. PICK d \in Nat : /\ Moves(BrowserScript[x], m, Head(dn), d)
                           /\ Path(BrowserScript[x], d, Tail(dn), b)
      BY <3>2, <3>3, PathHead
    <3>5. Path(BrowserScript[x], m, <<Head(dn)>>, d) BY <3>4, PathOne
    <3>6. <<Head(dn)>> \in Seq(F) BY <3>2
    <3>7. Path(BrowserScript[x], a, c.early \o <<Head(dn)>>, d)
      BY <3>2, <3>3, <3>5, <3>6, PathConcat
    <3>8. c2.early = c.early \o <<Head(dn)>> /\ c.early \o <<Head(dn)>> \in Seq(F)
      <4>1. Append(c.early, Head(dn)) = c.early \o <<Head(dn)>> BY <3>2, AppendIsConcat
      <4>2. c.early \o <<Head(dn)>> \in Seq(F) BY <3>2, <3>6, ConcatProperties
      <4> QED BY <1>c, <4>1, <4>2
    <3>9. Path(BrowserScript[x], a, c2.early \o Tail(dn), b)
      BY <3>2, <3>4, <3>7, <3>8, PathConcat
    <3> QED BY <3>1, <3>9
  <2> QED BY <2>1, <2>2 DEF Down
<1>5. Up(x, s, c2, br, us)
  <2>1. c2.phase # "open" /\ c.phase # "open" BY <1>c
  <2> QED BY <2>1 DEF Stream, Up
<1> QED BY <1>1, <1>2, <1>3, <1>d, <1>4, <1>5 DEF Stream

(* What the target is given: whole frames, in the order of the script.     *)
LEMMA Given ==
  ASSUME NEW x \in Streams, NEW tg \in Input, Whole(tg), NEW q \in Seq(Pieces(x)),
         NEW a, NEW c,
         ~tg.closing => Reached(BrowserScript[x], tg, a) /\ Path(BrowserScript[x], a, q, c),
         NEW tg2, tg2 = Delivered(BrowserScript[x], tg, q)
  PROVE  /\ tg2 \in Input /\ Whole(tg2)
         /\ ~tg2.closing => ~tg.closing /\ Reached(BrowserScript[x], tg2, c)
<1>0. Len(BrowserScript[x]) \in Nat BY ScriptsIn
<1>q. q \in Seq(AnyPiece) BY PiecesIncluded
<1>1. tg2 \in Input BY <1>q, DeliveredIn
<1>2. CASE tg.closing
  <2>1. tg2 = tg BY <1>q, <1>2, DeliveredClosed
  <2> QED BY <1>1, <1>2, <2>1
<1>3. CASE ~tg.closing
  <2>1. PICK d \in Nat : /\ Reached(BrowserScript[x], tg2, d)
                         /\ ~tg2.closing => d = c
    BY <1>0, <1>q, <1>3, DeliveredReaches
  <2>2. Whole(tg2) BY <1>0, <2>1, ReachedWhole
  <2> QED BY <1>1, <1>3, <2>1, <2>2
<1> QED BY <1>2, <1>3

(* The client passing one data frame on to the target keeps the stream invariant. *)
LEMMA DeliveredOne ==
  ASSUME NEW x \in Streams, NEW up, NEW s, NEW c, NEW br, NEW tg, NEW dn, NEW us,
         Stream(x, up, s, c, br, tg, dn, us), up, dn # <<>>, Head(dn).type = "DATA",
         c.phase # "asking",
         NEW c2, ProxyTypes(x, c2), c2.phase = c.phase, c2.early = c.early,
         c2.finish => c.finish,
         c2.read = c.read, c2.buffer = c.buffer, c2.rest = c.rest,
         NEW tg2, tg2 = Delivered(BrowserScript[x], tg, <<Head(dn)>>)
  PROVE  Stream(x, up, s, c2, br, tg2, Tail(dn), us)
<1>t. /\ dn \in Wire(x) /\ c.early \in Seq(Pieces(x)) /\ tg \in Input
  BY DEF Stream, Types, ProxyTypes
<1>h. Head(dn) = dn[1] /\ 1 \in 1 .. Len(dn) /\ Head(dn) \in Pieces(x) \cup Controls
  BY <1>t, TailOfWire
<1>p. Head(dn) \in Pieces(x) BY <1>h, PiecesIncluded
<1>l. Listens(up, c) BY DEF Stream, DownWire
<1>o. c.phase = "open" /\ c2.phase = "open" /\ c.early = <<>>
  <2>1. c.phase # "none" BY <1>h DEF Stream, DownWire
  <2>2. c.phase = "open" BY <1>l, <2>1 DEF Listens
  <2> QED BY <2>2 DEF Stream, Unanswered
<1>s. s.phase # "idle" BY DEF Stream, Idle
<1>m. Listens(up, c2) BY <1>o DEF Listens
<1>d. DownWire(up, s, c2, Tail(dn)) /\ Tail(dn) \in Wire(x)
  <2>1. DownWire(up, s, c, dn) BY DEF Stream
  <2> QED BY <1>t, <1>o, <1>m, <2>1, DownTaken
<1>3. Unanswered(s, c2, br, tg2, us) BY <1>o DEF Stream, Unanswered
<1>b. PICK b \in Nat : /\ s.phase = "open" => Held(BrowserScript[x], s, b)
                       /\ ~tg.closing =>
                            \E a \in Nat : /\ Reached(BrowserScript[x], tg, a)
                                           /\ Path(BrowserScript[x], a, c.early \o dn, b)
  BY <1>l DEF Stream, Down
<1>a. PICK a, e : ~tg.closing => /\ a \in Nat /\ e \in Nat
                                 /\ Reached(BrowserScript[x], tg, a)
                                 /\ Path(BrowserScript[x], a, <<Head(dn)>>, e)
                                 /\ Path(BrowserScript[x], e, Tail(dn), b)
  <2>1. CASE tg.closing BY <2>1
  <2>2. CASE ~tg.closing
    <3>1. PICK a \in Nat : /\ Reached(BrowserScript[x], tg, a)
                           /\ Path(BrowserScript[x], a, c.early \o dn, b)
      BY <1>b, <2>2
    <3>2. dn \in Seq(Pieces(x) \cup Controls) BY <1>t DEF Wire
    <3>3. <<>> \o dn = dn BY <3>2, ConcatEmptySeq
    <3>4. Path(BrowserScript[x], a, dn, b) BY <1>o, <3>1, <3>3
    <3>5. PICK e \in Nat : /\ Moves(BrowserScript[x], a, Head(dn), e)
                           /\ Path(BrowserScript[x], e, Tail(dn), b)
      BY <3>2, <3>4, PathHead
    <3>6. Path(BrowserScript[x], a, <<Head(dn)>>, e) BY <3>5, PathOne
    <3> QED BY <3>1, <3>5, <3>6
  <2> QED BY <2>1, <2>2
<1>w. Whole(tg) BY DEF Stream, Seen
<1>q. <<Head(dn)>> \in Seq(Pieces(x)) BY <1>p
<1>g. /\ tg2 \in Input /\ Whole(tg2)
      /\ ~tg2.closing => ~tg.closing /\ Reached(BrowserScript[x], tg2, e)
  <2>1. ~tg.closing => /\ Reached(BrowserScript[x], tg, a)
                       /\ Path(BrowserScript[x], a, <<Head(dn)>>, e)
    BY <1>a
  <2>2. tg2 = Delivered(BrowserScript[x], tg, <<Head(dn)>>) OBVIOUS
  <2>3. PICK q : q = <<Head(dn)>> OBVIOUS
  <2>4. q \in Seq(Pieces(x)) /\ tg2 = Delivered(BrowserScript[x], tg, q) BY <1>q, <2>2, <2>3
  <2>5. ~tg.closing => Reached(BrowserScript[x], tg, a) /\ Path(BrowserScript[x], a, q, e)
    BY <2>1, <2>3
  <2> QED BY <1>t, <1>w, <2>4, <2>5, Given
<1>1. Types(x, s, c2, br, tg2, Tail(dn), us) BY <1>d, <1>g DEF Stream, Types
<1>2. Idle(s, c2, Tail(dn)) BY <1>s DEF Idle
<1>4. Down(x, up, s, c2, tg2, Tail(dn))
  <2>1. ASSUME ~tg2.closing
        PROVE  \E i \in Nat : /\ Reached(BrowserScript[x], tg2, i)
                              /\ Path(BrowserScript[x], i, c2.early \o Tail(dn), b)
    <3>1. /\ Reached(BrowserScript[x], tg2, e) /\ e \in Nat
          /\ Path(BrowserScript[x], e, Tail(dn), b)
      BY <1>a, <1>g, <2>1
    <3>2. Tail(dn) \in Seq(Pieces(x) \cup Controls) BY <1>d DEF Wire
    <3>3. c2.early \o Tail(dn) = Tail(dn) BY <1>o, <3>2, ConcatEmptySeq
    <3> QED BY <3>1, <3>3
  <2> QED BY <1>b, <2>1 DEF Down
<1>5. Up(x, s, c2, br, us)
  <2>1. \A i : Held(TargetScript[x], c, i) => Held(TargetScript[x], c2, i) BY HeldSame
  <2> QED BY <2>1 DEF Stream, Up
<1>6. Seen(x, br, tg2) BY <1>g DEF Stream, Seen
<1> QED BY <1>1, <1>2, <1>3, <1>d, <1>4, <1>5, <1>6 DEF Stream

(* A frame that comes after the target closed may be thrown away. *)
LEMMA DownIgnored ==
  ASSUME NEW x \in Streams, NEW up, NEW s, NEW c, NEW br, NEW tg, NEW dn, NEW us,
         Stream(x, up, s, c, br, tg, dn, us), up, dn # <<>>, Head(dn).type # "UPGRADE",
         tg.closing
  PROVE  Stream(x, up, s, c, br, tg, Tail(dn), us)
<1>t. dn \in Wire(x) BY DEF Stream, Types
<1>h. Head(dn) = dn[1] BY <1>t, TailOfWire
<1>l. Listens(up, c) /\ c.phase # "none" BY <1>h DEF Stream, DownWire
<1>s. s.phase # "idle" BY DEF Stream, Idle
<1>d. DownWire(up, s, c, Tail(dn)) /\ Tail(dn) \in Wire(x)
  <2>1. DownWire(up, s, c, dn) BY DEF Stream
  <2> QED BY <1>t, <1>l, <2>1, DownTaken
<1>1. Types(x, s, c, br, tg, Tail(dn), us) BY <1>d DEF Stream, Types
<1>2. Idle(s, c, Tail(dn)) BY <1>s DEF Idle
<1>4. Down(x, up, s, c, tg, Tail(dn)) BY DEF Stream, Down
<1> QED BY <1>1, <1>2, <1>d, <1>4 DEF Stream

(* The target's frames: the proxy reads up to frame n and sends k pieces,  *)
(* those of q; c2 is what it holds then.                                   *)
Advance(x, c, q, c2) ==
  \E n \in c.read .. Len(TargetScript[x]) : \E out :
    /\ out.read = n /\ out.rest = c.rest
    /\ out.buffer = c.buffer \o SubSeq(Upto(n), c.read + 1, n)
    /\ \E k \in 0 .. Len(Output(TargetScript[x], out)) :
         /\ q = SubSeq(Output(TargetScript[x], out), 1, k) /\ c2.read = n
         /\ c2.rest = SentRest(TargetScript[x], out, k)
         /\ c2.buffer = SentBuffer(TargetScript[x], out, k)

(* The proxy sending some of what it holds moves along the path of the target's script. *)
LEMMA Advances ==
  ASSUME NEW x \in Streams, NEW c, NEW b \in Nat, Held(TargetScript[x], c, b), NEW q, NEW c2,
         Advance(x, c, q, c2)
  PROVE  /\ q \in Wire(x) /\ \A i \in 1 .. Len(q) : q[i].type # "UPGRADE"
         /\ \E d \in Nat : Path(TargetScript[x], b, q, d) /\ Held(TargetScript[x], c2, d)
<1>m. PICK n \in c.read .. Len(TargetScript[x]) : \E out :
        /\ out.read = n /\ out.rest = c.rest
        /\ out.buffer = c.buffer \o SubSeq(Upto(n), c.read + 1, n)
        /\ \E k \in 0 .. Len(Output(TargetScript[x], out)) :
             /\ q = SubSeq(Output(TargetScript[x], out), 1, k) /\ c2.read = n
             /\ c2.rest = SentRest(TargetScript[x], out, k)
             /\ c2.buffer = SentBuffer(TargetScript[x], out, k)
  BY Zenon DEF Advance
<1>n. PICK out :
        /\ out.read = n /\ out.rest = c.rest
        /\ out.buffer = c.buffer \o SubSeq(Upto(n), c.read + 1, n)
        /\ \E k \in 0 .. Len(Output(TargetScript[x], out)) :
             /\ q = SubSeq(Output(TargetScript[x], out), 1, k) /\ c2.read = n
             /\ c2.rest = SentRest(TargetScript[x], out, k)
             /\ c2.buffer = SentBuffer(TargetScript[x], out, k)
  BY <1>m
<1>k. PICK k \in 0 .. Len(Output(TargetScript[x], out)) :
        /\ q = SubSeq(Output(TargetScript[x], out), 1, k) /\ c2.read = n
        /\ c2.rest = SentRest(TargetScript[x], out, k)
        /\ c2.buffer = SentBuffer(TargetScript[x], out, k)
  BY <1>n
<1>0. Len(TargetScript[x]) \in Nat BY ScriptsIn
<1>1. Held(TargetScript[x], out, b) BY <1>0, <1>n, ReadHeld
<1>2. q \in Seq(PiecesIn(TargetScript[x])) BY <1>0, <1>1, <1>n, <1>k, SentHeld
<1>3. q \in Wire(x) /\ \A i \in 1 .. Len(q) : q[i].type # "UPGRADE" BY <1>2, PiecesOnWire
<1>4. PICK d \in Nat :
        /\ Path(TargetScript[x], b, q, d)
        /\ Holds(TargetScript[x], out.read, SentBuffer(TargetScript[x], out, k),
                 SentRest(TargetScript[x], out, k), d)
  BY <1>0, <1>1, <1>n, <1>k, SentHeld
<1>5. SentBuffer(TargetScript[x], out, k) \in Seq(Nat) BY <1>0, <1>1, <1>n, <1>k, SentHeld
<1>6. n \in 0 .. Len(TargetScript[x]) BY <1>1, <1>n DEF Held
<1>7. Held(TargetScript[x], c2, d) BY <1>4, <1>5, <1>6, <1>n, <1>k DEF Held
<1> QED BY <1>3, <1>4, <1>7

(* What the proxy sends when it is open, having kept what c2 holds.        *)
LEMMA ProxySends ==
  ASSUME NEW x \in Streams, NEW up, NEW s, NEW c, NEW br, NEW tg, NEW dn, NEW us,
         Stream(x, up, s, c, br, tg, dn, us), c.phase = "open",
         NEW c2, ProxyTypes(x, c2), c2.phase = "open", c2.early = c.early,
         NEW q \in Wire(x), \A i \in 1 .. Len(q) : q[i].type # "UPGRADE",
         \A b \in Nat : Held(TargetScript[x], c, b) =>
           \E d \in Nat : Path(TargetScript[x], b, q, d) /\ Held(TargetScript[x], c2, d),
         NEW us2, us2 = IF s.phase = "open" THEN us \o q ELSE us,
         NEW tg2, tg2 \in Input, tg2.seen = tg.seen, ~tg2.closing => tg2 = tg
  PROVE  Stream(x, up, s, c2, br, tg2, dn, us2)
<1>t. us \in Wire(x) /\ c.early = <<>> BY DEF Stream, Types, Unanswered
<1>u. us2 \in Wire(x) /\ UpWire(s, us2)
  <2>1. UpWire(s, us) BY DEF Stream
  <2>2. CASE s.phase = "open"
    <3>1. us \o q \in Wire(x) /\ UpWire(s, us \o q) BY <1>t, <2>1, <2>2, UpSent
    <3> QED BY <2>2, <3>1
  <2>3. CASE s.phase # "open" BY <1>t, <2>1, <2>3
  <2> QED BY <2>2, <2>3
<1>1. Types(x, s, c2, br, tg2, dn, us2) BY <1>u DEF Stream, Types
<1>2. Idle(s, c2, dn)
  <2>1. NewProxy.phase = "none" BY DEF NewProxy
  <2> QED BY <2>1 DEF Stream, Idle
<1>3. Unanswered(s, c2, br, tg2, us2) BY <1>t DEF Unanswered
<1>4. DownWire(up, s, c2, dn) BY DEF Stream, DownWire, Listens
<1>5. Down(x, up, s, c2, tg2, dn)
  <2>1. Listens(up, c2) <=> Listens(up, c) BY DEF Listens
  <2>2. PICK b \in Nat : /\ s.phase = "open" => Held(BrowserScript[x], s, b)
                         /\ Listens(up, c) /\ ~tg.closing =>
                              \E a \in Nat : /\ Reached(BrowserScript[x], tg, a)
                                             /\ Path(BrowserScript[x], a, c.early \o dn, b)
    BY DEF Stream, Down
  <2>3. ASSUME Listens(up, c2), ~tg2.closing
        PROVE  \E a \in Nat : /\ Reached(BrowserScript[x], tg2, a)
                              /\ Path(BrowserScript[x], a, c2.early \o dn, b)
    BY <2>1, <2>2, <2>3
  <2> QED BY <2>2, <2>3 DEF Down
<1>6. Up(x, s, c2, br, us2)
  <2>1. PICK b \in Nat : /\ Held(TargetScript[x], c, b)
                         /\ s.phase = "open" /\ Begins(s, us) =>
                              \E a \in Nat : /\ Reached(TargetScript[x], br, a)
                                             /\ Path(TargetScript[x], a, us, b)
    BY DEF Stream, Up
  <2>2. PICK d \in Nat : Path(TargetScript[x], b, q, d) /\ Held(TargetScript[x], c2, d)
    BY <2>1
  <2>3. ASSUME s.phase = "open", Begins(s, us2)
        PROVE  \E a \in Nat : /\ Reached(TargetScript[x], br, a)
                              /\ Path(TargetScript[x], a, us2, d)
    <3>0. us2 = us \o q BY <2>3
    <3>1. Begins(s, us)
      <4>1. UpWire(s, us) BY DEF Stream
      <4>2. Begins(s, us \o q) => Begins(s, us) BY <1>t, <2>3, <4>1, UpSent
      <4> QED BY <2>3, <3>0, <4>2
    <3>2. PICK a \in Nat : /\ Reached(TargetScript[x], br, a)
                           /\ Path(TargetScript[x], a, us, b)
      BY <2>1, <2>3, <3>1
    <3>3. us \in Seq(Pieces(x) \cup Controls) /\ q \in Seq(Pieces(x) \cup Controls)
      BY <1>t DEF Wire
    <3>4. Path(TargetScript[x], a, us \o q, d) BY <2>2, <3>2, <3>3, PathConcat
    <3> QED BY <3>0, <3>2, <3>4
  <2> QED BY <2>2, <2>3 DEF Up
<1>7. Seen(x, br, tg2) BY DEF Stream, Seen, Whole
<1> QED BY <1>1, <1>2, <1>3, <1>4, <1>5, <1>6, <1>7, <1>u DEF Stream

(* The proxy reading and sending data of the target keeps the stream invariant. *)
LEMMA TargetRead ==
  ASSUME NEW x \in Streams, NEW up, NEW s, NEW c, NEW br, NEW tg, NEW dn, NEW us,
         Stream(x, up, s, c, br, tg, dn, us), c.phase = "open",
         NEW q, NEW c2, Advance(x, c, q, c2),
         ProxyTypes(x, c2), c2.phase = "open", c2.early = c.early,
         NEW us2, us2 = IF s.phase = "open" THEN us \o q ELSE us,
         NEW tg2, tg2 \in Input, tg2.seen = tg.seen, ~tg2.closing => tg2 = tg
  PROVE  Stream(x, up, s, c2, br, tg2, dn, us2)
<1>h. PICK h \in Nat : Held(TargetScript[x], c, h) BY DEF Stream, Up
<1>1. q \in Wire(x) /\ \A i \in 1 .. Len(q) : q[i].type # "UPGRADE"
  BY <1>h, Advances
<1>2. ASSUME NEW b \in Nat, Held(TargetScript[x], c, b)
      PROVE  \E d \in Nat : Path(TargetScript[x], b, q, d) /\ Held(TargetScript[x], c2, d)
  BY <1>2, Advances
<1> QED BY <1>1, <1>2, ProxySends

(* The rest of a large frame is sent.                                      *)
LEMMA Drained ==
  ASSUME NEW x \in Streams, NEW up, NEW s, NEW c, NEW br, NEW tg, NEW dn, NEW us,
         Stream(x, up, s, c, br, tg, dn, us), c.phase = "open",
         NEW c2, ProxyTypes(x, c2), c2.phase = "open", c2.early = c.early,
         c2.read = c.read, c2.rest = <<>>, c2.buffer = c.buffer,
         NEW us2, us2 = IF s.phase = "open" THEN us \o c.rest ELSE us
  PROVE  Stream(x, up, s, c2, br, tg, dn, us2)
<1>0. Len(TargetScript[x]) \in Nat BY ScriptsIn
<1>h. PICK h \in Nat : Held(TargetScript[x], c, h) BY DEF Stream, Up
<1>r. c.rest \in Seq(PiecesIn(TargetScript[x])) BY <1>0, <1>h, HeldPath
<1>1. c.rest \in Wire(x) /\ \A i \in 1 .. Len(c.rest) : c.rest[i].type # "UPGRADE"
  BY <1>r, PiecesOnWire
<1>2. ASSUME NEW b \in Nat, Held(TargetScript[x], c, b)
      PROVE  \E d \in Nat : Path(TargetScript[x], b, c.rest, d) /\ Held(TargetScript[x], c2, d)
  <2> DEFINE T == TargetScript[x]
  <2>1. /\ c.read \in 0 .. Len(T) /\ c.buffer \in Seq(Nat)
        /\ Holds(T, c.read, c.buffer, c.rest, b)
    BY <1>2 DEF Held
  <2>2. PICK n \in 0 .. c.read :
          /\ Len(c.buffer) = c.read - n /\ \A i \in 1 .. Len(c.buffer) : c.buffer[i] = n + i
          /\ \/ c.rest = <<>> /\ b = 2 * n
             \/ (n # 0 /\ T[n] = "large" /\ c.rest = <<Piece(n, FALSE, TRUE)>> /\ b = 2 * n - 1)
    BY <2>1, Zenon DEF Holds
  <2>3. n \in Nat /\ n \in 0 .. Len(T) /\ 2 * n \in Nat BY <1>0, <2>1
  <2>4. Holds(T, c.read, c.buffer, <<>>, 2 * n) BY <2>2 DEF Holds
  <2>5. Held(T, c2, 2 * n) BY <2>1, <2>4 DEF Held
  <2>6. CASE c.rest = <<>> /\ b = 2 * n
    <3>1. Path(T, b, <<>>, b) BY PathEmpty
    <3> QED BY <2>3, <2>5, <2>6, <3>1
  <2>7. CASE n # 0 /\ T[n] = "large" /\ c.rest = <<Piece(n, FALSE, TRUE)>> /\ b = 2 * n - 1
    <3>1. n \in 1 .. Len(T) BY <2>3, <2>7
    <3>2. Moves(T, b, Piece(n, FALSE, TRUE), 2 * n) BY <2>7, <3>1 DEF Moves
    <3>3. Path(T, b, <<Piece(n, FALSE, TRUE)>>, 2 * n) BY <2>3, <3>2, PathOne
    <3> QED BY <2>3, <2>5, <2>7, <3>3
  <2> QED BY <2>2, <2>6, <2>7
<1>3. tg \in Input BY DEF Stream, Types
<1> QED BY <1>1, <1>2, <1>3, ProxySends

(* An upgrade goes before the data on a wire and moves no reader. *)
LEMMA UpgradeOnWire ==
  ASSUME NEW x \in Streams, NEW q \in Wire(x), \A i \in 1 .. Len(q) : q[i].type # "UPGRADE"
  PROVE  /\ <<Control("UPGRADE")>> \o q \in Wire(x)
         /\ \A i \in 1 .. Len(<<Control("UPGRADE")>> \o q) :
              (<<Control("UPGRADE")>> \o q)[i].type = "UPGRADE" => i = 1
         /\ \A S : \A b \in Nat : \A d : Path(S, b, q, d) =>
              Path(S, b, <<Control("UPGRADE")>> \o q, d)
<1>1. Control("UPGRADE") \in Pieces(x) \cup Controls /\ Control("UPGRADE").type = "UPGRADE"
  BY PiecesIncluded
<1> PICK w : w = <<Control("UPGRADE")>> OBVIOUS
<1>2. w \in Wire(x) /\ Len(w) = 1 BY <1>1 DEF Wire
<1>3. ASSUME NEW S, NEW b \in Nat, NEW d, Path(S, b, q, d) PROVE Path(S, b, w \o q, d)
  <2>1. Moves(S, b, Control("UPGRADE"), b) BY <1>1 DEF Moves
  <2>2. Path(S, b, w, b) BY <2>1, PathOne
  <2>3. w \in Seq(Pieces(x) \cup Controls) /\ q \in Seq(Pieces(x) \cup Controls)
    BY <1>2 DEF Wire
  <2> QED BY <1>3, <2>2, <2>3, PathConcat
<1>4. /\ w \o q \in Wire(x)
      /\ \A i \in 1 .. Len(w \o q) :
           \/ i \in 1 .. Len(w) /\ (w \o q)[i] = w[i]
           \/ i - Len(w) \in 1 .. Len(q) /\ (w \o q)[i] = q[i - Len(w)] /\ i > Len(w)
  BY <1>2, Appended
<1>5. ASSUME NEW i \in 1 .. Len(w \o q), (w \o q)[i].type = "UPGRADE" PROVE i = 1
  <2>1. i \in 1 .. Len(w) BY <1>4, <1>5
  <2> QED BY <1>2, <2>1
<1> QED BY <1>3, <1>4, <1>5

(* The target accepts: UPGRADE, what has come with it, and what the        *)
(* browser has sent meanwhile.                                             *)
LEMMA Upgrades ==
  ASSUME NEW x \in Streams, NEW up, NEW s, NEW c, NEW br, NEW tg, NEW dn, NEW us,
         Stream(x, up, s, c, br, tg, dn, us), c.phase = "asking", up,
         NEW c1, c1.read = c.read, c1.buffer = c.buffer, c1.rest = c.rest,
         NEW q, NEW c2, Advance(x, c1, q, c2),
         ProxyTypes(x, c2), c2.phase = "open", c2.early = <<>>,
         NEW us2, us2 = IF s.phase = "open" THEN us \o (<<Control("UPGRADE")>> \o q) ELSE us,
         NEW tg1, tg1 \in Input, tg1.seen = tg.seen, ~tg1.closing => tg1 = tg,
         NEW tg2, tg2 = Delivered(BrowserScript[x], tg1, c.early)
  PROVE  Stream(x, up, s, c2, br, tg2, dn, us2)
<1>0. Len(TargetScript[x]) \in Nat /\ Len(BrowserScript[x]) \in Nat BY ScriptsIn
<1>t. dn \in Wire(x) /\ c.early \in Seq(Pieces(x)) BY DEF Stream, Types, ProxyTypes
<1>n. /\ tg = NewInput /\ br = NewInput /\ us = <<>> /\ ~s.upgraded
      /\ c.read = 0 /\ c.buffer = <<>> /\ c.rest = <<>>
  BY DEF Stream, Unanswered
<1>h. Held(TargetScript[x], c1, 0) BY <1>0, <1>n, HeldNew
<1>s. /\ q \in Wire(x) /\ \A i \in 1 .. Len(q) : q[i].type # "UPGRADE"
      /\ \E d \in Nat : Path(TargetScript[x], 0, q, d) /\ Held(TargetScript[x], c2, d)
  <2>1. 0 \in Nat OBVIOUS
  <2> QED BY <1>h, <2>1, Advances
<1>d. PICK d \in Nat : Path(TargetScript[x], 0, q, d) /\ Held(TargetScript[x], c2, d)
  BY <1>s
<1>v. PICK v \in Wire(x) : /\ v = <<Control("UPGRADE")>> \o q
                           /\ \A i \in 1 .. Len(v) : v[i].type = "UPGRADE" => i = 1
                           /\ Path(TargetScript[x], 0, v, d)
  <2>1. /\ <<Control("UPGRADE")>> \o q \in Wire(x)
        /\ \A i \in 1 .. Len(<<Control("UPGRADE")>> \o q) :
             (<<Control("UPGRADE")>> \o q)[i].type = "UPGRADE" => i = 1
        /\ \A S : \A b \in Nat : \A e : Path(S, b, q, e) =>
             Path(S, b, <<Control("UPGRADE")>> \o q, e)
    BY <1>s, UpgradeOnWire
  <2>2. 0 \in Nat OBVIOUS
  <2>3. Path(TargetScript[x], 0, <<Control("UPGRADE")>> \o q, d) BY <1>d, <2>1, <2>2
  <2> QED BY <2>1, <2>3
<1>u. us2 = IF s.phase = "open" THEN v ELSE <<>>
  <2>1. <<>> \o v = v BY ConcatEmptySeq DEF Wire
  <2> QED BY <1>n, <1>v, <2>1
<1>w. us2 \in Wire(x)
  <2>1. <<>> \in Wire(x) BY DEF Wire
  <2> QED BY <1>u, <2>1
<1>l. Listens(up, c) /\ Listens(up, c2) BY DEF Listens
<1>b. PICK b \in Nat : /\ s.phase = "open" => Held(BrowserScript[x], s, b)
                       /\ ~tg.closing =>
                            \E a \in Nat : /\ Reached(BrowserScript[x], tg, a)
                                           /\ Path(BrowserScript[x], a, c.early \o dn, b)
  BY <1>l DEF Stream, Down
<1>a. PICK a, e : ~tg.closing => /\ e \in Nat /\ Reached(BrowserScript[x], tg, a)
                                 /\ Path(BrowserScript[x], a, c.early, e)
                                 /\ Path(BrowserScript[x], e, dn, b)
  <2>1. CASE tg.closing BY <2>1
  <2>2. CASE ~tg.closing
    <3>1. PICK a \in Nat : /\ Reached(BrowserScript[x], tg, a)
                           /\ Path(BrowserScript[x], a, c.early \o dn, b)
      BY <1>b, <2>2
    <3> DEFINE F == Pieces(x) \cup Controls
    <3>2. dn \in Seq(F) /\ c.early \in Seq(F) BY <1>t DEF Wire
    <3> HIDE DEF F
    <3>3. PICK e \in Nat : /\ Path(BrowserScript[x], a, c.early, e)
                           /\ Path(BrowserScript[x], e, dn, b)
      BY <3>1, <3>2, PathSplit
    <3> QED BY <3>1, <3>3
  <2> QED BY <2>1, <2>2
<1>g. /\ tg2 \in Input /\ Whole(tg2)
      /\ ~tg2.closing => ~tg1.closing /\ Reached(BrowserScript[x], tg2, e)
  <2>1. Whole(tg1) BY DEF Stream, Seen, Whole
  <2>2. ~tg1.closing => /\ Reached(BrowserScript[x], tg1, a)
                        /\ Path(BrowserScript[x], a, c.early, e)
    BY <1>a
  <2>3. tg1 \in Input /\ tg2 = Delivered(BrowserScript[x], tg1, c.early) OBVIOUS
  <2>4. c.early \in Seq(Pieces(x)) BY <1>t
  <2> QED BY <2>1, <2>2, <2>3, <2>4, Given, ZenonT(30)
<1>1. Types(x, s, c2, br, tg2, dn, us2) BY <1>g, <1>w DEF Stream, Types
<1>2. Idle(s, c2, dn)
  <2>1. NewProxy.phase = "none" BY DEF NewProxy
  <2> QED BY <2>1 DEF Stream, Idle
<1>3. Unanswered(s, c2, br, tg2, us2) BY DEF Unanswered
<1>4. DownWire(up, s, c2, dn) BY <1>l DEF Stream, DownWire
<1>5. UpWire(s, us2)
  <2>1. CASE s.phase = "open"
    <3>1. us2 = v BY <1>u, <2>1
    <3> QED BY <1>v, <2>1, <3>1 DEF UpWire
  <2>2. CASE s.phase # "open"
    <3>1. us2 = <<>> BY <1>u, <2>2
    <3>2. Len(us2) = 0 BY <1>w, <3>1, EmptySeq DEF Wire
    <3> QED BY <2>2, <3>1, <3>2 DEF UpWire
  <2> QED BY <2>1, <2>2
<1>6. Down(x, up, s, c2, tg2, dn)
  <2>1. ASSUME ~tg2.closing
        PROVE  \E i \in Nat : /\ Reached(BrowserScript[x], tg2, i)
                              /\ Path(BrowserScript[x], i, c2.early \o dn, b)
    <3>1. /\ Reached(BrowserScript[x], tg2, e) /\ e \in Nat
          /\ Path(BrowserScript[x], e, dn, b)
      BY <1>a, <1>g, <2>1
    <3>2. c2.early \o dn = dn BY <1>t, ConcatEmptySeq DEF Wire
    <3> QED BY <3>1, <3>2
  <2> QED BY <1>b, <2>1 DEF Down
<1>7. Up(x, s, c2, br, us2)
  <2>1. Reached(TargetScript[x], br, 0) /\ 0 \in Nat BY <1>0, <1>n, ReachedNew
  <2>2. s.phase = "open" => Path(TargetScript[x], 0, us2, d) BY <1>u, <1>v
  <2> QED BY <1>d, <2>1, <2>2 DEF Up
<1>8. Seen(x, br, tg2) BY <1>g DEF Stream, Seen
<1> QED BY <1>1, <1>2, <1>3, <1>4, <1>5, <1>6, <1>7, <1>8 DEF Stream

-----------------------------------------------------------------------------
(* The steps: every action changes one stream, or all of them alike.       *)
LEMMA TypesKept ==
  ASSUME serverUp' \in BOOLEAN, clientUp' \in BOOLEAN, slots' \in [Slots -> SUBSET Streams],
         errors' \subseteq {"client", "server"} \X Streams,
         \A y \in Streams : tgt'[y] \in
           [req : {"none", "asking", "answered", "failed", "upgraded"},
            sock : {"none", "open", "gone"}],
         \A y \in Streams : At(y)'
  PROVE  TypeOK'
<1>1. ASSUME NEW y \in Streams
      PROVE  Types(y, srv'[y], cli'[y], browser'[y], target'[y], toClient'[y], toServer'[y])
  BY DEF At, Stream
<1>2. ASSUME NEW y \in Streams
      PROVE  /\ HandlerTypes(y, srv'[y]) /\ ProxyTypes(y, cli'[y])
             /\ browser'[y] \in Input /\ target'[y] \in Input
             /\ toClient'[y] \in Wire(y) /\ toServer'[y] \in Wire(y)
  BY <1>1 DEF Types
<1> QED BY <1>2 DEF TypeOK, HandlerTypes, ProxyTypes, Wire, Input

(* The parts of TypeOK that are not about one stream's records. *)
LEMMA TgtTypes ==
  ASSUME TypeOK
  PROVE  /\ serverUp \in BOOLEAN /\ clientUp \in BOOLEAN
         /\ slots \in [Slots -> SUBSET Streams]
         /\ errors \subseteq {"client", "server"} \X Streams
         /\ \A y \in Streams : tgt[y] \in
              [req : {"none", "asking", "answered", "failed", "upgraded"},
               sock : {"none", "open", "gone"}]
  BY DEF TypeOK

(* The router's steps that leave the stream x open.                        *)
LEMMA RouterKeeps ==
  ASSUME TunnelInv, NEW x \in Open,
         serverUp' = serverUp, clientUp' = clientUp, cli' = cli, tgt' = tgt,
         target' = target, errors' = errors, Arrays',
         \A y \in Streams \ {x} : srv'[y] = srv[y] /\ browser'[y] = browser[y],
         \A y \in Streams \ {x} : toClient'[y] = toClient[y] /\ toServer'[y] = toServer[y],
         srv'[x].phase = "open", At(x)',
         NEW T \in SUBSET Open, slots' = [slots EXCEPT !["timers"] = T],
         slots["timers"] \ {x} \subseteq T, x \notin T => srv'[x].writes # {}
  PROVE  TunnelInv'
<1>1. Open' = Open /\ Stuck' = Stuck /\ x \in Streams
  <2>1. \A y \in Streams : srv'[y].phase = srv[y].phase BY DEF Open
  <2> QED BY <2>1 DEF Open, Stuck
<1>2. Linked' = Linked BY DEF Linked
<1>3. Lives' BY <1>1, <1>2 DEF TunnelInv, Lives
<1>4. ASSUME NEW y \in Streams PROVE At(y)'
  <2>1. CASE y = x BY <2>1
  <2>2. CASE y # x
    <3>1. At(y) BY DEF TunnelInv
    <3> QED BY <2>2, <3>1 DEF At
  <2> QED BY <2>1, <2>2
<1>s. slots \in [Slots -> SUBSET Streams] /\ T \in SUBSET Streams
  BY TgtTypes DEF TunnelInv, Open
<1>5. /\ slots' \in [Slots -> SUBSET Streams] /\ slots'["timers"] = T
      /\ \A k \in Slots \ {"timers"} : slots'[k] = slots[k]
  BY <1>s DEF Slots
<1>6. TypeOK' BY <1>4, <1>5, TgtTypes, TypesKept DEF TunnelInv
<1>7. SlotsMatch'
  <2>1. /\ \A k \in {"handlers", "transport"} : slots'[k] = Open'
        /\ \A k \in {"ids", "webSockets"} : slots'[k] = Open' \cup Stuck'
    BY <1>1, <1>5 DEF TunnelInv, SlotsMatch, Slots
  <2>2. ASSUME NEW y \in Open' \ slots'["timers"] PROVE srv'[y].writes # {}
    <3>1. CASE y = x BY <1>5, <2>2, <3>1
    <3>2. CASE y # x
      <4>1. y \in Open \ slots["timers"] /\ y \in Streams
        BY <1>1, <1>5, <2>2, <3>2 DEF Open
      <4>2. srv[y].writes # {} BY <4>1 DEF TunnelInv, SlotsMatch
      <4> QED BY <3>2, <4>1, <4>2
    <3> QED BY <3>1, <3>2
  <2>3. slots'["timers"] \subseteq Open' BY <1>1, <1>5
  <2> QED BY <2>1, <2>2, <2>3 DEF SlotsMatch
<1> QED BY <1>3, <1>4, <1>6, <1>7 DEF TunnelInv

(* The proxy's steps that change one stream.                               *)
LEMMA ProxyKeeps ==
  ASSUME TunnelInv, NEW x \in Streams, UNCHANGED serverVars, clientUp' = clientUp, Arrays',
         \A y \in Streams \ {x} : cli'[y] = cli[y] /\ tgt'[y] = tgt[y] /\ target'[y] = target[y],
         \A y \in Streams \ {x} : toClient'[y] = toClient[y] /\ toServer'[y] = toServer[y],
         tgt'[x] \in [req : {"none", "asking", "answered", "failed", "upgraded"},
                      sock : {"none", "open", "gone"}],
         errors' \subseteq {"client", "server"} \X Streams,
         cli'[x].phase \in {"asking", "open"} => clientUp, At(x)'
  PROVE  TunnelInv'
<1>0. serverUp' = serverUp /\ srv' = srv /\ slots' = slots /\ browser' = browser
  BY DEF serverVars
<1>1. Open' = Open /\ Stuck' = Stuck BY <1>0 DEF Open, Stuck
<1>2. SlotsMatch' BY <1>0, <1>1 DEF TunnelInv, SlotsMatch
<1>3. Lives'
  <2>1. ASSUME NEW y \in Streams, cli'[y].phase \in {"asking", "open"} PROVE clientUp
    <3>1. CASE y = x BY <2>1, <3>1
    <3>2. CASE y # x
      <4>1. y \in Linked BY <2>1, <3>2 DEF Linked
      <4> QED BY <4>1 DEF TunnelInv, Lives
    <3> QED BY <3>1, <3>2
  <2>2. Linked' # {} => clientUp' BY <2>1 DEF Linked
  <2> QED BY <1>0, <1>1, <2>2 DEF TunnelInv, Lives
<1>4. ASSUME NEW y \in Streams PROVE At(y)'
  <2>1. CASE y = x BY <2>1
  <2>2. CASE y # x
    <3>1. At(y) BY DEF TunnelInv
    <3> QED BY <1>0, <2>2, <3>1 DEF At
  <2> QED BY <2>1, <2>2
<1>5. \A y \in Streams : tgt'[y] \in
        [req : {"none", "asking", "answered", "failed", "upgraded"},
         sock : {"none", "open", "gone"}]
  <2>1. \A y \in Streams : y # x => tgt'[y] = tgt[y] OBVIOUS
  <2> QED BY <2>1, TgtTypes DEF TunnelInv
<1>6. TypeOK' BY <1>0, <1>4, <1>5, TgtTypes, TypesKept DEF TunnelInv
<1> QED BY <1>2, <1>3, <1>4, <1>6 DEF TunnelInv

(* The router ends the streams of S.                                       *)
LEMMA SpentTyped ==
  ASSUME NEW x
  PROVE  HandlerTypes(x, Spent) /\ Spent.phase = "done" /\ ~Spent.upgraded
<1>1. Spent.phase = "done" /\ ~Spent.upgraded BY DEF Spent, NewHandler
<1>2. HandlerTypes(x, NewHandler) BY DEF NewHandler, HandlerTypes
<1>3. HandlerTypes(x, Spent)
  <2>1. PICK h : h = NewHandler OBVIOUS
  <2>2. HandlerTypes(x, [h EXCEPT !.phase = "done"]) BY <1>2, <2>1 DEF HandlerTypes
  <2> QED BY <2>1, <2>2 DEF Spent
<1> QED BY <1>1, <1>3

(* Removing the handlers of a set of open streams, one of them or all when the server
   fails, keeps the invariant. *)
LEMMA CleanupKeeps ==
  ASSUME TunnelInv, NEW S \in SUBSET Open, NEW terminal, Cleanup(S, terminal),
         UNCHANGED <<browser, clientVars>>,
         serverUp' = serverUp \/ (S = Open /\ serverUp' = FALSE)
  PROVE  TunnelInv'
<1>0. /\ clientUp' = clientUp /\ cli' = cli /\ tgt' = tgt /\ target' = target
      /\ browser' = browser
  BY DEF clientVars
<1>s. S \subseteq Streams BY DEF Open
<1>c. /\ srv' = [x \in Streams |-> IF x \in S THEN Spent ELSE srv[x]]
      /\ slots' = [k \in Slots |-> IF k \in Released THEN slots[k] \ S ELSE slots[k]]
      /\ toServer' = [x \in Streams |-> IF x \in S THEN <<>> ELSE toServer[x]]
      /\ toClient' = [x \in Streams |->
           IF x \in S /\ terminal = "FIN" /\ ClientListens(x)
           THEN Append(toClient[x], Control("FIN")) ELSE toClient[x]]
      /\ errors' = (errors \ ({"server"} \X S)) \cup
           {<<"client", x>> : x \in {y \in S : terminal = "ERROR" /\ ClientListens(y)}}
  BY DEF Cleanup, Without
<1>1. Open' = Open \ S /\ Stuck' = Stuck
  <2>1. Open' = Open \ S
    <3>1. \A y \in Streams : srv'[y].phase = "open" <=> srv[y].phase = "open" /\ y \notin S
      BY <1>c, SpentTyped
    <3> QED BY <3>1 DEF Open
  <2>2. Stuck' = Stuck
    <3>1. \A y \in S : srv[y].phase = "open" BY DEF Open
    <3>2. \A y \in Streams : srv'[y].phase = "stuck" <=> srv[y].phase = "stuck"
      BY <1>c, <3>1, SpentTyped
    <3> QED BY <3>2 DEF Stuck
  <2> QED BY <2>1, <2>2
<1>2. Lives' BY <1>0, <1>1 DEF TunnelInv, Lives, Linked
<1>3. ASSUME NEW y \in Streams PROVE At(y)'
  <2>1. Stream(y, clientUp, srv[y], cli[y], browser[y], target[y], toClient[y], toServer[y])
    BY DEF TunnelInv, At
  <2>2. CASE y \in S
    <3>1. srv[y].phase = "open" BY <2>2 DEF Open
    <3>2. srv'[y] = Spent /\ toServer'[y] = <<>> BY <1>c, <2>2
    <3>3. \/ toClient'[y] = toClient[y]
          \/ /\ Listens(clientUp, cli[y])
             /\ toClient'[y] = Append(toClient[y], Control("FIN"))
      BY <1>c DEF ClientListens, Listens
    <3>4. Stream(y, clientUp, Spent, cli[y], browser[y], target[y], toClient'[y], <<>>)
      BY <2>1, <3>1, <3>3, SpentTyped, Dropped
    <3> QED BY <1>0, <3>2, <3>4 DEF At
  <2>3. CASE y \notin S
    <3>1. srv'[y] = srv[y] /\ toServer'[y] = toServer[y] /\ toClient'[y] = toClient[y]
      BY <1>c, <2>3
    <3> QED BY <1>0, <2>1, <3>1 DEF At
  <2> QED BY <2>2, <2>3
<1>4. \A k \in Slots : slots'[k] = slots[k] \ S BY <1>c DEF Released
<1>5. TypeOK'
  <2>0. serverUp' \in BOOLEAN /\ clientUp' \in BOOLEAN BY <1>0, TgtTypes DEF TunnelInv
  <2>1. slots' \in [Slots -> SUBSET Streams] BY <1>c, TgtTypes DEF TunnelInv
  <2>2. errors' \subseteq {"client", "server"} \X Streams
    <3>1. {<<"client", x>> : x \in {y \in S : terminal = "ERROR" /\ ClientListens(y)}}
            \subseteq {"client", "server"} \X Streams
      BY <1>s
    <3> QED BY <1>c, <3>1, TgtTypes DEF TunnelInv
  <2> QED BY <1>0, <1>3, <2>0, <2>1, <2>2, TgtTypes, TypesKept DEF TunnelInv
<1>6. SlotsMatch'
  <2>1. \A k \in {"handlers", "transport"} : slots'[k] = Open'
    BY <1>1, <1>4 DEF TunnelInv, SlotsMatch, Slots
  <2>2. \A k \in {"ids", "webSockets"} : slots'[k] = Open' \cup Stuck'
    <3>1. Stuck \cap S = {} BY DEF Stuck, Open
    <3> QED BY <1>1, <1>4, <3>1 DEF TunnelInv, SlotsMatch, Slots
  <2>3. slots'["timers"] \subseteq Open' BY <1>1, <1>4 DEF TunnelInv, SlotsMatch, Slots
  <2>4. ASSUME NEW y \in Open' \ slots'["timers"] PROVE srv'[y].writes # {}
    <3>1. y \in Open \ slots["timers"] /\ y \notin S /\ y \in Streams
      BY <1>1, <1>4, <2>4 DEF Open, Slots
    <3>2. srv[y].writes # {} BY <3>1 DEF TunnelInv, SlotsMatch
    <3> QED BY <1>c, <3>1, <3>2
  <2> QED BY <2>1, <2>2, <2>3, <2>4 DEF SlotsMatch
<1>7. Arrays'
  <2>1. srv' = [x \in Streams |-> srv'[x]] BY <1>c
  <2>2. toServer' = [x \in Streams |-> toServer'[x]] BY <1>c
  <2>3. toClient' = [x \in Streams |-> toClient'[x]] BY <1>c
  <2> QED BY <1>0, <2>1, <2>2, <2>3 DEF TunnelInv, Arrays
<1> QED BY <1>2, <1>3, <1>5, <1>6, <1>7 DEF TunnelInv

LEMMA EndsKeeps ==
  ASSUME TunnelInv, NEW x \in Open, NEW terminal, Ends(x, terminal)
  PROVE  TunnelInv'
<1>1. /\ Cleanup({x}, terminal) /\ UNCHANGED <<browser, clientVars>> /\ serverUp' = serverUp
      /\ {x} \in SUBSET Open
  BY DEF Ends
<1> QED BY <1>1, CleanupKeeps

LEMMA ServerFailsKeeps ==
  ASSUME TunnelInv, ServerFails PROVE TunnelInv'
<1>1. /\ Cleanup(Open, "none") /\ UNCHANGED <<browser, clientVars>> /\ serverUp' = FALSE
      /\ Open \in SUBSET Open
  BY DEF ServerFails
<1> QED BY <1>1, CleanupKeeps

(* The proxy's session is over, with every stream of it.                   *)
LEMMA CompletedTyped ==
  ASSUME NEW x
  PROVE  /\ ProxyTypes(x, Completed) /\ Completed.phase = "done" /\ Completed.early = <<>>
         /\ ~Completed.finish
<1>1. Completed.phase = "done" /\ Completed.early = <<>> /\ ~Completed.finish
  BY DEF Completed, NewProxy
<1>2. ProxyTypes(x, NewProxy) BY DEF NewProxy, ProxyTypes
<1>3. ProxyTypes(x, Completed)
  <2>1. PICK c : c = NewProxy OBVIOUS
  <2>2. ProxyTypes(x, [c EXCEPT !.phase = "done"]) BY <1>2, <2>1 DEF ProxyTypes
  <2> QED BY <2>1, <2>2 DEF Completed
<1> QED BY <1>1, <1>3

(* Losing the target's socket leaves a well-typed request. *)
LEMMA SockTyped ==
  ASSUME NEW t \in [req : {"none", "asking", "answered", "failed", "upgraded"},
                    sock : {"none", "open", "gone"}]
  PROVE  SockGone(t) \in [req : {"none", "asking", "answered", "failed", "upgraded"},
                          sock : {"none", "open", "gone"}]
  BY DEF SockGone

LEMMA AbortKeeps ==
  ASSUME TunnelInv, AbortAll PROVE TunnelInv'
<1> DEFINE S == {x \in Streams : cli[x].phase \in {"asking", "open", "stuck"}}
<1>0. /\ clientUp' = FALSE /\ target' = target /\ toServer' = toServer
      /\ serverUp' = serverUp /\ srv' = srv /\ slots' = slots /\ browser' = browser
      /\ errors' \subseteq errors
  BY DEF AbortAll, serverVars
<1>c. /\ cli' = [x \in Streams |-> IF x \in S THEN Completed ELSE cli[x]]
      /\ tgt' = [x \in Streams |-> IF x \in S THEN SockGone(tgt[x]) ELSE tgt[x]]
      /\ toClient' = [x \in Streams |-> <<>>]
  BY DEF AbortAll, Finished, InMap, Without
<1>1. Open' = Open /\ Stuck' = Stuck BY <1>0 DEF Open, Stuck
<1>2. Linked' = {}
  <2>1. \A y \in Streams : cli'[y].phase \notin {"asking", "open"}
    <3> TAKE y \in Streams
    <3>1. CASE y \in S BY <1>c, <3>1, CompletedTyped
    <3>2. CASE y \notin S
      <4>1. cli'[y] = cli[y] BY <1>c, <3>2
      <4> QED BY <3>2, <4>1
    <3> QED BY <3>1, <3>2
  <2> QED BY <2>1 DEF Linked
<1>3. Lives' BY <1>0, <1>1, <1>2 DEF TunnelInv, Lives
<1>4. SlotsMatch' BY <1>0, <1>1 DEF TunnelInv, SlotsMatch
<1>5. ASSUME NEW y \in Streams PROVE At(y)'
  <2>1. Stream(y, clientUp, srv[y], cli[y], browser[y], target[y], toClient[y], toServer[y])
    BY DEF TunnelInv, At
  <2>2. \/ cli'[y] = cli[y]
        \/ cli[y].phase # "none" /\ cli'[y] = Completed
    BY <1>c
  <2>3. ProxyTypes(y, cli[y]) BY <2>1 DEF Stream, Types
  <2>6. LastWord(srv[y], cli[y], toServer[y], toServer[y]) BY DEF LastWord
  <2>4. CASE cli'[y] = cli[y]
    <3>0. Over(cli[y], FALSE, cli[y]) BY DEF Over
    <3>1. Stream(y, FALSE, srv[y], cli[y], browser[y], target[y], <<>>, toServer[y])
      BY <2>1, <2>3, <2>6, <3>0, ProxyGone
    <3>2. toClient'[y] = <<>> BY <1>c
    <3> QED BY <1>0, <2>4, <3>1, <3>2 DEF At
  <2>5. CASE cli[y].phase # "none" /\ cli'[y] = Completed
    <3>0. Over(cli[y], FALSE, Completed) BY <2>5, CompletedTyped DEF Over
    <3>1. Stream(y, FALSE, srv[y], Completed, browser[y], target[y], <<>>, toServer[y])
      BY <2>1, <2>6, <3>0, CompletedTyped, ProxyGone
    <3>2. toClient'[y] = <<>> BY <1>c
    <3> QED BY <1>0, <2>5, <3>1, <3>2 DEF At
  <2> QED BY <2>2, <2>4, <2>5
<1>6. TypeOK'
  <2>1. \A y \in Streams : tgt'[y] \in
          [req : {"none", "asking", "answered", "failed", "upgraded"},
           sock : {"none", "open", "gone"}]
    <3>1. \A y \in Streams : tgt'[y] = tgt[y] \/ tgt'[y] = SockGone(tgt[y]) BY <1>c
    <3> QED BY <3>1, TgtTypes, SockTyped DEF TunnelInv
  <2>2. errors' \subseteq {"client", "server"} \X Streams BY <1>0, TgtTypes DEF TunnelInv
  <2> QED BY <1>0, <1>5, <2>1, <2>2, TgtTypes, TypesKept DEF TunnelInv
<1>7. Arrays'
  <2>1. cli' = [x \in Streams |-> cli'[x]] BY <1>c
  <2>2. tgt' = [x \in Streams |-> tgt'[x]] BY <1>c
  <2>3. toClient' = [x \in Streams |-> toClient'[x]] BY <1>c
  <2> QED BY <1>0, <2>1, <2>2, <2>3 DEF TunnelInv, Arrays
<1> QED BY <1>3, <1>4, <1>5, <1>6, <1>7 DEF TunnelInv

(* A stream that is to begin.                                              *)
LEMMA ToBegin ==
  ASSUME TunnelInv, NEW x \in Streams, srv[x].phase = "idle"
  PROVE  /\ Stream(x, clientUp, srv[x], cli[x], browser[x], target[x], toClient[x], <<>>)
         /\ toServer[x] = <<>> /\ ~srv[x].upgraded /\ x \notin Open /\ x \notin Stuck
         /\ \A p \in {"open", "stuck", "done"} :
              /\ HandlerTypes(x, [srv[x] EXCEPT !.phase = p])
              /\ [srv[x] EXCEPT !.phase = p].phase = p
              /\ ~[srv[x] EXCEPT !.phase = p].upgraded
<1>1. Stream(x, clientUp, srv[x], cli[x], browser[x], target[x], toClient[x], toServer[x])
  BY DEF TunnelInv, At
<1>2. toServer[x] = <<>> BY <1>1 DEF Stream, UpWire
<1>3. HandlerTypes(x, srv[x]) /\ ~srv[x].upgraded
  BY <1>1 DEF Stream, Types, Idle, NewHandler
<1>4. ASSUME NEW p \in {"open", "stuck", "done"}
      PROVE  /\ HandlerTypes(x, [srv[x] EXCEPT !.phase = p])
             /\ [srv[x] EXCEPT !.phase = p].phase = p
             /\ ~[srv[x] EXCEPT !.phase = p].upgraded
  BY <1>3 DEF HandlerTypes
<1>5. x \notin Open /\ x \notin Stuck BY DEF Open, Stuck
<1> QED BY <1>1, <1>2, <1>3, <1>4, <1>5

LEMMA RefuseKeeps ==
  ASSUME TunnelInv, NEW x \in Streams, Refuse(x) PROVE TunnelInv'
<1>0. /\ serverUp' = serverUp /\ clientUp' = clientUp /\ cli' = cli /\ tgt' = tgt
      /\ target' = target /\ browser' = browser /\ slots' = slots /\ toClient' = toClient
      /\ toServer' = toServer /\ errors' = errors /\ srv[x].phase = "idle"
  BY DEF Refuse, clientVars, wires, Arrives
<1>c. /\ srv' = [srv EXCEPT ![x] = [srv[x] EXCEPT !.phase = "done"]]
      /\ srv = [y \in Streams |-> srv[y]]
  BY DEF Refuse, TunnelInv, Arrays
<1>x. srv'[x] = [srv[x] EXCEPT !.phase = "done"] BY <1>c
<1>y. \A y \in Streams \ {x} : srv'[y] = srv[y] BY <1>c
<1>1. Open' = Open /\ Stuck' = Stuck
  <2>1. srv'[x].phase = "done" BY <1>0, <1>x, ToBegin
  <2> QED BY <1>0, <1>y, <2>1 DEF Open, Stuck
<1>2. Lives' BY <1>0, <1>1 DEF TunnelInv, Lives, Linked
<1>3. ASSUME NEW y \in Streams PROVE At(y)'
  <2>1. CASE y = x
    <3>1. Stream(x, clientUp, srv'[x], cli[x], browser[x], target[x], toClient[x], <<>>)
      <4>1. /\ Stream(x, clientUp, srv[x], cli[x], browser[x], target[x], toClient[x], <<>>)
            /\ HandlerTypes(x, srv'[x]) /\ srv'[x].phase = "done" /\ ~srv'[x].upgraded
        BY <1>0, <1>x, ToBegin
      <4> QED BY <1>0, <4>1, Dropped
    <3>2. toServer[x] = <<>> BY <1>0, ToBegin
    <3> QED BY <1>0, <2>1, <3>1, <3>2 DEF At
  <2>2. CASE y # x
    <3>1. At(y) BY DEF TunnelInv
    <3> QED BY <1>0, <1>y, <2>2, <3>1 DEF At
  <2> QED BY <2>1, <2>2
<1>4. SlotsMatch'
  <2>1. \A y \in Open : y # x BY <1>0, ToBegin
  <2>2. \A y \in Open : srv'[y] = srv[y] BY <1>y, <2>1 DEF Open
  <2> QED BY <1>0, <1>1, <2>2 DEF TunnelInv, SlotsMatch
<1>5. TypeOK' BY <1>0, <1>3, TgtTypes, TypesKept DEF TunnelInv
<1>6. Arrays'
  <2>1. srv' = [y \in Streams |-> srv'[y]] BY <1>c
  <2> QED BY <1>0, <2>1 DEF TunnelInv, Arrays
<1> QED BY <1>2, <1>3, <1>4, <1>5, <1>6 DEF TunnelInv

LEMMA AcceptKeeps ==
  ASSUME TunnelInv, NEW x \in Streams, Accept(x) PROVE TunnelInv'
<1>0. /\ serverUp' = serverUp /\ clientUp' = clientUp /\ cli' = cli /\ tgt' = tgt
      /\ target' = target /\ browser' = browser
      /\ toServer' = toServer /\ errors' = errors /\ srv[x].phase = "idle" /\ serverUp
  BY DEF Accept, clientVars, Arrives, Available
<1>c. /\ srv' = [srv EXCEPT ![x] = [srv[x] EXCEPT !.phase = "open"]]
      /\ srv = [y \in Streams |-> srv[y]]
      /\ slots' = [k \in Slots |-> slots[k] \cup {x}]
      /\ toClient' = IF Listens(clientUp, cli[x])
                     THEN [toClient EXCEPT ![x] = toClient[x] \o <<Control("UPGRADE")>>]
                     ELSE toClient
      /\ toClient = [y \in Streams |-> toClient[y]]
  BY DEF Accept, Send, ClientListens, Listens, TunnelInv, Arrays
<1>x. srv'[x] = [srv[x] EXCEPT !.phase = "open"] BY <1>c
<1>y. \A y \in Streams \ {x} : srv'[y] = srv[y] /\ toClient'[y] = toClient[y] BY <1>c
<1>w. toClient'[x] = IF Listens(clientUp, cli[x]) THEN toClient[x] \o <<Control("UPGRADE")>>
                                                  ELSE toClient[x]
  BY <1>c
<1>1. Open' = Open \cup {x} /\ Stuck' = Stuck
  <2>1. srv'[x].phase = "open" BY <1>0, <1>x, ToBegin
  <2> QED BY <1>0, <1>y, <2>1 DEF Open, Stuck
<1>2. Lives' BY <1>0, <1>1 DEF TunnelInv, Lives, Linked
<1>3. ASSUME NEW y \in Streams PROVE At(y)'
  <2>1. CASE y = x
    <3>1. Stream(x, clientUp, srv'[x], cli[x], browser[x], target[x], toClient'[x], <<>>)
      <4>1. /\ Stream(x, clientUp, srv[x], cli[x], browser[x], target[x], toClient[x], <<>>)
            /\ HandlerTypes(x, srv'[x])
        BY <1>0, <1>x, ToBegin
      <4> QED BY <1>0, <1>w, <1>x, <4>1, Accepted
    <3>2. toServer[x] = <<>> BY <1>0, ToBegin
    <3> QED BY <1>0, <2>1, <3>1, <3>2 DEF At
  <2>2. CASE y # x
    <3>1. At(y) BY DEF TunnelInv
    <3> QED BY <1>0, <1>y, <2>2, <3>1 DEF At
  <2> QED BY <2>1, <2>2
<1>4. SlotsMatch'
  <2>1. \A y \in Open : srv'[y] = srv[y] \/ y = x BY <1>y DEF Open
  <2>2. \A k \in Slots : slots'[k] = slots[k] \cup {x} BY <1>c
  <2>3. /\ \A k \in {"handlers", "transport"} : slots'[k] = Open'
        /\ \A k \in {"ids", "webSockets"} : slots'[k] = Open' \cup Stuck'
        /\ slots'["timers"] \subseteq Open'
    BY <1>1, <2>2 DEF TunnelInv, SlotsMatch, Slots
  <2>4. ASSUME NEW y \in Open' \ slots'["timers"] PROVE srv'[y].writes # {}
    <3>1. y \in Open \ slots["timers"] /\ y # x BY <1>1, <2>2, <2>4 DEF Slots
    <3>2. srv[y].writes # {} BY <3>1 DEF TunnelInv, SlotsMatch
    <3> QED BY <2>1, <3>1, <3>2
  <2> QED BY <2>3, <2>4 DEF SlotsMatch
<1>5. TypeOK'
  <2>1. slots' \in [Slots -> SUBSET Streams] BY <1>c, TgtTypes DEF TunnelInv
  <2> QED BY <1>0, <1>3, <2>1, TgtTypes, TypesKept DEF TunnelInv
<1>6. Arrays'
  <2>1. srv' = [y \in Streams |-> srv'[y]] BY <1>c
  <2>2. toClient' = [y \in Streams |-> toClient'[y]] BY <1>c
  <2> QED BY <1>0, <2>1, <2>2 DEF TunnelInv, Arrays
<1> QED BY <1>2, <1>3, <1>4, <1>5, <1>6 DEF TunnelInv

LEMMA AcceptFailsKeeps ==
  ASSUME TunnelInv, NEW x \in Streams, AcceptFails(x) PROVE TunnelInv'
<1>0. /\ serverUp' = FALSE /\ clientUp' = clientUp /\ cli' = cli /\ tgt' = tgt
      /\ target' = target /\ browser' = browser /\ toClient' = toClient
      /\ errors' \subseteq errors /\ srv[x].phase = "idle"
  BY DEF AcceptFails, clientVars, Arrives
<1>c. /\ srv' = [y \in Streams |-> IF y = x THEN [srv[y] EXCEPT !.phase = "stuck"]
                                   ELSE IF y \in Open THEN Spent ELSE srv[y]]
      /\ slots' = [k \in Slots |-> (slots[k] \ Open) \cup
                                   (IF k \in {"ids", "webSockets"} THEN {x} ELSE {})]
      /\ toServer' = [y \in Streams |-> IF y \in Open THEN <<>> ELSE toServer[y]]
  BY DEF AcceptFails, Without
<1>x. /\ srv'[x] = [srv[x] EXCEPT !.phase = "stuck"] /\ x \notin Open
      /\ toServer'[x] = toServer[x]
  BY <1>0, <1>c, ToBegin
<1>1. Open' = {} /\ Stuck' = Stuck \cup {x}
  <2>1. srv'[x].phase = "stuck" BY <1>0, <1>x, ToBegin
  <2>2. \A y \in Open : srv'[y].phase = "done" /\ srv[y].phase = "open"
    BY <1>c, <1>x, SpentTyped DEF Open
  <2>3. \A y \in Streams \ (Open \cup {x}) : srv'[y] = srv[y] BY <1>c
  <2>4. \A y \in Streams \ Open : srv[y].phase # "open" BY DEF Open
  <2>5. Open' = {}
    <3>1. \A y \in Streams : srv'[y].phase # "open" BY <2>1, <2>2, <2>3, <2>4
    <3> QED BY <3>1 DEF Open
  <2>6. Stuck' = Stuck \cup {x}
    <3>1. \A y \in Streams : srv'[y].phase = "stuck" <=> srv[y].phase = "stuck" \/ y = x
      BY <2>1, <2>2, <2>3
    <3> QED BY <3>1 DEF Stuck
  <2> QED BY <2>5, <2>6
<1>2. Lives' BY <1>0, <1>1 DEF TunnelInv, Lives, Linked
<1>3. ASSUME NEW y \in Streams PROVE At(y)'
  <2>0. Stream(y, clientUp, srv[y], cli[y], browser[y], target[y], toClient[y], toServer[y])
    BY DEF TunnelInv, At
  <2>1. CASE y = x
    <3>1. Stream(x, clientUp, srv'[x], cli[x], browser[x], target[x], toClient[x], <<>>)
      <4>1. /\ Stream(x, clientUp, srv[x], cli[x], browser[x], target[x], toClient[x], <<>>)
            /\ HandlerTypes(x, srv'[x]) /\ srv'[x].phase = "stuck" /\ ~srv'[x].upgraded
        BY <1>0, <1>x, ToBegin
      <4> QED BY <1>0, <4>1, Dropped
    <3>2. toServer'[x] = <<>> BY <1>0, <1>x, ToBegin
    <3> QED BY <1>0, <2>1, <3>1, <3>2 DEF At
  <2>2. CASE y # x /\ y \in Open
    <3>1. srv'[y] = Spent /\ toServer'[y] = <<>> /\ srv[y].phase = "open"
      BY <1>c, <2>2 DEF Open
    <3>2. Stream(y, clientUp, Spent, cli[y], browser[y], target[y], toClient[y], <<>>)
      BY <2>0, <3>1, SpentTyped, Dropped
    <3> QED BY <1>0, <3>1, <3>2 DEF At
  <2>3. CASE y # x /\ y \notin Open
    <3>1. srv'[y] = srv[y] /\ toServer'[y] = toServer[y] BY <1>c, <2>3
    <3> QED BY <1>0, <2>0, <3>1 DEF At
  <2> QED BY <2>1, <2>2, <2>3
<1>4. SlotsMatch'
  <2>1. \A k \in Slots : slots'[k] = (slots[k] \ Open) \cup
                           (IF k \in {"ids", "webSockets"} THEN {x} ELSE {})
    BY <1>c
  <2>2. Stuck \cap Open = {} BY DEF Stuck, Open
  <2>3. \A k \in {"handlers", "transport"} : slots'[k] = Open'
    BY <1>1, <2>1 DEF TunnelInv, SlotsMatch, Slots
  <2>4. \A k \in {"ids", "webSockets"} : slots'[k] = Open' \cup Stuck'
    BY <1>1, <2>1, <2>2 DEF TunnelInv, SlotsMatch, Slots
  <2>5. slots'["timers"] \subseteq Open' BY <1>1, <2>1 DEF TunnelInv, SlotsMatch, Slots
  <2> QED BY <1>1, <2>3, <2>4, <2>5 DEF SlotsMatch
<1>5. TypeOK'
  <2>1. slots' \in [Slots -> SUBSET Streams] BY <1>c, TgtTypes DEF TunnelInv
  <2>2. errors' \subseteq {"client", "server"} \X Streams BY <1>0, TgtTypes DEF TunnelInv
  <2> QED BY <1>0, <1>3, <2>1, <2>2, TgtTypes, TypesKept DEF TunnelInv
<1>6. Arrays'
  <2>1. srv' = [y \in Streams |-> srv'[y]] BY <1>c
  <2>2. toServer' = [y \in Streams |-> toServer'[y]] BY <1>c
  <2> QED BY <1>0, <2>1, <2>2 DEF TunnelInv, Arrays
<1> QED BY <1>2, <1>3, <1>4, <1>5, <1>6 DEF TunnelInv

(* The router's steps on an open stream.                                   *)
LEMMA Replaced ==
  ASSUME NEW D, NEW f, f = [y \in D |-> f[y]], NEW x \in D, NEW v
  PROVE  /\ [f EXCEPT ![x] = v] = [y \in D |-> [f EXCEPT ![x] = v][y]]
         /\ [f EXCEPT ![x] = v][x] = v
         /\ \A y \in D \ {x} : [f EXCEPT ![x] = v][y] = f[y]
  OBVIOUS

(* What the invariant says of an open stream. *)
LEMMA OpenStream ==
  ASSUME TunnelInv, NEW x \in Open
  PROVE  /\ Stream(x, clientUp, srv[x], cli[x], browser[x], target[x], toClient[x], toServer[x])
         /\ srv[x].phase = "open" /\ x \in Streams
         /\ HandlerTypes(x, srv[x])
<1>1. x \in Streams /\ srv[x].phase = "open" BY DEF Open
<1>2. Stream(x, clientUp, srv[x], cli[x], browser[x], target[x], toClient[x], toServer[x])
  BY <1>1 DEF TunnelInv, At
<1> QED BY <1>1, <1>2 DEF Stream, Types

(* A step that leaves the timers, or resets its own, takes none of another stream away;
   a stream without a timer has a write under way. *)
LEMMA TimersKept ==
  ASSUME TunnelInv, NEW x \in Open, slots' = slots \/ slots' = TimerReset(x),
         srv[x].writes \subseteq srv'[x].writes
  PROVE  \E T \in SUBSET Open : /\ slots' = [slots EXCEPT !["timers"] = T]
                                /\ slots["timers"] \ {x} \subseteq T
                                /\ x \notin T => srv'[x].writes # {}
<1>1. slots \in [Slots -> SUBSET Streams] BY TgtTypes DEF TunnelInv
<1>2. slots["timers"] \subseteq Open BY DEF TunnelInv, SlotsMatch
<1>3. CASE slots' = slots
  <2>1. slots' = [slots EXCEPT !["timers"] = slots["timers"]] BY <1>1, <1>3 DEF Slots
  <2>2. x \notin slots["timers"] => srv[x].writes # {} BY DEF TunnelInv, SlotsMatch
  <2> QED BY <1>2, <2>1, <2>2
<1>4. CASE slots' = TimerReset(x)
  <2>1. slots' = [slots EXCEPT !["timers"] = slots["timers"] \cup {x}]
    BY <1>4 DEF TimerReset
  <2>2. slots["timers"] \cup {x} \in SUBSET Open BY <1>2
  <2> QED BY <2>1, <2>2
<1> QED BY <1>3, <1>4

(* Only the router's record of the stream changes.                         *)
LEMMA RecordKeeps ==
  ASSUME TunnelInv, NEW x \in Open, NEW s2, srv' = [srv EXCEPT ![x] = s2],
         slots' = slots \/ slots' = TimerReset(x), srv[x].writes \subseteq s2.writes,
         UNCHANGED <<serverUp, browser, clientVars, wires>>, s2.phase = "open",
         Stream(x, clientUp, s2, cli[x], browser[x], target[x], toClient[x], toServer[x])
  PROVE  TunnelInv'
<1>0. /\ serverUp' = serverUp /\ clientUp' = clientUp /\ cli' = cli /\ tgt' = tgt
      /\ target' = target /\ browser' = browser /\ toClient' = toClient
      /\ toServer' = toServer /\ errors' = errors
  BY DEF clientVars, wires
<1>1. x \in Streams BY DEF Open
<1>2. srv = [y \in Streams |-> srv[y]] BY DEF TunnelInv, Arrays
<1>3. /\ srv' = [y \in Streams |-> srv'[y]] /\ srv'[x] = s2
      /\ \A y \in Streams \ {x} : srv'[y] = srv[y]
  BY <1>1, <1>2, Replaced
<1>4. Arrays' BY <1>0, <1>3 DEF TunnelInv, Arrays
<1>5. At(x)' BY <1>0, <1>3 DEF At
<1>6. PICK T \in SUBSET Open : /\ slots' = [slots EXCEPT !["timers"] = T]
                               /\ slots["timers"] \ {x} \subseteq T
                               /\ x \notin T => srv'[x].writes # {}
  BY <1>3, TimersKept
<1>7. /\ \A y \in Streams \ {x} : srv'[y] = srv[y] /\ browser'[y] = browser[y]
      /\ \A y \in Streams \ {x} : toClient'[y] = toClient[y] /\ toServer'[y] = toServer[y]
      /\ srv'[x].phase = "open"
  BY <1>0, <1>3
<1> QED BY <1>0, <1>4, <1>5, <1>6, <1>7, RouterKeeps

LEMMA BrowserDataKeeps ==
  ASSUME TunnelInv, NEW x \in Streams, BrowserData(x) PROVE TunnelInv'
<1>0. x \in Open BY Zenon DEF BrowserData
<1>1. CASE Ends(x, "ERROR") BY <1>0, <1>1, EndsKeeps
<1>2. ASSUME NEW n \in srv[x].read + 1 .. Len(BrowserScript[x]),
             srv' = [srv EXCEPT ![x].read = n,
               ![x].buffer = @ \o SubSeq(Upto(n), srv[x].read + 1, n),
               ![x].pump = IF @ = "idle" THEN "scheduled" ELSE @],
             slots' = TimerReset(x), UNCHANGED <<serverUp, browser, clientVars, wires>>
      PROVE  TunnelInv'
  <2>s. PICK s : s = srv[x] OBVIOUS
  <2>i. /\ Stream(x, clientUp, s, cli[x], browser[x], target[x], toClient[x], toServer[x])
        /\ s.phase = "open" /\ HandlerTypes(x, s)
    BY <1>0, <2>s, OpenStream
  <2>n. n \in Nat /\ n \in s.read + 1 .. Len(BrowserScript[x])
    <3>1. Len(BrowserScript[x]) \in Nat BY ScriptsIn
    <3>2. s.read \in Nat BY <2>i DEF HandlerTypes
    <3>3. PICK r \in Nat : r = s.read BY <3>2
    <3> QED BY <1>2, <2>s, <3>1, <3>3
  <2> DEFINE new == SubSeq(Upto(n), s.read + 1, n)
  <2>q. PICK b \in Seq(Nat) : b = s.buffer \o new
    <3>1. s.read \in Nat /\ s.buffer \in Seq(Nat) BY <2>i DEF HandlerTypes
    <3>2. Upto(n) \in Seq(Nat) /\ Len(Upto(n)) = n BY <2>n, UptoIs
    <3>3. new \in Seq(Nat)
      <4>1. PICK u \in Seq(Nat) : u = Upto(n) /\ Len(u) = n BY <3>2
      <4>2. PICK r \in Nat : r = s.read BY <3>1
      <4>3. r + 1 \in 1 .. Len(u) + 1 /\ n \in 0 .. Len(u) BY <2>n, <4>1, <4>2
      <4>4. \A i \in r + 1 .. n : u[i] \in Nat BY <4>1
      <4>5. SubSeq(u, r + 1, n) \in Seq(Nat) BY <2>n, <4>1, <4>4
      <4> QED BY <4>1, <4>2, <4>5
    <3> HIDE DEF new
    <3>4. s.buffer \o new \in Seq(Nat) BY <3>1, <3>3, ConcatProperties
    <3> QED BY <3>4
  <2>p. PICK p \in {"scheduled", "waiting"} : p = IF s.pump = "idle" THEN "scheduled" ELSE s.pump
    BY <2>i DEF HandlerTypes
  <2> DEFINE s2 == [s EXCEPT !.read = n, !.buffer = b, !.pump = p]
  <2>1. HandlerTypes(x, s2) BY <2>i, <2>n DEF HandlerTypes
  <2>2. /\ s2.phase = "open" /\ (s2.upgraded <=> s.upgraded) /\ s2.read = n
        /\ s2.rest = s.rest /\ s2.pump # "idle" /\ s2.buffer = b /\ s2.writes = s.writes
    BY <2>i DEF HandlerTypes
  <2>3. srv' = [srv EXCEPT ![x] = s2]
    <3>1. x \in DOMAIN srv BY DEF TunnelInv, Arrays
    <3>2. srv' = [srv EXCEPT ![x] = [srv[x] EXCEPT !.read = n,
               !.buffer = srv[x].buffer \o SubSeq(Upto(n), srv[x].read + 1, n),
               !.pump = IF srv[x].pump = "idle" THEN "scheduled" ELSE srv[x].pump]]
      BY <1>2, <2>i, <2>s DEF HandlerTypes, TunnelInv, Arrays
    <3> QED BY <2>p, <2>q, <2>s, <3>2
  <2> HIDE DEF s2
  <2>4. Stream(x, clientUp, s2, cli[x], browser[x], target[x], toClient[x], toServer[x])
    BY <2>i, <2>n, <2>q, <2>1, <2>2, BrowserRead
  <2> QED BY <1>0, <1>2, <2>s, <2>2, <2>3, <2>4, RecordKeeps
<1> QED BY <1>1, <1>2, Zenon DEF BrowserData

LEMMA PoolDrainKeeps ==
  ASSUME TunnelInv, NEW x \in Streams, PoolDrain(x) PROVE TunnelInv'
<1>0. x \in Open BY DEF PoolDrain
<1>s. PICK s : s = srv[x] OBVIOUS
<1>i. /\ Stream(x, clientUp, s, cli[x], browser[x], target[x], toClient[x], toServer[x])
      /\ s.phase = "open" /\ HandlerTypes(x, s)
  BY <1>0, <1>s, OpenStream
<1> DEFINE s2 == [s EXCEPT !.pump = "scheduled", !.paused = FALSE]
<1>1. HandlerTypes(x, s2) BY <1>i DEF HandlerTypes
<1>2. /\ s2.phase = "open" /\ (s2.upgraded <=> s.upgraded) /\ s2.read = s.read
      /\ s2.rest = s.rest /\ s2.pump # "idle" /\ s2.buffer = s.buffer /\ s2.writes = s.writes
  BY <1>i DEF HandlerTypes
<1>3. srv' = [srv EXCEPT ![x] = s2]
  BY <1>i, <1>s DEF PoolDrain, HandlerTypes, TunnelInv, Arrays
<1> HIDE DEF s2
<1>4. Stream(x, clientUp, s2, cli[x], browser[x], target[x], toClient[x], toServer[x])
  BY <1>i, <1>1, <1>2, HandlerAside
<1>5. slots' = slots /\ UNCHANGED <<serverUp, browser, clientVars, wires>> BY DEF PoolDrain
<1> QED BY <1>0, <1>s, <1>2, <1>3, <1>4, <1>5, RecordKeeps

LEMMA BrowserDrainKeeps ==
  ASSUME TunnelInv, NEW x \in Streams, BrowserDrain(x) PROVE TunnelInv'
<1>0. x \in Open BY DEF BrowserDrain
<1>s. PICK s : s = srv[x] OBVIOUS
<1>i. /\ Stream(x, clientUp, s, cli[x], browser[x], target[x], toClient[x], toServer[x])
      /\ s.phase = "open" /\ HandlerTypes(x, s)
  BY <1>0, <1>s, OpenStream
<1> DEFINE s2 == [s EXCEPT !.full = FALSE]
<1>1. HandlerTypes(x, s2) BY <1>i DEF HandlerTypes
<1>2. /\ s2.phase = "open" /\ (s2.upgraded <=> s.upgraded) /\ s2.read = s.read
      /\ s2.rest = s.rest /\ s2.pump = s.pump /\ s2.buffer = s.buffer /\ s2.writes = s.writes
  BY <1>i DEF HandlerTypes
<1>3. srv' = [srv EXCEPT ![x] = s2]
  BY <1>i, <1>s DEF BrowserDrain, HandlerTypes, TunnelInv, Arrays
<1> HIDE DEF s2
<1>4. Stream(x, clientUp, s2, cli[x], browser[x], target[x], toClient[x], toServer[x])
  BY <1>i, <1>1, <1>2, HandlerAside
<1>5. slots' = slots /\ UNCHANGED <<serverUp, browser, clientVars, wires>> BY DEF BrowserDrain
<1> QED BY <1>0, <1>s, <1>2, <1>3, <1>4, <1>5, RecordKeeps

(* What is left after sending is well typed, with at most one frame sent in part. *)
LEMMA SentTyped ==
  ASSUME NEW x \in Streams, NEW S \in {BrowserScript[x], TargetScript[x]}, NEW out, NEW b,
         Held(S, out, b), NEW k \in 0 .. Len(Output(S, out))
  PROVE  /\ SentBuffer(S, out, k) \in Seq(Nat) /\ SentRest(S, out, k) \in Seq(Pieces(x))
         /\ Len(SentRest(S, out, k)) <= 1
<1>0. Len(S) \in Nat /\ PiecesIn(S) \subseteq Pieces(x) BY ScriptsIn, PiecesIncluded
<1>1. PICK c \in Nat : Holds(S, out.read, SentBuffer(S, out, k), SentRest(S, out, k), c)
  BY <1>0, SentHeld
<1>2. SentBuffer(S, out, k) \in Seq(Nat) /\ out.read \in 0 .. Len(S)
  BY <1>0, SentHeld DEF Held
<1>3. PICK o : o = [read |-> out.read, buffer |-> SentBuffer(S, out, k),
                    rest |-> SentRest(S, out, k)]
  OBVIOUS
<1>4. /\ o.read = out.read /\ o.buffer = SentBuffer(S, out, k)
      /\ o.rest = SentRest(S, out, k)
  BY <1>3
<1>5. Held(S, o, c) BY <1>1, <1>2, <1>4 DEF Held
<1>6. o.rest \in Seq(PiecesIn(S)) BY <1>0, <1>5, HeldPath
<1>7. PICK n \in 0 .. out.read :
        \/ SentRest(S, out, k) = <<>>
        \/ SentRest(S, out, k) = <<Piece(n, FALSE, TRUE)>>
  BY <1>1 DEF Holds
<1>8. Len(<<>>) <= 1 /\ Len(<<Piece(n, FALSE, TRUE)>>) <= 1 OBVIOUS
<1>9. Len(SentRest(S, out, k)) <= 1 BY <1>7, <1>8, Zenon
<1>10. SentRest(S, out, k) \in Seq(Pieces(x)) BY <1>0, <1>4, <1>6
<1> QED BY <1>2, <1>9, <1>10

LEMMA PumpKeeps ==
  ASSUME TunnelInv, NEW x \in Streams, Pump(x) PROVE TunnelInv'
<1>0. x \in Open BY Zenon DEF Pump
<1>s. PICK s : s = srv[x] OBVIOUS
<1>i. /\ Stream(x, clientUp, s, cli[x], browser[x], target[x], toClient[x], toServer[x])
      /\ s.phase = "open" /\ HandlerTypes(x, s)
  BY <1>0, <1>s, OpenStream
<1>h. PICK b \in Nat : Held(BrowserScript[x], s, b) BY <1>i DEF Stream, Down
<1>u. /\ serverUp' = serverUp /\ slots' = slots /\ clientUp' = clientUp /\ cli' = cli
      /\ tgt' = tgt /\ target' = target /\ browser' = browser /\ toServer' = toServer
      /\ errors' = errors
  BY Zenon DEF Pump, clientVars
<1>p. PICK k \in 0 .. Len(Output(BrowserScript[x], s)), writable \in BOOLEAN,
           paused \in BOOLEAN :
        /\ IF writable THEN k = Len(Output(BrowserScript[x], s)) ELSE k > 0
        /\ Send(x, SubSeq(Output(BrowserScript[x], s), 1, k))
        /\ srv' = [srv EXCEPT ![x] =
             [Sent(BrowserScript[x], s, k) EXCEPT
                !.pump = IF writable THEN "idle" ELSE Waiting, !.paused = paused]]
  <2>1. PICK k \in 0 .. Len(Output(BrowserScript[x], s)), writable \in BOOLEAN :
          /\ IF writable THEN k = Len(Output(BrowserScript[x], s)) ELSE k > 0
          /\ Send(x, SubSeq(Output(BrowserScript[x], s), 1, k))
          /\ srv' = [srv EXCEPT ![x] =
               [Sent(BrowserScript[x], srv[x], k) EXCEPT
                  !.pump = IF writable THEN "idle" ELSE Waiting,
                  !.paused = ~writable \/ (Closes(BrowserScript[x], Output(BrowserScript[x], s))
                               /\ \E p \in Range(Output(BrowserScript[x], s)) : ~p.last)]]
    BY <1>s, Zenon DEF Pump
  <2>2. PICK paused \in BOOLEAN :
          paused = (~writable \/ (Closes(BrowserScript[x], Output(BrowserScript[x], s))
                               /\ \E p \in Range(Output(BrowserScript[x], s)) : ~p.last))
    BY Zenon
  <2> QED BY <1>s, <2>1, <2>2, Zenon
<1>q. PICK q : q = SubSeq(Output(BrowserScript[x], s), 1, k) OBVIOUS
<1>v. PICK pump \in {"idle", "scheduled", "waiting"} :
        /\ pump = IF writable THEN "idle" ELSE Waiting
        /\ k = Len(Output(BrowserScript[x], s)) \/ pump # "idle"
  BY <1>p DEF Waiting
<1>t. /\ SentBuffer(BrowserScript[x], s, k) \in Seq(Nat)
      /\ SentRest(BrowserScript[x], s, k) \in Seq(Pieces(x))
      /\ Len(SentRest(BrowserScript[x], s, k)) <= 1
  BY <1>h, SentTyped
<1>b. PICK buffer \in Seq(Nat) : buffer = SentBuffer(BrowserScript[x], s, k) BY <1>t
<1>r. PICK rest \in Seq(Pieces(x)) : rest = SentRest(BrowserScript[x], s, k) /\ Len(rest) <= 1
  BY <1>t
<1> DEFINE s2 == [s EXCEPT !.rest = rest, !.buffer = buffer, !.pump = pump, !.paused = paused]
<1>1. HandlerTypes(x, s2) BY <1>i, <1>r DEF HandlerTypes
<1>2. /\ s2.phase = "open" /\ (s2.upgraded <=> s.upgraded) /\ s2.read = s.read
      /\ s2.rest = rest /\ s2.pump = pump /\ s2.buffer = buffer /\ s2.writes = s.writes
  BY <1>i DEF HandlerTypes
<1>3. srv' = [srv EXCEPT ![x] = s2]
  <2>1. Sent(BrowserScript[x], s, k) = [s EXCEPT !.rest = rest, !.buffer = buffer]
    BY <1>b, <1>r DEF Sent, SentRest, SentBuffer, Begun
  <2>2. [Sent(BrowserScript[x], s, k) EXCEPT !.pump = pump, !.paused = paused] = s2
    BY <1>i, <2>1 DEF HandlerTypes
  <2> QED BY <1>p, <1>v, <2>2
<1> HIDE DEF s2
<1>w. /\ toClient'[x] = IF Listens(clientUp, cli[x]) THEN toClient[x] \o q ELSE toClient[x]
      /\ toClient' = [y \in Streams |-> toClient'[y]]
      /\ \A y \in Streams \ {x} : toClient'[y] = toClient[y]
  <2>1. toClient' = IF Listens(clientUp, cli[x]) THEN [toClient EXCEPT ![x] = toClient[x] \o q]
                                                 ELSE toClient
    BY <1>p, <1>q DEF Send, ClientListens, Listens
  <2>2. toClient = [y \in Streams |-> toClient[y]] BY DEF TunnelInv, Arrays
  <2> QED BY <2>1, <2>2, Replaced
<1>4. Stream(x, clientUp, s2, cli[x], browser[x], target[x], toClient'[x], toServer[x])
  <2>1. toClient'[x] = IF Listens(clientUp, cli[x])
                       THEN toClient[x] \o SubSeq(Output(BrowserScript[x], s), 1, k)
                       ELSE toClient[x]
    BY <1>q, <1>w
  <2>2. /\ s2.rest = SentRest(BrowserScript[x], s, k)
        /\ s2.buffer = SentBuffer(BrowserScript[x], s, k)
        /\ k = Len(Output(BrowserScript[x], s)) \/ s2.pump # "idle"
    BY <1>2, <1>v, <1>b, <1>r
  <2> QED BY <1>i, <1>1, <1>2, <2>1, <2>2, BrowserPumped
<1>5. /\ srv'[x] = s2 /\ srv' = [y \in Streams |-> srv'[y]]
      /\ \A y \in Streams \ {x} : srv'[y] = srv[y]
  <2>1. srv = [y \in Streams |-> srv[y]] BY DEF TunnelInv, Arrays
  <2> QED BY <1>3, <2>1, Replaced
<1>6. Arrays' BY <1>u, <1>w, <1>5 DEF TunnelInv, Arrays
<1>7. At(x)' BY <1>u, <1>4, <1>5 DEF At
<1>8. PICK T \in SUBSET Open : /\ slots' = [slots EXCEPT !["timers"] = T]
                               /\ slots["timers"] \ {x} \subseteq T
                               /\ x \notin T => srv'[x].writes # {}
  <2>1. srv[x].writes \subseteq srv'[x].writes BY <1>s, <1>2, <1>5
  <2> QED BY <1>0, <1>u, <2>1, TimersKept
<1>9. /\ \A y \in Streams \ {x} : srv'[y] = srv[y] /\ browser'[y] = browser[y]
      /\ \A y \in Streams \ {x} : toClient'[y] = toClient[y] /\ toServer'[y] = toServer[y]
      /\ srv'[x].phase = "open"
  BY <1>u, <1>w, <1>2, <1>5
<1> QED BY <1>0, <1>u, <1>6, <1>7, <1>8, <1>9, RouterKeeps

LEMMA IdleTimeoutKeeps ==
  ASSUME TunnelInv, NEW x \in Streams, IdleTimeout(x) PROVE TunnelInv'
<1>0. x \in Open
  <2>1. x \in slots["timers"] BY Zenon DEF IdleTimeout
  <2> QED BY <2>1 DEF TunnelInv, SlotsMatch
<1>1. CASE Ends(x, "ERROR") BY <1>0, <1>1, EndsKeeps
<1>2. ASSUME srv' = [srv EXCEPT ![x].writes = @ \cup {"idle"}],
             slots' = [slots EXCEPT !["timers"] = @ \ {x}],
             UNCHANGED <<serverUp, browser, clientVars, wires>>
      PROVE  TunnelInv'
  <2>0. /\ serverUp' = serverUp /\ clientUp' = clientUp /\ cli' = cli /\ tgt' = tgt
        /\ target' = target /\ browser' = browser /\ toClient' = toClient
        /\ toServer' = toServer /\ errors' = errors
    BY <1>2 DEF clientVars, wires
  <2>s. PICK s : s = srv[x] OBVIOUS
  <2>i. /\ Stream(x, clientUp, s, cli[x], browser[x], target[x], toClient[x], toServer[x])
        /\ s.phase = "open" /\ HandlerTypes(x, s)
    BY <1>0, <2>s, OpenStream
  <2> DEFINE s2 == [s EXCEPT !.writes = s.writes \cup {"idle"}]
  <2>1. HandlerTypes(x, s2) BY <2>i DEF HandlerTypes
  <2>2. /\ s2.phase = "open" /\ (s2.upgraded <=> s.upgraded) /\ s2.read = s.read
        /\ s2.rest = s.rest /\ s2.pump = s.pump /\ s2.buffer = s.buffer /\ s2.writes # {}
    BY <2>i DEF HandlerTypes
  <2>3. srv' = [srv EXCEPT ![x] = s2]
    BY <1>2, <2>i, <2>s DEF HandlerTypes, TunnelInv, Arrays
  <2> HIDE DEF s2
  <2>4. Stream(x, clientUp, s2, cli[x], browser[x], target[x], toClient[x], toServer[x])
    BY <2>i, <2>1, <2>2, HandlerAside
  <2>5. /\ srv'[x] = s2 /\ srv' = [y \in Streams |-> srv'[y]]
        /\ \A y \in Streams \ {x} : srv'[y] = srv[y]
    <3>1. srv = [y \in Streams |-> srv[y]] BY DEF TunnelInv, Arrays
    <3> QED BY <2>3, <3>1, Replaced
  <2>6. Arrays' BY <2>0, <2>5 DEF TunnelInv, Arrays
  <2>7. At(x)' BY <2>0, <2>4, <2>5 DEF At
  <2>8. PICK T \in SUBSET Open : /\ slots' = [slots EXCEPT !["timers"] = T]
                                 /\ slots["timers"] \ {x} \subseteq T
    <3>1. slots["timers"] \ {x} \subseteq Open BY DEF TunnelInv, SlotsMatch
    <3> QED BY <1>2, <3>1
  <2>9. /\ \A y \in Streams \ {x} : srv'[y] = srv[y] /\ browser'[y] = browser[y]
        /\ \A y \in Streams \ {x} : toClient'[y] = toClient[y] /\ toServer'[y] = toServer[y]
        /\ srv'[x].phase = "open" /\ srv'[x].writes # {}
    BY <2>0, <2>2, <2>5
  <2> QED BY <1>0, <2>0, <2>6, <2>7, <2>8, <2>9, RouterKeeps
<1> QED BY <1>1, <1>2, Zenon DEF IdleTimeout

LEMMA RouterEndsKeeps ==
  ASSUME TunnelInv, NEW x \in Streams,
         \/ BrowserEnds(x) \/ BrowserError(x) \/ ServerCancelled(x)
         \/ \E write \in srv[x].writes : WriteDone(x, write)
  PROVE  TunnelInv'
<1>1. x \in Open /\ \E terminal : Ends(x, terminal)
  <2>1. CASE BrowserEnds(x) BY <2>1, Zenon DEF BrowserEnds
  <2>2. CASE BrowserError(x) BY <2>2, Zenon DEF BrowserError
  <2>3. CASE ServerCancelled(x)
    <3>1. x \in slots["handlers"] /\ Ends(x, "none") BY <2>3, Zenon DEF ServerCancelled
    <3> QED BY <3>1 DEF TunnelInv, SlotsMatch
  <2>4. CASE \E write \in srv[x].writes : WriteDone(x, write) BY <2>4, Zenon DEF WriteDone
  <2> QED BY <2>1, <2>2, <2>3, <2>4
<1> QED BY <1>1, EndsKeeps

(* A frame for the router is taken off the wire.                           *)
LEMMA TakesKeeps ==
  ASSUME TunnelInv, NEW x \in Open, NEW s2, srv' = [srv EXCEPT ![x] = s2],
         slots' = slots \/ slots' = TimerReset(x), srv[x].writes \subseteq s2.writes,
         NEW br2, browser' = [browser EXCEPT ![x] = br2],
         toServer' = [toServer EXCEPT ![x] = Tail(toServer[x])],
         UNCHANGED <<serverUp, clientVars, toClient, errors>>, s2.phase = "open",
         Stream(x, clientUp, s2, cli[x], br2, target[x], toClient[x], Tail(toServer[x]))
  PROVE  TunnelInv'
<1>0. /\ serverUp' = serverUp /\ clientUp' = clientUp /\ cli' = cli /\ tgt' = tgt
      /\ target' = target /\ toClient' = toClient /\ errors' = errors
  BY DEF clientVars
<1>1. x \in Streams BY DEF Open
<1>2. /\ srv = [y \in Streams |-> srv[y]] /\ browser = [y \in Streams |-> browser[y]]
      /\ toServer = [y \in Streams |-> toServer[y]]
  BY DEF TunnelInv, Arrays
<1>3. /\ srv' = [y \in Streams |-> srv'[y]] /\ srv'[x] = s2
      /\ \A y \in Streams \ {x} : srv'[y] = srv[y]
  BY <1>1, <1>2, Replaced
<1>4. /\ browser' = [y \in Streams |-> browser'[y]] /\ browser'[x] = br2
      /\ \A y \in Streams \ {x} : browser'[y] = browser[y]
  BY <1>1, <1>2, Replaced
<1>5. /\ toServer' = [y \in Streams |-> toServer'[y]] /\ toServer'[x] = Tail(toServer[x])
      /\ \A y \in Streams \ {x} : toServer'[y] = toServer[y]
  BY <1>1, <1>2, Replaced
<1>6. Arrays' BY <1>0, <1>3, <1>4, <1>5 DEF TunnelInv, Arrays
<1>7. At(x)' BY <1>0, <1>3, <1>4, <1>5 DEF At
<1>8. PICK T \in SUBSET Open : /\ slots' = [slots EXCEPT !["timers"] = T]
                               /\ slots["timers"] \ {x} \subseteq T
                               /\ x \notin T => srv'[x].writes # {}
  BY <1>3, TimersKept
<1>9. /\ \A y \in Streams \ {x} : srv'[y] = srv[y] /\ browser'[y] = browser[y]
      /\ \A y \in Streams \ {x} : toClient'[y] = toClient[y] /\ toServer'[y] = toServer[y]
      /\ srv'[x].phase = "open"
  BY <1>0, <1>3, <1>4, <1>5
<1> QED BY <1>0, <1>6, <1>7, <1>8, <1>9, RouterKeeps

LEMMA ServerReceivesKeeps ==
  ASSUME TunnelInv, NEW x \in Streams, ServerReceives(x) PROVE TunnelInv'
<1>0. x \in Open
  <2>1. x \in slots["handlers"] BY Zenon DEF ServerReceives
  <2> QED BY <2>1 DEF TunnelInv, SlotsMatch
<1>s. PICK s : s = srv[x] OBVIOUS
<1>f. PICK frame : frame = Head(toServer[x]) OBVIOUS
<1>i. /\ Stream(x, clientUp, s, cli[x], browser[x], target[x], toClient[x], toServer[x])
      /\ s.phase = "open" /\ HandlerTypes(x, s)
  BY <1>0, <1>s, OpenStream
<1>u. /\ toServer[x] # <<>> /\ serverUp' = serverUp /\ UNCHANGED clientVars
  BY Zenon DEF ServerReceives
<1> DEFINE taken == toServer' = [toServer EXCEPT ![x] = Tail(toServer[x])]
<1>b. browser = [browser EXCEPT ![x] = browser[x]] BY DEF TunnelInv, Arrays
<1>v. srv = [srv EXCEPT ![x] = s] BY <1>s DEF TunnelInv, Arrays
<1>1. ASSUME frame.type = "UPGRADE",
             \/ srv' = [srv EXCEPT ![x].upgraded = TRUE]
             \/ srv' = [srv EXCEPT ![x].writes = @ \cup {"refuse"}],
             slots' = TimerReset(x), taken, UNCHANGED <<browser, toClient, errors>>
      PROVE  TunnelInv'
  <2>1. ASSUME NEW s2, srv' = [srv EXCEPT ![x] = s2], HandlerTypes(x, s2),
               s2.phase = "open", s2.read = s.read, s2.buffer = s.buffer,
               s2.rest = s.rest, s2.pump = s.pump, s.writes \subseteq s2.writes
        PROVE  TunnelInv'
    <3>1. frame.type # "DATA" BY <1>1
    <3>2. Stream(x, clientUp, s2, cli[x], browser[x], target[x], toClient[x], Tail(toServer[x]))
      BY <1>i, <1>u, <1>f, <1>1, <2>1, <3>1, UpTaken
    <3>3. /\ browser' = [browser EXCEPT ![x] = browser[x]]
          /\ toServer' = [toServer EXCEPT ![x] = Tail(toServer[x])]
          /\ UNCHANGED <<serverUp, clientVars, toClient, errors>>
          /\ slots' = slots \/ slots' = TimerReset(x)
          /\ srv[x].writes \subseteq s2.writes
      BY <1>1, <1>b, <1>s, <1>u, <2>1
    <3> QED BY <1>0, <2>1, <3>2, <3>3, TakesKeeps
  <2>2. CASE srv' = [srv EXCEPT ![x].upgraded = TRUE]
    <3> DEFINE s2 == [s EXCEPT !.upgraded = TRUE]
    <3>1. HandlerTypes(x, s2) BY <1>i DEF HandlerTypes
    <3>2. /\ s2.phase = "open" /\ s2.read = s.read /\ s2.buffer = s.buffer
          /\ s2.rest = s.rest /\ s2.pump = s.pump /\ s2.writes = s.writes
      BY <1>i DEF HandlerTypes
    <3>3. srv' = [srv EXCEPT ![x] = s2]
      BY <1>i, <1>s, <2>2 DEF HandlerTypes, TunnelInv, Arrays
    <3> HIDE DEF s2
    <3> QED BY <2>1, <3>1, <3>2, <3>3
  <2>3. CASE srv' = [srv EXCEPT ![x].writes = @ \cup {"refuse"}]
    <3> DEFINE s2 == [s EXCEPT !.writes = s.writes \cup {"refuse"}]
    <3>1. HandlerTypes(x, s2) BY <1>i DEF HandlerTypes
    <3>2. /\ s2.phase = "open" /\ s2.read = s.read /\ s2.buffer = s.buffer
          /\ s2.rest = s.rest /\ s2.pump = s.pump /\ s.writes \subseteq s2.writes
      BY <1>i DEF HandlerTypes
    <3>3. srv' = [srv EXCEPT ![x] = s2]
      BY <1>i, <1>s, <2>3 DEF HandlerTypes, TunnelInv, Arrays
    <3> HIDE DEF s2
    <3> QED BY <2>1, <3>1, <3>2, <3>3
  <2> QED BY <1>1, <2>2, <2>3
<1>2. ASSUME frame.type = "DATA", s.upgraded, taken,
             browser' = [browser EXCEPT ![x] = Reassemble(TargetScript[x], @, frame)],
             NEW full \in BOOLEAN, NEW w \in {{}, {"close"}},
             srv' = [srv EXCEPT ![x].full = full, ![x].writes = @ \cup w],
             slots' = TimerReset(x), UNCHANGED <<toClient, errors>>
      PROVE  TunnelInv'
  <2> DEFINE s2 == [s EXCEPT !.full = full, !.writes = s.writes \cup w]
  <2>1. HandlerTypes(x, s2) BY <1>i DEF HandlerTypes
  <2>2. /\ s2.phase = "open" /\ s2.read = s.read /\ s2.buffer = s.buffer
        /\ s2.rest = s.rest /\ s2.pump = s.pump /\ s.writes \subseteq s2.writes
        /\ (s2.upgraded <=> s.upgraded)
    BY <1>i DEF HandlerTypes
  <2>3. srv' = [srv EXCEPT ![x] = s2]
    BY <1>i, <1>s, <1>2 DEF HandlerTypes, TunnelInv, Arrays
  <2> HIDE DEF s2
  <2>4. Stream(x, clientUp, s2, cli[x], Reassemble(TargetScript[x], browser[x], frame),
               target[x], toClient[x], Tail(toServer[x]))
    BY <1>i, <1>u, <1>f, <1>2, <2>1, <2>2, UpData
  <2>5. browser' = [browser EXCEPT ![x] = Reassemble(TargetScript[x], browser[x], frame)]
    BY <1>2 DEF TunnelInv, Arrays
  <2>6. /\ toServer' = [toServer EXCEPT ![x] = Tail(toServer[x])]
        /\ UNCHANGED <<serverUp, clientVars, toClient, errors>>
        /\ slots' = slots \/ slots' = TimerReset(x)
        /\ srv[x].writes \subseteq s2.writes
    BY <1>2, <1>s, <1>u, <2>2
  <2> QED BY <1>0, <2>2, <2>3, <2>4, <2>5, <2>6, TakesKeeps
<1>3. ASSUME frame.type = "DATA" => ~s.upgraded, taken,
             UNCHANGED <<srv, slots, browser, toClient, errors>>
      PROVE  TunnelInv'
  <2>1. Stream(x, clientUp, s, cli[x], browser[x], target[x], toClient[x], Tail(toServer[x]))
    BY <1>i, <1>u, <1>f, <1>3, UpTaken
  <2>2. srv' = [srv EXCEPT ![x] = s] /\ browser' = [browser EXCEPT ![x] = browser[x]]
    BY <1>3, <1>b, <1>v
  <2> QED BY <1>0, <1>3, <1>i, <1>s, <1>u, <2>1, <2>2, TakesKeeps
<1>4. ASSUME Cleanup({x}, "none"), UNCHANGED browser PROVE TunnelInv'
  <2>1. Ends(x, "none") BY <1>4, <1>u DEF Ends
  <2> QED BY <1>0, <2>1, EndsKeeps
<1>t. [toServer EXCEPT ![x] = Tail(@)] = [toServer EXCEPT ![x] = Tail(toServer[x])]
  BY DEF TunnelInv, Arrays
<1>5. ASSUME frame.type = "DATA", s.upgraded, taken,
             browser' = [browser EXCEPT ![x] = Reassemble(TargetScript[x], @, frame)],
             NEW full \in {FALSE, browser'[x].seen # browser[x].seen /\ ~browser'[x].closing},
             srv' = [srv EXCEPT ![x].full = full,
               ![x].writes = IF browser'[x].seen # browser[x].seen /\ browser'[x].closing
                             THEN @ \cup {"close"} ELSE @],
             slots' = TimerReset(x), UNCHANGED <<toClient, errors>>
      PROVE  TunnelInv'
  <2>1. full \in BOOLEAN BY <1>5, Zenon
  <2>2. CASE browser'[x].seen # browser[x].seen /\ browser'[x].closing
    <3>1. srv' = [srv EXCEPT ![x].full = full, ![x].writes = @ \cup {"close"}]
      BY <1>5, <2>2
    <3> QED BY <1>2, <1>5, <2>1, <3>1
  <2>3. CASE ~(browser'[x].seen # browser[x].seen /\ browser'[x].closing)
    <3>1. srv' = [srv EXCEPT ![x].full = full, ![x].writes = @]
      BY <1>5, <2>3
    <3>2. srv' = [srv EXCEPT ![x].full = full, ![x].writes = @ \cup {}]
      BY <3>1
    <3> QED BY <1>2, <1>5, <2>1, <3>2
  <2> QED BY <2>2, <2>3
<1> HIDE DEF taken
<1> QED
  BY <1>1, <1>3, <1>4, <1>5, <1>f, <1>s, <1>t, Zenon DEF ServerReceives, taken

(* Every action of the router keeps the invariant. *)
LEMMA RouterStepKeeps ==
  ASSUME TunnelInv, NEW x \in Streams, RouterStep(x) PROVE TunnelInv'
<1>1. CASE Refuse(x) BY <1>1, RefuseKeeps
<1>2. CASE Accept(x) BY <1>2, AcceptKeeps
<1>3. CASE AcceptFails(x) BY <1>3, AcceptFailsKeeps
<1>4. CASE BrowserData(x) BY <1>4, BrowserDataKeeps
<1>5. CASE Pump(x) BY <1>5, PumpKeeps
<1>6. CASE PoolDrain(x) BY <1>6, PoolDrainKeeps
<1>7. CASE BrowserDrain(x) BY <1>7, BrowserDrainKeeps
<1>8. CASE \/ BrowserEnds(x) \/ BrowserError(x) \/ ServerCancelled(x)
           \/ \E write \in srv[x].writes : WriteDone(x, write)
  BY <1>8, RouterEndsKeeps
<1>9. CASE IdleTimeout(x) BY <1>9, IdleTimeoutKeeps
<1>10. CASE ServerReceives(x) BY <1>10, ServerReceivesKeeps
<1> QED BY <1>1, <1>2, <1>3, <1>4, <1>5, <1>6, <1>7, <1>8, <1>9, <1>10, Zenon DEF RouterStep

(* The proxy's steps.                                                      *)
Requests == [req : {"none", "asking", "answered", "failed", "upgraded"},
             sock : {"none", "open", "gone"}]

(* An action of the proxy that touches one stream keeps the invariant when it keeps that
   stream's. *)
LEMMA ProxyRecordKeeps ==
  ASSUME TunnelInv, NEW x \in Streams,
         NEW c2, cli' = [cli EXCEPT ![x] = c2],
         NEW t2 \in Requests, tgt' = [tgt EXCEPT ![x] = t2],
         NEW tg2, target' = [target EXCEPT ![x] = tg2],
         NEW dn2, toClient' = [toClient EXCEPT ![x] = dn2],
         NEW us2, toServer' = [toServer EXCEPT ![x] = us2],
         errors' \subseteq {"client", "server"} \X Streams,
         UNCHANGED serverVars, clientUp' = clientUp,
         c2.phase \in {"asking", "open"} => clientUp,
         Stream(x, clientUp, srv[x], c2, browser[x], tg2, dn2, us2)
  PROVE  TunnelInv'
<1>0. serverUp' = serverUp /\ srv' = srv /\ slots' = slots /\ browser' = browser
  BY DEF serverVars
<1>a. /\ cli = [y \in Streams |-> cli[y]] /\ tgt = [y \in Streams |-> tgt[y]]
      /\ target = [y \in Streams |-> target[y]]
      /\ toClient = [y \in Streams |-> toClient[y]]
      /\ toServer = [y \in Streams |-> toServer[y]]
  BY DEF TunnelInv, Arrays
<1>1. /\ cli' = [y \in Streams |-> cli'[y]] /\ cli'[x] = c2
      /\ \A y \in Streams \ {x} : cli'[y] = cli[y]
  BY <1>a, Replaced
<1>2. /\ tgt' = [y \in Streams |-> tgt'[y]] /\ tgt'[x] = t2
      /\ \A y \in Streams \ {x} : tgt'[y] = tgt[y]
  BY <1>a, Replaced
<1>3. /\ target' = [y \in Streams |-> target'[y]] /\ target'[x] = tg2
      /\ \A y \in Streams \ {x} : target'[y] = target[y]
  BY <1>a, Replaced
<1>4. /\ toClient' = [y \in Streams |-> toClient'[y]] /\ toClient'[x] = dn2
      /\ \A y \in Streams \ {x} : toClient'[y] = toClient[y]
  BY <1>a, Replaced
<1>5. /\ toServer' = [y \in Streams |-> toServer'[y]] /\ toServer'[x] = us2
      /\ \A y \in Streams \ {x} : toServer'[y] = toServer[y]
  BY <1>a, Replaced
<1>6. Arrays' BY <1>0, <1>1, <1>2, <1>3, <1>4, <1>5 DEF TunnelInv, Arrays
<1>7. At(x)' BY <1>0, <1>1, <1>3, <1>4, <1>5 DEF At
<1>8. tgt'[x] \in [req : {"none", "asking", "answered", "failed", "upgraded"},
                   sock : {"none", "open", "gone"}]
  BY <1>2 DEF Requests
<1>9. /\ \A y \in Streams \ {x} :
           cli'[y] = cli[y] /\ tgt'[y] = tgt[y] /\ target'[y] = target[y]
      /\ \A y \in Streams \ {x} : toClient'[y] = toClient[y] /\ toServer'[y] = toServer[y]
      /\ cli'[x].phase \in {"asking", "open"} => clientUp
  BY <1>1, <1>2, <1>3, <1>4, <1>5
<1> QED BY <1>6, <1>7, <1>8, <1>9, ProxyKeeps

(* Every record may be written back unchanged, so that the lemma above covers the actions
   that write only some. *)
LEMMA ProxySame ==
  ASSUME TunnelInv, NEW x \in Streams
  PROVE  /\ cli = [cli EXCEPT ![x] = cli[x]] /\ tgt = [tgt EXCEPT ![x] = tgt[x]]
         /\ target = [target EXCEPT ![x] = target[x]]
         /\ toClient = [toClient EXCEPT ![x] = toClient[x]]
         /\ toServer = [toServer EXCEPT ![x] = toServer[x]]
         /\ errors \subseteq {"client", "server"} \X Streams
         /\ Stream(x, clientUp, srv[x], cli[x], browser[x], target[x], toClient[x], toServer[x])
         /\ ProxyTypes(x, cli[x]) /\ target[x] \in Input /\ tgt[x] \in Requests
         /\ SockGone(tgt[x]) \in Requests
         /\ cli[x].phase \in {"asking", "open"} => clientUp
<1>1. Arrays /\ TypeOK /\ Lives BY DEF TunnelInv
<1>2. Stream(x, clientUp, srv[x], cli[x], browser[x], target[x], toClient[x], toServer[x])
  BY DEF TunnelInv, At
<1>3. ProxyTypes(x, cli[x]) /\ target[x] \in Input BY <1>2 DEF Stream, Types
<1>4. tgt[x] \in Requests /\ SockGone(tgt[x]) \in Requests
  BY <1>1, TgtTypes, SockTyped DEF Requests
<1>5. cli[x].phase \in {"asking", "open"} => clientUp BY <1>1 DEF Lives, Linked
<1>6. errors \subseteq {"client", "server"} \X Streams BY <1>1, TgtTypes
<1>7. cli = [cli EXCEPT ![x] = cli[x]] /\ tgt = [tgt EXCEPT ![x] = tgt[x]]
  BY <1>1 DEF Arrays
<1>8. target = [target EXCEPT ![x] = target[x]] BY <1>1 DEF Arrays
<1>9. toClient = [toClient EXCEPT ![x] = toClient[x]] BY <1>1 DEF Arrays
<1>10. toServer = [toServer EXCEPT ![x] = toServer[x]] BY <1>1 DEF Arrays
<1> QED BY <1>2, <1>3, <1>4, <1>5, <1>6, <1>7, <1>8, <1>9, <1>10

(* A reply reaches the wire only while the server still has the stream. *)
LEMMA Replied ==
  ASSUME TunnelInv, NEW x \in Streams, NEW q, Reply(x, q)
  PROVE  toServer' = [toServer EXCEPT ![x] = IF srv[x].phase = "open"
                                             THEN toServer[x] \o q ELSE toServer[x]]
<1>1. ServerListens(x) <=> srv[x].phase = "open"
  <2>1. x \in Open <=> srv[x].phase = "open" BY DEF Open
  <2>2. x \in Open => serverUp BY DEF TunnelInv, Lives
  <2> QED BY <2>1, <2>2 DEF ServerListens
<1>2. toServer = [toServer EXCEPT ![x] = toServer[x]] BY ProxySame
<1>3. toServer' = IF ServerListens(x) THEN [toServer EXCEPT ![x] = toServer[x] \o q]
                                      ELSE toServer
  BY DEF Reply
<1> QED BY <1>1, <1>2, <1>3

(* The stream is over at the proxy.                                        *)
LEMMA GoneKeeps ==
  ASSUME TunnelInv, NEW x \in Streams, cli[x].phase # "none",
         NEW c2, ProxyTypes(x, c2), c2.phase \in {"done", "stuck"}, c2.early = <<>>,
         ~c2.finish, cli' = [cli EXCEPT ![x] = c2],
         NEW t2 \in Requests, tgt' = [tgt EXCEPT ![x] = t2],
         toClient' = [toClient EXCEPT ![x] = <<>>],
         \/ toServer' = toServer
         \/ cli[x].phase = "open" /\ Reply(x, <<Control("FIN")>>),
         errors' \subseteq {"client", "server"} \X Streams,
         UNCHANGED <<clientUp, target, serverVars>>
  PROVE  TunnelInv'
<1>1. Stream(x, clientUp, srv[x], cli[x], browser[x], target[x], toClient[x], toServer[x])
  BY ProxySame
<1>2. PICK us2 : /\ toServer' = [toServer EXCEPT ![x] = us2]
                 /\ LastWord(srv[x], cli[x], toServer[x], us2)
  <2>1. CASE toServer' = toServer
    <3>1. toServer' = [toServer EXCEPT ![x] = toServer[x]] BY <2>1, ProxySame
    <3> QED BY <3>1 DEF LastWord
  <2>2. CASE cli[x].phase = "open" /\ Reply(x, <<Control("FIN")>>)
    <3>1. toServer' = [toServer EXCEPT ![x] = IF srv[x].phase = "open"
                                   THEN toServer[x] \o <<Control("FIN")>> ELSE toServer[x]]
      BY <2>2, Replied
    <3> QED BY <2>2, <3>1 DEF LastWord
  <2> QED BY <2>1, <2>2
<1>3. Stream(x, clientUp, srv[x], c2, browser[x], target[x], <<>>, us2)
  <2>1. Over(cli[x], clientUp, c2) BY DEF Over
  <2> QED BY <1>1, <1>2, <2>1, ProxyGone
<1>4. target' = [target EXCEPT ![x] = target[x]] BY ProxySame
<1>5. c2.phase \in {"asking", "open"} => clientUp OBVIOUS
<1>6. UNCHANGED serverVars /\ clientUp' = clientUp OBVIOUS
<1> QED BY <1>2, <1>3, <1>4, <1>5, <1>6, ProxyRecordKeeps

LEMMA QuitKeeps ==
  ASSUME TunnelInv, NEW x \in Streams, cli[x].phase # "none", Quit(x),
         \/ toServer' = toServer
         \/ cli[x].phase = "open" /\ Reply(x, <<Control("FIN")>>),
         errors' \subseteq {"client", "server"} \X Streams
  PROVE  TunnelInv'
<1>1. /\ cli' = [y \in Streams |-> IF y = x THEN Completed ELSE cli[y]]
      /\ tgt' = [y \in Streams |-> IF y = x THEN SockGone(tgt[y]) ELSE tgt[y]]
      /\ toClient' = [toClient EXCEPT ![x] = <<>>]
      /\ UNCHANGED <<clientUp, target, serverVars>>
  BY DEF Quit, Finished
<1>2. cli = [y \in Streams |-> cli[y]] /\ tgt = [y \in Streams |-> tgt[y]]
  BY DEF TunnelInv, Arrays
<1>3. cli' = [cli EXCEPT ![x] = Completed]
  <2>1. PICK c : c = Completed OBVIOUS
  <2>2. [cli EXCEPT ![x] = c] = [y \in Streams |-> IF y = x THEN c ELSE cli[y]]
    BY <1>2
  <2> QED BY <1>1, <2>1, <2>2
<1>4. tgt' = [tgt EXCEPT ![x] = SockGone(tgt[x])] BY <1>1, <1>2
<1>5. SockGone(tgt[x]) \in Requests BY ProxySame
<1> QED BY <1>1, <1>3, <1>4, <1>5, CompletedTyped, GoneKeeps

LEMMA QuitWithFinKeeps ==
  ASSUME TunnelInv, NEW x \in Streams, cli[x].phase # "none", QuitWithFin(x)
  PROVE  TunnelInv'
<1>1. Quit(x) /\ errors' \subseteq errors BY DEF QuitWithFin
<1>2. \/ toServer' = toServer
      \/ cli[x].phase = "open" /\ Reply(x, <<Control("FIN")>>)
  <2>1. CASE cli[x].phase = "open" BY <2>1 DEF QuitWithFin
  <2>2. CASE cli[x].phase # "open"
    <3>1. Reply(x, <<>>) BY <2>2 DEF QuitWithFin
    <3>2. toServer[x] \o <<>> = toServer[x]
      <4>1. toServer[x] \in Seq(Pieces(x) \cup Controls)
        BY ProxySame DEF Stream, Types, Wire
      <4> QED BY <4>1, ConcatEmptySeq
    <3>3. toServer' = [toServer EXCEPT ![x] = toServer[x]] BY <3>1, <3>2, Replied
    <3> QED BY <3>3, ProxySame
  <2> QED BY <2>1, <2>2
<1>3. errors' \subseteq {"client", "server"} \X Streams BY <1>1, ProxySame
<1> QED BY <1>1, <1>2, <1>3, QuitKeeps

(* What Deliver and Processed come to.                                     *)
LEMMA Delivers ==
  ASSUME NEW x \in Streams, NEW c, ProxyTypes(x, c), NEW in, in \in Input, NEW q,
         q \in Seq(Pieces(x)), Deliver(x, c, in, q)
  PROVE  /\ target' = [target EXCEPT ![x] = Delivered(BrowserScript[x], in, q)]
         /\ \E full \in BOOLEAN, timer \in BOOLEAN :
              cli' = [cli EXCEPT ![x] = [c EXCEPT !.full = full, !.timer = timer]]
<1> DEFINE out == Delivered(BrowserScript[x], in, q)
<1>1. /\ target' = [target EXCEPT ![x] = out]
      /\ \E full \in {c.full, out.seen # in.seen} :
           cli' = [cli EXCEPT ![x] =
             [c EXCEPT !.full = full, !.timer = @ \/ (out.closing /\ ~in.closing)]]
  BY Zenon DEF Deliver, Delivered
<1>2. c.full \in BOOLEAN /\ c.timer \in BOOLEAN BY DEF ProxyTypes
<1>3. PICK full \in {c.full, out.seen # in.seen} :
        cli' = [cli EXCEPT ![x] =
          [c EXCEPT !.full = full, !.timer = @ \/ (out.closing /\ ~in.closing)]]
  BY <1>1
<1>4. full \in BOOLEAN BY <1>2, <1>3, Zenon
<1>5. PICK timer \in BOOLEAN : timer = (c.timer \/ (out.closing /\ ~in.closing)) BY Zenon
<1>6. [c EXCEPT !.full = full, !.timer = @ \/ (out.closing /\ ~in.closing)]
        = [c EXCEPT !.full = full, !.timer = timer]
  <2> PICK b \in BOOLEAN : b = (out.closing /\ ~in.closing) BY Zenon
  <2>1. (c.timer \/ b) = timer BY <1>5, Zenon
  <2>2. [c EXCEPT !.full = full, !.timer = c.timer \/ b] = [c EXCEPT !.full = full, !.timer = timer]
    BY <2>1
  <2> QED BY <2>2
<1>7. cli' = [cli EXCEPT ![x] = [c EXCEPT !.full = full, !.timer = timer]]
  BY <1>3, <1>6, Zenon
<1>8. target' = [target EXCEPT ![x] = out] BY <1>1
<1> HIDE DEF out
<1>9. \E f \in BOOLEAN, u \in BOOLEAN :
        cli' = [cli EXCEPT ![x] = [c EXCEPT !.full = f, !.timer = u]]
  BY <1>4, <1>5, <1>7, Zenon
<1> QED BY <1>8, <1>9, Zenon DEF out

(* Every outcome of processing the target's data is an advance along its script. *)
LEMMA Processes ==
  ASSUME NEW x \in Streams, NEW c, ProxyTypes(x, c), NEW b, Held(TargetScript[x], c, b),
         NEW n \in c.read .. Len(TargetScript[x]), NEW step \in Processed(x, c, n)
  PROVE  /\ Advance(x, c, step.sent, step.c) /\ ProxyTypes(x, step.c)
         /\ step.c.phase = c.phase /\ step.c.early = c.early /\ step.closes \in BOOLEAN
<1>0. Len(TargetScript[x]) \in Nat BY ScriptsIn
<1> PICK S : S = TargetScript[x] OBVIOUS
<1> PICK out : out = [c EXCEPT !.read = n,
                               !.buffer = @ \o SubSeq(Upto(n), c.read + 1, n)]
  OBVIOUS
<1> DEFINE pieces == Output(S, out)
           Outcome(k, blocked, paused) ==
             [sent |-> SubSeq(pieces, 1, k),
              closes |-> ~blocked /\ Closes(S, pieces),
              c |-> [Sent(S, out, k) EXCEPT
                       !.blocked = blocked, !.paused = paused,
                       !.finish = @ \/ (~blocked /\ Closes(S, pieces))]]
<1>a. c.paused \in BOOLEAN BY DEF ProxyTypes
<1>1. \/ \E k \in DOMAIN pieces : step = Outcome(k, TRUE, TRUE)
      \/ \E paused \in BOOLEAN : step = Outcome(Len(pieces), FALSE, paused)
  BY <1>a, Zenon DEF Processed
<1>c. c \in [phase : {"none", "asking", "open", "stuck", "done"},
            early : Seq(Pieces(x)), full : BOOLEAN, timer : BOOLEAN,
            paused : BOOLEAN, read : Nat, buffer : Seq(Nat), rest : Seq(Pieces(x)),
            blocked : BOOLEAN, finish : BOOLEAN]
  BY DEF ProxyTypes
<1>o. /\ out.read = n /\ out.rest = c.rest
      /\ out.buffer = c.buffer \o SubSeq(Upto(n), c.read + 1, n)
  BY <1>c
<1>h. Held(S, out, b)
  <2>1. Held(S, c, b) /\ Len(S) \in Nat /\ n \in c.read .. Len(S) BY <1>0
  <2> QED BY <1>o, <2>1, ReadHeld
<1>l. Len(pieces) \in Nat /\ DOMAIN pieces = 1 .. Len(pieces)
  <2>1. pieces \in Seq(PiecesIn(S)) BY <1>0, <1>h, HeldPath
  <2> HIDE DEF pieces
  <2> QED BY <2>1
<1>2. PICK k \in 0 .. Len(pieces), blocked \in BOOLEAN, paused \in BOOLEAN :
        step = Outcome(k, blocked, paused)
  <2>1. CASE \E k \in DOMAIN pieces : step = Outcome(k, TRUE, TRUE)
    <3>1. PICK k \in DOMAIN pieces : step = Outcome(k, TRUE, TRUE) BY <2>1, Zenon
    <3> HIDE DEF Outcome, pieces
    <3>2. k \in 0 .. Len(pieces) BY <1>l, <3>1
    <3> QED BY <3>1, <3>2, Zenon
  <2>2. CASE \E paused \in BOOLEAN : step = Outcome(Len(pieces), FALSE, paused)
    <3>1. PICK paused \in BOOLEAN : step = Outcome(Len(pieces), FALSE, paused) BY <2>2, Zenon
    <3> HIDE DEF Outcome, pieces
    <3>2. Len(pieces) \in 0 .. Len(pieces) BY <1>l
    <3> QED BY <3>1, <3>2, Zenon
  <2> HIDE DEF Outcome, pieces
  <2> QED BY <1>1, <2>1, <2>2
<1>3. PICK closes \in BOOLEAN : closes = (~blocked /\ Closes(S, pieces)) BY Zenon
<1>4. PICK finish \in BOOLEAN : finish = (c.finish \/ closes) BY Zenon
<1>t. /\ SentBuffer(S, out, k) \in Seq(Nat) /\ SentRest(S, out, k) \in Seq(Pieces(x))
      /\ Len(SentRest(S, out, k)) <= 1
  BY <1>h, <1>2, SentTyped
<1>5. PICK buffer \in Seq(Nat) : buffer = SentBuffer(S, out, k) BY <1>t
<1>6. PICK rest \in Seq(Pieces(x)) : rest = SentRest(S, out, k) /\ Len(rest) <= 1 BY <1>t
<1>7. Sent(S, out, k) = [out EXCEPT !.rest = rest, !.buffer = buffer]
  BY <1>5, <1>6 DEF Sent, SentRest, SentBuffer, Begun
<1>8. step.sent = SubSeq(pieces, 1, k) /\ step.closes = closes
  BY <1>2, <1>3
<1> DEFINE c2 == [c EXCEPT !.read = n, !.rest = rest, !.buffer = buffer,
                           !.blocked = blocked, !.paused = paused, !.finish = finish]
<1>9. step.c = c2
  <2>1. step.c = [Sent(S, out, k) EXCEPT !.blocked = blocked, !.paused = paused,
                                         !.finish = @ \/ (~blocked /\ Closes(S, pieces))]
    BY <1>2
  <2>2. step.c = [Sent(S, out, k) EXCEPT !.blocked = blocked, !.paused = paused,
                                         !.finish = @ \/ closes]
    BY <1>3, <2>1
  <2>3. Sent(S, out, k).finish = c.finish BY <1>7, <1>c
  <2>4. (Sent(S, out, k).finish \/ closes) = finish BY <1>4, <2>3
  <2>5. step.c = [Sent(S, out, k) EXCEPT !.blocked = blocked, !.paused = paused,
                                         !.finish = finish]
    BY <2>2, <2>4
  <2>6. step.c = [[out EXCEPT !.rest = rest, !.buffer = buffer]
                    EXCEPT !.blocked = blocked, !.paused = paused, !.finish = finish]
    BY <1>7, <2>5
  <2> QED BY <1>c, <2>6
<1>n. n \in Nat
  <2>1. c.read \in Nat BY <1>c
  <2>2. PICK r \in Nat : r = c.read BY <2>1
  <2>3. PICK l \in Nat : l = Len(TargetScript[x]) BY <1>0
  <2>4. n \in r .. l BY <2>2, <2>3
  <2> QED BY <2>4
<1>10. /\ ProxyTypes(x, c2) /\ c2.phase = c.phase /\ c2.early = c.early /\ c2.read = n
       /\ c2.rest = rest /\ c2.buffer = buffer
  BY <1>c, <1>n, <1>6 DEF ProxyTypes
<1> HIDE DEF c2, Outcome, pieces
<1>11. /\ step.sent = SubSeq(pieces, 1, k)
       /\ ProxyTypes(x, step.c) /\ step.c.phase = c.phase /\ step.c.early = c.early
       /\ step.c.read = n /\ step.c.rest = SentRest(S, out, k)
       /\ step.c.buffer = SentBuffer(S, out, k)
  BY <1>5, <1>6, <1>8, <1>9, <1>10
<1>12. step.closes \in BOOLEAN BY <1>8, Zenon
<1>13. \E j \in 0 .. Len(Output(S, out)) :
         /\ step.sent = SubSeq(Output(S, out), 1, j) /\ step.c.read = n
         /\ step.c.rest = SentRest(S, out, j) /\ step.c.buffer = SentBuffer(S, out, j)
  BY <1>2, <1>11 DEF pieces
<1>14. Advance(x, c, step.sent, step.c) BY <1>o, <1>13, Zenon DEF Advance
<1> QED BY <1>11, <1>12, <1>14

LEMMA ClientReceivesKeeps ==
  ASSUME TunnelInv, NEW x \in Streams, ClientReceives(x) PROVE TunnelInv'
<1>u. clientUp /\ toClient[x] # <<>> BY Zenon DEF ClientReceives
<1>f. PICK frame : frame = Head(toClient[x]) OBVIOUS
<1>c. PICK c : c = cli[x] OBVIOUS
<1>i. /\ Stream(x, clientUp, srv[x], c, browser[x], target[x], toClient[x], toServer[x])
      /\ ProxyTypes(x, c) /\ target[x] \in Input /\ tgt[x] \in Requests
      /\ errors \subseteq {"client", "server"} \X Streams
  BY <1>c, ProxySame
<1>t. c \in [phase : {"none", "asking", "open", "stuck", "done"},
            early : Seq(Pieces(x)), full : BOOLEAN, timer : BOOLEAN,
            paused : BOOLEAN, read : Nat, buffer : Seq(Nat), rest : Seq(Pieces(x)),
            blocked : BOOLEAN, finish : BOOLEAN]
  BY <1>i DEF ProxyTypes
<1>h. toClient[x] \in Wire(x) /\ frame = toClient[x][1] /\ frame \in Pieces(x) \cup Controls
      /\ 1 \in 1 .. Len(toClient[x])
  BY <1>f, <1>i, <1>u, TailOfWire DEF Stream, Types
<1>n. frame.type # "UPGRADE" => c.phase # "none"
  <2>1. DownWire(clientUp, srv[x], c, toClient[x]) BY <1>i DEF Stream
  <2> QED BY <1>h, <1>u, <2>1 DEF DownWire
<1>e. /\ cli = [cli EXCEPT ![x] = c] /\ tgt = [tgt EXCEPT ![x] = tgt[x]]
      /\ target = [target EXCEPT ![x] = target[x]]
      /\ toServer = [toServer EXCEPT ![x] = toServer[x]]
  BY <1>c, ProxySame
<1> DEFINE taken == toClient' = [toClient EXCEPT ![x] = Tail(toClient[x])]
<1>1. ASSUME frame.type = "UPGRADE", cli' = [cli EXCEPT ![x].phase = "asking"],
             tgt' = [tgt EXCEPT ![x].req = "asking"], taken,
             UNCHANGED <<clientUp, target, toServer, errors, serverVars>>
      PROVE  TunnelInv'
  <2> DEFINE c2 == [c EXCEPT !.phase = "asking"]
             t2 == [tgt[x] EXCEPT !.req = "asking"]
  <2>1. ProxyTypes(x, c2) BY <1>i DEF ProxyTypes
  <2>2. t2 \in Requests BY <1>i DEF Requests
  <2>3. cli' = [cli EXCEPT ![x] = c2] BY <1>1, <1>c, <1>t DEF TunnelInv, Arrays
  <2>4. tgt' = [tgt EXCEPT ![x] = t2] BY <1>1, <1>i DEF TunnelInv, Arrays, Requests
  <2>5. Stream(x, clientUp, srv[x], c2, browser[x], target[x], Tail(toClient[x]), toServer[x])
    BY <1>1, <1>f, <1>i, <1>u, <2>1, Asks
  <2> HIDE DEF c2, t2
  <2>6. /\ UNCHANGED serverVars /\ clientUp' = clientUp
        /\ target' = [target EXCEPT ![x] = target[x]]
        /\ toServer' = [toServer EXCEPT ![x] = toServer[x]]
        /\ errors' \subseteq {"client", "server"} \X Streams
    BY <1>1, <1>e, <1>i
  <2> QED BY <1>1, <1>u, <2>2, <2>3, <2>4, <2>5, <2>6, ProxyRecordKeeps
<1>2. ASSUME frame.type = "DATA", c.phase = "asking",
             cli' = [cli EXCEPT ![x].early = Append(@, frame)], taken,
             UNCHANGED <<clientUp, tgt, target, toServer, errors, serverVars>>
      PROVE  TunnelInv'
  <2> DEFINE c2 == [c EXCEPT !.early = Append(@, frame)]
  <2>0. frame \in Pieces(x) BY <1>2, <1>h, PiecesIncluded
  <2>1. ProxyTypes(x, c2)
    <3>1. PICK e \in Seq(Pieces(x)) : e = Append(c.early, frame)
      <4>1. Append(c.early, frame) \in Seq(Pieces(x)) BY <1>t, <2>0, AppendProperties
      <4> QED BY <4>1
    <3>2. ProxyTypes(x, [c EXCEPT !.early = e]) BY <1>i DEF ProxyTypes
    <3>3. [c EXCEPT !.early = e] = c2 BY <3>1
    <3> QED BY <3>2, <3>3
  <2>3. cli' = [cli EXCEPT ![x] = c2] BY <1>2, <1>c, <1>t DEF TunnelInv, Arrays
  <2>4. c2 = [c EXCEPT !.early = Append(@, Head(toClient[x]))] BY <1>f
  <2> HIDE DEF c2
  <2>5. Stream(x, clientUp, srv[x], c2, browser[x], target[x], Tail(toClient[x]), toServer[x])
    BY <1>2, <1>f, <1>i, <1>u, <2>1, <2>4, Early
  <2>6. /\ UNCHANGED serverVars /\ clientUp' = clientUp
        /\ target' = [target EXCEPT ![x] = target[x]] /\ tgt' = [tgt EXCEPT ![x] = tgt[x]]
        /\ toServer' = [toServer EXCEPT ![x] = toServer[x]]
        /\ errors' \subseteq {"client", "server"} \X Streams
    BY <1>2, <1>e, <1>i
  <2> QED BY <1>2, <1>i, <1>u, <2>3, <2>5, <2>6, ProxyRecordKeeps
<1>3. ASSUME frame.type = "DATA", c.phase # "asking", Deliver(x, c, target[x], <<frame>>),
             taken, UNCHANGED <<clientUp, tgt, toServer, errors, serverVars>>
      PROVE  TunnelInv'
  <2>0. frame \in Pieces(x) BY <1>3, <1>h, PiecesIncluded
  <2>q. PICK q \in Seq(Pieces(x)) : q = <<frame>>
    <3>1. <<frame>> \in Seq(Pieces(x)) BY <2>0
    <3> QED BY <3>1
  <2>1. Deliver(x, c, target[x], q) BY <1>3, <2>q
  <2>2. /\ target' = [target EXCEPT ![x] = Delivered(BrowserScript[x], target[x], q)]
        /\ \E full \in BOOLEAN, timer \in BOOLEAN :
             cli' = [cli EXCEPT ![x] = [c EXCEPT !.full = full, !.timer = timer]]
    BY <1>i, <2>1, Delivers, Zenon
  <2>3. PICK full \in BOOLEAN, timer \in BOOLEAN :
          cli' = [cli EXCEPT ![x] = [c EXCEPT !.full = full, !.timer = timer]]
    BY <2>2, Zenon
  <2> DEFINE c2 == [c EXCEPT !.full = full, !.timer = timer]
  <2>4. ProxyTypes(x, c2) BY <1>i DEF ProxyTypes
  <2>5. /\ c2.phase = c.phase /\ c2.early = c.early /\ c2.finish = c.finish
        /\ c2.read = c.read /\ c2.buffer = c.buffer /\ c2.rest = c.rest
    BY <1>t
  <2> PICK tg2 : tg2 = Delivered(BrowserScript[x], target[x], q) OBVIOUS
  <2> HIDE DEF c2
  <2>6. Stream(x, clientUp, srv[x], c2, browser[x], tg2, Tail(toClient[x]), toServer[x])
    <3>1. tg2 = Delivered(BrowserScript[x], target[x], <<Head(toClient[x])>>) BY <1>f, <2>q
    <3> QED BY <1>3, <1>f, <1>i, <1>u, <2>4, <2>5, <3>1, DeliveredOne
  <2>7. /\ UNCHANGED serverVars /\ clientUp' = clientUp
        /\ tgt' = [tgt EXCEPT ![x] = tgt[x]]
        /\ toServer' = [toServer EXCEPT ![x] = toServer[x]]
        /\ errors' \subseteq {"client", "server"} \X Streams
    BY <1>3, <1>e, <1>i
  <2>8. cli' = [cli EXCEPT ![x] = c2] BY <2>3 DEF c2
  <2> QED BY <1>3, <1>i, <1>u, <2>2, <2>6, <2>7, <2>8, ProxyRecordKeeps
<1>4. ASSUME frame.type = "FIN", target[x].closing, taken,
             UNCHANGED <<clientVars, toServer, errors, serverVars>>
      PROVE  TunnelInv'
  <2>1. Stream(x, clientUp, srv[x], c, browser[x], target[x], Tail(toClient[x]), toServer[x])
    BY <1>4, <1>f, <1>i, <1>u, DownIgnored
  <2>2. /\ UNCHANGED serverVars /\ clientUp' = clientUp
        /\ cli' = [cli EXCEPT ![x] = c] /\ tgt' = [tgt EXCEPT ![x] = tgt[x]]
        /\ target' = [target EXCEPT ![x] = target[x]]
        /\ toServer' = [toServer EXCEPT ![x] = toServer[x]]
        /\ errors' \subseteq {"client", "server"} \X Streams
    BY <1>4, <1>e, <1>i DEF clientVars
  <2> QED BY <1>4, <1>i, <1>u, <2>1, <2>2, ProxyRecordKeeps
<1>5. CASE QuitUnanswered(x) BY <1>5, AbortKeeps DEF QuitUnanswered
<1>6. CASE frame.type = "FIN" /\ QuitWithFin(x) BY <1>6, <1>c, <1>n, QuitWithFinKeeps
<1>7. [toClient EXCEPT ![x] = Tail(@)] = [toClient EXCEPT ![x] = Tail(toClient[x])]
  BY DEF TunnelInv, Arrays
<1> HIDE DEF taken
<1> QED
  BY <1>1, <1>2, <1>3, <1>4, <1>5, <1>6, <1>7, <1>f, <1>c, Zenon DEF ClientReceives, taken

(* The state of the request to the target is free to change. *)
LEMMA TgtKeeps ==
  ASSUME TunnelInv, NEW x \in Streams, NEW t2 \in Requests, tgt' = [tgt EXCEPT ![x] = t2],
         UNCHANGED <<clientUp, cli, target, toClient, toServer, errors, serverVars>>
  PROVE  TunnelInv'
<1>1. /\ cli' = [cli EXCEPT ![x] = cli[x]] /\ target' = [target EXCEPT ![x] = target[x]]
      /\ toClient' = [toClient EXCEPT ![x] = toClient[x]]
      /\ toServer' = [toServer EXCEPT ![x] = toServer[x]]
      /\ errors' \subseteq {"client", "server"} \X Streams
      /\ Stream(x, clientUp, srv[x], cli[x], browser[x], target[x], toClient[x], toServer[x])
      /\ cli[x].phase \in {"asking", "open"} => clientUp
  BY ProxySame
<1>2. UNCHANGED serverVars /\ clientUp' = clientUp OBVIOUS
<1> QED BY <1>1, <1>2, ProxyRecordKeeps

LEMMA TargetAnswersKeeps ==
  ASSUME TunnelInv, NEW x \in Streams, TargetAnswers(x) PROVE TunnelInv'
<1>1. tgt[x] \in Requests BY ProxySame
<1> DEFINE t2 == [tgt[x] EXCEPT !.req = "answered"]
<1>2. t2 \in Requests BY <1>1 DEF Requests
<1>3. tgt' = [tgt EXCEPT ![x] = t2]
  BY <1>1 DEF TargetAnswers, Requests, TunnelInv, Arrays
<1>4. UNCHANGED <<clientUp, cli, target, toClient, toServer, errors, serverVars>>
  BY DEF TargetAnswers, wires
<1> HIDE DEF t2
<1> QED BY <1>2, <1>3, <1>4, TgtKeeps

LEMMA TargetDrainKeeps ==
  ASSUME TunnelInv, NEW x \in Streams, TargetDrain(x) PROVE TunnelInv'
<1>c. PICK c : c = cli[x] OBVIOUS
<1>i. /\ Stream(x, clientUp, srv[x], c, browser[x], target[x], toClient[x], toServer[x])
      /\ ProxyTypes(x, c) /\ tgt[x] \in Requests
      /\ c.phase \in {"asking", "open"} => clientUp
  BY <1>c, ProxySame
<1> DEFINE c2 == [c EXCEPT !.full = FALSE]
<1>1. ProxyTypes(x, c2) BY <1>i DEF ProxyTypes
<1>2. /\ c2.phase = c.phase /\ c2.early = c.early /\ c2.finish = c.finish
      /\ c2.read = c.read /\ c2.buffer = c.buffer /\ c2.rest = c.rest
  BY <1>i DEF ProxyTypes
<1>n. c.phase # "none" /\ (c.finish => c.phase = "open")
  <2>1. Unanswered(srv[x], c, browser[x], target[x], toServer[x]) BY <1>i DEF Stream
  <2>2. c.full BY <1>c DEF TargetDrain
  <2>3. ~NewProxy.full BY DEF NewProxy
  <2> QED BY <2>1, <2>2, <2>3 DEF Unanswered
<1>3. cli' = [cli EXCEPT ![x] = c2]
  BY <1>c, <1>i DEF TargetDrain, ProxyTypes, TunnelInv, Arrays
<1> HIDE DEF c2
<1>4. Stream(x, clientUp, srv[x], c2, browser[x], target[x], toClient[x], toServer[x])
  BY <1>i, <1>n, <1>1, <1>2, ProxyAside
<1>5. /\ tgt' = [tgt EXCEPT ![x] = tgt[x]] /\ target' = [target EXCEPT ![x] = target[x]]
      /\ toClient' = [toClient EXCEPT ![x] = toClient[x]]
      /\ toServer' = [toServer EXCEPT ![x] = toServer[x]]
      /\ errors' \subseteq {"client", "server"} \X Streams
      /\ UNCHANGED serverVars /\ clientUp' = clientUp
  BY ProxySame DEF TargetDrain, wires
<1> QED BY <1>i, <1>2, <1>3, <1>4, <1>5, ProxyRecordKeeps

LEMMA TargetDataKeeps ==
  ASSUME TunnelInv, NEW x \in Streams, TargetData(x) PROVE TunnelInv'
<1>0. cli[x].phase = "open" BY Zenon DEF TargetData
<1>c. PICK c : c = cli[x] OBVIOUS
<1>g. PICK tg : tg = target[x] OBVIOUS
<1>i. /\ Stream(x, clientUp, srv[x], c, browser[x], tg, toClient[x], toServer[x])
      /\ ProxyTypes(x, c) /\ tgt[x] \in Requests /\ tg \in Input /\ c.phase = "open"
      /\ c.phase \in {"asking", "open"} => clientUp
  BY <1>0, <1>c, <1>g, ProxySame
<1>1. CASE QuitWithFin(x) BY <1>0, <1>1, QuitWithFinKeeps
<1>2. ASSUME NEW n \in c.read + 1 .. Len(TargetScript[x]), NEW step \in Processed(x, c, n),
             Reply(x, step.sent), cli' = [cli EXCEPT ![x] = step.c],
             target' = [target EXCEPT ![x].closing = @ \/ step.closes],
             UNCHANGED <<clientUp, tgt, toClient, errors, serverVars>>
      PROVE  TunnelInv'
  <2>0. Len(TargetScript[x]) \in Nat BY ScriptsIn
  <2>h. PICK b \in Nat : Held(TargetScript[x], c, b) BY <1>i DEF Stream, Up
  <2>n. n \in c.read .. Len(TargetScript[x])
    <3>1. c.read \in Nat BY <1>i DEF ProxyTypes
    <3>2. PICK r \in Nat : r = c.read BY <3>1
    <3>3. PICK l \in Nat : l = Len(TargetScript[x]) BY <2>0
    <3>4. n \in r .. l BY <1>2, <3>2, <3>3
    <3> QED BY <3>2, <3>3, <3>4
  <2>2. /\ Advance(x, c, step.sent, step.c) /\ ProxyTypes(x, step.c)
        /\ step.c.phase = c.phase /\ step.c.early = c.early /\ step.closes \in BOOLEAN
    BY <1>i, <1>2, <2>h, <2>n, Processes
  <2>3. PICK us2 : us2 = IF srv[x].phase = "open" THEN toServer[x] \o step.sent
                                                  ELSE toServer[x]
    OBVIOUS
  <2>4. toServer' = [toServer EXCEPT ![x] = us2]
    <3>1. toServer' = [toServer EXCEPT ![x] = IF srv[x].phase = "open"
                                 THEN toServer[x] \o step.sent ELSE toServer[x]]
      BY <1>2, Replied
    <3> QED BY <2>2, <2>3, <3>1
  <2>5. PICK closing \in BOOLEAN : closing = (tg.closing \/ step.closes) BY Zenon
  <2> DEFINE tg2 == [tg EXCEPT !.closing = closing]
  <2>6. tg2 \in Input /\ tg2.seen = tg.seen BY <1>i DEF Input
  <2>7. ~tg2.closing => tg2 = tg
    <3>1. ~closing => ~tg.closing BY <2>5, Zenon
    <3>2. tg2.closing = closing /\ tg.closing \in BOOLEAN BY <1>i DEF Input
    <3> QED BY <1>i, <3>1, <3>2 DEF Input
  <2>8. target' = [target EXCEPT ![x] = tg2]
    <3>1. target' = [target EXCEPT ![x] =
                       [target[x] EXCEPT !.closing = target[x].closing \/ step.closes]]
      BY <1>2, <1>i, <1>g DEF TunnelInv, Arrays, Input
    <3> QED BY <1>g, <2>5, <3>1
  <2> HIDE DEF tg2
  <2>9. Stream(x, clientUp, srv[x], step.c, browser[x], tg2, toClient[x], us2)
    BY <1>i, <2>2, <2>3, <2>6, <2>7, TargetRead
  <2>10. /\ tgt' = [tgt EXCEPT ![x] = tgt[x]]
         /\ toClient' = [toClient EXCEPT ![x] = toClient[x]]
         /\ errors' \subseteq {"client", "server"} \X Streams
         /\ UNCHANGED serverVars /\ clientUp' = clientUp
         /\ step.c.phase \in {"asking", "open"} => clientUp
    BY <1>2, <1>i, ProxySame
  <2> QED BY <1>2, <1>i, <2>4, <2>8, <2>9, <2>10, ProxyRecordKeeps
<1> QED BY <1>1, <1>2, <1>c, Zenon DEF TargetData

(* A wsState exists: the stream has begun.                                 *)
LEMMA HasBegun ==
  ASSUME TunnelInv, NEW x \in Streams,
         cli[x].timer \/ cli[x].finish \/ cli[x].paused \/ cli[x].full
  PROVE  cli[x].phase # "none" /\ (cli[x].finish => cli[x].phase = "open")
<1>1. Stream(x, clientUp, srv[x], cli[x], browser[x], target[x], toClient[x], toServer[x])
  BY ProxySame
<1>2. Unanswered(srv[x], cli[x], browser[x], target[x], toServer[x]) BY <1>1 DEF Stream
<1>3. ~NewProxy.timer /\ ~NewProxy.finish /\ ~NewProxy.paused /\ ~NewProxy.full BY DEF NewProxy
<1> QED BY <1>2, <1>3 DEF Unanswered

LEMMA ClientCancelledKeeps ==
  ASSUME TunnelInv, NEW x \in Streams, ClientCancelled(x) PROVE TunnelInv'
<1>1. CASE cli[x].phase = "none" /\ AbortAll BY <1>1, AbortKeeps
<1>2. ASSUME cli[x].phase # "none", Quit(x), errors' = errors \ {<<"client", x>>},
             UNCHANGED toServer
      PROVE  TunnelInv'
  <2>1. errors' \subseteq {"client", "server"} \X Streams BY <1>2, ProxySame
  <2> QED BY <1>2, <2>1, QuitKeeps
<1> QED BY <1>1, <1>2, Zenon DEF ClientCancelled

LEMMA TimersEndKeeps ==
  ASSUME TunnelInv, NEW x \in Streams, FlowTimeout(x) \/ CloseTimer(x) PROVE TunnelInv'
<1>1. CASE FlowTimeout(x)
  <2>1. AbortAll BY <1>1 DEF FlowTimeout
  <2> QED BY <2>1, AbortKeeps
<1>2. CASE CloseTimer(x)
  <2>1. cli[x].timer /\ QuitWithFin(x) BY <1>2 DEF CloseTimer
  <2> QED BY <2>1, HasBegun, QuitWithFinKeeps
<1> QED BY <1>1, <1>2

LEMMA LaneDrainKeeps ==
  ASSUME TunnelInv, NEW x \in Streams, LaneDrain(x) PROVE TunnelInv'
<1>c. PICK c : c = cli[x] OBVIOUS
<1>0. cli[x].phase = "open" BY Zenon DEF LaneDrain
<1>i. /\ Stream(x, clientUp, srv[x], c, browser[x], target[x], toClient[x], toServer[x])
      /\ ProxyTypes(x, c) /\ tgt[x] \in Requests /\ c.phase = "open"
      /\ c.phase \in {"asking", "open"} => clientUp
  BY <1>0, <1>c, ProxySame
<1>1. /\ Reply(x, c.rest) /\ UNCHANGED <<clientUp, tgt, target, toClient, errors, serverVars>>
      /\ \E blocked \in {FALSE, c.rest # <<>>} :
           cli' = [cli EXCEPT ![x].rest = <<>>, ![x].blocked = blocked, ![x].paused = blocked]
  BY <1>c, Zenon DEF LaneDrain
<1>2. PICK blocked \in {FALSE, c.rest # <<>>} :
        cli' = [cli EXCEPT ![x].rest = <<>>, ![x].blocked = blocked, ![x].paused = blocked]
  BY <1>1
<1>3. blocked \in BOOLEAN BY Zenon
<1> DEFINE c2 == [c EXCEPT !.rest = <<>>, !.blocked = blocked, !.paused = blocked]
<1>4. ProxyTypes(x, c2)
  <2>1. <<>> \in Seq(Pieces(x)) /\ Len(<<>>) <= 1 OBVIOUS
  <2> QED BY <1>3, <1>i, <2>1 DEF ProxyTypes
<1>5. /\ c2.phase = "open" /\ c2.early = c.early /\ c2.read = c.read
      /\ c2.rest = <<>> /\ c2.buffer = c.buffer
  BY <1>i DEF ProxyTypes
<1>6. cli' = [cli EXCEPT ![x] = c2]
  BY <1>2, <1>c, <1>i DEF ProxyTypes, TunnelInv, Arrays
<1> HIDE DEF c2
<1>7. PICK us2 : us2 = IF srv[x].phase = "open" THEN toServer[x] \o c.rest ELSE toServer[x]
  OBVIOUS
<1>8. toServer' = [toServer EXCEPT ![x] = us2] BY <1>1, <1>7, Replied
<1>9. Stream(x, clientUp, srv[x], c2, browser[x], target[x], toClient[x], us2)
  BY <1>i, <1>4, <1>5, <1>7, Drained
<1>10. /\ tgt' = [tgt EXCEPT ![x] = tgt[x]] /\ target' = [target EXCEPT ![x] = target[x]]
       /\ toClient' = [toClient EXCEPT ![x] = toClient[x]]
       /\ errors' \subseteq {"client", "server"} \X Streams
       /\ UNCHANGED serverVars /\ clientUp' = clientUp
  BY <1>1, ProxySame
<1> QED BY <1>i, <1>6, <1>8, <1>9, <1>10, ProxyRecordKeeps

LEMMA TargetUpgradesKeeps ==
  ASSUME TunnelInv, NEW x \in Streams, TargetUpgrades(x) PROVE TunnelInv'
<1>c. PICK c : c = cli[x] OBVIOUS
<1>g. PICK tg : tg = target[x] OBVIOUS
<1>i. /\ Stream(x, clientUp, srv[x], c, browser[x], tg, toClient[x], toServer[x])
      /\ ProxyTypes(x, c) /\ tgt[x] \in Requests /\ tg \in Input
      /\ c.phase \in {"asking", "open"} => clientUp
  BY <1>c, <1>g, ProxySame
<1>r. PICK t2 : t2 = [req |-> "upgraded", sock |-> "open"] OBVIOUS
<1>t. t2 \in Requests BY <1>r DEF Requests
<1>1. tgt' = [tgt EXCEPT ![x] = t2] /\ UNCHANGED <<clientUp, toClient, errors, serverVars>>
  BY <1>r, Zenon DEF TargetUpgrades
<1>d. PICK c1 : c1 = [c EXCEPT !.phase = "open", !.early = <<>>] OBVIOUS
<1>2. CASE UNCHANGED <<cli, target, toServer>>
  <2>1. UNCHANGED <<clientUp, cli, target, toClient, toServer, errors, serverVars>>
    BY <1>1, <1>2
  <2> QED BY <1>t, <1>1, <2>1, TgtKeeps
<1>3. ASSUME c.phase = "asking", NEW n \in 0 .. Len(TargetScript[x]),
             NEW step \in Processed(x, c1, n), Reply(x, <<Control("UPGRADE")>> \o step.sent),
             Deliver(x, step.c, [tg EXCEPT !.closing = step.closes], c.early)
      PROVE  TunnelInv'
  <2>0. Len(TargetScript[x]) \in Nat BY ScriptsIn
  <2>u. Unanswered(srv[x], c, browser[x], tg, toServer[x]) BY <1>i DEF Stream
  <2>a. tg = NewInput /\ c.read = 0 /\ c.buffer = <<>> /\ c.rest = <<>>
    BY <1>3, <2>u DEF Unanswered
  <2>b. c.early \in Seq(Pieces(x)) BY <1>i DEF ProxyTypes
  <2>1. /\ ProxyTypes(x, c1) /\ c1.phase = "open" /\ c1.early = <<>>
        /\ c1.read = c.read /\ c1.buffer = c.buffer /\ c1.rest = c.rest
    <3>0. <<>> \in Seq(Pieces(x)) OBVIOUS
    <3>1. PICK e \in Seq(Pieces(x)) : e = <<>> BY <3>0
    <3>2. c1 = [c EXCEPT !.phase = "open", !.early = e] BY <1>d, <3>1
    <3>3. /\ ProxyTypes(x, c1) /\ c1.phase = "open" /\ c1.early = e
          /\ c1.read = c.read /\ c1.buffer = c.buffer /\ c1.rest = c.rest
      BY <1>i, <3>2 DEF ProxyTypes
    <3> QED BY <3>1, <3>3
  <2>2. PICK b : Held(TargetScript[x], c1, b) BY <2>0, <2>1, <2>a, HeldNew
  <2>3. n \in c1.read .. Len(TargetScript[x]) BY <1>3, <2>1, <2>a
  <2>4. /\ Advance(x, c1, step.sent, step.c) /\ ProxyTypes(x, step.c)
        /\ step.c.phase = c1.phase /\ step.c.early = c1.early /\ step.closes \in BOOLEAN
    <3>1. step \in Processed(x, c1, n) BY <1>3
    <3>2. ProxyTypes(x, c1) BY <2>1
    <3> QED BY <2>2, <2>3, <3>1, <3>2, Processes, Zenon
  <2>s. PICK s1 : s1 = step.c OBVIOUS
  <2>e. ProxyTypes(x, s1) BY <2>4, <2>s
  <2>g. PICK tg1 : tg1 = [tg EXCEPT !.closing = step.closes] OBVIOUS
  <2>5. tg1 \in Input /\ tg1.seen = tg.seen /\ (~tg1.closing => tg1 = tg)
    <3>1. ~NewInput.closing BY DEF NewInput
    <3>2. PICK closes \in BOOLEAN : closes = step.closes BY <2>4
    <3>3. tg1 = [tg EXCEPT !.closing = closes] BY <2>g, <3>2
    <3> QED BY <1>i, <2>a, <3>1, <3>3 DEF Input, NewInput
  <2>d. Deliver(x, s1, tg1, c.early) BY <1>3, <2>g, <2>s
  <2>6. /\ target' = [target EXCEPT ![x] = Delivered(BrowserScript[x], tg1, c.early)]
        /\ \E full \in BOOLEAN, timer \in BOOLEAN :
             cli' = [cli EXCEPT ![x] = [s1 EXCEPT !.full = full, !.timer = timer]]
    <3>1. tg1 \in Input BY <2>5
    <3> QED BY <2>e, <2>b, <2>d, <3>1, Delivers, Zenon
  <2>7. PICK full \in BOOLEAN, timer \in BOOLEAN :
          cli' = [cli EXCEPT ![x] = [s1 EXCEPT !.full = full, !.timer = timer]]
    BY <2>6, Zenon
  <2> DEFINE c2 == [s1 EXCEPT !.full = full, !.timer = timer]
  <2>8. /\ ProxyTypes(x, c2) /\ c2.phase = s1.phase /\ c2.early = s1.early
        /\ c2.read = s1.read /\ c2.buffer = s1.buffer /\ c2.rest = s1.rest
    BY <2>e DEF ProxyTypes
  <2>9. cli' = [cli EXCEPT ![x] = c2] BY <2>7
  <2> HIDE DEF c2
  <2>10. Advance(x, c1, step.sent, c2)
    <3>1. Advance(x, c1, step.sent, s1) BY <2>4, <2>s
    <3>2. c2.read = s1.read /\ c2.buffer = s1.buffer /\ c2.rest = s1.rest BY <2>8
    <3> QED BY <3>1, <3>2, Zenon DEF Advance
  <2>h. PICK tg2 : tg2 = Delivered(BrowserScript[x], tg1, c.early) OBVIOUS
  <2>q. PICK q : q = step.sent OBVIOUS
  <2>w. PICK us2 : us2 = IF srv[x].phase = "open"
                       THEN toServer[x] \o (<<Control("UPGRADE")>> \o q) ELSE toServer[x]
    OBVIOUS
  <2>11. toServer' = [toServer EXCEPT ![x] = us2]
    <3>1. Reply(x, <<Control("UPGRADE")>> \o q) BY <1>3, <2>q
    <3> QED BY <2>w, <3>1, Replied
  <2>12. c2.phase = "open" /\ c2.early = <<>> /\ clientUp
    BY <1>3, <1>i, <2>1, <2>4, <2>8, <2>s
  <2>13. Stream(x, clientUp, srv[x], c2, browser[x], tg2, toClient[x], us2)
    <3>1. Advance(x, c1, q, c2) BY <2>10, <2>q
    <3> QED BY <1>3, <1>i, <2>1, <2>5, <2>8, <2>12, <2>h, <2>w, <3>1, Upgrades
  <2>14. /\ toClient' = [toClient EXCEPT ![x] = toClient[x]]
         /\ errors' \subseteq {"client", "server"} \X Streams
         /\ UNCHANGED serverVars /\ clientUp' = clientUp
         /\ target' = [target EXCEPT ![x] = tg2]
    BY <1>1, <2>6, <2>h, ProxySame
  <2>15. c2.phase \in {"asking", "open"} => clientUp BY <2>12
  <2> QED BY <1>1, <1>t, <2>9, <2>11, <2>13, <2>14, <2>15, ProxyRecordKeeps
<1> QED BY <1>2, <1>3, <1>c, <1>d, <1>g, Zenon DEF TargetUpgrades

LEMMA UpgradeFailsKeeps ==
  ASSUME TunnelInv, NEW x \in Streams, UpgradeFails(x) PROVE TunnelInv'
<1> DEFINE t2 == [tgt[x] EXCEPT !.req = "failed"]
<1>1. tgt[x] \in Requests BY ProxySame
<1>2. t2 \in Requests BY <1>1 DEF Requests
<1>3. /\ tgt' = [tgt EXCEPT ![x].req = "failed"]
      /\ UNCHANGED <<clientUp, target, toServer, serverVars>>
  BY Zenon DEF UpgradeFails
<1>4. tgt' = [tgt EXCEPT ![x] = t2] BY <1>1, <1>3 DEF Requests, TunnelInv, Arrays
<1> HIDE DEF t2
<1>5. CASE UNCHANGED <<cli, toClient, errors>>
  <2>1. UNCHANGED <<clientUp, cli, target, toClient, toServer, errors, serverVars>>
    BY <1>3, <1>5
  <2> QED BY <1>2, <1>4, <2>1, TgtKeeps
<1>6. ASSUME cli[x].phase = "asking", cli' = [cli EXCEPT ![x] = Completed],
             toClient' = [toClient EXCEPT ![x] = <<>>],
             errors' = (errors \ {<<"client", x>>}) \cup {<<"server", y>> : y \in {x} \cap Open}
      PROVE  TunnelInv'
  <2>1. errors \subseteq {"client", "server"} \X Streams BY ProxySame
  <2>2. errors' \subseteq {"client", "server"} \X Streams BY <1>6, <2>1 DEF Open
  <2>3. UNCHANGED <<clientUp, target, serverVars>> /\ toServer' = toServer BY <1>3
  <2>4. cli[x].phase # "none" BY <1>6
  <2> QED BY <1>2, <1>4, <1>6, <2>2, <2>3, <2>4, CompletedTyped, GoneKeeps
<1> QED BY <1>5, <1>6, Zenon DEF UpgradeFails

LEMMA FinishKeeps ==
  ASSUME TunnelInv, NEW x \in Streams, Finish(x) PROVE TunnelInv'
<1>0. cli[x].finish BY Zenon DEF Finish
<1>p. cli[x].phase = "open" BY <1>0, HasBegun
<1>1. CASE QuitWithFin(x) BY <1>p, <1>1, QuitWithFinKeeps
<1>2. ASSUME cli' = [cli EXCEPT ![x] = [Completed EXCEPT !.phase = "stuck",
                                                         !.timer = cli[x].timer]],
             Reply(x, <<Control("FIN")>>), toClient' = [toClient EXCEPT ![x] = <<>>],
             errors' = errors \ {<<"client", x>>}, UNCHANGED <<clientUp, tgt, target, serverVars>>
      PROVE  TunnelInv'
  <2> PICK d : d = Completed OBVIOUS
  <2>1. cli[x].timer \in BOOLEAN BY ProxySame DEF ProxyTypes
  <2> PICK timer \in BOOLEAN : timer = cli[x].timer BY <2>1
  <2> DEFINE c2 == [d EXCEPT !.phase = "stuck", !.timer = timer]
  <2>2. ProxyTypes(x, d) /\ d.early = <<>> /\ ~d.finish BY CompletedTyped
  <2>3. /\ ProxyTypes(x, c2) /\ c2.phase \in {"done", "stuck"} /\ c2.early = <<>>
        /\ ~c2.finish
    BY <2>2 DEF ProxyTypes
  <2>4. cli' = [cli EXCEPT ![x] = c2] BY <1>2
  <2> HIDE DEF c2
  <2>5. tgt' = [tgt EXCEPT ![x] = tgt[x]] /\ tgt[x] \in Requests BY <1>2, ProxySame
  <2>6. errors' \subseteq {"client", "server"} \X Streams BY <1>2, ProxySame
  <2>7. UNCHANGED <<clientUp, target, serverVars>> BY <1>2
  <2>8. cli[x].phase # "none" BY <1>p
  <2> QED BY <1>p, <1>2, <2>3, <2>4, <2>5, <2>6, <2>7, <2>8, GoneKeeps
<1> QED BY <1>1, <1>2, Zenon DEF Finish

LEMMA TargetEndsKeeps ==
  ASSUME TunnelInv, NEW x \in Streams, TargetEnds(x) \/ TargetError(x) PROVE TunnelInv'
<1>1. CASE cli[x].phase \in {"open", "stuck"} /\ QuitWithFin(x)
  <2>1. cli[x].phase # "none" BY <1>1
  <2> QED BY <1>1, <2>1, QuitWithFinKeeps
<1>2. ASSUME tgt' = [tgt EXCEPT ![x].sock = "gone"],
             UNCHANGED <<clientUp, cli, target, wires, serverVars>>
      PROVE  TunnelInv'
  <2> DEFINE t2 == [tgt[x] EXCEPT !.sock = "gone"]
  <2>1. tgt[x] \in Requests BY ProxySame
  <2>2. t2 \in Requests BY <2>1 DEF Requests
  <2>3. tgt' = [tgt EXCEPT ![x] = t2] BY <1>2, <2>1 DEF Requests, TunnelInv, Arrays
  <2> HIDE DEF t2
  <2>4. UNCHANGED <<clientUp, cli, target, toClient, toServer, errors, serverVars>>
    BY <1>2 DEF wires
  <2> QED BY <2>2, <2>3, <2>4, TgtKeeps
<1>3. CASE TargetEnds(x)
  <2>1. \/ cli[x].phase = "open" /\ QuitWithFin(x)
        \/ /\ tgt' = [tgt EXCEPT ![x].sock = "gone"]
           /\ UNCHANGED <<clientUp, cli, target, wires, serverVars>>
    BY <1>3, Zenon DEF TargetEnds
  <2> QED BY <1>1, <1>2, <2>1
<1>4. CASE TargetError(x) BY <1>1, <1>4, Zenon DEF TargetError
<1> QED BY <1>3, <1>4

(* Every action of the proxy keeps the invariant. *)
LEMMA ProxyStepKeeps ==
  ASSUME TunnelInv, NEW x \in Streams, ProxyStep(x) PROVE TunnelInv'
<1>1. CASE ClientReceives(x) BY <1>1, ClientReceivesKeeps
<1>2. CASE ClientCancelled(x) BY <1>2, ClientCancelledKeeps
<1>3. CASE TargetDrain(x) BY <1>3, TargetDrainKeeps
<1>4. CASE FlowTimeout(x) \/ CloseTimer(x) BY <1>4, TimersEndKeeps
<1>5. CASE TargetData(x) BY <1>5, TargetDataKeeps
<1>6. CASE LaneDrain(x) BY <1>6, LaneDrainKeeps
<1>7. CASE TargetUpgrades(x) BY <1>7, TargetUpgradesKeeps
<1>8. CASE UpgradeFails(x) BY <1>8, UpgradeFailsKeeps
<1>9. CASE TargetAnswers(x) BY <1>9, TargetAnswersKeeps
<1>10. CASE Finish(x) BY <1>10, FinishKeeps
<1>11. CASE TargetEnds(x) \/ TargetError(x) BY <1>11, TargetEndsKeeps
<1> QED BY <1>1, <1>2, <1>3, <1>4, <1>5, <1>6, <1>7, <1>8, <1>9, <1>10, <1>11, Zenon
        DEF ProxyStep

(* Every step keeps the invariant. *)
LEMMA TunnelNext ==
  ASSUME TunnelInv, [Next]_vars PROVE TunnelInv'
<1>1. CASE UNCHANGED vars
  <2>1. /\ serverUp' = serverUp /\ srv' = srv /\ slots' = slots /\ browser' = browser
        /\ clientUp' = clientUp /\ cli' = cli /\ tgt' = tgt /\ target' = target
        /\ toClient' = toClient /\ toServer' = toServer /\ errors' = errors
    BY <1>1 DEF vars, serverVars, clientVars, wires
  <2>2. Open' = Open /\ Stuck' = Stuck /\ Linked' = Linked BY <2>1 DEF Open, Stuck, Linked
  <2>3. TypeOK' BY <2>1 DEF TunnelInv, TypeOK
  <2>4. SlotsMatch' BY <2>1, <2>2 DEF TunnelInv, SlotsMatch
  <2>5. Arrays' BY <2>1 DEF TunnelInv, Arrays
  <2>6. Lives' BY <2>1, <2>2 DEF TunnelInv, Lives
  <2>7. \A x \in Streams : At(x)' BY <2>1 DEF TunnelInv, At
  <2> QED BY <2>3, <2>4, <2>5, <2>6, <2>7 DEF TunnelInv
<1>2. CASE ServerFails BY <1>2, ServerFailsKeeps
<1>3. CASE ClientFails
  <2>1. AbortAll BY <1>3 DEF ClientFails
  <2> QED BY <2>1, AbortKeeps
<1>4. CASE \E x \in Streams : RouterStep(x) \/ ProxyStep(x)
  BY <1>4, RouterStepKeeps, ProxyStepKeeps
<1> QED BY <1>1, <1>2, <1>3, <1>4 DEF Next

(* The invariant holds at the start. *)
LEMMA TunnelInit ==
  ASSUME Init PROVE TunnelInv
<1>0. /\ serverUp = TRUE /\ clientUp = TRUE /\ slots = [k \in Slots |-> {}]
      /\ srv = [x \in Streams |-> NewHandler]
      /\ browser = [x \in Streams |-> NewInput] /\ target = [x \in Streams |-> NewInput]
      /\ cli = [x \in Streams |-> NewProxy]
      /\ tgt = [x \in Streams |-> [req |-> "none", sock |-> "none"]]
      /\ toClient = [x \in Streams |-> <<>>] /\ toServer = [x \in Streams |-> <<>>]
      /\ errors = {}
  BY DEF Init
<1>1. ASSUME NEW x \in Streams PROVE At(x)
  <2>1. Stream(x, TRUE, NewHandler, NewProxy, NewInput, NewInput, <<>>, <<>>) BY StreamInit
  <2>2. /\ srv[x] = NewHandler /\ cli[x] = NewProxy /\ browser[x] = NewInput
        /\ target[x] = NewInput /\ toClient[x] = <<>> /\ toServer[x] = <<>> /\ clientUp
    BY <1>0
  <2>3. Stream(x, clientUp, NewHandler, NewProxy, NewInput, NewInput, <<>>, <<>>)
    BY <1>0, <2>1
  <2> QED BY <2>2, <2>3 DEF At
<1>2. Open = {} /\ Stuck = {}
  <2>1. NewHandler.phase = "idle" BY DEF NewHandler
  <2>2. \A x \in Streams : srv[x].phase = "idle" BY <1>0, <2>1
  <2> QED BY <2>2 DEF Open, Stuck
<1>3. SlotsMatch BY <1>0, <1>2 DEF SlotsMatch, Slots
<1>4. Lives BY <1>0, <1>2 DEF Lives
<1>5. Arrays
  <2>1. PICK h, p, i, t : /\ h = NewHandler /\ p = NewProxy /\ i = NewInput
                          /\ t = [req |-> "none", sock |-> "none"]
    OBVIOUS
  <2>2. srv = [x \in Streams |-> srv[x]] BY <1>0, <2>1
  <2>3. cli = [x \in Streams |-> cli[x]] BY <1>0, <2>1
  <2>4. tgt = [x \in Streams |-> tgt[x]] BY <1>0, <2>1
  <2>5. browser = [x \in Streams |-> browser[x]] BY <1>0, <2>1
  <2>6. target = [x \in Streams |-> target[x]] BY <1>0, <2>1
  <2>7. toClient = [x \in Streams |-> toClient[x]] BY <1>0
  <2>8. toServer = [x \in Streams |-> toServer[x]] BY <1>0
  <2> QED BY <2>2, <2>3, <2>4, <2>5, <2>6, <2>7, <2>8 DEF Arrays
<1>6. TypeOK
  <2>1. ASSUME NEW y \in Streams
        PROVE  Types(y, srv[y], cli[y], browser[y], target[y], toClient[y], toServer[y])
    BY <1>1 DEF At, Stream
  <2>2. ASSUME NEW y \in Streams
        PROVE  /\ HandlerTypes(y, srv[y]) /\ ProxyTypes(y, cli[y])
               /\ browser[y] \in Input /\ target[y] \in Input
               /\ toClient[y] \in Wire(y) /\ toServer[y] \in Wire(y)
    BY <2>1 DEF Types
  <2>3. slots \in [Slots -> SUBSET Streams] BY <1>0
  <2>4. \A y \in Streams : tgt[y] \in
          [req : {"none", "asking", "answered", "failed", "upgraded"},
           sock : {"none", "open", "gone"}]
    BY <1>0
  <2>5. /\ serverUp \in BOOLEAN /\ clientUp \in BOOLEAN
        /\ errors \subseteq {"client", "server"} \X Streams
    BY <1>0
  <2>6. /\ \A y \in Streams : HandlerTypes(y, srv[y]) /\ ProxyTypes(y, cli[y])
        /\ \A y \in Streams : browser[y] \in Input /\ target[y] \in Input
        /\ \A y \in Streams : toClient[y] \in Wire(y) /\ toServer[y] \in Wire(y)
    BY <2>2
  <2>7. ASSUME NEW y \in Streams PROVE Len(srv[y].rest) <= 1 /\ Len(cli[y].rest) <= 1
    BY <2>6 DEF HandlerTypes, ProxyTypes
  <2>8. ASSUME NEW y \in Streams PROVE {browser[y], target[y]} \subseteq Input
    BY <2>6
  <2> QED BY <2>3, <2>4, <2>5, <2>6, <2>7, <2>8, Zenon
          DEF TypeOK, HandlerTypes, ProxyTypes, Wire, Input
<1> QED BY <1>1, <1>3, <1>4, <1>5, <1>6 DEF TunnelInv

(* The inductive invariant holds in every reachable state: the end that    *)
(* reads, the wire and the end that writes agree on the place of every     *)
(* WebSocket in its two scripts.                                           *)
THEOREM TunnelInvariant == Spec => []TunnelInv
<1>1. Init => TunnelInv BY TunnelInit
<1>2. TunnelInv /\ [Next]_vars => TunnelInv' BY TunnelNext
<1> QED BY <1>1, <1>2, PTL DEF Spec

(* handleUpgrade, the wsStates and the wires keep to their types: no piece *)
(* or frame is made up, and no end holds more than the rest of one frame.  *)
THEOREM TunnelTypes == Spec => []TypeOK
<1>1. TunnelInv => TypeOK BY DEF TunnelInv
<1> QED BY <1>1, TunnelInvariant, PTL

(* Ids, places among the WebSockets, handlers, transport streams and idle  *)
(* timers of the router live and die together, whichever way it ends.      *)
THEOREM PlacesReleased == Spec => []SlotsMatch
<1>1. TunnelInv => SlotsMatch BY DEF TunnelInv
<1> QED BY <1>1, TunnelInvariant, PTL

(* The pump of the router never stops with frames it could send.           *)
THEOREM PumpNeverIdle == Spec => []PumpRuns
<1>1. ASSUME TunnelInv PROVE PumpRuns
  <2> SUFFICES ASSUME NEW x \in Open, Output(BrowserScript[x], srv[x]) # <<>>
               PROVE  srv[x].pump # "idle"
    BY DEF PumpRuns
  <2>1. x \in Streams /\ srv[x].phase = "open" BY DEF Open
  <2>2. Pumps(x, srv[x]) BY <1>1, <2>1 DEF TunnelInv, At, Stream
  <2> QED BY <2>1, <2>2 DEF Pumps
<1> QED BY <1>1, TunnelInvariant, PTL

(* What browser and target are given is an initial part, frame by frame,   *)
(* of what the other has sent.                                             *)
THEOREM FramesStayIntact == Spec => []FramesIntact
<1>1. ASSUME TunnelInv PROVE FramesIntact
  <2>1. ASSUME NEW x \in Streams PROVE Whole(browser[x]) /\ Whole(target[x])
    BY <1>1 DEF TunnelInv, At, Stream, Seen
  <2> QED BY <2>1 DEF FramesIntact, Whole
<1> QED BY <1>1, TunnelInvariant, PTL

(* Everything read from the browser is at the target, on its way or held,  *)
(* in order, and likewise the other way.                                   *)
LEMMA DownComplete ==
  ASSUME NEW x \in Streams, NEW s, NEW c, NEW br, NEW tg, NEW dn, NEW us,
         Stream(x, TRUE, s, c, br, tg, dn, us), s.phase = "open",
         c.phase \in {"asking", "open"}, ~tg.closing
  PROVE  Arrived(BrowserScript[x], tg) \o c.early \o DataOf(dn) \o Output(BrowserScript[x], s)
           = PiecesOf(BrowserScript[x], Upto(s.read))
<1>0. Len(BrowserScript[x]) \in Nat BY ScriptsIn
<1>1. PICK b \in Nat, a \in Nat :
        /\ Held(BrowserScript[x], s, b) /\ Reached(BrowserScript[x], tg, a)
        /\ Path(BrowserScript[x], a, c.early \o dn, b)
  <2>1. Listens(TRUE, c) BY DEF Listens
  <2>2. Down(x, TRUE, s, c, tg, dn) BY DEF Stream
  <2> QED BY <2>1, <2>2 DEF Down
<1>t. dn \in Wire(x) /\ c.early \in Seq(Pieces(x)) BY DEF Stream, Types, ProxyTypes
<1>2. dn \in Seq(Frame) /\ c.early \in Seq(Frame) /\ c.early \in Seq(AnyPiece)
  <2>1. Pieces(x) \subseteq AnyPiece /\ Pieces(x) \cup Controls \subseteq Frame
    BY PiecesIncluded
  <2>2. dn \in Seq(Frame) BY <1>t, <2>1 DEF Wire
  <2>3. c.early \in Seq(AnyPiece) BY <1>t, <2>1
  <2>4. AnyPiece \subseteq Frame BY DEF Frame
  <2>5. c.early \in Seq(Frame) BY <2>3, <2>4
  <2> QED BY <2>2, <2>3, <2>5
<1>3. PICK e \in Nat : Path(BrowserScript[x], a, c.early, e) /\ Path(BrowserScript[x], e, dn, b)
  BY <1>1, <1>2, PathSplit
<1>4. PICK d \in Seq(AnyPiece) : d = DataOf(dn) /\ Path(BrowserScript[x], e, d, b)
  BY <1>2, <1>3, DataPath
<1>5. PICK y \in Seq(AnyPiece) : y = c.early BY <1>2
<1>6. PICK q \in Seq(AnyPiece) : q = y \o d
  <2>1. y \o d \in Seq(AnyPiece) BY ConcatProperties
  <2> QED BY <2>1
<1>7. Path(BrowserScript[x], a, q, b) BY <1>3, <1>4, <1>5, <1>6, PathConcat
<1>8. Arrived(BrowserScript[x], tg) \o q \o Output(BrowserScript[x], s)
        = PiecesOf(BrowserScript[x], Upto(s.read))
  <2>1. PICK S : S = BrowserScript[x] OBVIOUS
  <2>2. Len(S) \in Nat /\ Reached(S, tg, a) /\ Path(S, a, q, b) /\ Held(S, s, b)
    BY <1>0, <1>1, <1>7, <2>1
  <2>3. Arrived(S, tg) \o q \o Output(S, s) = PiecesOf(S, Upto(s.read)) BY <2>2, Complete
  <2> QED BY <2>1, <2>3
<1>9. PICK u \in Seq(AnyPiece) : u = Arrived(BrowserScript[x], tg)
  BY <1>0, <1>1, ArrivedPath
<1>10. (u \o y) \o d = u \o q BY <1>6, ConcatAssociative
<1> QED BY <1>4, <1>5, <1>8, <1>9, <1>10

(* While both ends live, what has arrived, is on the wire and is held by the proxy is all
   the target has said. *)
LEMMA UpComplete ==
  ASSUME NEW x \in Streams, NEW up, NEW s, NEW c, NEW br, NEW tg, NEW dn, NEW us,
         Stream(x, up, s, c, br, tg, dn, us), s.phase = "open",
         c.phase \in {"asking", "open"}, Begins(s, us)
  PROVE  Arrived(TargetScript[x], br) \o DataOf(us) \o Output(TargetScript[x], c)
           = PiecesOf(TargetScript[x], Upto(c.read))
<1>0. Len(TargetScript[x]) \in Nat BY ScriptsIn
<1>p. c.phase = "open"
  <2>1. Unanswered(s, c, br, tg, us) BY DEF Stream
  <2>2. c.phase = "asking" => us = <<>> /\ ~s.upgraded BY <2>1 DEF Unanswered
  <2> QED BY <2>2 DEF Begins
<1>1. PICK b \in Nat, a \in Nat :
        /\ Held(TargetScript[x], c, b) /\ Reached(TargetScript[x], br, a)
        /\ Path(TargetScript[x], a, us, b)
  <2>1. Up(x, s, c, br, us) BY DEF Stream
  <2> QED BY <1>p, <2>1 DEF Up
<1>2. us \in Seq(Frame)
  <2>1. us \in Wire(x) BY DEF Stream, Types
  <2>2. Pieces(x) \cup Controls \subseteq Frame BY PiecesIncluded
  <2> QED BY <2>1, <2>2 DEF Wire
<1>3. PICK d \in Seq(AnyPiece) : d = DataOf(us) /\ Path(TargetScript[x], a, d, b)
  BY <1>1, <1>2, DataPath
<1>4. Arrived(TargetScript[x], br) \o d \o Output(TargetScript[x], c)
        = PiecesOf(TargetScript[x], Upto(c.read))
  <2>1. PICK T : T = TargetScript[x] OBVIOUS
  <2>2. Len(T) \in Nat /\ Reached(T, br, a) /\ Path(T, a, d, b) /\ Held(T, c, b)
    BY <1>0, <1>1, <1>3, <2>1
  <2>3. Arrived(T, br) \o d \o Output(T, c) = PiecesOf(T, Upto(c.read)) BY <2>2, Complete
  <2> QED BY <2>1, <2>3
<1> QED BY <1>3, <1>4

(* While a WebSocket is open at both ends no pump, pause, buffer or early  *)
(* frame loses or repeats a piece, in either direction.                    *)
THEOREM NothingIsLost == Spec => []NothingLost
<1>1. ASSUME TunnelInv PROVE NothingLost
  <2>1. ASSUME NEW x \in Open \cap Linked, clientUp, ~target[x].closing
        PROVE  Arrived(BrowserScript[x], target[x]) \o cli[x].early \o DataOf(toClient[x])
                 \o Output(BrowserScript[x], srv[x])
               = PiecesOf(BrowserScript[x], Upto(srv[x].read))
    <3>1. /\ x \in Streams /\ srv[x].phase = "open" /\ cli[x].phase \in {"asking", "open"}
      BY <2>1 DEF Open, Linked
    <3>2. clientUp = TRUE BY <1>1, <2>1 DEF TunnelInv, TypeOK
    <3>3. Stream(x, TRUE, srv[x], cli[x], browser[x], target[x], toClient[x], toServer[x])
      BY <1>1, <3>1, <3>2 DEF TunnelInv, At
    <3>4. PICK s, c, br, tg, dn, us :
            /\ s = srv[x] /\ c = cli[x] /\ br = browser[x] /\ tg = target[x]
            /\ dn = toClient[x] /\ us = toServer[x]
      OBVIOUS
    <3>5. /\ Stream(x, TRUE, s, c, br, tg, dn, us) /\ s.phase = "open"
          /\ c.phase \in {"asking", "open"} /\ ~tg.closing
      BY <2>1, <3>1, <3>3, <3>4
    <3>6. Arrived(BrowserScript[x], tg) \o c.early \o DataOf(dn) \o Output(BrowserScript[x], s)
            = PiecesOf(BrowserScript[x], Upto(s.read))
      BY <3>1, <3>5, DownComplete
    <3> QED BY <3>4, <3>6
  <2>2. ASSUME NEW x \in Open \cap Linked,
               srv[x].upgraded \/ (toServer[x] # <<>> /\ Head(toServer[x]).type = "UPGRADE")
        PROVE  Arrived(TargetScript[x], browser[x]) \o DataOf(toServer[x])
                 \o Output(TargetScript[x], cli[x])
               = PiecesOf(TargetScript[x], Upto(cli[x].read))
    <3>1. /\ x \in Streams /\ srv[x].phase = "open" /\ cli[x].phase \in {"asking", "open"}
      BY <2>2 DEF Open, Linked
    <3>2. Stream(x, clientUp, srv[x], cli[x], browser[x], target[x], toClient[x], toServer[x])
      BY <1>1, <3>1 DEF TunnelInv, At
    <3>3. toServer[x] \in Seq(Pieces(x) \cup Controls) BY <3>2 DEF Stream, Types, Wire
    <3>4. Head(toServer[x]) = toServer[x][1] BY <3>3
    <3>5. Begins(srv[x], toServer[x]) BY <2>2, <3>4 DEF Begins
    <3> QED BY <3>1, <3>2, <3>5, UpComplete
  <2> QED BY <2>1, <2>2, Zenon DEF NothingLost
<1> QED BY <1>1, TunnelInvariant, PTL
=============================================================================
