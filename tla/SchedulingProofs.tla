--------------------------- MODULE SchedulingProofs ---------------------------
(***************************************************************************)
(* Proofs about the two parts that decide what is served first.            *)
(*                                                                         *)
(* PriorityHeap, for any messages, priorities and limits: up and down make *)
(* a heap of the slice again, so that the slice implements PrioritySet.    *)
(*                                                                         *)
(* ResourceScheduler, for any resources, capacities and loads, any finite  *)
(* set of requests, whatever they require, and any number of               *)
(* processPendingRequests calls at a time.                                 *)
(***************************************************************************)
EXTENDS PriorityHeap, ResourceScheduler, FiniteSetTheorems, SequenceTheorems,
        NaturalsInduction, WellFoundedInduction, TLAPS


-----------------------------------------------------------------------------
(* Induction and loops.  The principle is stated for a set of numbers, and *)
(* rests on the order of Nat being well-founded: a number not in the set    *)
(* would have a least one among its like.                                   *)

LEMMA SetInduction ==
    ASSUME NEW S, 0 \in S, \A n \in Nat : n \in S => n + 1 \in S
    PROVE  Nat \subseteq S
<1> DEFINE T == Nat \ S
           R == OpToRel(<, Nat)
<1> SUFFICES ASSUME T # {} PROVE FALSE
  OBVIOUS
<1>1. IsWellFoundedOn(R, Nat)
  BY NatLessThanWellFounded
<1>2. T \subseteq Nat
  OBVIOUS
<1> HIDE DEF R
<1>3. PICK x \in T : \A y \in T : ~(<<y, x>> \in R)
  BY <1>1, <1>2, WFMin
<1>4. \A y \in T : ~ (y < x)
  BY <1>3 DEF R, OpToRel
<1>5. x \in Nat /\ x # 0 /\ x - 1 \in Nat
  BY <1>3
<1>6. x - 1 \notin T
  BY <1>4, <1>5
<1>7. QED BY <1>3, <1>5, <1>6

\* A turn G repeated N times from x0, as a function of the number of turns.
Turns(f, J, G, x0, N) ==
    /\ DOMAIN f = 0..N
    /\ f[0] = x0
    /\ \A k \in 1..N : f[k - 1] \in J => f[k] = G[f[k - 1]]

\* The turns exist.
LEMMA TurnsExist ==
    ASSUME NEW J, NEW x0 \in J, NEW G \in [J -> J], NEW N \in Nat
    PROVE  \E f \in [0..N -> J] : Turns(f, J, G, x0, N)
<1> DEFINE S == {n \in Nat : \E f \in [0..n -> J] : Turns(f, J, G, x0, n)}
<1>1. 0 \in S
  <2> DEFINE f == [k \in 0..0 |-> x0]
  <2>1. f \in [0..0 -> J] /\ Turns(f, J, G, x0, 0)
    BY DEF Turns
  <2>2. QED BY <2>1
<1>2. ASSUME NEW n \in Nat, n \in S PROVE n + 1 \in S
  <2>1. PICK f \in [0..n -> J] : Turns(f, J, G, x0, n)
    BY <1>2
  <2> DEFINE g == [k \in 0..n + 1 |-> IF k = n + 1 THEN G[f[n]] ELSE f[k]]
  <2>2. f[n] \in J /\ G[f[n]] \in J
    BY <2>1
  <2>3. g \in [0..n + 1 -> J]
    BY <2>1, <2>2
  <2>4. g[0] = x0
    BY <2>1 DEF Turns
  <2>5. ASSUME NEW k \in 1..n + 1 PROVE g[k] = G[g[k - 1]]
    <3>1. CASE k = n + 1
      BY <3>1
    <3>2. CASE k # n + 1
      <4>1. k \in 1..n /\ k - 1 \in 0..n /\ f[k - 1] \in J
        BY <3>2
      <4>2. f[k] = G[f[k - 1]]
        BY <2>1, <4>1 DEF Turns
      <4>3. QED BY <3>2, <4>1, <4>2
    <3>3. QED BY <3>1, <3>2
  <2>6. Turns(g, J, G, x0, n + 1)
    BY <2>3, <2>4, <2>5 DEF Turns
  <2>7. QED BY <2>3, <2>6
<1> HIDE DEF S
<1>3. N \in S
  BY <1>1, <1>2, SetInduction
<1>4. QED BY <1>3 DEF S

\* Every turn that changes something makes the measure m smaller.
Measured(m, J, G, x0, N) ==
    /\ m \in [J -> Nat]
    /\ m[x0] <= N
    /\ \A t \in J : G[t] = t \/ m[G[t]] < m[t]

\* The turns stay in J, and when they are measured, N of them are enough.
LEMMA TurnsEnd ==
    ASSUME NEW J, NEW x0 \in J, NEW G \in [J -> J], NEW N \in Nat,
           NEW f, Turns(f, J, G, x0, N), NEW m, Measured(m, J, G, x0, N)
    PROVE  /\ \A k \in 0..N : f[k] \in J
           /\ G[f[N]] = f[N]
<1> DEFINE Ok(k) == f[k] \in J /\ (G[f[k]] = f[k] \/ m[f[k]] <= m[x0] - k)
           S == {k \in Nat : k <= N => Ok(k)}
<1>0. /\ m \in [J -> Nat] /\ m[x0] \in Nat /\ m[x0] <= N
      /\ \A t \in J : G[t] = t \/ m[G[t]] < m[t]
  BY DEF Measured
<1>1. 0 \in S
  BY <1>0 DEF Turns
<1>2. ASSUME NEW k \in Nat, k \in S PROVE k + 1 \in S
  <2>1. CASE k + 1 <= N
    <3>1. Ok(k)
      BY <1>2, <2>1
    <3>2. k + 1 \in 1..N /\ (k + 1) - 1 = k
      BY <2>1
    <3>3. f[k + 1] = G[f[k]]
      BY <3>1, <3>2 DEF Turns
    <3>4. m[f[k]] \in Nat /\ f[k + 1] \in J /\ m[f[k + 1]] \in Nat
      BY <1>0, <3>1, <3>3
    <3>5. CASE G[f[k]] = f[k]
      BY <3>1, <3>3, <3>5
    <3>6. CASE G[f[k]] # f[k]
      <4>1. m[f[k + 1]] < m[f[k]] /\ m[f[k]] <= m[x0] - k
        BY <1>0, <3>1, <3>3, <3>6
      <4>2. m[f[k + 1]] <= m[x0] - (k + 1)
        BY <1>0, <3>4, <4>1
      <4>3. QED BY <3>4, <4>2
    <3>7. QED BY <3>5, <3>6
  <2>2. CASE ~ k + 1 <= N
    BY <2>2
  <2>3. QED BY <2>1, <2>2
<1> HIDE DEF S
<1>3. Nat \subseteq S
  BY <1>1, <1>2, SetInduction
<1>4. \A k \in 0..N : Ok(k)
  BY <1>3 DEF S
<1>5. G[f[N]] = f[N]
  <2>1. CASE G[f[N]] # f[N]
    <3>1. f[N] \in J /\ m[f[N]] \in Nat /\ m[f[N]] <= m[x0] - N
      BY <1>0, <1>4, <2>1
    <3>2. m[G[f[N]]] \in Nat /\ m[G[f[N]]] < m[f[N]]
      BY <1>0, <2>1, <3>1
    <3>3. QED BY <1>0, <3>1, <3>2
  <2>2. QED BY <2>1
<1>6. QED BY <1>4, <1>5


-----------------------------------------------------------------------------
(* The slice. *)

HeapEntries == [msg : HeapMsgs, prio : Priorities, ts : Nat, index : Int]
HeapSlices(n) == [1..n -> HeapEntries]

\* The slice h of n entries stands for the set E: an entry for each, every one
\* at the position it knows.
Stands(h, n, E) ==
    /\ \A k \in 1..n : h[k].index = k - 1
    /\ \A j, k \in 1..n : h[j].msg = h[k].msg => j = k
    /\ {Entry(h[k]) : k \in 1..n} = E

\* The entry at position p of h may stay above the one at position c.
Above(h, p, c) == ~ Less(h[c + 1], h[p + 1])

Child(p, c) == c = 2 * p + 1 \/ c = 2 * p + 2

\* The first n positions of h are a heap ...
Heaped(h, n) == \A p, c \in 0..n - 1 : Child(p, c) => Above(h, p, c)

\* ... but for the entry at j, which may belong further up ...
HeapedUp(h, n, j) ==
    /\ \A p, c \in 0..n - 1 : Child(p, c) /\ c # j => Above(h, p, c)
    /\ \A p, c \in 0..n - 1 : Child(p, j) /\ Child(j, c) => Above(h, p, c)

\* ... or for the entry at j, which may belong further down.
HeapedDown(h, n, j) ==
    /\ \A p, c \in 0..n - 1 : Child(p, c) /\ p # j => Above(h, p, c)
    /\ \A p, c \in 0..n - 1 : Child(p, j) /\ Child(j, c) => Above(h, p, c)

\* Priority, then age: a total order of what entries stand for.
LEMMA LessOrder ==
    ASSUME NEW x \in HeapEntries, NEW y \in HeapEntries, NEW z \in HeapEntries
    PROVE  /\ Less(x, y) => ~ Less(y, x)
           /\ ~ Less(y, x) /\ ~ Less(z, y) => ~ Less(z, x)
           /\ ~ Less(x, x)
<1>1. x.prio \in Int /\ y.prio \in Int /\ z.prio \in Int
  BY DEF HeapEntries, Priorities
<1>2. x.ts \in Int /\ y.ts \in Int /\ z.ts \in Int
  BY DEF HeapEntries
<1>3. QED BY <1>1, <1>2 DEF Less

\* Swap exchanges two entries and leaves the others alone.
LEMMA SwapPointwise ==
    ASSUME NEW n \in Nat, NEW h \in HeapSlices(n), NEW i \in 0..n - 1, NEW j \in 0..n - 1,
           i # j
    PROVE  /\ Swap(h, i, j) \in HeapSlices(n)
           /\ \A k \in 1..n : Swap(h, i, j)[k] =
                 IF k = i + 1 THEN [h[j + 1] EXCEPT !.index = i]
                 ELSE IF k = j + 1 THEN [h[i + 1] EXCEPT !.index = j]
                 ELSE h[k]
<1> DEFINE s == [h EXCEPT ![i + 1] = h[j + 1], ![j + 1] = h[i + 1]]
<1>1. i + 1 \in 1..n /\ j + 1 \in 1..n /\ i + 1 # j + 1 /\ i \in Int /\ j \in Int
  OBVIOUS
<1>2. /\ s \in HeapSlices(n)
      /\ s[i + 1] = h[j + 1] /\ s[j + 1] = h[i + 1]
      /\ \A k \in 1..n : k # i + 1 /\ k # j + 1 => s[k] = h[k]
  BY <1>1 DEF HeapSlices
<1>3. Swap(h, i, j) = [s EXCEPT ![i + 1].index = i, ![j + 1].index = j]
  BY DEF Swap
<1> HIDE DEF s
<1>4. \A e \in HeapEntries, x \in Int : [e EXCEPT !.index = x] \in HeapEntries
  BY DEF HeapEntries
<1> DEFINE u == [s EXCEPT ![i + 1].index = i]
           w == [u EXCEPT ![j + 1].index = j]
<1>5. Swap(h, i, j) = w
  BY <1>1, <1>3 DEF HeapSlices
<1>6. /\ u \in HeapSlices(n) /\ u[i + 1] = [s[i + 1] EXCEPT !.index = i]
      /\ \A k \in 1..n : k # i + 1 => u[k] = s[k]
  BY <1>1, <1>2, <1>4 DEF HeapSlices
<1> HIDE DEF u
<1>7. /\ w \in HeapSlices(n) /\ w[j + 1] = [u[j + 1] EXCEPT !.index = j]
      /\ \A k \in 1..n : k # j + 1 => w[k] = u[k]
  BY <1>1, <1>4, <1>6 DEF HeapSlices
<1> HIDE DEF w
<1>8. QED BY <1>1, <1>2, <1>5, <1>6, <1>7

\* A swap keeps what the slice stands for.
LEMMA SwapStands ==
    ASSUME NEW n \in Nat, NEW h \in HeapSlices(n), NEW i \in 0..n - 1, NEW j \in 0..n - 1,
           i # j, NEW E, Stands(h, n, E)
    PROVE  Stands(Swap(h, i, j), n, E)
<1> DEFINE w == Swap(h, i, j)
           at(k) == IF k = i + 1 THEN j + 1 ELSE IF k = j + 1 THEN i + 1 ELSE k
<1>1. /\ w \in HeapSlices(n)
      /\ \A k \in 1..n : w[k] =
            IF k = i + 1 THEN [h[j + 1] EXCEPT !.index = i]
            ELSE IF k = j + 1 THEN [h[i + 1] EXCEPT !.index = j]
            ELSE h[k]
  BY SwapPointwise
<1> HIDE DEF w
<1>2. \A k \in 1..n : at(k) \in 1..n /\ at(at(k)) = k
  OBVIOUS
<1>3. ASSUME NEW e \in HeapEntries, NEW x \in Int
      PROVE  /\ Entry([e EXCEPT !.index = x]) = Entry(e)
             /\ [e EXCEPT !.index = x].msg = e.msg
             /\ [e EXCEPT !.index = x].index = x
  BY DEF HeapEntries, Entry, QueueItem
<1>4. \A k \in 1..n : h[k] \in HeapEntries
  BY DEF HeapSlices
<1>5. ASSUME NEW k \in 1..n
      PROVE  /\ Entry(w[k]) = Entry(h[at(k)]) /\ w[k].msg = h[at(k)].msg
             /\ w[k].index = k - 1
  <2>0. i + 1 \in 1..n /\ j + 1 \in 1..n /\ i \in Int /\ j \in Int
    OBVIOUS
  <2>1. CASE k = i + 1
    <3>1. w[k] = [h[j + 1] EXCEPT !.index = i] /\ at(k) = j + 1
          /\ h[j + 1] \in HeapEntries /\ k - 1 = i
      BY <1>1, <1>4, <2>0, <2>1
    <3>2. QED BY <1>3, <2>0, <3>1
  <2>2. CASE k # i + 1 /\ k = j + 1
    <3>1. w[k] = [h[i + 1] EXCEPT !.index = j] /\ at(k) = i + 1
          /\ h[i + 1] \in HeapEntries /\ k - 1 = j
      BY <1>1, <1>4, <2>0, <2>2
    <3>2. QED BY <1>3, <2>0, <3>1
  <2>3. CASE k # i + 1 /\ k # j + 1
    BY <1>1, <1>4, <2>3 DEF Stands
  <2>4. QED BY <2>1, <2>2, <2>3
<1> HIDE DEF at
<1>6. ASSUME NEW k \in 1..n, NEW l \in 1..n, w[k].msg = w[l].msg
      PROVE  k = l
  <2>1. at(k) = at(l)
    BY <1>2, <1>5, <1>6 DEF Stands
  <2>2. QED BY <1>2, <2>1
<1>7. {Entry(w[k]) : k \in 1..n} = {Entry(h[k]) : k \in 1..n}
  <2>1. \A k \in 1..n : Entry(h[k]) = Entry(w[at(k)])
    BY <1>2, <1>5
  <2>2. QED BY <1>2, <1>5, <2>1
<1>8. QED BY <1>5, <1>6, <1>7 DEF w, Stands

\* What Less tells of two entries that only know other positions.
LEMMA LessIndex ==
    ASSUME NEW x \in HeapEntries, NEW y \in HeapEntries, NEW i \in Int, NEW j \in Int
    PROVE  /\ Less([x EXCEPT !.index = i], [y EXCEPT !.index = j]) <=> Less(x, y)
           /\ Less([x EXCEPT !.index = i], y) <=> Less(x, y)
           /\ Less(x, [y EXCEPT !.index = j]) <=> Less(x, y)
<1>1. \A e \in HeapEntries, k \in Int :
          [e EXCEPT !.index = k].prio = e.prio /\ [e EXCEPT !.index = k].ts = e.ts
  BY DEF HeapEntries
<1>2. QED BY <1>1 DEF Less

\* After a swap of i and j, as far as the order is concerned.
LEMMA SwapAbove ==
    ASSUME NEW n \in Nat, NEW h \in HeapSlices(n), NEW i \in 0..n - 1, NEW j \in 0..n - 1,
           i # j,
           NEW p \in 0..n - 1, NEW c \in 0..n - 1
    PROVE  Above(Swap(h, i, j), p, c) <=>
               Above(h, IF p = i THEN j ELSE IF p = j THEN i ELSE p,
                        IF c = i THEN j ELSE IF c = j THEN i ELSE c)
<1> DEFINE w == Swap(h, i, j)
<1>1. \A k \in 1..n : w[k] =
            IF k = i + 1 THEN [h[j + 1] EXCEPT !.index = i]
            ELSE IF k = j + 1 THEN [h[i + 1] EXCEPT !.index = j]
            ELSE h[k]
  BY SwapPointwise
<1> HIDE DEF w
<1>2. \A k \in 1..n : h[k] \in HeapEntries
  BY DEF HeapSlices
<1>3. ASSUME NEW k \in 0..n - 1
      PROVE  \E x \in Int :
                \/ k = i /\ w[k + 1] = [h[j + 1] EXCEPT !.index = x]
                \/ k # i /\ k = j /\ w[k + 1] = [h[i + 1] EXCEPT !.index = x]
                \/ k # i /\ k # j /\ w[k + 1] = h[k + 1]
  <2>0. k + 1 \in 1..n /\ i \in Int /\ j \in Int
    OBVIOUS
  <2>1. CASE k = i
    BY <1>1, <2>0, <2>1
  <2>2. CASE k # i /\ k = j
    BY <1>1, <2>0, <2>2
  <2>3. CASE k # i /\ k # j
    BY <1>1, <2>0, <2>3
  <2>4. QED BY <2>1, <2>2, <2>3
<1>4. \A k \in 0..n - 1 : h[k + 1] \in HeapEntries
  BY <1>2
<1>5. PICK x \in Int :
                \/ p = i /\ w[p + 1] = [h[j + 1] EXCEPT !.index = x]
                \/ p # i /\ p = j /\ w[p + 1] = [h[i + 1] EXCEPT !.index = x]
                \/ p # i /\ p # j /\ w[p + 1] = h[p + 1]
  BY <1>3
<1>6. PICK y \in Int :
                \/ c = i /\ w[c + 1] = [h[j + 1] EXCEPT !.index = y]
                \/ c # i /\ c = j /\ w[c + 1] = [h[i + 1] EXCEPT !.index = y]
                \/ c # i /\ c # j /\ w[c + 1] = h[c + 1]
  BY <1>3
<1> DEFINE pp == IF p = i THEN j ELSE IF p = j THEN i ELSE p
           cc == IF c = i THEN j ELSE IF c = j THEN i ELSE c
<1>7. /\ pp \in 0..n - 1 /\ cc \in 0..n - 1
      /\ w[p + 1] = [h[pp + 1] EXCEPT !.index = x] \/ w[p + 1] = h[pp + 1]
      /\ w[c + 1] = [h[cc + 1] EXCEPT !.index = y] \/ w[c + 1] = h[cc + 1]
  BY <1>5, <1>6
<1> HIDE DEF pp, cc
<1>8. Less(w[c + 1], w[p + 1]) <=> Less(h[cc + 1], h[pp + 1])
  BY <1>4, <1>7, LessIndex
<1>9. QED BY <1>8 DEF Above, w, pp, cc

\* The order of the entries at positions.
LEMMA AboveOrder ==
    ASSUME NEW n \in Nat, NEW h \in HeapSlices(n),
           NEW p \in 0..n - 1, NEW q \in 0..n - 1, NEW r \in 0..n - 1
    PROVE  /\ Above(h, p, q) /\ Above(h, q, r) => Above(h, p, r)
           /\ HeapLess(h, p, q) => Above(h, p, q)
           /\ HeapLess(h, p, q) <=> ~ Above(h, q, p)
           /\ Above(h, p, p)
<1>1. \A k \in 0..n - 1 : h[k + 1] \in HeapEntries
  BY DEF HeapSlices
<1>2. QED BY <1>1, LessOrder DEF Above, HeapLess

-----------------------------------------------------------------------------
(* up. *)

UpStates(n, E) ==
    {t \in [h : HeapSlices(n), j : 0..n - 1] : Stands(t.h, n, E) /\ HeapedUp(t.h, n, t.j)}

\* A turn of up, once there is no other entry for it to mend than that at t.j.
LEMMA UpTurn ==
    ASSUME NEW n \in Nat, NEW E, NEW t \in UpStates(n, E)
    PROVE  /\ UpStep(t) \in UpStates(n, E)
           /\ UpStep(t) = t => Heaped(t.h, n)
           /\ UpStep(t) = t \/ UpStep(t).j < t.j
<1> DEFINE h == t.h
           j == t.j
           i == (j - 1) \div 2
           w == Swap(h, i, j)
<1>1. /\ h \in HeapSlices(n) /\ j \in 0..n - 1 /\ Stands(h, n, E) /\ HeapedUp(h, n, j)
      /\ t = [h |-> h, j |-> j]
  BY DEF UpStates
<1>2. j # 0 => i \in 0..n - 1 /\ i < j /\ Child(i, j)
  BY <1>1 DEF Child
<1>3. UpStep(t) = IF j = 0 \/ ~ HeapLess(h, j, i) THEN t ELSE [h |-> w, j |-> i]
  BY DEF UpStep
<1> HIDE DEF h, j, i
<1>4. CASE j = 0 \/ ~ HeapLess(h, j, i)
  <2>1. \A p, c \in 0..n - 1 : Child(p, c) /\ c # j => Above(h, p, c)
    BY <1>1 DEF HeapedUp
  <2>2. ASSUME NEW p \in 0..n - 1, Child(p, j) PROVE Above(h, p, j)
    <3>1. j # 0
      BY <2>2 DEF Child
    <3>2. p = i
      BY <1>1, <1>2, <2>2, <3>1 DEF Child
    <3>3. QED BY <1>1, <1>2, <1>4, <3>1, <3>2, AboveOrder
  <2>3. Heaped(h, n)
    BY <2>1, <2>2 DEF Heaped
  <2>4. QED BY <1>3, <1>4, <2>3 DEF h
<1>5. CASE ~ (j = 0 \/ ~ HeapLess(h, j, i))
  <2>1. i \in 0..n - 1 /\ i < j /\ Child(i, j) /\ i # j /\ j \in 0..n - 1
    BY <1>1, <1>2, <1>5
  <2>2. w \in HeapSlices(n) /\ Stands(w, n, E)
    BY <1>1, <2>1, SwapPointwise, SwapStands
  <2>3. \A p, c \in 0..n - 1 : Above(w, p, c) <=>
               Above(h, IF p = i THEN j ELSE IF p = j THEN i ELSE p,
                        IF c = i THEN j ELSE IF c = j THEN i ELSE c)
    BY <1>1, <2>1, SwapAbove
  <2> HIDE DEF w
  <2>4. Above(h, j, i)
    BY <1>1, <1>5, <2>1, AboveOrder
  <2>5. ASSUME NEW p \in 0..n - 1, NEW c \in 0..n - 1, Child(p, c), c # i
        PROVE  Above(w, p, c)
    <3>0. p # c
      BY <2>5 DEF Child
    <3>1. CASE c = j
      <4>1. p = i
        BY <2>1, <2>5, <3>1 DEF Child
      <4>2. QED BY <2>1, <2>3, <2>4, <3>1, <4>1
    <3>2. CASE c # j /\ p = i
      <4>1. Above(h, i, c)
        BY <1>1, <2>5, <3>2 DEF HeapedUp
      <4>2. Above(h, j, c)
        BY <1>1, <2>1, <2>4, <4>1, AboveOrder
      <4>3. QED BY <2>3, <2>5, <3>2, <4>2
    <3>3. CASE c # j /\ p = j
      <4>1. Above(h, i, c)
        BY <1>1, <2>1, <2>5, <3>3 DEF HeapedUp
      <4>2. QED BY <2>1, <2>3, <2>5, <3>3, <4>1
    <3>4. CASE c # j /\ p # i /\ p # j
      <4>1. Above(h, p, c)
        BY <1>1, <2>5, <3>4 DEF HeapedUp
      <4>2. QED BY <2>3, <2>5, <3>4, <4>1
    <3>5. QED BY <3>1, <3>2, <3>3, <3>4
  <2>6. ASSUME NEW p \in 0..n - 1, NEW c \in 0..n - 1, Child(p, i), Child(i, c)
        PROVE  Above(w, p, c)
    <3>0. p < i /\ i < c
      BY <2>6 DEF Child
    <3>1. Above(h, p, i)
      BY <1>1, <2>1, <2>6 DEF HeapedUp
    <3>2. CASE c = j
      BY <2>1, <2>3, <3>0, <3>1, <3>2
    <3>3. CASE c # j
      <4>1. Above(h, i, c)
        BY <1>1, <2>1, <2>6, <3>3 DEF HeapedUp
      <4>2. Above(h, p, c)
        BY <1>1, <2>1, <3>1, <4>1, AboveOrder
      <4>3. QED BY <2>1, <2>3, <3>0, <3>3, <4>2
    <3>4. QED BY <3>2, <3>3
  <2>7. HeapedUp(w, n, i)
    BY <2>5, <2>6 DEF HeapedUp
  <2>8. [h |-> w, j |-> i] \in UpStates(n, E)
    BY <2>1, <2>2, <2>7 DEF UpStates
  <2>9. UpStep(t) = [h |-> w, j |-> i]
    BY <1>3, <1>5 DEF w
  <2>10. UpStep(t).j = i
    BY <2>9
  <2>11. UpStep(t).j < t.j /\ UpStep(t) # t
    BY <2>1, <2>10 DEF j
  <2>12. QED BY <2>8, <2>9, <2>11
<1>6. QED BY <1>4, <1>5

\* HeapSlices are the sequences of their length.
LEMMA SliceSeq ==
    ASSUME NEW n \in Nat
    PROVE  \A h : h \in HeapSlices(n) <=> h \in Seq(HeapEntries) /\ Len(h) = n
<1>1. ASSUME NEW h \in HeapSlices(n) PROVE h \in Seq(HeapEntries) /\ Len(h) = n
  BY IsASeq, LenProperties DEF HeapSlices
<1>2. ASSUME NEW h \in Seq(HeapEntries), Len(h) = n PROVE h \in HeapSlices(n)
  BY <1>2, LenProperties DEF HeapSlices
<1>3. QED BY <1>1, <1>2

\* up makes a heap of a slice that is one but for the entry at j.
LEMMA UpHeaps ==
    ASSUME NEW n \in Nat, NEW E, NEW h \in HeapSlices(n), NEW j \in 0..n - 1,
           Stands(h, n, E), HeapedUp(h, n, j)
    PROVE  up(h, j) \in HeapSlices(n) /\ Stands(up(h, j), n, E) /\ Heaped(up(h, j), n)
<1> DEFINE J == UpStates(n, E)
           x0 == [h |-> h, j |-> j]
           G == [t \in J |-> UpStep(t)]
           m == [t \in J |-> t.j]
           Is(f) == f = [k \in 0..n |-> IF k = 0 THEN x0 ELSE UpStep(f[k - 1])]
           after == CHOOSE f : Is(f)
<1>1. Len(h) = n
  BY SliceSeq
<1>2. up(h, j) = after[n].h
  BY <1>1 DEF up
<1>3. /\ x0 \in J /\ x0.j = j
      /\ \A t \in J : UpStep(t) \in J /\ t.j \in Nat
  BY UpTurn DEF UpStates
<1>4. /\ G \in [J -> J] /\ m \in [J -> Nat] /\ m[x0] <= n
      /\ \A t \in J : G[t] = UpStep(t) /\ m[t] = t.j
  BY <1>3
<1>5. \A t \in J : G[t] = t \/ m[G[t]] < m[t]
  BY <1>3, <1>4, UpTurn
<1> HIDE DEF x0, G, m, J
<1>6. PICK g \in [0..n -> J] : Turns(g, J, G, x0, n)
  BY <1>3, <1>4, TurnsExist
<1>7. Is(g)
  <2> DEFINE e == [k \in 0..n |-> IF k = 0 THEN x0 ELSE UpStep(g[k - 1])]
  <2>1. ASSUME NEW k \in 0..n PROVE g[k] = e[k]
    <3>1. CASE k = 0
      BY <1>6, <3>1 DEF Turns
    <3>2. CASE k # 0
      <4>1. k \in 1..n /\ k - 1 \in 0..n /\ g[k - 1] \in J
        BY <1>6, <3>2
      <4>2. QED BY <1>4, <1>6, <3>2, <4>1 DEF Turns
    <3>3. QED BY <3>1, <3>2
  <2>2. e = [k \in 0..n |-> e[k]] /\ g = [k \in 0..n |-> g[k]]
    OBVIOUS
  <2> HIDE DEF e, Is
  <2>3. g = e
    BY <2>1, <2>2
  <2>4. QED BY <2>3 DEF e, Is
<1>8. Is(after)
  BY <1>7
<1> HIDE DEF after
<1>9. Turns(after, J, G, x0, n)
  <2>1. DOMAIN after = 0..n /\ after[0] = x0
    BY <1>8
  <2>2. ASSUME NEW k \in 1..n, after[k - 1] \in J PROVE after[k] = G[after[k - 1]]
    <3>1. k \in 0..n /\ k # 0
      OBVIOUS
    <3>2. after[k] = UpStep(after[k - 1])
      BY <1>8, <3>1
    <3>3. QED BY <1>4, <2>2, <3>2
  <2>3. QED BY <2>1, <2>2 DEF Turns
<1>10. after[n] \in J /\ G[after[n]] = after[n]
  <2>1. Measured(m, J, G, x0, n)
    BY <1>4, <1>5 DEF Measured
  <2>2. x0 \in J /\ G \in [J -> J] /\ n \in Nat /\ n \in 0..n
    BY <1>3, <1>4
  <2> HIDE DEF Is
  <2>3. \A k \in 0..n : after[k] \in J
    BY <1>9, <2>1, <2>2, TurnsEnd
  <2>4. G[after[n]] = after[n]
    BY <1>9, <2>1, <2>2, TurnsEnd
  <2>5. QED BY <2>2, <2>3, <2>4
<1>11. Heaped(after[n].h, n)
  BY <1>4, <1>10, UpTurn DEF J
<1>12. QED BY <1>2, <1>10, <1>11 DEF J, UpStates

-----------------------------------------------------------------------------
(* down, on the first n of N entries; the others stay those of g.           *)

DownStates(N, n, E, g) ==
    {t \in [h : HeapSlices(N), j : 0..N - 1] :
        /\ Stands(t.h, N, E)
        /\ HeapedDown(t.h, n, t.j)
        /\ \A k \in n + 1..N : t.h[k] = g[k]}

\* The child of i that down looks at is one that may stay above the other.
LEMMA SmallerChild ==
    ASSUME NEW N \in Nat, NEW n \in 0..N, NEW h \in HeapSlices(N), NEW i \in 0..N - 1,
           2 * i + 1 < n,
           NEW j, j = IF (2 * i + 1) + 1 < n /\ HeapLess(h, (2 * i + 1) + 1, 2 * i + 1)
                      THEN (2 * i + 1) + 1 ELSE 2 * i + 1
    PROVE  /\ j \in 0..n - 1 /\ i \in 0..n - 1 /\ Child(i, j) /\ i < j
           /\ \A c \in 0..n - 1 : Child(i, c) => Above(h, j, c)
<1> DEFINE l == 2 * i + 1
           r == (2 * i + 1) + 1
<1>1. /\ i \in Int /\ n \in Int /\ l \in 0..n - 1 /\ i \in 0..n - 1 /\ i < l /\ r = l + 1
      /\ \A c \in 0..n - 1 : Child(i, c) <=> c = l \/ c = r
      /\ \A c \in 0..n - 1 : c \in 0..N - 1
  BY DEF Child
<1>2. j = IF r < n /\ HeapLess(h, r, l) THEN r ELSE l
  OBVIOUS
<1> HIDE DEF l, r
<1>3. CASE r < n /\ HeapLess(h, r, l)
  <2>1. j = r /\ r \in 0..n - 1 /\ i < r
    BY <1>1, <1>2, <1>3
  <2>2. Above(h, r, l) /\ Above(h, r, r)
    BY <1>1, <1>3, <2>1, AboveOrder
  <2>3. QED BY <1>1, <2>1, <2>2
<1>4. CASE ~ (r < n /\ HeapLess(h, r, l))
  <2>1. j = l
    BY <1>2, <1>4
  <2>2. Above(h, l, l)
    BY <1>1, AboveOrder
  <2>3. ASSUME NEW c \in 0..n - 1, c = r PROVE Above(h, l, c)
    <3>1. r < n /\ r \in 0..N - 1 /\ l \in 0..N - 1
      BY <1>1, <2>3
    <3>2. QED BY <1>4, <2>3, <3>1, AboveOrder
  <2>4. QED BY <1>1, <2>1, <2>2, <2>3
<1>5. QED BY <1>3, <1>4

\* A turn of down.
LEMMA DownTurn ==
    ASSUME NEW N \in Nat, NEW n \in 0..N, NEW E, NEW g, NEW t \in DownStates(N, n, E, g)
    PROVE  /\ DownStep(t, n) \in DownStates(N, n, E, g)
           /\ DownStep(t, n) = t => Heaped(t.h, n)
           /\ DownStep(t, n) = t \/ DownStep(t, n).j > t.j
<1> DEFINE h == t.h
           i == t.j
           l == 2 * i + 1
           j == IF l + 1 < n /\ HeapLess(h, l + 1, l) THEN l + 1 ELSE l
           w == Swap(h, i, j)
<1>1. /\ h \in HeapSlices(N) /\ i \in 0..N - 1 /\ Stands(h, N, E) /\ HeapedDown(h, n, i)
      /\ \A k \in n + 1..N : h[k] = g[k]
      /\ t = [h |-> h, j |-> i]
  BY DEF DownStates
<1>2. l < n => /\ j \in 0..n - 1 /\ i \in 0..n - 1 /\ Child(i, j) /\ i < j
               /\ \A c \in 0..n - 1 : Child(i, c) => Above(h, j, c)
  BY <1>1, SmallerChild
<1>3. DownStep(t, n) =
          IF l >= n \/ ~ HeapLess(h, j, i) THEN t ELSE [h |-> w, j |-> j]
  BY DEF DownStep
<1>0. /\ \A c \in 0..n - 1 : c \in 0..N - 1
      /\ \A c \in 0..n - 1 : Child(i, c) => l < n
      /\ l >= n \/ l < n
  BY <1>1 DEF Child
<1> HIDE DEF h, i, l, j
<1>4. CASE l >= n \/ ~ HeapLess(h, j, i)
  <2>1. \A p, c \in 0..n - 1 : Child(p, c) /\ p # i => Above(h, p, c)
    BY <1>1 DEF HeapedDown
  <2>2. ASSUME NEW c \in 0..n - 1, i \in 0..n - 1, Child(i, c) PROVE Above(h, i, c)
    <3>1. l < n /\ ~ (l >= n)
      BY <1>0, <1>1, <2>2 DEF l
    <3>2. j \in 0..N - 1 /\ c \in 0..N - 1 /\ Above(h, j, c)
      BY <1>0, <1>2, <2>2, <3>1
    <3>3. Above(h, i, j)
      BY <1>1, <1>4, <3>1, <3>2, AboveOrder
    <3>4. QED BY <1>1, <3>2, <3>3, AboveOrder
  <2>3. Heaped(h, n)
    BY <2>1, <2>2 DEF Heaped
  <2>4. QED BY <1>3, <1>4, <2>3 DEF h
<1>5. CASE ~ (l >= n \/ ~ HeapLess(h, j, i))
  <2>1. /\ j \in 0..n - 1 /\ i \in 0..n - 1 /\ Child(i, j) /\ i < j /\ i # j
        /\ i \in 0..N - 1 /\ j \in 0..N - 1
        /\ \A c \in 0..n - 1 : Child(i, c) => Above(h, j, c)
    BY <1>0, <1>1, <1>2, <1>5
  <2>2. w \in HeapSlices(N) /\ Stands(w, N, E)
    BY <1>1, <2>1, SwapPointwise, SwapStands
  <2>3. \A p, c \in 0..n - 1 : Above(w, p, c) <=>
               Above(h, IF p = i THEN j ELSE IF p = j THEN i ELSE p,
                        IF c = i THEN j ELSE IF c = j THEN i ELSE c)
    BY <1>0, <1>1, <2>1, SwapAbove
  <2>4. \A k \in n + 1..N : w[k] = g[k]
    <3>1. ASSUME NEW k \in n + 1..N PROVE w[k] = h[k]
      <4>1. k \in 1..N /\ k # i + 1 /\ k # j + 1
        BY <2>1
      <4>2. Swap(h, i, j)[k] = h[k]
        <5>1. \A x \in 1..N : Swap(h, i, j)[x] =
                 IF x = i + 1 THEN [h[j + 1] EXCEPT !.index = i]
                 ELSE IF x = j + 1 THEN [h[i + 1] EXCEPT !.index = j]
                 ELSE h[x]
          BY <1>1, <2>1, SwapPointwise
        <5>2. QED BY <4>1, <5>1
      <4>3. QED BY <4>2
    <3>2. QED BY <1>1, <3>1
  <2> HIDE DEF w
  <2>5. ASSUME NEW p \in 0..n - 1, NEW c \in 0..n - 1, Child(p, c), p # j
        PROVE  Above(w, p, c)
    <3>0. p < c
      BY <2>5 DEF Child
    <3>1. CASE p = i /\ c = j
      <4>1. Above(h, j, i)
        BY <1>1, <1>5, <2>1, AboveOrder
      <4>2. QED BY <2>1, <2>3, <3>1, <4>1
    <3>2. CASE p = i /\ c # j
      <4>1. c # i
        BY <3>0, <3>2
      <4>2. QED BY <2>1, <2>3, <2>5, <3>2, <4>1
    <3>3. CASE p # i /\ c = i
      <4>1. Above(h, p, j)
        BY <1>1, <2>1, <2>5, <3>3 DEF HeapedDown
      <4>2. QED BY <2>1, <2>3, <2>5, <3>3, <4>1
    <3>4. CASE p # i /\ c # i
      <4>1. c # j
        BY <2>1, <2>5, <3>4 DEF Child
      <4>2. Above(h, p, c)
        BY <1>1, <2>5, <3>4 DEF HeapedDown
      <4>3. QED BY <2>3, <2>5, <3>4, <4>1, <4>2
    <3>5. QED BY <3>1, <3>2, <3>3, <3>4
  <2>6. ASSUME NEW p \in 0..n - 1, NEW c \in 0..n - 1, Child(p, j), Child(j, c)
        PROVE  Above(w, p, c)
    <3>1. p = i /\ j < c /\ i < c
      BY <2>1, <2>6 DEF Child
    <3>2. Above(h, j, c)
      BY <1>1, <2>1, <2>6 DEF HeapedDown
    <3>3. QED BY <2>1, <2>3, <3>1, <3>2
  <2>7. HeapedDown(w, n, j)
    BY <2>5, <2>6 DEF HeapedDown
  <2>8. [h |-> w, j |-> j] \in DownStates(N, n, E, g)
    BY <2>1, <2>2, <2>4, <2>7 DEF DownStates
  <2>9. DownStep(t, n) = [h |-> w, j |-> j]
    BY <1>3, <1>5 DEF w
  <2>10. DownStep(t, n).j = j
    BY <2>9
  <2>11. DownStep(t, n).j > t.j /\ DownStep(t, n) # t
    BY <2>1, <2>10 DEF i
  <2>12. QED BY <2>8, <2>9, <2>11
<1>6. QED BY <1>4, <1>5

\* down makes a heap of n entries that are one but for that at i, and leaves
\* the others.
LEMMA DownHeaps ==
    ASSUME NEW N \in Nat, NEW n \in 0..N, NEW E, NEW h \in HeapSlices(N), NEW i \in 0..N - 1,
           Stands(h, N, E), HeapedDown(h, n, i)
    PROVE  /\ down(h, i, n) \in HeapSlices(N) /\ Stands(down(h, i, n), N, E)
           /\ Heaped(down(h, i, n), n)
           /\ \A k \in n + 1..N : down(h, i, n)[k] = h[k]
<1> DEFINE J == DownStates(N, n, E, h)
           x0 == [h |-> h, j |-> i]
           G == [t \in J |-> DownStep(t, n)]
           m == [t \in J |-> N - t.j]
           Is(f) == f = [k \in 0..N |-> IF k = 0 THEN x0 ELSE DownStep(f[k - 1], n)]
           after == CHOOSE f : Is(f)
<1>1. Len(h) = N
  BY SliceSeq
<1>2. down(h, i, n) = after[N].h
  BY <1>1 DEF down
<1>3. /\ x0 \in J /\ x0.j = i
      /\ \A t \in J : DownStep(t, n) \in J /\ t.j \in 0..N - 1
  <2>1. x0 \in J /\ x0.j = i
    BY DEF DownStates
  <2>2. \A t \in J : t.j \in 0..N - 1
    BY DEF DownStates
  <2> HIDE DEF J
  <2>3. ASSUME NEW t \in J PROVE DownStep(t, n) \in J
    BY <2>3, DownTurn DEF J
  <2>4. QED BY <2>1, <2>2, <2>3
<1>4. /\ G \in [J -> J] /\ m \in [J -> Nat] /\ m[x0] <= N
      /\ \A t \in J : G[t] = DownStep(t, n) /\ m[t] = N - t.j
  BY <1>3
<1>5. \A t \in J : G[t] = t \/ m[G[t]] < m[t]
  BY <1>3, <1>4, DownTurn
<1> HIDE DEF x0, G, m, J
<1>6. PICK f \in [0..N -> J] : Turns(f, J, G, x0, N)
  BY <1>3, <1>4, TurnsExist
<1>7. Is(f)
  <2> DEFINE e == [k \in 0..N |-> IF k = 0 THEN x0 ELSE DownStep(f[k - 1], n)]
  <2>1. ASSUME NEW k \in 0..N PROVE f[k] = e[k]
    <3>1. CASE k = 0
      BY <1>6, <3>1 DEF Turns
    <3>2. CASE k # 0
      <4>1. k \in 1..N /\ k - 1 \in 0..N /\ f[k - 1] \in J
        BY <1>6, <3>2
      <4>2. QED BY <1>4, <1>6, <3>2, <4>1 DEF Turns
    <3>3. QED BY <3>1, <3>2
  <2>2. e = [k \in 0..N |-> e[k]] /\ f = [k \in 0..N |-> f[k]]
    OBVIOUS
  <2> HIDE DEF e, Is
  <2>3. f = e
    BY <2>1, <2>2
  <2>4. QED BY <2>3 DEF e, Is
<1>8. Is(after)
  BY <1>7
<1> HIDE DEF after
<1>9. Turns(after, J, G, x0, N)
  <2>1. DOMAIN after = 0..N /\ after[0] = x0
    BY <1>8
  <2>2. ASSUME NEW k \in 1..N, after[k - 1] \in J PROVE after[k] = G[after[k - 1]]
    <3>1. k \in 0..N /\ k # 0
      OBVIOUS
    <3>2. after[k] = DownStep(after[k - 1], n)
      BY <1>8, <3>1
    <3>3. QED BY <1>4, <2>2, <3>2
  <2>3. QED BY <2>1, <2>2 DEF Turns
<1> HIDE DEF Is
<1>10. after[N] \in J /\ G[after[N]] = after[N]
  <2>1. Measured(m, J, G, x0, N)
    BY <1>4, <1>5 DEF Measured
  <2>2. x0 \in J /\ G \in [J -> J] /\ N \in Nat /\ N \in 0..N
    BY <1>3, <1>4
  <2>3. \A k \in 0..N : after[k] \in J
    BY <1>9, <2>1, <2>2, TurnsEnd
  <2>4. G[after[N]] = after[N]
    BY <1>9, <2>1, <2>2, TurnsEnd
  <2>5. QED BY <2>2, <2>3, <2>4
<1>11. Heaped(after[N].h, n)
  BY <1>4, <1>10, DownTurn DEF J
<1>12. QED BY <1>2, <1>10, <1>11 DEF J, DownStates

-----------------------------------------------------------------------------
(* What Push and Pop do to the set of entries. *)

\* The first entry of a heap may stay above all others.
LEMMA RootFirst ==
    ASSUME NEW n \in Nat, NEW h \in HeapSlices(n), Heaped(h, n), n > 0
    PROVE  \A c \in 0..n - 1 : Above(h, 0, c)
<1> DEFINE S == {k \in Nat : \A c \in 0..k : c < n => Above(h, 0, c)}
<1>1. 0 \in 0..n - 1 /\ Above(h, 0, 0)
  BY AboveOrder
<1>2. 0 \in S
  BY <1>1
<1>3. ASSUME NEW k \in Nat, k \in S PROVE k + 1 \in S
  <2>1. ASSUME k + 1 < n PROVE Above(h, 0, k + 1)
    <3> DEFINE p == k \div 2
    <3>1. p \in 0..k /\ p < n /\ Child(p, k + 1)
      BY <2>1 DEF Child
    <3> HIDE DEF p
    <3>2. p \in 0..n - 1 /\ k + 1 \in 0..n - 1
      BY <2>1, <3>1
    <3>3. Above(h, 0, p) /\ Above(h, p, k + 1)
      BY <1>3, <3>1, <3>2 DEF Heaped
    <3>4. QED BY <1>1, <3>2, <3>3, AboveOrder
  <2>2. \A c \in 0..k + 1 : c \in 0..k \/ c = k + 1
    OBVIOUS
  <2>3. QED BY <1>3, <2>1, <2>2
<1> HIDE DEF S
<1>4. Nat \subseteq S
  BY <1>2, <1>3, SetInduction
<1>5. ASSUME NEW c \in 0..n - 1 PROVE Above(h, 0, c)
  <2>1. c \in S /\ c \in 0..c /\ c < n
    BY <1>4
  <2>2. QED BY <2>1 DEF S
<1>6. QED BY <1>5

\* The order of entries is that of what they stand for.
LEMMA LessEntry ==
    ASSUME NEW x \in HeapEntries, NEW y \in HeapEntries
    PROVE  /\ Entry(x) \in Items(HeapMsgs) /\ Entry(x).msg = x.msg
           /\ Less(Entry(x), Entry(y)) <=> Less(x, y)
BY DEF HeapEntries, Items, Entry, QueueItem, Less

\* heap.Push adds one entry.
LEMMA PushAdds ==
    ASSUME NEW n \in Nat, NEW h \in HeapSlices(n), NEW E, Stands(h, n, E), Heaped(h, n),
           NEW x \in HeapEntries, \A k \in 1..n : h[k].msg # x.msg
    PROVE  /\ HeapPush(h, x) \in HeapSlices(n + 1)
           /\ Stands(HeapPush(h, x), n + 1, E \cup {Entry(x)})
           /\ Heaped(HeapPush(h, x), n + 1)
<1> DEFINE y == [x EXCEPT !.index = n]
           g == Append(h, y)
<1>1. h \in Seq(HeapEntries) /\ Len(h) = n
  BY SliceSeq
<1>2. HeapPush(h, x) = up(g, n)
  BY <1>1 DEF HeapPush, PushLast
<1>3. y \in HeapEntries /\ y.index = n /\ y.msg = x.msg /\ Entry(y) = Entry(x)
  BY DEF HeapEntries, Entry, QueueItem
<1> HIDE DEF y
<1>4. /\ g \in Seq(HeapEntries) /\ Len(g) = n + 1 /\ g[n + 1] = y
      /\ \A k \in 1..n : g[k] = h[k]
  BY <1>1, <1>3, AppendProperties
<1> HIDE DEF g
<1>5. g \in HeapSlices(n + 1)
  <2>1. n + 1 \in Nat
    OBVIOUS
  <2>2. QED BY <1>4, <2>1, SliceSeq
<1>6. \A k \in 1..n + 1 : k \in 1..n \/ k = n + 1
  OBVIOUS
<1>7. Stands(g, n + 1, E \cup {Entry(x)})
  <2>1. \A k \in 1..n + 1 : g[k].index = k - 1
    BY <1>3, <1>4, <1>6 DEF Stands
  <2>2. \A j, k \in 1..n + 1 : g[j].msg = g[k].msg => j = k
    BY <1>3, <1>4, <1>6 DEF Stands
  <2>3. {Entry(g[k]) : k \in 1..n + 1} = {Entry(h[k]) : k \in 1..n} \cup {Entry(x)}
    <3>1. \A k \in 1..n : Entry(g[k]) = Entry(h[k]) /\ k \in 1..n + 1
      BY <1>4
    <3>2. Entry(g[n + 1]) = Entry(x) /\ n + 1 \in 1..n + 1
      BY <1>3, <1>4
    <3>3. QED BY <1>6, <3>1, <3>2
  <2>4. QED BY <2>1, <2>2, <2>3 DEF Stands
<1>8. HeapedUp(g, n + 1, n)
  <2>1. ASSUME NEW p \in 0..(n + 1) - 1, NEW c \in 0..(n + 1) - 1, Child(p, c), c # n
        PROVE  Above(g, p, c)
    <3>1. p \in 0..n - 1 /\ c \in 0..n - 1 /\ p + 1 \in 1..n /\ c + 1 \in 1..n
      BY <2>1 DEF Child
    <3>2. Above(h, p, c)
      BY <2>1, <3>1 DEF Heaped
    <3>3. QED BY <1>4, <3>1, <3>2 DEF Above
  <2>2. ASSUME NEW c \in 0..(n + 1) - 1 PROVE ~ Child(n, c)
    BY DEF Child
  <2>3. QED BY <2>1, <2>2 DEF HeapedUp
<1>9. QED
  BY <1>2, <1>5, <1>7, <1>8, UpHeaps

\* heap.Pop removes and returns the first entry, and no other precedes it.
LEMMA PopRemoves ==
    ASSUME NEW n \in Nat, NEW h \in HeapSlices(n + 1), NEW E, Stands(h, n + 1, E),
           Heaped(h, n + 1)
    PROVE  LET r == HeapPop(h)
           IN  /\ r.rest \in HeapSlices(n)
               /\ Stands(r.rest, n, E \ {Entry(r.item)})
               /\ Heaped(r.rest, n)
               /\ Entry(r.item) \in Heads(E)
<1> DEFINE N == n + 1
           s == Swap(h, 0, n)
           d == down(s, 0, n)
           rest == SubSeq(d, 1, N - 1)
           item == [d[N] EXCEPT !.index = -1]
<1>1. Len(h) = N /\ N \in Nat /\ Len(h) - 1 = n /\ n \in 0..N /\ 1 \in 1..N /\ N \in 1..N
      /\ 0 \in 0..N - 1
  BY SliceSeq
<1>2. HeapPop(h) = PopLast(d)
  BY <1>1 DEF HeapPop
<1>3. h[1] \in HeapEntries /\ h[1].index = 0
  BY <1>1 DEF HeapSlices, Stands
<1>4. /\ s \in HeapSlices(N) /\ Stands(s, N, E)
      /\ HeapedDown(s, n, 0)
      /\ Entry(s[N]) = Entry(h[1])
  <2>1. CASE n = 0
    <3>1. s = h
      <4>1. h = [k \in {1} |-> h[k]]
        BY <1>1, <2>1 DEF HeapSlices
      <4>2. [h[1] EXCEPT !.index = 0] = h[1]
        BY <1>3 DEF HeapEntries
      <4>3. QED BY <1>1, <1>3, <2>1, <4>1, <4>2 DEF Swap, HeapSlices
    <3>2. HeapedDown(h, 0, 0)
      BY DEF HeapedDown
    <3>3. QED BY <1>1, <2>1, <3>1, <3>2
  <2>2. CASE n # 0
    <3>1. n \in 0..N - 1 /\ 0 # n
      BY <2>2
    <3>2. s \in HeapSlices(N) /\ Stands(s, N, E)
      <4>1. N \in Nat /\ h \in HeapSlices(N) /\ Stands(h, N, E)
        BY <1>1
      <4> HIDE DEF N
      <4>2. s \in HeapSlices(N)
        BY <1>1, <3>1, <4>1, SwapPointwise
      <4>3. Stands(s, N, E)
        BY <1>1, <3>1, <4>1, SwapStands
      <4>4. QED BY <4>2, <4>3
    <3>3. \A k \in 1..N : s[k] =
                 IF k = 0 + 1 THEN [h[n + 1] EXCEPT !.index = 0]
                 ELSE IF k = n + 1 THEN [h[0 + 1] EXCEPT !.index = n]
                 ELSE h[k]
      BY <1>1, <3>1, SwapPointwise
    <3> HIDE DEF s
    <3>4. s[N] = [h[1] EXCEPT !.index = n]
      BY <1>1, <2>2, <3>3
    <3>5. Entry(s[N]) = Entry(h[1])
      BY <1>3, <3>4 DEF HeapEntries, Entry, QueueItem
    <3>6. ASSUME NEW p \in 0..n - 1, NEW c \in 0..n - 1, Child(p, c), p # 0
          PROVE  Above(s, p, c)
      <4>1. p \in 0..N - 1 /\ c \in 0..N - 1 /\ c # 0 /\ c # n /\ p # n
        BY <3>6 DEF Child
      <4>2. s[p + 1] = h[p + 1] /\ s[c + 1] = h[c + 1]
        BY <3>3, <3>6, <4>1
      <4>3. Above(h, p, c)
        BY <3>6, <4>1 DEF Heaped
      <4>4. QED BY <4>2, <4>3 DEF Above
    <3>7. \A p \in 0..n - 1 : ~ Child(p, 0)
      BY DEF Child
    <3>8. HeapedDown(s, n, 0)
      BY <3>6, <3>7 DEF HeapedDown
    <3>9. QED BY <3>2, <3>5, <3>8
  <2>3. QED BY <2>1, <2>2
<1> HIDE DEF s
<1>5. /\ d \in HeapSlices(N) /\ Stands(d, N, E) /\ Heaped(d, n)
      /\ d[N] = s[N]
  <2>1. N \in n + 1..N
    BY <1>1
  <2>2. QED BY <1>1, <1>4, <2>1, DownHeaps
<1> HIDE DEF d
<1>6. Len(d) = N /\ d \in Seq(HeapEntries) /\ \A k \in 1..N : d[k] \in HeapEntries
  BY <1>1, <1>5, SliceSeq DEF HeapSlices
<1>7. HeapPop(h) = [rest |-> rest, item |-> item]
  BY <1>2, <1>6 DEF PopLast
<1>8. /\ rest \in Seq(HeapEntries) /\ Len(rest) = n
      /\ \A k \in 1..n : rest[k] = d[k]
  <2>1. /\ 1 \in Int /\ N - 1 \in Int /\ N - 1 = n
        /\ \A k \in 1..N - 1 : d[k] \in HeapEntries
    BY <1>1, <1>6
  <2>2. /\ rest \in Seq(HeapEntries)
        /\ Len(rest) = IF 1 <= N - 1 THEN (N - 1) - 1 + 1 ELSE 0
        /\ \A k \in 1..(N - 1) - 1 + 1 : rest[k] = d[1 + k - 1]
    BY <2>1, SubSeqProperties
  <2> HIDE DEF rest
  <2>3. \A k \in 1..n : k \in 1..(N - 1) - 1 + 1 /\ 1 + k - 1 = k
    BY <2>1
  <2>4. QED BY <2>1, <2>2, <2>3
<1>9. rest \in HeapSlices(n)
  BY <1>8, SliceSeq
<1>10. Entry(item) = Entry(d[N]) /\ Entry(item) = Entry(h[1])
  BY <1>1, <1>4, <1>5, <1>6 DEF HeapEntries, Entry, QueueItem
<1> HIDE DEF rest, item
<1>11. Stands(rest, n, E \ {Entry(item)})
  <2>0. \A k \in 1..n : k \in 1..N /\ k # N
    BY <1>1
  <2>1. \A k \in 1..n : rest[k].index = k - 1
    BY <1>5, <1>8, <2>0 DEF Stands
  <2>2. \A j, k \in 1..n : rest[j].msg = rest[k].msg => j = k
    BY <1>5, <1>8, <2>0 DEF Stands
  <2>3. \A k \in 1..n : Entry(d[k]) # Entry(d[N])
    BY <1>1, <1>5, <1>6, <2>0, LessEntry DEF Stands
  <2>4. E = {Entry(d[k]) : k \in 1..N}
    BY <1>5 DEF Stands
  <2>5. \A k \in 1..N : k \in 1..n \/ k = N
    BY <1>1
  <2>6. {Entry(rest[k]) : k \in 1..n} = E \ {Entry(d[N])}
    <3>1. \A k \in 1..n : Entry(rest[k]) = Entry(d[k])
      BY <1>8
    <3>2. QED BY <2>0, <2>3, <2>4, <2>5, <3>1
  <2>7. QED BY <1>10, <2>1, <2>2, <2>6 DEF Stands
<1>12. Heaped(rest, n)
  <2>1. ASSUME NEW p \in 0..n - 1, NEW c \in 0..n - 1, Child(p, c) PROVE Above(rest, p, c)
    <3>1. Above(d, p, c)
      BY <1>5, <2>1 DEF Heaped
    <3>2. p + 1 \in 1..n /\ c + 1 \in 1..n
      OBVIOUS
    <3>3. QED BY <1>8, <3>1, <3>2 DEF Above
  <2>2. QED BY <2>1 DEF Heaped
<1>13. Entry(h[1]) \in Heads(E)
  <2>1. E = {Entry(h[k]) : k \in 1..N} /\ Entry(h[1]) \in E
    BY <1>1 DEF Stands
  <2>2. ASSUME NEW k \in 1..N PROVE ~ Less(Entry(h[k]), Entry(h[1]))
    <3>1. k - 1 \in 0..N - 1 /\ (k - 1) + 1 = k
      BY <1>1
    <3>2. Above(h, 0, k - 1)
      BY <1>1, <3>1, RootFirst
    <3>3. ~ Less(h[k], h[1])
      BY <3>1, <3>2 DEF Above
    <3>4. h[k] \in HeapEntries
      BY DEF HeapSlices
    <3>5. QED BY <1>3, <3>3, <3>4, LessEntry
  <2>3. QED BY <2>1, <2>2 DEF Heads
<1>14. QED BY <1>7, <1>9, <1>10, <1>11, <1>12, <1>13

-----------------------------------------------------------------------------
(* Every step keeps a heap whose entries know their positions. *)

Contents == {Entry(heap[k]) : k \in DOMAIN heap}

\* A slice that stands for its contents, and whose root no entry precedes.
HeapInv ==
    /\ heap \in Seq(HeapEntries)
    /\ now \in Nat /\ pushes \in Nat
    /\ Stands(heap, Len(heap), Contents)
    /\ Heaped(heap, Len(heap))

LEMMA HeapSlice ==
    ASSUME HeapInv
    PROVE  /\ Len(heap) \in Nat /\ heap \in HeapSlices(Len(heap))
           /\ DOMAIN heap = 1..Len(heap)
BY LenProperties, SliceSeq DEF HeapInv

LEMMA InitHeapInv == HeapInit => HeapInv
<1> SUFFICES ASSUME HeapInit PROVE HeapInv
  OBVIOUS
<1>1. heap \in Seq(HeapEntries) /\ Len(heap) = 0 /\ DOMAIN heap = 1..0
  BY EmptySeq, LenProperties DEF HeapInit
<1>2. Stands(heap, 0, Contents)
  BY <1>1 DEF Stands, Contents
<1>3. Heaped(heap, 0)
  BY DEF Heaped
<1>4. QED BY <1>1, <1>2, <1>3 DEF HeapInit, HeapInv

\* A new slice that is a heap, and what it stands for.
LEMMA NewSlice ==
    ASSUME NEW n \in Nat, NEW E, heap' \in HeapSlices(n), Stands(heap', n, E),
           Heaped(heap', n), now' \in Nat, pushes' \in Nat
    PROVE  HeapInv' /\ Contents' = E
<1>1. heap' \in Seq(HeapEntries) /\ Len(heap') = n /\ DOMAIN heap' = 1..n
  BY SliceSeq, LenProperties
<1>2. Contents' = E
  BY <1>1 DEF Contents, Stands
<1>3. QED BY <1>1, <1>2 DEF HeapInv

\* Push adds the new entry ...
LEMMA PushStep ==
    ASSUME HeapInv, NEW m \in HeapMsgs, NEW p \in Levels, Push(m, p)
    PROVE  /\ HeapInv'
           /\ Contents' = Contents \cup {QueueItem(m, p, now)}
           /\ QueueItem(m, p, now) \in Items(HeapMsgs)
           /\ \A i \in Contents : i.msg # m
           /\ popped' = popped
<1> DEFINE x == [msg |-> m, prio |-> p, ts |-> now, index |-> -1]
           n == Len(heap)
<1>1. n \in Nat /\ heap \in HeapSlices(n) /\ DOMAIN heap = 1..n
  BY HeapSlice
<1>2. x \in HeapEntries /\ Entry(x) = QueueItem(m, p, now) /\ x.msg = m
      /\ Entry(x) \in Items(HeapMsgs)
  BY LevelsType DEF HeapInv, HeapEntries, Entry, QueueItem, Items
<1>3. \A k \in 1..n : heap[k].msg # x.msg
  BY <1>1, <1>2 DEF Push, Carried
<1>4. heap' = HeapPush(heap, x) /\ now' \in Nat /\ pushes' \in Nat /\ popped' = popped
  BY DEF Push, HeapInv
<1> HIDE DEF x, n
<1>5. n + 1 \in Nat /\ heap' \in HeapSlices(n + 1) /\ Heaped(heap', n + 1)
      /\ Stands(heap', n + 1, Contents \cup {Entry(x)})
  <2>1. Stands(heap, n, Contents) /\ Heaped(heap, n)
    BY DEF HeapInv, n
  <2> DEFINE g == HeapPush(heap, x)
  <2>2. /\ g \in HeapSlices(n + 1) /\ Heaped(g, n + 1)
        /\ Stands(g, n + 1, Contents \cup {Entry(x)})
    BY <1>1, <1>2, <1>3, <2>1, PushAdds
  <2> HIDE DEF g
  <2>3. heap' = g /\ n + 1 \in Nat
    BY <1>1, <1>4 DEF g
  <2>4. QED BY <2>2, <2>3
<1>6. HeapInv' /\ Contents' = Contents \cup {Entry(x)}
  BY <1>4, <1>5, NewSlice
<1>7. \A i \in Contents : i.msg # m
  <2>1. \A k \in 1..n : Entry(heap[k]).msg = heap[k].msg
    BY <1>1, LessEntry DEF HeapSlices
  <2>2. QED BY <1>1, <1>2, <1>3, <2>1 DEF Contents
<1>8. QED BY <1>2, <1>4, <1>6, <1>7

\* ... and Pop takes one away that no other precedes.
LEMMA PopStep ==
    ASSUME HeapInv, Pop
    PROVE  /\ HeapInv'
           /\ Contents' = Contents \ {popped'}
           /\ popped' \in Heads(Contents)
<1> DEFINE r == HeapPop(heap)
           n == Len(heap) - 1
<1>1. n \in Nat /\ n + 1 = Len(heap) /\ heap \in HeapSlices(n + 1)
      /\ Stands(heap, n + 1, Contents) /\ Heaped(heap, n + 1)
  <2>1. Len(heap) \in Nat /\ heap \in HeapSlices(Len(heap))
    BY HeapSlice
  <2>2. Len(heap) # 0
    BY EmptySeq DEF Pop, HeapInv
  <2>3. n \in Nat /\ n + 1 = Len(heap)
    BY <2>1, <2>2
  <2>4. QED BY <2>1, <2>3 DEF HeapInv
<1>2. heap' = r.rest /\ popped' = Entry(r.item) /\ now' \in Nat /\ pushes' \in Nat
  BY DEF Pop, HeapInv
<1> HIDE DEF n
<1>3. /\ r.rest \in HeapSlices(n)
      /\ Stands(r.rest, n, Contents \ {Entry(r.item)})
      /\ Heaped(r.rest, n)
      /\ Entry(r.item) \in Heads(Contents)
  BY <1>1, PopRemoves
<1> HIDE DEF r
<1>4. QED BY <1>1, <1>2, <1>3, NewSlice

LEMMA StepHeapInv == HeapInv /\ [HeapNext]_heapVars => HeapInv'
<1> SUFFICES ASSUME HeapInv, [HeapNext]_heapVars PROVE HeapInv'
  OBVIOUS
<1>1. ASSUME NEW m \in HeapMsgs, NEW p \in Levels, Push(m, p) PROVE HeapInv'
  BY <1>1, PushStep
<1>2. CASE Pop
  BY <1>2, PopStep
<1>3. CASE Done \/ UNCHANGED heapVars
  BY <1>3 DEF Done, heapVars, HeapInv, Contents
<1>4. QED BY <1>1, <1>2, <1>3 DEF HeapNext

(* Every entry knows its position in the slice: Less, Swap, Push and Pop    *)
(* keep the field Index right through any number of turns of up and down.   *)
THEOREM IndexAlwaysAgrees == HeapSpec => []IndexAgrees
<1>1. HeapInv => IndexAgrees
  BY HeapSlice DEF HeapInv, Stands, IndexAgrees
<1>2. QED BY <1>1, InitHeapInv, StepHeapInv, PTL DEF HeapSpec

\* Every step of the heap is one of the set, or changes neither the set nor
\* what was popped last.
LEMMA StepRefines ==
    ASSUME HeapInv, [HeapNext]_heapVars PROVE [Set!Next]_Set!vars
<1>1. ASSUME NEW m \in HeapMsgs, NEW p \in Levels, Push(m, p) PROVE Set!Next
  <2> DEFINE i == QueueItem(m, p, now)
  <2>1. /\ Contents' = Contents \cup {i} /\ i \in Items(HeapMsgs)
        /\ \A j \in Contents : j.msg # i.msg
        /\ popped' = popped
    BY <1>1, PushStep DEF QueueItem
  <2> HIDE DEF i
  <2>2. i \in Contents' \ Contents
    BY <2>1
  <2>3. QED
    BY <2>1, <2>2 DEF Set!Next, Set!Push, Set!Items, Items, Set!Priorities,
                      Priorities, Contents
<1>2. CASE Pop
  <2>1. Contents' = Contents \ {popped'} /\ popped' \in Heads(Contents)
    BY <1>2, PopStep
  <2>2. QED
    BY <2>1 DEF Set!Next, Set!Pop, Set!Heads, Heads, Set!Less, Less, Contents
<1>3. CASE Done \/ UNCHANGED heapVars
  BY <1>3 DEF Done, heapVars, Set!vars
<1>4. QED BY <1>1, <1>2, <1>3 DEF HeapNext

(* The slice kept by container/heap implements the set of entries: nothing  *)
(* is lost or duplicated, and Pop returns an entry of the most urgent       *)
(* priority present, among those one that was pushed first.                 *)
THEOREM ImplementsPrioritySet == HeapSpec => SetSpec
<1>1. HeapInit => Set!Init
  BY DEF HeapInit, Set!Init
<1>2. HeapInv /\ [HeapNext]_heapVars => [Set!Next]_Set!vars
  BY StepRefines
<1>3. QED
  BY <1>1, <1>2, InitHeapInv, StepHeapInv, PTL DEF HeapSpec, SetSpec, Set!Spec


-----------------------------------------------------------------------------
(* Slices of requests. *)

\* One slice behind another.
LEMMA ConcatSlices ==
    ASSUME NEW S, NEW s \in Seq(S), NEW t \in Seq(S)
    PROVE  /\ s \o t \in Seq(S)
           /\ ToSet(s \o t) = ToSet(s) \cup ToSet(t)
           /\ IsInjective(s \o t) <=>
                 IsInjective(s) /\ IsInjective(t) /\ ToSet(s) \cap ToSet(t) = {}
<1> DEFINE r == s \o t
           m == Len(s)
           n == Len(t)
<1>1. /\ m \in Nat /\ n \in Nat /\ r \in Seq(S)
      /\ DOMAIN s = 1..m /\ DOMAIN t = 1..n /\ DOMAIN r = 1..(m + n)
      /\ \A i \in 1..(m + n) : r[i] = IF i <= m THEN s[i] ELSE t[i - m]
  BY ConcatProperties, LenProperties
<1> HIDE DEF r, m, n
<1>2. \A i \in 1..m : i \in 1..(m + n) /\ r[i] = s[i]
  BY <1>1
<1>3. \A i \in 1..n : i + m \in 1..(m + n) /\ r[i + m] = t[i]
  <2>1. \A i \in 1..n : i + m \in 1..(m + n) /\ ~ (i + m <= m) /\ (i + m) - m = i
    BY <1>1
  <2>2. QED BY <1>1, <2>1
<1>4. ASSUME NEW i \in 1..(m + n)
      PROVE  \/ i \in 1..m /\ r[i] = s[i]
             \/ i - m \in 1..n /\ r[i] = t[i - m]
  BY <1>1
<1>5. ToSet(r) = ToSet(s) \cup ToSet(t)
  <2>1. ToSet(s) \subseteq ToSet(r)
    BY <1>1, <1>2 DEF ToSet
  <2>2. ToSet(t) \subseteq ToSet(r)
    BY <1>1, <1>3 DEF ToSet
  <2>3. ToSet(r) \subseteq ToSet(s) \cup ToSet(t)
    BY <1>1, <1>4 DEF ToSet
  <2>4. QED BY <2>1, <2>2, <2>3
<1>6. ASSUME IsInjective(r)
      PROVE  IsInjective(s) /\ IsInjective(t) /\ ToSet(s) \cap ToSet(t) = {}
  <2>1. IsInjective(s)
    BY <1>1, <1>2, <1>6 DEF IsInjective
  <2>2. ASSUME NEW i \in 1..n, NEW j \in 1..n, t[i] = t[j] PROVE i = j
    <3>1. i + m = j + m
      BY <1>1, <1>3, <1>6, <2>2 DEF IsInjective
    <3>2. QED BY <1>1, <3>1
  <2>3. ASSUME NEW i \in 1..m, NEW j \in 1..n, s[i] = t[j] PROVE FALSE
    <3>1. i = j + m
      BY <1>1, <1>2, <1>3, <1>6, <2>3 DEF IsInjective
    <3>2. QED BY <1>1, <3>1
  <2>4. QED BY <1>1, <2>1, <2>2, <2>3 DEF IsInjective, ToSet
<1>7. ASSUME IsInjective(s), IsInjective(t), ToSet(s) \cap ToSet(t) = {}
      PROVE  IsInjective(r)
  <2>1. \A i \in 1..m, j \in 1..n : s[i] # t[j]
    BY <1>1, <1>7 DEF ToSet
  <2>2. ASSUME NEW i \in 1..(m + n), NEW j \in 1..(m + n), r[i] = r[j] PROVE i = j
    <3>1. CASE i \in 1..m /\ r[i] = s[i]
      BY <1>1, <1>4, <1>7, <2>1, <2>2, <3>1 DEF IsInjective
    <3>2. CASE i - m \in 1..n /\ r[i] = t[i - m]
      <4>1. j - m \in 1..n /\ r[j] = t[j - m]
        BY <1>4, <2>1, <2>2, <3>2
      <4>2. i - m = j - m
        BY <1>1, <1>7, <2>2, <3>2, <4>1 DEF IsInjective
      <4>3. QED BY <1>1, <4>2
    <3>3. QED BY <1>4, <3>1, <3>2
  <2>3. QED BY <1>1, <2>2 DEF IsInjective
<1>8. QED BY <1>1, <1>5, <1>6, <1>7 DEF r

\* A slice of one request, and of none.
LEMMA ShortSlices ==
    ASSUME NEW S, NEW q \in S
    PROVE  /\ <<q>> \in Seq(S) /\ ToSet(<<q>>) = {q} /\ IsInjective(<<q>>)
           /\ <<>> \in Seq(S) /\ ToSet(<<>>) = {} /\ IsInjective(<<>>)
<1>1. <<q>> \in Seq(S) /\ Len(<<q>>) = 1 /\ DOMAIN <<q>> = {1} /\ <<q>>[1] = q
  OBVIOUS
<1>2. <<>> \in Seq(S) /\ DOMAIN <<>> = {}
  OBVIOUS
<1>3. QED BY <1>1, <1>2 DEF ToSet, IsInjective

\* Inserting a request adds it and keeps the others.
LEMMA InsertSlice ==
    ASSUME NEW S, NEW s \in Seq(S), NEW i \in 1..Len(s) + 1, NEW q \in S
    PROVE  /\ InsertAt(s, i, q) \in Seq(S)
           /\ ToSet(InsertAt(s, i, q)) = ToSet(s) \cup {q}
           /\ IsInjective(s) /\ q \notin ToSet(s) => IsInjective(InsertAt(s, i, q))
<1> DEFINE a == SubSeq(s, 1, i - 1)
           b == SubSeq(s, i, Len(s))
           n == Len(s)
<1>1. n \in Nat /\ i \in Int /\ DOMAIN s = 1..n /\ \A j \in 1..n : s[j] \in S
  BY LenProperties
<1>2. /\ a \in Seq(S) /\ DOMAIN a = 1..(i - 1)
      /\ \A j \in 1..(i - 1) : a[j] = s[j]
  BY <1>1
<1>3. /\ b \in Seq(S) /\ DOMAIN b = 1..(n - i + 1)
      /\ \A j \in 1..(n - i + 1) : b[j] = s[i + j - 1]
  BY <1>1
<1>4. InsertAt(s, i, q) = (a \o <<q>>) \o b
  BY DEF InsertAt
<1> HIDE DEF a, b, n
<1>5. \A j \in 1..n : j < i \/ (j - i + 1 \in 1..(n - i + 1) /\ i + (j - i + 1) - 1 = j)
  BY <1>1
<1>6. ToSet(s) = ToSet(a) \cup ToSet(b)
  <2>1. ToSet(a) \subseteq ToSet(s)
    BY <1>1, <1>2 DEF ToSet, n
  <2>2. ToSet(b) \subseteq ToSet(s)
    BY <1>1, <1>3 DEF ToSet
  <2>3. ASSUME NEW j \in 1..n PROVE s[j] \in ToSet(a) \cup ToSet(b)
    <3>1. CASE j < i
      BY <1>1, <1>2, <3>1 DEF ToSet
    <3>2. CASE ~ (j < i)
      <4>1. b[j - i + 1] = s[j] /\ j - i + 1 \in DOMAIN b
        BY <1>3, <1>5, <3>2
      <4>2. QED BY <4>1 DEF ToSet
    <3>3. QED BY <3>1, <3>2
  <2>4. QED BY <1>1, <2>1, <2>2, <2>3 DEF ToSet
<1>7. ASSUME IsInjective(s)
      PROVE  IsInjective(a) /\ IsInjective(b) /\ ToSet(a) \cap ToSet(b) = {}
  <2>1. \A j \in 1..(i - 1) : j \in 1..n /\ j < i
    BY <1>1 DEF n
  <2>2. \A j \in 1..(n - i + 1) : i + j - 1 \in 1..n /\ ~ (i + j - 1 < i)
    BY <1>1
  <2>3. IsInjective(a)
    BY <1>1, <1>2, <1>7, <2>1 DEF IsInjective
  <2>4. ASSUME NEW j \in 1..(n - i + 1), NEW k \in 1..(n - i + 1), b[j] = b[k]
        PROVE  j = k
    <3>1. i + j - 1 = i + k - 1
      BY <1>1, <1>3, <1>7, <2>2, <2>4 DEF IsInjective
    <3>2. QED BY <1>1, <3>1
  <2>5. ASSUME NEW j \in 1..(i - 1), NEW k \in 1..(n - i + 1), a[j] = b[k]
        PROVE  FALSE
    <3>1. j = i + k - 1
      BY <1>1, <1>2, <1>3, <1>7, <2>1, <2>2, <2>5 DEF IsInjective
    <3>2. QED BY <2>1, <2>2, <3>1
  <2>6. QED BY <1>2, <1>3, <2>3, <2>4, <2>5 DEF IsInjective, ToSet
<1>8. <<q>> \in Seq(S) /\ ToSet(<<q>>) = {q} /\ IsInjective(<<q>>)
  BY ShortSlices
<1> DEFINE c == a \o <<q>>
<1>9. /\ c \in Seq(S) /\ ToSet(c) = ToSet(a) \cup {q}
      /\ IsInjective(c) <=> IsInjective(a) /\ q \notin ToSet(a)
  <2>1. /\ c \in Seq(S) /\ ToSet(c) = ToSet(a) \cup ToSet(<<q>>)
        /\ IsInjective(c) <=>
              IsInjective(a) /\ IsInjective(<<q>>) /\ ToSet(a) \cap ToSet(<<q>>) = {}
    BY <1>2, <1>8, ConcatSlices
  <2>2. QED BY <1>8, <2>1
<1> HIDE DEF c
<1>10. /\ c \o b \in Seq(S) /\ ToSet(c \o b) = ToSet(c) \cup ToSet(b)
       /\ IsInjective(c \o b) <=>
             IsInjective(c) /\ IsInjective(b) /\ ToSet(c) \cap ToSet(b) = {}
  BY <1>3, <1>9, ConcatSlices
<1>11. InsertAt(s, i, q) = c \o b
  BY <1>4 DEF c
<1>12. IsInjective(s) /\ q \notin ToSet(s) => IsInjective(c \o b)
  BY <1>6, <1>7, <1>9, <1>10
<1>13. QED BY <1>6, <1>9, <1>10, <1>11, <1>12

\* Taking the first request of one slice: out of both, or to the end of the other.
LEMMA TakeFirst ==
    ASSUME NEW S, NEW s \in Seq(S), NEW t \in Seq(S), s # <<>>
    PROVE  /\ Head(s) \in S /\ Tail(s) \in Seq(S) /\ Append(t, Head(s)) \in Seq(S)
           /\ Head(s) \in ToSet(s \o t)
           /\ IsInjective(s \o t) =>
                 /\ IsInjective(Tail(s) \o t)
                 /\ ToSet(Tail(s) \o t) = ToSet(s \o t) \ {Head(s)}
                 /\ IsInjective(Tail(s) \o Append(t, Head(s)))
                 /\ ToSet(Tail(s) \o Append(t, Head(s))) = ToSet(s \o t)
<1> DEFINE h == Head(s)
           r == Tail(s)
<1>1. h \in S /\ r \in Seq(S) /\ s = <<h>> \o r /\ Append(t, h) = t \o <<h>>
  <2>1. h \in S /\ r \in Seq(S)
    BY HeadTailProperties
  <2>2. s = <<h>> \o r
    BY HeadTailProperties
  <2>3. Append(t, h) = t \o <<h>>
    BY <2>1, AppendIsConcat
  <2>4. QED BY <2>1, <2>2, <2>3
<1> HIDE DEF h, r
<1>2. <<h>> \in Seq(S) /\ ToSet(<<h>>) = {h} /\ IsInjective(<<h>>)
  BY <1>1, ShortSlices
<1>3. /\ ToSet(<<h>> \o r) = ToSet(<<h>>) \cup ToSet(r)
      /\ IsInjective(<<h>> \o r) <=>
            IsInjective(<<h>>) /\ IsInjective(r) /\ ToSet(<<h>>) \cap ToSet(r) = {}
  BY <1>1, <1>2, ConcatSlices
<1>4. /\ ToSet(s \o t) = ToSet(s) \cup ToSet(t)
      /\ IsInjective(s \o t) <=>
            IsInjective(s) /\ IsInjective(t) /\ ToSet(s) \cap ToSet(t) = {}
  BY ConcatSlices
<1>5. /\ ToSet(r \o t) = ToSet(r) \cup ToSet(t)
      /\ IsInjective(r \o t) <=>
            IsInjective(r) /\ IsInjective(t) /\ ToSet(r) \cap ToSet(t) = {}
  BY <1>1, ConcatSlices
<1> DEFINE u == t \o <<h>>
<1>6. /\ u \in Seq(S) /\ ToSet(u) = ToSet(t) \cup ToSet(<<h>>)
      /\ IsInjective(u) <=>
            IsInjective(t) /\ IsInjective(<<h>>) /\ ToSet(t) \cap ToSet(<<h>>) = {}
  BY <1>2, ConcatSlices
<1> HIDE DEF u
<1>7. /\ ToSet(r \o u) = ToSet(r) \cup ToSet(u)
      /\ IsInjective(r \o u) <=>
            IsInjective(r) /\ IsInjective(u) /\ ToSet(r) \cap ToSet(u) = {}
  BY <1>1, <1>6, ConcatSlices
<1>8. Append(t, h) = u
  BY <1>1 DEF u
<1>9. ToSet(s) = {h} \cup ToSet(r) /\ (IsInjective(s) <=> IsInjective(r) /\ h \notin ToSet(r))
  BY <1>1, <1>2, <1>3
<1>10. ASSUME IsInjective(s \o t)
       PROVE  /\ IsInjective(r \o t) /\ ToSet(r \o t) = ToSet(s \o t) \ {h}
              /\ IsInjective(r \o u) /\ ToSet(r \o u) = ToSet(s \o t)
  <2>1. /\ IsInjective(r) /\ h \notin ToSet(r) /\ h \notin ToSet(t)
        /\ IsInjective(t) /\ ToSet(r) \cap ToSet(t) = {}
    BY <1>4, <1>9, <1>10
  <2>2. IsInjective(r \o t) /\ ToSet(r \o t) = ToSet(s \o t) \ {h}
    BY <1>4, <1>5, <1>9, <2>1
  <2>3. IsInjective(u) /\ ToSet(u) = ToSet(t) \cup {h}
    BY <1>2, <1>6, <2>1
  <2>4. IsInjective(r \o u) /\ ToSet(r \o u) = ToSet(s \o t)
    BY <1>4, <1>7, <1>9, <2>1, <2>3
  <2>5. QED BY <2>2, <2>4
<1>11. h \in ToSet(s \o t)
  BY <1>4, <1>9
<1>12. Append(t, h) \in Seq(S)
  BY <1>6, <1>8
<1>13. QED BY <1>1, <1>8, <1>10, <1>11, <1>12 DEF h, r

-----------------------------------------------------------------------------
(* What is in use of a resource. *)

\* The units in use of a resource can be counted, whoever uses it.
LEMMA UnitsAreFinite ==
    ASSUME NEW r, NEW t
    PROVE  IsFiniteSet(UnitsInUse(r, t)) /\ Cardinality(UnitsInUse(r, t)) \in Nat
<1> DEFINE Units(q) == {q} \X (1..Demand(q, t))
           All == {Units(q) : q \in Using(r)}
<1>1. IsFiniteSet(Using(r))
  BY FS_Subset, RSRequirements DEF Using
<1>2. ASSUME NEW q \in Requests PROVE IsFiniteSet(Units(q))
  <2>1. Demand(q, t) \in Nat
    BY RSRequirements DEF Demand
  <2> DEFINE I == 1..Demand(q, t)
  <2>2. 1 \in Int /\ Demand(q, t) \in Int
    BY <2>1
  <2>3. IsFiniteSet(I)
    BY <2>2, FS_Interval
  <2>4. IsFiniteSet({q})
    BY FS_Singleton
  <2> HIDE DEF I
  <2>5. IsFiniteSet({q} \X I)
    BY <2>3, <2>4, FS_Product
  <2>6. QED BY <2>5 DEF I
<1>3. IsFiniteSet(All)
  <2> DEFINE f == [q \in Using(r) |-> Units(q)]
  <2> HIDE DEF Units
  <2>1. f \in [Using(r) -> All] /\ \A U \in All : \E q \in Using(r) : f[q] = U
    OBVIOUS
  <2> HIDE DEF f, All
  <2>2. f \in Surjection(Using(r), All)
    BY <2>1 DEF Surjection
  <2>3. QED BY <1>1, <2>2, FS_Surjection
<1>4. \A U \in All : IsFiniteSet(U)
  BY <1>2 DEF Using
<1>5. IsFiniteSet(UNION All)
  <2> HIDE DEF All
  <2>1. QED BY <1>3, <1>4, FS_UNION
<1>6. UnitsInUse(r, t) = UNION All
  BY DEF UnitsInUse
<1>7. QED BY <1>5, <1>6, FS_CardinalityType

\* What is in use of each type is a number.
LEMMA UseType ==
    ASSUME NEW r
    PROVE  /\ InUse(r) \in [Types -> Nat]
           /\ \A t \in Types : InUse(r)[t] = Cardinality(UnitsInUse(r, t))
  BY UnitsAreFinite DEF InUse

\* Fewer clients use no more.
LEMMA UseShrinks ==
    ASSUME NEW r, NEW t, Using(r)' \subseteq Using(r)
    PROVE  /\ Cardinality(UnitsInUse(r, t)') \in Nat
           /\ Cardinality(UnitsInUse(r, t)') <= Cardinality(UnitsInUse(r, t))
<1>1. UnitsInUse(r, t)' \subseteq UnitsInUse(r, t)
  BY DEF UnitsInUse, Demand
<1>2. IsFiniteSet(UnitsInUse(r, t))
  BY UnitsAreFinite
<1> DEFINE A == UnitsInUse(r, t)
           B == UnitsInUse(r, t)'
<1> HIDE DEF A, B
<1>3. IsFiniteSet(A) /\ B \subseteq A
  BY <1>1, <1>2 DEF A, B
<1>4. IsFiniteSet(B) /\ Cardinality(B) <= Cardinality(A)
  BY <1>3, FS_Subset
<1>5. Cardinality(B) \in Nat
  BY <1>4, FS_CardinalityType
<1>6. QED BY <1>4, <1>5 DEF A, B

\* One more client uses at most what its request asks for.
LEMMA UseGrows ==
    ASSUME NEW r, NEW t, NEW q \in Requests,
           Using(r)' \subseteq Using(r) \cup {q}
    PROVE  /\ Cardinality(UnitsInUse(r, t)') \in Nat
           /\ Cardinality(UnitsInUse(r, t)') <= Cardinality(UnitsInUse(r, t)) + Demand(q, t)
<1> DEFINE I == 1..Demand(q, t)
           A == UnitsInUse(r, t)
           B == UnitsInUse(r, t)'
           C == {q} \X I
<1>1. Demand(q, t) \in Nat
  BY RSRequirements DEF Demand
<1>2. IsFiniteSet(I) /\ Cardinality(I) = Demand(q, t)
  <2>1. 1 \in Int /\ Demand(q, t) \in Int
    BY <1>1
  <2> DEFINE n == Demand(q, t)
  <2> HIDE DEF n
  <2>2. IsFiniteSet(1..n) /\ Cardinality(1..n) = IF 1 > n THEN 0 ELSE n - 1 + 1
    BY <2>1, FS_Interval DEF n
  <2>3. n \in Nat
    BY <1>1 DEF n
  <2>4. QED BY <2>2, <2>3 DEF n
<1>3. B \subseteq A \cup C
  <2>1. \A x : x \in B <=> \E k \in Requests : k \in Using(r)' /\ x \in {k} \X (1..Demand(k, t))
    BY DEF UnitsInUse, Demand, Using
  <2>2. \A x : x \in A <=> \E k \in Requests : k \in Using(r) /\ x \in {k} \X (1..Demand(k, t))
    BY DEF UnitsInUse, Using
  <2> HIDE DEF A, B
  <2>3. QED BY <2>1, <2>2
<1>4. IsFiniteSet(A)
  BY UnitsAreFinite
<1> HIDE DEF A, B, I
<1>5. IsFiniteSet(C) /\ Cardinality(C) = Demand(q, t)
  <2>1. IsFiniteSet({q}) /\ Cardinality({q}) = 1
    BY FS_Singleton
  <2>2. IsFiniteSet({q} \X I) /\ Cardinality({q} \X I) = 1 * Cardinality(I)
    BY <1>2, <2>1, FS_Product
  <2>3. QED BY <1>1, <1>2, <2>2
<1> HIDE DEF C
<1>6. /\ IsFiniteSet(A \cup C)
      /\ Cardinality(A \cup C) = Cardinality(A) + Cardinality(C) - Cardinality(A \cap C)
  BY <1>4, <1>5, FS_Union
<1>7. IsFiniteSet(A \cap C)
  BY <1>4, FS_Intersection
<1>8. IsFiniteSet(B) /\ Cardinality(B) <= Cardinality(A \cup C)
  BY <1>3, <1>6, FS_Subset
<1>9. /\ Cardinality(A) \in Nat /\ Cardinality(A \cap C) \in Nat
      /\ Cardinality(B) \in Nat /\ Cardinality(A \cup C) \in Nat
  BY <1>4, <1>6, <1>7, <1>8, FS_CardinalityType
<1>10. Cardinality(B) <= Cardinality(A) + Demand(q, t)
  BY <1>1, <1>5, <1>6, <1>8, <1>9
<1>11. QED BY <1>9, <1>10 DEF A, B

-----------------------------------------------------------------------------
(* Types. *)

\* What each variable the proofs are about holds.
SchedulerType ==
    /\ registered \subseteq Resources
    /\ used \in [Resources -> [Types -> Nat]]
    /\ allocations \in [Requests -> Resources \cup {NoResource}]
    /\ using \in [Requests -> Resources \cup {NoResource}]
    /\ short \in [Resources -> BOOLEAN] /\ misled \in [Resources -> BOOLEAN]
    /\ pendingQueue \in Seq(Requests)
    /\ place \in [Requests -> {"new", "asking", "waiting", "allocated", "timedout", "gone"}]
    /\ running \subseteq Procs
    /\ todo \in [Procs -> Seq(Requests)]
    /\ remaining \in [Procs -> Seq(Requests)]

\* What an allocation does to the account and to the allocations.
LEMMA AllocateMeaning ==
    ASSUME SchedulerType, NEW q \in Requests, Allocate(q)
    PROVE  \E r \in Resources :
              /\ r \in registered
              /\ \A t \in DOMAIN Requirements[q] :
                    /\ t \in DOMAIN Capacity[r]
                    /\ Capacity[r][t] - used[r][t] >= Requirements[q][t]
              /\ used' = [used EXCEPT ![r] = [t \in Types |-> used[r][t] + Demand(q, t)]]
              /\ used' \in [Resources -> [Types -> Nat]]
              /\ allocations' = [allocations EXCEPT ![q] = r]
              /\ using' = [using EXCEPT ![q] = r]
              /\ misled' = [misled EXCEPT ![r] = misled[r] \/ short[r]]
<1>1. PICK r \in BestResources(q) :
         /\ updateResourceAfterAllocation(r, q)
         /\ allocations' = [allocations EXCEPT ![q] = r]
         /\ using' = [using EXCEPT ![q] = r]
         /\ misled' = [misled EXCEPT ![r] = misled[r] \/ short[r]]
  BY DEF Allocate
<1>2. r \in Resources /\ r \in registered /\ hasEnoughCapacity(r, q)
  BY DEF BestResources, Suitable, SchedulerType
<1>3. used' = [used EXCEPT ![r] = [t \in Types |-> used[r][t] + Demand(q, t)]]
  BY <1>1 DEF updateResourceAfterAllocation
<1>4. [t \in Types |-> used[r][t] + Demand(q, t)] \in [Types -> Nat]
  <2>1. \A t \in Types : used[r][t] \in Nat /\ Demand(q, t) \in Nat
    BY <1>2, RSRequirements DEF SchedulerType, Demand
  <2>2. QED BY <2>1
<1>5. used' \in [Resources -> [Types -> Nat]]
  BY <1>2, <1>3, <1>4 DEF SchedulerType
<1>6. QED BY <1>1, <1>2, <1>3, <1>5 DEF hasEnoughCapacity

\* Every action keeps the types.
LEMMA StepType ==
    SchedulerType /\ [Next]_vars => SchedulerType'
<1> SUFFICES ASSUME SchedulerType, [Next]_vars
             PROVE  SchedulerType'
  OBVIOUS
<1> USE DEF SchedulerType, resourceVars, givenVars, procVars
<1>1. ASSUME NEW r \in Resources, NEW u \in Usages, RegisterResource(r, u)
      PROVE  SchedulerType'
  <2>1. u \in [Types -> Nat]
    BY RSRequirements
  <2>2. QED BY <1>1, <2>1 DEF RegisterResource
<1>2. ASSUME NEW r \in Resources, NEW s \in Reports, NEW l \in Loads,
             UpdateResourceStatus(r, s, l)
      PROVE  SchedulerType'
  BY <1>2 DEF UpdateResourceStatus
<1>3. ASSUME NEW r \in Resources, NEW l \in Loads, NEW u \in Usages \cup {InUse(r)},
             Heartbeat(r, l, u)
      PROVE  SchedulerType'
  <2>1. u \in [Types -> Nat]
    BY UseType, RSRequirements
  <2>2. /\ UNCHANGED <<registered, allocations, using, misled, pendingQueue, place,
                       running, todo, remaining>>
        /\ \/ UNCHANGED <<used, short>>
           \/ \E f \in BOOLEAN : /\ used' = [used EXCEPT ![r] = u]
                                 /\ short' = [short EXCEPT ![r] = f]
    BY <1>3 DEF Heartbeat
  <2>3. used' \in [Resources -> [Types -> Nat]] /\ short' \in [Resources -> BOOLEAN]
    BY <2>1, <2>2
  <2>4. QED BY <2>2, <2>3
<1>4. ASSUME NEW q \in Requests, RequestResource(q) PROVE SchedulerType'
  <2>1. CASE Allocate(q) /\ place' = [place EXCEPT ![q] = "allocated"]
    <3>1. PICK r \in Resources :
             /\ used' \in [Resources -> [Types -> Nat]]
             /\ allocations' = [allocations EXCEPT ![q] = r]
             /\ using' = [using EXCEPT ![q] = r]
             /\ misled' = [misled EXCEPT ![r] = misled[r] \/ short[r]]
      BY <2>1, AllocateMeaning
    <3>2. QED BY <1>4, <2>1, <3>1 DEF RequestResource
  <2>2. CASE NoneSuitable(q) /\ place' = [place EXCEPT ![q] = "asking"]
    BY <1>4, <2>2 DEF RequestResource, NoneSuitable
  <2>3. QED BY <1>4, <2>1, <2>2 DEF RequestResource
<1>5. ASSUME NEW q \in Requests, RequestQueued(q) PROVE SchedulerType'
  <2>1. PICK i \in InsertPlaces(pendingQueue, q) :
           pendingQueue' = InsertAt(pendingQueue, i, q)
    BY <1>5 DEF RequestQueued
  <2>2. i \in 1..Len(pendingQueue) + 1
    BY DEF InsertPlaces
  <2>3. pendingQueue' \in Seq(Requests)
    BY <2>1, <2>2, InsertSlice
  <2>4. QED BY <1>5, <2>3 DEF RequestQueued
<1>6. ASSUME NEW q \in Requests, ReleaseResource(q) PROVE SchedulerType'
  <2>1. CASE allocations[q] # NoResource
    BY <1>6, <2>1 DEF ReleaseResource, Deallocate
  <2>2. CASE allocations[q] = NoResource
    BY <1>6, <2>2 DEF ReleaseResource
  <2>3. QED BY <2>1, <2>2
<1>7. CASE Stop
  BY <1>7 DEF Stop
<1>8. ASSUME NEW late \in SUBSET Resources, checkResourceStatus(late)
      PROVE  SchedulerType'
  BY <1>8 DEF checkResourceStatus
<1>9. ASSUME NEW expired \in SUBSET Requests, checkAllocations(expired)
      PROVE  SchedulerType'
  BY <1>9 DEF checkAllocations, Deallocate
<1>10. ASSUME NEW p \in Procs, ProcessStart(p) PROVE SchedulerType'
  <2>1. <<>> \in Seq(Requests)
    OBVIOUS
  <2>2. running' \subseteq Procs /\ todo' \in [Procs -> Seq(Requests)]
    <3>1. CASE pendingQueue = <<>>
      BY <1>10, <3>1 DEF ProcessStart
    <3>2. CASE pendingQueue # <<>>
      BY <1>10, <3>2 DEF ProcessStart
    <3>3. QED BY <3>1, <3>2
  <2>3. QED BY <1>10, <2>1, <2>2 DEF ProcessStart
<1>11. ASSUME NEW p \in Procs, ProcessOne(p) PROVE SchedulerType'
  <2> DEFINE q == Head(todo[p])
  <2>1. todo[p] \in Seq(Requests) /\ remaining[p] \in Seq(Requests) /\ todo[p] # <<>>
    BY <1>11 DEF ProcessOne
  <2>2. q \in Requests /\ Tail(todo[p]) \in Seq(Requests)
        /\ Append(remaining[p], q) \in Seq(Requests)
    BY <2>1, TakeFirst
  <2>3. UNCHANGED <<registered, pendingQueue, running, short>>
    BY <1>11 DEF ProcessOne
  <2>4. CASE UNCHANGED <<resourceVars, givenVars, place, todo, remaining>>
    BY <2>3, <2>4
  <2>5. CASE /\ place' = [place EXCEPT ![q] = "timedout"]
             /\ todo' = [todo EXCEPT ![p] = Tail(@)]
             /\ UNCHANGED <<resourceVars, givenVars, remaining>>
    <3> HIDE DEF q
    <3>1. QED BY <2>2, <2>3, <2>5
  <2>6. CASE /\ Allocate(q)
             /\ place' = [place EXCEPT ![q] = "allocated"]
             /\ todo' = [todo EXCEPT ![p] = Tail(@)]
             /\ UNCHANGED remaining
    <3> HIDE DEF q
    <3>1. PICK r \in Resources :
             /\ used' \in [Resources -> [Types -> Nat]]
             /\ allocations' = [allocations EXCEPT ![q] = r]
             /\ using' = [using EXCEPT ![q] = r]
             /\ misled' = [misled EXCEPT ![r] = misled[r] \/ short[r]]
      BY <2>2, <2>6, AllocateMeaning
    <3>2. QED BY <2>2, <2>3, <2>6, <3>1
  <2>7. CASE /\ NoneSuitable(q)
             /\ todo' = [todo EXCEPT ![p] = Tail(@)]
             /\ remaining' = [remaining EXCEPT ![p] = Append(@, q)]
             /\ UNCHANGED place
    <3> HIDE DEF q
    <3>1. QED BY <2>2, <2>3, <2>7 DEF NoneSuitable
  <2>8. QED BY <1>11, <2>4, <2>5, <2>6, <2>7 DEF ProcessOne
<1>12. ASSUME NEW p \in Procs, ProcessEnd(p) PROVE SchedulerType'
  <2>1. pendingQueue \o remaining[p] \in Seq(Requests)
    BY ConcatSlices
  <2>2. <<>> \in Seq(Requests)
    OBVIOUS
  <2>3. QED BY <1>12, <2>1, <2>2 DEF ProcessEnd
<1>13. CASE UNCHANGED vars
  BY <1>13 DEF vars
<1>14. QED
  BY <1>1, <1>2, <1>3, <1>4, <1>5, <1>6, <1>7, <1>8, <1>9, <1>10, <1>11, <1>12,
     <1>13 DEF Next

LEMMA InitType == Init => SchedulerType
  BY DEF Init, SchedulerType

-----------------------------------------------------------------------------
(* The account covers what is in use, and the capacity bounds it.          *)

\* Only a registered resource is used.
UnusedInv == \A q \in Requests : using[q] # NoResource => using[q] \in registered

\* NoOvercommit, with the units of each type counted.
LEMMA CoverMeaning ==
    NoOvercommit <=>
        \A r \in Resources :
            /\ ~ short[r] => \A t \in Types : Cardinality(UnitsInUse(r, t)) <= used[r][t]
            /\ ~ misled[r] => \A t \in DOMAIN Capacity[r] :
                                 Cardinality(UnitsInUse(r, t)) <= Capacity[r][t]
<1>1. \A r \in Resources :
         /\ \A t \in Types : InUse(r)[t] = Cardinality(UnitsInUse(r, t))
         /\ DOMAIN Capacity[r] \subseteq Types
  BY RSRequirements DEF InUse
<1>2. QED BY <1>1 DEF NoOvercommit

LEMMA CoverMeaningNext ==
    NoOvercommit' <=>
        \A r \in Resources :
            /\ ~ short'[r] => \A t \in Types : Cardinality(UnitsInUse(r, t)') <= used'[r][t]
            /\ ~ misled'[r] => \A t \in DOMAIN Capacity[r] :
                                  Cardinality(UnitsInUse(r, t)') <= Capacity[r][t]
<1>1. \A r \in Resources :
         /\ \A t \in Types : InUse(r)'[t] = Cardinality(UnitsInUse(r, t)')
         /\ DOMAIN Capacity[r] \subseteq Types
  BY RSRequirements DEF InUse
<1>2. QED BY <1>1 DEF NoOvercommit

\* The numbers that are compared.
LEMMA UnitCounts ==
    ASSUME SchedulerType, NEW r \in Resources
    PROVE  /\ \A t \in Types : Cardinality(UnitsInUse(r, t)) \in Nat /\ used[r][t] \in Nat
           /\ \A t \in DOMAIN Capacity[r] : t \in Types /\ Capacity[r][t] \in Nat
  BY UnitsAreFinite, RSRequirements DEF SchedulerType

\* A step after which no more is in use, and the account is as good as before.
LEMMA CoverKept ==
    ASSUME SchedulerType, NoOvercommit, UNCHANGED <<used, short, misled>>,
           \A r \in Resources : Using(r)' \subseteq Using(r)
    PROVE  NoOvercommit'
<1>1. SUFFICES ASSUME NEW r \in Resources
               PROVE  \A t \in Types : /\ Cardinality(UnitsInUse(r, t)') \in Nat
                                       /\ Cardinality(UnitsInUse(r, t)')
                                             <= Cardinality(UnitsInUse(r, t))
  <2>1. ASSUME NEW r \in Resources,
               \A t \in Types : /\ Cardinality(UnitsInUse(r, t)') \in Nat
                                /\ Cardinality(UnitsInUse(r, t)')
                                      <= Cardinality(UnitsInUse(r, t))
        PROVE  /\ ~ short'[r] =>
                     \A t \in Types : Cardinality(UnitsInUse(r, t)') <= used'[r][t]
               /\ ~ misled'[r] => \A t \in DOMAIN Capacity[r] :
                     Cardinality(UnitsInUse(r, t)') <= Capacity[r][t]
    <3>1. ASSUME ~ short'[r], NEW t \in Types
          PROVE  Cardinality(UnitsInUse(r, t)') <= used'[r][t]
      <4>1. Cardinality(UnitsInUse(r, t)) <= used[r][t]
        BY <3>1, CoverMeaning
      <4>2. QED BY <2>1, <4>1, UnitCounts
    <3>2. ASSUME ~ misled'[r], NEW t \in DOMAIN Capacity[r]
          PROVE  Cardinality(UnitsInUse(r, t)') <= Capacity[r][t]
      <4>1. Cardinality(UnitsInUse(r, t)) <= Capacity[r][t]
        BY <3>2, CoverMeaning
      <4>2. QED BY <2>1, <4>1, UnitCounts
    <3>3. QED BY <3>1, <3>2
  <2>2. QED BY <2>1, CoverMeaningNext
<1>2. QED BY UseShrinks

\* An allocation adds to the account what it comes to use; and it fits, or the
\* account it was made on left something out.
LEMMA CoverAllocate ==
    ASSUME SchedulerType, NoOvercommit, NEW q \in Requests, Allocate(q), short' = short
    PROVE  NoOvercommit'
<1>1. PICK a \in Resources :
         /\ \A t \in DOMAIN Requirements[q] :
               /\ t \in DOMAIN Capacity[a]
               /\ Capacity[a][t] - used[a][t] >= Requirements[q][t]
         /\ used' = [used EXCEPT ![a] = [t \in Types |-> used[a][t] + Demand(q, t)]]
         /\ using' = [using EXCEPT ![q] = a]
         /\ misled' = [misled EXCEPT ![a] = misled[a] \/ short[a]]
  BY AllocateMeaning
<1>2. SUFFICES ASSUME NEW r \in Resources
               PROVE  /\ ~ short'[r] => \A t \in Types :
                            Cardinality(UnitsInUse(r, t)') <= used'[r][t]
                      /\ ~ misled'[r] => \A t \in DOMAIN Capacity[r] :
                            Cardinality(UnitsInUse(r, t)') <= Capacity[r][t]
  BY CoverMeaningNext
<1>3. \A t \in Types : Demand(q, t) \in Nat
  BY RSRequirements DEF Demand
<1>4. /\ ~ short[r] => \A t \in Types : Cardinality(UnitsInUse(r, t)) <= used[r][t]
      /\ ~ misled[r] => \A t \in DOMAIN Capacity[r] :
            Cardinality(UnitsInUse(r, t)) <= Capacity[r][t]
  BY CoverMeaning
<1>5. CASE r = a
  <2>1. Using(r)' \subseteq Using(r) \cup {q}
    BY <1>1 DEF Using, SchedulerType
  <2>2. \A t : /\ Cardinality(UnitsInUse(r, t)') \in Nat
               /\ Cardinality(UnitsInUse(r, t)')
                     <= Cardinality(UnitsInUse(r, t)) + Demand(q, t)
    BY <2>1, UseGrows
  <2>3. \A t \in Types : used'[r][t] = used[r][t] + Demand(q, t)
    BY <1>1, <1>5 DEF SchedulerType
  <2>4. ASSUME ~ short'[r], NEW t \in Types
        PROVE  Cardinality(UnitsInUse(r, t)') <= used'[r][t]
    <3>1. Cardinality(UnitsInUse(r, t)) <= used[r][t]
      BY <1>4, <2>4
    <3>2. QED BY <1>3, <2>2, <2>3, <3>1, UnitCounts
  <2>5. ASSUME ~ misled'[r], NEW t \in DOMAIN Capacity[r]
        PROVE  Cardinality(UnitsInUse(r, t)') <= Capacity[r][t]
    <3>1. ~ misled[r] /\ ~ short[r]
      BY <1>1, <1>5, <2>5 DEF SchedulerType
    <3>2. t \in Types /\ Capacity[r][t] \in Nat
      BY UnitCounts
    <3>3. CASE t \in DOMAIN Requirements[q]
      <4>1. Capacity[r][t] - used[r][t] >= Demand(q, t)
        BY <1>1, <1>5, <3>3 DEF Demand
      <4>2. Cardinality(UnitsInUse(r, t)) <= used[r][t]
        BY <1>4, <3>1, <3>2
      <4>3. QED BY <1>3, <2>2, <3>2, <4>1, <4>2, UnitCounts
    <3>4. CASE t \notin DOMAIN Requirements[q]
      <4>1. Demand(q, t) = 0
        BY <3>4 DEF Demand
      <4>2. Cardinality(UnitsInUse(r, t)) <= Capacity[r][t]
        BY <1>4, <3>1
      <4>3. QED BY <2>2, <3>2, <4>1, <4>2, UnitCounts
    <3>5. QED BY <3>3, <3>4
  <2>6. QED BY <2>4, <2>5
<1>6. CASE r # a
  <2>1. Using(r)' \subseteq Using(r)
    BY <1>1, <1>6 DEF Using, SchedulerType
  <2>2. \A t : /\ Cardinality(UnitsInUse(r, t)') \in Nat
               /\ Cardinality(UnitsInUse(r, t)') <= Cardinality(UnitsInUse(r, t))
    BY <2>1, UseShrinks
  <2>3. used'[r] = used[r] /\ misled'[r] = misled[r] /\ short'[r] = short[r]
    BY <1>1, <1>6 DEF SchedulerType
  <2>4. ASSUME ~ short'[r], NEW t \in Types
        PROVE  Cardinality(UnitsInUse(r, t)') <= used'[r][t]
    BY <1>4, <2>2, <2>3, <2>4, UnitCounts
  <2>5. ASSUME ~ misled'[r], NEW t \in DOMAIN Capacity[r]
        PROVE  Cardinality(UnitsInUse(r, t)') <= Capacity[r][t]
    BY <1>4, <2>2, <2>3, <2>5, UnitCounts
  <2>6. QED BY <2>4, <2>5
<1>7. QED BY <1>5, <1>6

\* A resource sends an account of what it holds: what is in use stays, and the
\* account covers it or is marked as leaving something out.
LEMMA CoverHeartbeat ==
    ASSUME SchedulerType, NoOvercommit, NEW h \in Resources, NEW l, NEW u,
           Heartbeat(h, l, u), u \in [Types -> Nat]
    PROVE  NoOvercommit'
<1>1. using' = using /\ misled' = misled
  BY DEF Heartbeat, givenVars
<1>2. \A r \in Resources : Using(r)' \subseteq Using(r)
  BY <1>1 DEF Using
<1>3. CASE UNCHANGED <<used, short>>
  BY <1>1, <1>2, <1>3, CoverKept
<1>4. CASE /\ used' = [used EXCEPT ![h] = u]
           /\ short' = [short EXCEPT ![h] = \E t \in Types : u[t] < InUse(h)[t]]
  <2>1. SUFFICES ASSUME NEW r \in Resources
                 PROVE  /\ ~ short'[r] => \A t \in Types :
                              Cardinality(UnitsInUse(r, t)') <= used'[r][t]
                        /\ ~ misled'[r] => \A t \in DOMAIN Capacity[r] :
                              Cardinality(UnitsInUse(r, t)') <= Capacity[r][t]
    BY CoverMeaningNext
  <2>2. \A t : /\ Cardinality(UnitsInUse(r, t)') \in Nat
               /\ Cardinality(UnitsInUse(r, t)') <= Cardinality(UnitsInUse(r, t))
    BY <1>2, UseShrinks
  <2>3. /\ ~ short[r] => \A t \in Types : Cardinality(UnitsInUse(r, t)) <= used[r][t]
        /\ ~ misled[r] => \A t \in DOMAIN Capacity[r] :
              Cardinality(UnitsInUse(r, t)) <= Capacity[r][t]
    BY CoverMeaning
  <2>4. ASSUME ~ short'[r], NEW t \in Types
        PROVE  Cardinality(UnitsInUse(r, t)) <= used'[r][t] /\ used'[r][t] \in Nat
    <3>1. CASE r = h
      <4>1. used'[r] = u /\ ~ (u[t] < InUse(h)[t])
        BY <1>4, <2>4, <3>1 DEF SchedulerType
      <4>2. InUse(h)[t] = Cardinality(UnitsInUse(h, t))
        BY UseType
      <4>3. u[t] \in Nat /\ Cardinality(UnitsInUse(h, t)) \in Nat
        BY UnitCounts
      <4>4. QED BY <3>1, <4>1, <4>2, <4>3
    <3>2. CASE r # h
      <4>1. used'[r] = used[r] /\ short'[r] = short[r]
        BY <1>4, <3>2 DEF SchedulerType
      <4>2. QED BY <2>3, <2>4, <4>1, UnitCounts
    <3>3. QED BY <3>1, <3>2
  <2>5. ASSUME ~ misled'[r], NEW t \in DOMAIN Capacity[r]
        PROVE  Cardinality(UnitsInUse(r, t)') <= Capacity[r][t]
    BY <1>1, <2>2, <2>3, <2>5, UnitCounts
  <2>6. ASSUME ~ short'[r], NEW t \in Types
        PROVE  Cardinality(UnitsInUse(r, t)') <= used'[r][t]
    BY <2>2, <2>4, <2>6, UnitCounts
  <2>7. QED BY <2>5, <2>6
<1>5. QED BY <1>3, <1>4 DEF Heartbeat

\* A new resource brings an account of its own, and nothing of it is in use.
LEMMA CoverRegister ==
    ASSUME SchedulerType, NoOvercommit, UnusedInv, NEW h \in Resources, NEW u \in Usages,
           RegisterResource(h, u)
    PROVE  NoOvercommit'
<1>1. /\ UNCHANGED <<using, short, misled>> /\ used' = [used EXCEPT ![h] = u]
      /\ h \notin registered
  BY DEF RegisterResource, givenVars
<1>2. SUFFICES ASSUME NEW r \in Resources
               PROVE  /\ ~ short'[r] => \A t \in Types :
                            Cardinality(UnitsInUse(r, t)') <= used'[r][t]
                      /\ ~ misled'[r] => \A t \in DOMAIN Capacity[r] :
                            Cardinality(UnitsInUse(r, t)') <= Capacity[r][t]
  BY CoverMeaningNext
<1>3. Using(r)' = Using(r)
  BY <1>1 DEF Using
<1>4. \A t : /\ Cardinality(UnitsInUse(r, t)') \in Nat
             /\ Cardinality(UnitsInUse(r, t)') <= Cardinality(UnitsInUse(r, t))
  BY <1>3, UseShrinks
<1>5. /\ ~ short[r] => \A t \in Types : Cardinality(UnitsInUse(r, t)) <= used[r][t]
      /\ ~ misled[r] => \A t \in DOMAIN Capacity[r] :
            Cardinality(UnitsInUse(r, t)) <= Capacity[r][t]
  BY CoverMeaning
<1>6. ASSUME ~ misled'[r], NEW t \in DOMAIN Capacity[r]
      PROVE  Cardinality(UnitsInUse(r, t)') <= Capacity[r][t]
  BY <1>1, <1>4, <1>5, <1>6, UnitCounts
<1>7. ASSUME ~ short'[r], NEW t \in Types
      PROVE  Cardinality(UnitsInUse(r, t)') <= used'[r][t]
  <2>1. CASE r = h
    <3>1. Using(r) = {}
      BY <1>1, <2>1, RSRequirements DEF Using, UnusedInv
    <3>2. UnitsInUse(r, t) = {}
      BY <3>1 DEF UnitsInUse
    <3>3. Cardinality(UnitsInUse(r, t)) = 0
      BY <3>2, FS_EmptySet
    <3>4. used'[r] = u /\ u[t] \in Nat
      BY <1>1, <2>1, RSRequirements DEF SchedulerType
    <3>5. QED BY <1>4, <3>3, <3>4
  <2>2. CASE r # h
    <3>1. used'[r] = used[r] /\ short'[r] = short[r]
      BY <1>1, <2>2
    <3>2. QED BY <1>4, <1>5, <1>7, <3>1, UnitCounts
  <2>3. QED BY <2>1, <2>2
<1>8. QED BY <1>6, <1>7

\* Every action keeps who may be using what.
LEMMA StepUnused ==
    SchedulerType /\ UnusedInv /\ [Next]_vars => UnusedInv'
<1> SUFFICES ASSUME SchedulerType, UnusedInv, [Next]_vars
             PROVE  UnusedInv'
  OBVIOUS
<1> USE DEF givenVars
<1>1. ASSUME UNCHANGED using, registered \subseteq registered' PROVE UnusedInv'
  BY <1>1 DEF UnusedInv
<1>2. ASSUME NEW q \in Requests, Allocate(q), registered' = registered PROVE UnusedInv'
  <2>1. PICK r \in Resources : r \in registered /\ using' = [using EXCEPT ![q] = r]
    BY <1>2, AllocateMeaning
  <2>2. QED BY <1>2, <2>1 DEF UnusedInv, SchedulerType
<1>3. ASSUME NEW q \in Requests, RequestResource(q) PROVE UnusedInv'
  <2>1. registered' = registered /\ (Allocate(q) \/ NoneSuitable(q))
    BY <1>3 DEF RequestResource
  <2>2. QED BY <1>1, <1>2, <2>1 DEF NoneSuitable
<1>4. ASSUME NEW q \in Requests, ReleaseResource(q) PROVE UnusedInv'
  BY <1>4 DEF ReleaseResource, UnusedInv, SchedulerType
<1>5. ASSUME NEW p \in Procs, ProcessOne(p) PROVE UnusedInv'
  <2>1. Head(todo[p]) \in Requests
    <3>1. todo[p] \in Seq(Requests) /\ todo[p] # <<>>
      BY <1>5 DEF SchedulerType, ProcessOne
    <3>2. QED BY <3>1, HeadTailProperties
  <2>2. registered' = registered /\ (Allocate(Head(todo[p])) \/ using' = using)
    BY <1>5 DEF ProcessOne, NoneSuitable
  <2>3. QED BY <1>1, <1>2, <2>1, <2>2
<1>6. CASE UNCHANGED using /\ registered \subseteq registered'
  BY <1>1, <1>6
<1>7. QED
  BY <1>3, <1>4, <1>5, <1>6 DEF Next, vars, RegisterResource, UpdateResourceStatus,
     Heartbeat, RequestQueued, Stop, checkResourceStatus, checkAllocations,
     ProcessStart, ProcessEnd

\* Every action keeps the account and the capacity.
LEMMA StepCover ==
    SchedulerType /\ UnusedInv /\ NoOvercommit /\ [Next]_vars => NoOvercommit'
<1> SUFFICES ASSUME SchedulerType, UnusedInv, NoOvercommit, [Next]_vars
             PROVE  NoOvercommit'
  OBVIOUS
<1> USE DEF resourceVars, givenVars
<1>1. ASSUME UNCHANGED <<used, using, short, misled>> PROVE NoOvercommit'
  <2>1. \A r \in Resources : Using(r)' \subseteq Using(r)
    BY <1>1 DEF Using
  <2>2. QED BY <1>1, <2>1, CoverKept
<1>2. ASSUME NEW q \in Requests, ReleaseResource(q) PROVE NoOvercommit'
  <2>1. UNCHANGED <<used, short, misled>> /\ using' = [using EXCEPT ![q] = NoResource]
    BY <1>2 DEF ReleaseResource, Deallocate
  <2>2. \A r \in Resources : Using(r)' \subseteq Using(r)
    BY <2>1, RSRequirements DEF Using, SchedulerType
  <2>3. QED BY <2>1, <2>2, CoverKept
<1>3. ASSUME NEW h \in Resources, NEW l \in Loads, NEW u \in Usages \cup {InUse(h)},
             Heartbeat(h, l, u)
      PROVE  NoOvercommit'
  <2>1. u \in [Types -> Nat]
    BY UseType, RSRequirements
  <2>2. QED BY <1>3, <2>1, CoverHeartbeat
<1>4. ASSUME NEW q \in Requests, RequestResource(q) PROVE NoOvercommit'
  <2>1. CASE Allocate(q)
    <3>1. short' = short
      BY <1>4 DEF RequestResource
    <3>2. QED BY <2>1, <3>1, CoverAllocate
  <2>2. CASE NoneSuitable(q)
    <3>1. short' = short
      BY <1>4 DEF RequestResource
    <3>2. QED BY <1>1, <2>2, <3>1 DEF NoneSuitable
  <2>3. QED BY <1>4, <2>1, <2>2 DEF RequestResource
<1>5. ASSUME NEW p \in Procs, ProcessOne(p) PROVE NoOvercommit'
  <2>1. Head(todo[p]) \in Requests
    <3>1. todo[p] \in Seq(Requests) /\ todo[p] # <<>>
      BY <1>5 DEF SchedulerType, ProcessOne
    <3>2. QED BY <3>1, HeadTailProperties
  <2>2. short' = short
    BY <1>5 DEF ProcessOne
  <2>3. CASE Allocate(Head(todo[p]))
    BY <2>1, <2>2, <2>3, CoverAllocate
  <2>4. CASE UNCHANGED <<used, using, misled>>
    BY <1>1, <2>2, <2>4
  <2>5. QED BY <1>5, <2>3, <2>4 DEF ProcessOne, NoneSuitable
<1>6. ASSUME NEW r \in Resources, NEW u \in Usages, RegisterResource(r, u)
      PROVE  NoOvercommit'
  BY <1>6, CoverRegister
<1>7. CASE \E r \in Resources, s \in Reports, l \in Loads : UpdateResourceStatus(r, s, l)
  BY <1>1, <1>7 DEF UpdateResourceStatus
<1>8. CASE \E q \in Requests : RequestQueued(q)
  BY <1>1, <1>8 DEF RequestQueued
<1>9. CASE Stop
  BY <1>1, <1>9 DEF Stop
<1>10. CASE \E late \in SUBSET Resources : checkResourceStatus(late)
  BY <1>1, <1>10 DEF checkResourceStatus
<1>11. CASE \E expired \in SUBSET Requests : checkAllocations(expired)
  BY <1>1, <1>11 DEF checkAllocations, Deallocate
<1>12. CASE \E p \in Procs : ProcessStart(p)
  BY <1>1, <1>12 DEF ProcessStart
<1>13. CASE \E p \in Procs : ProcessEnd(p)
  BY <1>1, <1>13 DEF ProcessEnd
<1>14. CASE UNCHANGED vars
  BY <1>1, <1>14 DEF vars
<1>15. QED
  BY <1>2, <1>3, <1>4, <1>5, <1>6, <1>7, <1>8, <1>9, <1>10, <1>11, <1>12, <1>13,
     <1>14 DEF Next

-----------------------------------------------------------------------------
(* Where a request waits.                                                  *)

\* A call that is not under way has nothing in its slices.
IdleInv == \A p \in Procs \ running : todo[p] = <<>> /\ remaining[p] = <<>>

\* No request is twice in the pending queue and the slices together ...
ApartInv ==
    /\ IsInjective(pendingQueue)
    /\ \A p \in Procs :
          /\ IsInjective(Slices(p))
          /\ ToSet(Slices(p)) \cap ToSet(pendingQueue) = {}
          /\ \A o \in Procs \ {p} : ToSet(Slices(p)) \cap ToSet(Slices(o)) = {}

\* ... which hold those that wait ...
Waiting(q) ==
    \/ q \in ToSet(pendingQueue)
    \/ \E p \in Procs : q \in ToSet(Slices(p))

WaitingInv == \A q \in Requests : place[q] = "waiting" <=> Waiting(q)

\* ... and those that were given a resource have an allocation.
GivenInv == \A q \in Requests : allocations[q] # NoResource <=> place[q] = "allocated"

LEMMA OnceMeaning == RequestOnce <=> ApartInv /\ WaitingInv /\ GivenInv
  BY DEF RequestOnce, ApartInv, WaitingInv, GivenInv, Waiting

\* A step of one call p with the pending queue: what the two hold afterwards
\* they held before, or nobody did.
LEMMA ApartStep ==
    ASSUME ApartInv, NEW p \in Procs,
           \A o \in Procs \ {p} : todo'[o] = todo[o] /\ remaining'[o] = remaining[o],
           IsInjective(pendingQueue'), IsInjective(Slices(p)'),
           ToSet(Slices(p)') \cap ToSet(pendingQueue') = {},
           \A q \in ToSet(pendingQueue') \cup ToSet(Slices(p)') :
              \A o \in Procs \ {p} : q \notin ToSet(Slices(o))
    PROVE  ApartInv'
<1>1. \A o \in Procs \ {p} : Slices(o)' = Slices(o)
  BY DEF Slices
<1>2. ASSUME NEW o \in Procs
      PROVE  /\ IsInjective(Slices(o)')
             /\ ToSet(Slices(o)') \cap ToSet(pendingQueue') = {}
  <2>1. CASE o = p
    BY <2>1
  <2>2. CASE o # p
    <3>1. Slices(o)' = Slices(o) /\ IsInjective(Slices(o))
      BY <1>1, <2>2 DEF ApartInv
    <3>2. QED BY <2>2, <3>1
  <2>3. QED BY <2>1, <2>2
<1>3. ASSUME NEW o \in Procs, NEW k \in Procs \ {o}
      PROVE  ToSet(Slices(o)') \cap ToSet(Slices(k)') = {}
  <2>1. CASE o # p /\ k # p
    <3>1. ToSet(Slices(o)) \cap ToSet(Slices(k)) = {}
      BY DEF ApartInv
    <3>2. QED BY <1>1, <2>1, <3>1
  <2>2. CASE o = p
    <3>1. Slices(k)' = Slices(k) /\ k \in Procs \ {p}
      BY <1>1, <2>2
    <3>2. QED BY <2>2, <3>1
  <2>3. CASE k = p
    <3>1. Slices(o)' = Slices(o) /\ o \in Procs \ {p}
      BY <1>1, <2>3
    <3>2. QED BY <2>3, <3>1
  <2>4. QED BY <2>1, <2>2, <2>3
<1>4. QED BY <1>2, <1>3 DEF ApartInv

\* What such a step makes of who waits.
LEMMA WaitingStep ==
    ASSUME NEW p \in Procs,
           \A o \in Procs \ {p} : todo'[o] = todo[o] /\ remaining'[o] = remaining[o],
           NEW q
    PROVE  /\ Waiting(q)' <=> \/ q \in ToSet(pendingQueue') \cup ToSet(Slices(p)')
                              \/ \E o \in Procs \ {p} : q \in ToSet(Slices(o))
           /\ Waiting(q)  <=> \/ q \in ToSet(pendingQueue) \cup ToSet(Slices(p))
                              \/ \E o \in Procs \ {p} : q \in ToSet(Slices(o))
<1>1. \A o \in Procs \ {p} : Slices(o)' = Slices(o)
  BY DEF Slices
<1>2. Waiting(q) <=> \/ q \in ToSet(pendingQueue) \cup ToSet(Slices(p))
                     \/ \E o \in Procs \ {p} : q \in ToSet(Slices(o))
  BY DEF Waiting
<1>3. Waiting(q)' <=> \/ q \in ToSet(pendingQueue')
                      \/ \E o \in Procs : q \in ToSet(Slices(o)')
  BY DEF Waiting
<1>4. (\E o \in Procs : q \in ToSet(Slices(o)')) <=>
         \/ q \in ToSet(Slices(p)')
         \/ \E o \in Procs \ {p} : q \in ToSet(Slices(o)')
  OBVIOUS
<1>5. QED BY <1>1, <1>2, <1>3, <1>4

\* A step that leaves the queue and the slices alone.
LEMMA SlicesSame ==
    ASSUME UNCHANGED <<pendingQueue, todo, remaining>>
    PROVE  /\ ApartInv => ApartInv'
           /\ \A q \in Requests : Waiting(q)' <=> Waiting(q)
<1>1. \A p \in Procs : Slices(p)' = Slices(p)
  BY DEF Slices
<1>2. pendingQueue' = pendingQueue
  OBVIOUS
<1>3. ApartInv => ApartInv'
  BY <1>1, <1>2 DEF ApartInv
<1>4. \A q \in Requests : Waiting(q)' <=> Waiting(q)
  BY <1>1, <1>2 DEF Waiting
<1>5. QED BY <1>3, <1>4

\* Every action leaves the calls that are not under way with nothing.
LEMMA StepIdle ==
    SchedulerType /\ IdleInv /\ [Next]_vars => IdleInv'
<1> SUFFICES ASSUME SchedulerType, IdleInv, [Next]_vars
             PROVE  IdleInv'
  OBVIOUS
<1> USE DEF procVars, givenVars
<1>1. ASSUME UNCHANGED procVars PROVE IdleInv'
  BY <1>1 DEF IdleInv
<1>2. ASSUME NEW p \in Procs, ProcessStart(p) PROVE IdleInv'
  <2>1. CASE pendingQueue = <<>>
    BY <1>2, <2>1 DEF ProcessStart, IdleInv
  <2>2. CASE pendingQueue # <<>>
    BY <1>2, <2>2 DEF ProcessStart, IdleInv, SchedulerType
  <2>3. QED BY <2>1, <2>2
<1>3. ASSUME NEW p \in Procs, ProcessOne(p) PROVE IdleInv'
  <2>1. p \in running /\ running' = running
    BY <1>3 DEF ProcessOne
  <2>2. \A o \in Procs \ {p} : todo'[o] = todo[o] /\ remaining'[o] = remaining[o]
    BY <1>3 DEF ProcessOne, SchedulerType
  <2>3. QED BY <2>1, <2>2 DEF IdleInv
<1>4. ASSUME NEW p \in Procs, ProcessEnd(p) PROVE IdleInv'
  BY <1>4 DEF ProcessEnd, IdleInv, SchedulerType
<1>5. QED
  BY <1>1, <1>2, <1>3, <1>4 DEF Next, vars, RegisterResource, UpdateResourceStatus,
     Heartbeat, RequestResource, RequestQueued, ReleaseResource, Stop,
     checkResourceStatus, checkAllocations

\* What a call under way has looked at and kept, moved or finished with.
LEMMA StepCallOne ==
    ASSUME SchedulerType, ApartInv, WaitingInv, GivenInv,
           NEW p \in Procs, ProcessOne(p)
    PROVE  ApartInv' /\ WaitingInv' /\ GivenInv'
<1> DEFINE s == todo[p]
           k == remaining[p]
           q == Head(todo[p])
<1>1. /\ s \in Seq(Requests) /\ k \in Seq(Requests) /\ s # <<>>
      /\ pendingQueue' = pendingQueue
  BY DEF ProcessOne, SchedulerType
<1>2. /\ q \in Requests /\ q \in ToSet(Slices(p))
      /\ IsInjective(Slices(p)) =>
            /\ IsInjective(Tail(s) \o k)
            /\ ToSet(Tail(s) \o k) = ToSet(Slices(p)) \ {q}
            /\ IsInjective(Tail(s) \o Append(k, q))
            /\ ToSet(Tail(s) \o Append(k, q)) = ToSet(Slices(p))
  BY <1>1, TakeFirst DEF Slices
<1>3. /\ IsInjective(pendingQueue) /\ IsInjective(Slices(p))
      /\ ToSet(Slices(p)) \cap ToSet(pendingQueue) = {}
      /\ \A o \in Procs \ {p} :
            /\ ToSet(Slices(p)) \cap ToSet(Slices(o)) = {}
            /\ ToSet(Slices(o)) \cap ToSet(pendingQueue) = {}
  BY DEF ApartInv
<1>4. place[q] = "waiting" /\ allocations[q] = NoResource
  BY <1>2 DEF WaitingInv, Waiting, GivenInv
<1>5. \A o \in Procs \ {p} : todo'[o] = todo[o] /\ remaining'[o] = remaining[o]
  BY DEF ProcessOne, SchedulerType
<1>6. CASE UNCHANGED <<resourceVars, givenVars, place, todo, remaining>>
  <2>1. ApartInv' /\ \A x \in Requests : Waiting(x)' <=> Waiting(x)
    BY <1>1, <1>6, SlicesSame
  <2>2. WaitingInv'
    BY <1>6, <2>1 DEF WaitingInv
  <2>3. QED BY <1>6, <2>1, <2>2 DEF GivenInv, givenVars
<1>7. ASSUME todo' = [todo EXCEPT ![p] = Tail(@)], remaining' = remaining,
             \A x \in Requests \ {q} : place'[x] = place[x],
             place'[q] # "waiting"
      PROVE  ApartInv' /\ WaitingInv'
  <2>1. Slices(p)' = Tail(s) \o k
    BY <1>7 DEF Slices, SchedulerType
  <2>2. IsInjective(Slices(p)') /\ ToSet(Slices(p)') = ToSet(Slices(p)) \ {q}
    BY <1>2, <1>3, <2>1
  <2> HIDE DEF q, s, k
  <2>3. ApartInv'
    BY <1>1, <1>3, <1>5, <2>2, ApartStep
  <2>4. \A x \in Requests : Waiting(x)' <=> Waiting(x) /\ x # q
    BY <1>1, <1>2, <1>3, <1>5, <2>2, WaitingStep
  <2>5. WaitingInv'
    BY <1>7, <2>4 DEF WaitingInv
  <2>6. QED BY <2>3, <2>5
<1>8. CASE /\ place' = [place EXCEPT ![q] = "timedout"]
           /\ todo' = [todo EXCEPT ![p] = Tail(@)]
           /\ UNCHANGED <<givenVars, remaining>>
  <2> HIDE DEF q
  <2>1. place'[q] = "timedout" /\ \A x \in Requests \ {q} : place'[x] = place[x]
    BY <1>2, <1>8 DEF SchedulerType
  <2>2. GivenInv'
    BY <1>2, <1>4, <1>8, <2>1 DEF GivenInv, givenVars
  <2>3. ApartInv' /\ WaitingInv'
    BY <1>7, <1>8, <2>1
  <2>4. QED BY <2>2, <2>3
<1>9. CASE /\ Allocate(q)
           /\ place' = [place EXCEPT ![q] = "allocated"]
           /\ todo' = [todo EXCEPT ![p] = Tail(@)]
           /\ UNCHANGED remaining
  <2> HIDE DEF q
  <2>1. place'[q] = "allocated" /\ \A x \in Requests \ {q} : place'[x] = place[x]
    BY <1>2, <1>9 DEF SchedulerType
  <2>2. PICK r \in Resources : allocations' = [allocations EXCEPT ![q] = r]
    BY <1>2, <1>9, AllocateMeaning
  <2>3. r # NoResource
    BY RSRequirements
  <2>4. GivenInv'
    BY <1>2, <2>1, <2>2, <2>3 DEF GivenInv, SchedulerType
  <2>5. ApartInv' /\ WaitingInv'
    BY <1>7, <1>9, <2>1
  <2>6. QED BY <2>4, <2>5
<1>10. CASE /\ NoneSuitable(q)
            /\ todo' = [todo EXCEPT ![p] = Tail(@)]
            /\ remaining' = [remaining EXCEPT ![p] = Append(@, q)]
            /\ UNCHANGED place
  <2>1. Slices(p)' = Tail(s) \o Append(k, q)
    BY <1>10 DEF Slices, SchedulerType
  <2>2. IsInjective(Slices(p)') /\ ToSet(Slices(p)') = ToSet(Slices(p))
    BY <1>2, <1>3, <2>1
  <2>3. place' = place /\ allocations' = allocations
    BY <1>10 DEF NoneSuitable, givenVars
  <2> HIDE DEF q, s, k
  <2>4. ApartInv'
    BY <1>1, <1>3, <1>5, <2>2, ApartStep
  <2>5. \A x \in Requests : Waiting(x)' <=> Waiting(x)
    BY <1>1, <1>5, <2>2, WaitingStep
  <2>6. WaitingInv'
    BY <2>3, <2>5 DEF WaitingInv
  <2>7. QED BY <2>3, <2>4, <2>6 DEF GivenInv
<1>11. QED BY <1>6, <1>8, <1>9, <1>10 DEF ProcessOne

\* A call takes the whole queue into its slices.
LEMMA StepCallStart ==
    ASSUME SchedulerType, IdleInv, ApartInv, WaitingInv, GivenInv,
           NEW p \in Procs, ProcessStart(p)
    PROVE  ApartInv' /\ WaitingInv' /\ GivenInv'
<1>1. todo[p] = <<>> /\ remaining[p] = <<>> /\ pendingQueue \in Seq(Requests)
  BY DEF ProcessStart, IdleInv, SchedulerType
<1>2. /\ \A o \in Procs \ {p} : todo'[o] = todo[o] /\ remaining'[o] = remaining[o]
      /\ todo'[p] = pendingQueue /\ remaining'[p] = <<>> /\ pendingQueue' = <<>>
  <2>1. CASE pendingQueue = <<>>
    BY <1>1, <2>1 DEF ProcessStart
  <2>2. CASE pendingQueue # <<>>
    BY <1>1, <2>2 DEF ProcessStart, SchedulerType
  <2>3. QED BY <2>1, <2>2
<1>3. Slices(p)' = pendingQueue
  <2>1. pendingQueue \o <<>> = pendingQueue
    BY <1>1
  <2>2. QED BY <1>2, <2>1 DEF Slices
<1>4. ToSet(Slices(p)) = {}
  <2>1. Slices(p) = <<>>
    BY <1>1 DEF Slices
  <2>2. QED BY <2>1 DEF ToSet
<1>5. ToSet(pendingQueue') = {} /\ IsInjective(pendingQueue')
  BY <1>2 DEF ToSet, IsInjective
<1>6. /\ IsInjective(pendingQueue)
      /\ \A o \in Procs \ {p} : ToSet(Slices(o)) \cap ToSet(pendingQueue) = {}
  BY DEF ApartInv
<1>7. ApartInv'
  BY <1>2, <1>3, <1>5, <1>6, ApartStep
<1>8. \A x \in Requests : Waiting(x)' <=> Waiting(x)
  BY <1>2, <1>3, <1>4, <1>5, WaitingStep
<1>9. UNCHANGED <<place, allocations>>
  BY DEF ProcessStart, givenVars
<1>10. QED BY <1>7, <1>8, <1>9 DEF WaitingInv, GivenInv

\* A call puts back what it kept.
LEMMA StepCallEnd ==
    ASSUME SchedulerType, ApartInv, WaitingInv, GivenInv,
           NEW p \in Procs, ProcessEnd(p)
    PROVE  ApartInv' /\ WaitingInv' /\ GivenInv'
<1> DEFINE k == remaining[p]
<1>1. /\ todo[p] = <<>> /\ k \in Seq(Requests) /\ pendingQueue \in Seq(Requests)
      /\ pendingQueue' = pendingQueue \o k
  BY DEF ProcessEnd, SchedulerType
<1>2. /\ \A o \in Procs \ {p} : todo'[o] = todo[o] /\ remaining'[o] = remaining[o]
      /\ todo'[p] = <<>> /\ remaining'[p] = <<>>
  BY DEF ProcessEnd, SchedulerType
<1>3. Slices(p) = k
  <2>1. <<>> \o k = k
    BY <1>1
  <2>2. QED BY <1>1, <2>1 DEF Slices
<1>4. ToSet(Slices(p)') = {} /\ IsInjective(Slices(p)')
  <2>1. Slices(p)' = <<>>
    BY <1>2 DEF Slices
  <2>2. QED BY <2>1 DEF ToSet, IsInjective
<1>5. /\ IsInjective(pendingQueue) /\ IsInjective(k) /\ ToSet(k) \cap ToSet(pendingQueue) = {}
      /\ \A o \in Procs \ {p} : /\ ToSet(k) \cap ToSet(Slices(o)) = {}
                                /\ ToSet(Slices(o)) \cap ToSet(pendingQueue) = {}
  BY <1>3 DEF ApartInv
<1>6. IsInjective(pendingQueue') /\ ToSet(pendingQueue') = ToSet(pendingQueue) \cup ToSet(k)
  BY <1>1, <1>5, ConcatSlices
<1> HIDE DEF k
<1>7. ApartInv'
  BY <1>2, <1>4, <1>5, <1>6, ApartStep
<1>8. \A x \in Requests : Waiting(x)' <=> Waiting(x)
  BY <1>2, <1>3, <1>4, <1>6, WaitingStep
<1>9. UNCHANGED <<place, allocations>>
  BY DEF ProcessEnd, givenVars
<1>10. QED BY <1>7, <1>8, <1>9 DEF WaitingInv, GivenInv

\* A request that could not be served at once joins the queue.
LEMMA StepQueued ==
    ASSUME SchedulerType, ApartInv, WaitingInv, GivenInv,
           NEW q \in Requests, RequestQueued(q)
    PROVE  ApartInv' /\ WaitingInv' /\ GivenInv'
<1> DEFINE p == "ticker"
<1>1. place[q] = "asking" /\ place' = [place EXCEPT ![q] = "waiting"]
      /\ UNCHANGED <<allocations, todo, remaining>>
  BY DEF RequestQueued, procVars, givenVars
<1>2. q \notin ToSet(pendingQueue) /\ \A o \in Procs : q \notin ToSet(Slices(o))
  BY <1>1 DEF WaitingInv, Waiting
<1>3. PICK i \in InsertPlaces(pendingQueue, q) :
         pendingQueue' = InsertAt(pendingQueue, i, q)
  BY DEF RequestQueued
<1>4. i \in 1..Len(pendingQueue) + 1 /\ pendingQueue \in Seq(Requests)
  BY DEF InsertPlaces, SchedulerType
<1>5. p \in Procs /\ \A o \in Procs : todo'[o] = todo[o] /\ remaining'[o] = remaining[o]
  BY <1>1 DEF Procs
<1> HIDE DEF p
<1>6. /\ IsInjective(pendingQueue) /\ IsInjective(Slices(p))
      /\ \A o \in Procs : ToSet(Slices(o)) \cap ToSet(pendingQueue) = {}
      /\ \A o \in Procs \ {p} : ToSet(Slices(p)) \cap ToSet(Slices(o)) = {}
  BY <1>5 DEF ApartInv
<1>7. /\ ToSet(pendingQueue') = ToSet(pendingQueue) \cup {q}
      /\ IsInjective(pendingQueue')
  BY <1>2, <1>3, <1>4, <1>6, InsertSlice
<1>8. Slices(p)' = Slices(p)
  BY <1>5 DEF Slices
<1>9. ApartInv'
  BY <1>2, <1>5, <1>6, <1>7, <1>8, ApartStep
<1>10. \A x \in Requests : Waiting(x)' <=> Waiting(x) \/ x = q
  BY <1>5, <1>7, <1>8, WaitingStep
<1>11. WaitingInv' /\ GivenInv'
  BY <1>1, <1>10 DEF WaitingInv, GivenInv, SchedulerType
<1>12. QED BY <1>9, <1>11

\* Allocations are taken away from requests that have one.
LEMMA StepDeallocate ==
    ASSUME SchedulerType, ApartInv, WaitingInv, GivenInv,
           NEW gone \in SUBSET Requests, \A q \in gone : allocations[q] # NoResource,
           Deallocate(gone), UNCHANGED <<pendingQueue, todo, remaining>>
    PROVE  ApartInv' /\ WaitingInv' /\ GivenInv'
<1>1. ApartInv' /\ \A q \in Requests : Waiting(q)' <=> Waiting(q)
  BY SlicesSame
<1>2. \A q \in Requests :
         /\ allocations'[q] = IF q \in gone THEN NoResource ELSE allocations[q]
         /\ place'[q] = IF q \in gone THEN "gone" ELSE place[q]
  BY DEF Deallocate
<1>3. \A q \in gone : place[q] = "allocated"
  BY DEF GivenInv
<1>4. WaitingInv'
  BY <1>1, <1>2, <1>3 DEF WaitingInv
<1>5. GivenInv'
  BY <1>2 DEF GivenInv
<1>6. QED BY <1>1, <1>4, <1>5

\* A request is served at once, or is going to be queued.
LEMMA StepRequested ==
    ASSUME SchedulerType, ApartInv, WaitingInv, GivenInv,
           NEW q \in Requests, RequestResource(q)
    PROVE  ApartInv' /\ WaitingInv' /\ GivenInv'
<1>1. place[q] = "new" /\ UNCHANGED <<pendingQueue, todo, remaining>>
  BY DEF RequestResource, procVars
<1>2. ApartInv' /\ \A x \in Requests : Waiting(x)' <=> Waiting(x)
  BY <1>1, SlicesSame
<1>3. allocations[q] = NoResource
  BY <1>1 DEF GivenInv
<1>4. CASE Allocate(q) /\ place' = [place EXCEPT ![q] = "allocated"]
  <2>1. PICK r \in Resources : allocations' = [allocations EXCEPT ![q] = r]
    BY <1>4, AllocateMeaning
  <2>2. r # NoResource
    BY RSRequirements
  <2>3. GivenInv'
    BY <1>4, <2>1, <2>2 DEF GivenInv, SchedulerType
  <2>4. WaitingInv'
    BY <1>1, <1>2, <1>4 DEF WaitingInv, SchedulerType
  <2>5. QED BY <1>2, <2>3, <2>4
<1>5. CASE NoneSuitable(q) /\ place' = [place EXCEPT ![q] = "asking"]
  <2>1. allocations' = allocations
    BY <1>5 DEF NoneSuitable, givenVars
  <2>2. WaitingInv' /\ GivenInv'
    BY <1>1, <1>2, <1>3, <1>5, <2>1 DEF WaitingInv, GivenInv, SchedulerType
  <2>3. QED BY <1>2, <2>2
<1>6. QED BY <1>4, <1>5 DEF RequestResource

\* Every action keeps each waiting request in its one place.
LEMMA StepOnce ==
    SchedulerType /\ IdleInv /\ RequestOnce /\ [Next]_vars => RequestOnce'
<1> SUFFICES ASSUME SchedulerType, IdleInv, ApartInv, WaitingInv, GivenInv, [Next]_vars
             PROVE  ApartInv' /\ WaitingInv' /\ GivenInv'
  <2>1. RequestOnce' <=> ApartInv' /\ WaitingInv' /\ GivenInv'
    BY DEF RequestOnce, ApartInv, WaitingInv, GivenInv, Waiting
  <2>2. QED BY <2>1, OnceMeaning
<1> USE DEF procVars, givenVars
<1>1. ASSUME UNCHANGED <<allocations, pendingQueue, place, todo, remaining>>
      PROVE  ApartInv' /\ WaitingInv' /\ GivenInv'
  <2>1. ApartInv' /\ \A q \in Requests : Waiting(q)' <=> Waiting(q)
    BY <1>1, SlicesSame
  <2>2. QED BY <1>1, <2>1 DEF WaitingInv, GivenInv
<1>2. CASE \E q \in Requests : ReleaseResource(q)
  <2>1. PICK q \in Requests : ReleaseResource(q)
    BY <1>2
  <2>2. UNCHANGED <<pendingQueue, todo, remaining>>
    BY <2>1 DEF ReleaseResource
  <2>3. CASE allocations[q] = NoResource
    BY <1>1, <2>1, <2>2, <2>3 DEF ReleaseResource
  <2>4. CASE allocations[q] # NoResource
    <3> DEFINE gone == {q}
    <3>1. /\ gone \in SUBSET Requests /\ \A x \in gone : allocations[x] # NoResource
          /\ Deallocate(gone)
      BY <2>1, <2>4 DEF ReleaseResource
    <3> HIDE DEF gone
    <3>2. QED BY <2>2, <3>1, StepDeallocate
  <2>5. QED BY <2>3, <2>4
<1>3. CASE \E expired \in SUBSET Requests : checkAllocations(expired)
  <2>1. PICK gone \in SUBSET Requests : checkAllocations(gone)
    BY <1>3
  <2>2. /\ \A x \in gone : allocations[x] # NoResource
        /\ Deallocate(gone) /\ UNCHANGED <<pendingQueue, todo, remaining>>
    BY <2>1 DEF checkAllocations
  <2>3. QED BY <2>2, StepDeallocate
<1>4. CASE \E q \in Requests : RequestResource(q)
  BY <1>4, StepRequested
<1>5. CASE \E q \in Requests : RequestQueued(q)
  BY <1>5, StepQueued
<1>6. CASE \E p \in Procs : ProcessStart(p)
  BY <1>6, StepCallStart
<1>7. CASE \E p \in Procs : ProcessOne(p)
  BY <1>7, StepCallOne
<1>8. CASE \E p \in Procs : ProcessEnd(p)
  BY <1>8, StepCallEnd
<1>9. CASE \E r \in Resources, u \in Usages : RegisterResource(r, u)
  BY <1>1, <1>9 DEF RegisterResource
<1>10. CASE \E r \in Resources, s \in Reports, l \in Loads : UpdateResourceStatus(r, s, l)
  BY <1>1, <1>10 DEF UpdateResourceStatus
<1>11. CASE \E r \in Resources, l \in Loads : \E u \in Usages \cup {InUse(r)} :
               Heartbeat(r, l, u)
  BY <1>1, <1>11 DEF Heartbeat
<1>12. CASE Stop
  BY <1>1, <1>12 DEF Stop
<1>13. CASE \E late \in SUBSET Resources : checkResourceStatus(late)
  BY <1>1, <1>13 DEF checkResourceStatus
<1>14. CASE UNCHANGED vars
  BY <1>1, <1>14 DEF vars
<1>15. QED
  BY <1>2, <1>3, <1>4, <1>5, <1>6, <1>7, <1>8, <1>9, <1>10, <1>11, <1>12, <1>13,
     <1>14 DEF Next

-----------------------------------------------------------------------------
(* The theorems. *)

LEMMA InitInv == Init => IdleInv /\ RequestOnce /\ UnusedInv /\ NoOvercommit
<1> SUFFICES ASSUME Init PROVE IdleInv /\ RequestOnce /\ UnusedInv /\ NoOvercommit
  OBVIOUS
<1>1. IdleInv
  BY DEF Init, IdleInv
<1>2. ToSet(pendingQueue) = {} /\ IsInjective(pendingQueue)
  BY DEF Init, ToSet, IsInjective
<1>3. ASSUME NEW p \in Procs PROVE ToSet(Slices(p)) = {} /\ IsInjective(Slices(p))
  <2>1. Slices(p) = <<>>
    BY DEF Init, Slices
  <2>2. QED BY <2>1 DEF ToSet, IsInjective
<1>4. RequestOnce
  BY <1>2, <1>3 DEF RequestOnce, Init
<1>5. ASSUME NEW r \in Resources, NEW t \in Types
      PROVE  Cardinality(UnitsInUse(r, t)) = 0
  <2>1. Using(r) = {}
    BY RSRequirements DEF Init, Using
  <2>2. UnitsInUse(r, t) = {}
    BY <2>1 DEF UnitsInUse
  <2>3. QED BY <2>2, FS_EmptySet
<1>6. \A r \in Resources : /\ \A t \in Types : used[r][t] = 0
                          /\ \A t \in DOMAIN Capacity[r] : t \in Types /\ Capacity[r][t] \in Nat
  BY RSRequirements DEF Init
<1>7. NoOvercommit
  BY <1>5, <1>6, CoverMeaning
<1>8. UnusedInv
  BY DEF Init, UnusedInv
<1>9. QED BY <1>1, <1>4, <1>7, <1>8

\* Each variable keeps the shape it starts with.
THEOREM TypeCorrect == Spec => []SchedulerType
<1>1. Init => SchedulerType
  BY InitType
<1>2. SchedulerType /\ [Next]_vars => SchedulerType'
  BY StepType
<1>3. QED BY <1>1, <1>2, PTL DEF Spec

\* However many processPendingRequests calls overlap with each other and with
\* RequestResource, which gives the lock up between its attempt and its
\* insertion, no waiting request is lost, queued twice or taken by two calls,
\* and only requests that were given a resource have an allocation.
THEOREM NeverLostOrDoubled == Spec => []RequestOnce
<1> DEFINE IInv == SchedulerType /\ IdleInv /\ RequestOnce
<1>1. Init => IInv
  BY InitType, InitInv
<1>2. IInv /\ [Next]_vars => IInv'
  BY StepType, StepIdle, StepOnce
<1>3. IInv => RequestOnce
  OBVIOUS
<1>4. QED BY <1>1, <1>2, <1>3, PTL DEF Spec

\* Whatever the resources are, ask for and report: after any mix of allocations,
\* releases, expiries and heartbeats, true or not, the account hasEnoughCapacity
\* looks at covers what clients have in use of a resource, those whose allocation
\* has expired included, unless the last account the resource sent left some of
\* it out; and only an allocation made on such an account gives more than the
\* capacity.
THEOREM NeverOvercommitted == Spec => []NoOvercommit
<1> DEFINE IInv == SchedulerType /\ UnusedInv /\ NoOvercommit
<1>1. Init => IInv
  BY InitType, InitInv
<1>2. IInv /\ [Next]_vars => IInv'
  BY StepType, StepUnused, StepCover
<1>3. IInv => NoOvercommit
  OBVIOUS
<1>4. QED BY <1>1, <1>2, <1>3, PTL DEF Spec

=============================================================================
