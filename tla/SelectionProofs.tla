---------------------------- MODULE SelectionProofs ----------------------------
(***************************************************************************)
(* Proofs about Selection, for any number of backends, any weights, any    *)
(* threads and any max_iterations: what the weighted list contains, that a *)
(* search finds a backend that was ready all along, and that the first     *)
(* choices are spread by weight.                                           *)
(*                                                                         *)
(* The weighted list is the value of a recursive function.  What is to be  *)
(* known of it holds for every n because the naturals are well-founded     *)
(* (WFMin): there is no least n for which it does not.                     *)
(***************************************************************************)
EXTENDS Selection, FiniteSetTheorems, WellFoundedInduction, TLAPS

-----------------------------------------------------------------------------
Kinds == {"RoundRobin", "Hashed", "Sorted"}

Iterator ==
  [phase : {"idle", "searching", "none"}, first : BOOLEAN, index : Nat, steps : Nat,
   seen : SUBSET Backend, exclude : SUBSET Backend]

SearchTyped ==
  /\ kind \in Kinds /\ order \in SortedOrders
  /\ counter \in 0 .. Tickets - 1 /\ ready \in SUBSET Backend
  /\ search \in [Search -> Iterator]
  /\ steady \in [Search -> SUBSET Backend] /\ disturbed \in [Search -> BOOLEAN]
  /\ turns \in [even : BOOLEAN, count : [Backend -> Nat]]

\* A backend that is steady is still acceptable, and so has not been refused.
SteadyInv ==
  \A s \in Search : Searching(s) =>
    /\ steady[s] \subseteq ready
    /\ steady[s] \cap (search[s].exclude \cup search[s].seen) = {}

\* A sorted selector has been gone through as far as the index.
SortedInv ==
  kind = "Sorted" =>
    \A s \in Search : Searching(s) =>
      /\ search[s].index = search[s].steps /\ search[s].steps <= N
      /\ \A i \in 1 .. search[s].steps : order[i] \in search[s].seen

\* How many tickets before the latest a fallback was given b, when t is next.
Behind(t, b) ==
  LET r == t % N IN IF b <= r THEN r - b ELSE r + N - b

\* An undisturbed search has seen the backends of its latest tickets, all but
\* the first of which were fallbacks.
TicketInv ==
  kind = "RoundRobin" =>
    \A s \in Search : Searching(s) /\ ~disturbed[s] =>
      /\ search[s].first <=> search[s].steps = 0
      /\ \A b \in Backend : Behind(counter, b) + 1 < search[s].steps
                            => b \in search[s].seen

\* The places of b among the first c of the weighted list.
Places(b, c) == {i \in 1 .. c : Weighted[i] = b}

\* The counts are those of the part of the list that the counter has passed.
TurnsInv ==
  turns.even =>
    LET c == counter % Len(Weighted)
    IN IF c = 0 THEN turns = NoTurns \/ \A b \in Backend : turns.count[b] = Weight[b]
       ELSE \A b \in Backend : turns.count[b] = Cardinality(Places(b, c))

SelectionInv ==
  SearchTyped /\ SteadyInv /\ SortedInv /\ TicketInv /\ TurnsInv /\ ReadyBackendFound

-----------------------------------------------------------------------------
\* A set of naturals that has 0, and n + 1 with every n, has them all.
LEMMA Inductive ==
  ASSUME NEW S, 0 \in S, \A n \in Nat : n \in S => n + 1 \in S
  PROVE  Nat \subseteq S
<1> DEFINE T == {n \in Nat : n \notin S}
<1>1. SUFFICES ASSUME T # {} PROVE FALSE
  OBVIOUS
<1>2. PICK x \in T : \A y \in T : ~(<<y, x>> \in OpToRel(<, Nat))
  BY <1>1, WFMin, NatLessThanWellFounded
<1>3. x \in Nat /\ x # 0 /\ x - 1 \in Nat
  OBVIOUS
<1>4. x - 1 \in T
  BY <1>3, x = (x - 1) + 1
<1>5. <<x - 1, x>> \in Nat \X Nat /\ <<x - 1, x>>[1] < <<x - 1, x>>[2]
  BY <1>3
<1>6. <<x - 1, x>> \in OpToRel(<, Nat)
  BY <1>5, Zenon DEF OpToRel
<1> QED BY <1>2, <1>4, <1>6

\* There is a function as FlattenSeq defines it, for any sequences.
LEMMA FlattenExists ==
  ASSUME NEW n \in Nat, NEW seqs
  PROVE  \E f : f = [i \in 1 .. n |-> IF i = 1 THEN seqs[i] ELSE f[i - 1] \o seqs[i]]
<1> DEFINE Good(m) ==
      \E f : f = [i \in 1 .. m |-> IF i = 1 THEN seqs[i] ELSE f[i - 1] \o seqs[i]]
    S == {m \in Nat : Good(m)}
<1>1. 0 \in S
  <2>1. [i \in 1 .. 0 |-> 0] = [i \in 1 .. 0 |-> IF i = 1 THEN seqs[i]
                                ELSE [j \in 1 .. 0 |-> 0][i - 1] \o seqs[i]]
    OBVIOUS
  <2> QED BY <2>1
<1>2. ASSUME NEW m \in Nat, m \in S PROVE m + 1 \in S
  <2>1. PICK f : f = [i \in 1 .. m |-> IF i = 1 THEN seqs[i] ELSE f[i - 1] \o seqs[i]]
    BY <1>2
  <2> DEFINE g == [i \in 1 .. m + 1 |-> IF i <= m THEN f[i] ELSE
                     IF i = 1 THEN seqs[i] ELSE f[i - 1] \o seqs[i]]
             h == [i \in 1 .. m + 1 |-> IF i = 1 THEN seqs[i] ELSE g[i - 1] \o seqs[i]]
  <2>2. ASSUME NEW i \in 1 .. m + 1 PROVE g[i] = h[i]
    <3>1. CASE i = 1
      BY <2>1, <3>1
    <3>2. CASE i # 1
      <4>1. i - 1 \in 1 .. m + 1 /\ i - 1 <= m
        BY <3>2
      <4>2. g[i - 1] = f[i - 1]
        BY <4>1
      <4>3. CASE i <= m
        <5> DEFINE e == [j \in 1 .. m |-> IF j = 1 THEN seqs[j] ELSE f[j - 1] \o seqs[j]]
        <5>1. f = e
          BY <2>1
        <5>2. e[i] = f[i - 1] \o seqs[i]
          <6>1. i \in 1 .. m
            BY <4>3
          <6> QED BY ONLY <3>2, <6>1, Zenon
        <5> HIDE DEF e
        <5>3. f[i] = f[i - 1] \o seqs[i]
          BY <5>1, <5>2
        <5> QED BY <3>2, <4>2, <4>3, <5>3
      <4>4. CASE ~(i <= m)
        BY <3>2, <4>2, <4>4
      <4> QED BY <4>3, <4>4
    <3> QED BY <3>1, <3>2
  <2>3. g = h
    <3> HIDE DEF g
    <3>1. g = [i \in 1 .. m + 1 |-> g[i]]
      BY DEF g
    <3> QED BY <2>2, <3>1
  <2>4. Good(m + 1)
    <3> HIDE DEF g
    <3> QED BY <2>3
  <2>5. m + 1 \in Nat
    OBVIOUS
  <2> HIDE DEF Good
  <2> QED BY <2>4, <2>5
<1> HIDE DEF S
<1>3. n \in S
  BY <1>1, <1>2, Inductive
<1> QED BY <1>3 DEF S

-----------------------------------------------------------------------------
(* The weighted list. *)

LEMMA BackendFacts ==
  /\ N \in Nat \ {0} /\ Backend = 1 .. N
  /\ \A b \in Backend : b \in Nat /\ Weight[b] \in Nat \ {0}
BY WeightsPositive DEF Backend, N

\* One backend's part of the weighted list.
Part(b) == [i \in 1 .. Weight[b] |-> b]

\* l is the weighted list of the first n backends.
Lists(l, n) ==
  /\ l \in Seq(1 .. n) /\ Len(l) >= n
  /\ \A b \in 1 .. n : Cardinality({i \in 1 .. Len(l) : l[i] = b}) = Weight[b]

LEMMA ListsNext ==
  ASSUME NEW n \in Backend, NEW l, Lists(l, n - 1)
  PROVE  Lists(l \o Part(n), n)
<1> DEFINE p == Part(n)
           k == l \o p
<1>1. n \in Nat /\ n >= 1 /\ Weight[n] \in Nat \ {0}
  BY BackendFacts
<1>2. l \in Seq(1 .. n) /\ \A i \in 1 .. Len(l) : l[i] \in 1 .. n - 1
  BY <1>1 DEF Lists
<1>3. p \in Seq(1 .. n) /\ Len(p) = Weight[n] /\ \A i \in 1 .. Weight[n] : p[i] = n
  BY <1>1 DEF Part
<1> HIDE DEF p
<1>4. k \in Seq(1 .. n) /\ Len(k) = Len(l) + Weight[n]
  BY <1>2, <1>3
<1>5. \A i \in 1 .. Len(k) : k[i] = IF i <= Len(l) THEN l[i] ELSE n
  BY <1>1, <1>2, <1>3
<1>6. Len(l) \in Nat /\ Len(l) >= n - 1
  BY <1>2 DEF Lists
<1> HIDE DEF k
<1>7. Len(k) >= n
  BY <1>1, <1>4, <1>6
<1>8. ASSUME NEW b \in 1 .. n
      PROVE  Cardinality({i \in 1 .. Len(k) : k[i] = b}) = Weight[b]
  <2>1. CASE b = n
    <3>1. {i \in 1 .. Len(k) : k[i] = b} = Len(l) + 1 .. Len(l) + Weight[n]
      BY <1>1, <1>2, <1>4, <1>5, <1>6, <2>1
    <3>2. Cardinality(Len(l) + 1 .. Len(l) + Weight[n]) = Weight[n]
      <4> DEFINE x == Len(l) + 1
                 y == Len(l) + Weight[n]
      <4>1. x \in Int /\ y \in Int /\ ~(x > y) /\ y - x + 1 = Weight[n]
        BY <1>1, <1>6
      <4> HIDE DEF x, y
      <4>2. Cardinality(x .. y) = y - x + 1
        BY <4>1, FS_Interval
      <4> QED BY <4>1, <4>2 DEF x, y
    <3> QED BY <2>1, <3>1, <3>2
  <2>2. CASE b # n
    <3>1. b \in 1 .. n - 1
      BY <1>1, <2>2
    <3>2. {i \in 1 .. Len(k) : k[i] = b} = {i \in 1 .. Len(l) : l[i] = b}
      <4>1. \A i \in 1 .. Len(l) : i \in 1 .. Len(k) /\ k[i] = l[i]
        BY <1>1, <1>4, <1>5, <1>6
      <4>2. \A i \in 1 .. Len(k) : i \in 1 .. Len(l) \/ k[i] = n
        BY <1>1, <1>4, <1>5, <1>6
      <4> QED BY <2>2, <4>1, <4>2, Zenon
    <3> QED BY <3>1, <3>2 DEF Lists
  <2> QED BY <2>1, <2>2
<1> QED BY <1>4, <1>7, <1>8 DEF Lists, k, p

\* FlattenSeq is as it was written to be.
LEMMA WeightedSteps ==
  \E f : /\ Weighted = f[N] /\ f[1] = Part(1)
         /\ \A n \in 2 .. N : f[n] = f[n - 1] \o Part(n)
<1> DEFINE parts == [b \in Backend |-> Part(b)]
           f == CHOOSE f : f = [i \in 1 .. N |-> IF i = 1 THEN parts[i]
                                                 ELSE f[i - 1] \o parts[i]]
           e == [i \in 1 .. N |-> IF i = 1 THEN parts[i] ELSE f[i - 1] \o parts[i]]
<1>1. N \in Nat \ {0} /\ Backend = 1 .. N
  BY BackendFacts
<1>2. Len(parts) = N
  BY <1>1
<1>3. FlattenSeq(parts) = f[N]
  BY <1>1, <1>2, Zenon DEF FlattenSeq
<1>4. Weighted = f[N]
  BY <1>3 DEF Weighted, Part
<1>5. f = e
  BY <1>1, FlattenExists
<1>6. \A i \in 1 .. N : e[i] = IF i = 1 THEN Part(i) ELSE f[i - 1] \o Part(i)
  <2>1. \A i \in 1 .. N : parts[i] = Part(i)
    BY <1>1
  <2> HIDE DEF f, parts
  <2> QED BY <2>1, Zenon
<1> HIDE DEF f, e
<1>7. 1 \in 1 .. N /\ \A n \in 2 .. N : n \in 1 .. N /\ n # 1
  BY <1>1
<1> QED BY <1>4, <1>5, <1>6, <1>7, Zenon

\* WeightedSelector::new puts each backend into the list exactly as often as
\* its weight says, however many there are.
THEOREM WeightedLists == Lists(Weighted, N)
<1>1. PICK f : /\ Weighted = f[N] /\ f[1] = Part(1)
               /\ \A n \in 2 .. N : f[n] = f[n - 1] \o Part(n)
  BY WeightedSteps
<1> DEFINE S == {n \in Nat : n \in 1 .. N => Lists(f[n], n)}
<1>2. 0 \in S
  OBVIOUS
<1>3. ASSUME NEW n \in Nat, n \in S PROVE n + 1 \in S
  <2> SUFFICES ASSUME n + 1 \in 1 .. N PROVE Lists(f[n + 1], n + 1)
    OBVIOUS
  <2>1. N \in Nat /\ Backend = 1 .. N /\ (n + 1) - 1 = n
    BY BackendFacts
  <2>2. CASE n = 0
    <3>1. Lists(<< >>, 0)
      BY DEF Lists
    <3>2. Lists(<< >> \o Part(1), 1)
      <4>1. 1 \in Backend /\ 1 - 1 = 0
        BY <2>1, <2>2
      <4> QED BY <3>1, <4>1, ListsNext
    <3>3. Part(1) \in Seq(Nat)
      BY <2>1, <2>2, BackendFacts DEF Part
    <3>4. << >> \o Part(1) = Part(1)
      BY <3>3
    <3> QED BY <1>1, <2>2, <3>2, <3>4
  <2>3. CASE n # 0
    <3>1. n + 1 \in 2 .. N /\ n \in 1 .. N
      BY <2>1, <2>3
    <3>2. f[n + 1] = f[n] \o Part(n + 1)
      BY <1>1, <2>1, <3>1
    <3>3. Lists(f[n], n)
      BY <1>3, <3>1
    <3>4. n + 1 \in Backend
      BY <2>1
    <3>5. Lists(f[n] \o Part(n + 1), n + 1)
      BY <2>1, <3>3, <3>4, ListsNext
    <3> QED BY <3>2, <3>5
  <2> QED BY <2>2, <2>3
<1>4. Nat \subseteq S
  <2> HIDE DEF S
  <2> QED BY <1>2, <1>3, Inductive
<1>5. N \in Nat /\ N \in 1 .. N
  BY BackendFacts
<1> QED BY <1>1, <1>4, <1>5

LEMMA WeightedFacts ==
  /\ Weighted \in Seq(Backend) /\ Len(Weighted) \in Nat \ {0}
  /\ \A b \in Backend : Cardinality(Places(b, Len(Weighted))) = Weight[b]
BY WeightedLists, BackendFacts DEF Lists, Places

-----------------------------------------------------------------------------
(* The tickets. *)

\* The number after a, round a list of m.
After(a, m) == IF a + 1 < m THEN a + 1 ELSE 0

\* Counting modulo a multiple of m counts modulo m.
LEMMA ModAfter ==
  ASSUME NEW m \in Nat \ {0}, NEW k \in Nat \ {0}, NEW t \in 0 .. m * k - 1
  PROVE  After(t, m * k) % m = After(t % m, m)
<1> DEFINE q == t \div m
           r == t % m
<1>1. t \in Nat /\ m * k \in Nat /\ t + 1 <= m * k
  OBVIOUS
<1>2. q \in Nat /\ r \in 0 .. m - 1 /\ t = m * q + r
  BY <1>1
<1>3. \A p \in Nat, x \in 0 .. m - 1 : (m * p + x) % m = x
  OBVIOUS
<1> HIDE DEF q, r
<1>4. CASE t + 1 < m * k /\ r + 1 < m
  <2>1. After(t, m * k) = m * q + (r + 1) /\ r + 1 \in 0 .. m - 1
    BY <1>1, <1>2, <1>4 DEF After
  <2>2. After(t, m * k) % m = r + 1
    BY <1>2, <1>3, <2>1
  <2> QED BY <1>4, <2>2 DEF r, After
<1>5. CASE t + 1 < m * k /\ ~(r + 1 < m)
  <2>1. After(t, m * k) = m * (q + 1) + 0 /\ q + 1 \in Nat /\ 0 \in 0 .. m - 1
    BY <1>1, <1>2, <1>5 DEF After
  <2>2. After(t, m * k) % m = 0
    BY <1>3, <2>1
  <2> QED BY <1>5, <2>2 DEF r, After
<1>6. CASE ~(t + 1 < m * k)
  <2>1. t = m * (k - 1) + (m - 1) /\ k - 1 \in Nat /\ m - 1 \in 0 .. m - 1
    BY <1>1, <1>6
  <2>2. r = m - 1
    BY <1>3, <2>1 DEF r
  <2>3. After(t, m * k) = 0
    BY <1>6 DEF After
  <2>4. m * 0 + 0 = 0 /\ 0 \in Nat /\ 0 \in 0 .. m - 1
    OBVIOUS
  <2>5. 0 % m = 0
    BY <1>3, <2>4
  <2>6. After(r, m) = 0
    BY <2>2 DEF After
  <2> QED BY <2>3, <2>5, <2>6 DEF r
<1> QED BY <1>4, <1>5, <1>6

LEMMA DrawFacts ==
  ASSUME NEW t \in 0 .. Tickets - 1
  PROVE  /\ t \in Nat /\ Draw(t) \in 0 .. Tickets - 1
         /\ t % N \in 0 .. N - 1 /\ t % Len(Weighted) \in 0 .. Len(Weighted) - 1
         /\ Draw(t) % N = After(t % N, N)
         /\ Draw(t) % Len(Weighted) = After(t % Len(Weighted), Len(Weighted))
         /\ Fallback(t) \in Backend /\ FirstChoice(t) \in Backend
<1> DEFINE L == Len(Weighted)
           n == N
<1>1. L \in Nat \ {0} /\ n \in Nat \ {0}
  BY WeightedFacts, BackendFacts
<1>2. Tickets = L * n /\ Tickets = n * L
  BY <1>1 DEF Tickets
<1>3. t \in Nat /\ L * n \in Nat /\ t + 1 <= L * n
  BY <1>1, <1>2
<1>4. t % n \in 0 .. n - 1 /\ t % L \in 0 .. L - 1
  <2> HIDE DEF L, n
  <2> QED BY <1>1, <1>3
<1>5. Draw(t) = After(t, L * n) /\ Draw(t) \in 0 .. Tickets - 1
  <2>1. (t + 1) % Tickets = After(t, L * n)
    <3> HIDE DEF L, n
    <3> DEFINE K == L * n
    <3>1. K \in Nat \ {0} /\ t + 1 <= K
      BY <1>1, <1>3
    <3>2. K % K = 0 /\ (t + 1 < K => (t + 1) % K = t + 1)
      <4> HIDE DEF K
      <4>1. \A p \in Nat, x \in 0 .. K - 1 : (K * p + x) % K = x
        BY <3>1
      <4>2. K = K * 1 + 0 /\ 0 \in 0 .. K - 1 /\ t + 1 = K * 0 + (t + 1)
        BY <3>1, <1>3
      <4>3. K % K = 0
        BY <4>1, <4>2
      <4>4. t + 1 < K => (t + 1) % K = t + 1
        <5> SUFFICES ASSUME t + 1 < K PROVE (t + 1) % K = t + 1
          OBVIOUS
        <5>1. t + 1 \in 0 .. K - 1
          BY <3>1, <1>3
        <5> QED BY <4>1, <4>2, <5>1
      <4> QED BY <4>3, <4>4
    <3>3. CASE t + 1 < K
      BY <1>2, <3>2, <3>3 DEF After
    <3>4. CASE t + 1 = K
      BY <1>2, <3>2, <3>4 DEF After
    <3> QED BY <1>3, <3>1, <3>3, <3>4
  <2>2. After(t, L * n) \in 0 .. L * n - 1
    BY <1>1, <1>3 DEF After
  <2> QED BY <1>2, <2>1, <2>2 DEF Draw
<1>6. t \in 0 .. L * n - 1 /\ t \in 0 .. n * L - 1 /\ L * n = n * L
  BY <1>1, <1>2, <1>3
<1>7. Draw(t) % L = After(t % L, L) /\ Draw(t) % n = After(t % n, n)
  <2> HIDE DEF L, n
  <2>1. After(t, L * n) % L = After(t % L, L)
    BY <1>1, <1>6, ModAfter
  <2>2. After(t, n * L) % n = After(t % n, n)
    BY <1>1, <1>6, ModAfter
  <2> QED BY <1>5, <1>6, <2>1, <2>2
<1>8. Fallback(t) \in Backend
  BY <1>1, <1>4, BackendFacts DEF Fallback
<1>9. FirstChoice(t) \in Backend
  <2>1. (t % L) + 1 \in 1 .. L
    BY <1>1, <1>4
  <2> HIDE DEF L
  <2>2. Weighted \in Seq(Backend) /\ L = Len(Weighted)
    BY WeightedFacts DEF L
  <2> QED BY <2>1, <2>2 DEF FirstChoice, L
<1> QED BY <1>3, <1>4, <1>5, <1>7, <1>8, <1>9

-----------------------------------------------------------------------------
(* What the steps of a search do to it. *)

\* Of the three kinds of iterators only the sorted one ends, after its list.
LEMMA YieldsFacts ==
  ASSUME SearchTyped, NEW it \in Iterator
  PROVE  /\ Yields(it) \subseteq Backend
         /\ kind \in {"RoundRobin", "Hashed"} => Yields(it) # {}
         /\ kind = "RoundRobin" /\ ~it.first => Yields(it) = {Fallback(counter)}
         /\ kind = "Sorted" /\ Yields(it) = {} => ~(it.index + 1 \in 1 .. N)
         /\ kind = "Sorted" => \A b \in Yields(it) : /\ it.index + 1 \in 1 .. N
                                                     /\ b = order[it.index + 1]
<1>1. kind \in Kinds
  BY DEF SearchTyped
<1>2. CASE kind = "Sorted"
  <2>1. Yields(it) = {order[i] : i \in {it.index + 1} \cap (1 .. N)}
    BY <1>2 DEF Yields, SortedYields
  <2>2. order \in [1 .. N -> Backend]
    BY DEF SearchTyped, SortedOrders
  <2> QED BY <1>2, <2>1, <2>2
<1>3. CASE kind = "Hashed"
  <2>1. Yields(it) = Backend
    BY <1>3 DEF Yields, HashYields
  <2>2. 1 \in Backend
    BY BackendFacts
  <2> QED BY <1>3, <2>1, <2>2
<1>4. CASE kind = "RoundRobin"
  <2>1. Yields(it) = {IF it.first THEN Weighted[(it.index % Len(Weighted)) + 1]
                      ELSE Fallback(counter)}
    BY <1>4 DEF Yields, TicketYields, FirstChoice
  <2>2. Fallback(counter) \in Backend
    BY DrawFacts DEF SearchTyped
  <2>3. Weighted[(it.index % Len(Weighted)) + 1] \in Backend
    <3> DEFINE L == Len(Weighted)
    <3>1. L \in Nat \ {0} /\ it.index \in Nat /\ Weighted \in Seq(Backend)
      BY WeightedFacts DEF Iterator
    <3>2. (it.index % L) + 1 \in 1 .. L
      <4> DEFINE x == it.index
      <4>1. x \in Nat
        BY <3>1
      <4> HIDE DEF L, x
      <4> QED BY <3>1, <4>1 DEF x
    <3> QED BY <3>1, <3>2
  <2> QED BY <1>4, <2>1, <2>2, <2>3
<1> QED BY <1>1, <1>2, <1>3, <1>4 DEF Kinds

LEMMA AdvancedFacts ==
  ASSUME SearchTyped, NEW it \in Iterator
  PROVE  /\ Advanced(it) \in Iterator /\ ~Advanced(it).first
         /\ \A f \in {"phase", "steps", "seen", "exclude"} : Advanced(it)[f] = it[f]
         /\ kind = "Sorted" => Advanced(it).index = it.index + 1
<1> DEFINE i == CASE kind = "Sorted" -> it.index + 1
                  [] FallsBack(it)   -> counter
                  [] OTHER           -> it.index
<1>1. it.index \in Nat /\ counter \in Nat
  BY DrawFacts DEF SearchTyped, Iterator
<1>2. i \in Nat /\ (kind = "Sorted" => i = it.index + 1)
  BY <1>1 DEF FallsBack
<1>3. Advanced(it) = [it EXCEPT !.first = FALSE, !.index = i]
  BY DEF Advanced, FallsBack
<1> HIDE DEF i
<1> QED BY <1>2, <1>3 DEF Iterator

\* The iterator a with another count and other backends seen, ...
Looked(a, k, seen) == [a EXCEPT !.steps = k, !.seen = seen]

LEMMA LookedFacts ==
  ASSUME NEW a \in Iterator, NEW k \in Nat, NEW seen \in SUBSET Backend
  PROVE  LET n == Looked(a, k, seen)
         IN /\ n \in Iterator /\ n.steps = k /\ n.first = a.first
            /\ n.phase = a.phase /\ n.exclude = a.exclude /\ n.seen = seen
            /\ n.index = a.index
BY DEF Iterator, Looked

\* ... and a fresh one.
Fresh(i, ex) == [Idle EXCEPT !.phase = "searching", !.first = TRUE, !.exclude = ex,
                             !.index = i]

LEMMA FreshFacts ==
  ASSUME NEW i \in Nat, NEW ex \in SUBSET Backend
  PROVE  LET n == Fresh(i, ex)
         IN /\ n \in Iterator /\ n.phase = "searching" /\ n.first
            /\ n.steps = 0 /\ n.seen = {} /\ n.exclude = ex /\ n.index = i
<1>1. /\ Idle \in Iterator /\ Idle.steps = 0 /\ Idle.seen = {}
  BY DEF Idle, Iterator
<1> QED BY <1>1 DEF Iterator, Fresh

\* The turn of a search that goes on: it has looked at b, and either had seen
\* it before or refused it.
Passes(s, b) ==
  /\ Searching(s) /\ ~Spent(search[s]) /\ b \in Yields(search[s])
  /\ b \in search[s].seen \/ ~Acceptable(s, b)
  /\ search' = [search EXCEPT ![s] = search'[s]]
  /\ search'[s] \in Iterator
  /\ search'[s].phase = "searching" /\ ~search'[s].first
  /\ search'[s].steps = search[s].steps + 1
  /\ search'[s].exclude = search[s].exclude
  /\ search'[s].seen = search[s].seen \cup {b}
  /\ kind = "Sorted" => search'[s].index = search[s].index + 1
  /\ CallNext(s)

LEMMA SearchPasses ==
  ASSUME SearchTyped, NEW s \in Search, Skip(s) \/ Refuse(s)
  PROVE  \E b \in Backend : Passes(s, b)
<1> DEFINE it == search[s]
           a == Advanced(it)
<1>1. it \in Iterator /\ search \in [Search -> Iterator]
  BY DEF SearchTyped
<1>2. /\ a \in Iterator /\ ~a.first /\ a.steps = it.steps
      /\ a.phase = it.phase /\ a.seen = it.seen /\ a.exclude = it.exclude
      /\ kind = "Sorted" => a.index = it.index + 1
  BY <1>1, AdvancedFacts
<1>3. Yields(it) \subseteq Backend
  BY <1>1, YieldsFacts
<1>4. CASE Skip(s)
  <2>1. PICK b \in Yields(it) \cap it.seen : search' = [search EXCEPT ![s] = Counted(a, b)]
    BY <1>4 DEF Skip
  <2>2. Searching(s) /\ ~Spent(it) /\ CallNext(s)
    BY <1>4 DEF Skip
  <2> DEFINE n == [a EXCEPT !.steps = @ + 1]
  <2>3. search' = [search EXCEPT ![s] = n] /\ search'[s] = n
    BY <1>1, <2>1 DEF Counted
  <2> HIDE DEF a
  <2>4. /\ n \in Iterator /\ n.steps = a.steps + 1 /\ n.first = a.first
        /\ n.phase = a.phase /\ n.exclude = a.exclude /\ n.seen = a.seen
        /\ n.index = a.index
    BY <1>2 DEF Iterator
  <2>5. it.seen = it.seen \cup {b} /\ it.phase = "searching"
    BY <2>1, <2>2 DEF Searching
  <2> HIDE DEF n
  <2>6. Passes(s, b)
    BY <1>2, <2>1, <2>2, <2>3, <2>4, <2>5 DEF Passes
  <2> QED BY <1>3, <2>1, <2>6
<1>5. CASE Refuse(s)
  <2>1. PICK b \in Yields(it) \ it.seen :
          /\ ~Acceptable(s, b)
          /\ search' = [search EXCEPT ![s] = [Counted(a, b) EXCEPT !.seen = @ \cup {b}]]
    BY <1>5 DEF Refuse
  <2>2. Searching(s) /\ ~Spent(it) /\ CallNext(s)
    BY <1>5 DEF Refuse
  <2> DEFINE k == a.steps + 1
             seen == a.seen \cup {b}
             n == Looked(a, k, seen)
  <2>3. search' = [search EXCEPT ![s] = n] /\ search'[s] = n
    <3> HIDE DEF a
    <3>1. [Counted(a, b) EXCEPT !.seen = @ \cup {b}] = n
      BY <1>2 DEF Counted, Iterator, Looked
    <3> QED BY <1>1, <2>1, <3>1 DEF a
  <2> HIDE DEF a
  <2>4. k \in Nat /\ seen \in SUBSET Backend
    BY <1>2, <1>3, <2>1 DEF Iterator
  <2> HIDE DEF k, seen
  <2>5. /\ n \in Iterator /\ n.steps = k /\ n.first = a.first
        /\ n.phase = a.phase /\ n.exclude = a.exclude /\ n.seen = seen
        /\ n.index = a.index
    BY <1>2, <2>4, LookedFacts
  <2>6. it.phase = "searching"
    BY <2>2 DEF Searching
  <2> HIDE DEF n
  <2>7. Passes(s, b)
    BY <1>2, <2>1, <2>2, <2>3, <2>5, <2>6 DEF Passes, k, seen
  <2> QED BY <1>3, <2>1, <2>7
<1> QED BY <1>4, <1>5

\* The other turns end the search.
LEMMA SearchGivesUp ==
  ASSUME SearchTyped, NEW s \in Search, Exhausted(s) \/ GiveUp(s)
  PROVE  /\ search' = [search EXCEPT ![s] = search'[s]]
         /\ search'[s] \in Iterator /\ search'[s].phase = "none"
<1>1. search[s] \in Iterator /\ search \in [Search -> Iterator]
  BY DEF SearchTyped
<1>2. CASE Exhausted(s)
  BY <1>1, <1>2 DEF Exhausted, Iterator
<1>3. CASE GiveUp(s)
  <2> DEFINE a == Advanced(search[s])
  <2>1. search' = [search EXCEPT ![s] = [a EXCEPT !.phase = "none"]]
    BY <1>3 DEF GiveUp
  <2>2. a \in Iterator
    BY <1>1, AdvancedFacts
  <2> HIDE DEF a
  <2> QED BY <1>1, <2>1, <2>2 DEF Iterator
<1> QED BY <1>2, <1>3

LEMMA SearchReturns ==
  ASSUME SearchTyped, NEW s \in Search, Select(s) \/ ReturnNone(s)
  PROVE  search' = [search EXCEPT ![s] = Idle] /\ Idle \in Iterator
BY DEF Select, ReturnNone, Idle, Iterator

LEMMA SearchBegins ==
  ASSUME SearchTyped, NEW s \in Search, NEW ex \in Excluded, Begin(s, ex)
  PROVE  /\ search' = [search EXCEPT ![s] = search'[s]]
         /\ search'[s] \in Iterator
         /\ search'[s].phase = "searching" /\ search'[s].first
         /\ search'[s].steps = 0 /\ search'[s].seen = {} /\ search'[s].exclude = ex
         /\ kind = "Sorted" => search'[s].index = 0
<1> DEFINE i == IF kind = "RoundRobin" THEN counter ELSE 0
           n == Fresh(i, ex)
<1>1. i \in Nat /\ (kind = "Sorted" => i = 0)
  BY DrawFacts DEF SearchTyped
<1>2. search' = [search EXCEPT ![s] = n]
  BY DEF Begin, Fresh
<1>3. ex \in SUBSET Backend /\ search \in [Search -> Iterator]
  BY ExcludedSets DEF SearchTyped
<1> HIDE DEF i
<1>4. /\ n \in Iterator /\ n.phase = "searching" /\ n.first /\ n.steps = 0
      /\ n.seen = {} /\ n.exclude = ex /\ n.index = i
  BY <1>1, <1>3, FreshFacts
<1> HIDE DEF n
<1>5. search'[s] = n
  BY <1>2, <1>3
<1> QED BY <1>1, <1>2, <1>4, <1>5

-----------------------------------------------------------------------------
(* The invariant. *)

LEMMA SelectionInit == Init => SelectionInv
<1> SUFFICES ASSUME Init PROVE SelectionInv
  OBVIOUS
<1>1. Idle \in Iterator /\ Idle.phase = "idle"
  BY DEF Idle, Iterator
<1>2. 0 \in 0 .. Tickets - 1 /\ 0 % Len(Weighted) = 0
  <2>1. Len(Weighted) \in Nat \ {0} /\ N \in Nat \ {0}
    BY WeightedFacts, BackendFacts
  <2> DEFINE L == Len(Weighted)
             n == N
  <2> HIDE DEF L, n
  <2>2. \A x \in Nat \ {0}, y \in Nat \ {0} : x * y \in Nat \ {0}
    OBVIOUS
  <2>3. L * n \in Nat \ {0}
    BY <2>1, <2>2 DEF L, n
  <2>4. 0 \in 0 .. Tickets - 1
    BY <2>3 DEF Tickets, L, n
  <2>5. 0 % Len(Weighted) = 0
    BY <2>4, DrawFacts, <2>1
  <2> QED BY <2>4, <2>5
<1>3. SearchTyped
  BY <1>1, <1>2 DEF SearchTyped, Init, Kinds, NoTurns
<1>4. \A s \in Search : search[s].phase = "idle"
  BY <1>1 DEF Init
<1>5. SteadyInv /\ SortedInv /\ TicketInv /\ ReadyBackendFound
  BY <1>4 DEF SteadyInv, SortedInv, TicketInv, ReadyBackendFound, Searching
<1>6. TurnsInv
  BY <1>2 DEF TurnsInv, Init
<1> QED BY <1>3, <1>5, <1>6 DEF SelectionInv

LEMMA TypedNext == SearchTyped /\ [Next]_vars => SearchTyped'
<1> SUFFICES ASSUME SearchTyped, [Next]_vars PROVE SearchTyped'
  OBVIOUS
<1>1. ASSUME NEW s \in Search, DrawTicket(s)
      PROVE  counter' \in 0 .. Tickets - 1 /\ disturbed' \in [Search -> BOOLEAN]
  BY <1>1, DrawFacts DEF DrawTicket, SearchTyped, Searching
<1>2. ASSUME NEW s \in Search, CallNext(s),
             search' = [search EXCEPT ![s] = search'[s]], search'[s] \in Iterator
      PROVE  SearchTyped'
  <2>1. counter' \in 0 .. Tickets - 1 /\ disturbed' \in [Search -> BOOLEAN]
    BY <1>1, <1>2 DEF CallNext, SearchTyped
  <2>2. turns' \in [even : BOOLEAN, count : [Backend -> Nat]]
    <3>1. [NoTurns EXCEPT !.even = FALSE] \in [even : BOOLEAN, count : [Backend -> Nat]]
      BY DEF NoTurns
    <3>2. turns' = [NoTurns EXCEPT !.even = FALSE] \/ turns' = turns
      BY <1>2 DEF CallNext
    <3> QED BY <3>1, <3>2 DEF SearchTyped
  <2>3. search' \in [Search -> Iterator]
    BY <1>2 DEF SearchTyped
  <2> QED BY <1>2, <2>1, <2>2, <2>3 DEF CallNext, SearchTyped
<1>3. ASSUME NEW s \in Search, Exhausted(s) \/ ReturnNone(s)
      PROVE  SearchTyped'
  <2>1. search' \in [Search -> Iterator]
    BY <1>3, SearchGivesUp, SearchReturns DEF SearchTyped
  <2> QED BY <1>3, <2>1 DEF Exhausted, ReturnNone, SearchTyped
<1>4. ASSUME NEW s \in Search, NEW ex \in Excluded, Begin(s, ex)
      PROVE  SearchTyped'
  <2>1. search' \in [Search -> Iterator]
    BY <1>4, SearchBegins DEF SearchTyped
  <2>2. steady' \in [Search -> SUBSET Backend]
    BY <1>4 DEF Begin, SearchTyped
  <2>3. counter' \in 0 .. Tickets - 1 /\ disturbed' \in [Search -> BOOLEAN]
    BY <1>1, <1>4 DEF Begin, SearchTyped
  <2>4. turns' \in [even : BOOLEAN, count : [Backend -> Nat]]
    <3>1. ASSUME NEW b \in Backend, CountTurn(b)
          PROVE  turns' \in [even : BOOLEAN, count : [Backend -> Nat]]
      <4> DEFINE before == IF counter % Len(Weighted) = 0 THEN NoTurns.count
                           ELSE turns.count
      <4>1. before \in [Backend -> Nat]
        BY DEF SearchTyped, NoTurns
      <4>2. turns' = IF turns.even
                     THEN [turns EXCEPT !.count = [before EXCEPT ![b] = @ + 1]]
                     ELSE turns
        BY <3>1 DEF CountTurn
      <4> HIDE DEF before
      <4> QED BY <4>1, <4>2 DEF SearchTyped
    <3>2. FirstChoice(counter) \in Backend
      BY DrawFacts DEF SearchTyped
    <3> QED BY <1>4, <3>1, <3>2 DEF Begin, SearchTyped
  <2> QED BY <1>4, <2>1, <2>2, <2>3, <2>4 DEF Begin, SearchTyped
<1>5. ASSUME NEW b \in Backend, TurnReady(b)
      PROVE  SearchTyped'
  BY <1>5 DEF TurnReady, SearchTyped
<1>6. ASSUME NEW s \in Search, Turn(s)
      PROVE  SearchTyped'
  <2>1. CASE Exhausted(s)
    BY <1>3, <2>1
  <2>2. CASE GiveUp(s)
    BY <1>2, <2>2, SearchGivesUp DEF GiveUp
  <2>3. CASE Skip(s) \/ Refuse(s)
    BY <1>2, <2>3, SearchPasses DEF Passes
  <2>4. CASE Select(s)
    <3>1. search' = [search EXCEPT ![s] = Idle] /\ Idle \in Iterator /\ CallNext(s)
      BY <2>4, SearchReturns DEF Select
    <3>2. search'[s] = Idle
      BY <3>1 DEF SearchTyped
    <3> QED BY <1>2, <3>1, <3>2
  <2> QED BY <1>6, <2>1, <2>2, <2>3, <2>4 DEF Turn
<1>7. CASE UNCHANGED vars
  BY <1>7 DEF vars, SearchTyped
<1> QED BY <1>3, <1>4, <1>5, <1>6, <1>7 DEF Next

\* For the rest of the invariant the steps are of these sorts: a search begins,
\* goes on, finds nothing, or is over; a backend turns.
StepOf(s) ==
  \/ \E ex \in Excluded : Begin(s, ex)
  \/ \E b \in Backend : Passes(s, b)
  \/ Exhausted(s)
  \/ GiveUp(s)
  \/ Select(s) \/ ReturnNone(s)

LEMMA StepSorts ==
  ASSUME SearchTyped, Next
  PROVE  (\E s \in Search : StepOf(s)) \/ (\E b \in Backend : TurnReady(b))
BY SearchPasses DEF Next, Turn, StepOf

\* The other searches stay as they are.
LEMMA Others ==
  ASSUME SearchTyped, NEW s \in Search, StepOf(s), NEW r \in Search, r # s
  PROVE  search'[r] = search[r] /\ steady'[r] = steady[r]
<1>1. search' = [search EXCEPT ![s] = search'[s]]
  <2>1. CASE Select(s) \/ ReturnNone(s)
    BY <2>1, SearchReturns DEF SearchTyped
  <2> QED BY <2>1, SearchBegins, SearchGivesUp DEF StepOf, Passes
<1>2. steady'[r] = steady[r]
  BY DEF StepOf, Begin, Passes, Exhausted, GiveUp, Select, ReturnNone, CallNext, SearchTyped
<1> QED BY <1>1, <1>2 DEF SearchTyped

\* And so does the selector.
LEMMA SameSelector ==
  ASSUME [Next]_vars
  PROVE  kind' = kind /\ order' = order
BY DEF Next, vars, Turn, Begin, Exhausted, GiveUp, Skip, Refuse, Select, ReturnNone,
       CallNext, TurnReady

LEMMA SteadyNext ==
  ASSUME SearchTyped, SteadyInv, Next
  PROVE  SteadyInv'
<1>1. ASSUME NEW s \in Search, StepOf(s) PROVE SteadyInv'
  <2> SUFFICES ASSUME NEW r \in Search, Searching(r)'
               PROVE  /\ steady'[r] \subseteq ready'
                      /\ steady'[r] \cap (search'[r].exclude \cup search'[r].seen) = {}
    BY DEF SteadyInv
  <2>1. ready' = ready
    BY <1>1 DEF StepOf, Begin, Passes, Exhausted, GiveUp, Select, ReturnNone, CallNext
  <2>2. CASE r # s
    BY <1>1, <2>1, <2>2, Others DEF SteadyInv, Searching
  <2>3. CASE r = s /\ \E ex \in Excluded : Begin(s, ex)
    <3>1. PICK ex \in Excluded : Begin(s, ex)
      BY <2>3
    <3>2. steady'[s] = ready \ ex
      BY <3>1 DEF Begin, SearchTyped
    <3>3. search'[s].exclude = ex /\ search'[s].seen = {}
      BY <3>1, SearchBegins
    <3> QED BY <2>1, <2>3, <3>2, <3>3
  <2>4. CASE r = s /\ \E b \in Backend : Passes(s, b)
    <3>1. PICK b \in Backend : Passes(s, b)
      BY <2>4
    <3>2. steady' = steady /\ Searching(s)
      BY <3>1 DEF Passes, CallNext
    <3>3. /\ search'[s].exclude = search[s].exclude
          /\ search'[s].seen = search[s].seen \cup {b}
          /\ b \in search[s].seen \/ ~Acceptable(s, b)
      BY <3>1 DEF Passes
    <3>4. b \notin steady[s]
      BY <3>2, <3>3 DEF Acceptable, SteadyInv
    <3> QED BY <2>1, <2>4, <3>2, <3>3, <3>4 DEF SteadyInv
  <2>5. CASE r = s /\ (Exhausted(s) \/ GiveUp(s))
    BY <2>5, SearchGivesUp DEF Searching
  <2>6. CASE r = s /\ (Select(s) \/ ReturnNone(s))
    <3>1. search'[s] = Idle
      BY <2>6, SearchReturns DEF SearchTyped
    <3> QED BY <2>6, <3>1 DEF Searching, Idle
  <2> QED BY <1>1, <2>2, <2>3, <2>4, <2>5, <2>6 DEF StepOf
<1>2. ASSUME NEW b \in Backend, TurnReady(b) PROVE SteadyInv'
  BY <1>2 DEF TurnReady, SteadyInv, Searching
<1> QED BY <1>1, <1>2, StepSorts

LEMMA SortedNext ==
  ASSUME SearchTyped, SortedInv, Next
  PROVE  SortedInv'
<1>1. kind' = kind /\ order' = order
  BY SameSelector
<1>2. ASSUME NEW s \in Search, StepOf(s) PROVE SortedInv'
  <2> SUFFICES ASSUME kind = "Sorted", NEW r \in Search, Searching(r)'
               PROVE  /\ search'[r].index = search'[r].steps /\ search'[r].steps <= N
                      /\ \A i \in 1 .. search'[r].steps : order[i] \in search'[r].seen
    BY <1>1 DEF SortedInv
  <2>1. CASE r # s
    BY <1>2, <2>1, Others DEF SortedInv, Searching
  <2>2. CASE r = s /\ \E ex \in Excluded : Begin(s, ex)
    BY <2>2, SearchBegins, BackendFacts
  <2>3. CASE r = s /\ \E b \in Backend : Passes(s, b)
    <3>1. PICK b \in Backend : Passes(s, b)
      BY <2>3
    <3> DEFINE it == search[s]
    <3>2. it \in Iterator /\ it.steps \in Nat /\ Searching(s) /\ b \in Yields(it)
      BY <3>1 DEF Passes, SearchTyped, Iterator
    <3>3. it.index + 1 \in 1 .. N /\ b = order[it.index + 1]
      BY <3>2, YieldsFacts
    <3>4. it.index = it.steps /\ \A i \in 1 .. it.steps : order[i] \in it.seen
      BY <3>2 DEF SortedInv
    <3>5. /\ search'[s].index = it.index + 1 /\ search'[s].steps = it.steps + 1
          /\ search'[s].seen = it.seen \cup {b}
      BY <3>1 DEF Passes
    <3>6. ASSUME NEW i \in 1 .. it.steps + 1 PROVE order[i] \in it.seen \cup {b}
      BY <3>2, <3>3, <3>4
    <3> HIDE DEF it
    <3> QED BY <2>3, <3>2, <3>3, <3>4, <3>5, <3>6
  <2>4. CASE r = s /\ (Exhausted(s) \/ GiveUp(s))
    BY <2>4, SearchGivesUp DEF Searching
  <2>5. CASE r = s /\ (Select(s) \/ ReturnNone(s))
    <3>1. search'[s] = Idle
      BY <2>5, SearchReturns DEF SearchTyped
    <3> QED BY <2>5, <3>1 DEF Searching, Idle
  <2> QED BY <1>2, <2>1, <2>2, <2>3, <2>4, <2>5 DEF StepOf
<1>3. ASSUME NEW b \in Backend, TurnReady(b) PROVE SortedInv'
  BY <1>1, <1>3 DEF TurnReady, SortedInv, Searching
<1> QED BY <1>2, <1>3, StepSorts

\* A draw goes to the next backend, and puts the others one further back.
LEMMA BehindNext ==
  ASSUME NEW t \in 0 .. Tickets - 1, NEW b \in Backend
  PROVE  /\ Behind(t, b) \in 0 .. N - 1
         /\ b # Fallback(t) => Behind(Draw(t), b) = Behind(t, b) + 1
<1> DEFINE r == t % N
<1>1. N \in Nat \ {0} /\ b \in 1 .. N /\ r \in 0 .. N - 1
  BY BackendFacts, DrawFacts
<1>2. Draw(t) % N = After(r, N)
  BY DrawFacts
<1>3. Behind(t, b) = IF b <= r THEN r - b ELSE r + N - b
  BY DEF Behind
<1>4. Behind(Draw(t), b) = IF b <= After(r, N) THEN After(r, N) - b ELSE After(r, N) + N - b
  BY <1>2 DEF Behind
<1>5. Fallback(t) = r + 1
  BY DEF Fallback
<1> HIDE DEF r
<1>6. Behind(t, b) \in 0 .. N - 1
  BY <1>1, <1>3
<1>7. ASSUME b # r + 1 PROVE Behind(Draw(t), b) = Behind(t, b) + 1
  <2>1. CASE r + 1 < N
    BY <1>1, <1>3, <1>4, <1>7, <2>1 DEF After
  <2>2. CASE r + 1 = N
    BY <1>1, <1>3, <1>4, <1>7, <2>2 DEF After
  <2> QED BY <1>1, <2>1, <2>2
<1> QED BY <1>5, <1>6, <1>7

\* Who draws disturbs the others, and is as undisturbed as before.
LEMMA DrawDisturbs ==
  ASSUME SearchTyped, NEW s \in Search, StepOf(s), NEW r \in Search,
         Searching(r)', ~disturbed'[r]
  PROVE  \/ r # s /\ Searching(r) /\ counter' = counter /\ ~disturbed[r]
         \/ r = s
<1> SUFFICES ASSUME r # s
             PROVE  Searching(r) /\ counter' = counter /\ ~disturbed[r]
  OBVIOUS
<1>1. Searching(r)
  BY Others DEF Searching
<1>2. ~DrawTicket(s)
  BY <1>1 DEF DrawTicket, SearchTyped
<1>3. counter' = counter /\ disturbed' = disturbed
  BY <1>2 DEF StepOf, Begin, Passes, Exhausted, GiveUp, Select, ReturnNone, CallNext
<1> QED BY <1>1, <1>3

LEMMA TicketNext ==
  ASSUME SearchTyped, TicketInv, Next
  PROVE  TicketInv'
<1>1. kind' = kind /\ N \in Nat \ {0}
  BY SameSelector, BackendFacts
<1>2. ASSUME NEW s \in Search, StepOf(s) PROVE TicketInv'
  <2> SUFFICES ASSUME kind = "RoundRobin", NEW r \in Search, Searching(r)', ~disturbed'[r]
               PROVE  /\ search'[r].first <=> search'[r].steps = 0
                      /\ \A b \in Backend : Behind(counter', b) + 1 < search'[r].steps
                                              => b \in search'[r].seen
    BY <1>1 DEF TicketInv
  <2>1. CASE r # s
    <3>1. Searching(r) /\ counter' = counter /\ ~disturbed[r] /\ search'[r] = search[r]
      BY <1>2, <2>1, Others, DrawDisturbs
    <3> QED BY <3>1 DEF TicketInv
  <2>2. CASE r = s /\ \E ex \in Excluded : Begin(s, ex)
    <3>1. PICK ex \in Excluded : Begin(s, ex)
      BY <2>2
    <3>2. search'[s].first /\ search'[s].steps = 0
      BY <3>1, SearchBegins
    <3>3. counter' \in 0 .. Tickets - 1
      BY TypedNext DEF SearchTyped
    <3>4. \A b \in Backend : ~(Behind(counter', b) + 1 < 0)
      BY <1>1, <3>3, BehindNext
    <3> QED BY <2>2, <3>2, <3>4
  <2>3. CASE r = s /\ \E b \in Backend : Passes(s, b)
    <3>1. PICK b \in Backend : Passes(s, b)
      BY <2>3
    <3> DEFINE it == search[s]
    <3>2. it \in Iterator /\ it.steps \in Nat /\ Searching(s) /\ b \in Yields(it)
      BY <3>1 DEF Passes, SearchTyped, Iterator
    <3>3. /\ ~search'[s].first /\ search'[s].steps = it.steps + 1
          /\ search'[s].seen = it.seen \cup {b}
      BY <3>1 DEF Passes
    <3>4. ~disturbed[s] /\ (it.first \/ counter' = Draw(counter))
      BY <2>3, <3>1, <3>2 DEF Passes, CallNext, FallsBack, DrawTicket, SearchTyped
    <3>5. it.first <=> it.steps = 0
      BY <3>2, <3>4 DEF TicketInv
    <3>6. \A x \in Backend : Behind(counter, x) + 1 < it.steps => x \in it.seen
      BY <3>2, <3>4 DEF TicketInv
    <3>7. ASSUME NEW x \in Backend, Behind(counter', x) + 1 < it.steps + 1
          PROVE  x \in it.seen \cup {b}
      <4>1. CASE it.first
        <5>1. counter' = counter
          BY <3>1, <4>1 DEF Passes, CallNext, FallsBack
        <5>2. Behind(counter, x) \in Nat
          BY <1>1, BehindNext DEF SearchTyped
        <5> QED BY <3>5, <3>7, <4>1, <5>1, <5>2
      <4>2. CASE ~it.first
        <5>1. b = Fallback(counter) /\ counter' = Draw(counter)
          BY <3>2, <3>4, <4>2, YieldsFacts
        <5>2. CASE x = b
          BY <5>2
        <5>3. CASE x # b
          <6>1. /\ Behind(counter', x) = Behind(counter, x) + 1
                /\ Behind(counter, x) \in 0 .. N - 1
            BY <5>1, <5>3, BehindNext DEF SearchTyped
          <6> HIDE DEF it
          <6>2. Behind(counter, x) + 1 < it.steps
            BY <1>1, <3>2, <3>7, <6>1
          <6> QED BY <3>6, <6>2
        <5> QED BY <5>2, <5>3
      <4> QED BY <4>1, <4>2
    <3>8. it.steps + 1 # 0
      BY <3>2
    <3> QED BY <2>3, <3>3, <3>7, <3>8
  <2>4. CASE r = s /\ (Exhausted(s) \/ GiveUp(s))
    BY <2>4, SearchGivesUp DEF Searching
  <2>5. CASE r = s /\ (Select(s) \/ ReturnNone(s))
    <3>1. search'[s] = Idle
      BY <2>5, SearchReturns DEF SearchTyped
    <3> QED BY <2>5, <3>1 DEF Searching, Idle
  <2> QED BY <1>2, <2>1, <2>2, <2>3, <2>4, <2>5 DEF StepOf
<1>3. ASSUME NEW b \in Backend, TurnReady(b) PROVE TicketInv'
  BY <1>1, <1>3 DEF TurnReady, TicketInv, Searching
<1> QED BY <1>2, <1>3, StepSorts

\* A list of all the backends, each once, leaves none out.
LEMMA OrderComplete ==
  ASSUME NEW o \in SortedOrders, NEW b \in Backend
  PROVE  \E i \in 1 .. N : o[i] = b
<1>1. N \in Nat \ {0} /\ Backend = 1 .. N
  BY BackendFacts
<1>2. o \in [1 .. N -> Backend] /\ \A x, y \in 1 .. N : o[x] = o[y] => x = y
  BY DEF SortedOrders, IsInjective
<1>3. SUFFICES ASSUME \A i \in 1 .. N : o[i] # b PROVE FALSE
  OBVIOUS
<1>4. o \in [1 .. N -> Backend \ {b}]
  BY <1>2, <1>3
<1>5. IsFiniteSet(1 .. N) /\ Cardinality(1 .. N) = N
  BY <1>1, FS_Interval
<1>6. IsFiniteSet(Backend \ {b}) /\ Cardinality(Backend \ {b}) = N - 1
  BY <1>1, <1>5, FS_RemoveElement
<1>7. \E x, y \in 1 .. N : x # y /\ o[x] = o[y]
  <2> DEFINE S == 1 .. N
             T == Backend \ {b}
  <2>1. Cardinality(T) < Cardinality(S)
    BY <1>1, <1>5, <1>6
  <2> HIDE DEF S, T
  <2>2. \E x, y \in S : x # y /\ o[x] = o[y]
    BY <1>4, <1>5, <1>6, <2>1, FS_PigeonHole DEF S, T
  <2> QED BY <2>2 DEF S
<1> QED BY <1>2, <1>7

\* A search that ends without a backend, where the claim is made, has seen
\* them all.
LEMMA AllSeen ==
  ASSUME SearchTyped, SortedInv, TicketInv, NEW s \in Search, Searching(s),
         MaxIterations > N,
         kind = "Sorted" \/ (kind = "RoundRobin" /\ ~disturbed[s]),
         Yields(search[s]) = {} \/ Spent(search[s])
  PROVE  Backend \subseteq search[s].seen
<1> DEFINE it == search[s]
<1>1. N \in Nat \ {0} /\ Backend = 1 .. N
  BY BackendFacts
<1>2. it \in Iterator /\ it.steps \in Nat /\ it.index \in Nat
  BY DEF SearchTyped, Iterator
<1>3. Spent(it) => it.steps > N
  BY <1>1, <1>2, MaxIterationsNat DEF Spent
<1>4. CASE kind = "Sorted"
  <2>1. /\ it.index = it.steps /\ it.steps <= N
        /\ \A i \in 1 .. it.steps : order[i] \in it.seen
    BY <1>4 DEF SortedInv
  <2>2. ~(it.index + 1 \in 1 .. N)
    <3>1. ~Spent(it)
      BY <1>1, <1>2, <1>3, <2>1
    <3>2. Yields(it) = {}
      BY <3>1
    <3> QED BY <1>2, <1>4, <3>2, YieldsFacts
  <2>3. it.steps = N
    BY <1>1, <1>2, <2>1, <2>2
  <2>4. order \in SortedOrders
    BY DEF SearchTyped
  <2> QED BY <2>1, <2>3, <2>4, OrderComplete
<1>5. CASE kind = "RoundRobin"
  <2>1. Yields(it) # {}
    BY <1>2, <1>5, YieldsFacts
  <2>2. it.steps > N
    BY <1>3, <2>1
  <2>3. ASSUME NEW b \in Backend PROVE b \in it.seen
    <3>1. Behind(counter, b) \in 0 .. N - 1
      BY BehindNext DEF SearchTyped
    <3>2. Behind(counter, b) + 1 < it.steps
      <4> HIDE DEF it
      <4> QED BY <1>1, <1>2, <2>2, <3>1
    <3> QED BY <1>5, <3>2 DEF TicketInv
  <2> QED BY <2>3
<1> QED BY <1>4, <1>5

LEMMA FoundNext ==
  ASSUME SelectionInv, Next
  PROVE  ReadyBackendFound'
<1> USE DEF SelectionInv
<1>1. kind' = kind
  BY SameSelector
<1>2. ASSUME NEW s \in Search, StepOf(s) PROVE ReadyBackendFound'
  <2> SUFFICES ASSUME NEW r \in Search, search'[r].phase = "none", MaxIterations > N,
                      kind = "Sorted" \/ (kind = "RoundRobin" /\ ~disturbed'[r])
               PROVE  steady'[r] = {}
    BY <1>1 DEF ReadyBackendFound
  <2>1. CASE r # s
    <3>1. search'[r] = search[r] /\ steady'[r] = steady[r]
      BY <1>2, <2>1, Others
    <3>2. ~disturbed'[r] => ~disturbed[r]
      BY <1>2, <2>1 DEF StepOf, Begin, Passes, Exhausted, GiveUp, Select, ReturnNone,
                        CallNext, DrawTicket, SearchTyped
    <3> QED BY <3>1, <3>2 DEF ReadyBackendFound
  <2>2. CASE r = s /\ (Exhausted(s) \/ GiveUp(s))
    <3>1. Searching(s) /\ (Yields(search[s]) = {} \/ Spent(search[s])) /\ steady' = steady
      BY <2>2 DEF Exhausted, GiveUp, CallNext
    <3>2. ~disturbed'[s] => ~disturbed[s]
      BY <2>2, <3>1 DEF Exhausted, GiveUp, CallNext, DrawTicket, SearchTyped
    <3>3. Backend \subseteq search[s].seen
      BY <2>2, <3>1, <3>2, AllSeen
    <3>4. steady[s] \subseteq Backend /\ steady[s] \cap search[s].seen = {}
      BY <3>1 DEF SteadyInv, SearchTyped
    <3> QED BY <2>2, <3>1, <3>3, <3>4
  <2>3. CASE r = s /\ ((\E ex \in Excluded : Begin(s, ex)) \/ (\E b \in Backend : Passes(s, b)))
    BY <2>3, SearchBegins DEF Passes
  <2>4. CASE r = s /\ (Select(s) \/ ReturnNone(s))
    <3>1. search'[s] = Idle
      BY <2>4, SearchReturns DEF SearchTyped
    <3> QED BY <2>4, <3>1 DEF Idle
  <2> QED BY <1>2, <2>1, <2>2, <2>3, <2>4 DEF StepOf
<1>3. ASSUME NEW b \in Backend, TurnReady(b) PROVE ReadyBackendFound'
  BY <1>1, <1>3 DEF TurnReady, ReadyBackendFound, SearchTyped
<1> QED BY <1>2, <1>3, StepSorts

\* One place more of the weighted list.
LEMMA PlacesNext ==
  ASSUME NEW b \in Backend, NEW c \in 0 .. Len(Weighted) - 1
  PROVE  /\ Cardinality(Places(b, 0)) = 0
         /\ Cardinality(Places(b, c)) \in Nat
         /\ Cardinality(Places(b, c + 1)) =
              Cardinality(Places(b, c)) + IF Weighted[c + 1] = b THEN 1 ELSE 0
         /\ Cardinality(Places(b, c)) <= Weight[b]
<1> DEFINE L == Len(Weighted)
           P == Places(b, c)
<1>1. L \in Nat \ {0} /\ c \in Nat /\ c < L
  BY WeightedFacts
<1>2. Places(b, 0) = {}
  BY DEF Places
<1>3. IsFiniteSet(1 .. c) /\ IsFiniteSet(1 .. L)
  BY <1>1, FS_Interval
<1>4. P \in SUBSET (1 .. c) /\ Places(b, L) \in SUBSET (1 .. L) /\ P \in SUBSET Places(b, L)
  BY <1>1 DEF Places
<1>5. IsFiniteSet(P) /\ IsFiniteSet(Places(b, L))
  <2> HIDE DEF L, P
  <2> QED BY <1>3, <1>4, FS_Subset
<1>6. Cardinality(P) \in Nat /\ Cardinality(P) <= Weight[b]
  <2>1. Cardinality(Places(b, L)) = Weight[b]
    BY WeightedFacts
  <2> HIDE DEF L, P
  <2> QED BY <1>4, <1>5, <2>1, FS_Subset, FS_CardinalityType
<1>7. Cardinality(Places(b, c + 1)) = Cardinality(P) + IF Weighted[c + 1] = b THEN 1 ELSE 0
  <2>1. CASE Weighted[c + 1] = b
    <3>1. Places(b, c + 1) = P \cup {c + 1} /\ c + 1 \notin P
      BY <1>1, <2>1 DEF Places
    <3> HIDE DEF P
    <3> QED BY <1>5, <2>1, <3>1, FS_AddElement
  <2>2. CASE Weighted[c + 1] # b
    <3>1. Places(b, c + 1) = P
      BY <1>1, <2>2 DEF Places
    <3> QED BY <1>6, <2>2, <3>1
  <2> QED BY <2>1, <2>2
<1> QED BY <1>2, <1>6, <1>7, FS_EmptySet

LEMMA TurnsNext ==
  ASSUME SearchTyped, TurnsInv, Next
  PROVE  TurnsInv'
<1> DEFINE L == Len(Weighted)
           c == counter % L
<1>1. L \in Nat \ {0} /\ c \in 0 .. L - 1
  BY WeightedFacts, DrawFacts DEF SearchTyped
<1>2. CASE UNCHANGED <<counter, turns>>
  BY <1>2 DEF TurnsInv
<1>3. CASE ~turns'.even
  BY <1>3 DEF TurnsInv
<1>4. ASSUME NEW s \in Search, NEW ex \in Excluded, Begin(s, ex),
             ~UNCHANGED <<counter, turns>>, turns'.even
      PROVE  TurnsInv'
  <2> DEFINE b == FirstChoice(counter)
             before == IF c = 0 THEN NoTurns.count ELSE turns.count
  <2>1. counter' = Draw(counter) /\ CountTurn(b)
    BY <1>4 DEF Begin, DrawTicket
  <2>2. b = Weighted[c + 1] /\ b \in Backend
    BY DrawFacts DEF FirstChoice, SearchTyped
  <2>3. turns.even /\ turns' = [turns EXCEPT !.count = [before EXCEPT ![b] = @ + 1]]
    <3>1. turns' = IF turns.even
                   THEN [turns EXCEPT !.count = [before EXCEPT ![b] = @ + 1]]
                   ELSE turns
      BY <2>1 DEF CountTurn
    <3> HIDE DEF before, b
    <3> QED BY <1>4, <3>1
  <2>4. before \in [Backend -> Nat] /\ \A x \in Backend : before[x] = Cardinality(Places(x, c))
    <3>1. CASE c = 0
      <4>1. before = [x \in Backend |-> 0]
        BY <3>1 DEF NoTurns
      <4>2. \A x \in Backend : Cardinality(Places(x, c)) = 0
        BY <1>1, <3>1, PlacesNext
      <4> HIDE DEF before, c
      <4> QED BY <4>1, <4>2
    <3>2. CASE c # 0
      <4>1. before = turns.count
        BY <3>2
      <4>2. \A x \in Backend : turns.count[x] = Cardinality(Places(x, c))
        BY <2>3, <3>2 DEF TurnsInv
      <4> HIDE DEF before, c
      <4> QED BY <4>1, <4>2 DEF SearchTyped
    <3> QED BY <3>1, <3>2
  <2>5. ASSUME NEW x \in Backend PROVE turns'.count[x] = Cardinality(Places(x, c + 1))
    <3>1. turns'.count[x] = before[x] + IF x = b THEN 1 ELSE 0
      <4> HIDE DEF before, b
      <4>1. turns'.count = [before EXCEPT ![b] = @ + 1]
        BY <2>3 DEF SearchTyped
      <4> QED BY <2>2, <2>4, <4>1
    <3>2. Cardinality(Places(x, c + 1)) =
            Cardinality(Places(x, c)) + IF Weighted[c + 1] = x THEN 1 ELSE 0
      BY <1>1, PlacesNext
    <3> HIDE DEF before, b, c
    <3> QED BY <2>2, <2>4, <3>1, <3>2
  <2>6. counter' % L = After(c, L)
    BY <2>1, DrawFacts DEF SearchTyped
  <2>7. CASE c + 1 < L
    <3>1. counter' % L = c + 1 /\ c + 1 # 0
      BY <1>1, <2>6, <2>7 DEF After
    <3> HIDE DEF c
    <3> QED BY <2>5, <3>1 DEF TurnsInv
  <2>8. CASE c + 1 = L
    <3>1. counter' % L = 0
      BY <2>6, <2>8 DEF After
    <3>2. \A x \in Backend : Cardinality(Places(x, L)) = Weight[x]
      BY WeightedFacts
    <3> HIDE DEF c
    <3> QED BY <2>5, <2>8, <3>1, <3>2 DEF TurnsInv
  <2> QED BY <1>1, <2>7, <2>8
<1>5. ASSUME NEW s \in Search, StepOf(s), ~UNCHANGED <<counter, turns>>, turns'.even
      PROVE  \E ex \in Excluded : Begin(s, ex)
  <2>1. ~CallNext(s)
    <3>1. ~[NoTurns EXCEPT !.even = FALSE].even
      BY DEF NoTurns
    <3> QED BY <1>5, <3>1 DEF CallNext
  <2> QED BY <1>5, <2>1 DEF StepOf, Passes, Exhausted, GiveUp, Select, ReturnNone
<1>6. ASSUME NEW b \in Backend, TurnReady(b) PROVE UNCHANGED <<counter, turns>>
  BY <1>6 DEF TurnReady
<1> HIDE DEF L, c
<1> QED BY <1>2, <1>3, <1>4, <1>5, <1>6, StepSorts

-----------------------------------------------------------------------------
(* The theorems. *)

\* Everything the two claims rest on, of any selector, at any moment.
THEOREM SelectionInvariance == Spec => []SelectionInv
<1>1. SelectionInv /\ [Next]_vars => SelectionInv'
  <2> SUFFICES ASSUME SelectionInv, [Next]_vars PROVE SelectionInv'
    OBVIOUS
  <2>1. SearchTyped'
    BY TypedNext DEF SelectionInv
  <2>2. CASE Next
    BY <2>1, <2>2, SteadyNext, SortedNext, TicketNext, TurnsNext, FoundNext DEF SelectionInv
  <2>3. CASE UNCHANGED vars
    <3>1. /\ SteadyInv' <=> SteadyInv
          /\ SortedInv' <=> SortedInv
          /\ TicketInv' <=> TicketInv
          /\ TurnsInv' <=> TurnsInv
          /\ ReadyBackendFound' <=> ReadyBackendFound
      BY <2>3 DEF vars, SteadyInv, SortedInv, TicketInv, TurnsInv, ReadyBackendFound,
                  Searching
    <3> QED BY <2>1, <3>1 DEF SelectionInv
  <2> QED BY <2>2, <2>3
<1> QED BY <1>1, SelectionInit, PTL DEF Spec

\* select_with returns None over no backend that it could have returned all
\* along, if the selector is sorted, or a round robin that no other thread
\* draws from meanwhile, and max_iterations exceeds the number of backends.
THEOREM ReadyIsFound == Spec => []ReadyBackendFound
BY SelectionInvariance, PTL DEF SelectionInv

\* Without fallbacks, a round of the weighted list makes each backend first
\* choice as often as its weight, whatever threads draw the tickets.
THEOREM ChoicesProportional == Spec => []FirstChoicesProportional
<1>1. SelectionInv => FirstChoicesProportional
  <2> SUFFICES ASSUME SelectionInv, turns.even
               PROVE  /\ \A b \in Backend : turns.count[b] <= Weight[b]
                      /\ counter % Len(Weighted) = 0 =>
                           turns = NoTurns \/ \A b \in Backend : turns.count[b] = Weight[b]
    BY DEF FirstChoicesProportional
  <2> DEFINE c == counter % Len(Weighted)
  <2>1. c \in 0 .. Len(Weighted) - 1
    BY DrawFacts DEF SelectionInv, SearchTyped
  <2>2. c = 0 => turns = NoTurns \/ \A b \in Backend : turns.count[b] = Weight[b]
    BY DEF SelectionInv, TurnsInv
  <2>3. ASSUME NEW b \in Backend PROVE turns.count[b] <= Weight[b]
    <3>1. Weight[b] \in Nat /\ NoTurns.count[b] = 0
      BY BackendFacts DEF NoTurns
    <3>2. CASE c = 0
      BY <2>2, <3>1, <3>2
    <3>3. CASE c # 0
      <4>1. turns.count[b] = Cardinality(Places(b, c))
        BY <3>3 DEF SelectionInv, TurnsInv
      <4> QED BY <2>1, <4>1, PlacesNext
    <3> QED BY <3>2, <3>3
  <2> QED BY <2>2, <2>3
<1> QED BY <1>1, SelectionInvariance, PTL

\* A search under way has iterations left, and every turn of it ends it or uses
\* one up; only that its turns come at all is left to fairness.
StepsBounded ==
  \A s \in Search : Searching(s) => search[s].steps \in 0 .. MaxIterations

TurnsAdvance ==
  \A s \in Search : Turn(s) =>
    ~Searching(s)' \/ search'[s].steps = search[s].steps + 1

\* The loop of get_next is bounded by max_iterations, whatever the iterator
\* inside goes on returning.
THEOREM SearchesBounded == Spec => []StepsBounded /\ [][TurnsAdvance]_vars
<1>1. Init => StepsBounded
  BY DEF Init, StepsBounded, Searching, Idle
<1>2. ASSUME SearchTyped, StepsBounded, [Next]_vars PROVE StepsBounded'
  <2>1. ASSUME NEW s \in Search, StepOf(s), NEW r \in Search, Searching(r)'
        PROVE  search'[r].steps \in 0 .. MaxIterations
    <3>1. CASE r # s
      BY <1>2, <2>1, <3>1, Others DEF StepsBounded, Searching
    <3>2. CASE r = s /\ \E ex \in Excluded : Begin(s, ex)
      BY <1>2, <3>2, SearchBegins, MaxIterationsNat
    <3>3. CASE r = s /\ \E b \in Backend : Passes(s, b)
      <4>1. PICK b \in Backend : Passes(s, b)
        BY <3>3
      <4>2. /\ Searching(s) /\ ~(search[s].steps >= MaxIterations)
            /\ search'[s].steps = search[s].steps + 1
        BY <4>1 DEF Passes, Spent
      <4> QED BY <1>2, <3>3, <4>2, MaxIterationsNat DEF StepsBounded
    <3>4. CASE r = s /\ (Exhausted(s) \/ GiveUp(s))
      BY <1>2, <2>1, <3>4, SearchGivesUp DEF Searching
    <3>5. CASE r = s /\ (Select(s) \/ ReturnNone(s))
      <4>1. search'[s] = Idle
        BY <1>2, <3>5, SearchReturns DEF SearchTyped
      <4> QED BY <2>1, <3>5, <4>1 DEF Searching, Idle
    <3> QED BY <2>1, <3>1, <3>2, <3>3, <3>4, <3>5 DEF StepOf
  <2>2. CASE (\E b \in Backend : TurnReady(b)) \/ UNCHANGED vars
    <3>1. search' = search
      BY <2>2 DEF TurnReady, vars
    <3> QED BY <1>2, <3>1 DEF StepsBounded, Searching
  <2> QED BY <1>2, <2>1, <2>2, StepSorts DEF StepsBounded
<1>3. SearchTyped => TurnsAdvance
  <2> SUFFICES ASSUME SearchTyped, NEW s \in Search, Turn(s)
               PROVE  ~Searching(s)' \/ search'[s].steps = search[s].steps + 1
    BY DEF TurnsAdvance
  <2>1. CASE Skip(s) \/ Refuse(s)
    BY <2>1, SearchPasses DEF Passes
  <2>2. CASE Exhausted(s) \/ GiveUp(s)
    BY <2>2, SearchGivesUp DEF Searching
  <2>3. CASE Select(s)
    <3>1. search'[s] = Idle
      BY <2>3, SearchReturns DEF SearchTyped
    <3> QED BY <3>1 DEF Searching, Idle
  <2> QED BY <2>1, <2>2, <2>3 DEF Turn
<1>4. SelectionInv => SearchTyped
  BY DEF SelectionInv
<1> QED BY <1>1, <1>2, <1>3, <1>4, SelectionInvariance, PTL DEF Spec
=============================================================================
