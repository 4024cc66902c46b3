------------------------------- MODULE Selection -------------------------------
(***************************************************************************)
(* `select_with` of load_balancing/mod.rs with the iterators of            *)
(* load_balancing/strategy/: several request threads search one selector   *)
(* for a backend that is ready and that they have not tried.               *)
(*                                                                         *)
(* A selector is of one of three kinds.                                    *)
(*   RoundRobin   WeightedSelector with RoundRobinAlgo: all iterators draw *)
(*                tickets from one counter, the first for the weighted     *)
(*                list and, in the fallback, each for the plain list;      *)
(*   Hashed       WeightedSelector with Random or FNVHash, and Consistent: *)
(*                which backend comes next is any;                         *)
(*   Sorted       FewestConnections and FastestServer: the backends once,  *)
(*                in the order the metrics had when it was built.          *)
(*                                                                         *)
(* A step is one turn of the loops of UniqueIterator::get_next and of      *)
(* select_with: at most one draw from the counter and one look at the      *)
(* health of a backend.                                                    *)
(*                                                                         *)
(* Abstractions.  Backends are numbered in the order of the BTreeSet.  The *)
(* counter is used modulo the lengths of the two lists only, so it is kept *)
(* modulo their product; that the machine word wraps after 2^64 draws is   *)
(* left out.  A weight of zero is excluded: build_backend_set raises it to *)
(* one.  The selector stays; LoadBalancer replaces it.                     *)
(***************************************************************************)
EXTENDS Naturals, Sequences, SequencesExt, Functions

CONSTANTS
  Weight,          \* the weights of the backends, in order
  Search,          \* threads in select_with
  MaxIterations,   \* max_iterations
  Excluded         \* the sets of tried backends a search may start with

Backend == DOMAIN Weight
N == Len(Weight)

ASSUME WeightsPositive == Weight \in Seq(Nat \ {0}) /\ N > 0
ASSUME ExcludedSets == Excluded \subseteq SUBSET Backend
ASSUME MaxIterationsNat == MaxIterations \in Nat

VARIABLES
  kind,        \* the kind of the selector
  order,       \* Sorted: the order of the backends
  counter,     \* RoundRobin: the next ticket
  ready,       \* the backends that Backends::ready reports
  search,      \* per thread: its UniqueIterator and the iterator inside
  \* History, read by the properties only.
  steady,      \* per thread: acceptable and ready since its search began
  disturbed,   \* per thread: another one has drawn a ticket since then
  turns        \* first choices per backend in this round of the weighted
               \* list; not even once a ticket went to a fallback

vars == <<kind, order, counter, ready, search, steady, disturbed, turns>>

-----------------------------------------------------------------------------
\* WeightedSelector::new: each backend as often as its weight says.
Weighted == FlattenSeq([b \in Backend |-> [i \in 1 .. Weight[b] |-> b]])

Tickets == Len(Weighted) * N
Draw(t) == (t + 1) % Tickets

\* Mutant: the first choice ignores the weights.
FirstChoicePlain(t) == (t % N) + 1

FirstChoice(t) == Weighted[(t % Len(Weighted)) + 1]

Fallback(t) == (t % N) + 1

Idle == [phase |-> "idle", first |-> FALSE, index |-> 0, steps |-> 0,
         seen |-> {}, exclude |-> {}]

NoTurns == [even |-> TRUE, count |-> [b \in Backend |-> 0]]

\* build_backend_selector of the sorted kinds: the counts or averages at that
\* moment may put the backends into any order.
SortedOrders == {o \in [1 .. N -> Backend] : IsInjective(o)}

Init ==
  /\ kind \in {"RoundRobin", "Hashed", "Sorted"}
  /\ order \in SortedOrders
  /\ kind # "Sorted" => \A i \in 1 .. N : order[i] = i
  /\ counter = 0
  /\ ready \in SUBSET Backend
  /\ search = [s \in Search |-> Idle]
  /\ steady = [s \in Search |-> {}]
  /\ disturbed = [s \in Search |-> FALSE]
  /\ turns = NoTurns

Searching(s) == search[s].phase = "searching"

\* SelectionAlgorithm::next of RoundRobinAlgo, called for s.  Every other
\* search under way now misses a ticket.
DrawTicket(s) ==
  /\ counter' = Draw(counter)
  /\ disturbed' = [r \in Search |-> IF r = s THEN Searching(s) /\ disturbed[s]
                                    ELSE Searching(r) \/ disturbed[r]]

-----------------------------------------------------------------------------
\* The first choices of a round of the weighted list, counted anew with the
\* ticket after its last.
CountTurn(b) ==
  LET before == IF counter % Len(Weighted) = 0 THEN NoTurns.count
                ELSE turns.count
  IN turns' = IF turns.even THEN [turns EXCEPT !.count = [before EXCEPT ![b] = @ + 1]]
              ELSE turns

\* select_with: a fresh UniqueIterator around selection.iter(key).
Begin(s, ex) ==
  /\ search[s].phase = "idle"
  /\ search' = [search EXCEPT ![s] =
       [Idle EXCEPT !.phase = "searching", !.first = TRUE, !.exclude = ex,
          !.index = IF kind = "RoundRobin" THEN counter ELSE 0]]
  /\ steady' = [steady EXCEPT ![s] = ready \ ex]
  /\ IF kind = "RoundRobin" THEN DrawTicket(s) /\ CountTurn(FirstChoice(counter))
     ELSE UNCHANGED <<counter, disturbed, turns>>
  /\ UNCHANGED <<kind, order, ready>>

\* What BackendIter::next of the three kinds may return: by ticket,
TicketYields(it) ==
  {IF it.first THEN FirstChoice(it.index) ELSE Fallback(counter)}

\* anything (the hash of the key, of the last index, or the next point of the
\* ketama ring),
HashYields(it) == Backend

\* or the next of the list, if there is one ...
SortedYields(it) == {order[i] : i \in {it.index + 1} \cap (1 .. N)}

Yields(it) ==
  CASE kind = "RoundRobin" -> TicketYields(it)
    [] kind = "Hashed"     -> HashYields(it)
    [] kind = "Sorted"     -> SortedYields(it)

\* ... and what it leaves behind.  Only a fallback of RoundRobin draws.
FallsBack(it) == kind = "RoundRobin" /\ ~it.first

Advanced(it) ==
  [it EXCEPT !.first = FALSE,
             !.index = CASE kind = "Sorted" -> @ + 1
                         [] FallsBack(it)   -> counter
                         [] OTHER           -> @]

CallNext(s) ==
  /\ IF FallsBack(search[s])
     THEN DrawTicket(s) /\ turns' = [NoTurns EXCEPT !.even = FALSE]
     ELSE UNCHANGED <<counter, disturbed, turns>>
  /\ UNCHANGED <<kind, order, ready, steady>>

-----------------------------------------------------------------------------
\* Mutant: the item is counted before the limit is compared.
SpentEarly(it) == it.steps + 1 >= MaxIterations

Spent(it) == it.steps >= MaxIterations

\* Mutant: only items that are new count as steps.
CountedIfNew(it, b) == [it EXCEPT !.steps = IF b \in it.seen THEN @ ELSE @ + 1]

Counted(it, b) == [it EXCEPT !.steps = @ + 1]

\* get_next: the inner iterator has ended.
Exhausted(s) ==
  /\ Searching(s)
  /\ Yields(search[s]) = {}
  /\ search' = [search EXCEPT ![s].phase = "none"]
  /\ UNCHANGED <<kind, order, counter, ready, steady, disturbed, turns>>

\* get_next: an item came, and the iterations are used up.
GiveUp(s) ==
  /\ Searching(s)
  /\ Yields(search[s]) # {}
  /\ Spent(search[s])
  /\ search' = [search EXCEPT ![s] = [Advanced(@) EXCEPT !.phase = "none"]]
  /\ CallNext(s)

\* get_next: an item seen before counts and is passed over.
Skip(s) ==
  /\ Searching(s)
  /\ ~Spent(search[s])
  /\ \E b \in Yields(search[s]) \cap search[s].seen :
       search' = [search EXCEPT ![s] = Counted(Advanced(@), b)]
  /\ CallNext(s)

Acceptable(s, b) == b \in ready /\ b \notin search[s].exclude

\* get_next returns a new item, and `accept` refuses it.
Refuse(s) ==
  /\ Searching(s)
  /\ ~Spent(search[s])
  /\ \E b \in Yields(search[s]) \ search[s].seen :
       /\ ~Acceptable(s, b)
       /\ search' = [search EXCEPT ![s] =
                       [Counted(Advanced(search[s]), b) EXCEPT !.seen = @ \cup {b}]]
  /\ CallNext(s)

\* get_next returns a new item, and select_with returns it.
Select(s) ==
  /\ Searching(s)
  /\ ~Spent(search[s])
  /\ \E b \in Yields(search[s]) \ search[s].seen : Acceptable(s, b)
  /\ search' = [search EXCEPT ![s] = Idle]
  /\ CallNext(s)

\* select_with returns None.
ReturnNone(s) ==
  /\ search[s].phase = "none"
  /\ search' = [search EXCEPT ![s] = Idle]
  /\ UNCHANGED <<kind, order, counter, ready, steady, disturbed, turns>>

\* A health check or set_enable turns b; see BackendHealth.
TurnReady(b) ==
  /\ ready' = IF b \in ready THEN ready \ {b} ELSE ready \cup {b}
  /\ steady' = [s \in Search |-> steady[s] \ {b}]
  /\ UNCHANGED <<kind, order, counter, search, disturbed, turns>>

Turn(s) ==
  \/ Exhausted(s)
  \/ GiveUp(s)
  \/ Skip(s)
  \/ Refuse(s)
  \/ Select(s)

Next ==
  \/ \E s \in Search :
       \/ \E ex \in Excluded : Begin(s, ex)
       \/ Turn(s)
       \/ ReturnNone(s)
  \/ \E b \in Backend : TurnReady(b)

Spec == Init /\ [][Next]_vars

\* The thread of a search is not stopped for ever.
FairSpec == Spec /\ \A s \in Search : WF_vars(Turn(s))

-----------------------------------------------------------------------------
\* "Return the first healthy backend": when select_with finds nothing, no
\* acceptable backend was ready all along.  The sorted selectors promise it
\* outright, round robin to a search whose tickets follow each other, and
\* both only if max_iterations exceeds the number of backends; the hashes
\* promise nothing.
ReadyBackendFound ==
  \A s \in Search :
    /\ search[s].phase = "none"
    /\ MaxIterations > N
    /\ kind = "Sorted" \/ (kind = "RoundRobin" /\ ~disturbed[s])
    => steady[s] = {}

\* Requests that need no fallback are spread by weight, whatever the threads
\* that make them: in a round of the weighted list no backend is first choice
\* more often than its weight, and each exactly that often at the end.
FirstChoicesProportional ==
  turns.even =>
    /\ \A b \in Backend : turns.count[b] <= Weight[b]
    /\ counter % Len(Weighted) = 0 =>
         (turns = NoTurns \/ \A b \in Backend : turns.count[b] = Weight[b])

\* Every search ends, even if the iterator repeats itself for ever.
SearchEnds == \A s \in Search : Searching(s) ~> ~Searching(s)
=============================================================================
