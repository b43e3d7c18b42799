-------------------------- MODULE MpmcQueue_proofs --------------------------
(***************************************************************************)
(* MpmcQueue implements BoundedQueue for any threads, items, number of     *)
(* cells and starting position, provided that the cells are fewer than the *)
(* numbers the comparison can tell apart.                                  *)
(*                                                                         *)
(* The argument: the N positions before enqueue_pos have one cell each,    *)
(* and the number in the cell of position p says how far p has come: p     *)
(* while its item is on the way, p + 1 while the item is there, p + N once *)
(* it was taken and the cell waits for the next lap.  A caller that won    *)
(* the exchange for p is the only one to move that number on.              *)
(***************************************************************************)
EXTENDS MpmcQueue, SequenceTheorems, TLAPS

-----------------------------------------------------------------------------
(***************************************************************************)
(* Positions and their cells.                                              *)
(***************************************************************************)
\* Quotient and remainder ...
LEMMA Division ==
  ASSUME NEW x \in Int, NEW n \in Nat \ {0}
  PROVE  /\ x \div n \in Int /\ x % n \in 0 .. n - 1
         /\ x = n * (x \div n) + (x % n)
  OBVIOUS

\* A multiple that is not the next one is farther away.
LEMMA NextMultiple ==
  ASSUME NEW n \in Nat \ {0}, NEW q \in Int, NEW d \in Int, q < d
  PROVE  n * q + n <= n * d
<1>1. n * (q + 1) = n * q + n BY SMTT(30)
<1>2. n * (q + 1) <= n * d BY SMTT(30)
<1>3. n * q \in Int /\ n * d \in Int OBVIOUS
<1> QED BY <1>1, <1>2, <1>3

\* ... are the only numbers that give x.
LEMMA DivisionUnique ==
  ASSUME NEW n \in Nat \ {0}, NEW q \in Int, NEW r \in 0 .. n - 1,
         NEW d \in Int, NEW s \in 0 .. n - 1, n * q + r = n * d + s
  PROVE  q = d /\ r = s
<1>0. n * q \in Int /\ n * d \in Int OBVIOUS
<1>1. CASE q < d BY <1>0, <1>1, NextMultiple
<1>2. CASE d < q BY <1>0, <1>2, NextMultiple
<1>3. CASE q = d BY <1>0, <1>3
<1> QED BY <1>1, <1>2, <1>3

\* A number less than n away from x, with the same remainder, is x.
LEMMA SameRemainder ==
  ASSUME NEW n \in Nat \ {0}, NEW x \in Int, NEW y \in Int,
         x % n = y % n, x - y < n, y - x < n
  PROVE  x = y
<1> DEFINE q == x \div n
           d == y \div n
           r == x % n
<1>1. q \in Int /\ r \in 0 .. n - 1 /\ x = n * q + r BY Division
<1>2. d \in Int /\ y = n * d + r BY Division
<1> HIDE DEF q, d, r
<1>3. n * q \in Int /\ n * d \in Int BY <1>1, <1>2
<1>4. CASE q < d BY <1>1, <1>2, <1>3, <1>4, NextMultiple
<1>5. CASE d < q BY <1>1, <1>2, <1>3, <1>5, NextMultiple
<1>6. CASE q = d BY <1>1, <1>2, <1>6
<1> QED BY <1>1, <1>2, <1>4, <1>5, <1>6

\* n more has the same remainder.
LEMMA NextLap ==
  ASSUME NEW n \in Nat \ {0}, NEW x \in Int
  PROVE  (x + n) % n = x % n
<1> DEFINE q == x \div n
           d == (x + n) \div n
           r == x % n
           s == (x + n) % n
<1>1. q \in Int /\ r \in 0 .. n - 1 /\ x = n * q + r BY Division
<1>2. d \in Int /\ s \in 0 .. n - 1 /\ x + n = n * d + s BY Division
<1> HIDE DEF q, d, r, s
<1>3. n * (q + 1) = n * q + n BY <1>1, SMTT(30)
<1>4. n * q \in Int /\ n * (q + 1) \in Int BY <1>1
<1>5. n * (q + 1) + r = n * d + s BY <1>1, <1>2, <1>3, <1>4
<1>6. q + 1 \in Int BY <1>1
<1>7. r = s BY <1>1, <1>2, <1>5, <1>6, DivisionUnique
<1> QED BY <1>7 DEF r, s

\* The cell of a position, which is that of the position a lap away.
LEMMA CellOf ==
  ASSUME NEW p \in Int
  PROVE  p % N \in Cell /\ (p - N) % N = p % N
<1>1. N \in Nat \ {0} BY QueueAssumption
<1>2. p % N \in Cell BY <1>1, Division DEF Cell
<1>3. p - N \in Int /\ (p - N) + N = p BY <1>1
<1>4. (p - N) % N = p % N BY <1>1, <1>3, NextLap
<1> QED BY <1>2, <1>4

\* Positions less than a lap apart have different cells.
LEMMA SameCell ==
  ASSUME NEW p \in Int, NEW q \in Int, p % N = q % N, p - q < N, q - p < N
  PROVE  p = q
<1>1. N \in Nat \ {0} BY QueueAssumption
<1> QED BY <1>1, SameRemainder

\* Every cell has a position in the lap from s on.
LEMMA CellHasPosition ==
  ASSUME NEW s \in Nat, NEW c \in Cell
  PROVE  \E p \in s .. s + N - 1 : p % N = c
<1>1. N \in Nat \ {0} BY QueueAssumption
<1>2. c \in 0 .. N - 1 /\ c - s \in Int BY <1>1 DEF Cell
<1> DEFINE d == (c - s) \div N
           r == (c - s) % N
           p == s + r
           q == p \div N
           u == p % N
<1>3. d \in Int /\ r \in 0 .. N - 1 /\ c - s = N * d + r BY <1>1, <1>2, Division
<1>4. p \in s .. s + N - 1 /\ p \in Int BY <1>1, <1>3
<1>5. q \in Int /\ u \in 0 .. N - 1 /\ p = N * q + u BY <1>1, <1>4, Division
<1>6. p = c - N * d BY <1>1, <1>2, <1>3
<1> HIDE DEF d, r, p, q, u
<1>7. N * d \in Int /\ N * q \in Int BY <1>1, <1>3, <1>5
<1>8. N * (d + q) = N * d + N * q BY <1>1, <1>3, <1>5, SMTT(30)
<1>9. N * (d + q) + u = N * 0 + c BY <1>1, <1>2, <1>4, <1>5, <1>6, <1>7, <1>8
<1>10. d + q \in Int BY <1>3, <1>5
<1>11. u = c BY <1>1, <1>2, <1>5, <1>9, <1>10, DivisionUnique
<1> QED BY <1>4, <1>11 DEF p, u

\* A comparison that shows no difference, of numbers that are close enough for
\* it, is right.
LEMMA DifIsZero ==
  ASSUME N < 2 ^ Width, NEW a \in Int, NEW b \in Int, Dif(a, b) = 0,
         a - b <= N, b - a <= N
  PROVE  a = b
<1> DEFINE m == 2 ^ Width
           x == a - b
<1>1. m \in Int /\ N \in Nat /\ N > 1 /\ N < m BY QueueAssumption
<1>2. m \in Nat \ {0} /\ x \in Int BY <1>1
<1>3. Dif(a, b) = (IF x % m < 2 ^ (Width - 1) THEN x % m ELSE (x % m) - m)
  BY DEF Dif
<1> HIDE DEF m
<1>4. x % m \in 0 .. m - 1 BY <1>2, Division
<1>5. x % m = 0 BY <1>1, <1>3, <1>4
<1>6. 0 % m = 0
  <2>1. 0 \div m \in Int /\ 0 % m \in 0 .. m - 1 /\ 0 = m * (0 \div m) + (0 % m)
    BY <1>2, Division
  <2>2. 0 = m * 0 + 0 BY <1>2
  <2> QED BY <1>2, <2>1, <2>2, DivisionUnique
<1>7. x - 0 < m /\ 0 - x < m BY <1>1 DEF x
<1>8. x % m = 0 % m BY <1>5, <1>6
<1>9. x \in Int /\ 0 \in Int /\ m \in Nat \ {0} BY <1>2
<1> HIDE DEF x
<1>10. x = 0 BY ONLY <1>7, <1>8, <1>9, SameRemainder
<1> QED BY <1>10 DEF x

-----------------------------------------------------------------------------
(***************************************************************************)
(* The inductive invariant.                                                *)
(***************************************************************************)
At(t, op, step) == pc[t] = <<op, step>>
Claims(t, op) == At(t, op, "access") \/ At(t, op, "store")

\* The queue holds between none and N items, ...
Bounds ==
  /\ TypeOK
  /\ enqueue_pos - N <= dequeue_pos /\ dequeue_pos <= enqueue_pos

\* ... every position of the last lap has come as far as its cell says, ...
CellsInv ==
  \A p \in enqueue_pos - N .. enqueue_pos - 1 :
    \/ sequence[p % N] = p /\ dequeue_pos <= p
    \/ sequence[p % N] = p + 1
    \/ sequence[p % N] = p + N /\ p < dequeue_pos

\* ... the position an enqueue, or a dequeue, has claimed is in that lap and
\* waits for it ...
EnqueueClaims ==
  \A t \in Thread :
    Claims(t, "enqueue") =>
      /\ dequeue_pos <= pos[t] /\ pos[t] < enqueue_pos
      /\ sequence[pos[t] % N] = pos[t]

DequeueClaims ==
  \A t \in Thread :
    Claims(t, "dequeue") =>
      /\ enqueue_pos - N <= pos[t] /\ pos[t] < dequeue_pos
      /\ sequence[pos[t] % N] = pos[t] + 1

\* ... and for nobody else, ...
ClaimsDiffer ==
  \A t, u \in Thread : \A op \in Op :
    t # u /\ Claims(t, op) /\ Claims(u, op) => pos[t] # pos[u]

\* ... and a caller about to exchange has seen its cell ready, if the counter
\* has not moved since.
ReadyInv ==
  \A t \in Thread : \A op \in Op :
    /\ At(t, op, "sequence") \/ At(t, op, "exchange") => pos[t] <= Counter(op)
    /\ At(t, op, "exchange") /\ pos[t] = Counter(op) =>
         sequence[pos[t] % N] = Ready(op, pos[t])

\* An enqueue has its item, and a dequeue none before it reads one.
ItemsInv ==
  \A t \in Thread : \A step \in {"load", "sequence", "exchange"} :
    /\ At(t, "enqueue", step) => item[t] \in Item
    /\ At(t, "dequeue", step) => item[t] = Nothing

QueueInv ==
  /\ Bounds /\ CellsInv /\ EnqueueClaims /\ DequeueClaims /\ ClaimsDiffer
  /\ ReadyInv /\ ItemsInv

-----------------------------------------------------------------------------
(***************************************************************************)
(* What the invariant says of a cell.                                      *)
(***************************************************************************)
LEMMA Numbers ==
  ASSUME QueueInv
  PROVE  /\ N \in Nat /\ N > 1
         /\ enqueue_pos \in Nat /\ dequeue_pos \in Nat
         /\ enqueue_pos - N <= dequeue_pos /\ dequeue_pos <= enqueue_pos
         /\ \A t \in Thread : pos[t] \in Nat
BY QueueAssumption DEF QueueInv, Bounds, TypeOK

LEMMA NumberOfCell ==
  ASSUME QueueInv, NEW p \in Int
  PROVE  sequence[p % N] \in Nat
BY CellOf DEF QueueInv, Bounds, TypeOK

\* The cell enqueue_pos needs is that of the first position of the last lap.
LEMMA OldestCell ==
  ASSUME QueueInv
  PROVE  /\ \/ sequence[enqueue_pos % N] = enqueue_pos - N /\ dequeue_pos = enqueue_pos - N
            \/ sequence[enqueue_pos % N] = enqueue_pos - N + 1
            \/ sequence[enqueue_pos % N] = enqueue_pos /\ enqueue_pos - N < dequeue_pos
<1> DEFINE p == enqueue_pos - N
<1>1. p % N = enqueue_pos % N BY Numbers, CellOf
<1>2. p \in enqueue_pos - N .. enqueue_pos - 1 BY Numbers
<1>3. \/ sequence[p % N] = p /\ dequeue_pos <= p
      \/ sequence[p % N] = p + 1
      \/ sequence[p % N] = p + N /\ p < dequeue_pos
  BY <1>2 DEF QueueInv, CellsInv
<1> QED BY <1>1, <1>3, Numbers

\* If the cell at enqueue_pos is ready for it, its item of the lap before has
\* been taken.
LEMMA ReadyToFill ==
  ASSUME QueueInv, sequence[enqueue_pos % N] = enqueue_pos
  PROVE  enqueue_pos - N < dequeue_pos
BY OldestCell, Numbers

\* If the cell at dequeue_pos is ready for it, its item is there.
LEMMA ReadyToEmpty ==
  ASSUME QueueInv, sequence[dequeue_pos % N] = dequeue_pos + 1
  PROVE  dequeue_pos < enqueue_pos
<1>1. SUFFICES ASSUME dequeue_pos = enqueue_pos PROVE FALSE BY Numbers
<1> QED BY <1>1, OldestCell, Numbers

\* A claimed position is in the last lap.
LEMMA ClaimsInLap ==
  ASSUME QueueInv, NEW t \in Thread, NEW op \in Op, Claims(t, op)
  PROVE  pos[t] \in enqueue_pos - N .. enqueue_pos - 1
<1>1. CASE op = "enqueue" BY <1>1, Numbers DEF QueueInv, EnqueueClaims
<1>2. CASE op = "dequeue" BY <1>2, Numbers DEF QueueInv, DequeueClaims
<1> QED BY <1>1, <1>2 DEF Op

\* Two callers with a claim have different cells.
LEMMA ClaimsApart ==
  ASSUME QueueInv, NEW t \in Thread, NEW u \in Thread, t # u,
         NEW op \in Op, NEW o \in Op, Claims(t, op), Claims(u, o)
  PROVE  pos[t] % N # pos[u] % N
<1>1. SUFFICES ASSUME pos[t] % N = pos[u] % N PROVE FALSE OBVIOUS
<1>2. /\ pos[t] \in enqueue_pos - N .. enqueue_pos - 1
      /\ pos[u] \in enqueue_pos - N .. enqueue_pos - 1
  BY ClaimsInLap
<1>3. pos[t] \in Int /\ pos[u] \in Int /\ pos[t] - pos[u] < N /\ pos[u] - pos[t] < N
  BY <1>2, Numbers
<1>4. pos[t] = pos[u] BY <1>1, <1>3, SameCell
<1>5. CASE op = o BY <1>4, <1>5 DEF QueueInv, ClaimsDiffer
<1>6. CASE op = "enqueue" /\ o = "dequeue"
  BY <1>4, <1>6, Numbers DEF QueueInv, EnqueueClaims, DequeueClaims
<1>7. CASE op = "dequeue" /\ o = "enqueue"
  BY <1>4, <1>7, Numbers DEF QueueInv, EnqueueClaims, DequeueClaims
<1> QED BY <1>5, <1>6, <1>7 DEF Op

\* A cell that a counter may claim next is nobody's.
LEMMA NextIsFree ==
  ASSUME QueueInv, NEW t \in Thread, NEW op \in Op, NEW o \in Op, Claims(t, o),
         sequence[Counter(op) % N] = Ready(op, Counter(op))
  PROVE  pos[t] % N # Counter(op) % N
<1>1. SUFFICES ASSUME pos[t] % N = Counter(op) % N PROVE FALSE OBVIOUS
<1>2. pos[t] \in enqueue_pos - N .. enqueue_pos - 1 BY ClaimsInLap
<1>3. sequence[pos[t] % N] = pos[t] \/ sequence[pos[t] % N] = pos[t] + 1
  BY DEF QueueInv, EnqueueClaims, DequeueClaims, Op
<1>4. CASE op = "enqueue"
  <2>1. (enqueue_pos - N) % N = pos[t] % N BY <1>1, <1>4, Numbers, CellOf DEF Counter
  <2>2. /\ enqueue_pos - N \in Int /\ pos[t] \in Int
        /\ pos[t] - (enqueue_pos - N) < N /\ (enqueue_pos - N) - pos[t] < N
    BY <1>2, Numbers
  <2>3. pos[t] = enqueue_pos - N BY <2>1, <2>2, SameCell
  <2> QED BY <1>1, <1>3, <1>4, <2>3, Numbers DEF Counter, Ready
<1>5. CASE op = "dequeue"
  <2>1. sequence[dequeue_pos % N] = dequeue_pos + 1 BY <1>5 DEF Counter, Ready
  <2>2. dequeue_pos < enqueue_pos BY <2>1, ReadyToEmpty
  <2>3. /\ dequeue_pos \in Int /\ pos[t] \in Int
        /\ pos[t] - dequeue_pos < N /\ dequeue_pos - pos[t] < N
    BY <1>2, <2>2, Numbers
  <2>4. pos[t] = dequeue_pos BY <1>1, <1>5, <2>3, SameCell DEF Counter
  <2>5. o = "enqueue" => sequence[pos[t] % N] = pos[t]
    BY DEF QueueInv, EnqueueClaims
  <2>6. o = "dequeue" => pos[t] < dequeue_pos
    BY DEF QueueInv, DequeueClaims
  <2> QED BY <2>1, <2>4, <2>5, <2>6, Numbers DEF Op
<1> QED BY <1>4, <1>5 DEF Op

\* A comparison with the counter's own cell that shows no difference is right.
LEMMA DifAtCounter ==
  ASSUME N < 2 ^ Width, QueueInv, NEW op \in Op,
         Dif(sequence[Counter(op) % N], Ready(op, Counter(op))) = 0
  PROVE  sequence[Counter(op) % N] = Ready(op, Counter(op))
<1> DEFINE a == sequence[Counter(op) % N]
           b == Ready(op, Counter(op))
<1>1. a \in Nat /\ b \in Nat
  BY Numbers, NumberOfCell DEF Counter, Ready
<1>2. a - b <= N /\ b - a <= N
  <2>1. CASE op = "enqueue"
    <3>1. a = sequence[enqueue_pos % N] /\ b = enqueue_pos
      BY <2>1 DEF Counter, Ready
    <3> HIDE DEF a, b
    <3>2. \/ a = enqueue_pos - N /\ dequeue_pos = enqueue_pos - N
          \/ a = enqueue_pos - N + 1
          \/ a = enqueue_pos /\ enqueue_pos - N < dequeue_pos
      BY <3>1, OldestCell
    <3>3. N \in Nat /\ N > 1 /\ enqueue_pos \in Nat /\ dequeue_pos \in Nat BY Numbers
    <3> QED BY ONLY <1>1, <3>1, <3>2, <3>3
  <2>2. CASE op = "dequeue" /\ dequeue_pos < enqueue_pos
    <3>1. dequeue_pos \in enqueue_pos - N .. enqueue_pos - 1 BY <2>2, Numbers
    <3>2. a = sequence[dequeue_pos % N] /\ b = dequeue_pos + 1
      BY <2>2 DEF Counter, Ready
    <3> HIDE DEF a, b
    <3> QED BY <1>1, <2>2, <3>1, <3>2, Numbers DEF QueueInv, CellsInv
  <2>3. CASE op = "dequeue" /\ dequeue_pos = enqueue_pos
    <3>1. a = sequence[enqueue_pos % N] /\ b = enqueue_pos + 1
      BY <2>3 DEF Counter, Ready
    <3> HIDE DEF a, b
    <3>2. \/ a = enqueue_pos - N /\ dequeue_pos = enqueue_pos - N
          \/ a = enqueue_pos - N + 1
          \/ a = enqueue_pos /\ enqueue_pos - N < dequeue_pos
      BY <3>1, OldestCell
    <3>3. N \in Nat /\ N > 1 /\ enqueue_pos \in Nat /\ dequeue_pos \in Nat BY Numbers
    <3> QED BY ONLY <2>3, <1>1, <3>1, <3>2, <3>3
  <2> QED BY <2>1, <2>2, <2>3, Numbers DEF Op
<1> HIDE DEF a, b
<1>3. Dif(a, b) = 0 BY DEF a, b
<1>4. a = b BY <1>1, <1>2, <1>3, DifIsZero
<1> QED BY <1>4 DEF a, b

-----------------------------------------------------------------------------
(***************************************************************************)
(* Every step keeps the invariant.                                         *)
(***************************************************************************)
\* An empty queue has every cell wait for the next lap.
LEMMA InitCells ==
  ASSUME Init
  PROVE  /\ enqueue_pos \in Nat /\ dequeue_pos = enqueue_pos
         /\ sequence \in [Cell -> Nat]
         /\ \A p \in enqueue_pos - N .. enqueue_pos - 1 : sequence[p % N] = p + N
<1>1. PICK s \in Starts :
        /\ sequence = [c \in Cell |-> CHOOSE p \in s .. s + N - 1 : p % N = c]
        /\ enqueue_pos = s /\ dequeue_pos = s
  BY DEF Init
<1>2. s \in Nat /\ N \in Nat /\ N > 1 BY QueueAssumption
<1>3. \A c \in Cell : sequence[c] \in s .. s + N - 1 /\ sequence[c] % N = c
  <2> TAKE c \in Cell
  <2>1. \E p \in s .. s + N - 1 : p % N = c BY <1>2, CellHasPosition
  <2> QED BY <1>1, <2>1
<1>4. sequence \in [Cell -> Nat] BY <1>1, <1>2, <1>3
<1>5. ASSUME NEW p \in enqueue_pos - N .. enqueue_pos - 1
      PROVE  sequence[p % N] = p + N
  <2>0. p \in s - N .. s - 1 BY <1>1, <1>2
  <2> DEFINE q == sequence[p % N]
  <2>1. p \in Int /\ p + N \in Int BY <1>2, <2>0
  <2>2. q \in s .. s + N - 1 /\ q % N = p % N BY <1>3, <2>1, CellOf
  <2>3. (p + N) - N = p BY <1>2
  <2>4. (p + N) % N = p % N BY <2>1, <2>3, CellOf
  <2>5. q \in Int /\ q - (p + N) < N /\ (p + N) - q < N BY <1>2, <2>0, <2>2
  <2>6. q % N = (p + N) % N BY <2>2, <2>4
  <2> HIDE DEF q
  <2>7. q = p + N BY ONLY <2>1, <2>5, <2>6, SameCell
  <2> QED BY <2>7 DEF q
<1> QED BY <1>1, <1>2, <1>4, <1>5

LEMMA InitQueueInv == Init => QueueInv
<1> SUFFICES ASSUME Init PROVE QueueInv OBVIOUS
<1>1. PICK s \in Starts :
        /\ data = [c \in Cell |-> Nothing]
        /\ enqueue_pos = s /\ dequeue_pos = s /\ limit = s + Extra
        /\ pc = [t \in Thread |-> Idle] /\ pos = [t \in Thread |-> 0]
        /\ item = [t \in Thread |-> Nothing]
  BY DEF Init
<1>2. s \in Nat /\ N \in Nat /\ N > 1 /\ Extra \in Nat BY QueueAssumption
<1>3. TypeOK BY <1>1, <1>2, InitCells DEF TypeOK
<1>5. Bounds BY <1>1, <1>2, <1>3 DEF Bounds
<1>6. CellsInv BY <1>1, <1>2, InitCells DEF CellsInv
<1>7. \A t \in Thread : \A op \in Op : \A step : ~ At(t, op, step)
  BY <1>1 DEF At, Idle, Op
<1>8. \A t \in Thread : \A op \in Op : ~ Claims(t, op) BY <1>7 DEF Claims
<1>9. "enqueue" \in Op /\ "dequeue" \in Op BY DEF Op
<1>10. EnqueueClaims /\ DequeueClaims /\ ClaimsDiffer
  BY <1>8, <1>9 DEF EnqueueClaims, DequeueClaims, ClaimsDiffer
<1>11. ReadyInv /\ ItemsInv BY <1>7, <1>9 DEF ReadyInv, ItemsInv
<1> QED BY <1>5, <1>6, <1>10, <1>11 DEF QueueInv

\* Where the callers are after one of them has moved.
LEMMA Moves ==
  ASSUME TypeOK, NEW t \in Thread, NEW o \in Op, NEW s \in Step,
         pc' = [pc EXCEPT ![t] = <<o, s>>]
  PROVE  /\ \A u \in Thread \ {t} : pc'[u] = pc[u]
         /\ pc'[t] = <<o, s>>
         /\ \A u \in Thread : \A op \in Op : \A step \in Step :
              At(u, op, step)' <=> (IF u = t THEN o = op /\ s = step
                                             ELSE At(u, op, step))
BY DEF TypeOK, At

\* A step that leaves cells and counters alone, and claims nothing.
LEMMA QuietStep ==
  ASSUME QueueInv, TypeOK', UNCHANGED <<sequence, enqueue_pos, dequeue_pos>>,
         \A u \in Thread : \A op \in Op :
           Claims(u, op)' => Claims(u, op) /\ pos'[u] = pos[u],
         ReadyInv', ItemsInv'
  PROVE  QueueInv'
<1>1. Bounds' BY DEF QueueInv, Bounds
<1>2. CellsInv' BY DEF QueueInv, CellsInv
<1>3. "enqueue" \in Op /\ "dequeue" \in Op BY DEF Op
<1>4. EnqueueClaims' BY <1>3 DEF QueueInv, EnqueueClaims
<1>5. DequeueClaims' BY <1>3 DEF QueueInv, DequeueClaims
<1>6. ClaimsDiffer' BY DEF QueueInv, ClaimsDiffer
<1> QED BY <1>1, <1>2, <1>4, <1>5, <1>6 DEF QueueInv

LEMMA CallKeeps ==
  ASSUME QueueInv, NEW t \in Thread,
         (\E v \in Item : CallEnqueue(t, v)) \/ CallDequeue(t)
  PROVE  QueueInv'
<1>1. PICK op \in Op : Goto(t, op, "load") /\ item'[t] \in Item \cup {Nothing}
         /\ (op = "enqueue" => item'[t] \in Item) /\ (op = "dequeue" => item'[t] = Nothing)
         /\ item' = [item EXCEPT ![t] = item'[t]]
         /\ UNCHANGED <<queueVars, limit, pos>>
  BY DEF CallEnqueue, CallDequeue, Op, QueueInv, Bounds, TypeOK
<1>2. TypeOK BY DEF QueueInv, Bounds
<1>3. TypeOK' BY <1>1, <1>2 DEF TypeOK, Goto, queueVars, Op, Step
<1>4. \A u \in Thread : \A o \in Op : \A step \in Step :
        At(u, o, step)' <=> (IF u = t THEN op = o /\ "load" = step
                                      ELSE At(u, o, step))
  BY <1>1, <1>2, Moves DEF Goto, Step
<1>5. \A u \in Thread : \A o \in Op : Claims(u, o)' => Claims(u, o) /\ pos'[u] = pos[u]
  BY <1>1, <1>4 DEF Claims, Step
<1>6. ReadyInv'
  BY <1>1, <1>4 DEF QueueInv, ReadyInv, Step, Counter, queueVars
<1>7. ItemsInv'
  BY <1>1, <1>2, <1>4 DEF QueueInv, ItemsInv, Step, Op, TypeOK
<1> QED BY <1>1, <1>3, <1>5, <1>6, <1>7, QuietStep DEF queueVars

\* ... and after one of them has returned.
LEMMA Returns ==
  ASSUME TypeOK, NEW t \in Thread, NEW result, Return(t, result)
  PROVE  /\ \A u \in Thread \ {t} : pc'[u] = pc[u] /\ pos'[u] = pos[u]
                                      /\ item'[u] = item[u]
         /\ pc'[t] = Idle /\ item'[t] = result
         /\ \A u \in Thread : \A op \in Op : \A step \in Step :
              At(u, op, step)' <=> u # t /\ At(u, op, step)
BY DEF TypeOK, At, Return, Idle, Op

LEMMA LoadPosKeeps ==
  ASSUME QueueInv, NEW t \in Thread, NEW op \in Op, LoadPos(t, op)
  PROVE  QueueInv'
<1>1. TypeOK BY DEF QueueInv, Bounds
<1>2. Counter(op) \in Nat BY <1>1 DEF TypeOK, Counter
<1>3. /\ pos' = [pos EXCEPT ![t] = Counter(op)]
      /\ UNCHANGED <<sequence, data, enqueue_pos, dequeue_pos, limit, item>>
      /\ Goto(t, op, "sequence")
  BY DEF LoadPos, queueVars
<1>4. TypeOK' BY <1>1, <1>2, <1>3 DEF TypeOK, Goto, Step
<1>5. \A u \in Thread : \A o \in Op : \A step \in Step :
        At(u, o, step)' <=> (IF u = t THEN op = o /\ "sequence" = step
                                      ELSE At(u, o, step))
  BY <1>1, <1>3, Moves DEF Goto, Step
<1>6. \A u \in Thread : u # t => pos'[u] = pos[u] BY <1>1, <1>3 DEF TypeOK
<1>7. pos'[t] = Counter(op) BY <1>1, <1>3 DEF TypeOK
<1>8. \A u \in Thread : \A o \in Op : Claims(u, o)' => Claims(u, o) /\ pos'[u] = pos[u]
  BY <1>5, <1>6 DEF Claims, Step
<1>9. ReadyInv'
  BY <1>2, <1>3, <1>5, <1>6, <1>7 DEF QueueInv, ReadyInv, Step, Counter
<1>10. ItemsInv'
  BY <1>3, <1>5 DEF QueueInv, ItemsInv, Step, Op, LoadPos, At
<1> QED BY <1>3, <1>4, <1>8, <1>9, <1>10, QuietStep

LEMMA LoadSequenceKeeps ==
  ASSUME N < 2 ^ Width, QueueInv, NEW t \in Thread, NEW op \in Op,
         LoadSequence(t, op)
  PROVE  QueueInv'
<1> DEFINE dif == Dif(sequence[pos[t] % N], Ready(op, pos[t]))
<1>1. TypeOK BY DEF QueueInv, Bounds
<1>2. /\ UNCHANGED <<sequence, data, enqueue_pos, dequeue_pos, limit>>
      /\ At(t, op, "sequence")
  BY DEF LoadSequence, queueVars, At
<1>3. CASE dif = 0 /\ Goto(t, op, "exchange") /\ UNCHANGED <<pos, item>>
  <2>1. TypeOK' BY <1>1, <1>2, <1>3 DEF TypeOK, Goto, Step
  <2>2. \A u \in Thread : \A o \in Op : \A step \in Step :
          At(u, o, step)' <=> (IF u = t THEN op = o /\ "exchange" = step
                                        ELSE At(u, o, step))
    BY <1>1, <1>3, Moves DEF Goto, Step
  <2>3. \A u \in Thread : \A o \in Op : Claims(u, o)' => Claims(u, o) /\ pos'[u] = pos[u]
    BY <1>3, <2>2 DEF Claims, Step
  <2>4. pos[t] = Counter(op) => sequence[pos[t] % N] = Ready(op, pos[t])
    BY <1>3, DifAtCounter
  <2>5. pos[t] <= Counter(op) BY <1>2 DEF QueueInv, ReadyInv
  <2>6. ReadyInv'
    BY <1>2, <1>3, <2>2, <2>4, <2>5 DEF QueueInv, ReadyInv, Step, Counter
  <2>7. ItemsInv'
    BY <1>2, <1>3, <2>2 DEF QueueInv, ItemsInv, Step, Op
  <2> QED BY <1>2, <2>1, <2>3, <2>6, <2>7, QuietStep
<1>4. CASE Return(t, Nothing)
  <2>1. TypeOK' BY <1>1, <1>2, <1>4 DEF TypeOK, Return
  <2>2. /\ \A u \in Thread : \A o \in Op : \A step \in Step :
             At(u, o, step)' <=> u # t /\ At(u, o, step)
        /\ \A u \in Thread : u # t => pos'[u] = pos[u] /\ item'[u] = item[u]
    BY <1>1, <1>4, Returns
  <2>3. \A u \in Thread : \A o \in Op : Claims(u, o)' => Claims(u, o) /\ pos'[u] = pos[u]
    BY <2>2 DEF Claims, Step
  <2>4. ReadyInv' BY <1>2, <2>2 DEF QueueInv, ReadyInv, Step, Counter
  <2>5. ItemsInv' BY <2>2 DEF QueueInv, ItemsInv, Step, Op
  <2> QED BY <1>2, <2>1, <2>3, <2>4, <2>5, QuietStep
<1>5. CASE Goto(t, op, "load") /\ UNCHANGED <<pos, item>>
  <2>1. TypeOK' BY <1>1, <1>2, <1>5 DEF TypeOK, Goto, Step
  <2>2. \A u \in Thread : \A o \in Op : \A step \in Step :
          At(u, o, step)' <=> (IF u = t THEN op = o /\ "load" = step
                                        ELSE At(u, o, step))
    BY <1>1, <1>5, Moves DEF Goto, Step
  <2>3. \A u \in Thread : \A o \in Op : Claims(u, o)' => Claims(u, o) /\ pos'[u] = pos[u]
    BY <1>5, <2>2 DEF Claims, Step
  <2>4. ReadyInv' BY <1>2, <1>5, <2>2 DEF QueueInv, ReadyInv, Step, Counter
  <2>5. ItemsInv' BY <1>2, <1>5, <2>2 DEF QueueInv, ItemsInv, Step, Op
  <2> QED BY <1>2, <2>1, <2>3, <2>4, <2>5, QuietStep
<1> HIDE DEF dif
<1> QED BY <1>3, <1>4, <1>5 DEF LoadSequence, dif

LEMMA ExchangeFailsKeeps ==
  ASSUME QueueInv, NEW t \in Thread, NEW op \in Op, ExchangeFails(t, op)
  PROVE  QueueInv'
<1>1. TypeOK BY DEF QueueInv, Bounds
<1>2. /\ UNCHANGED <<sequence, data, enqueue_pos, dequeue_pos, limit, pos, item>>
      /\ At(t, op, "exchange") /\ Goto(t, op, "sequence")
  BY DEF ExchangeFails, queueVars, At
<1>3. TypeOK' BY <1>1, <1>2 DEF TypeOK, Goto, Step
<1>4. \A u \in Thread : \A o \in Op : \A step \in Step :
        At(u, o, step)' <=> (IF u = t THEN op = o /\ "sequence" = step
                                      ELSE At(u, o, step))
  BY <1>1, <1>2, Moves DEF Goto, Step
<1>5. \A u \in Thread : \A o \in Op : Claims(u, o)' => Claims(u, o) /\ pos'[u] = pos[u]
  BY <1>2, <1>4 DEF Claims, Step
<1>6. ReadyInv' BY <1>2, <1>4 DEF QueueInv, ReadyInv, Step, Counter
<1>7. ItemsInv' BY <1>2, <1>4 DEF QueueInv, ItemsInv, Step, Op
<1> QED BY <1>2, <1>3, <1>5, <1>6, <1>7, QuietStep

LEMMA AccessKeeps ==
  ASSUME QueueInv, NEW t \in Thread, NEW op \in Op, Access(t, op)
  PROVE  QueueInv'
<1>1. TypeOK BY DEF QueueInv, Bounds
<1>2. /\ UNCHANGED <<sequence, enqueue_pos, dequeue_pos, limit, pos>>
      /\ At(t, op, "access") /\ Goto(t, op, "store")
  BY DEF Access, At
<1>3. pos[t] % N \in Cell BY Numbers, CellOf
<1>4. TypeOK'
  <2>1. CASE op = "enqueue"
    BY <1>1, <1>2, <1>3, <2>1 DEF TypeOK, Goto, Step, Access
  <2>2. CASE op = "dequeue"
    BY <1>1, <1>2, <1>3, <2>2 DEF TypeOK, Goto, Step, Access
  <2> QED BY <2>1, <2>2 DEF Op
<1>5. \A u \in Thread : \A o \in Op : \A step \in Step :
        At(u, o, step)' <=> (IF u = t THEN op = o /\ "store" = step
                                      ELSE At(u, o, step))
  BY <1>1, <1>2, Moves DEF Goto, Step
<1>6. \A u \in Thread : \A o \in Op : Claims(u, o)' => Claims(u, o) /\ pos'[u] = pos[u]
  BY <1>2, <1>5 DEF Claims, Step
<1>7. ReadyInv' BY <1>2, <1>5 DEF QueueInv, ReadyInv, Step, Counter
<1>8. \A u \in Thread : u # t => item'[u] = item[u] BY <1>1 DEF Access, TypeOK
<1>9. ItemsInv' BY <1>2, <1>5, <1>8 DEF QueueInv, ItemsInv, Step, Op
<1> QED BY <1>2, <1>4, <1>6, <1>7, <1>9, QuietStep

LEMMA ExchangeKeeps ==
  ASSUME QueueInv, NEW t \in Thread, NEW op \in Op, Exchange(t, op)
  PROVE  QueueInv'
<1>1. TypeOK BY DEF QueueInv, Bounds
<1>2. /\ UNCHANGED <<sequence, data, limit, pos, item>>
      /\ At(t, op, "exchange") /\ Goto(t, op, "access") /\ pos[t] = Counter(op)
  BY DEF Exchange, At
<1>3. \A u \in Thread : \A o \in Op : \A step \in Step :
        At(u, o, step)' <=> (IF u = t THEN op = o /\ "access" = step
                                      ELSE At(u, o, step))
  BY <1>1, <1>2, Moves DEF Goto, Step
<1>4. sequence[Counter(op) % N] = Ready(op, Counter(op))
  BY <1>2 DEF QueueInv, ReadyInv
<1>5. \A u \in Thread : \A o \in Op : Claims(u, o)' <=> Claims(u, o) \/ (u = t /\ o = op)
  BY <1>2, <1>3 DEF Claims, Step, At
<1>6. \A u \in Thread : \A o \in Op :
        Claims(u, o) => u # t /\ pos[u] % N # Counter(op) % N
  BY <1>2, <1>4, NextIsFree DEF Claims, At, Op
<1>7. \A u \in Thread : \A o \in Op : Claims(u, o) => pos[u] # Counter(op)
  BY <1>6
<1>8. ClaimsDiffer'
  BY <1>2, <1>5, <1>7 DEF QueueInv, ClaimsDiffer
<1>9. ItemsInv' BY <1>2, <1>3 DEF QueueInv, ItemsInv, Step, Op
<1>10. "enqueue" \in Op /\ "dequeue" \in Op BY DEF Op
<1>11. CASE op = "enqueue"
  <2>1. enqueue_pos' = enqueue_pos + 1 /\ dequeue_pos' = dequeue_pos
    BY <1>2, <1>11 DEF Exchange, Counter
  <2>2. sequence[enqueue_pos % N] = enqueue_pos
    BY <1>4, <1>11 DEF Counter, Ready
  <2>3. enqueue_pos - N < dequeue_pos BY <2>2, ReadyToFill
  <2>4. TypeOK' BY <1>1, <1>2, <2>1 DEF TypeOK, Goto, Step
  <2>5. Bounds' BY <2>1, <2>3, <2>4, Numbers DEF Bounds
  <2>6. CellsInv'
    <3> SUFFICES ASSUME NEW p \in enqueue_pos + 1 - N .. enqueue_pos
                 PROVE  \/ sequence[p % N] = p /\ dequeue_pos <= p
                        \/ sequence[p % N] = p + 1
                        \/ sequence[p % N] = p + N /\ p < dequeue_pos
      BY <1>2, <2>1, Numbers DEF CellsInv
    <3>1. CASE p = enqueue_pos BY <2>2, <3>1, Numbers
    <3>2. CASE p \in enqueue_pos - N .. enqueue_pos - 1
      BY <3>2 DEF QueueInv, CellsInv
    <3> QED BY <3>1, <3>2, Numbers
  <2>7. EnqueueClaims'
    <3>1. Claims(t, "enqueue")' => dequeue_pos <= pos[t] /\ pos[t] < enqueue_pos + 1
                                   /\ sequence[pos[t] % N] = pos[t]
      BY <1>2, <1>11, <2>2, Numbers DEF Counter
    <3>2. \A u \in Thread : u # t /\ Claims(u, "enqueue")' =>
            dequeue_pos <= pos[u] /\ pos[u] < enqueue_pos + 1
            /\ sequence[pos[u] % N] = pos[u]
      BY <1>5, <1>10, Numbers DEF QueueInv, EnqueueClaims
    <3> QED BY <1>2, <2>1, <3>1, <3>2 DEF EnqueueClaims
  <2>8. DequeueClaims'
    <3> SUFFICES ASSUME NEW u \in Thread, Claims(u, "dequeue")'
                 PROVE  /\ enqueue_pos' - N <= pos[u] /\ pos[u] < dequeue_pos
                        /\ sequence[pos[u] % N] = pos[u] + 1
      BY <1>2, <2>1 DEF DequeueClaims
    <3>1. Claims(u, "dequeue") BY <1>5, <1>10, <1>11
    <3>2. /\ enqueue_pos - N <= pos[u] /\ pos[u] < dequeue_pos
          /\ sequence[pos[u] % N] = pos[u] + 1
      BY <3>1 DEF QueueInv, DequeueClaims
    <3>3. pos[u] # enqueue_pos - N
      BY <1>6, <1>10, <1>11, <3>1, Numbers, CellOf DEF Counter
    <3> QED BY <2>1, <3>2, <3>3, Numbers
  <2>9. ReadyInv'
    <3> SUFFICES ASSUME NEW u \in Thread, NEW o \in Op,
                        At(u, o, "sequence")' \/ At(u, o, "exchange")'
                 PROVE  /\ pos[u] <= Counter(o)'
                        /\ At(u, o, "exchange")' /\ pos[u] = Counter(o)' =>
                             sequence[pos[u] % N] = Ready(o, pos[u])
      BY <1>2 DEF ReadyInv
    <3>1. At(u, o, "sequence") \/ At(u, o, "exchange") BY <1>3 DEF Step
    <3>2. At(u, o, "exchange")' => At(u, o, "exchange") BY <1>3 DEF Step
    <3>3. pos[u] <= Counter(o) BY <3>1 DEF QueueInv, ReadyInv
    <3>4. CASE o = "enqueue" BY <2>1, <3>3, <3>4, Numbers DEF Counter
    <3>5. CASE o = "dequeue"
      BY <2>1, <3>2, <3>3, <3>5 DEF Counter, QueueInv, ReadyInv
    <3> QED BY <3>4, <3>5 DEF Op
  <2> QED BY <1>8, <1>9, <2>5, <2>6, <2>7, <2>8, <2>9 DEF QueueInv
<1>12. CASE op = "dequeue"
  <2>1. dequeue_pos' = dequeue_pos + 1 /\ enqueue_pos' = enqueue_pos
    BY <1>2, <1>12 DEF Exchange, Counter
  <2>2. sequence[dequeue_pos % N] = dequeue_pos + 1
    BY <1>4, <1>12 DEF Counter, Ready
  <2>3. dequeue_pos < enqueue_pos BY <2>2, ReadyToEmpty
  <2>4. TypeOK' BY <1>1, <1>2, <2>1 DEF TypeOK, Goto, Step
  <2>5. Bounds' BY <2>1, <2>3, <2>4, Numbers DEF Bounds
  <2>6. CellsInv'
    <3> SUFFICES ASSUME NEW p \in enqueue_pos - N .. enqueue_pos - 1
                 PROVE  \/ sequence[p % N] = p /\ dequeue_pos + 1 <= p
                        \/ sequence[p % N] = p + 1
                        \/ sequence[p % N] = p + N /\ p < dequeue_pos + 1
      BY <1>2, <2>1, Numbers DEF CellsInv
    <3>1. CASE p = dequeue_pos BY <2>2, <3>1
    <3>2. CASE p # dequeue_pos
      BY <3>2, Numbers DEF QueueInv, CellsInv
    <3> QED BY <3>1, <3>2
  <2>7. EnqueueClaims'
    <3> SUFFICES ASSUME NEW u \in Thread, Claims(u, "enqueue")
                 PROVE  /\ dequeue_pos + 1 <= pos[u] /\ pos[u] < enqueue_pos
                        /\ sequence[pos[u] % N] = pos[u]
      BY <1>2, <1>5, <1>10, <1>12, <2>1 DEF EnqueueClaims
    <3>1. /\ dequeue_pos <= pos[u] /\ pos[u] < enqueue_pos
          /\ sequence[pos[u] % N] = pos[u]
      BY DEF QueueInv, EnqueueClaims
    <3>2. pos[u] # dequeue_pos BY <1>7, <1>10, <1>12 DEF Counter
    <3> QED BY <3>1, <3>2, Numbers
  <2>8. DequeueClaims'
    <3>1. Claims(t, "dequeue")' => enqueue_pos - N <= pos[t] /\ pos[t] < dequeue_pos + 1
                                   /\ sequence[pos[t] % N] = pos[t] + 1
      BY <1>2, <1>12, <2>2, Numbers DEF Counter
    <3>2. \A u \in Thread : u # t /\ Claims(u, "dequeue")' =>
            enqueue_pos - N <= pos[u] /\ pos[u] < dequeue_pos + 1
            /\ sequence[pos[u] % N] = pos[u] + 1
      BY <1>5, <1>10, Numbers DEF QueueInv, DequeueClaims
    <3> QED BY <1>2, <2>1, <3>1, <3>2 DEF DequeueClaims
  <2>9. ReadyInv'
    <3> SUFFICES ASSUME NEW u \in Thread, NEW o \in Op,
                        At(u, o, "sequence")' \/ At(u, o, "exchange")'
                 PROVE  /\ pos[u] <= Counter(o)'
                        /\ At(u, o, "exchange")' /\ pos[u] = Counter(o)' =>
                             sequence[pos[u] % N] = Ready(o, pos[u])
      BY <1>2 DEF ReadyInv
    <3>1. At(u, o, "sequence") \/ At(u, o, "exchange") BY <1>3 DEF Step
    <3>2. At(u, o, "exchange")' => At(u, o, "exchange") BY <1>3 DEF Step
    <3>3. pos[u] <= Counter(o) BY <3>1 DEF QueueInv, ReadyInv
    <3>4. CASE o = "dequeue" BY <2>1, <3>3, <3>4, Numbers DEF Counter
    <3>5. CASE o = "enqueue"
      BY <2>1, <3>2, <3>3, <3>5 DEF Counter, QueueInv, ReadyInv
    <3> QED BY <3>4, <3>5 DEF Op
  <2> QED BY <1>8, <1>9, <2>5, <2>6, <2>7, <2>8, <2>9 DEF QueueInv
<1> QED BY <1>11, <1>12 DEF Op

LEMMA StoreKeeps ==
  ASSUME QueueInv, NEW t \in Thread, NEW op \in Op, StoreSequence(t, op)
  PROVE  QueueInv'
<1> DEFINE result == IF op = "dequeue" THEN item[t] ELSE Nothing
<1>1. TypeOK BY DEF QueueInv, Bounds
<1>2. /\ UNCHANGED <<data, enqueue_pos, dequeue_pos, limit>>
      /\ At(t, op, "store") /\ Return(t, result) /\ Claims(t, op)
      /\ sequence' = [sequence EXCEPT ![pos[t] % N] = Done(op, pos[t])]
  BY DEF StoreSequence, At, Claims
<1>3. result \in Item \cup {Nothing} BY <1>1 DEF TypeOK
<1> HIDE DEF result
<1>4. /\ \A u \in Thread : \A o \in Op : \A step \in Step :
           At(u, o, step)' <=> u # t /\ At(u, o, step)
      /\ \A u \in Thread : u # t => pos'[u] = pos[u] /\ item'[u] = item[u]
  BY <1>1, <1>2, Returns
<1>5. pos[t] \in Nat /\ pos[t] % N \in Cell /\ Done(op, pos[t]) \in Nat
  BY Numbers, CellOf DEF Done
<1>6. TypeOK' BY <1>1, <1>2, <1>3, <1>5 DEF TypeOK, Return
<1>7. Bounds' BY <1>2, <1>6, Numbers DEF Bounds
<1>8. \A p \in Int : sequence'[p % N] =
        IF p % N = pos[t] % N THEN Done(op, pos[t]) ELSE sequence[p % N]
  BY <1>1, <1>2, CellOf DEF TypeOK
<1>9. \A u \in Thread : \A o \in Op :
        Claims(u, o)' => u # t /\ Claims(u, o) /\ pos'[u] = pos[u]
                         /\ sequence'[pos[u] % N] = sequence[pos[u] % N]
  <2> SUFFICES ASSUME NEW u \in Thread, NEW o \in Op, Claims(u, o)'
               PROVE  u # t /\ Claims(u, o) /\ pos'[u] = pos[u]
                      /\ sequence'[pos[u] % N] = sequence[pos[u] % N]
    OBVIOUS
  <2>1. u # t /\ Claims(u, o) /\ pos'[u] = pos[u] BY <1>4 DEF Claims, Step
  <2>2. pos[u] % N # pos[t] % N BY <1>2, <2>1, ClaimsApart
  <2>3. pos[u] \in Int BY Numbers
  <2> QED BY <1>8, <2>1, <2>2, <2>3
<1>10. "enqueue" \in Op /\ "dequeue" \in Op BY DEF Op
<1>11. CellsInv'
  <2> SUFFICES ASSUME NEW p \in enqueue_pos - N .. enqueue_pos - 1
               PROVE  \/ sequence'[p % N] = p /\ dequeue_pos <= p
                      \/ sequence'[p % N] = p + 1
                      \/ sequence'[p % N] = p + N /\ p < dequeue_pos
    BY <1>2 DEF CellsInv
  <2>1. p \in Int BY Numbers
  <2>2. CASE p % N = pos[t] % N
    <3>1. pos[t] \in enqueue_pos - N .. enqueue_pos - 1 BY <1>2, ClaimsInLap
    <3>2. p - pos[t] < N /\ pos[t] - p < N /\ pos[t] \in Int BY <3>1, Numbers
    <3>3. p = pos[t] BY <2>1, <2>2, <3>2, SameCell
    <3>4. sequence'[p % N] = Done(op, p) BY <1>8, <2>1, <2>2, <3>3
    <3>5. op = "dequeue" => p < dequeue_pos
      BY <1>2, <3>3 DEF QueueInv, DequeueClaims
    <3> QED BY <3>4, <3>5 DEF Done, Op
  <2>3. CASE p % N # pos[t] % N
    BY <1>8, <2>1, <2>3 DEF QueueInv, CellsInv
  <2> QED BY <2>2, <2>3
<1>12. EnqueueClaims'
  BY <1>2, <1>9, <1>10 DEF QueueInv, EnqueueClaims
<1>13. DequeueClaims'
  BY <1>2, <1>9, <1>10 DEF QueueInv, DequeueClaims
<1>14. ClaimsDiffer' BY <1>9 DEF QueueInv, ClaimsDiffer
<1>15. ReadyInv'
  <2> SUFFICES ASSUME NEW u \in Thread, NEW o \in Op,
                      At(u, o, "sequence")' \/ At(u, o, "exchange")'
               PROVE  /\ pos'[u] <= Counter(o)
                      /\ At(u, o, "exchange")' /\ pos'[u] = Counter(o) =>
                           sequence'[pos'[u] % N] = Ready(o, pos'[u])
    BY <1>2 DEF ReadyInv, Counter
  <2>1. /\ At(u, o, "sequence") \/ At(u, o, "exchange")
        /\ At(u, o, "exchange")' => At(u, o, "exchange")
        /\ pos'[u] = pos[u]
    BY <1>4 DEF Step
  <2>2. pos'[u] <= Counter(o) BY <2>1 DEF QueueInv, ReadyInv
  <2>3. ASSUME At(u, o, "exchange"), pos[u] = Counter(o)
        PROVE  sequence'[pos[u] % N] = Ready(o, pos[u])
    <3>1. sequence[pos[u] % N] = Ready(o, pos[u])
      BY <2>3 DEF QueueInv, ReadyInv
    <3>2. pos[t] % N # pos[u] % N BY <1>2, <2>3, <3>1, NextIsFree
    <3>3. pos[u] \in Int BY Numbers
    <3> QED BY <1>8, <3>1, <3>2, <3>3
  <2> QED BY <2>1, <2>2, <2>3
<1>16. ItemsInv' BY <1>4 DEF QueueInv, ItemsInv, Step, Op
<1> QED BY <1>7, <1>11, <1>12, <1>13, <1>14, <1>15, <1>16 DEF QueueInv

\* Every step of the queue keeps its invariant.
LEMMA NextQueueInv ==
  ASSUME N < 2 ^ Width, QueueInv, [Next]_vars
  PROVE  QueueInv'
<1>1. CASE Next
  <2>1. PICK t \in Thread :
          \/ (\E v \in Item : CallEnqueue(t, v)) \/ CallDequeue(t)
          \/ Run(t)
    BY <1>1 DEF Next
  <2>2. CASE (\E v \in Item : CallEnqueue(t, v)) \/ CallDequeue(t)
    BY <2>2, CallKeeps
  <2>3. CASE Run(t)
    <3>1. PICK op \in Op :
            \/ LoadPos(t, op) \/ LoadSequence(t, op)
            \/ Exchange(t, op) \/ ExchangeFails(t, op)
            \/ Access(t, op) \/ StoreSequence(t, op)
      BY <2>3 DEF Run
    <3> QED BY <3>1, LoadPosKeeps, LoadSequenceKeeps, ExchangeKeeps,
               ExchangeFailsKeeps, AccessKeeps, StoreKeeps
  <2> QED BY <2>1, <2>2, <2>3
<1>2. CASE UNCHANGED vars
  BY <1>2 DEF vars, queueVars, QueueInv, Bounds, TypeOK, CellsInv, EnqueueClaims,
              DequeueClaims, ClaimsDiffer, ReadyInv, ItemsInv, At, Claims, Counter
<1> QED BY <1>1, <1>2

\* Every reachable state of MpMcQueue satisfies the invariant: what a cell's
\* number says of its position, and who may touch the cell.
THEOREM QueueInvariant == ASSUME N < 2 ^ Width PROVE Spec => []QueueInv
<1>1. Init => QueueInv BY InitQueueInv
<1>2. QueueInv /\ [Next]_vars => QueueInv' BY NextQueueInv
<1> QED BY <1>1, <1>2, PTL DEF Spec

\* Two callers never read or write the data of the same cell at the same time
\* (the unsafe read and write of Cell.data in enqueue and dequeue).
CellsAreExclusive ==
  \A t, u \in Thread : \A op, o \in Op :
    t # u /\ At(t, op, "access") /\ At(u, o, "access") => pos[t] % N # pos[u] % N

\* What makes `unsafe impl Sync for MpMcQueue` sound.
THEOREM NoDataRace == ASSUME N < 2 ^ Width PROVE Spec => []CellsAreExclusive
<1>1. QueueInv => CellsAreExclusive
  BY ClaimsApart DEF CellsAreExclusive, Claims
<1> QED BY <1>1, QueueInvariant, PTL

-----------------------------------------------------------------------------
(***************************************************************************)
(* The queue a caller sees.                                                *)
(***************************************************************************)
Value == Item \cup {Nothing}

Queue == [i \in 1 .. enqueue_pos - dequeue_pos |-> ItemAt(dequeue_pos + i - 1)]

GotBy(t) ==
  IF pc[t] = <<"dequeue", "access">> THEN data[pos[t] % N]
  ELSE IF pc[t][1] = "enqueue" THEN Nothing ELSE item[t]

Got == [t \in Thread |-> GotBy(t)]

\* The item of a position that an enqueue has claimed and not written is the
\* caller's, ...
LEMMA ItemOnItsWay ==
  ASSUME QueueInv, NEW t \in Thread, At(t, "enqueue", "access")
  PROVE  ItemAt(pos[t]) = item[t]
<1> DEFINE P(u) == pc[u] = <<"enqueue", "access">> /\ pos[u] = pos[t]
           w == CHOOSE u \in Thread : P(u)
<1>1. P(t) BY DEF At
<1>2. w \in Thread /\ P(w) BY <1>1
<1>3. "enqueue" \in Op BY DEF Op
<1>4. w = t
  BY <1>1, <1>2, <1>3 DEF QueueInv, ClaimsDiffer, Claims, At
<1>5. ItemAt(pos[t]) = item[w] BY <1>1 DEF ItemAt
<1> QED BY <1>4, <1>5

\* (the same of the next state)
LEMMA NextItemOnItsWay ==
  ASSUME QueueInv', NEW t \in Thread, NEW p,
         At(t, "enqueue", "access")', pos'[t] = p
  PROVE  ItemAt(p)' = item'[t]
<1> DEFINE P(u) == pc'[u] = <<"enqueue", "access">> /\ pos'[u] = p
           w == CHOOSE u \in Thread : P(u)
<1>1. P(t) BY DEF At
<1>2. w \in Thread /\ P(w) BY <1>1
<1>3. "enqueue" \in Op BY DEF Op
<1>4. w = t BY <1>1, <1>2, <1>3 DEF QueueInv, ClaimsDiffer, Claims, At
<1>5. ItemAt(p)' = item'[w] BY <1>1 DEF ItemAt
<1> QED BY <1>4, <1>5

\* ... and that of any other position is in its cell.
LEMMA ItemInCell ==
  ASSUME NEW p, \A t \in Thread : At(t, "enqueue", "access") => pos[t] # p
  PROVE  ItemAt(p) = data[p % N]
BY DEF ItemAt, At

LEMMA ItemIsValue ==
  ASSUME QueueInv, NEW p \in Int
  PROVE  ItemAt(p) \in Value
<1>1. TypeOK BY DEF QueueInv, Bounds
<1>2. CASE \E t \in Thread : At(t, "enqueue", "access") /\ pos[t] = p
  BY <1>1, <1>2, ItemOnItsWay DEF TypeOK, Value
<1>3. CASE \A t \in Thread : At(t, "enqueue", "access") => pos[t] # p
  BY <1>1, <1>3, ItemInCell, CellOf DEF TypeOK, Value
<1> QED BY <1>2, <1>3

\* A position keeps its item as long as its cell and the caller that brings it
\* do.
LEMMA SameItem ==
  ASSUME QueueInv, QueueInv', NEW p \in Int, data'[p % N] = data[p % N],
         \A t \in Thread :
           At(t, "enqueue", "access")' <=> At(t, "enqueue", "access"),
         \A t \in Thread :
           At(t, "enqueue", "access") => pos'[t] = pos[t] /\ item'[t] = item[t]
  PROVE  ItemAt(p)' = ItemAt(p)
<1>1. CASE \E t \in Thread : At(t, "enqueue", "access") /\ pos[t] = p
  <2>1. PICK t \in Thread : At(t, "enqueue", "access") /\ pos[t] = p BY <1>1
  <2>2. ItemAt(p) = item[t] BY <2>1, ItemOnItsWay
  <2>3. At(t, "enqueue", "access")' /\ pos'[t] = p BY <2>1
  <2>4. ItemAt(p)' = item'[t] BY <2>3, NextItemOnItsWay
  <2> QED BY <2>1, <2>2, <2>4
<1>2. CASE \A t \in Thread : At(t, "enqueue", "access") => pos[t] # p
  <2>1. ItemAt(p) = data[p % N] BY <1>2, ItemInCell
  <2>2. \A t \in Thread : At(t, "enqueue", "access")' => pos'[t] # p BY <1>2
  <2>3. ItemAt(p)' = data'[p % N] BY <2>2 DEF ItemAt, At
  <2> QED BY <2>1, <2>3
<1> QED BY <1>1, <1>2

-----------------------------------------------------------------------------
(***************************************************************************)
(* Every step is a step of BoundedQueue, or none.                          *)
(***************************************************************************)
LEMMA QueueIsSeq ==
  ASSUME QueueInv
  PROVE  /\ Queue \in Seq(Value) /\ Len(Queue) = enqueue_pos - dequeue_pos
         /\ \A i \in 1 .. enqueue_pos - dequeue_pos :
              Queue[i] = ItemAt(dequeue_pos + i - 1)
<1> DEFINE n == enqueue_pos - dequeue_pos
<1>1. n \in Nat BY Numbers
<1>2. \A i \in 1 .. n : ItemAt(dequeue_pos + i - 1) \in Value
  <2> TAKE i \in 1 .. n
  <2>1. dequeue_pos + i - 1 \in Int BY <1>1, Numbers
  <2> QED BY <2>1, ItemIsValue
<1>3. Queue \in [1 .. n -> Value] BY <1>2 DEF Queue
<1>4. Queue \in Seq(Value) BY <1>1, <1>3, SeqDef
<1>5. Len(Queue) = n BY <1>1, <1>4, LenProperties DEF Queue
<1> QED BY <1>4, <1>5 DEF Queue

\* The queue is the same if no counter moves and every position keeps its item.
LEMMA SameQueue ==
  ASSUME QueueInv, UNCHANGED <<enqueue_pos, dequeue_pos>>,
         \A p \in dequeue_pos .. enqueue_pos - 1 : ItemAt(p)' = ItemAt(p)
  PROVE  Queue' = Queue
<1>1. \A i \in 1 .. enqueue_pos - dequeue_pos :
        ItemAt(dequeue_pos + i - 1)' = ItemAt(dequeue_pos + i - 1)
  <2> TAKE i \in 1 .. enqueue_pos - dequeue_pos
  <2>1. dequeue_pos + i - 1 \in dequeue_pos .. enqueue_pos - 1 BY Numbers
  <2> QED BY <2>1
<1> QED BY <1>1 DEF Queue

LEMMA QuietQueue ==
  ASSUME QueueInv, QueueInv', UNCHANGED <<enqueue_pos, dequeue_pos, data>>,
         \A t \in Thread :
           At(t, "enqueue", "access")' <=> At(t, "enqueue", "access"),
         \A t \in Thread :
           At(t, "enqueue", "access") => pos'[t] = pos[t] /\ item'[t] = item[t]
  PROVE  Queue' = Queue
<1>1. \A p \in dequeue_pos .. enqueue_pos - 1 : p \in Int BY Numbers
<1> QED BY <1>1, SameItem, SameQueue

\* A call forgets the last result.
LEMMA CallMaps ==
  ASSUME QueueInv, QueueInv', NEW t \in Thread,
         (\E v \in Item : CallEnqueue(t, v)) \/ CallDequeue(t)
  PROVE  Queue' = Queue /\ Got' = [Got EXCEPT ![t] = Nothing]
<1>1. PICK op \in Op :
        /\ Goto(t, op, "load") /\ pc[t] = Idle
        /\ (op = "dequeue" => item'[t] = Nothing)
        /\ \A u \in Thread : u # t => item'[u] = item[u]
        /\ UNCHANGED <<sequence, data, enqueue_pos, dequeue_pos, pos>>
  BY DEF CallEnqueue, CallDequeue, Op, QueueInv, Bounds, TypeOK, queueVars
<1>2. TypeOK BY DEF QueueInv, Bounds
<1>3. pc'[t] = <<op, "load">> /\ \A u \in Thread : u # t => pc'[u] = pc[u]
  BY <1>1, <1>2 DEF Goto, TypeOK
<1>4. Queue' = Queue BY <1>1, <1>3, QuietQueue DEF At, Idle
<1>5. GotBy(t)' = Nothing BY <1>1, <1>3 DEF GotBy, Op
<1>6. \A u \in Thread : u # t => GotBy(u)' = GotBy(u) BY <1>1, <1>3 DEF GotBy
<1> QED BY <1>4, <1>5, <1>6 DEF Got

\* Finding a position and looking at its cell change nothing a caller sees.
LEMMA LooksMap ==
  ASSUME QueueInv, QueueInv', NEW t \in Thread, NEW op \in Op,
         LoadPos(t, op) \/ LoadSequence(t, op) \/ ExchangeFails(t, op)
  PROVE  Queue' = Queue /\ Got' = Got
<1>1. TypeOK BY DEF QueueInv, Bounds
<1>2. PICK step \in {"load", "sequence", "exchange"} : pc[t] = <<op, step>>
  BY DEF LoadPos, LoadSequence, ExchangeFails
<1>3. /\ UNCHANGED <<sequence, data, enqueue_pos, dequeue_pos>>
      /\ \A u \in Thread : u # t => pc'[u] = pc[u] /\ pos'[u] = pos[u] /\ item'[u] = item[u]
      /\ \/ \E s \in {"load", "sequence", "exchange"} : pc'[t] = <<op, s>> /\ item'[t] = item[t]
         \/ pc'[t] = Idle /\ item'[t] = Nothing
  BY <1>1 DEF LoadPos, LoadSequence, ExchangeFails, Goto, Return, queueVars, TypeOK
<1>4. Queue' = Queue BY <1>2, <1>3, QuietQueue DEF At, Idle
<1>5. op = "dequeue" => item[t] = Nothing BY <1>2 DEF QueueInv, ItemsInv, At
<1>6. GotBy(t) = Nothing BY <1>2, <1>5 DEF GotBy, Op
<1>7. GotBy(t)' = Nothing BY <1>3, <1>5 DEF GotBy, Op, Idle
<1>8. \A u \in Thread : u # t => GotBy(u)' = GotBy(u) BY <1>3 DEF GotBy
<1> QED BY <1>4, <1>6, <1>7, <1>8 DEF Got

\* The successful exchange of an enqueue puts its item at the end.
LEMMA EnqueueMaps ==
  ASSUME QueueInv, QueueInv', NEW t \in Thread, Exchange(t, "enqueue")
  PROVE  /\ Len(Queue) < N /\ item[t] \in Item
         /\ Queue' = Append(Queue, item[t]) /\ Got' = Got
<1>1. TypeOK BY DEF QueueInv, Bounds
<1>2. "enqueue" \in Op BY DEF Op
<1>3. /\ pc[t] = <<"enqueue", "exchange">> /\ pos[t] = enqueue_pos
      /\ enqueue_pos' = enqueue_pos + 1 /\ dequeue_pos' = dequeue_pos
      /\ UNCHANGED <<sequence, data, pos, item>>
      /\ pc'[t] = <<"enqueue", "access">>
      /\ \A u \in Thread : u # t => pc'[u] = pc[u]
  BY <1>1 DEF Exchange, Counter, Goto, TypeOK
<1>4. sequence[enqueue_pos % N] = enqueue_pos
  BY <1>2, <1>3 DEF QueueInv, ReadyInv, At, Counter, Ready
<1>5. enqueue_pos - N < dequeue_pos BY <1>4, ReadyToFill
<1>6. Len(Queue) < N BY <1>5, QueueIsSeq, Numbers
<1>7. item[t] \in Item BY <1>3 DEF QueueInv, ItemsInv, At
<1>8. \A p \in Int : p = enqueue_pos => ItemAt(p)' = item[t]
  BY <1>3, NextItemOnItsWay DEF At
<1>9. \A p \in dequeue_pos .. enqueue_pos - 1 : ItemAt(p)' = ItemAt(p)
  <2> TAKE p \in dequeue_pos .. enqueue_pos - 1
  <2>1. p \in Int /\ p # enqueue_pos BY Numbers
  <2>2. CASE \E u \in Thread : At(u, "enqueue", "access") /\ pos[u] = p
    <3>1. PICK u \in Thread : At(u, "enqueue", "access") /\ pos[u] = p BY <2>2
    <3>2. At(u, "enqueue", "access")' /\ pos'[u] = p /\ item'[u] = item[u]
      BY <1>3, <3>1 DEF At
    <3> QED BY <3>1, <3>2, ItemOnItsWay, NextItemOnItsWay
  <2>3. CASE \A u \in Thread : At(u, "enqueue", "access") => pos[u] # p
    <3>1. ItemAt(p) = data[p % N] BY <2>3, ItemInCell
    <3>2. \A u \in Thread : At(u, "enqueue", "access")' => pos'[u] # p
      BY <1>3, <2>1, <2>3 DEF At
    <3>3. ItemAt(p)' = data'[p % N] BY <3>2 DEF ItemAt, At
    <3> QED BY <1>3, <3>1, <3>3
  <2> QED BY <2>2, <2>3
<1>10. Queue' = Append(Queue, item[t])
  <2> DEFINE n == enqueue_pos - dequeue_pos
             A == Append(Queue, item[t])
  <2>1. n \in Nat /\ enqueue_pos' - dequeue_pos' = n + 1 BY <1>3, Numbers
  <2>2. Queue \in Seq(Value) /\ Len(Queue) = n BY QueueIsSeq
  <2>3. item[t] \in Value BY <1>7 DEF Value
  <2>4. A = [i \in 1 .. n + 1 |-> IF i <= n THEN Queue[i] ELSE item[t]]
    BY <2>1, <2>2, <2>3
  <2>5. \A i \in 1 .. n + 1 :
          ItemAt(dequeue_pos + i - 1)' = IF i <= n THEN Queue[i] ELSE item[t]
    <3> TAKE i \in 1 .. n + 1
    <3> DEFINE p == dequeue_pos + i - 1
    <3>1. CASE i <= n
      <4>1. p \in dequeue_pos .. enqueue_pos - 1 /\ i \in 1 .. n
        BY <2>1, <3>1, Numbers
      <4>2. Queue[i] = ItemAt(p) BY <4>1, QueueIsSeq
      <4>3. \A q : q = p => ItemAt(q)' = ItemAt(q) BY <1>9, <4>1
      <4> QED BY <1>3, <3>1, <4>2, <4>3
    <3>2. CASE i = n + 1
      <4>1. p \in Int /\ p = enqueue_pos /\ ~ (i <= n) BY <2>1, <3>2, Numbers
      <4>2. \A q : q = p => ItemAt(q)' = item[t] BY <1>8, <4>1
      <4> QED BY <1>3, <4>1, <4>2
    <3> QED BY <2>1, <3>1, <3>2
  <2>6. Queue' = [i \in 1 .. n + 1 |-> ItemAt(dequeue_pos + i - 1)']
    BY <2>1 DEF Queue
  <2> QED BY <2>4, <2>5, <2>6
<1>11. Got' = Got
  <2>1. GotBy(t)' = GotBy(t) BY <1>3 DEF GotBy
  <2>2. \A u \in Thread : u # t => GotBy(u)' = GotBy(u) BY <1>3 DEF GotBy
  <2> QED BY <2>1, <2>2 DEF Got
<1> QED BY <1>6, <1>7, <1>10, <1>11

\* The successful exchange of a dequeue takes the first item.
LEMMA DequeueMaps ==
  ASSUME QueueInv, QueueInv', NEW t \in Thread, Exchange(t, "dequeue")
  PROVE  /\ Queue # <<>> /\ Got[t] = Nothing
         /\ Queue' = Tail(Queue) /\ Got' = [Got EXCEPT ![t] = Head(Queue)]
<1>1. TypeOK BY DEF QueueInv, Bounds
<1>2. "enqueue" \in Op /\ "dequeue" \in Op BY DEF Op
<1>3. /\ pc[t] = <<"dequeue", "exchange">> /\ pos[t] = dequeue_pos
      /\ dequeue_pos' = dequeue_pos + 1 /\ enqueue_pos' = enqueue_pos
      /\ UNCHANGED <<sequence, data, pos, item>>
      /\ pc'[t] = <<"dequeue", "access">>
      /\ \A u \in Thread : u # t => pc'[u] = pc[u]
  BY <1>1 DEF Exchange, Counter, Goto, TypeOK
<1>4. sequence[dequeue_pos % N] = dequeue_pos + 1
  BY <1>2, <1>3 DEF QueueInv, ReadyInv, At, Counter, Ready
<1>5. dequeue_pos < enqueue_pos BY <1>4, ReadyToEmpty
<1> DEFINE n == enqueue_pos - dequeue_pos
<1>6. n \in Nat /\ n > 0 /\ enqueue_pos' - dequeue_pos' = n - 1
  BY <1>3, <1>5, Numbers
<1>7. Queue \in Seq(Value) /\ Len(Queue) = n BY QueueIsSeq
<1>8. Queue # <<>> BY <1>6, <1>7, EmptySeq
<1>9. ItemAt(dequeue_pos) = data[dequeue_pos % N]
  <2>1. \A u \in Thread : At(u, "enqueue", "access") => pos[u] # dequeue_pos
    <3> TAKE u \in Thread
    <3> HAVE At(u, "enqueue", "access")
    <3>1. sequence[pos[u] % N] = pos[u] BY DEF QueueInv, EnqueueClaims, Claims
    <3> QED BY <1>4, <3>1, Numbers
  <2> QED BY <2>1, ItemInCell
<1>10. Head(Queue) = data[dequeue_pos % N]
  <2>1. Head(Queue) = Queue[1] BY <1>7, <1>8
  <2>2. Queue[1] = ItemAt(dequeue_pos + 1 - 1) BY <1>6, QueueIsSeq
  <2>3. dequeue_pos + 1 - 1 = dequeue_pos BY Numbers
  <2> QED BY <1>9, <2>1, <2>2, <2>3
<1>11. GotBy(t) = Nothing
  BY <1>3 DEF GotBy, QueueInv, ItemsInv, At
<1>12. GotBy(t)' = data[dequeue_pos % N] BY <1>3 DEF GotBy
<1>13. \A u \in Thread : u # t => GotBy(u)' = GotBy(u) BY <1>3 DEF GotBy
<1>14. Got[t] = Nothing /\ Got' = [Got EXCEPT ![t] = Head(Queue)]
  BY <1>10, <1>11, <1>12, <1>13 DEF Got
<1>15. \A p \in dequeue_pos .. enqueue_pos - 1 : ItemAt(p)' = ItemAt(p)
  <2>1. \A p \in dequeue_pos .. enqueue_pos - 1 : p \in Int BY Numbers
  <2> QED BY <1>3, <2>1, SameItem DEF At
<1>16. Queue' = Tail(Queue)
  <2>1. /\ Tail(Queue) \in Seq(Value) /\ Len(Tail(Queue)) = n - 1
        /\ \A i \in 1 .. n - 1 : Tail(Queue)[i] = Queue[i + 1]
    BY <1>7, <1>8, HeadTailProperties
  <2>2. \A i \in 1 .. n - 1 : ItemAt(dequeue_pos + i - 1)' = Queue[i + 1]
    <3> TAKE i \in 1 .. n - 1
    <3>1. i + 1 \in 1 .. n BY <1>6
    <3>2. Queue[i + 1] = ItemAt(dequeue_pos + (i + 1) - 1) BY <3>1, QueueIsSeq
    <3>3. /\ dequeue_pos' + i - 1 = dequeue_pos + (i + 1) - 1
          /\ dequeue_pos + (i + 1) - 1 \in dequeue_pos .. enqueue_pos - 1
      BY <1>3, <1>6, <3>1, Numbers
    <3>4. \A p \in dequeue_pos .. enqueue_pos - 1 :
            p = dequeue_pos' + i - 1 =>
              ItemAt(dequeue_pos + i - 1)' = ItemAt(p)'
      OBVIOUS
    <3> QED BY <1>15, <3>2, <3>3, <3>4
  <2>3. Queue' = [i \in 1 .. n - 1 |-> Queue[i + 1]]
    <3>1. Queue' = [i \in 1 .. n - 1 |-> ItemAt(dequeue_pos + i - 1)']
      BY <1>6 DEF Queue
    <3> QED BY <2>2, <3>1
  <2>4. Tail(Queue) = [i \in 1 .. n - 1 |-> Queue[i + 1]]
    <3>1. Tail(Queue) \in [1 .. n - 1 -> Value] BY <2>1, LenProperties
    <3> QED BY <2>1, <3>1
  <2> QED BY <2>3, <2>4
<1> QED BY <1>8, <1>14, <1>16

\* Writing the item to the claimed cell, or reading it, moves it only between
\* the caller and the cell.
LEMMA AccessMaps ==
  ASSUME QueueInv, QueueInv', NEW t \in Thread, NEW op \in Op, Access(t, op)
  PROVE  Queue' = Queue /\ Got' = Got
<1>1. TypeOK BY DEF QueueInv, Bounds
<1>2. /\ UNCHANGED <<sequence, enqueue_pos, dequeue_pos, pos>>
      /\ pc[t] = <<op, "access">> /\ pc'[t] = <<op, "store">>
      /\ \A u \in Thread : u # t => pc'[u] = pc[u] /\ item'[u] = item[u]
  BY <1>1 DEF Access, Goto, TypeOK
<1>3. "enqueue" \in Op /\ "dequeue" \in Op BY DEF Op
<1>4. pos[t] \in Int /\ pos[t] % N \in Cell BY Numbers, CellOf
<1>5. CASE op = "dequeue"
  <2>1. data' = data /\ item'[t] = data[pos[t] % N]
    BY <1>1, <1>5 DEF Access, TypeOK
  <2>2. Queue' = Queue BY <1>2, <1>5, <2>1, QuietQueue DEF At
  <2>3. GotBy(t)' = GotBy(t) BY <1>2, <1>5, <2>1 DEF GotBy
  <2>4. \A u \in Thread : u # t => GotBy(u)' = GotBy(u) BY <1>2, <2>1 DEF GotBy
  <2> QED BY <2>2, <2>3, <2>4 DEF Got
<1>6. CASE op = "enqueue"
  <2>1. item' = item /\ data' = [data EXCEPT ![pos[t] % N] = item[t]]
    BY <1>6 DEF Access
  <2>2. \A p \in Int : p % N # pos[t] % N => data'[p % N] = data[p % N]
    BY <1>1, <2>1, CellOf DEF TypeOK
  <2>3. data'[pos[t] % N] = item[t] BY <1>1, <1>4, <2>1 DEF TypeOK
  <2>4. Claims(t, "enqueue") BY <1>2, <1>6 DEF Claims, At
  <2>5. /\ dequeue_pos <= pos[t] /\ pos[t] < enqueue_pos
    BY <2>4 DEF QueueInv, EnqueueClaims
  <2>6. \A p \in dequeue_pos .. enqueue_pos - 1 : ItemAt(p)' = ItemAt(p)
    <3> TAKE p \in dequeue_pos .. enqueue_pos - 1
    <3>1. p \in Int /\ p - pos[t] < N /\ pos[t] - p < N BY <2>5, Numbers
    <3>2. CASE p = pos[t]
      <4>1. ItemAt(p) = item[t] BY <1>2, <1>6, <3>2, ItemOnItsWay DEF At
      <4>2. \A u \in Thread : At(u, "enqueue", "access")' => pos'[u] # p
        <5> TAKE u \in Thread
        <5> HAVE At(u, "enqueue", "access")'
        <5>1. u # t BY <1>2, <1>6 DEF At
        <5>2. Claims(u, "enqueue") BY <1>2, <5>1 DEF At, Claims
        <5> QED BY <1>2, <1>3, <2>4, <3>2, <5>1, <5>2 DEF QueueInv, ClaimsDiffer
      <4>3. ItemAt(p)' = data'[p % N] BY <4>2 DEF ItemAt, At
      <4> QED BY <2>3, <3>2, <4>1, <4>3
    <3>3. CASE p # pos[t]
      <4>1. p % N # pos[t] % N BY <1>4, <3>1, <3>3, SameCell
      <4>2. data'[p % N] = data[p % N] BY <2>2, <3>1, <4>1
      <4>3. CASE \E u \in Thread : At(u, "enqueue", "access") /\ pos[u] = p
        <5>1. PICK u \in Thread : At(u, "enqueue", "access") /\ pos[u] = p BY <4>3
        <5>2. u # t BY <3>3, <5>1
        <5>3. At(u, "enqueue", "access")' /\ pos'[u] = p /\ item'[u] = item[u]
          BY <1>2, <5>1, <5>2 DEF At
        <5> QED BY <5>1, <5>3, ItemOnItsWay, NextItemOnItsWay
      <4>4. CASE \A u \in Thread : At(u, "enqueue", "access") => pos[u] # p
        <5>1. ItemAt(p) = data[p % N] BY <4>4, ItemInCell
        <5>2. \A u \in Thread : At(u, "enqueue", "access")' => pos'[u] # p
          BY <1>2, <4>4 DEF At
        <5>3. ItemAt(p)' = data'[p % N] BY <5>2 DEF ItemAt, At
        <5> QED BY <4>2, <5>1, <5>3
      <4> QED BY <4>3, <4>4
    <3> QED BY <3>2, <3>3
  <2>7. Queue' = Queue BY <1>2, <2>6, SameQueue
  <2>8. \A u \in Thread : GotBy(u)' = GotBy(u)
    <3> TAKE u \in Thread
    <3>1. CASE u = t BY <1>2, <1>6, <3>1 DEF GotBy
    <3>2. CASE u # t /\ At(u, "dequeue", "access")
      <4>1. Claims(u, "dequeue") BY <3>2 DEF Claims
      <4>2. pos[t] % N # pos[u] % N BY <1>3, <2>4, <3>2, <4>1, ClaimsApart
      <4>3. pos[u] \in Int BY Numbers
      <4>4. data'[pos[u] % N] = data[pos[u] % N] BY <2>2, <4>2, <4>3
      <4> QED BY <1>2, <3>2, <4>4 DEF GotBy, At
    <3>3. CASE u # t /\ ~ At(u, "dequeue", "access")
      BY <1>2, <2>1, <3>3 DEF GotBy, At
    <3> QED BY <3>1, <3>2, <3>3
  <2> QED BY <2>7, <2>8 DEF Got
<1> QED BY <1>5, <1>6 DEF Op

\* Passing the cell on changes nothing a caller sees: a dequeue returns with
\* what it has read.
LEMMA StoreMaps ==
  ASSUME QueueInv, QueueInv', NEW t \in Thread, NEW op \in Op,
         StoreSequence(t, op)
  PROVE  Queue' = Queue /\ Got' = Got
<1>1. TypeOK BY DEF QueueInv, Bounds
<1>2. /\ UNCHANGED <<data, enqueue_pos, dequeue_pos>>
      /\ pc[t] = <<op, "store">> /\ pc'[t] = Idle
      /\ item'[t] = (IF op = "dequeue" THEN item[t] ELSE Nothing)
      /\ \A u \in Thread : u # t => pc'[u] = pc[u] /\ pos'[u] = pos[u] /\ item'[u] = item[u]
  BY <1>1 DEF StoreSequence, Return, TypeOK
<1>3. Queue' = Queue BY <1>2, QuietQueue DEF At, Idle
<1>4. GotBy(t)' = GotBy(t) BY <1>2 DEF GotBy, Op, Idle
<1>5. \A u \in Thread : u # t => GotBy(u)' = GotBy(u) BY <1>2 DEF GotBy
<1> QED BY <1>3, <1>4, <1>5 DEF Got

\* enqueue and dequeue of MpMcQueue take effect at their exchange, as the
\* operations of a queue of at most N items that is first in, first out: no item
\* is lost, torn or delivered twice.
THEOREM QueueIsImplemented == ASSUME N < 2 ^ Width PROVE Spec => ImplementsQueue
<1>1. Init => Abstract!Init
  <2> SUFFICES ASSUME Init PROVE Queue = <<>> /\ Got = [t \in Thread |-> Nothing]
    BY DEF Abstract!Init, Queue, Got, GotBy
  <2>1. /\ enqueue_pos \in Nat /\ dequeue_pos = enqueue_pos
        /\ pc = [t \in Thread |-> Idle] /\ item = [t \in Thread |-> Nothing]
    BY QueueAssumption DEF Init
  <2>2. QueueInv BY InitQueueInv
  <2>3. Queue = <<>>
    <3>1. Queue \in Seq(Value) /\ Len(Queue) = 0 BY <2>1, <2>2, QueueIsSeq
    <3> QED BY <3>1, EmptySeq
  <2>4. Got = [t \in Thread |-> Nothing] BY <2>1 DEF Got, GotBy, Idle
  <2> QED BY <2>3, <2>4
<1>2. QueueInv /\ QueueInv' /\ [Next]_vars => [Abstract!Next]_Abstract!vars
  <2> SUFFICES ASSUME QueueInv, QueueInv', [Next]_vars
               PROVE  \/ \E t \in Thread : Queue' = Queue /\ Got' = [Got EXCEPT ![t] = Nothing]
                      \/ Queue' = Queue /\ Got' = Got
                      \/ \E v \in Item : Len(Queue) < N /\ Queue' = Append(Queue, v) /\ Got' = Got
                      \/ \E t \in Thread :
                           /\ Queue # <<>> /\ Got[t] = Nothing
                           /\ Queue' = Tail(Queue)
                           /\ Got' = [Got EXCEPT ![t] = Head(Queue)]
    BY DEF Abstract!Next, Abstract!vars, Abstract!Call, Abstract!Enqueue,
           Abstract!Dequeue, Queue, Got, GotBy
  <2>1. CASE UNCHANGED vars
    BY <2>1 DEF vars, queueVars, Queue, Got, GotBy, ItemAt
  <2>2. CASE Next
    <3>1. PICK t \in Thread :
            \/ (\E v \in Item : CallEnqueue(t, v)) \/ CallDequeue(t)
            \/ Run(t)
      BY <2>2 DEF Next
    <3>2. CASE (\E v \in Item : CallEnqueue(t, v)) \/ CallDequeue(t)
      BY <3>2, CallMaps
    <3>3. CASE Run(t)
      <4>1. PICK op \in Op :
              \/ LoadPos(t, op) \/ LoadSequence(t, op) \/ ExchangeFails(t, op)
              \/ Exchange(t, op) \/ Access(t, op) \/ StoreSequence(t, op)
        BY <3>3 DEF Run
      <4>2. CASE LoadPos(t, op) \/ LoadSequence(t, op) \/ ExchangeFails(t, op)
        BY <4>2, LooksMap
      <4>3. CASE Exchange(t, op)
        BY <4>3, EnqueueMaps, DequeueMaps DEF Op
      <4>4. CASE Access(t, op) \/ StoreSequence(t, op)
        BY <4>4, AccessMaps, StoreMaps
      <4> QED BY <4>1, <4>2, <4>3, <4>4
    <3> QED BY <3>1, <3>2, <3>3
  <2> QED BY <2>1, <2>2
<1> QED BY <1>1, <1>2, QueueInvariant, PTL DEF ImplementsQueue, Abstract!Spec, Spec

-----------------------------------------------------------------------------
(***************************************************************************)
(* Who a cell waits for.                                                   *)
(***************************************************************************)
\* If the item of a position inside the queue is not there yet, an enqueue is
\* bringing it, and if it is still there behind dequeue_pos, a dequeue is taking it.
ClaimedInv ==
  \A p \in enqueue_pos - N .. enqueue_pos - 1 :
    /\ sequence[p % N] = p /\ dequeue_pos <= p => UnderWay("enqueue", p)
    /\ sequence[p % N] = p + 1 /\ p < dequeue_pos => UnderWay("dequeue", p)

LEMMA UnderWayIs ==
  ASSUME NEW op, NEW p
  PROVE  /\ UnderWay(op, p) <=> \E t \in Thread : Claims(t, op) /\ pos[t] = p
         /\ UnderWay(op, p)' <=> \E t \in Thread : Claims(t, op)' /\ pos'[t] = p
BY DEF UnderWay, Claims, At

LEMMA InitClaimed == Init => ClaimedInv
BY InitCells, QueueAssumption DEF ClaimedInv

\* Claims that last keep it while no number changes.
LEMMA ClaimsLast ==
  ASSUME ClaimedInv, UNCHANGED <<sequence, enqueue_pos, dequeue_pos>>,
         \A t \in Thread : \A op \in Op :
           Claims(t, op) => Claims(t, op)' /\ pos'[t] = pos[t]
  PROVE  ClaimedInv'
<1> SUFFICES ASSUME NEW p \in enqueue_pos - N .. enqueue_pos - 1
             PROVE  /\ sequence[p % N] = p /\ dequeue_pos <= p => UnderWay("enqueue", p)'
                    /\ sequence[p % N] = p + 1 /\ p < dequeue_pos => UnderWay("dequeue", p)'
  BY DEF ClaimedInv
<1>1. \A op \in Op : UnderWay(op, p) => UnderWay(op, p)' BY UnderWayIs
<1> QED BY <1>1 DEF ClaimedInv, Op

\* So it is while a caller that has no claim moves ...
LEMMA QuietClaims ==
  ASSUME ClaimedInv, UNCHANGED <<sequence, enqueue_pos, dequeue_pos>>,
         NEW t \in Thread, \A op \in Op : ~ Claims(t, op),
         \A u \in Thread : u # t => pc'[u] = pc[u] /\ pos'[u] = pos[u]
  PROVE  ClaimedInv'
<1>1. \A u \in Thread : \A op \in Op :
        Claims(u, op) => Claims(u, op)' /\ pos'[u] = pos[u]
  BY DEF Claims, At
<1> QED BY <1>1, ClaimsLast

LEMMA LooksKeepClaimed ==
  ASSUME QueueInv, ClaimedInv, NEW t \in Thread,
         \/ (\E v \in Item : CallEnqueue(t, v)) \/ CallDequeue(t)
         \/ \E op \in Op : LoadPos(t, op) \/ LoadSequence(t, op) \/ ExchangeFails(t, op)
  PROVE  ClaimedInv'
<1>1. TypeOK BY DEF QueueInv, Bounds
<1>2. UNCHANGED <<sequence, enqueue_pos, dequeue_pos>>
  BY DEF CallEnqueue, CallDequeue, LoadPos, LoadSequence, ExchangeFails, queueVars
<1>3. \A op \in Op : ~ Claims(t, op)
  BY DEF CallEnqueue, CallDequeue, LoadPos, LoadSequence, ExchangeFails, Claims, At, Idle, Op
<1>4. \A u \in Thread : u # t => pc'[u] = pc[u] /\ pos'[u] = pos[u]
  BY <1>1 DEF CallEnqueue, CallDequeue, LoadPos, LoadSequence, ExchangeFails, Goto,
              Return, TypeOK
<1> QED BY <1>2, <1>3, <1>4, QuietClaims

\* ... or one goes on with the claim it has.
LEMMA AccessKeepsClaimed ==
  ASSUME QueueInv, ClaimedInv, NEW t \in Thread, NEW op \in Op, Access(t, op)
  PROVE  ClaimedInv'
<1>1. TypeOK BY DEF QueueInv, Bounds
<1>2. /\ UNCHANGED <<sequence, enqueue_pos, dequeue_pos, pos>>
      /\ pc[t] = <<op, "access">> /\ pc' = [pc EXCEPT ![t] = <<op, "store">>]
  BY DEF Access, Goto
<1>3. pc'[t] = <<op, "store">> /\ \A u \in Thread : u # t => pc'[u] = pc[u]
  BY <1>1, <1>2 DEF TypeOK
<1>4. \A u \in Thread : \A o \in Op : Claims(u, o) => Claims(u, o)' /\ pos'[u] = pos[u]
  BY <1>2, <1>3 DEF Claims, At
<1> QED BY <1>2, <1>4, ClaimsLast

\* The exchange moves a counter over one position, whose cell is ready, and
\* claims it.
LEMMA ExchangeKeepsClaimed ==
  ASSUME QueueInv, ClaimedInv, NEW t \in Thread, NEW op \in Op, Exchange(t, op)
  PROVE  ClaimedInv'
<1>1. TypeOK BY DEF QueueInv, Bounds
<1>2. /\ UNCHANGED <<sequence, pos>> /\ pos[t] = Counter(op)
      /\ pc[t] = <<op, "exchange">> /\ pc' = [pc EXCEPT ![t] = <<op, "access">>]
      /\ \/ op = "enqueue" /\ enqueue_pos' = enqueue_pos + 1 /\ dequeue_pos' = dequeue_pos
         \/ op = "dequeue" /\ dequeue_pos' = dequeue_pos + 1 /\ enqueue_pos' = enqueue_pos
  BY DEF Exchange, Goto, Counter
<1>3. pc'[t] = <<op, "access">> /\ \A u \in Thread : u # t => pc'[u] = pc[u]
  BY <1>1, <1>2 DEF TypeOK
<1>4. \A u \in Thread : \A o \in Op : Claims(u, o) => Claims(u, o)' /\ pos'[u] = pos[u]
  BY <1>2, <1>3 DEF Claims, At
<1>5. \A p : \A o \in Op : UnderWay(o, p) => UnderWay(o, p)' BY <1>4, UnderWayIs
<1>6. ASSUME NEW p, p = Counter(op) PROVE UnderWay(op, p)'
  <2>1. Claims(t, op)' /\ pos'[t] = p BY <1>2, <1>3, <1>6 DEF Claims, At
  <2> QED BY <2>1, UnderWayIs
<1>7. "enqueue" \in Op /\ "dequeue" \in Op BY DEF Op
<1> SUFFICES ASSUME NEW p \in enqueue_pos' - N .. enqueue_pos' - 1
             PROVE  /\ sequence[p % N] = p /\ dequeue_pos' <= p => UnderWay("enqueue", p)'
                    /\ sequence[p % N] = p + 1 /\ p < dequeue_pos' => UnderWay("dequeue", p)'
  BY <1>2 DEF ClaimedInv
<1>8. CASE op = "enqueue" /\ p = enqueue_pos
  <2>1. UnderWay("enqueue", p)' BY <1>6, <1>8 DEF Counter
  <2>2. ~ (p < dequeue_pos') BY <1>2, <1>8, Numbers
  <2> QED BY <2>1, <2>2
<1>9. CASE op = "dequeue" /\ p = dequeue_pos
  <2>1. UnderWay("dequeue", p)' BY <1>6, <1>9 DEF Counter
  <2>2. ~ (dequeue_pos' <= p) BY <1>2, <1>9, Numbers
  <2> QED BY <2>1, <2>2
<1>10. CASE op = "enqueue" /\ p # enqueue_pos
  <2>1. p \in enqueue_pos - N .. enqueue_pos - 1 BY <1>2, <1>10, Numbers
  <2> QED BY <1>2, <1>5, <1>7, <1>10, <2>1 DEF ClaimedInv
<1>11. CASE op = "dequeue" /\ p # dequeue_pos
  <2>1. /\ p \in enqueue_pos - N .. enqueue_pos - 1
        /\ dequeue_pos' <= p => dequeue_pos <= p
        /\ p < dequeue_pos' => p < dequeue_pos
    BY <1>2, <1>11, Numbers
  <2> QED BY <1>2, <1>5, <1>7, <2>1 DEF ClaimedInv
<1> QED BY <1>8, <1>9, <1>10, <1>11 DEF Op

\* The store ends a claim, and its cell does not wait any more.
LEMMA StoreKeepsClaimed ==
  ASSUME QueueInv, ClaimedInv, NEW t \in Thread, NEW op \in Op, StoreSequence(t, op)
  PROVE  ClaimedInv'
<1>1. TypeOK BY DEF QueueInv, Bounds
<1>2. /\ UNCHANGED <<enqueue_pos, dequeue_pos>> /\ Claims(t, op)
      /\ sequence' = [sequence EXCEPT ![pos[t] % N] = Done(op, pos[t])]
  BY DEF StoreSequence, Claims, At
<1>3. \A u \in Thread : u # t => pc'[u] = pc[u] /\ pos'[u] = pos[u]
  BY <1>1 DEF StoreSequence, Return, TypeOK
<1>4. pos[t] \in enqueue_pos - N .. enqueue_pos - 1 /\ pos[t] \in Int
  BY <1>2, ClaimsInLap, Numbers
<1> SUFFICES ASSUME NEW p \in enqueue_pos - N .. enqueue_pos - 1
             PROVE  /\ sequence'[p % N] = p /\ dequeue_pos <= p => UnderWay("enqueue", p)'
                    /\ sequence'[p % N] = p + 1 /\ p < dequeue_pos => UnderWay("dequeue", p)'
  BY <1>2 DEF ClaimedInv
<1>5. p \in Int /\ p % N \in Cell /\ pos[t] % N \in Cell BY <1>4, Numbers, CellOf
<1>6. CASE p % N = pos[t] % N
  <2>1. p = pos[t]
    <3>1. p - pos[t] < N /\ pos[t] - p < N BY <1>4, Numbers
    <3> QED BY <1>4, <1>5, <1>6, <3>1, SameCell
  <2>2. sequence'[p % N] = Done(op, p) BY <1>1, <1>2, <1>5, <2>1 DEF TypeOK
  <2>3. CASE op = "enqueue"
    <3>1. sequence'[p % N] = p + 1 /\ dequeue_pos <= p
      BY <1>2, <2>1, <2>2, <2>3 DEF Done, QueueInv, EnqueueClaims
    <3> QED BY <1>5, <3>1, Numbers
  <2>4. CASE op = "dequeue"
    <3>1. sequence'[p % N] = p + N BY <2>2, <2>4 DEF Done
    <3> QED BY <1>5, <3>1, Numbers
  <2> QED BY <2>3, <2>4 DEF Op
<1>7. CASE p % N # pos[t] % N
  <2>1. sequence'[p % N] = sequence[p % N] BY <1>1, <1>2, <1>5, <1>7 DEF TypeOK
  <2>2. ASSUME NEW o, UnderWay(o, p) PROVE UnderWay(o, p)'
    <3>1. PICK u \in Thread : Claims(u, o) /\ pos[u] = p BY <2>2, UnderWayIs
    <3>2. u # t BY <1>7, <3>1
    <3>3. Claims(u, o)' /\ pos'[u] = p BY <1>3, <3>1, <3>2 DEF Claims, At
    <3> QED BY <3>3, UnderWayIs
  <2> QED BY <2>1, <2>2 DEF ClaimedInv
<1> QED BY <1>6, <1>7

LEMMA NextClaimed ==
  ASSUME QueueInv, ClaimedInv, [Next]_vars
  PROVE  ClaimedInv'
<1>1. CASE Next
  <2>1. PICK t \in Thread :
          \/ (\E v \in Item : CallEnqueue(t, v)) \/ CallDequeue(t)
          \/ Run(t)
    BY <1>1 DEF Next
  <2> QED BY <2>1, LooksKeepClaimed, ExchangeKeepsClaimed, AccessKeepsClaimed,
             StoreKeepsClaimed DEF Run
<1>2. CASE UNCHANGED vars
  BY <1>2 DEF vars, queueVars, ClaimedInv, UnderWay
<1> QED BY <1>1, <1>2

\* A cell that a counter is at and that is not ready for it is blocked.
LEMMA NotReadyIsBlocked ==
  ASSUME QueueInv, ClaimedInv, NEW op \in Op,
         sequence[Counter(op) % N] # Ready(op, Counter(op))
  PROVE  Blocked(op)
<1>1. CASE op = "dequeue"
  <2>1. sequence[dequeue_pos % N] # dequeue_pos + 1 BY <1>1 DEF Counter, Ready
  <2>2. SUFFICES ASSUME dequeue_pos # enqueue_pos PROVE UnderWay("enqueue", dequeue_pos)
    BY <1>1 DEF Blocked
  <2>3. dequeue_pos \in enqueue_pos - N .. enqueue_pos - 1 BY <2>2, Numbers
  <2>4. sequence[dequeue_pos % N] = dequeue_pos
    BY <2>1, <2>3, Numbers DEF QueueInv, CellsInv
  <2> QED BY <2>3, <2>4, Numbers DEF ClaimedInv
<1>2. CASE op = "enqueue"
  <2> DEFINE p == enqueue_pos - N
  <2>1. sequence[enqueue_pos % N] # enqueue_pos BY <1>2 DEF Counter, Ready
  <2>2. SUFFICES ASSUME enqueue_pos - dequeue_pos # N PROVE UnderWay("dequeue", p)
    BY <1>2 DEF Blocked
  <2>3. p \in enqueue_pos - N .. enqueue_pos - 1 /\ p < dequeue_pos BY <2>2, Numbers
  <2>4. sequence[p % N] = p + 1
    <3>1. p % N = enqueue_pos % N BY Numbers, CellOf
    <3> QED BY <2>1, <2>3, <3>1, OldestCell, Numbers
  <2> QED BY <2>3, <2>4 DEF ClaimedInv
<1> QED BY <1>1, <1>2 DEF Op

-----------------------------------------------------------------------------
(***************************************************************************)
(* When a call may give up.                                                *)
(***************************************************************************)
\* No call has been passed by so many others, between its load of the position
\* and its look at the cell, that the low bits take "far ahead" for "behind".
NotOvertaken ==
  \A t \in Thread : \A op \in Op :
    At(t, op, "sequence") => Counter(op) - pos[t] + N <= 2 ^ (Width - 1)

\* A difference that the comparison has room for has the right sign.
LEMMA DifIsNat ==
  ASSUME N < 2 ^ Width, NEW a \in Int, NEW b \in Int,
         0 <= a - b, a - b < 2 ^ (Width - 1)
  PROVE  Dif(a, b) \in Nat
<1> DEFINE m == 2 ^ Width
           h == 2 ^ (Width - 1)
           x == a - b
<1>1. m \in Nat \ {0} /\ h \in Int
  <2>1. m \in Int /\ h \in Int /\ N \in Nat /\ N < m BY QueueAssumption
  <2> QED BY <2>1
<1>2. Dif(a, b) = (IF x % m < h THEN x % m ELSE (x % m) - m) BY DEF Dif
<1>3. x \in Int /\ 0 <= x /\ x < h OBVIOUS
<1> HIDE DEF m, h, x
<1>4. x \div m \in Int /\ x % m \in 0 .. m - 1 /\ x = m * (x \div m) + (x % m)
  BY <1>1, <1>3, Division
<1>5. CASE x < m
  <2>1. x \in 0 .. m - 1 /\ x = m * 0 + x BY <1>1, <1>3, <1>5
  <2>2. x % m = x BY <1>1, <1>4, <2>1, DivisionUnique
  <2> QED BY <1>2, <1>3, <2>2
<1>6. CASE m <= x
  <2>1. x % m < h BY <1>1, <1>3, <1>4, <1>6
  <2> QED BY <1>2, <1>4, <2>1
<1> QED BY <1>1, <1>3, <1>5, <1>6

\* The cell of a position that the counter has passed is not behind it, and not
\* farther ahead than the counter and a lap.
LEMMA PassedPosition ==
  ASSUME QueueInv, NEW op \in Op, NEW p \in Nat, p < Counter(op)
  PROVE  /\ Ready(op, p) <= sequence[p % N]
         /\ sequence[p % N] - Ready(op, p) < Counter(op) - p + N
<1>1. /\ N \in Nat /\ N > 1 /\ enqueue_pos \in Nat /\ dequeue_pos \in Nat
      /\ enqueue_pos - N <= dequeue_pos /\ dequeue_pos <= enqueue_pos
  BY Numbers
<1>2. p < enqueue_pos BY <1>1 DEF Counter
\* The position of the last lap that has this cell now.
<1>3. PICK q \in enqueue_pos - N .. enqueue_pos - 1 :
        q % N = p % N /\ (q = p \/ p + N <= q)
  <2>1. CASE enqueue_pos - N <= p BY <1>1, <1>2, <2>1
  <2>2. CASE p < enqueue_pos - N
    <3>1. enqueue_pos - N \in Nat BY <1>1, <2>2
    <3>2. p % N \in Cell BY CellOf
    <3>3. PICK q \in enqueue_pos - N .. enqueue_pos - N + N - 1 : q % N = p % N
      BY <3>1, <3>2, CellHasPosition
    <3>4. p \in Int /\ q \in Int /\ p < q BY <1>1, <2>2, <3>3
    <3>5. ~ (q - p < N)
      <4>1. p - q < N BY <1>1, <3>4
      <4> QED BY <3>3, <3>4, <4>1, SameCell
    <3>6. q \in enqueue_pos - N .. enqueue_pos - 1 BY <1>1, <3>3
    <3>7. p + N <= q BY <1>1, <3>4, <3>5
    <3> QED BY <3>3, <3>6, <3>7
  <2> QED BY <1>1, <2>1, <2>2
<1>4. \/ sequence[p % N] = q /\ dequeue_pos <= q
      \/ sequence[p % N] = q + 1
      \/ sequence[p % N] = q + N /\ q < dequeue_pos
  BY <1>3 DEF QueueInv, CellsInv
<1> DEFINE s == sequence[p % N]
<1> HIDE DEF s
<1>5. \/ s = q /\ dequeue_pos <= q
      \/ s = q + 1
      \/ s = q + N /\ q < dequeue_pos
  BY <1>4 DEF s
<1>6. q \in Int /\ enqueue_pos - N <= q /\ q < enqueue_pos BY <1>1, <1>3
<1>7. CASE op = "enqueue"
  <2>1. Ready(op, p) = p /\ Counter(op) = enqueue_pos BY <1>7 DEF Ready, Counter
  <2>2. p <= s /\ s - p < enqueue_pos - p + N BY <1>1, <1>3, <1>5, <1>6
  <2> QED BY <2>1, <2>2 DEF s
<1>8. CASE op = "dequeue"
  <2>1. Ready(op, p) = p + 1 /\ Counter(op) = dequeue_pos
    BY <1>8 DEF Ready, Counter
  <2>2. p < dequeue_pos BY <2>1
  <2>3. p + 1 <= s /\ s - (p + 1) < dequeue_pos - p + N
    BY <1>1, <1>3, <1>5, <1>6, <2>2
  <2> QED BY <2>1, <2>3 DEF s
<1> QED BY <1>7, <1>8 DEF Op

\* A look that ends the call has seen the counter's own cell not ready.
LEMMA GivingUp ==
  ASSUME N < 2 ^ Width, QueueInv, ClaimedInv, NotOvertaken, NEW t \in Thread, NEW op \in Op,
         At(t, op, "sequence"),
         Dif(sequence[pos[t] % N], Ready(op, pos[t])) < 0
  PROVE  Blocked(op)
<1> DEFINE p == pos[t]
           a == sequence[p % N]
           b == Ready(op, p)
           h == 2 ^ (Width - 1)
<1>1. p \in Nat /\ Counter(op) \in Nat /\ N \in Nat /\ h \in Int
  BY Numbers, QueueAssumption DEF Counter
<1>2. a \in Int /\ b \in Int BY <1>1, NumberOfCell DEF Ready
<1>3. p <= Counter(op) BY DEF QueueInv, ReadyInv
<1>4. Counter(op) - p + N <= h BY DEF NotOvertaken
<1>5. Dif(a, b) < 0 OBVIOUS
<1>6. 0 < h BY <1>1, <1>3, <1>4, QueueAssumption
<1>7. p < Counter(op) => b <= a /\ a - b < Counter(op) - p + N
  BY <1>1, PassedPosition
<1>8. p = Counter(op) /\ a = b => Blocked(op)
  <2> HIDE DEF h
  <2>1. a = b => 0 <= a - b /\ a - b < h BY <1>2, <1>6
  <2>2. a = b => Dif(a, b) \in Nat BY <1>2, <2>1, DifIsNat DEF h
  <2> HIDE DEF a, b
  <2> QED BY <1>5, <2>2
<1>9. p = Counter(op) /\ a # b => Blocked(op) BY NotReadyIsBlocked
<1>10. p < Counter(op) => FALSE
  <2> SUFFICES ASSUME p < Counter(op) PROVE FALSE OBVIOUS
  <2> HIDE DEF a, b, h
  <2>1. 0 <= a - b /\ a - b < h BY <1>1, <1>2, <1>4, <1>7
  <2>2. Dif(a, b) \in Nat BY <1>2, <2>1, DifIsNat DEF h
  <2> QED BY <1>5, <2>2
<1> HIDE DEF a, b
<1> QED BY <1>1, <1>3, <1>8, <1>9, <1>10

\* A call goes from its look at the cell to its end only if it gives up.
LEMMA GivesUp ==
  ASSUME TypeOK, [Next]_vars, NEW t \in Thread, NEW op \in Op,
         pc[t] = <<op, "sequence">>, pc'[t] = Idle
  PROVE  Dif(sequence[pos[t] % N], Ready(op, pos[t])) < 0
<1>0. Idle # <<op, "sequence">> /\ \A o \in Op : \A s \in Step : Idle # <<o, s>>
  BY DEF Idle, Op
<1>1. PICK u \in Thread :
        \/ (\E v \in Item : CallEnqueue(u, v)) \/ CallDequeue(u) \/ Run(u)
  BY <1>0 DEF Next, vars
<1>2. \A x : pc' = [pc EXCEPT ![u] = x] => u = t /\ x = Idle
  BY <1>0 DEF TypeOK
<1>3. \A o \in Op : \A s \in Step : ~ Goto(u, o, s) BY <1>0, <1>2 DEF Goto
<1>4. ~ CallDequeue(u) /\ \A v \in Item : ~ CallEnqueue(u, v)
  BY <1>3 DEF CallDequeue, CallEnqueue, Op, Step
<1>5. PICK o \in Op :
        \/ LoadPos(u, o) \/ LoadSequence(u, o) \/ Exchange(u, o)
        \/ ExchangeFails(u, o) \/ Access(u, o) \/ StoreSequence(u, o)
  BY <1>1, <1>4 DEF Run
<1>6. ~ LoadPos(u, o) /\ ~ Exchange(u, o) /\ ~ ExchangeFails(u, o) /\ ~ Access(u, o)
  BY <1>3 DEF LoadPos, Exchange, ExchangeFails, Access, Step
<1>7. StoreSequence(u, o) => u = t BY <1>2 DEF StoreSequence, Return
<1>8. ~ StoreSequence(u, o) BY <1>7 DEF StoreSequence
<1>9. LoadSequence(u, o) BY <1>5, <1>6, <1>8
<1>10. /\ pc[u] = <<o, "sequence">>
       /\ Dif(sequence[pos[u] % N], Ready(o, pos[u])) < 0
       /\ Return(u, Nothing)
  BY <1>3, <1>9 DEF LoadSequence, Step
<1>11. u = t BY <1>2, <1>10 DEF Return
<1> QED BY <1>10, <1>11

\* A dequeue returns None only if at that moment nothing is inside or the enqueue
\* of the item at the front is under way, and an enqueue its item only if N are
\* inside or the dequeue that frees its cell is under way, as long as nobody stands
\* still between its load of the position and its look at the cell while
\* 2^(Width-1) - N others, 128 - N in the code, take effect.  The documentation
\* ("empty" and "full", mpmc.rs:101, 108) claims more.
THEOREM GivesUpOnlyIfBlocked ==
  ASSUME N < 2 ^ Width PROVE Spec /\ []NotOvertaken => GivesUpRightly
<1>1. ASSUME QueueInv, ClaimedInv, NotOvertaken, [Next]_vars
      PROVE  [\A t \in Thread, op \in Op :
                pc[t] = <<op, "sequence">> /\ pc'[t] = Idle => Blocked(op)]_vars
  <2> SUFFICES ASSUME NEW t \in Thread, NEW op \in Op,
                      pc[t] = <<op, "sequence">>, pc'[t] = Idle
               PROVE  Blocked(op)
    OBVIOUS
  <2>1. Dif(sequence[pos[t] % N], Ready(op, pos[t])) < 0
    BY <1>1, GivesUp DEF QueueInv, Bounds
  <2> QED BY <1>1, <2>1, GivingUp DEF At
<1>2. Spec => []QueueInv BY QueueInvariant
<1>3. Init => ClaimedInv BY InitClaimed
<1>4. QueueInv /\ ClaimedInv /\ [Next]_vars => ClaimedInv' BY NextClaimed
<1> QED BY <1>1, <1>2, <1>3, <1>4, PTL DEF Spec, GivesUpRightly

=============================================================================
