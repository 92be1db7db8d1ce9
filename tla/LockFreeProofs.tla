---------------------------- MODULE LockFreeProofs ----------------------------
(***************************************************************************)
(* What the containers of atomic.hpp guarantee for any number of threads,  *)
(* items and cells: the MPMC queue if it has more than one cell, which is  *)
(* where the sequence numbers of a free and of a full cell differ.         *)
(***************************************************************************)
EXTENDS LockFree, SequenceTheorems, TLAPS

-----------------------------------------------------------------------------
(* Remainders: the index & (Capacity-1) of a position.                       *)

\* Division with remainder.
LEMMA DivMod ==
  ASSUME NEW c \in Nat \ {0}, NEW a \in Nat
  PROVE  a = c * (a \div c) + (a % c) /\ a \div c \in Nat /\ a % c \in 0..(c - 1)
  <1>1. a = c * (a \div c) + (a % c)
    OBVIOUS
  <1>2. a \div c \in Nat
    OBVIOUS
  <1>3. a % c \in 0..(c - 1)
    OBVIOUS
  <1>4. QED
    BY <1>1, <1>2, <1>3

\* A number has one quotient and one remainder.
LEMMA OneRemainder ==
  ASSUME NEW c \in Nat \ {0}, NEW q \in Int, NEW r \in Int, NEW m \in 0..(c - 1), NEW n \in 0..(c - 1),
         c * q + m = c * r + n
  PROVE  q = r /\ m = n
  <1>1. c * (q - r) = c * q - c * r
    OBVIOUS
  <1>2. q - r >= 1 => c * (q - r) >= c
    OBVIOUS
  <1>3. q - r <= -1 => c * (q - r) <= -c
    OBVIOUS
  <1>4. c * q \in Int /\ c * r \in Int
    OBVIOUS
  <1>5. c * q - c * r = n - m
    BY <1>4
  <1>6. q = r
    BY <1>1, <1>2, <1>3, <1>4, <1>5
  <1>7. QED
    BY <1>6

\* The first lap.
LEMMA ModSmall ==
  ASSUME NEW c \in Nat \ {0}, NEW a \in Nat, a < c
  PROVE  a % c = a
  OBVIOUS

\* Positions less than a lap apart that share a cell are one.
LEMMA ModSame ==
  ASSUME NEW c \in Nat \ {0}, NEW a \in Nat, NEW b \in Nat, a % c = b % c, a - b < c, b - a < c
  PROVE  a = b
  <1> DEFINE q == a \div c
             r == b \div c
             m == a % c
  <1>1. a = c * q + m /\ q \in Nat /\ m \in 0..(c - 1)
    BY DivMod
  <1>2. b = c * r + m /\ r \in Nat
    BY DivMod
  <1> HIDE DEF q, r, m
  <1>3. c * (q - r) = c * q - c * r
    BY <1>1, <1>2
  <1>4. q - r >= 1 => c * (q - r) >= c
    BY <1>1, <1>2
  <1>5. q - r <= -1 => c * (q - r) <= -c
    BY <1>1, <1>2
  <1>6. c * q \in Int /\ c * r \in Int
    BY <1>1, <1>2
  <1>7. a - b = c * q - c * r
    BY <1>1, <1>2, <1>6
  <1>8. q = r
    BY <1>1, <1>2, <1>3, <1>4, <1>5, <1>6, <1>7
  <1>9. QED
    BY <1>1, <1>2, <1>8

\* A lap later it is the same cell.
LEMMA ModLap ==
  ASSUME NEW c \in Nat \ {0}, NEW a \in Nat
  PROVE  (a + c) % c = a % c
  <1> DEFINE q == a \div c
             m == a % c
             r == (a + c) \div c
             n == (a + c) % c
  <1>1. a = c * q + m /\ q \in Nat /\ m \in 0..(c - 1)
    BY DivMod
  <1>2. a + c = c * r + n /\ r \in Nat /\ n \in 0..(c - 1)
    BY a + c \in Nat, DivMod
  <1> HIDE DEF q, r, m, n
  <1>3. c * (q + 1) = c * q + c
    BY <1>1
  <1>4. c * q \in Int /\ c * r \in Int
    BY <1>1, <1>2
  <1>5. c * (q + 1) + m = c * r + n
    BY <1>1, <1>2, <1>3, <1>4
  <1>6. m = n
    BY <1>1, <1>2, <1>5, OneRemainder
  <1>7. QED
    BY <1>6 DEF m, n

\* The next index is that of the next position.
LEMMA ModStep ==
  ASSUME NEW c \in Nat \ {0}, NEW a \in Nat
  PROVE  ((a % c) + 1) % c = (a + 1) % c
  <1> DEFINE q == a \div c
             m == a % c
             r == (a + 1) \div c
             n == (a + 1) % c
             s == (m + 1) \div c
             o == (m + 1) % c
  <1>1. a = c * q + m /\ q \in Nat /\ m \in 0..(c - 1)
    BY DivMod
  <1>2. a + 1 = c * r + n /\ r \in Nat /\ n \in 0..(c - 1)
    BY a + 1 \in Nat, DivMod
  <1>3. m + 1 = c * s + o /\ s \in Nat /\ o \in 0..(c - 1)
    BY <1>1, m + 1 \in Nat, DivMod
  <1> HIDE DEF q, r, m, n, s, o
  <1>4. c * (q + s) = c * q + c * s
    BY <1>1, <1>3
  <1>5. c * q \in Int /\ c * r \in Int /\ c * s \in Int
    BY <1>1, <1>2, <1>3
  <1>6. c * (q + s) + o = c * r + n
    BY <1>1, <1>2, <1>3, <1>4, <1>5
  <1>7. o = n
    BY <1>1, <1>2, <1>3, <1>6, OneRemainder
  <1>8. QED
    BY <1>7 DEF o, n, m
-----------------------------------------------------------------------------
(* The MPMC queue.                                                           *)

\* Between the claim of a cell and its release.
AtCell(t) == mpc[t] \in {"access", "release"}

\* The sequence number of a cell whose position is in the queue says whether it is
\* published; that of the others, whether it is free.
CellInv ==
    /\ \A q \in Nat : head <= q /\ q < tail =>
          \/ sequence[Slot(q)] = q + 1
          \/ sequence[Slot(q)] = q /\ \E p \in Producers : AtCell(p) /\ pos[p] = q
    /\ \A q \in Nat : tail <= q /\ q < head + Capacity =>
          \/ sequence[Slot(q)] = q
          \/ /\ sequence[Slot(q)] + Capacity = q + 1
             /\ \E c \in Consumers : AtCell(c) /\ pos[c] + Capacity = q

\* Threads at a cell hold a position each, all in one lap.
HolderInv ==
    /\ \A p \in Producers : AtCell(p) =>
          head <= pos[p] /\ pos[p] < tail /\ sequence[Slot(pos[p])] = pos[p]
    /\ \A c \in Consumers : AtCell(c) =>
          pos[c] < head /\ tail <= pos[c] + Capacity /\ sequence[Slot(pos[c])] = pos[c] + 1
    /\ \A t, u \in Users : AtCell(t) /\ AtCell(u) /\ t # u => pos[t] # pos[u]

\* What a thread has read is still true if the index it competes for has not moved.
ViewInv ==
    /\ \A p \in Producers : mpc[p] \in {"look", "claim"} =>
          /\ pos[p] <= tail
          /\ pos[p] < tail => sequence[Slot(pos[p])] >= pos[p]
          /\ mpc[p] = "claim" /\ pos[p] = tail => sequence[Slot(tail)] = tail
    /\ \A c \in Consumers : mpc[c] \in {"look", "claim"} =>
          /\ pos[c] <= head
          /\ pos[c] < head => sequence[Slot(pos[c])] >= pos[c] + 1
          /\ mpc[c] = "claim" /\ pos[c] = head => sequence[Slot(head)] = head + 1
    /\ \A t \in Users : mpc[t] = "size" => pos[t] <= head

\* The data of a cell is what the log has at its position, once it is written.
DataInv ==
    /\ \A p \in Producers : mpc[p] \notin {"idle", "size"} => mitem[p] \in Items
    /\ \A p \in Producers : AtCell(p) => mlog[pos[p] + 1] = mitem[p]
    /\ \A p \in Producers : mpc[p] = "release" => data[Slot(pos[p])] = mitem[p]
    /\ \A c \in Consumers : mpc[c] = "access" => data[Slot(pos[c])] = mlog[pos[c] + 1]
    /\ \A q \in Nat : head <= q /\ q < tail /\ sequence[Slot(q)] = q + 1 =>
          data[Slot(q)] = mlog[q + 1]

MPMCInv == MPMCTypeOK /\ CellInv /\ HolderInv /\ ViewInv /\ DataInv

LEMMA SlotFacts ==
  /\ \A q \in Nat : Slot(q) \in Slots /\ Slot(q + Capacity) = Slot(q)
  /\ \A q, r \in Nat : Slot(q) = Slot(r) /\ q - r < Capacity /\ r - q < Capacity => q = r
  <1> USE CapacityAssumption
  <1>1. ASSUME NEW q \in Nat PROVE Slot(q) \in Slots /\ Slot(q + Capacity) = Slot(q)
    BY DivMod, ModLap DEF Slot, Slots
  <1>2. ASSUME NEW q \in Nat, NEW r \in Nat,
               Slot(q) = Slot(r), q - r < Capacity, r - q < Capacity
        PROVE  q = r
    BY <1>2, ModSame DEF Slot
  <1>3. QED
    BY <1>1, <1>2

LEMMA MPMCStart == MPMCInit => MPMCInv
  <1> SUFFICES ASSUME MPMCInit PROVE MPMCInv
    OBVIOUS
  <1> USE CapacityAssumption, PartiesAssumption DEF MPMCInit
  <1>1. MPMCTypeOK
    BY DEF MPMCTypeOK, Slots
  <1>2. \A q \in Nat : q < Capacity => Slot(q) = q
    BY ModSmall DEF Slot
  <1>3. CellInv
    BY <1>2 DEF CellInv, Slots
  <1>4. HolderInv /\ ViewInv
    BY DEF HolderInv, ViewInv, AtCell, Users
  <1>5. DataInv
    BY DEF DataInv, AtCell, Users
  <1>6. QED
    BY <1>1, <1>3, <1>4, <1>5 DEF MPMCInv

\* Threads that are not at one position are not at one cell, and none is at the cell
\* of another position that is in the queue.
LEMMA Apart ==
  ASSUME MPMCInv
  PROVE  /\ \A t \in Users : AtCell(t) => /\ pos[t] \in Nat /\ pos[t] < tail
                                          /\ tail <= pos[t] + Capacity
         /\ \A t, u \in Users : AtCell(t) /\ AtCell(u) /\ t # u =>
                Slot(pos[t]) # Slot(pos[u])
         /\ \A t \in Users, q \in Nat :
                AtCell(t) /\ head <= q /\ q < tail /\ Slot(q) = Slot(pos[t]) => q = pos[t]
  <1> USE CapacityAssumption DEF MPMCInv
  <1>1. head \in Nat /\ tail \in Nat /\ head <= tail /\ tail <= head + Capacity
        /\ Capacity \in Nat
    BY DEF MPMCTypeOK
  <1>2. ASSUME NEW t \in Users, AtCell(t)
        PROVE  pos[t] \in Nat /\ pos[t] < tail /\ tail <= pos[t] + Capacity
    <2>1. pos[t] \in Nat
      BY <1>2 DEF MPMCTypeOK
    <2>2. CASE t \in Producers
      BY <1>1, <1>2, <2>1, <2>2 DEF HolderInv
    <2>3. CASE t \in Consumers
      BY <1>1, <1>2, <2>1, <2>3 DEF HolderInv
    <2>4. QED
      BY <1>2, <2>2, <2>3 DEF Users
  <1>3. ASSUME NEW t \in Users, NEW u \in Users, AtCell(t), AtCell(u), t # u,
               Slot(pos[t]) = Slot(pos[u])
        PROVE  FALSE
    <2>1. /\ pos[t] \in Nat /\ pos[t] < tail /\ tail <= pos[t] + Capacity
          /\ pos[u] \in Nat /\ pos[u] < tail /\ tail <= pos[u] + Capacity
      BY <1>2, <1>3
    <2>2. pos[t] - pos[u] < Capacity /\ pos[u] - pos[t] < Capacity
      BY <1>1, <2>1
    <2>3. pos[t] = pos[u]
      BY <1>3, <2>1, <2>2, SlotFacts
    <2>4. QED
      BY <1>3, <2>3 DEF HolderInv
  <1>4. ASSUME NEW t \in Users, NEW q \in Nat, AtCell(t), head <= q, q < tail,
               Slot(q) = Slot(pos[t])
        PROVE  q = pos[t]
    <2>1. pos[t] \in Nat /\ pos[t] < tail /\ tail <= pos[t] + Capacity
      BY <1>2, <1>4
    <2>2. q - pos[t] < Capacity /\ pos[t] - q < Capacity
      BY <1>1, <1>4, <2>1
    <2>3. QED
      BY <1>4, <2>1, <2>2, SlotFacts
  <1>5. QED
    BY <1>2, <1>3, <1>4

\* Steps that read only: Load, Look, a failed claim, Size.
LEMMA ReadKeeps ==
  ASSUME MPMCInv, NEW t \in Users, NEW there \in {"idle", "look", "claim", "load", "size"},
         NEW n \in Nat,
         ~AtCell(t),
         mpc' = [mpc EXCEPT ![t] = there], pos' = [pos EXCEPT ![t] = n],
         UNCHANGED <<head, tail, sequence, data, mlog, mreceived>>,
         mitem' \in [Producers -> Items \cup {NoItem}],
         \A p \in Producers \ {t} : mitem'[p] = mitem[p],
         t \in Producers /\ there \notin {"idle", "size"} => mitem'[t] \in Items,
         t \in Producers /\ there \in {"look", "claim"} =>
            /\ n <= tail
            /\ n < tail => sequence[Slot(n)] >= n
            /\ there = "claim" /\ n = tail => sequence[Slot(tail)] = tail,
         t \in Consumers /\ there \in {"look", "claim"} =>
            /\ n <= head
            /\ n < head => sequence[Slot(n)] >= n + 1
            /\ there = "claim" /\ n = head => sequence[Slot(head)] = head + 1,
         there = "size" => n <= head
  PROVE  MPMCInv'
  <1> USE DEF MPMCInv
  <1>1. /\ mpc' \in [Users -> {"idle", "load", "look", "claim", "access", "release", "size"}]
        /\ pos' \in [Users -> Nat]
        /\ mpc'[t] = there /\ pos'[t] = n
        /\ \A u \in Users \ {t} : mpc'[u] = mpc[u] /\ pos'[u] = pos[u]
    BY DEF MPMCTypeOK
  <1>2. MPMCTypeOK'
    BY <1>1 DEF MPMCTypeOK
  <1>3. \A u \in Users : /\ AtCell(u)' <=> AtCell(u)
                         /\ AtCell(u) => u # t /\ mpc'[u] = mpc[u] /\ pos'[u] = pos[u]
    BY <1>1 DEF AtCell
  <1>4. CellInv'
    BY <1>3 DEF CellInv, Users
  <1>5. HolderInv'
    BY <1>3 DEF HolderInv, Users
  <1>6. ViewInv'
    <2>1. ASSUME NEW u \in Users PROVE u = t \/ (mpc'[u] = mpc[u] /\ pos'[u] = pos[u])
      BY <1>1
    <2>2. QED
      BY <1>1, <2>1 DEF ViewInv, Users
  <1>7. DataInv'
    <2>1. \A p \in Producers : mpc'[p] \notin {"idle", "size"} => mitem'[p] \in Items
      BY <1>1 DEF DataInv, Users
    <2>2. \A p \in Producers : AtCell(p)' => /\ AtCell(p) /\ mitem'[p] = mitem[p]
                                             /\ mpc'[p] = mpc[p] /\ pos'[p] = pos[p]
      BY <1>3 DEF Users
    <2>3. \A p \in Producers : mpc'[p] = "release" => AtCell(p)'
      BY DEF AtCell
    <2>4. \A c \in Consumers : mpc'[c] = "access" => mpc[c] = "access" /\ pos'[c] = pos[c]
      BY <1>1, <1>3 DEF Users, AtCell
    <2>5. QED
      BY <2>1, <2>2, <2>3, <2>4 DEF DataInv
  <1>8. QED
    BY <1>2, <1>4, <1>5, <1>6, <1>7

LEMMA ReadersKeep ==
  ASSUME MPMCInv, NEW t \in Users,
         Load(t) \/ Look(t) \/ ClaimFails(t) \/ SizeHead(t) \/ SizeTail(t)
  PROVE  MPMCInv'
  <1> USE PartiesAssumption DEF MPMCInv
  <1>1. /\ head \in Nat /\ tail \in Nat /\ pos[t] \in Nat
        /\ mitem \in [Producers -> Items \cup {NoItem}]
        /\ t \in Producers => t \notin Consumers
        /\ t \notin Producers => t \in Consumers
    BY DEF MPMCTypeOK, Users
  <1>2. CASE Load(t) \/ ClaimFails(t)
    <2>1. /\ mpc[t] \in {"load", "claim"} /\ ~AtCell(t)
          /\ mpc' = [mpc EXCEPT ![t] = "look"] /\ pos' = [pos EXCEPT ![t] = Front(t)]
          /\ UNCHANGED <<head, tail, sequence, data, mlog, mreceived>> /\ UNCHANGED mitem
      BY <1>2 DEF Load, ClaimFails, AtCell
    <2>2. /\ Front(t) \in Nat
          /\ t \in Producers => Front(t) = tail /\ mitem[t] \in Items
          /\ t \in Consumers => Front(t) = head
      BY <1>1, <2>1 DEF Front, DataInv
    <2>3. /\ Front(t) \in Nat
          /\ mitem' \in [Producers -> Items \cup {NoItem}]
          /\ \A p \in Producers \ {t} : mitem'[p] = mitem[p]
          /\ t \in Producers => /\ mitem'[t] \in Items
                                /\ Front(t) <= tail /\ ~(Front(t) < tail)
          /\ t \in Consumers => Front(t) <= head /\ ~(Front(t) < head)
      BY <1>1, <2>1, <2>2
    <2>4. QED
      BY <1>1, <2>1, <2>3, ReadKeeps
  <1>3. CASE Look(t)
    <2> DEFINE seq   == sequence[Slot(pos[t])]
               there == IF seq = Turn(t) THEN "claim"
                        ELSE IF seq < Turn(t) THEN "idle" ELSE "load"
               n     == IF there = "idle" THEN 0 ELSE pos[t]
    <2>1. /\ mpc[t] = "look" /\ ~AtCell(t)
          /\ mpc' = [mpc EXCEPT ![t] = there]
          /\ UNCHANGED <<head, tail, sequence, data, mlog, mreceived>>
      BY <1>3 DEF Look, AtCell
    <2>2. mpc'[t] = there
      BY <2>1 DEF MPMCTypeOK
    <2>3. pos' = [pos EXCEPT ![t] = n]
      BY <1>3, <2>2 DEF Look, MPMCTypeOK
    <2>4. /\ mitem' \in [Producers -> Items \cup {NoItem}]
          /\ \A p \in Producers \ {t} : mitem'[p] = mitem[p]
          /\ t \in Producers /\ there # "idle" => mitem'[t] = mitem[t]
      BY <1>1, <1>3, <2>2 DEF Look
    <2>5. t \in Producers => mitem[t] \in Items
      BY <2>1 DEF DataInv
    <2>6. /\ t \in Producers => Turn(t) = pos[t] /\ pos[t] <= tail
                                /\ (pos[t] < tail => seq >= pos[t])
          /\ t \in Consumers => Turn(t) = pos[t] + 1 /\ pos[t] <= head
                                /\ (pos[t] < head => seq >= pos[t] + 1)
      BY <1>1, <2>1 DEF Turn, ViewInv
    <2>7. there \in {"idle", "claim", "load"} /\ n \in Nat
      BY <1>1
    <2>8. there = "claim" => seq = Turn(t) /\ n = pos[t]
      OBVIOUS
    <2> HIDE DEF there, n
    <2>9. QED
      BY <2>1, <2>3, <2>4, <2>5, <2>6, <2>7, <2>8, ReadKeeps
  <1>4. CASE SizeHead(t)
    <2>1. /\ ~AtCell(t)
          /\ mpc' = [mpc EXCEPT ![t] = "size"] /\ pos' = [pos EXCEPT ![t] = head]
          /\ UNCHANGED <<head, tail, sequence, data, mlog, mreceived>> /\ UNCHANGED mitem
      BY <1>4 DEF SizeHead, AtCell
    <2>2. /\ mitem' \in [Producers -> Items \cup {NoItem}] /\ head <= head
          /\ \A p \in Producers \ {t} : mitem'[p] = mitem[p]
      BY <1>1, <2>1
    <2>3. QED
      BY <1>1, <2>1, <2>2, ReadKeeps
  <1>5. CASE SizeTail(t)
    BY <1>1, <1>5, ReadKeeps DEF SizeTail, AtCell
  <1>6. QED
    BY <1>2, <1>3, <1>4, <1>5

LEMMA CallersKeep ==
  ASSUME MPMCInv,
         \/ \E p \in Producers, x \in Items : QueuePush(p, x)
         \/ \E c \in Consumers : QueuePop(c)
  PROVE  MPMCInv'
  <1> USE PartiesAssumption DEF MPMCInv
  <1>1. ASSUME NEW p \in Producers, NEW x \in Items, QueuePush(p, x)
        PROVE  MPMCInv'
    <2>1. /\ ~AtCell(p) /\ p \in Users /\ pos[p] \in Nat
          /\ mpc' = [mpc EXCEPT ![p] = "load"] /\ pos' = [pos EXCEPT ![p] = pos[p]]
          /\ UNCHANGED <<head, tail, sequence, data, mlog, mreceived>>
      BY <1>1 DEF QueuePush, AtCell, MPMCTypeOK, Users
    <2>2. /\ mitem' \in [Producers -> Items \cup {NoItem}] /\ mitem'[p] \in Items
          /\ \A q \in Producers \ {p} : mitem'[q] = mitem[q]
      BY <1>1 DEF QueuePush, MPMCTypeOK
    <2>3. QED
      BY <2>1, <2>2, ReadKeeps
  <1>2. ASSUME NEW c \in Consumers, QueuePop(c)
        PROVE  MPMCInv'
    <2>1. /\ ~AtCell(c) /\ c \in Users /\ c \notin Producers /\ pos[c] \in Nat
          /\ mpc' = [mpc EXCEPT ![c] = "load"] /\ pos' = [pos EXCEPT ![c] = pos[c]]
          /\ UNCHANGED <<head, tail, sequence, data, mitem, mlog, mreceived>>
          /\ mitem \in [Producers -> Items \cup {NoItem}]
      BY <1>2 DEF QueuePop, AtCell, MPMCTypeOK, Users
    <2>2. QED
      BY <2>1, ReadKeeps
  <1>3. QED
    BY <1>1, <1>2

LEMMA ClaimTailKeeps ==
  ASSUME MPMCInv, Capacity > 1, NEW p \in Producers, ClaimTail(p)
  PROVE  MPMCInv'
  <1> USE CapacityAssumption, PartiesAssumption DEF MPMCInv
  <1>1. /\ head \in Nat /\ tail \in Nat /\ head <= tail /\ tail <= head + Capacity
        /\ Capacity \in Nat /\ p \in Users /\ p \notin Consumers
        /\ mpc[p] = "claim" /\ pos[p] = tail /\ tail' = tail + 1
        /\ UNCHANGED <<head, sequence, data, pos, mitem, mreceived>>
        /\ mitem[p] \in Items /\ mlog \in Seq(Items) /\ tail = Len(mlog)
    BY DEF ClaimTail, MPMCTypeOK, DataInv, Users
  <1>2. sequence[Slot(tail)] = tail
    BY <1>1 DEF ViewInv
  <1>3. tail < head + Capacity
    <2>1. SUFFICES ASSUME tail = head + Capacity PROVE FALSE
      BY <1>1
    <2>2. Slot(tail) = Slot(head) /\ head < tail
      BY <1>1, <2>1, SlotFacts
    <2>3. sequence[Slot(head)] \in {head, head + 1}
      BY <1>1, <2>2 DEF CellInv
    <2>4. QED
      BY <1>1, <1>2, <2>1, <2>2, <2>3
  <1>4. /\ mpc' \in [Users -> {"idle", "load", "look", "claim", "access", "release", "size"}]
        /\ mpc'[p] = "access" /\ \A u \in Users \ {p} : mpc'[u] = mpc[u]
    BY <1>1 DEF ClaimTail, MPMCTypeOK
  <1>5. /\ mlog' \in Seq(Items) /\ Len(mlog') = tail + 1 /\ mlog'[tail + 1] = mitem[p]
        /\ \A i \in 1..tail : mlog'[i] = mlog[i]
    BY <1>1 DEF ClaimTail
  <1>6. MPMCTypeOK'
    BY <1>1, <1>3, <1>4, <1>5 DEF MPMCTypeOK
  <1>7. AtCell(p)' /\ ~AtCell(p) /\ \A u \in Users \ {p} : AtCell(u)' <=> AtCell(u)
    BY <1>1, <1>4 DEF AtCell
  <1>8. HolderInv'
    <2>1. ASSUME NEW q \in Producers, AtCell(q)'
          PROVE  head <= pos[q] /\ pos[q] < tail + 1 /\ sequence[Slot(pos[q])] = pos[q]
      <3>1. CASE q = p
        BY <1>1, <1>2, <3>1
      <3>2. CASE q # p
        <4>1. AtCell(q) /\ pos[q] \in Nat
          BY <1>7, <2>1, <3>2 DEF Users, MPMCTypeOK
        <4>2. QED
          BY <1>1, <4>1 DEF HolderInv
      <3>3. QED
        BY <3>1, <3>2
    <2>2. ASSUME NEW c \in Consumers, AtCell(c)'
          PROVE  /\ pos[c] < head /\ tail + 1 <= pos[c] + Capacity
                 /\ sequence[Slot(pos[c])] = pos[c] + 1
      <3>1. AtCell(c) /\ pos[c] \in Nat
        BY <1>1, <1>7, <2>2 DEF Users, MPMCTypeOK
      <3>2. pos[c] < head /\ tail <= pos[c] + Capacity /\ sequence[Slot(pos[c])] = pos[c] + 1
        BY <3>1 DEF HolderInv
      <3>3. tail # pos[c] + Capacity
        <4>1. Slot(pos[c] + Capacity) = Slot(pos[c])
          BY <3>1, SlotFacts
        <4>2. sequence[Slot(pos[c] + Capacity)] # pos[c] + Capacity
          BY <1>1, <3>1, <3>2, <4>1
        <4>3. QED
          BY <1>2, <4>2
      <3>4. QED
        BY <1>1, <3>1, <3>2, <3>3
    <2>3. ASSUME NEW t \in Users, NEW u \in Users, AtCell(t)', AtCell(u)', t # u
          PROVE  pos[t] # pos[u]
      <3>1. \A v \in Users : v # p /\ AtCell(v)' => AtCell(v) /\ pos[v] < tail /\ pos[v] \in Nat
        BY <1>7, Apart
      <3>2. CASE t # p /\ u # p
        BY <2>3, <3>1, <3>2 DEF HolderInv
      <3>3. CASE t = p \/ u = p
        BY <1>1, <2>3, <3>1, <3>3
      <3>4. QED
        BY <3>2, <3>3
    <2>4. QED
      BY <1>1, <2>1, <2>2, <2>3 DEF HolderInv
  <1>9. CellInv'
    <2>1. ASSUME NEW q \in Nat, head <= q, q < tail + 1
          PROVE  \/ sequence[Slot(q)] = q + 1
                 \/ sequence[Slot(q)] = q /\ \E r \in Producers : AtCell(r)' /\ pos[r] = q
      <3>1. CASE q = tail
        BY <1>1, <1>2, <1>7, <3>1
      <3>2. CASE q # tail
        <4>1. q < tail
          BY <1>1, <2>1, <3>2
        <4>2. \A r \in Producers : AtCell(r) => AtCell(r)'
          BY <1>7 DEF Users
        <4>3. QED
          BY <2>1, <4>1, <4>2 DEF CellInv
      <3>3. QED
        BY <3>1, <3>2
    <2>2. ASSUME NEW q \in Nat, tail + 1 <= q, q < head + Capacity
          PROVE  \/ sequence[Slot(q)] = q
                 \/ /\ sequence[Slot(q)] + Capacity = q + 1
                    /\ \E c \in Consumers : AtCell(c)' /\ pos[c] + Capacity = q
      <3>1. tail <= q
        BY <1>1, <2>2
      <3>2. \A c \in Consumers : AtCell(c) => AtCell(c)'
        BY <1>1, <1>7 DEF Users
      <3>3. QED
        BY <2>2, <3>1, <3>2 DEF CellInv
    <2>3. QED
      BY <1>1, <2>1, <2>2 DEF CellInv
  <1>10. ViewInv'
    <2>1. ASSUME NEW q \in Producers, mpc'[q] \in {"look", "claim"}
          PROVE  /\ pos[q] <= tail + 1
                 /\ pos[q] < tail + 1 => sequence[Slot(pos[q])] >= pos[q]
                 /\ ~(mpc'[q] = "claim" /\ pos[q] = tail + 1)
      <3>1. mpc[q] = mpc'[q] /\ pos[q] \in Nat
        BY <1>1, <1>4, <2>1 DEF Users, MPMCTypeOK
      <3>2. pos[q] <= tail /\ (pos[q] < tail => sequence[Slot(pos[q])] >= pos[q])
        BY <2>1, <3>1 DEF ViewInv
      <3>3. pos[q] = tail => sequence[Slot(pos[q])] >= pos[q]
        BY <1>1, <1>2
      <3>4. QED
        BY <1>1, <3>1, <3>2, <3>3
    <2>2. \A u \in Users : u # p => mpc'[u] = mpc[u]
      BY <1>4
    <2>3. QED
      BY <1>1, <1>4, <2>1, <2>2 DEF ViewInv, Users
  <1>11. DataInv'
    <2>1. \A q \in Producers : mpc'[q] \notin {"idle", "size"} => mitem[q] \in Items
      BY <1>1, <1>4 DEF DataInv, Users
    <2>2. ASSUME NEW q \in Producers, AtCell(q)' PROVE mlog'[pos[q] + 1] = mitem[q]
      <3>1. CASE q = p
        BY <1>1, <1>5, <3>1
      <3>2. CASE q # p
        <4>1. AtCell(q) /\ pos[q] + 1 \in 1..tail
          BY <1>1, <1>7, <2>2, <3>2, Apart DEF Users
        <4>2. QED
          BY <1>5, <4>1 DEF DataInv
      <3>3. QED
        BY <3>1, <3>2
    <2>3. \A q \in Producers : mpc'[q] = "release" => data[Slot(pos[q])] = mitem[q]
      BY <1>4 DEF DataInv, Users
    <2>4. ASSUME NEW c \in Consumers, mpc'[c] = "access"
          PROVE  data[Slot(pos[c])] = mlog'[pos[c] + 1]
      <3>1. mpc[c] = "access" /\ AtCell(c) /\ c \in Users
        BY <1>1, <1>4, <2>4 DEF Users, AtCell
      <3>2. pos[c] + 1 \in 1..tail
        BY <1>1, <3>1, Apart
      <3>3. QED
        BY <1>5, <3>1, <3>2 DEF DataInv
    <2>5. ASSUME NEW q \in Nat, head <= q, q < tail + 1, sequence[Slot(q)] = q + 1
          PROVE  data[Slot(q)] = mlog'[q + 1]
      <3>1. q # tail
        BY <1>1, <1>2, <2>5
      <3>2. q < tail /\ q + 1 \in 1..tail
        BY <1>1, <2>5, <3>1
      <3>3. QED
        BY <1>5, <2>5, <3>2 DEF DataInv
    <2>6. QED
      BY <1>1, <2>1, <2>2, <2>3, <2>4, <2>5 DEF DataInv
  <1>12. QED
    BY <1>6, <1>8, <1>9, <1>10, <1>11

LEMMA ClaimHeadKeeps ==
  ASSUME MPMCInv, Capacity > 1, NEW c \in Consumers, ClaimHead(c)
  PROVE  MPMCInv' /\ head < tail
  <1> USE CapacityAssumption, PartiesAssumption DEF MPMCInv
  <1>1. /\ head \in Nat /\ tail \in Nat /\ head <= tail /\ tail <= head + Capacity
        /\ Capacity \in Nat /\ c \in Users /\ c \notin Producers
        /\ mpc[c] = "claim" /\ pos[c] = head /\ head' = head + 1
        /\ UNCHANGED <<tail, sequence, data, pos, mitem, mlog, mreceived>>
    BY DEF ClaimHead, MPMCTypeOK, Users
  <1>2. sequence[Slot(head)] = head + 1
    BY <1>1 DEF ViewInv
  <1>3. head < tail
    <2>1. SUFFICES ASSUME tail = head PROVE FALSE
      BY <1>1
    <2>2. \/ sequence[Slot(head)] = head
          \/ sequence[Slot(head)] + Capacity = head + 1
      BY <1>1, <2>1 DEF CellInv
    <2>3. QED
      BY <1>1, <1>2, <2>2
  <1>4. /\ mpc' \in [Users -> {"idle", "load", "look", "claim", "access", "release", "size"}]
        /\ mpc'[c] = "access" /\ \A u \in Users \ {c} : mpc'[u] = mpc[u]
    BY <1>1 DEF ClaimHead, MPMCTypeOK
  <1>5. MPMCTypeOK'
    BY <1>1, <1>3, <1>4 DEF MPMCTypeOK
  <1>6. AtCell(c)' /\ ~AtCell(c) /\ \A u \in Users \ {c} : AtCell(u)' <=> AtCell(u)
    BY <1>1, <1>4 DEF AtCell
  <1>7. HolderInv'
    <2>1. ASSUME NEW p \in Producers, AtCell(p)'
          PROVE  head + 1 <= pos[p] /\ pos[p] < tail /\ sequence[Slot(pos[p])] = pos[p]
      <3>1. AtCell(p) /\ pos[p] \in Nat
        BY <1>1, <1>6, <2>1 DEF Users, MPMCTypeOK
      <3>2. head <= pos[p] /\ pos[p] < tail /\ sequence[Slot(pos[p])] = pos[p]
        BY <3>1 DEF HolderInv
      <3>3. pos[p] # head
        BY <1>1, <1>2, <3>2
      <3>4. QED
        BY <1>1, <3>1, <3>2, <3>3
    <2>2. ASSUME NEW d \in Consumers, AtCell(d)'
          PROVE  /\ pos[d] < head + 1 /\ tail <= pos[d] + Capacity
                 /\ sequence[Slot(pos[d])] = pos[d] + 1
      <3>1. CASE d = c
        BY <1>1, <1>2, <3>1
      <3>2. CASE d # c
        <4>1. AtCell(d) /\ pos[d] \in Nat
          BY <1>6, <2>2, <3>2 DEF Users, MPMCTypeOK
        <4>2. QED
          BY <1>1, <4>1 DEF HolderInv
      <3>3. QED
        BY <3>1, <3>2
    <2>3. ASSUME NEW t \in Users, NEW u \in Users, AtCell(t)', AtCell(u)', t # u
          PROVE  pos[t] # pos[u]
      <3>1. ASSUME NEW v \in Users, v # c, AtCell(v)' PROVE AtCell(v) /\ pos[v] # head
        <4>1. AtCell(v) /\ pos[v] \in Nat
          BY <1>6, <3>1 DEF MPMCTypeOK
        <4>2. CASE v \in Producers
          BY <1>1, <1>2, <4>1, <4>2 DEF HolderInv
        <4>3. CASE v \in Consumers
          BY <1>1, <4>1, <4>3 DEF HolderInv
        <4>4. QED
          BY <4>1, <4>2, <4>3 DEF Users
      <3>2. CASE t # c /\ u # c
        BY <2>3, <3>1, <3>2 DEF HolderInv
      <3>3. CASE t = c \/ u = c
        BY <1>1, <2>3, <3>1, <3>3
      <3>4. QED
        BY <3>2, <3>3
    <2>4. QED
      BY <1>1, <2>1, <2>2, <2>3 DEF HolderInv
  <1>8. CellInv'
    <2>1. ASSUME NEW q \in Nat, head + 1 <= q, q < tail
          PROVE  \/ sequence[Slot(q)] = q + 1
                 \/ sequence[Slot(q)] = q /\ \E p \in Producers : AtCell(p)' /\ pos[p] = q
      <3>1. head <= q
        BY <1>1, <2>1
      <3>2. \A p \in Producers : AtCell(p) => AtCell(p)'
        BY <1>1, <1>6 DEF Users
      <3>3. QED
        BY <2>1, <3>1, <3>2 DEF CellInv
    <2>2. ASSUME NEW q \in Nat, tail <= q, q < head + 1 + Capacity
          PROVE  \/ sequence[Slot(q)] = q
                 \/ /\ sequence[Slot(q)] + Capacity = q + 1
                    /\ \E d \in Consumers : AtCell(d)' /\ pos[d] + Capacity = q
      <3>1. CASE q = head + Capacity
        <4>1. Slot(q) = Slot(head)
          BY <1>1, <3>1, SlotFacts
        <4>2. sequence[Slot(q)] + Capacity = q + 1
          BY <1>1, <1>2, <3>1, <4>1
        <4>3. QED
          BY <1>1, <1>6, <3>1, <4>2
      <3>2. CASE q # head + Capacity
        <4>1. q < head + Capacity
          BY <1>1, <2>2, <3>2
        <4>2. \A d \in Consumers : AtCell(d) => AtCell(d)'
          BY <1>6 DEF Users
        <4>3. QED
          BY <2>2, <4>1, <4>2 DEF CellInv
      <3>3. QED
        BY <3>1, <3>2
    <2>3. QED
      BY <1>1, <2>1, <2>2 DEF CellInv
  <1>9. ViewInv'
    <2>1. ASSUME NEW d \in Consumers, mpc'[d] \in {"look", "claim"}
          PROVE  /\ pos[d] <= head + 1
                 /\ pos[d] < head + 1 => sequence[Slot(pos[d])] >= pos[d] + 1
                 /\ ~(mpc'[d] = "claim" /\ pos[d] = head + 1)
      <3>1. mpc[d] = mpc'[d] /\ pos[d] \in Nat
        BY <1>1, <1>4, <2>1 DEF Users, MPMCTypeOK
      <3>2. pos[d] <= head /\ (pos[d] < head => sequence[Slot(pos[d])] >= pos[d] + 1)
        BY <2>1, <3>1 DEF ViewInv
      <3>3. pos[d] = head => sequence[Slot(pos[d])] >= pos[d] + 1
        BY <1>1, <1>2
      <3>4. QED
        BY <1>1, <3>1, <3>2, <3>3
    <2>2. \A u \in Users : u # c => mpc'[u] = mpc[u]
      BY <1>4
    <2>3. ASSUME NEW u \in Users, mpc'[u] = "size" PROVE pos[u] <= head + 1
      <3>1. pos[u] \in Nat /\ pos[u] <= head
        BY <1>4, <2>3 DEF ViewInv, MPMCTypeOK
      <3>2. QED
        BY <1>1, <3>1
    <2>4. QED
      BY <1>1, <1>4, <2>1, <2>2, <2>3 DEF ViewInv, Users
  <1>10. DataInv'
    <2>1. \A p \in Producers : mpc'[p] = mpc[p] /\ (AtCell(p)' <=> AtCell(p))
      BY <1>1, <1>4, <1>6 DEF Users
    <2>2. ASSUME NEW d \in Consumers, mpc'[d] = "access"
          PROVE  data[Slot(pos[d])] = mlog[pos[d] + 1]
      <3>1. CASE d = c
        BY <1>1, <1>2, <1>3, <3>1 DEF DataInv
      <3>2. CASE d # c
        BY <1>4, <2>2, <3>2 DEF DataInv, Users
      <3>3. QED
        BY <3>1, <3>2
    <2>3. ASSUME NEW q \in Nat, head + 1 <= q, q < tail, sequence[Slot(q)] = q + 1
          PROVE  data[Slot(q)] = mlog[q + 1]
      <3>1. head <= q
        BY <1>1, <2>3
      <3>2. QED
        BY <2>3, <3>1 DEF DataInv
    <2>4. QED
      BY <1>1, <2>1, <2>2, <2>3 DEF DataInv
  <1>11. QED
    BY <1>3, <1>5, <1>7, <1>8, <1>9, <1>10

LEMMA WriteKeeps ==
  ASSUME MPMCInv, NEW p \in Producers, Write(p)
  PROVE  MPMCInv'
  <1> USE CapacityAssumption, PartiesAssumption DEF MPMCInv
  <1>1. /\ mpc[p] = "access" /\ AtCell(p) /\ p \in Users /\ p \notin Consumers
        /\ UNCHANGED <<head, tail, sequence, pos, mitem, mlog, mreceived>>
        /\ mitem[p] \in Items /\ pos[p] \in Nat /\ Slot(pos[p]) \in Slots
    BY SlotFacts DEF Write, MPMCTypeOK, DataInv, Users, AtCell
  <1>2. /\ mpc' \in [Users -> {"idle", "load", "look", "claim", "access", "release", "size"}]
        /\ mpc'[p] = "release" /\ \A u \in Users \ {p} : mpc'[u] = mpc[u]
    BY <1>1 DEF Write, MPMCTypeOK
  <1>3. /\ data' \in [Slots -> Items \cup {NoItem}]
        /\ data'[Slot(pos[p])] = mitem[p]
        /\ \A i \in Slots : i # Slot(pos[p]) => data'[i] = data[i]
    BY <1>1 DEF Write, MPMCTypeOK
  <1>4. MPMCTypeOK'
    BY <1>1, <1>2, <1>3 DEF MPMCTypeOK
  <1>5. \A u \in Users : AtCell(u)' <=> AtCell(u)
    BY <1>1, <1>2 DEF AtCell
  <1>6. CellInv' /\ HolderInv'
    BY <1>1, <1>5 DEF CellInv, HolderInv, Users
  <1>7. ViewInv'
    BY <1>1, <1>2 DEF ViewInv, Users
  <1>8. DataInv'
    <2>1. \A q \in Producers : mpc'[q] \notin {"idle", "size"} => mitem[q] \in Items
      BY <1>1, <1>2 DEF DataInv, Users
    <2>2. ASSUME NEW q \in Producers, mpc'[q] = "release" PROVE data'[Slot(pos[q])] = mitem[q]
      <3>1. CASE q = p
        BY <1>3, <3>1
      <3>2. CASE q # p
        <4>1. q \in Users /\ mpc[q] = "release" /\ AtCell(q)
          BY <1>2, <2>2, <3>2 DEF Users, AtCell
        <4>2. Slot(pos[q]) # Slot(pos[p]) /\ Slot(pos[q]) \in Slots
          BY <1>1, <3>2, <4>1, Apart, SlotFacts
        <4>3. QED
          BY <1>3, <4>1, <4>2 DEF DataInv
      <3>3. QED
        BY <3>1, <3>2
    <2>3. ASSUME NEW c \in Consumers, mpc'[c] = "access"
          PROVE  data'[Slot(pos[c])] = mlog[pos[c] + 1]
      <3>1. c \in Users /\ c # p /\ mpc[c] = "access" /\ AtCell(c)
        BY <1>1, <1>2, <2>3 DEF Users, AtCell
      <3>2. Slot(pos[c]) # Slot(pos[p]) /\ Slot(pos[c]) \in Slots
        BY <1>1, <3>1, Apart, SlotFacts
      <3>3. QED
        BY <1>3, <3>1, <3>2 DEF DataInv
    <2>4. ASSUME NEW q \in Nat, head <= q, q < tail, sequence[Slot(q)] = q + 1
          PROVE  data'[Slot(q)] = mlog[q + 1]
      <3>1. sequence[Slot(pos[p])] = pos[p]
        BY <1>1 DEF HolderInv
      <3>2. Slot(q) # Slot(pos[p])
        BY <1>1, <2>4, <3>1, Apart
      <3>3. Slot(q) \in Slots
        BY SlotFacts
      <3>4. QED
        BY <1>3, <2>4, <3>2, <3>3 DEF DataInv
    <2>5. \A q \in Producers : AtCell(q)' => mlog[pos[q] + 1] = mitem[q]
      BY <1>5 DEF DataInv, Users
    <2>6. QED
      BY <1>1, <2>1, <2>2, <2>3, <2>4, <2>5 DEF DataInv
  <1>9. QED
    BY <1>4, <1>6, <1>7, <1>8

LEMMA ReadCellKeeps ==
  ASSUME MPMCInv, NEW c \in Consumers, Read(c)
  PROVE  MPMCInv'
  <1> USE CapacityAssumption, PartiesAssumption DEF MPMCInv
  <1>1. /\ mpc[c] = "access" /\ AtCell(c) /\ c \in Users /\ c \notin Producers
        /\ UNCHANGED <<head, tail, sequence, data, pos, mitem, mlog>>
        /\ pos[c] \in Nat
    BY DEF Read, MPMCTypeOK, Users, AtCell
  <1>2. /\ mpc' \in [Users -> {"idle", "load", "look", "claim", "access", "release", "size"}]
        /\ mpc'[c] = "release" /\ \A u \in Users \ {c} : mpc'[u] = mpc[u]
    BY <1>1 DEF Read, MPMCTypeOK
  <1>3. data[Slot(pos[c])] \in Items
    <2>1. pos[c] + 1 \in 1..Len(mlog)
      BY <1>1, Apart DEF MPMCTypeOK
    <2>2. QED
      BY <1>1, <2>1 DEF DataInv, MPMCTypeOK
  <1>4. mreceived' \in [Consumers -> SUBSET Items]
    BY <1>3 DEF Read, MPMCTypeOK
  <1>5. MPMCTypeOK'
    BY <1>1, <1>2, <1>4 DEF MPMCTypeOK
  <1>6. \A u \in Users : AtCell(u)' <=> AtCell(u)
    BY <1>1, <1>2 DEF AtCell
  <1>7. CellInv' /\ HolderInv'
    BY <1>1, <1>6 DEF CellInv, HolderInv, Users
  <1>8. ViewInv'
    BY <1>1, <1>2 DEF ViewInv, Users
  <1>9. DataInv'
    <2>1. \A p \in Producers : mpc'[p] = mpc[p] /\ (AtCell(p)' <=> AtCell(p))
      BY <1>1, <1>2, <1>6 DEF Users
    <2>2. \A d \in Consumers : mpc'[d] = "access" => mpc[d] = "access"
      BY <1>2 DEF Users
    <2>3. QED
      BY <1>1, <2>1, <2>2 DEF DataInv
  <1>10. QED
    BY <1>5, <1>7, <1>8, <1>9

LEMMA PublishKeeps ==
  ASSUME MPMCInv, NEW p \in Producers, Publish(p)
  PROVE  MPMCInv'
  <1> USE CapacityAssumption, PartiesAssumption DEF MPMCInv
  <1>1. /\ head \in Nat /\ tail \in Nat /\ head <= tail /\ tail <= head + Capacity
        /\ Capacity \in Nat /\ p \in Users /\ p \notin Consumers
        /\ mpc[p] = "release" /\ AtCell(p) /\ pos[p] \in Nat /\ Slot(pos[p]) \in Slots
        /\ UNCHANGED <<head, tail, data, mlog, mreceived>>
        /\ \A i \in Slots : sequence[i] \in Nat
    BY SlotFacts DEF Publish, MPMCTypeOK, Users, AtCell
  <1>2. head <= pos[p] /\ pos[p] < tail /\ sequence[Slot(pos[p])] = pos[p]
    BY <1>1 DEF HolderInv
  <1>3. /\ sequence' \in [Slots -> Nat] /\ sequence'[Slot(pos[p])] = pos[p] + 1
        /\ \A i \in Slots : i # Slot(pos[p]) => sequence'[i] = sequence[i]
        /\ \A i \in Slots : sequence'[i] >= sequence[i]
    BY <1>1, <1>2 DEF Publish, MPMCTypeOK
  <1>4. /\ mpc' \in [Users -> {"idle", "load", "look", "claim", "access", "release", "size"}]
        /\ pos' \in [Users -> Nat] /\ mitem' \in [Producers -> Items \cup {NoItem}]
        /\ mpc'[p] = "idle"
        /\ \A u \in Users \ {p} : mpc'[u] = mpc[u] /\ pos'[u] = pos[u]
        /\ \A r \in Producers \ {p} : mitem'[r] = mitem[r]
    BY <1>1 DEF Publish, MPMCTypeOK
  <1>5. MPMCTypeOK'
    BY <1>1, <1>3, <1>4 DEF MPMCTypeOK
  <1>6. \A u \in Users : /\ AtCell(u)' <=> AtCell(u) /\ u # p
                         /\ u # p => mpc'[u] = mpc[u] /\ pos'[u] = pos[u] /\ pos[u] \in Nat
    BY <1>4 DEF AtCell, MPMCTypeOK
  <1>7. \A u \in Users : AtCell(u)' =>
            Slot(pos[u]) \in Slots /\ sequence'[Slot(pos[u])] = sequence[Slot(pos[u])]
    BY <1>1, <1>3, <1>6, Apart, SlotFacts
  <1>8. CellInv'
    <2>1. ASSUME NEW q \in Nat, head <= q, q < tail
          PROVE  \/ sequence'[Slot(q)] = q + 1
                 \/ sequence'[Slot(q)] = q /\ \E r \in Producers : AtCell(r)' /\ pos'[r] = q
      <3>1. CASE Slot(q) = Slot(pos[p])
        BY <1>1, <1>3, <2>1, <3>1, Apart
      <3>2. CASE Slot(q) # Slot(pos[p])
        <4>1. sequence'[Slot(q)] = sequence[Slot(q)]
          BY <1>3, <3>2, SlotFacts
        <4>2. \A r \in Producers : AtCell(r) /\ pos[r] = q => AtCell(r)' /\ pos'[r] = q
          BY <1>6, <3>2 DEF Users
        <4>3. QED
          BY <2>1, <4>1, <4>2 DEF CellInv
      <3>3. QED
        BY <3>1, <3>2
    <2>2. ASSUME NEW q \in Nat, tail <= q, q < head + Capacity
          PROVE  \/ sequence'[Slot(q)] = q
                 \/ /\ sequence'[Slot(q)] + Capacity = q + 1
                    /\ \E c \in Consumers : AtCell(c)' /\ pos'[c] + Capacity = q
      <3>1. q - pos[p] < Capacity /\ pos[p] - q < Capacity /\ q # pos[p]
        BY <1>1, <1>2, <2>2
      <3>2. Slot(q) # Slot(pos[p])
        BY <1>1, <3>1, SlotFacts
      <3>3. sequence'[Slot(q)] = sequence[Slot(q)]
        BY <1>3, <3>2, SlotFacts
      <3>4. \A c \in Consumers : AtCell(c) => AtCell(c)' /\ pos'[c] = pos[c]
        BY <1>1, <1>6 DEF Users
      <3>5. QED
        BY <2>2, <3>3, <3>4 DEF CellInv
    <2>3. QED
      BY <1>1, <2>1, <2>2 DEF CellInv
  <1>9. HolderInv'
    BY <1>1, <1>6, <1>7 DEF HolderInv, Users
  <1>10. ViewInv'
    <2>1. \A r \in Nat : sequence'[Slot(r)] >= sequence[Slot(r)] /\ sequence[Slot(r)] \in Nat
                         /\ sequence'[Slot(r)] \in Nat
      BY <1>1, <1>3, SlotFacts
    <2>2. ASSUME NEW r \in Producers, mpc'[r] \in {"look", "claim"}
          PROVE  /\ pos[r] <= tail
                 /\ pos[r] < tail => sequence'[Slot(pos[r])] >= pos[r]
                 /\ mpc'[r] = "claim" /\ pos[r] = tail => sequence'[Slot(tail)] = tail
                 /\ pos'[r] = pos[r]
      <3>1. mpc'[r] = mpc[r] /\ pos[r] \in Nat /\ pos'[r] = pos[r]
        BY <1>4, <1>6, <2>2 DEF Users
      <3>2. /\ pos[r] <= tail /\ (pos[r] < tail => sequence[Slot(pos[r])] >= pos[r])
            /\ mpc'[r] = "claim" /\ pos[r] = tail => sequence[Slot(tail)] = tail
        BY <2>2, <3>1 DEF ViewInv
      <3>3. sequence[Slot(tail)] = tail => sequence'[Slot(tail)] = tail
        BY <1>1, <1>2, <1>3, SlotFacts
      <3>4. pos[r] < tail => sequence'[Slot(pos[r])] >= pos[r]
        BY <1>1, <2>1, <3>1, <3>2
      <3>5. QED
        BY <3>1, <3>2, <3>3, <3>4
    <2>3. ASSUME NEW c \in Consumers, mpc'[c] \in {"look", "claim"}
          PROVE  /\ pos[c] <= head
                 /\ pos[c] < head => sequence'[Slot(pos[c])] >= pos[c] + 1
                 /\ mpc'[c] = "claim" /\ pos[c] = head => sequence'[Slot(head)] = head + 1
                 /\ pos'[c] = pos[c]
      <3>1. mpc'[c] = mpc[c] /\ pos[c] \in Nat /\ pos'[c] = pos[c]
        BY <1>4, <1>6, <2>3 DEF Users
      <3>2. /\ pos[c] <= head /\ (pos[c] < head => sequence[Slot(pos[c])] >= pos[c] + 1)
            /\ mpc'[c] = "claim" /\ pos[c] = head => sequence[Slot(head)] = head + 1
        BY <2>3, <3>1 DEF ViewInv
      <3>3. sequence[Slot(head)] = head + 1 => sequence'[Slot(head)] = head + 1
        <4>1. Slot(head) = Slot(pos[p]) => head = pos[p]
          BY <1>1, <1>2, Apart, head <= head, head < tail
        <4>2. QED
          BY <1>1, <1>2, <1>3, <4>1, SlotFacts
      <3>4. pos[c] < head => sequence'[Slot(pos[c])] >= pos[c] + 1
        BY <1>1, <2>1, <3>1, <3>2
      <3>5. QED
        BY <3>1, <3>2, <3>3, <3>4
    <2>4. \A u \in Users : mpc'[u] = "size" => pos'[u] <= head
      BY <1>4, <1>6 DEF ViewInv
    <2>5. QED
      BY <1>1, <2>2, <2>3, <2>4 DEF ViewInv
  <1>11. DataInv'
    <2>1. \A r \in Producers : mpc'[r] # "idle" => /\ r # p /\ mpc'[r] = mpc[r]
                                                   /\ mitem'[r] = mitem[r] /\ pos'[r] = pos[r]
      BY <1>4 DEF Users
    <2>2. \A r \in Producers : mpc'[r] \notin {"idle", "size"} => mitem'[r] \in Items
      BY <2>1 DEF DataInv
    <2>3. \A r \in Producers : AtCell(r)' => mlog[pos'[r] + 1] = mitem'[r]
      BY <1>6, <2>1 DEF DataInv, Users, AtCell
    <2>4. \A r \in Producers : mpc'[r] = "release" => data[Slot(pos'[r])] = mitem'[r]
      BY <2>1 DEF DataInv
    <2>5. \A c \in Consumers : mpc'[c] = "access" => data[Slot(pos'[c])] = mlog[pos'[c] + 1]
      BY <1>1, <1>6 DEF DataInv, Users
    <2>6. ASSUME NEW q \in Nat, head <= q, q < tail, sequence'[Slot(q)] = q + 1
          PROVE  data[Slot(q)] = mlog[q + 1]
      <3>1. CASE Slot(q) = Slot(pos[p])
        BY <1>1, <2>6, <3>1, Apart DEF DataInv
      <3>2. CASE Slot(q) # Slot(pos[p])
        BY <1>3, <2>6, <3>2, SlotFacts DEF DataInv
      <3>3. QED
        BY <3>1, <3>2
    <2>7. QED
      BY <1>1, <2>2, <2>3, <2>4, <2>5, <2>6 DEF DataInv
  <1>12. QED
    BY <1>5, <1>8, <1>9, <1>10, <1>11

LEMMA RecycleKeeps ==
  ASSUME MPMCInv, Capacity > 1, NEW c \in Consumers, Recycle(c)
  PROVE  MPMCInv'
  <1> USE CapacityAssumption, PartiesAssumption DEF MPMCInv
  <1>1. /\ head \in Nat /\ tail \in Nat /\ head <= tail /\ tail <= head + Capacity
        /\ Capacity \in Nat /\ c \in Users /\ c \notin Producers
        /\ mpc[c] = "release" /\ AtCell(c) /\ pos[c] \in Nat /\ Slot(pos[c]) \in Slots
        /\ UNCHANGED <<head, tail, data, mitem, mlog, mreceived>>
        /\ \A i \in Slots : sequence[i] \in Nat
    BY SlotFacts DEF Recycle, MPMCTypeOK, Users, AtCell
  <1>2. pos[c] < head /\ tail <= pos[c] + Capacity /\ sequence[Slot(pos[c])] = pos[c] + 1
    BY <1>1 DEF HolderInv
  <1>3. /\ sequence' \in [Slots -> Nat] /\ sequence'[Slot(pos[c])] = pos[c] + Capacity
        /\ \A i \in Slots : i # Slot(pos[c]) => sequence'[i] = sequence[i]
        /\ \A i \in Slots : sequence'[i] >= sequence[i]
    BY <1>1, <1>2 DEF Recycle, MPMCTypeOK
  <1>4. /\ mpc' \in [Users -> {"idle", "load", "look", "claim", "access", "release", "size"}]
        /\ pos' \in [Users -> Nat]
        /\ mpc'[c] = "idle"
        /\ \A u \in Users \ {c} : mpc'[u] = mpc[u] /\ pos'[u] = pos[u]
    BY <1>1 DEF Recycle, MPMCTypeOK
  <1>5. MPMCTypeOK'
    BY <1>1, <1>3, <1>4 DEF MPMCTypeOK
  <1>6. \A u \in Users : /\ AtCell(u)' <=> AtCell(u) /\ u # c
                         /\ u # c => mpc'[u] = mpc[u] /\ pos'[u] = pos[u] /\ pos[u] \in Nat
    BY <1>4 DEF AtCell, MPMCTypeOK
  <1>7. \A u \in Users : AtCell(u)' =>
            Slot(pos[u]) \in Slots /\ sequence'[Slot(pos[u])] = sequence[Slot(pos[u])]
    BY <1>1, <1>3, <1>6, Apart, SlotFacts
  <1>8. ASSUME NEW q \in Nat, head <= q, q < tail
        PROVE  sequence'[Slot(q)] = sequence[Slot(q)]
    <2>1. Slot(q) # Slot(pos[c])
      BY <1>1, <1>2, <1>8, Apart
    <2>2. QED
      BY <1>3, <2>1, SlotFacts
  <1>9. CellInv'
    <2>1. ASSUME NEW q \in Nat, head <= q, q < tail
          PROVE  \/ sequence'[Slot(q)] = q + 1
                 \/ sequence'[Slot(q)] = q /\ \E r \in Producers : AtCell(r)' /\ pos'[r] = q
      <3>1. \A r \in Producers : AtCell(r) => AtCell(r)' /\ pos'[r] = pos[r]
        BY <1>1, <1>6 DEF Users
      <3>2. QED
        BY <1>8, <2>1, <3>1 DEF CellInv
    <2>2. ASSUME NEW q \in Nat, tail <= q, q < head + Capacity
          PROVE  \/ sequence'[Slot(q)] = q
                 \/ /\ sequence'[Slot(q)] + Capacity = q + 1
                    /\ \E d \in Consumers : AtCell(d)' /\ pos'[d] + Capacity = q
      <3>1. /\ Slot(pos[c] + Capacity) = Slot(pos[c]) /\ pos[c] + Capacity \in Nat
            /\ q - (pos[c] + Capacity) < Capacity /\ (pos[c] + Capacity) - q < Capacity
        BY <1>1, <1>2, <2>2, SlotFacts
      <3>2. CASE Slot(q) = Slot(pos[c])
        <4>1. q = pos[c] + Capacity
          BY <3>1, <3>2, SlotFacts
        <4>2. QED
          BY <1>3, <3>2, <4>1
      <3>3. CASE Slot(q) # Slot(pos[c])
        <4>1. sequence'[Slot(q)] = sequence[Slot(q)]
          BY <1>3, <3>3, SlotFacts
        <4>2. \A d \in Consumers : AtCell(d) /\ pos[d] + Capacity = q =>
                  AtCell(d)' /\ pos'[d] + Capacity = q
          BY <1>6, <3>1, <3>3 DEF Users
        <4>3. QED
          BY <2>2, <4>1, <4>2 DEF CellInv
      <3>4. QED
        BY <3>2, <3>3
    <2>3. QED
      BY <1>1, <2>1, <2>2 DEF CellInv
  <1>10. HolderInv'
    BY <1>1, <1>6, <1>7 DEF HolderInv, Users
  <1>11. ViewInv'
    <2>1. \A r \in Nat : sequence'[Slot(r)] >= sequence[Slot(r)] /\ sequence[Slot(r)] \in Nat
                         /\ sequence'[Slot(r)] \in Nat
      BY <1>1, <1>3, SlotFacts
    <2>2. ASSUME NEW p \in Producers, mpc'[p] \in {"look", "claim"}
          PROVE  /\ pos[p] <= tail
                 /\ pos[p] < tail => sequence'[Slot(pos[p])] >= pos[p]
                 /\ mpc'[p] = "claim" /\ pos[p] = tail => sequence'[Slot(tail)] = tail
                 /\ pos'[p] = pos[p]
      <3>1. mpc'[p] = mpc[p] /\ pos[p] \in Nat /\ pos'[p] = pos[p]
        BY <1>1, <1>6 DEF Users
      <3>2. /\ pos[p] <= tail /\ (pos[p] < tail => sequence[Slot(pos[p])] >= pos[p])
            /\ mpc'[p] = "claim" /\ pos[p] = tail => sequence[Slot(tail)] = tail
        BY <2>2, <3>1 DEF ViewInv
      <3>3. sequence[Slot(tail)] = tail => sequence'[Slot(tail)] = tail
        <4>1. SUFFICES ASSUME sequence[Slot(tail)] = tail, Slot(tail) = Slot(pos[c])
                       PROVE  FALSE
          BY <1>1, <1>3, SlotFacts
        <4>2. tail = pos[c] + 1
          BY <1>2, <4>1
        <4>3. tail - pos[c] < Capacity /\ pos[c] - tail < Capacity
          BY <1>1, <4>2
        <4>4. tail = pos[c]
          BY <1>1, <4>1, <4>3, SlotFacts
        <4>5. QED
          BY <1>1, <4>2, <4>4
      <3>4. pos[p] < tail => sequence'[Slot(pos[p])] >= pos[p]
        BY <1>1, <2>1, <3>1, <3>2
      <3>5. QED
        BY <3>1, <3>2, <3>3, <3>4
    <2>3. ASSUME NEW d \in Consumers, mpc'[d] \in {"look", "claim"}
          PROVE  /\ pos[d] <= head
                 /\ pos[d] < head => sequence'[Slot(pos[d])] >= pos[d] + 1
                 /\ mpc'[d] = "claim" /\ pos[d] = head => sequence'[Slot(head)] = head + 1
                 /\ pos'[d] = pos[d]
      <3>1. mpc'[d] = mpc[d] /\ pos[d] \in Nat /\ pos'[d] = pos[d]
        BY <1>4, <1>6, <2>3 DEF Users
      <3>2. /\ pos[d] <= head /\ (pos[d] < head => sequence[Slot(pos[d])] >= pos[d] + 1)
            /\ mpc'[d] = "claim" /\ pos[d] = head => sequence[Slot(head)] = head + 1
        BY <2>3, <3>1 DEF ViewInv
      <3>3. sequence[Slot(head)] = head + 1 => sequence'[Slot(head)] = head + 1
        BY <1>1, <1>2, <1>3, SlotFacts
      <3>4. pos[d] < head => sequence'[Slot(pos[d])] >= pos[d] + 1
        BY <1>1, <2>1, <3>1, <3>2
      <3>5. QED
        BY <3>1, <3>2, <3>3, <3>4
    <2>4. \A u \in Users : mpc'[u] = "size" => pos'[u] <= head
      BY <1>4, <1>6 DEF ViewInv
    <2>5. QED
      BY <1>1, <2>2, <2>3, <2>4 DEF ViewInv
  <1>12. DataInv'
    <2>1. \A p \in Producers : mpc'[p] = mpc[p] /\ pos'[p] = pos[p] /\ (AtCell(p)' <=> AtCell(p))
      BY <1>1, <1>6 DEF Users
    <2>2. \A d \in Consumers : mpc'[d] = "access" => mpc[d] = "access" /\ pos'[d] = pos[d]
      BY <1>4, <1>6 DEF Users
    <2>3. QED
      BY <1>1, <1>8, <2>1, <2>2 DEF DataInv
  <1>13. QED
    BY <1>5, <1>9, <1>10, <1>11, <1>12

\* One step, of any thread.
LEMMA MPMCKeeps ==
  ASSUME MPMCInv, Capacity > 1, [MPMCNext]_mpmcVars
  PROVE  MPMCInv'
  <1>1. CASE MPMCNext
    BY <1>1, ReadersKeep, CallersKeep, ClaimTailKeeps, WriteKeeps, PublishKeeps, ClaimHeadKeeps,
       ReadCellKeeps, RecycleKeeps DEF MPMCNext
  <1>2. CASE UNCHANGED mpmcVars
    BY <1>2 DEF mpmcVars, MPMCInv, MPMCTypeOK, CellInv, HolderInv, ViewInv, DataInv, AtCell
  <1>3. QED
    BY <1>1, <1>2

\* What the invariant says of two threads at a cell.
LEMMA OneThreadPerCell == MPMCInv => NoSharedCell
  BY Apart DEF NoSharedCell, Busy, AtCell

-----------------------------------------------------------------------------
(* The stack.                                                                *)

\* A node that is not yet on the stack belongs to the one producer that allocated it,
\* so a link is never changed under a consumer that has read it.
NodeInv ==
    /\ \A p \in Producers : /\ kpc[p] \in {"idle", "link", "swap"}
                            /\ kpc[p] # "idle" => node[p] \in Items \ kpushed
                            /\ kpc[p] = "swap" => nextOf[node[p]] = seen[p]
    /\ \A p, q \in Producers : node[p] \in Items /\ p # q => node[p] # node[q]
    /\ \A c \in Consumers : /\ kpc[c] \in {"idle", "follow", "swap", "move"}
                            /\ kpc[c] # "idle" => seen[c] \in kpushed
                            /\ kpc[c] = "swap" => seenNext[c] = nextOf[seen[c]]
    /\ \A i \in 1..Len(stack) : stack[i] \in kpushed

StackInv == StackTypeOK /\ ListIsStack /\ NodeInv

LEMMA StackStart == StackInit => StackInv
  <1> SUFFICES ASSUME StackInit PROVE StackInv
    OBVIOUS
  <1> USE PartiesAssumption DEF StackInit
  <1>1. StackTypeOK
    BY DEF StackTypeOK
  <1>2. ListIsStack
    BY DEF ListIsStack
  <1>3. NodeInv
    BY DEF NodeInv, Threads
  <1>4. QED
    BY <1>1, <1>2, <1>3 DEF StackInv

\* The head of the list, and what is below it.
LEMMA TopFacts ==
  ASSUME StackInv
  PROVE  /\ Len(stack) \in Nat /\ DOMAIN stack = 1..Len(stack)
         /\ \A i \in 1..Len(stack) : stack[i] \in Items
         /\ Len(stack) = 0 <=> stack = <<>>
         /\ Len(stack) = 0 => top = NoItem
         /\ Len(stack) > 0 => top = stack[1] /\ top \in kpushed /\ top = Head(stack)
  BY EmptySeq DEF StackInv, StackTypeOK, ListIsStack, NodeInv

LEMMA PushersKeep ==
  ASSUME StackInv, NEW p \in Producers, NEW x \in Items, StackPush(p, x) \/ Link(p)
  PROVE  StackInv'
  <1> USE PartiesAssumption DEF StackInv
  <1>1. p \in Threads /\ p \notin Consumers
    BY DEF Threads
  <1>2. CASE StackPush(p, x)
    <2> USE DEF StackPush
    <2>1. StackTypeOK'
      BY <1>1, <1>2 DEF StackTypeOK
    <2>2. ListIsStack'
      BY <1>2 DEF ListIsStack
    <2>3. /\ kpc'[p] = "link" /\ node'[p] = x /\ x \notin kpushed
          /\ \A t \in Threads \ {p} : kpc'[t] = kpc[t] /\ seen'[t] = seen[t]
          /\ \A q \in Producers \ {p} : node'[q] = node[q] /\ node[q] # x
          /\ UNCHANGED <<nextOf, seenNext, stack, kpushed>>
      BY <1>1, <1>2 DEF StackTypeOK
    <2>4. \A q \in Producers : /\ kpc'[q] \in {"idle", "link", "swap"}
                               /\ kpc'[q] # "idle" => node'[q] \in Items \ kpushed
                               /\ kpc'[q] = "swap" => nextOf[node'[q]] = seen'[q]
      BY <2>3 DEF NodeInv, Threads
    <2>5. \A q, r \in Producers : node'[q] \in Items /\ q # r => node'[q] # node'[r]
      BY <2>3 DEF NodeInv
    <2>6. \A c \in Consumers : kpc'[c] = kpc[c] /\ seen'[c] = seen[c]
      BY <1>1, <2>3 DEF Threads
    <2>7. NodeInv'
      BY <2>3, <2>4, <2>5, <2>6 DEF NodeInv
    <2>8. QED
      BY <2>1, <2>2, <2>7
  <1>3. CASE Link(p)
    <2>1. /\ node[p] \in Items /\ node[p] \notin kpushed
          /\ kpc[p] = "link"
          /\ UNCHANGED <<top, node, seen, seenNext, stack, kpushed, kreceived>>
      BY <1>3 DEF Link, NodeInv
    <2>2. /\ kpc' \in [Threads -> {"idle", "link", "swap", "follow", "move"}]
          /\ kpc'[p] = "swap" /\ \A t \in Threads \ {p} : kpc'[t] = kpc[t]
      BY <1>1, <1>3 DEF Link, StackTypeOK
    <2>3. /\ nextOf' \in [Items -> Items \cup {NoItem}] /\ nextOf'[node[p]] = seen[p]
          /\ \A y \in Items : y # node[p] => nextOf'[y] = nextOf[y]
      BY <1>1, <1>3, <2>1 DEF Link, StackTypeOK
    <2>4. StackTypeOK'
      BY <2>1, <2>2, <2>3 DEF StackTypeOK
    <2>5. \A y \in kpushed : nextOf'[y] = nextOf[y]
      BY <2>1, <2>3 DEF StackTypeOK
    <2>6. ListIsStack'
      <3>1. \A i \in DOMAIN stack : stack[i] \in kpushed
        BY TopFacts DEF NodeInv
      <3>2. QED
        BY <2>1, <2>5, <3>1 DEF ListIsStack
    <2>7. \A q \in Producers : /\ kpc'[q] \in {"idle", "link", "swap"}
                               /\ kpc'[q] # "idle" => node[q] \in Items \ kpushed
      BY <2>1, <2>2 DEF NodeInv, Threads
    <2>8. ASSUME NEW q \in Producers, kpc'[q] = "swap" PROVE nextOf'[node[q]] = seen[q]
      <3>1. CASE q = p
        BY <2>3, <3>1
      <3>2. CASE q # p
        <4>1. kpc[q] = "swap" /\ node[q] \in Items /\ node[q] # node[p]
          BY <2>1, <2>2, <2>8, <3>2 DEF NodeInv, Threads
        <4>2. QED
          BY <2>3, <4>1 DEF NodeInv
      <3>3. QED
        BY <3>1, <3>2
    <2>9. \A c \in Consumers : /\ kpc'[c] = kpc[c]
                               /\ kpc[c] = "swap" => nextOf'[seen[c]] = nextOf[seen[c]]
      BY <1>1, <2>2, <2>5 DEF NodeInv, Threads
    <2>10. NodeInv'
      BY <2>1, <2>7, <2>8, <2>9 DEF NodeInv
    <2>11. QED
      BY <2>4, <2>6, <2>10
  <1>4. QED
    BY <1>2, <1>3

LEMMA PushSwapKeeps ==
  ASSUME StackInv, NEW p \in Producers, PushSwap(p)
  PROVE  StackInv'
  <1> USE PartiesAssumption DEF StackInv
  <1>1. /\ p \in Threads /\ p \notin Consumers /\ kpc[p] = "swap" /\ top = seen[p]
        /\ node[p] \in Items /\ node[p] \notin kpushed /\ nextOf[node[p]] = top
        /\ top' = node[p] /\ stack' = <<node[p]>> \o stack /\ kpushed' = kpushed \cup {node[p]}
        /\ UNCHANGED <<nextOf, seen, seenNext, kreceived>>
    BY DEF PushSwap, Threads, NodeInv
  <1>2. /\ kpc' \in [Threads -> {"idle", "link", "swap", "follow", "move"}]
        /\ node' \in [Producers -> Items \cup {NoItem}]
        /\ kpc'[p] = "idle" /\ \A t \in Threads \ {p} : kpc'[t] = kpc[t]
        /\ node'[p] = NoItem /\ \A q \in Producers \ {p} : node'[q] = node[q]
    BY <1>1 DEF PushSwap, StackTypeOK
  <1>3. /\ stack \in Seq(Items) /\ <<node[p]>> \in Seq(Items)
        /\ Len(<<node[p]>>) = 1 /\ <<node[p]>>[1] = node[p]
    BY <1>1 DEF StackTypeOK
  <1>4. /\ stack' \in Seq(Items) /\ Len(stack') = Len(stack) + 1 /\ Len(stack) \in Nat
        /\ stack'[1] = node[p] /\ \A i \in 2..(Len(stack) + 1) : stack'[i] = stack[i - 1]
    BY <1>1, <1>3, ConcatProperties, LenProperties
  <1>5. StackTypeOK'
    BY <1>1, <1>2, <1>4 DEF StackTypeOK
  <1>6. ListIsStack'
    <2>1. stack' # <<>> /\ Head(stack') = stack'[1] /\ DOMAIN stack' = 1..(Len(stack) + 1)
      BY <1>4
    <2>2. ASSUME NEW i \in 1..(Len(stack) + 1)
          PROVE  nextOf[stack'[i]] = IF i = Len(stack) + 1 THEN NoItem ELSE stack'[i + 1]
      <3>1. CASE i = 1
        BY <1>1, <1>4, <3>1, TopFacts
      <3>2. CASE i # 1
        <4>1. i \in 2..(Len(stack) + 1) /\ i - 1 \in 1..Len(stack) /\ i - 1 \in DOMAIN stack
          BY <1>4, <3>2, TopFacts
        <4>2. nextOf[stack[i - 1]] = IF i - 1 = Len(stack) THEN NoItem ELSE stack[(i - 1) + 1]
          BY <4>1 DEF ListIsStack
        <4>3. i # Len(stack) + 1 => stack'[i + 1] = stack[(i - 1) + 1]
          BY <1>4, <4>1
        <4>4. QED
          BY <1>4, <4>1, <4>2, <4>3
      <3>3. QED
        BY <3>1, <3>2
    <2>3. QED
      BY <1>1, <1>4, <2>1, <2>2 DEF ListIsStack
  <1>7. NodeInv'
    <2>1. \A q \in Producers : /\ kpc'[q] \in {"idle", "link", "swap"}
                               /\ kpc'[q] # "idle" => node'[q] \in Items \ kpushed'
                               /\ kpc'[q] = "swap" => nextOf[node'[q]] = seen[q]
      BY <1>1, <1>2 DEF NodeInv, Threads
    <2>2. \A q, r \in Producers : node'[q] \in Items /\ q # r => node'[q] # node'[r]
      BY <1>2 DEF NodeInv
    <2>3. \A c \in Consumers : kpc'[c] = kpc[c]
      BY <1>1, <1>2 DEF Threads
    <2>4. ASSUME NEW i \in 1..(Len(stack) + 1) PROVE stack'[i] \in kpushed'
      <3>1. CASE i = 1
        BY <1>1, <1>4, <3>1
      <3>2. CASE i # 1
        <4>1. i \in 2..(Len(stack) + 1) /\ i - 1 \in 1..Len(stack)
          BY <1>4, <3>2
        <4>2. QED
          BY <1>1, <1>4, <4>1 DEF NodeInv
      <3>3. QED
        BY <3>1, <3>2
    <2>5. QED
      BY <1>1, <1>4, <2>1, <2>2, <2>3, <2>4 DEF NodeInv
  <1>8. QED
    BY <1>5, <1>6, <1>7

LEMMA PoppersKeep ==
  ASSUME StackInv,
         \/ \E t \in Threads : SwapFails(t)
         \/ \E c \in Consumers : StackPop(c) \/ Follow(c) \/ MoveOut(c)
  PROVE  StackInv'
  <1> USE PartiesAssumption DEF StackInv
  <1>1. ASSUME NEW t \in Threads, SwapFails(t) PROVE StackInv'
    <2>1. /\ UNCHANGED <<top, nextOf, node, seenNext, stack, kpushed, kreceived>>
          /\ seen' \in [Threads -> Items \cup {NoItem}] /\ seen'[t] = top
          /\ kpc' \in [Threads -> {"idle", "link", "swap", "follow", "move"}]
          /\ kpc'[t] = IF t \in Producers THEN "link"
                       ELSE IF top = NoItem THEN "idle" ELSE "follow"
          /\ \A u \in Threads \ {t} : kpc'[u] = kpc[u] /\ seen'[u] = seen[u]
          /\ kpc[t] = "swap"
      BY <1>1 DEF SwapFails, StackTypeOK
    <2>2. StackTypeOK' /\ ListIsStack'
      BY <2>1 DEF StackTypeOK, ListIsStack
    <2>3. \A q \in Producers : /\ kpc'[q] \in {"idle", "link", "swap"}
                               /\ kpc'[q] # "idle" => node[q] \in Items \ kpushed
                               /\ kpc'[q] = "swap" => nextOf[node[q]] = seen'[q]
      BY <2>1 DEF NodeInv, Threads
    <2>4. top # NoItem => top \in kpushed
      BY TopFacts
    <2>5. \A c \in Consumers : /\ kpc'[c] \in {"idle", "follow", "swap", "move"}
                               /\ kpc'[c] # "idle" => seen'[c] \in kpushed
                               /\ kpc'[c] = "swap" => seenNext[c] = nextOf[seen'[c]]
      BY <2>1, <2>4 DEF NodeInv, Threads
    <2>6. NodeInv'
      BY <2>1, <2>3, <2>5 DEF NodeInv
    <2>7. QED
      BY <2>2, <2>6
  <1>2. ASSUME NEW c \in Consumers, StackPop(c) PROVE StackInv'
    <2>1. /\ UNCHANGED <<top, nextOf, node, seenNext, stack, kpushed, kreceived>>
          /\ seen' \in [Threads -> Items \cup {NoItem}] /\ seen'[c] = top
          /\ kpc' \in [Threads -> {"idle", "link", "swap", "follow", "move"}]
          /\ kpc'[c] = "follow" /\ top # NoItem /\ c \notin Producers
          /\ \A u \in Threads \ {c} : kpc'[u] = kpc[u] /\ seen'[u] = seen[u]
      BY <1>2 DEF StackPop, StackTypeOK, Threads
    <2>2. StackTypeOK' /\ ListIsStack'
      BY <2>1 DEF StackTypeOK, ListIsStack
    <2>3. top \in kpushed
      BY <2>1, TopFacts
    <2>4. \A q \in Producers : kpc'[q] = kpc[q] /\ seen'[q] = seen[q]
      BY <2>1 DEF Threads
    <2>5. \A d \in Consumers : /\ kpc'[d] \in {"idle", "follow", "swap", "move"}
                               /\ kpc'[d] # "idle" => seen'[d] \in kpushed
                               /\ kpc'[d] = "swap" => seenNext[d] = nextOf[seen'[d]]
      BY <2>1, <2>3 DEF NodeInv, Threads
    <2>6. NodeInv'
      BY <2>1, <2>4, <2>5 DEF NodeInv
    <2>7. QED
      BY <2>2, <2>6
  <1>3. ASSUME NEW c \in Consumers, Follow(c) PROVE StackInv'
    <2>1. /\ UNCHANGED <<top, nextOf, node, seen, stack, kpushed, kreceived>>
          /\ kpc[c] = "follow" /\ seen[c] \in Items
      BY <1>3 DEF Follow, NodeInv, StackTypeOK
    <2>2. /\ seenNext' \in [Consumers -> Items \cup {NoItem}] /\ seenNext'[c] = nextOf[seen[c]]
          /\ \A d \in Consumers \ {c} : seenNext'[d] = seenNext[d]
      BY <1>3, <2>1 DEF Follow, StackTypeOK
    <2>3. /\ kpc' \in [Threads -> {"idle", "link", "swap", "follow", "move"}]
          /\ kpc'[c] = "swap" /\ c \notin Producers
          /\ \A u \in Threads \ {c} : kpc'[u] = kpc[u]
      BY <1>3 DEF Follow, StackTypeOK, Threads
    <2>4. StackTypeOK' /\ ListIsStack'
      BY <2>1, <2>2, <2>3 DEF StackTypeOK, ListIsStack
    <2>5. \A q \in Producers : kpc'[q] = kpc[q]
      BY <2>3 DEF Threads
    <2>6. \A d \in Consumers : /\ kpc'[d] \in {"idle", "follow", "swap", "move"}
                               /\ kpc'[d] # "idle" => seen[d] \in kpushed
                               /\ kpc'[d] = "swap" => seenNext'[d] = nextOf[seen[d]]
      BY <2>1, <2>2, <2>3 DEF NodeInv, Threads
    <2>7. NodeInv'
      BY <2>1, <2>5, <2>6 DEF NodeInv
    <2>8. QED
      BY <2>4, <2>7
  <1>4. ASSUME NEW c \in Consumers, MoveOut(c) PROVE StackInv'
    <2>1. /\ UNCHANGED <<top, nextOf, node, seen, seenNext, stack, kpushed>>
          /\ kpc[c] = "move" /\ seen[c] \in Items
      BY <1>4 DEF MoveOut, NodeInv, StackTypeOK
    <2>2. kreceived' \in [Consumers -> SUBSET Items]
      BY <1>4, <2>1 DEF MoveOut, StackTypeOK
    <2>3. /\ kpc' \in [Threads -> {"idle", "link", "swap", "follow", "move"}]
          /\ kpc'[c] = "idle" /\ c \notin Producers
          /\ \A u \in Threads \ {c} : kpc'[u] = kpc[u]
      BY <1>4 DEF MoveOut, StackTypeOK, Threads
    <2>4. StackTypeOK' /\ ListIsStack'
      BY <2>1, <2>2, <2>3 DEF StackTypeOK, ListIsStack
    <2>5. /\ \A q \in Producers : kpc'[q] = kpc[q]
          /\ \A d \in Consumers : kpc'[d] = "idle" \/ kpc'[d] = kpc[d]
      BY <2>3 DEF Threads
    <2>6. NodeInv'
      BY <2>1, <2>5 DEF NodeInv
    <2>7. QED
      BY <2>4, <2>6
  <1>5. QED
    BY <1>1, <1>2, <1>3, <1>4

LEMMA PopSwapKeeps ==
  ASSUME StackInv, NEW c \in Consumers, PopSwap(c)
  PROVE  StackInv' /\ stack # <<>> /\ seen[c] = Head(stack)
  <1> USE PartiesAssumption DEF StackInv
  <1>1. /\ c \in Threads /\ c \notin Producers /\ kpc[c] = "swap" /\ top = seen[c]
        /\ seen[c] \in kpushed /\ seen[c] \in Items /\ seenNext[c] = nextOf[top]
        /\ top' = nextOf[top] /\ stack' = Tail(stack)
        /\ UNCHANGED <<nextOf, node, seen, seenNext, kpushed, kreceived>>
    BY DEF PopSwap, Threads, NodeInv, StackTypeOK
  <1>2. /\ kpc' \in [Threads -> {"idle", "link", "swap", "follow", "move"}]
        /\ kpc'[c] = "move" /\ \A t \in Threads \ {c} : kpc'[t] = kpc[t]
    BY <1>1 DEF PopSwap, StackTypeOK
  <1>3. /\ Len(stack) \in Nat /\ Len(stack) > 0 /\ stack # <<>> /\ top = stack[1]
        /\ top = Head(stack) /\ DOMAIN stack = 1..Len(stack)
    BY <1>1, TopFacts
  <1>4. /\ stack' \in Seq(Items) /\ Len(stack') = Len(stack) - 1
        /\ \A i \in 1..(Len(stack) - 1) : stack'[i] = stack[i + 1]
    BY <1>1, <1>3, HeadTailProperties DEF StackTypeOK
  <1>5. top' \in Items \cup {NoItem}
    BY <1>1 DEF StackTypeOK
  <1>6. StackTypeOK'
    BY <1>1, <1>2, <1>4, <1>5 DEF StackTypeOK
  <1>7. \A i \in 1..Len(stack) :
            nextOf[stack[i]] = IF i = Len(stack) THEN NoItem ELSE stack[i + 1]
    BY <1>3 DEF ListIsStack
  <1>8. ListIsStack'
    <2>1. top' = IF stack' = <<>> THEN NoItem ELSE Head(stack')
      <3>1. CASE Len(stack) = 1
        BY <1>1, <1>3, <1>4, <1>7, <3>1, EmptySeq
      <3>2. CASE Len(stack) # 1
        <4>1. stack' # <<>> /\ Head(stack') = stack'[1] /\ stack'[1] = stack[2]
          BY <1>3, <1>4, <3>2
        <4>2. nextOf[stack[1]] = stack[1 + 1]
          <5>1. 1 \in 1..Len(stack) /\ 1 # Len(stack)
            BY <1>3, <3>2
          <5>2. QED
            BY <1>7, <5>1
        <4>3. QED
          BY <1>1, <1>3, <4>1, <4>2
      <3>3. QED
        BY <3>1, <3>2
    <2>2. DOMAIN stack' = 1..(Len(stack) - 1)
      BY <1>3, <1>4
    <2>3. ASSUME NEW i \in 1..(Len(stack) - 1)
          PROVE  nextOf[stack'[i]] = IF i = Len(stack) - 1 THEN NoItem ELSE stack'[i + 1]
      <3>1. i + 1 \in 1..Len(stack) /\ stack'[i] = stack[i + 1]
        BY <1>3, <1>4
      <3>2. nextOf[stack[i + 1]] = IF i + 1 = Len(stack) THEN NoItem ELSE stack[(i + 1) + 1]
        BY <1>7, <3>1
      <3>3. ASSUME i # Len(stack) - 1 PROVE stack'[i + 1] = stack[(i + 1) + 1]
        <4>1. i \in Nat /\ i >= 1 /\ i <= Len(stack) - 1 /\ Len(stack) \in Nat
          BY <1>3
        <4>2. i < Len(stack) - 1
          BY <3>3, <4>1
        <4>3. i + 1 \in 1..(Len(stack) - 1)
          BY <4>1, <4>2
        <4>4. QED
          BY <1>4, <4>3
      <3>4. i + 1 = Len(stack) <=> i = Len(stack) - 1
        BY <1>3
      <3>5. QED
        BY <3>1, <3>2, <3>3, <3>4
    <2>4. QED
      BY <1>1, <1>4, <2>1, <2>2, <2>3 DEF ListIsStack
  <1>9. NodeInv'
    <2>1. /\ \A q \in Producers : kpc'[q] = kpc[q]
          /\ \A d \in Consumers : d = c \/ kpc'[d] = kpc[d]
      BY <1>1, <1>2 DEF Threads
    <2>2. \A i \in 1..(Len(stack) - 1) : stack'[i] \in kpushed
      BY <1>3, <1>4 DEF NodeInv
    <2>3. QED
      BY <1>1, <1>2, <1>4, <2>1, <2>2 DEF NodeInv
  <1>10. QED
    BY <1>1, <1>3, <1>6, <1>8, <1>9

\* One step, of any thread.
LEMMA StackKeeps ==
  ASSUME StackInv, [StackNext]_stackVars
  PROVE  StackInv'
  <1>1. CASE StackNext
    <2>1. ASSUME NEW p \in Producers, Link(p) PROVE StackInv'
      <3>1. node[p] \in Items
        BY <2>1 DEF StackInv, NodeInv, Link
      <3>2. QED
        BY <2>1, <3>1, PushersKeep
    <2>2. QED
      BY <1>1, <2>1, PushersKeep, PushSwapKeeps, PoppersKeep, PopSwapKeeps DEF StackNext
  <1>2. CASE UNCHANGED stackVars
    BY <1>2 DEF stackVars, StackInv, StackTypeOK, ListIsStack, NodeInv
  <1>3. QED
    BY <1>1, <1>2

-----------------------------------------------------------------------------
(* The SPSC queue.                                                           *)

\* How many items the stores of m_readPos have let go.
Left == IF qpc = "idle" THEN staken ELSE staken - 1

\* The indices are where the counts of pushes and pops say, less than a lap apart, and
\* the cells between them hold the items that are inside.
RingInv ==
    /\ qpc # "idle" => staken >= 1
    /\ Len(slog) - Left < Ring
    /\ readPos = Left % Ring /\ writePos = Len(slog) % Ring
    /\ ppc # "idle" => pitem \in Items /\ Len(slog) - Left < Ring - 1
    /\ ppc = "store" => buffer[writePos] = pitem
    /\ \A i \in Nat : Left <= i /\ i < Len(slog) => buffer[i % Ring] = slog[i + 1]

SPSCInv == SPSCTypeOK /\ RingInv

LEMMA SPSCStart == SPSCInit => SPSCInv
  <1> SUFFICES ASSUME SPSCInit PROVE SPSCInv
    OBVIOUS
  <1> USE RingAssumption DEF SPSCInit
  <1>1. SPSCTypeOK
    BY DEF SPSCTypeOK, RingSlots
  <1>2. 0 % Ring = 0
    BY ModSmall
  <1>3. Left = 0 /\ Len(slog) = 0
    BY DEF Left
  <1>4. RingInv
    BY <1>2, <1>3 DEF RingInv
  <1>5. QED
    BY <1>1, <1>4 DEF SPSCInv

LEMMA SPSCNumbers ==
  ASSUME SPSCInv
  PROVE  /\ Ring \in Nat \ {0} /\ Len(slog) \in Nat /\ staken \in Nat /\ staken <= Len(slog)
         /\ Left \in Nat /\ Left <= staken /\ Len(slog) - Left < Ring
         /\ \A i \in Nat : i % Ring \in RingSlots
         /\ slog \in Seq(Items)
  <1> USE RingAssumption DEF SPSCInv
  <1>1. Ring \in Nat \ {0} /\ Len(slog) \in Nat /\ staken \in Nat /\ staken <= Len(slog)
        /\ slog \in Seq(Items)
    BY DEF SPSCTypeOK
  <1>2. Left \in Nat /\ Left <= staken
    BY <1>1 DEF Left, RingInv
  <1>3. \A i \in Nat : i % Ring \in RingSlots
    BY <1>1, DivMod DEF RingSlots
  <1>4. QED
    BY <1>1, <1>2, <1>3 DEF RingInv

LEMMA SPSCPushKeeps ==
  ASSUME SPSCInv, NEW x \in Items, TryPush(x) \/ PushItem \/ PushStore
  PROVE  /\ SPSCInv'
         /\ PushStore => Len(slog) - staken + 1 \in 0..(Ring - 1) /\ pitem \in Items
  <1> USE DEF SPSCInv
  <1>1. /\ Ring \in Nat \ {0} /\ Len(slog) \in Nat /\ staken \in Nat /\ staken <= Len(slog)
        /\ Left \in Nat /\ Left <= staken /\ Len(slog) - Left < Ring
    BY SPSCNumbers
  <1>2. /\ readPos = Left % Ring /\ writePos = Len(slog) % Ring
        /\ writePos \in RingSlots /\ slog \in Seq(Items)
        /\ \A i \in Nat : i % Ring \in RingSlots
    BY SPSCNumbers DEF RingInv
  <1>3. CASE TryPush(x)
    <2>1. /\ UNCHANGED <<readPos, writePos, buffer, qpc, slog, staken, sreceived>>
          /\ pitem' = x /\ ppc' = "access" /\ StepOn(writePos) # readPos
      BY <1>3 DEF TryPush, Full
    <2>2. StepOn(writePos) = (Len(slog) + 1) % Ring
      BY <1>1, <1>2, ModStep DEF StepOn
    <2>3. Len(slog) - Left # Ring - 1
      <3>1. SUFFICES ASSUME Len(slog) - Left = Ring - 1 PROVE FALSE
        OBVIOUS
      <3>2. Len(slog) + 1 = Left + Ring
        BY <1>1, <3>1
      <3>3. (Left + Ring) % Ring = Left % Ring
        BY <1>1, ModLap
      <3>4. QED
        BY <1>2, <2>1, <2>2, <3>2, <3>3
    <2>4. Len(slog) - Left < Ring - 1
      BY <1>1, <2>3
    <2>5. Left' = Left
      BY <2>1 DEF Left
    <2>6. SPSCTypeOK'
      BY <2>1 DEF SPSCTypeOK
    <2>7. RingInv'
      BY <2>1, <2>4, <2>5 DEF RingInv
    <2>8. QED
      BY <1>3, <2>6, <2>7 DEF TryPush, PushStore
  <1>4. CASE PushItem
    <2>1. /\ UNCHANGED <<readPos, writePos, qpc, pitem, slog, staken, sreceived>>
          /\ ppc = "access" /\ ppc' = "store"
          /\ pitem \in Items /\ Len(slog) - Left < Ring - 1
      BY <1>4 DEF PushItem, RingInv
    <2>2. /\ buffer' \in [RingSlots -> Items \cup {NoItem}] /\ buffer'[writePos] = pitem
          /\ \A i \in RingSlots : i # writePos => buffer'[i] = buffer[i]
      BY <1>2, <1>4, <2>1 DEF PushItem, SPSCTypeOK
    <2>3. Left' = Left
      BY <2>1 DEF Left
    <2>4. SPSCTypeOK'
      BY <2>1, <2>2 DEF SPSCTypeOK
    <2>5. ASSUME NEW i \in Nat, Left <= i, i < Len(slog) PROVE buffer'[i % Ring] = slog[i + 1]
      <3>1. i # Len(slog) /\ i - Len(slog) < Ring /\ Len(slog) - i < Ring
        BY <1>1, <2>5
      <3>2. i % Ring # writePos
        BY <1>1, <1>2, <3>1, ModSame
      <3>3. QED
        BY <1>2, <2>2, <2>5, <3>2 DEF RingInv
    <2>6. RingInv'
      BY <2>1, <2>2, <2>3, <2>5 DEF RingInv
    <2>7. QED
      BY <1>4, <2>4, <2>6 DEF PushItem, PushStore
  <1>5. CASE PushStore
    <2>1. /\ UNCHANGED <<readPos, buffer, qpc, staken, sreceived>>
          /\ ppc = "store" /\ ppc' = "idle" /\ pitem' = NoItem
          /\ pitem \in Items /\ Len(slog) - Left < Ring - 1 /\ buffer[writePos] = pitem
          /\ slog' = Append(slog, pitem) /\ writePos' = StepOn(writePos)
      BY <1>5 DEF PushStore, RingInv
    <2>2. /\ slog' \in Seq(Items) /\ Len(slog') = Len(slog) + 1
          /\ slog'[Len(slog) + 1] = pitem /\ \A i \in 1..Len(slog) : slog'[i] = slog[i]
      BY <1>2, <2>1, AppendProperties
    <2>3. writePos' = (Len(slog) + 1) % Ring /\ writePos' \in RingSlots
      <3>1. ((Len(slog) % Ring) + 1) % Ring = (Len(slog) + 1) % Ring
        BY <1>1, ModStep
      <3>2. QED
        BY <1>1, <1>2, <2>1, <3>1, Len(slog) + 1 \in Nat DEF StepOn
    <2>4. Left' = Left
      BY <2>1 DEF Left
    <2>5. staken \in 0..(Len(slog) + 1)
      BY <1>1
    <2>6. SPSCTypeOK'
      BY <2>1, <2>2, <2>3, <2>5 DEF SPSCTypeOK
    <2>7. ASSUME NEW i \in Nat, Left <= i, i < Len(slog) + 1
          PROVE  buffer[i % Ring] = slog'[i + 1]
      <3>1. CASE i = Len(slog)
        BY <1>2, <2>1, <2>2, <3>1
      <3>2. CASE i # Len(slog)
        <4>1. i < Len(slog) /\ i + 1 \in 1..Len(slog)
          BY <1>1, <2>7, <3>2
        <4>2. QED
          BY <2>2, <2>7, <4>1 DEF RingInv
      <3>3. QED
        BY <3>1, <3>2
    <2>8. Len(slog) + 1 - Left < Ring /\ Len(slog) - staken + 1 \in 0..(Ring - 1)
      BY <1>1, <2>1
    <2>9. RingInv'
      <3>1. qpc' # "idle" => staken' >= 1
        BY <2>1 DEF RingInv
      <3>2. Len(slog') - Left' < Ring
        BY <1>1, <2>2, <2>4, <2>8
      <3>3. readPos' = Left' % Ring
        BY <1>2, <2>1, <2>4
      <3>4. writePos' = Len(slog') % Ring
        BY <2>2, <2>3
      <3>5. \A i \in Nat : Left' <= i /\ i < Len(slog') => buffer'[i % Ring] = slog'[i + 1]
        BY <2>1, <2>2, <2>4, <2>7
      <3>6. QED
        BY <2>1, <3>1, <3>2, <3>3, <3>4, <3>5 DEF RingInv
    <2>10. QED
      BY <2>1, <2>6, <2>8, <2>9
  <1>6. QED
    BY <1>3, <1>4, <1>5

LEMMA SPSCPopKeeps ==
  ASSUME SPSCInv, TryPop \/ PopItem \/ PopStore
  PROVE  /\ SPSCInv'
         /\ TryPop => staken < Len(slog)
         /\ PopItem => staken \in 1..Len(slog) /\ buffer[readPos] = slog[staken]
  <1> USE DEF SPSCInv
  <1>1. /\ Ring \in Nat \ {0} /\ Len(slog) \in Nat /\ staken \in Nat /\ staken <= Len(slog)
        /\ Left \in Nat /\ Left <= staken /\ Len(slog) - Left < Ring
    BY SPSCNumbers
  <1>2. /\ readPos = Left % Ring /\ writePos = Len(slog) % Ring
        /\ slog \in Seq(Items) /\ \A i \in Nat : i % Ring \in RingSlots
    BY SPSCNumbers DEF RingInv
  <1>3. CASE TryPop
    <2>1. /\ UNCHANGED <<readPos, writePos, buffer, ppc, pitem, slog, sreceived>>
          /\ qpc = "idle" /\ qpc' = "access" /\ readPos # writePos /\ staken' = staken + 1
      BY <1>3 DEF TryPop
    <2>2. Left = staken /\ Left' = staken
      BY <1>1, <2>1 DEF Left
    <2>3. staken < Len(slog)
      BY <1>1, <1>2, <2>1, <2>2
    <2>4. staken + 1 \in 0..Len(slog) /\ staken + 1 >= 1
      BY <1>1, <2>3
    <2>5. SPSCTypeOK'
      BY <2>1, <2>4 DEF SPSCTypeOK
    <2>6. RingInv'
      BY <2>1, <2>2, <2>4 DEF RingInv
    <2>7. QED
      BY <2>1, <2>3, <2>5, <2>6 DEF PopItem
  <1>4. CASE PopItem
    <2>1. /\ UNCHANGED <<readPos, writePos, buffer, ppc, pitem, slog, staken>>
          /\ qpc = "access" /\ qpc' = "store"
          /\ sreceived' = [sreceived EXCEPT ![Consumer] = @ \cup {buffer[readPos]}]
          /\ staken >= 1
      BY <1>4 DEF PopItem, RingInv
    <2>2. Left = staken - 1 /\ Left' = staken - 1
      BY <2>1 DEF Left
    <2>3. Left <= Left /\ Left < Len(slog) /\ Left + 1 = staken /\ staken \in 1..Len(slog)
      BY <1>1, <2>1, <2>2
    <2>4. buffer[readPos] = slog[staken]
      BY <1>1, <1>2, <2>3 DEF RingInv
    <2>5. sreceived' \in [Consumers -> SUBSET Items]
      <3>1. buffer[readPos] \in Items
        BY <1>2, <2>3, <2>4
      <3>2. QED
        BY <2>1, <3>1, RingAssumption DEF SPSCTypeOK
    <2>6. SPSCTypeOK'
      BY <2>1, <2>5 DEF SPSCTypeOK
    <2>7. RingInv'
      BY <2>1, <2>2 DEF RingInv
    <2>8. QED
      BY <2>1, <2>3, <2>4, <2>6, <2>7 DEF TryPop
  <1>5. CASE PopStore
    <2>1. /\ UNCHANGED <<writePos, buffer, ppc, pitem, slog, staken, sreceived>>
          /\ qpc = "store" /\ qpc' = "idle" /\ readPos' = StepOn(readPos)
          /\ staken >= 1
      BY <1>5 DEF PopStore, RingInv
    <2>2. Left = staken - 1 /\ Left' = staken /\ Left' = Left + 1
      BY <1>1, <2>1 DEF Left
    <2>3. readPos' = (Left + 1) % Ring /\ readPos' \in RingSlots
      <3>1. ((Left % Ring) + 1) % Ring = (Left + 1) % Ring
        BY <1>1, ModStep
      <3>2. QED
        BY <1>1, <1>2, <2>1, <3>1, Left + 1 \in Nat DEF StepOn
    <2>4. SPSCTypeOK'
      BY <2>1, <2>3 DEF SPSCTypeOK
    <2>5. /\ Len(slog) - (Left + 1) < Ring
          /\ ppc # "idle" => pitem \in Items /\ Len(slog) - (Left + 1) < Ring - 1
      <3>1. ppc # "idle" => pitem \in Items /\ Len(slog) - Left < Ring - 1
        BY DEF RingInv
      <3>2. QED
        BY <1>1, <3>1
    <2>6. ASSUME NEW i \in Nat, Left + 1 <= i, i < Len(slog)
          PROVE  buffer[i % Ring] = slog[i + 1]
      <3>1. Left <= i
        BY <1>1, <2>6
      <3>2. QED
        BY <2>6, <3>1 DEF RingInv
    <2>7. ppc = "store" => buffer[writePos] = pitem
      BY DEF RingInv
    <2>8. RingInv'
      BY <1>2, <2>1, <2>2, <2>3, <2>5, <2>6, <2>7 DEF RingInv
    <2>9. QED
      BY <2>1, <2>4, <2>8 DEF TryPop, PopItem
  <1>6. QED
    BY <1>3, <1>4, <1>5

\* One step, of either thread.
LEMMA SPSCKeeps ==
  ASSUME SPSCInv, [SPSCNext]_spscVars
  PROVE  SPSCInv'
  <1>1. CASE \E x \in Items : TryPush(x)
    BY <1>1, SPSCPushKeeps
  <1>2. CASE PushItem \/ PushStore
    <2>1. pitem \in Items
      BY <1>2 DEF PushItem, PushStore, SPSCInv, RingInv
    <2>2. QED
      BY <1>2, <2>1, SPSCPushKeeps
  <1>3. CASE TryPop \/ PopItem \/ PopStore
    BY <1>3, SPSCPopKeeps
  <1>4. CASE UNCHANGED spscVars
    BY <1>4 DEF spscVars, SPSCInv, SPSCTypeOK, RingInv, Left
  <1>5. QED
    BY <1>1, <1>2, <1>3, <1>4 DEF SPSCNext

-----------------------------------------------------------------------------
(* The containers together.                                                  *)

LockFreeInv == inUse \in Containers /\ SPSCInv /\ MPMCInv /\ StackInv

LEMMA LockFreeInvariant == ASSUME Capacity > 1 PROVE Spec => []LockFreeInv
  <1>1. Init => LockFreeInv
    BY SPSCStart, MPMCStart, StackStart DEF Init, LockFreeInv
  <1>2. LockFreeInv /\ [Next]_vars => LockFreeInv'
    <2> SUFFICES ASSUME LockFreeInv, [Next]_vars PROVE LockFreeInv'
      OBVIOUS
    <2> USE DEF LockFreeInv
    <2>1. [SPSCNext]_spscVars /\ [MPMCNext]_mpmcVars /\ [StackNext]_stackVars /\ inUse' = inUse
      BY DEF Next, UseSPSC, UseMPMC, UseStack, vars
    <2>2. QED
      BY <2>1, SPSCKeeps, MPMCKeeps, StackKeeps
  <1>3. QED
    BY <1>1, <1>2, PTL DEF Spec

\* Indices stay inside their rings and the MPMC queue holds between none and Capacity
\* items, however its positions are raced for (atomic.hpp:82-200, 268-414).
THEOREM LockFreeTypeCorrect == ASSUME Capacity > 1 PROVE Spec => []TypeOK
  <1>1. LockFreeInv => TypeOK
    BY DEF LockFreeInv, SPSCInv, MPMCInv, StackInv, TypeOK
  <1>2. QED
    BY <1>1, LockFreeInvariant, PTL

\* No two threads are ever at one cell of the queue, and the list of the stack is never
\* broken (atomic.hpp:205-265, 290-380).
THEOREM DataStaysOwned == ASSUME Capacity > 1 PROVE Spec => []DataOwnedAlone
  <1>1. LockFreeInv => DataOwnedAlone
    BY OneThreadPerCell DEF LockFreeInv, StackInv, DataOwnedAlone
  <1>2. QED
    BY <1>1, LockFreeInvariant, PTL

-----------------------------------------------------------------------------
(* Refusals and Size.                                                        *)

\* Only Look takes a thread from "look" to "idle".
LEMMA RefusedByLook ==
  ASSUME MPMCInv, MPMCNext, NEW t \in Users, Refused(t)
  PROVE  Look(t)
  <1> USE DEF Refused
  <1>1. mpc \in [Users -> {"idle", "load", "look", "claim", "access", "release", "size"}]
    BY DEF MPMCInv, MPMCTypeOK
  <1>2. ASSUME NEW u \in Users,
               Load(u) \/ Look(u) \/ ClaimFails(u) \/ SizeHead(u) \/ SizeTail(u)
        PROVE  Look(t)
    BY <1>1, <1>2 DEF Load, Look, ClaimFails, SizeHead, SizeTail
  <1>3. ASSUME NEW p \in Producers,
               (\E x \in Items : QueuePush(p, x)) \/ ClaimTail(p) \/ Write(p) \/ Publish(p)
        PROVE  FALSE
    BY <1>1, <1>3 DEF QueuePush, ClaimTail, Write, Publish
  <1>4. ASSUME NEW c \in Consumers, QueuePop(c) \/ ClaimHead(c) \/ Read(c) \/ Recycle(c)
        PROVE  FALSE
    BY <1>1, <1>4 DEF QueuePop, ClaimHead, Read, Recycle
  <1>5. QED
    BY <1>2, <1>3, <1>4 DEF MPMCNext

\* A Push that is refused has looked at the cell of the tail.
LEMMA PushRefused ==
  ASSUME MPMCInv, NEW p \in Producers, Look(p), Refused(p), Busy(Consumers) = {}
  PROVE  tail - head = Capacity
  <1> USE CapacityAssumption, PartiesAssumption DEF MPMCInv
  <1>1. /\ head \in Nat /\ tail \in Nat /\ head <= tail /\ tail <= head + Capacity
        /\ Capacity \in Nat /\ p \in Users /\ pos[p] \in Nat
        /\ mpc[p] = "look" /\ \A q \in Nat : sequence[Slot(q)] \in Nat
    BY SlotFacts DEF Look, MPMCTypeOK, Users
  <1>2. sequence[Slot(pos[p])] < pos[p]
    BY <1>1 DEF Look, Refused, Turn, MPMCTypeOK
  <1>3. pos[p] = tail
    <2>1. pos[p] <= tail /\ (pos[p] < tail => sequence[Slot(pos[p])] >= pos[p])
      BY <1>1 DEF ViewInv
    <2>2. QED
      BY <1>1, <1>2, <2>1
  <1>4. \A c \in Consumers : ~AtCell(c)
    BY DEF Busy, AtCell
  <1>5. tail < head + Capacity => sequence[Slot(tail)] = tail
    BY <1>1, <1>4, tail <= tail DEF CellInv
  <1>6. QED
    BY <1>1, <1>2, <1>3, <1>5

\* A Pop that is refused has looked at the cell of the head.
LEMMA PopRefused ==
  ASSUME MPMCInv, NEW c \in Consumers, Look(c), Refused(c), Busy(Producers) = {}
  PROVE  tail = head
  <1> USE CapacityAssumption, PartiesAssumption DEF MPMCInv
  <1>1. /\ head \in Nat /\ tail \in Nat /\ head <= tail /\ tail <= head + Capacity
        /\ c \in Users /\ c \notin Producers /\ pos[c] \in Nat
        /\ mpc[c] = "look" /\ \A q \in Nat : sequence[Slot(q)] \in Nat
    BY SlotFacts DEF Look, MPMCTypeOK, Users
  <1>2. sequence[Slot(pos[c])] < pos[c] + 1
    BY <1>1 DEF Look, Refused, Turn, MPMCTypeOK
  <1>3. pos[c] = head
    <2>1. pos[c] <= head /\ (pos[c] < head => sequence[Slot(pos[c])] >= pos[c] + 1)
      BY <1>1 DEF ViewInv
    <2>2. QED
      BY <1>1, <1>2, <2>1
  <1>4. \A p \in Producers : ~AtCell(p)
    BY DEF Busy, AtCell
  <1>5. head < tail => sequence[Slot(head)] = head + 1
    BY <1>1, <1>4, head <= head DEF CellInv
  <1>6. QED
    BY <1>1, <1>2, <1>3, <1>5

\* Push returns false only if the queue is full or a cell is being emptied, Pop only if
\* it is empty or a cell is being filled, and the number Size returns, which it puts
\* together from two loads, is never less than what is inside (atomic.hpp:290-380,
\* 388-393).
THEOREM AnswersStayHonest == ASSUME Capacity > 1 PROVE Spec => AnswersAreHonest
  <1>1. ASSUME LockFreeInv, [Next]_vars
        PROVE  [/\ (\E p \in Producers : Refused(p)) /\ Busy(Consumers) = {}
                      => tail - head = Capacity
                /\ (\E c \in Consumers : Refused(c)) /\ Busy(Producers) = {}
                      => tail = head]_mpmcVars
    <2>1. MPMCInv /\ [MPMCNext]_mpmcVars
      BY <1>1 DEF LockFreeInv, Next, UseSPSC, UseMPMC, UseStack, vars
    <2>2. CASE MPMCNext
      BY <2>1, <2>2, RefusedByLook, PushRefused, PopRefused DEF Users
    <2>3. QED
      BY <2>1, <2>2
  <1>2. ASSUME LockFreeInv, [Next]_vars
        PROVE  [\A t \in Users : mpc[t] = "size" /\ mpc'[t] = "idle" =>
                   tail - pos[t] >= tail - head]_mpmcVars
    <2>1. ASSUME NEW t \in Users, mpc[t] = "size" PROVE tail - pos[t] >= tail - head
      <3>1. tail \in Nat /\ head \in Nat /\ pos[t] \in Nat /\ pos[t] <= head
        BY <1>2, <2>1 DEF LockFreeInv, MPMCInv, MPMCTypeOK, ViewInv
      <3>2. QED
        BY <3>1
    <2>2. QED
      BY <2>1
  <1>3. QED
    BY <1>1, <1>2, LockFreeInvariant, PTL
       DEF Spec, AnswersAreHonest, RefusalIsHonest, SizeCountsAll

-----------------------------------------------------------------------------
(* The containers are buffers.                                               *)

\* What is between two positions of a log.
LEMMA WindowFacts ==
  ASSUME NEW log \in Seq(Items), NEW n \in 0..Len(log)
  PROVE  /\ SubSeq(log, n + 1, Len(log)) \in Seq(Items)
         /\ Len(SubSeq(log, n + 1, Len(log))) = Len(log) - n
         /\ n < Len(log) => /\ SubSeq(log, n + 1, Len(log)) # <<>>
                            /\ Head(SubSeq(log, n + 1, Len(log))) = log[n + 1]
                            /\ Tail(SubSeq(log, n + 1, Len(log)))
                                  = SubSeq(log, (n + 1) + 1, Len(log))
         /\ \A x \in Items : SubSeq(Append(log, x), n + 1, Len(log) + 1)
                                = Append(SubSeq(log, n + 1, Len(log)), x)
  <1>1. /\ SubSeq(log, n + 1, Len(log)) \in Seq(Items)
        /\ Len(SubSeq(log, n + 1, Len(log))) = Len(log) - n
        /\ \A i \in 1..(Len(log) - n) : SubSeq(log, n + 1, Len(log))[i] = log[n + i]
    <2>1. \A i \in (n + 1)..Len(log) : log[i] \in Items
      OBVIOUS
    <2>2. /\ SubSeq(log, n + 1, Len(log)) \in Seq(Items)
          /\ Len(SubSeq(log, n + 1, Len(log)))
                = IF n + 1 <= Len(log) THEN Len(log) - (n + 1) + 1 ELSE 0
          /\ \A i \in 1..(Len(log) - (n + 1) + 1) :
                SubSeq(log, n + 1, Len(log))[i] = log[(n + 1) + i - 1]
      BY <2>1, SubSeqProperties
    <2>3. QED
      BY <2>2
  <1>2. ASSUME n < Len(log)
        PROVE  /\ SubSeq(log, n + 1, Len(log)) # <<>>
               /\ Head(SubSeq(log, n + 1, Len(log))) = log[n + 1]
               /\ Tail(SubSeq(log, n + 1, Len(log))) = SubSeq(log, (n + 1) + 1, Len(log))
    <2>1. n + 1 \in 1..Len(log) /\ Len(log) \in (n + 1)..Len(log)
      BY <1>2
    <2>2. Len(SubSeq(log, n + 1, Len(log))) # 0
      BY <1>1, <1>2
    <2>3. QED
      BY <2>1, <2>2, HeadTailOfSubSeq, EmptySeq
  <1>3. ASSUME NEW x \in Items
        PROVE  SubSeq(Append(log, x), n + 1, Len(log) + 1)
                  = Append(SubSeq(log, n + 1, Len(log)), x)
    <2> DEFINE long == Append(log, x)
               left == SubSeq(long, n + 1, Len(log) + 1)
               right == Append(SubSeq(log, n + 1, Len(log)), x)
    <2>1. /\ long \in Seq(Items) /\ Len(long) = Len(log) + 1 /\ long[Len(log) + 1] = x
          /\ \A i \in 1..Len(log) : long[i] = log[i]
      BY AppendProperties
    <2>2. /\ right \in Seq(Items) /\ Len(right) = Len(log) - n + 1
          /\ right[Len(log) - n + 1] = x
          /\ \A i \in 1..(Len(log) - n) : right[i] = log[n + i]
      BY <1>1, AppendProperties
    <2> HIDE DEF long, right
    <2>3. \A i \in (n + 1)..(Len(log) + 1) : long[i] \in Items
      BY <2>1
    <2>4. /\ left \in Seq(Items)
          /\ Len(left) = IF n + 1 <= Len(log) + 1 THEN (Len(log) + 1) - (n + 1) + 1 ELSE 0
          /\ \A i \in 1..((Len(log) + 1) - (n + 1) + 1) : left[i] = long[(n + 1) + i - 1]
      BY <2>3, SubSeqProperties
    <2> HIDE DEF left
    <2>5. Len(left) = Len(right) /\ Len(right) = Len(log) - n + 1
      BY <2>2, <2>4
    <2>6. ASSUME NEW i \in 1..(Len(log) - n + 1) PROVE left[i] = right[i]
      <3>1. left[i] = long[n + i]
        BY <2>4
      <3>2. CASE i = Len(log) - n + 1
        BY <2>1, <2>2, <3>1, <3>2, n + i = Len(log) + 1
      <3>3. CASE i # Len(log) - n + 1
        <4>1. i \in 1..(Len(log) - n) /\ n + i \in 1..Len(log)
          BY <3>3
        <4>2. QED
          BY <2>1, <2>2, <3>1, <4>1
      <3>4. QED
        BY <3>2, <3>3
    <2>7. left = right
      BY <2>2, <2>4, <2>5, <2>6, SeqEqual
    <2>8. QED
      BY <2>7 DEF left, right, long
  <1>4. QED
    BY <1>1, <1>2, <1>3

\* The state of the buffer the MPMC queue implements.
InQueue   == SubSeq(mlog, head + 1, tail)
QueueHeld == [c \in Consumers |-> IF mpc[c] = "access" THEN mlog[pos[c] + 1] ELSE NoItem]

LEMMA MPMCImplements ==
  ASSUME MPMCInv, Capacity > 1, [MPMCNext]_mpmcVars
  PROVE  [MPMCBuffer!Next]_(MPMCBuffer!vars)
  <1> USE CapacityAssumption, PartiesAssumption
  <1> SUFFICES MPMCBuffer!Next \/ UNCHANGED <<InQueue, QueueHeld, mreceived>>
    BY DEF MPMCBuffer!vars, InQueue, QueueHeld
  <1>1. /\ head \in Nat /\ tail \in Nat /\ Capacity \in Nat /\ head <= tail
        /\ mlog \in Seq(Items) /\ tail = Len(mlog) /\ head \in 0..Len(mlog)
        /\ mpc \in [Users -> {"idle", "load", "look", "claim", "access", "release", "size"}]
        /\ pos \in [Users -> Nat] /\ Consumers \subseteq Users /\ Producers \subseteq Users
    BY DEF MPMCInv, MPMCTypeOK, Users
  <1>2. ASSUME NEW c \in Consumers, mpc[c] = "access"
        PROVE  /\ pos[c] + 1 \in 1..Len(mlog) /\ mlog[pos[c] + 1] \in Items
               /\ QueueHeld[c] = mlog[pos[c] + 1]
    <2>1. pos[c] \in Nat /\ pos[c] < tail
      BY <1>1, <1>2, Apart DEF AtCell
    <2>2. pos[c] + 1 \in 1..Len(mlog)
      BY <1>1, <2>1
    <2>3. QED
      BY <1>1, <1>2, <2>2 DEF QueueHeld
  <1>3. ASSUME NEW p \in Producers, ClaimTail(p) PROVE MPMCBuffer!Next
    <2>1. mitem[p] \in Items /\ mlog' = Append(mlog, mitem[p]) /\ tail' = tail + 1
          /\ UNCHANGED <<head, pos, mreceived>> /\ mpc' = [mpc EXCEPT ![p] = "access"]
      BY <1>3 DEF ClaimTail, MPMCInv, DataInv
    <2>2. InQueue' = Append(InQueue, mitem[p])
      BY <1>1, <2>1, WindowFacts DEF InQueue
    <2>3. tail + 1 <= head + Capacity
      BY <1>3, <2>1, ClaimTailKeeps DEF MPMCInv, MPMCTypeOK
    <2>4. Len(InQueue) + 1 \in 0..Capacity
      BY <1>1, <2>3, WindowFacts DEF InQueue
    <2>5. \A c \in Consumers : mpc'[c] = mpc[c]
      BY <1>1, <2>1
    <2>6. ASSUME NEW c \in Consumers, mpc[c] = "access"
          PROVE  mlog'[pos'[c] + 1] = mlog[pos[c] + 1]
      BY <1>1, <1>2, <2>1, <2>6, AppendProperties
    <2>7. QueueHeld' = QueueHeld
      BY <2>5, <2>6 DEF QueueHeld
    <2>8. MPMCBuffer!Put(mitem[p])
      BY <2>1, <2>2, <2>4, <2>7 DEF MPMCBuffer!Put, InQueue, QueueHeld
    <2>9. QED
      BY <2>1, <2>8 DEF MPMCBuffer!Next
  <1>4. ASSUME NEW c \in Consumers, ClaimHead(c) PROVE MPMCBuffer!Next
    <2>1. /\ mpc[c] = "claim" /\ head = pos[c] /\ head' = head + 1
          /\ mpc' = [mpc EXCEPT ![c] = "access"]
          /\ UNCHANGED <<tail, pos, mlog, mreceived>>
      BY <1>4 DEF ClaimHead
    <2>2. head < Len(mlog)
      BY <1>1, <1>4, ClaimHeadKeeps
    <2>3. /\ InQueue # <<>> /\ Head(InQueue) = mlog[head + 1] /\ InQueue' = Tail(InQueue)
      BY <1>1, <2>1, <2>2, WindowFacts DEF InQueue
    <2>4. QueueHeld[c] = NoItem
      BY <2>1 DEF QueueHeld
    <2>5. QueueHeld' = [QueueHeld EXCEPT ![c] = mlog[head + 1]]
      BY <1>1, <2>1 DEF QueueHeld
    <2>6. MPMCBuffer!Take(c)
      BY <2>1, <2>3, <2>4, <2>5 DEF MPMCBuffer!Take, InQueue, QueueHeld
    <2>7. QED
      BY <2>6 DEF MPMCBuffer!Next
  <1>5. ASSUME NEW c \in Consumers, Read(c) PROVE MPMCBuffer!Next
    <2>1. /\ mpc[c] = "access" /\ mpc' = [mpc EXCEPT ![c] = "release"]
          /\ mreceived' = [mreceived EXCEPT ![c] = @ \cup {data[Slot(pos[c])]}]
          /\ UNCHANGED <<head, tail, pos, mlog>>
      BY <1>5 DEF Read
    <2>2. QueueHeld[c] = mlog[pos[c] + 1] /\ QueueHeld[c] # NoItem
      BY <1>2, <2>1
    <2>3. data[Slot(pos[c])] = QueueHeld[c]
      BY <2>1, <2>2 DEF MPMCInv, DataInv
    <2>4. QueueHeld' = [QueueHeld EXCEPT ![c] = NoItem] /\ InQueue' = InQueue
      BY <1>1, <2>1 DEF QueueHeld, InQueue
    <2>5. mreceived' = [mreceived EXCEPT ![c] = @ \cup {QueueHeld[c]}]
      BY <2>1, <2>3
    <2>6. MPMCBuffer!Deliver(c)
      BY <2>2, <2>4, <2>5 DEF MPMCBuffer!Deliver, InQueue, QueueHeld
    <2>7. QED
      BY <2>6 DEF MPMCBuffer!Next
  <1>6. ASSUME UNCHANGED <<head, tail, mlog, mreceived>>,
               NEW t \in Users, NEW there \in {"idle", "load", "look", "claim", "release", "size"},
               mpc' = [mpc EXCEPT ![t] = there],
               \A u \in Users \ {t} : pos'[u] = pos[u],
               t \in Consumers => mpc[t] # "access"
        PROVE  UNCHANGED <<InQueue, QueueHeld, mreceived>>
    <2>1. \A c \in Consumers : /\ mpc'[c] = "access" <=> mpc[c] = "access"
                               /\ mpc[c] = "access" => pos'[c] = pos[c]
      BY <1>1, <1>6
    <2>2. QueueHeld' = QueueHeld
      BY <1>6, <2>1 DEF QueueHeld
    <2>3. QED
      BY <1>6, <2>2 DEF InQueue
  <1>7. ASSUME NEW t \in Users,
               Load(t) \/ Look(t) \/ ClaimFails(t) \/ SizeHead(t) \/ SizeTail(t)
        PROVE  UNCHANGED <<InQueue, QueueHeld, mreceived>>
    <2>1. /\ UNCHANGED <<head, tail, mlog, mreceived>> /\ mpc[t] # "access"
          /\ \A u \in Users \ {t} : pos'[u] = pos[u]
      BY <1>1, <1>7 DEF Load, Look, ClaimFails, SizeHead, SizeTail
    <2>2. \E there \in {"idle", "load", "look", "claim", "release", "size"} :
             mpc' = [mpc EXCEPT ![t] = there]
      BY <1>7 DEF Load, Look, ClaimFails, SizeHead, SizeTail
    <2>3. QED
      BY <1>6, <2>1, <2>2
  <1>8. ASSUME NEW p \in Producers, (\E x \in Items : QueuePush(p, x)) \/ Write(p) \/ Publish(p)
        PROVE  UNCHANGED <<InQueue, QueueHeld, mreceived>>
    <2>1. /\ UNCHANGED <<head, tail, mlog, mreceived>> /\ p \in Users /\ p \notin Consumers
          /\ \A u \in Users \ {p} : pos'[u] = pos[u]
      BY <1>1, <1>8 DEF QueuePush, Write, Publish
    <2>2. \E there \in {"idle", "load", "look", "claim", "release", "size"} :
             mpc' = [mpc EXCEPT ![p] = there]
      BY <1>8 DEF QueuePush, Write, Publish
    <2>3. QED
      BY <1>6, <2>1, <2>2
  <1>9. ASSUME NEW c \in Consumers, QueuePop(c) \/ Recycle(c)
        PROVE  UNCHANGED <<InQueue, QueueHeld, mreceived>>
    <2>1. /\ UNCHANGED <<head, tail, mlog, mreceived>> /\ c \in Users /\ mpc[c] # "access"
          /\ \A u \in Users \ {c} : pos'[u] = pos[u]
      BY <1>1, <1>9 DEF QueuePop, Recycle
    <2>2. \E there \in {"idle", "load", "look", "claim", "release", "size"} :
             mpc' = [mpc EXCEPT ![c] = there]
      BY <1>9 DEF QueuePop, Recycle
    <2>3. QED
      BY <1>6, <2>1, <2>2
  <1>10. CASE MPMCNext
    BY <1>3, <1>4, <1>5, <1>7, <1>8, <1>9, <1>10 DEF MPMCNext
  <1>11. CASE UNCHANGED mpmcVars
    BY <1>11 DEF mpmcVars, InQueue, QueueHeld
  <1>12. QED
    BY <1>10, <1>11

\* The state of the buffer the SPSC queue implements.
InRing   == SubSeq(slog, staken + 1, Len(slog))
RingHeld == [c \in Consumers |->
               IF c = Consumer /\ qpc = "access" THEN slog[staken] ELSE NoItem]

LEMMA SPSCImplements ==
  ASSUME SPSCInv, [SPSCNext]_spscVars
  PROVE  [SPSCBuffer!Next]_(SPSCBuffer!vars)
  <1> USE RingAssumption, PartiesAssumption
  <1> SUFFICES SPSCBuffer!Next \/ UNCHANGED <<InRing, RingHeld, sreceived>>
    BY DEF SPSCBuffer!vars, InRing, RingHeld
  <1>1. /\ Ring \in Nat \ {0} /\ Len(slog) \in Nat /\ staken \in 0..Len(slog)
        /\ slog \in Seq(Items)
    BY SPSCNumbers
  <1>2. qpc = "access" => staken \in 1..Len(slog) /\ slog[staken] \in Items
    BY <1>1 DEF SPSCInv, RingInv
  <1>3. ASSUME PushStore PROVE SPSCBuffer!Next
    <2>1. /\ slog' = Append(slog, pitem) /\ UNCHANGED <<qpc, staken, sreceived>>
          /\ pitem \in Items
      BY <1>3 DEF PushStore, SPSCInv, RingInv
    <2>2. InRing' = Append(InRing, pitem)
      <3>1. Len(slog') = Len(slog) + 1
        BY <1>1, <2>1, AppendProperties
      <3>2. SubSeq(Append(slog, pitem), staken + 1, Len(slog) + 1)
               = Append(SubSeq(slog, staken + 1, Len(slog)), pitem)
        BY <1>1, <2>1, WindowFacts
      <3>3. InRing' = SubSeq(slog', staken' + 1, Len(slog'))
        BY DEF InRing
      <3>4. QED
        BY <2>1, <3>1, <3>2, <3>3 DEF InRing
    <2>3. Len(InRing) + 1 \in 0..(Ring - 1)
      <3>1. Len(slog) - staken + 1 \in 0..(Ring - 1)
        BY <1>3, <2>1, SPSCPushKeeps
      <3>2. Len(InRing) = Len(slog) - staken
        BY <1>1, WindowFacts DEF InRing
      <3>3. QED
        BY <3>1, <3>2
    <2>4. qpc = "access" => slog'[staken] = slog[staken]
      BY <1>1, <1>2, <2>1, AppendProperties
    <2>5. RingHeld' = RingHeld
      BY <2>1, <2>4 DEF RingHeld
    <2>6. SPSCBuffer!Put(pitem)
      BY <2>1, <2>2, <2>3, <2>5 DEF SPSCBuffer!Put, InRing, RingHeld
    <2>7. QED
      BY <2>1, <2>6 DEF SPSCBuffer!Next
  <1>4. ASSUME TryPop PROVE SPSCBuffer!Next
    <2>1. /\ qpc = "idle" /\ qpc' = "access" /\ staken' = staken + 1
          /\ UNCHANGED <<slog, sreceived>>
      BY <1>4 DEF TryPop
    <2>2. staken < Len(slog)
      BY <1>4, SPSCPopKeeps
    <2>3. InRing # <<>> /\ Head(InRing) = slog[staken + 1] /\ InRing' = Tail(InRing)
      BY <1>1, <2>1, <2>2, WindowFacts DEF InRing
    <2>4. RingHeld[Consumer] = NoItem
      BY <2>1 DEF RingHeld
    <2>5. RingHeld' = [RingHeld EXCEPT ![Consumer] = slog[staken + 1]]
      BY <2>1 DEF RingHeld
    <2>6. SPSCBuffer!Take(Consumer)
      BY <2>1, <2>3, <2>4, <2>5 DEF SPSCBuffer!Take, InRing, RingHeld
    <2>7. QED
      BY <2>6 DEF SPSCBuffer!Next
  <1>5. ASSUME PopItem PROVE SPSCBuffer!Next
    <2>1. /\ qpc = "access" /\ qpc' = "store" /\ UNCHANGED <<slog, staken>>
          /\ sreceived' = [sreceived EXCEPT ![Consumer] = @ \cup {buffer[readPos]}]
          /\ buffer[readPos] = slog[staken]
      BY <1>5, SPSCPopKeeps DEF PopItem
    <2>2. RingHeld[Consumer] = slog[staken] /\ RingHeld[Consumer] # NoItem
      BY <1>2, <2>1 DEF RingHeld
    <2>3. RingHeld' = [RingHeld EXCEPT ![Consumer] = NoItem] /\ InRing' = InRing
      BY <2>1 DEF RingHeld, InRing
    <2>4. sreceived' = [sreceived EXCEPT ![Consumer] = @ \cup {RingHeld[Consumer]}]
      BY <2>1, <2>2
    <2>5. SPSCBuffer!Deliver(Consumer)
      BY <2>2, <2>3, <2>4 DEF SPSCBuffer!Deliver, InRing, RingHeld
    <2>6. QED
      BY <2>5 DEF SPSCBuffer!Next
  <1>6. ASSUME (\E x \in Items : TryPush(x)) \/ PushItem \/ PopStore \/ UNCHANGED spscVars
        PROVE  UNCHANGED <<InRing, RingHeld, sreceived>>
    <2>1. /\ UNCHANGED <<slog, staken, sreceived>>
          /\ qpc' = "access" <=> qpc = "access"
      BY <1>6 DEF TryPush, PushItem, PopStore, spscVars
    <2>2. QED
      BY <2>1 DEF InRing, RingHeld
  <1>7. QED
    BY <1>3, <1>4, <1>5, <1>6 DEF SPSCNext

\* The state of the buffer the stack implements.
StackHeld == [c \in Consumers |-> IF kpc[c] = "move" THEN seen[c] ELSE NoItem]

LEMMA StackImplements ==
  ASSUME StackInv, [StackNext]_stackVars
  PROVE  [StackBuffer!Next]_(StackBuffer!vars)
  <1> USE PartiesAssumption
  <1> SUFFICES StackBuffer!Next \/ UNCHANGED <<stack, StackHeld, kreceived>>
    BY DEF StackBuffer!vars, StackHeld
  <1>1. /\ kpc \in [Threads -> {"idle", "link", "swap", "follow", "move"}]
        /\ seen \in [Threads -> Items \cup {NoItem}] /\ stack \in Seq(Items)
        /\ Consumers \subseteq Threads /\ Producers \subseteq Threads
    BY DEF StackInv, StackTypeOK, Threads
  <1>2. ASSUME NEW p \in Producers, PushSwap(p) PROVE StackBuffer!Next
    <2>1. /\ node[p] \in Items /\ stack' = <<node[p]>> \o stack
          /\ kpc' = [kpc EXCEPT ![p] = "idle"] /\ UNCHANGED <<seen, kreceived>>
      BY <1>2 DEF PushSwap, StackInv, NodeInv
    <2>2. \A c \in Consumers : kpc'[c] = kpc[c]
      BY <1>1, <2>1
    <2>3. StackHeld' = StackHeld
      BY <2>1, <2>2 DEF StackHeld
    <2>4. Len(stack) + 1 \in Nat
      BY <1>1
    <2>5. StackBuffer!Put(node[p])
      BY <2>1, <2>3, <2>4 DEF StackBuffer!Put, StackHeld
    <2>6. QED
      BY <2>1, <2>5 DEF StackBuffer!Next
  <1>3. ASSUME NEW c \in Consumers, PopSwap(c) PROVE StackBuffer!Next
    <2>1. /\ kpc[c] = "swap" /\ kpc' = [kpc EXCEPT ![c] = "move"]
          /\ stack' = Tail(stack) /\ UNCHANGED <<seen, kreceived>>
      BY <1>3 DEF PopSwap
    <2>2. stack # <<>> /\ seen[c] = Head(stack)
      BY <1>3, PopSwapKeeps
    <2>3. StackHeld[c] = NoItem
      BY <2>1 DEF StackHeld
    <2>4. StackHeld' = [StackHeld EXCEPT ![c] = seen[c]]
      BY <1>1, <2>1 DEF StackHeld
    <2>5. StackBuffer!Take(c)
      BY <2>1, <2>2, <2>3, <2>4 DEF StackBuffer!Take, StackHeld
    <2>6. QED
      BY <2>5 DEF StackBuffer!Next
  <1>4. ASSUME NEW c \in Consumers, MoveOut(c) PROVE StackBuffer!Next
    <2>1. /\ kpc[c] = "move" /\ kpc' = [kpc EXCEPT ![c] = "idle"]
          /\ kreceived' = [kreceived EXCEPT ![c] = @ \cup {seen[c]}]
          /\ UNCHANGED <<seen, stack>> /\ seen[c] \in Items
      BY <1>4 DEF MoveOut, StackInv, NodeInv, StackTypeOK
    <2>2. StackHeld[c] = seen[c] /\ StackHeld[c] # NoItem
      BY <2>1 DEF StackHeld
    <2>3. StackHeld' = [StackHeld EXCEPT ![c] = NoItem]
      BY <1>1, <2>1 DEF StackHeld
    <2>4. kreceived' = [kreceived EXCEPT ![c] = @ \cup {StackHeld[c]}]
      BY <2>1, <2>2
    <2>5. StackBuffer!Deliver(c)
      BY <2>1, <2>2, <2>3, <2>4 DEF StackBuffer!Deliver, StackHeld
    <2>6. QED
      BY <2>5 DEF StackBuffer!Next
  <1>5. ASSUME UNCHANGED <<stack, kreceived>>,
               NEW t \in Threads, NEW there \in {"idle", "link", "swap", "follow"},
               kpc[t] # "move", kpc' = [kpc EXCEPT ![t] = there],
               \A u \in Threads \ {t} : seen'[u] = seen[u]
        PROVE  UNCHANGED <<stack, StackHeld, kreceived>>
    <2>1. \A c \in Consumers : /\ kpc'[c] = "move" <=> kpc[c] = "move"
                               /\ kpc[c] = "move" => seen'[c] = seen[c]
      BY <1>1, <1>5
    <2>2. StackHeld' = StackHeld
      BY <2>1 DEF StackHeld
    <2>3. QED
      BY <1>5, <2>2
  <1>6. ASSUME NEW p \in Producers, (\E x \in Items : StackPush(p, x)) \/ Link(p)
        PROVE  UNCHANGED <<stack, StackHeld, kreceived>>
    <2>1. /\ UNCHANGED <<stack, kreceived>> /\ p \in Threads /\ kpc[p] # "move"
          /\ \A u \in Threads \ {p} : seen'[u] = seen[u]
      BY <1>1, <1>6 DEF StackPush, Link
    <2>2. \E there \in {"idle", "link", "swap", "follow"} : kpc' = [kpc EXCEPT ![p] = there]
      BY <1>6 DEF StackPush, Link
    <2>3. QED
      BY <1>5, <2>1, <2>2
  <1>7. ASSUME NEW c \in Consumers, StackPop(c) \/ Follow(c)
        PROVE  UNCHANGED <<stack, StackHeld, kreceived>>
    <2>1. /\ UNCHANGED <<stack, kreceived>> /\ c \in Threads /\ kpc[c] # "move"
          /\ \A u \in Threads \ {c} : seen'[u] = seen[u]
      BY <1>1, <1>7 DEF StackPop, Follow
    <2>2. \E there \in {"idle", "link", "swap", "follow"} : kpc' = [kpc EXCEPT ![c] = there]
      BY <1>7 DEF StackPop, Follow
    <2>3. QED
      BY <1>5, <2>1, <2>2
  <1>8. ASSUME NEW t \in Threads, SwapFails(t)
        PROVE  UNCHANGED <<stack, StackHeld, kreceived>>
    <2>1. /\ UNCHANGED <<stack, kreceived>> /\ kpc[t] # "move"
          /\ \A u \in Threads \ {t} : seen'[u] = seen[u]
      BY <1>1, <1>8 DEF SwapFails
    <2>2. \E there \in {"idle", "link", "swap", "follow"} : kpc' = [kpc EXCEPT ![t] = there]
      BY <1>8 DEF SwapFails
    <2>3. QED
      BY <1>5, <2>1, <2>2
  <1>9. CASE StackNext
    BY <1>2, <1>3, <1>4, <1>6, <1>7, <1>8, <1>9 DEF StackNext
  <1>10. CASE UNCHANGED stackVars
    BY <1>10 DEF stackVars, StackHeld
  <1>11. QED
    BY <1>9, <1>10

\* Each container is, for any number of threads and items, a buffer that gives up what
\* was put in once and to one consumer: the queues in the order of the pushes and never
\* with more inside than fits, the stack the last one first (atomic.hpp:82-200, 205-265,
\* 268-414).
THEOREM ContainersAreBuffers == ASSUME Capacity > 1 PROVE Spec => ImplementsBuffer
  <1>1. Init => SPSCBuffer!Init /\ MPMCBuffer!Init /\ StackBuffer!Init
    <2> SUFFICES ASSUME Init PROVE SPSCBuffer!Init /\ MPMCBuffer!Init /\ StackBuffer!Init
      OBVIOUS
    <2>1. SPSCBuffer!Init
      BY SubSeqEmpty DEF Init, SPSCInit, SPSCBuffer!Init
    <2>2. MPMCBuffer!Init
      BY SubSeqEmpty DEF Init, MPMCInit, MPMCBuffer!Init, Users
    <2>3. StackBuffer!Init
      BY DEF Init, StackInit, StackBuffer!Init, Threads
    <2>4. QED
      BY <2>1, <2>2, <2>3
  <1>2. ASSUME LockFreeInv, [Next]_vars
        PROVE  /\ [SPSCBuffer!Next]_(SPSCBuffer!vars)
               /\ [MPMCBuffer!Next]_(MPMCBuffer!vars)
               /\ [StackBuffer!Next]_(StackBuffer!vars)
    <2>1. /\ SPSCInv /\ MPMCInv /\ StackInv
          /\ [SPSCNext]_spscVars /\ [MPMCNext]_mpmcVars /\ [StackNext]_stackVars
      BY <1>2 DEF LockFreeInv, Next, UseSPSC, UseMPMC, UseStack, vars
    <2>2. QED
      BY <2>1, SPSCImplements, MPMCImplements, StackImplements
  <1>3. QED
    BY <1>1, <1>2, LockFreeInvariant, PTL
       DEF Spec, ImplementsBuffer, SPSCImplementsQueue, MPMCImplementsQueue,
           StackImplementsBuffer, SPSCBuffer!Spec, MPMCBuffer!Spec, StackBuffer!Spec
================================================================================
