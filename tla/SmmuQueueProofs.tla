-------------------------- MODULE SmmuQueueProofs --------------------------
(***************************************************************************)
(* The command queue is a FIFO for every number of entries and of          *)
(* invalidations until it is overrun, and a queue that holds the commands  *)
(* of one invalidation is not overrun before a poll has timed out. The     *)
(* event queue is a FIFO whatever the SMMU raises, and what a dump of it   *)
(* says is right.                                                          *)
(***************************************************************************)
EXTENDS SmmuCmdq, SmmuEvtq, SequenceTheorems, TLAPS

USE SMTT(15), ZenonT(60)

LEMMA Euclid ==
    ASSUME NEW x \in Int, NEW M \in Int, M > 0
    PROVE  x = M * (x \div M) + (x % M)
  BY SMT

(* Division with remainder, and that it is unique.                          *)
LEMMA DivMod ==
    ASSUME NEW x \in Nat, NEW M \in Nat \ {0}
    PROVE  /\ x % M \in 0 .. M - 1
           /\ x \div M \in Nat
           /\ x = M * (x \div M) + (x % M)
  <1>1. x % M \in 0 .. M - 1
    OBVIOUS
  <1>2. x \div M \in Int
    OBVIOUS
  <1>3. x = M * (x \div M) + (x % M)
    BY Euclid
  <1> DEFINE q == x \div M
             r == x % M
  <1>4. q \in Int /\ r \in 0 .. M - 1 /\ x = M * q + r
    BY <1>1, <1>2, <1>3
  <1> HIDE DEF q, r
  <1>5. q =< -1 => M * q =< M * (-1)
    BY <1>4
  <1>6. M * (-1) = -M
    OBVIOUS
  <1>7. ~(q =< -1)
    BY <1>4, <1>5, <1>6
  <1>8. q \in Nat
    BY <1>4, <1>7
  <1>9. QED
    BY <1>4, <1>8, <1>1, <1>3 DEF q

LEMMA ModUnique ==
    ASSUME NEW M \in Nat \ {0}, NEW q \in Nat, NEW r \in 0 .. M - 1
    PROVE  (M * q + r) % M = r
  <1> DEFINE x == M * q + r
             p == x \div M
             s == x % M
  <1>0. x \in Nat
    OBVIOUS
  <1>1. p \in Nat /\ s \in 0 .. M - 1 /\ x = M * p + s
    BY <1>0, DivMod, ZenonT(60)
  <1>2. M * q + r = M * p + s
    BY <1>1
  <1> HIDE DEF p, s, x
  <1>3. p >= q + 1 => M * p >= M * q + M
    <2>1. p >= q + 1 => M * p >= M * (q + 1)
      BY <1>1
    <2>2. M * (q + 1) = M * q + M
      OBVIOUS
    <2>3. QED
      BY <1>1, <2>1, <2>2
  <1>4. q >= p + 1 => M * q >= M * p + M
    <2>1. q >= p + 1 => M * q >= M * (p + 1)
      BY <1>1
    <2>2. M * (p + 1) = M * p + M
      BY <1>1
    <2>3. QED
      BY <1>1, <2>1, <2>2
  <1>5. p = q
    BY <1>1, <1>2, <1>3, <1>4
  <1>6. s = r
    BY <1>1, <1>2, <1>5
  <1>7. QED
    BY <1>6 DEF s, x

LEMMA ModSmall ==
    ASSUME NEW M \in Nat \ {0}, NEW r \in 0 .. M - 1
    PROVE  r % M = r
  <1>1. (M * 0 + r) % M = r
    BY ModUnique
  <1>2. QED
    BY <1>1

LEMMA ModInc ==
    ASSUME NEW x \in Nat, NEW M \in Nat \ {0}
    PROVE  ((x % M) + 1) % M = (x + 1) % M
  <1> DEFINE q == x \div M
             r == x % M
  <1>1. q \in Nat /\ r \in 0 .. M - 1 /\ x = M * q + r
    BY DivMod, ZenonT(60)
  <1> HIDE DEF q, r
  <1>2. CASE r + 1 < M
    <2>1. (M * q + (r + 1)) % M = r + 1 /\ (r + 1) % M = r + 1
      BY <1>1, <1>2, ModUnique, ModSmall
    <2>2. x + 1 = M * q + (r + 1)
      BY <1>1
    <2>3. QED
      BY <2>1, <2>2 DEF r
  <1>3. CASE r + 1 = M
    <2>1. (M * (q + 1) + 0) % M = 0 /\ (M * 1 + 0) % M = 0
      BY <1>1, ModUnique
    <2>2. x + 1 = M * (q + 1) + 0 /\ r + 1 = M * 1 + 0
      BY <1>1, <1>3
    <2>3. QED
      BY <2>1, <2>2 DEF r
  <1>4. QED
    BY <1>1, <1>2, <1>3

(* Two positions less than M apart that have the same remainder are one.    *)
LEMMA ModSame ==
    ASSUME NEW x \in Nat, NEW y \in Nat, NEW M \in Nat \ {0}, x =< y, y - x < M,
           x % M = y % M
    PROVE  x = y
  <1> DEFINE q == x \div M
             p == y \div M
             r == x % M
  <1>1. q \in Nat /\ p \in Nat /\ r \in 0 .. M - 1 /\ x = M * q + r /\ y = M * p + r
    BY DivMod, ZenonT(60)
  <1> HIDE DEF q, p, r
  <1>2. p >= q + 1 => M * p >= M * q + M
    <2>1. p >= q + 1 => M * p >= M * (q + 1)
      BY <1>1
    <2>2. M * (q + 1) = M * q + M
      BY <1>1
    <2>3. QED
      BY <1>1, <2>1, <2>2
  <1>3. p =< q
    BY <1>1, <1>2
  <1>4. M * p =< M * q
    BY <1>1, <1>3
  <1>5. QED
    BY <1>1, <1>4

LEMMA ModMod ==
    ASSUME NEW x \in Nat, NEW n \in Nat \ {0}
    PROVE  (x % (2 * n)) % n = x % n
  <1> DEFINE M == 2 * n
             q == x \div M
             r == x % M
             p == r \div n
             s == r % n
  <1>1. M \in Nat \ {0}
    OBVIOUS
  <1>2. q \in Nat /\ r \in 0 .. M - 1 /\ x = M * q + r
    BY <1>1, DivMod, ZenonT(60)
  <1> HIDE DEF q, r
  <1>3. p \in Nat /\ s \in 0 .. n - 1 /\ r = n * p + s
    <2>1. r \in Nat
      BY <1>1, <1>2
    <2>2. QED
      BY <2>1, DivMod, ZenonT(60)
  <1> HIDE DEF p, s
  <1>4. x = n * (2 * q + p) + s
    BY <1>2, <1>3
  <1>5. (n * (2 * q + p) + s) % n = s
    BY <1>2, <1>3, ModUnique
  <1>6. QED
    BY <1>4, <1>5 DEF s, r

LEMMA EmptyIsEqual ==
    ASSUME NEW n \in Nat \ {0}, NEW a \in Nat, NEW b \in Nat
    PROVE  smmu_queue_empty(a, b, n) => a = b
  <1>1. a = n * (a \div n) + (a % n) /\ b = n * (b \div n) + (b % n)
    BY DivMod
  <1>2. QED
    BY <1>1 DEF smmu_queue_empty
-----------------------------------------------------------------------------
RegInv ==
    /\ sent \in Nat /\ received \in Seq(Nat) /\ Len(received) =< sent
    /\ prod_reg = sent % (2 * N) /\ cons_reg = Len(received) % (2 * N)
    /\ base \in [0 .. N - 1 -> Nat]

(* The entries the SMMU has still to execute hold the commands it is to     *)
(* execute, in the order of issue.                                          *)
WindowInv ==
    /\ sent - Len(received) =< N
    /\ \A k \in Len(received) + 1 .. sent : base[(k - 1) % N] = k

CallInv ==
    /\ pc \in {"idle", "write", "publish", "poll"}
    /\ left \in Nat
    /\ pc = "idle" => timedout \/ Len(received) = sent
    /\ pc = "publish" => left > 0 /\ sent - Len(received) < N /\ base[sent % N] = sent + 1
    /\ pc = "poll" => /\ snap.prod = sent % (2 * N)
                      /\ sent - Len(received) =< N
                      /\ \E r \in 0 .. Len(received) : sent - r =< N /\ snap.cons = r % (2 * N)

GoodInv == RegInv /\ WindowInv /\ CallInv

(* Nothing is claimed of an overrun queue.                                  *)
QueueInv == overrun \/ GoodInv

LEMMA InvInit == Init => GoodInv
  <1> SUFFICES ASSUME Init PROVE GoodInv
    OBVIOUS
  <1>1. 2 * N \in Nat \ {0} /\ 0 \in 0 .. 2 * N - 1 /\ N \in Nat
    BY CmdqAssumption
  <1>2. 0 % (2 * N) = 0
    BY <1>1, ModSmall
  <1>3. received \in Seq(Nat) /\ Len(received) = 0
    BY DEF Init
  <1>4. RegInv
    BY <1>1, <1>2, <1>3 DEF Init, RegInv
  <1>5. WindowInv
    BY <1>1, <1>3 DEF Init, WindowInv
  <1>6. CallInv
    BY <1>3 DEF Init, CallInv
  <1>7. QED
    BY <1>4, <1>5, <1>6 DEF GoodInv

LEMMA WriteKeeps == ASSUME GoodInv, WriteEntry, ~overrun' PROVE GoodInv'
  <1>1. N \in Nat \ {0} /\ 2 * N \in Nat \ {0} /\ Batch \in Nat
    BY CmdqAssumption DEF Batch
  <1>2. /\ sent \in Nat /\ received \in Seq(Nat) /\ Len(received) \in Nat
        /\ base \in [0 .. N - 1 -> Nat] /\ prod_reg = sent % (2 * N)
    BY DEF GoodInv, RegInv
  <1>3. left \in Nat /\ left > 0 /\ sent - Len(received) < N
    <2>1. left \in Nat /\ left > 0
      BY DEF GoodInv, CallInv, WriteEntry
    <2>2. ~(sent - Len(received) >= N)
      BY ZenonT(60) DEF WriteEntry
    <2>3. QED
      BY <1>1, <1>2, <2>1, <2>2
  <1>4. prod_reg % N = sent % N /\ sent % N \in 0 .. N - 1
    BY <1>1, <1>2, ModMod, DivMod, ZenonT(60)
  <1>5. /\ base' = [base EXCEPT ![sent % N] = sent + 1] /\ pc' = "publish"
        /\ UNCHANGED <<sent, received, left, prod_reg, cons_reg>>
    BY <1>4, ZenonT(60) DEF WriteEntry
  <1>6. RegInv'
    BY <1>1, <1>2, <1>4, <1>5 DEF GoodInv, RegInv
  <1>7. ASSUME NEW k \in Len(received) + 1 .. sent PROVE base'[(k - 1) % N] = k
    <2>1. k - 1 \in Nat /\ k - 1 =< sent /\ sent - (k - 1) < N /\ k - 1 # sent /\ k \in Int
      BY <1>1, <1>2, <1>3
    <2>2. (k - 1) % N # sent % N
      BY <1>1, <1>2, <2>1, ModSame, Zenon
    <2>3. (k - 1) % N \in 0 .. N - 1
      BY <1>1, <2>1, DivMod
    <2>4. base[(k - 1) % N] = k
      BY DEF GoodInv, WindowInv
    <2>5. QED
      BY <1>2, <1>5, <2>2, <2>3, <2>4, ZenonT(60)
  <1>8. WindowInv'
    BY <1>5, <1>7 DEF GoodInv, WindowInv
  <1>9. base'[sent % N] = sent + 1
    BY <1>2, <1>4, <1>5, ZenonT(60)
  <1>10. CallInv'
    BY <1>3, <1>5, <1>9 DEF CallInv
  <1>11. QED
    BY <1>6, <1>8, <1>10 DEF GoodInv

LEMMA PublishKeeps == ASSUME GoodInv, Publish PROVE GoodInv'
  <1>1. N \in Nat \ {0} /\ 2 * N \in Nat \ {0} /\ Batch \in Nat
    BY CmdqAssumption DEF Batch
  <1>2. /\ sent \in Nat /\ received \in Seq(Nat) /\ Len(received) \in Nat
        /\ Len(received) =< sent /\ prod_reg = sent % (2 * N)
    BY DEF GoodInv, RegInv
  <1>3. /\ left \in Nat /\ left > 0 /\ sent - Len(received) < N
        /\ base[sent % N] = sent + 1
    BY DEF GoodInv, CallInv, Publish
  <1>4. /\ prod_reg' = (prod_reg + 1) % (2 * N) /\ sent' = sent + 1 /\ left' = left - 1
        /\ pc' = "write" /\ UNCHANGED <<base, received, cons_reg>>
    BY DEF Publish, smmu_inc
  <1>5. prod_reg' = sent' % (2 * N)
    <2>1. ((sent % (2 * N)) + 1) % (2 * N) = (sent + 1) % (2 * N)
      BY <1>1, <1>2, ModInc, ZenonT(60)
    <2>2. QED
      BY <1>2, <1>4, <2>1
  <1>6. RegInv'
    BY <1>2, <1>4, <1>5 DEF GoodInv, RegInv
  <1>7. ASSUME NEW k \in Len(received) + 1 .. sent + 1 PROVE base[(k - 1) % N] = k
    <2>1. CASE k = sent + 1
      <3>1. k - 1 = sent
        BY <1>2, <2>1
      <3>2. QED
        BY <1>3, <2>1, <3>1
    <2>2. CASE k # sent + 1
      <3>1. k \in Len(received) + 1 .. sent
        BY <1>2, <2>2
      <3>2. QED
        BY <3>1 DEF GoodInv, WindowInv
    <2>3. QED
      BY <2>1, <2>2
  <1>8. sent' - Len(received') =< N /\ left' \in Nat
    BY <1>1, <1>2, <1>3, <1>4
  <1>9. WindowInv'
    BY <1>4, <1>7, <1>8 DEF WindowInv
  <1>10. CallInv'
    BY <1>4, <1>8 DEF CallInv
  <1>11. QED
    BY <1>6, <1>9, <1>10 DEF GoodInv

(* What the SMMU takes from the queue is the next command in order.         *)
LEMMA TakesNext ==
    ASSUME GoodInv, SmmuExecutes
    PROVE  /\ Len(received) < sent
           /\ received' = Append(received, Len(received) + 1)
  <1>1. N \in Nat \ {0} /\ 2 * N \in Nat \ {0}
    BY CmdqAssumption
  <1>2. /\ sent \in Nat /\ received \in Seq(Nat) /\ Len(received) \in Nat /\ Len(received) =< sent
        /\ prod_reg = sent % (2 * N) /\ cons_reg = Len(received) % (2 * N)
    BY DEF GoodInv, RegInv
  <1>3. cons_reg # prod_reg /\ received' = Append(received, base[cons_reg % N])
    BY DEF SmmuExecutes
  <1>4. Len(received) < sent
    BY <1>2, <1>3
  <1>5. cons_reg % N = Len(received) % N
    BY <1>1, <1>2, ModMod
  <1>6. base[((Len(received) + 1) - 1) % N] = Len(received) + 1
    BY <1>2, <1>4 DEF GoodInv, WindowInv
  <1>7. (Len(received) + 1) - 1 = Len(received)
    BY <1>2
  <1>8. QED
    BY <1>3, <1>4, <1>5, <1>6, <1>7, ZenonT(60)

LEMMA ExecutesKeeps == ASSUME GoodInv, SmmuExecutes PROVE GoodInv'
  <1>1. N \in Nat \ {0} /\ 2 * N \in Nat \ {0} /\ Batch \in Nat
    BY CmdqAssumption DEF Batch
  <1>2. /\ sent \in Nat /\ received \in Seq(Nat) /\ Len(received) \in Nat
        /\ Len(received) =< sent /\ cons_reg = Len(received) % (2 * N)
    BY DEF GoodInv, RegInv
  <1>3. Len(received) < sent /\ received' = Append(received, Len(received) + 1)
    BY TakesNext
  <1>4. /\ cons_reg' = (cons_reg + 1) % (2 * N)
        /\ UNCHANGED <<prod_reg, base, pc, left, snap, sent, timedout>>
    BY DEF SmmuExecutes, smmu_inc
  <1>5. received' \in Seq(Nat) /\ Len(received') = Len(received) + 1
    BY <1>2, <1>3
  <1>6. cons_reg' = Len(received') % (2 * N)
    <2>1. ((Len(received) % (2 * N)) + 1) % (2 * N) = (Len(received) + 1) % (2 * N)
      BY <1>1, <1>2, ModInc, ZenonT(60)
    <2>2. QED
      BY <1>2, <1>4, <1>5, <2>1, ZenonT(60)
  <1>7. RegInv'
    BY <1>2, <1>3, <1>4, <1>5, <1>6 DEF GoodInv, RegInv
  <1>8. WindowInv'
    BY <1>1, <1>2, <1>3, <1>4, <1>5 DEF GoodInv, WindowInv
  <1>9. /\ pc \in {"idle", "write", "publish", "poll"} /\ left \in Nat
        /\ pc = "idle" => timedout
    BY <1>2, <1>3 DEF GoodInv, CallInv
  <1>10. CASE pc # "poll"
    <2>1. pc = "publish" => sent' - Len(received') < N
      <3>1. pc = "publish" => sent - Len(received) < N
        BY DEF GoodInv, CallInv
      <3>2. QED
        BY <1>1, <1>2, <1>4, <1>5, <3>1
    <2>2. pc = "publish" => left > 0 /\ base[sent % N] = sent + 1
      BY DEF GoodInv, CallInv
    <2>3. CallInv'
      BY <1>4, <1>9, <1>10, <2>1, <2>2, ZenonT(60) DEF CallInv
    <2>4. QED
      BY <1>7, <1>8, <2>3 DEF GoodInv
  <1>11. CASE pc = "poll"
    <2>1. PICK r \in 0 .. Len(received) : sent - r =< N /\ snap.cons = r % (2 * N)
      BY <1>11 DEF GoodInv, CallInv
    <2>2. r \in 0 .. Len(received') /\ sent' - r =< N /\ snap'.cons = r % (2 * N)
      BY <1>2, <1>4, <1>5, <2>1
    <2>3. snap'.prod = sent' % (2 * N) /\ sent' - Len(received') =< N
      BY <1>1, <1>2, <1>4, <1>5, <1>11 DEF GoodInv, CallInv
    <2>4. CallInv'
      BY <1>4, <1>9, <1>11, <2>2, <2>3, ZenonT(60) DEF CallInv
    <2>5. QED
      BY <1>7, <1>8, <2>4 DEF GoodInv
  <1>12. QED
    BY <1>9, <1>10, <1>11

LEMMA PollKeeps ==
    ASSUME GoodInv, PollStart \/ PollAgain
    PROVE  GoodInv'
  <1>1. N \in Nat \ {0} /\ Batch \in Nat
    BY CmdqAssumption DEF Batch
  <1>2. /\ sent \in Nat /\ received \in Seq(Nat) /\ Len(received) \in Nat
        /\ prod_reg = sent % (2 * N) /\ cons_reg = Len(received) % (2 * N)
    BY DEF GoodInv, RegInv
  <1>3. sent - Len(received) =< N
    BY DEF GoodInv, WindowInv
  <1>4. UNCHANGED <<prod_reg, cons_reg, base, left, sent, received>> /\ pc' = "poll"
    BY DEF PollStart, PollAgain
  <1>5. snap'.prod = sent % (2 * N) /\ snap'.cons = cons_reg
    <2>1. CASE PollStart
      BY <1>2, <2>1, ZenonT(60) DEF PollStart
    <2>2. CASE PollAgain
      <3>1. snap' = [snap EXCEPT !.cons = cons_reg]
        BY <2>2 DEF PollAgain
      <3>2. snap.prod = sent % (2 * N)
        BY <2>2 DEF PollAgain, GoodInv, CallInv
      <3>3. QED
        BY <3>1, <3>2
    <2>3. QED
      BY <2>1, <2>2
  <1>6. Len(received) \in 0 .. Len(received) /\ snap'.cons = Len(received) % (2 * N)
    BY <1>2, <1>5
  <1>7. RegInv' /\ WindowInv'
    BY <1>4 DEF GoodInv, RegInv, WindowInv
  <1>8. left \in Nat
    BY DEF GoodInv, CallInv
  <1>9. CallInv'
    BY <1>3, <1>4, <1>5, <1>6, <1>8, ZenonT(60) DEF CallInv
  <1>10. QED
    BY <1>7, <1>9 DEF GoodInv

LEMMA DoneKeeps == ASSUME GoodInv, PollDone PROVE GoodInv'
  <1>1. N \in Nat \ {0} /\ 2 * N \in Nat \ {0}
    BY CmdqAssumption
  <1>2. sent \in Nat /\ Len(received) \in Nat /\ Len(received) =< sent /\ left \in Nat
    BY DEF GoodInv, RegInv, CallInv
  <1>3. pc = "poll" /\ smmu_queue_empty(snap.prod, snap.cons, N)
    BY DEF PollDone, Consumed
  <1>4. PICK r \in 0 .. Len(received) : sent - r =< N /\ snap.cons = r % (2 * N)
    BY <1>3 DEF GoodInv, CallInv
  <1>5. snap.prod = sent % (2 * N)
    BY <1>3 DEF GoodInv, CallInv
  <1>6. r \in Nat /\ snap.prod \in Nat /\ snap.cons \in Nat
    BY <1>1, <1>2, <1>4, <1>5, DivMod
  <1>7. snap.prod = snap.cons
    BY <1>1, <1>3, <1>6, EmptyIsEqual
  <1>8. r =< sent /\ sent - r < 2 * N /\ r % (2 * N) = sent % (2 * N)
    BY <1>1, <1>2, <1>4, <1>5, <1>6, <1>7
  <1>9. r = sent
    BY <1>1, <1>2, <1>6, <1>8, ModSame, Zenon
  <1>10. Len(received) = sent
    BY <1>2, <1>4, <1>9
  <1>11. UNCHANGED <<prod_reg, cons_reg, base, left, sent, received>> /\ pc' = "idle"
    BY DEF PollDone
  <1>12. RegInv' /\ WindowInv'
    BY <1>11 DEF GoodInv, RegInv, WindowInv
  <1>13. CallInv'
    BY <1>2, <1>10, <1>11 DEF CallInv
  <1>14. QED
    BY <1>12, <1>13 DEF GoodInv

LEMMA CallKeeps == ASSUME GoodInv, smmu_tlbi_cfgi PROVE GoodInv'
  <1>1. Batch \in Nat
    BY DEF Batch
  <1>2. /\ UNCHANGED <<prod_reg, cons_reg, base, sent, received>>
        /\ pc' = "write" /\ left' = Batch
    BY DEF smmu_tlbi_cfgi
  <1>3. RegInv' /\ WindowInv'
    BY <1>2 DEF GoodInv, RegInv, WindowInv
  <1>4. CallInv'
    BY <1>1, <1>2 DEF CallInv
  <1>5. QED
    BY <1>3, <1>4 DEF GoodInv

LEMMA TimesOutKeeps == ASSUME GoodInv, PollTimesOut PROVE GoodInv'
  <1>1. /\ UNCHANGED <<prod_reg, cons_reg, base, left, sent, received>>
        /\ pc' = "idle" /\ timedout'
    BY DEF PollTimesOut
  <1>2. RegInv' /\ WindowInv'
    BY <1>1 DEF GoodInv, RegInv, WindowInv
  <1>3. left \in Nat
    BY DEF GoodInv, CallInv
  <1>4. CallInv'
    BY <1>1, <1>3 DEF CallInv
  <1>5. QED
    BY <1>2, <1>4 DEF GoodInv

LEMMA OverrunStays == ASSUME [Next]_vars, overrun PROVE overrun'
  BY ZenonT(60) DEF Next, Driver, smmu_tlbi_cfgi, WriteEntry, Publish, PollStart, PollAgain, PollDone,
         PollTimesOut, SmmuExecutes, Done, vars

LEMMA InvNext ==
    ASSUME GoodInv, [Next]_vars, ~overrun'
    PROVE  GoodInv'
  <1>1. CASE smmu_tlbi_cfgi
    BY <1>1, CallKeeps
  <1>2. CASE WriteEntry
    BY <1>2, WriteKeeps
  <1>3. CASE Publish
    BY <1>3, PublishKeeps
  <1>4. CASE PollStart \/ PollAgain
    BY <1>4, PollKeeps
  <1>5. CASE PollDone
    BY <1>5, DoneKeeps
  <1>6. CASE PollTimesOut
    BY <1>6, TimesOutKeeps
  <1>7. CASE SmmuExecutes
    BY <1>7, ExecutesKeeps
  <1>8. CASE UNCHANGED vars
    BY <1>8, ZenonT(60) DEF vars, GoodInv, RegInv, WindowInv, CallInv
  <1>9. CASE Done
    BY <1>8, <1>9 DEF Done
  <1>10. QED
    BY <1>1, <1>2, <1>3, <1>4, <1>5, <1>6, <1>7, <1>8, <1>9, ZenonT(60) DEF Next, Driver

LEMMA Invariance == Spec => []QueueInv
  <1>1. Init => QueueInv
    BY InvInit DEF QueueInv
  <1>2. QueueInv /\ [Next]_vars => QueueInv'
    BY InvNext, OverrunStays DEF QueueInv
  <1>3. QED
    BY <1>1, <1>2, PTL DEF Spec

(* An smmu_tlbi_cfgi that returns without a timeout returns after the SMMU  *)
(* has executed all that was issued, whatever the size of the queue and     *)
(* however often its positions wrapped, unless the queue was overrun.       *)
THEOREM SyncIsComplete == Spec => []SyncComplete
  <1>1. QueueInv => SyncComplete
    BY DEF QueueInv, GoodInv, CallInv, SyncComplete
  <1>2. QED
    BY <1>1, Invariance, PTL

(* The queue in memory and its two registers implement a FIFO until the     *)
(* queue is overrun: the SMMU executes every command once, in the order     *)
(* smmu_cmdq_write_cmd was called.                                          *)
THEOREM CmdqIsFifo == Spec => InOrder
  <1>1. Init => F!Init
    BY DEF Init, F!Init
  <1>2. QueueInv /\ [Next]_vars => [~overrun' => F!Next]_<<sent, received>>
    <2> SUFFICES ASSUME QueueInv, [Next]_vars, ~overrun' PROVE [F!Next]_<<sent, received>>
      OBVIOUS
    <2>0. GoodInv
      BY OverrunStays DEF QueueInv
    <2>1. CASE Publish
      BY <2>1 DEF Publish, F!Next, F!Send
    <2>2. CASE SmmuExecutes
      <3>1. sent' = sent
        BY <2>2 DEF SmmuExecutes
      <3>2. QED
        BY <2>0, <2>2, <3>1, TakesNext DEF F!Next, F!Receive
    <2>3. CASE smmu_tlbi_cfgi \/ WriteEntry \/ PollStart \/ PollAgain \/ PollDone \/ PollTimesOut
      BY <2>3, ZenonT(60) DEF smmu_tlbi_cfgi, WriteEntry, PollStart, PollAgain, PollDone, PollTimesOut
    <2>4. CASE Done \/ UNCHANGED vars
      BY <2>4 DEF Done, vars
    <2>5. QED
      BY <2>1, <2>2, <2>3, <2>4, ZenonT(60) DEF Next, Driver
  <1>3. QED
    BY <1>1, <1>2, Invariance, PTL DEF Spec, InOrder
-----------------------------------------------------------------------------
(* What is outstanding and what the call has still to write is one batch.   *)
Room == pc \in {"write", "publish"} => (sent - Len(received)) + left =< Batch

RoomInv == stalled \/ (~overrun /\ ~timedout /\ Room)

LEMMA RoomKept ==
    ASSUME GoodInv, Room, ~timedout, [Next]_vars
    PROVE  Room'
  <1>1. Batch \in Nat
    BY DEF Batch
  <1>2. sent \in Nat /\ received \in Seq(Nat) /\ Len(received) \in Nat /\ left \in Nat
    BY DEF GoodInv, RegInv, CallInv
  <1>3. CASE smmu_tlbi_cfgi
    <2>1. Len(received) = sent
      BY <1>3 DEF GoodInv, CallInv, smmu_tlbi_cfgi
    <2>2. left' = Batch /\ sent' = sent /\ received' = received
      BY <1>3 DEF smmu_tlbi_cfgi
    <2>3. QED
      BY <1>1, <1>2, <2>1, <2>2 DEF Room
  <1>4. CASE WriteEntry
    <2>1. pc = "write" /\ left' = left /\ sent' = sent /\ received' = received
      BY <1>4 DEF WriteEntry
    <2>2. QED
      BY <2>1 DEF Room
  <1>5. CASE Publish
    <2>1. pc = "publish" /\ left' = left - 1 /\ sent' = sent + 1 /\ received' = received
      BY <1>5 DEF Publish
    <2>2. QED
      BY <1>1, <1>2, <2>1 DEF Room
  <1>6. CASE SmmuExecutes
    <2>1. Len(received') = Len(received) + 1
      BY <1>2, <1>6, TakesNext
    <2>2. pc' = pc /\ left' = left /\ sent' = sent
      BY <1>6 DEF SmmuExecutes
    <2>3. QED
      BY <1>1, <1>2, <2>1, <2>2 DEF Room
  <1>7. CASE PollStart \/ PollAgain \/ PollDone \/ PollTimesOut
    <2>1. pc' \in {"poll", "idle"}
      BY <1>7, ZenonT(60) DEF PollStart, PollAgain, PollDone, PollTimesOut
    <2>2. QED
      BY <2>1 DEF Room
  <1>8. CASE Done \/ UNCHANGED vars
    <2>1. UNCHANGED vars
      BY <1>8 DEF Done
    <2>2. QED
      BY <2>1 DEF vars, Room
  <1>9. QED
    BY <1>3, <1>4, <1>5, <1>6, <1>7, <1>8, ZenonT(60) DEF Next, Driver

LEMMA RoomInvNext ==
    ASSUME Batch =< N, QueueInv, RoomInv, [Next]_vars
    PROVE  RoomInv'
  <1>1. CASE stalled \/ PollTimesOut
    <2>1. stalled'
      BY <1>1 DEF Next, Driver, smmu_tlbi_cfgi, WriteEntry, Publish, PollStart, PollAgain,
                  PollDone, PollTimesOut, SmmuExecutes, Done, vars
    <2>2. QED
      BY <2>1 DEF RoomInv
  <1>2. CASE ~stalled /\ ~PollTimesOut
    <2>1. ~overrun /\ ~timedout /\ Room /\ GoodInv
      BY <1>2 DEF RoomInv, QueueInv
    <2>2. Room'
      BY <2>1, RoomKept
    <2>3. ~timedout'
      BY <1>2, <2>1, ZenonT(60) DEF Next, Driver, smmu_tlbi_cfgi, WriteEntry, Publish, PollStart, PollAgain,
                        PollDone, SmmuExecutes, Done, vars
    <2>4. CASE WriteEntry
      <3>1. N \in Nat /\ Batch \in Nat /\ sent \in Nat /\ Len(received) \in Nat /\ left \in Nat
        BY <2>1, CmdqAssumption DEF GoodInv, RegInv, CallInv, Batch
      <3>2. left > 0 /\ (sent - Len(received)) + left =< Batch
        BY <2>1, <2>4 DEF Room, WriteEntry
      <3>3. ~(sent - Len(received) >= N)
        BY <3>1, <3>2
      <3>4. ~overrun'
        BY <2>1, <2>4, <3>3, ZenonT(60) DEF WriteEntry
      <3>5. QED
        BY <2>2, <2>3, <3>4 DEF RoomInv
    <2>5. CASE ~WriteEntry
      <3>1. ~overrun'
        BY <2>1, <2>5, ZenonT(60) DEF Next, Driver, smmu_tlbi_cfgi, Publish, PollStart, PollAgain, PollDone,
                          PollTimesOut, SmmuExecutes, Done, vars
      <3>2. QED
        BY <2>2, <2>3, <3>1 DEF RoomInv
    <2>6. QED
      BY <2>4, <2>5
  <1>3. QED
    BY <1>1, <1>2

(* Until a poll times out a queue with room for one invalidation is never   *)
(* overrun, although the check for room in smmu_cmdq_write_cmd reads        *)
(* positions that never change.                                             *)
THEOREM QueueNeverOverrun == ASSUME Batch =< N PROVE Spec => []NeverOverrun
  <1>1. Init => RoomInv
    BY DEF Init, RoomInv, Room
  <1>2. QueueInv /\ RoomInv /\ [Next]_vars => RoomInv'
    BY RoomInvNext
  <1>3. RoomInv => NeverOverrun
    BY DEF RoomInv, NeverOverrun
  <1>4. QED
    BY <1>1, <1>2, <1>3, Invariance, PTL DEF Spec
-----------------------------------------------------------------------------
(* The event queue. Events the dump is done with: one that was read is in   *)
(* its entry until the dump moves EVENTQ_CONS.                              *)
Drained == IF epc = "read" THEN Len(handled) - 1 ELSE Len(handled)

Register == [pos : Nat, ovf : BOOLEAN]

(* The registers count the events written and drained; what the driver      *)
(* took for the producer's position lies between the two.                   *)
EventRegs ==
    /\ eprod_reg \in Register /\ econs_reg \in Register /\ eprod \in Register /\ econs \in Register
    /\ written \in Nat /\ handled \in Seq(Nat) /\ Drained \in Nat
    /\ epc \in {"idle", "drain", "read", "finish"}
    /\ eprod_reg.pos = written % (2 * EvtqN)
    /\ econs_reg.pos = Drained % (2 * EvtqN) /\ econs.pos = econs_reg.pos
    /\ \E p \in Len(handled) .. written : eprod.pos = p % (2 * EvtqN)
    /\ ebase \in [0 .. EvtqN - 1 -> Nat]

(* The entries the dump has still to handle hold the events in order.       *)
EventWindow ==
    /\ written - Drained =< EvtqN
    /\ \A n \in Drained + 1 .. written : ebase[(n - 1) % EvtqN] = n

EventInv == EventRegs /\ EventWindow

(* Nothing is left of what a dump began with when it ends.                  *)
PendingInv == pending \in Nat /\ pending =< written /\ DumpHandlesAll

(* EVENTQ_CONS never acknowledges an overflow, so the flag of EVENTQ_PROD   *)
(* rises once; the dump that sees it rise is the only one to report.        *)
FlagInv ==
    /\ econs_reg.ovf = FALSE /\ dropped \in BOOLEAN /\ missed \in BOOLEAN
    /\ raised \in Nat /\ written \in Nat /\ raised >= written
    /\ eprod_reg.ovf => raised > written
    /\ eprod.ovf => eprod_reg.ovf
    /\ reports = IF eprod.ovf THEN 1 ELSE 0
    /\ dropped => eprod_reg.ovf
    /\ (epc = "finish" /\ dropped) => eprod.ovf
    /\ missed => eprod.ovf
(* A producer one lap ahead sees the queue full.                            *)
LEMMA LapIsFull ==
    ASSUME NEW n \in Nat \ {0}, NEW x \in Nat, NEW y \in Nat, x - y = n
    PROVE  smmu_queue_full(x % (2 * n), y % (2 * n), n)
  <1> DEFINE a == x % (2 * n)
             b == y % (2 * n)
  <1>1. 2 * n \in Nat \ {0} /\ a \in Nat /\ b \in Nat
    <2>1. 2 * n \in Nat \ {0}
      OBVIOUS
    <2>2. a \in 0 .. 2 * n - 1 /\ b \in 0 .. 2 * n - 1
      BY <2>1, DivMod
    <2>3. QED
      BY <2>1, <2>2
  <1>2. a % n = x % n /\ b % n = y % n
    BY ModMod, ZenonT(60)
  <1>3. x % n = y % n
    <2> DEFINE q == y \div n
               r == y % n
    <2>1. q \in Nat /\ r \in 0 .. n - 1 /\ y = n * q + r
      BY DivMod, ZenonT(60)
    <2> HIDE DEF q, r
    <2>2. x = n * (q + 1) + r
      <3>1. n * (q + 1) = n * q + n
        BY <2>1
      <3>2. QED
        BY <2>1, <3>1
    <2>3. (n * (q + 1) + r) % n = r
      BY <2>1, ModUnique
    <2>4. QED
      BY <2>2, <2>3 DEF r
  <1>4. a # b
    <2>1. y =< x /\ x - y < 2 * n /\ x # y
      OBVIOUS
    <2>2. QED
      BY <1>1, <2>1, ModSame, ZenonT(60)
  <1>5. a = n * (a \div n) + (a % n) /\ b = n * (b \div n) + (b % n)
    BY <1>1, DivMod
  <1> HIDE DEF a, b
  <1>6. a \div n # b \div n
    BY <1>2, <1>3, <1>4, <1>5, ZenonT(60)
  <1>7. smmu_queue_full(a, b, n)
    BY <1>2, <1>3, <1>6 DEF smmu_queue_full
  <1>8. QED
    BY <1>7 DEF a, b

LEMMA EvtqFacts == EvtqN \in Nat \ {0} /\ 2 * EvtqN \in Nat \ {0}
  BY EvtqAssumption

LEMMA EventInit == EvtqInit => EventInv
  <1> SUFFICES ASSUME EvtqInit PROVE EventInv
    OBVIOUS
  <1>1. 0 % (2 * EvtqN) = 0
    BY EvtqFacts, ModSmall
  <1>2. handled \in Seq(Nat) /\ Len(handled) = 0 /\ Drained = 0
    BY DEF EvtqInit, Drained
  <1>3. EventRegs
    BY <1>1, <1>2, EvtqFacts DEF EvtqInit, EventRegs, Register, Zero
  <1>4. EventWindow
    BY <1>2, EvtqFacts DEF EvtqInit, EventWindow
  <1>5. QED
    BY <1>3, <1>4 DEF EventInv

(* The types, and that what was handled was written.                        *)
LEMMA EventFacts ==
    ASSUME EventInv
    PROVE  /\ written \in Nat /\ handled \in Seq(Nat) /\ Len(handled) \in Nat /\ Drained \in Nat
           /\ Len(handled) =< written /\ Drained =< Len(handled) /\ written - Drained =< EvtqN
  <1>1. /\ written \in Nat /\ handled \in Seq(Nat) /\ Len(handled) \in Nat /\ Drained \in Nat
        /\ \E p \in Len(handled) .. written : eprod.pos = p % (2 * EvtqN)
    BY DEF EventInv, EventRegs
  <1>2. Drained =< Len(handled)
    BY <1>1 DEF Drained
  <1>3. written - Drained =< EvtqN
    BY DEF EventInv, EventWindow
  <1>4. Len(handled) =< written
    BY <1>1
  <1>5. QED
    BY <1>1, <1>2, <1>3, <1>4, ZenonT(60)

(* What is written to memory when there is room leaves the entries alone    *)
(* that the dump has still to handle.                                       *)
LEMMA WrittenKeeps == ASSUME EventInv, EventWritten PROVE EventInv'
  <1>1. /\ written \in Nat /\ handled \in Seq(Nat) /\ Len(handled) \in Nat /\ Drained \in Nat
        /\ Len(handled) =< written /\ Drained =< Len(handled) /\ written - Drained =< EvtqN
    BY EventFacts
  <1>2. /\ eprod_reg.pos = written % (2 * EvtqN) /\ econs_reg.pos = Drained % (2 * EvtqN)
        /\ econs.pos = econs_reg.pos /\ ebase \in [0 .. EvtqN - 1 -> Nat]
        /\ eprod_reg \in Register /\ econs_reg \in Register /\ eprod \in Register /\ econs \in Register
        /\ epc \in {"idle", "drain", "read", "finish"}
    BY DEF EventInv, EventRegs
  <1>3. written - Drained < EvtqN
    <2>1. ~smmu_queue_full(eprod_reg.pos, econs_reg.pos, EvtqN)
      BY DEF EventWritten
    <2>2. written - Drained # EvtqN
      BY <1>1, <1>2, <2>1, LapIsFull, EvtqFacts, ZenonT(60)
    <2>3. QED
      BY <1>1, <2>2, EvtqFacts
  <1>4. (eprod_reg.pos % EvtqN) = written % EvtqN /\ written % EvtqN \in 0 .. EvtqN - 1
    BY <1>1, <1>2, EvtqFacts, ModMod, DivMod, ZenonT(60)
  <1>5. /\ ebase' = [ebase EXCEPT ![written % EvtqN] = written + 1]
        /\ written' = written + 1
        /\ UNCHANGED <<eprod, econs, epc, econs_reg, handled>>
    BY <1>4, ZenonT(60) DEF EventWritten, dumpVars
  <1>6. Drained' = Drained
    BY <1>5 DEF Drained
  <1>7. eprod_reg'.pos = written' % (2 * EvtqN)
    <2>1. ((written % (2 * EvtqN)) + 1) % (2 * EvtqN) = (written + 1) % (2 * EvtqN)
      BY <1>1, EvtqFacts, ModInc, ZenonT(60)
    <2>2. eprod_reg' = [eprod_reg EXCEPT !.pos = (eprod_reg.pos + 1) % (2 * EvtqN)]
      BY DEF EventWritten, smmu_inc
    <2>3. eprod_reg'.pos = (eprod_reg.pos + 1) % (2 * EvtqN)
      BY <1>2, <2>2 DEF Register
    <2>4. QED
      BY <1>2, <1>5, <2>1, <2>3, ZenonT(60)
  <1>8. \E p \in Len(handled') .. written' : eprod'.pos = p % (2 * EvtqN)
    <2>1. PICK p \in Len(handled) .. written : eprod.pos = p % (2 * EvtqN)
      BY DEF EventInv, EventRegs
    <2>2. p \in Len(handled') .. written' /\ eprod'.pos = p % (2 * EvtqN)
      BY <1>1, <1>5, <2>1
    <2>3. QED
      BY <2>2
  <1>9. eprod_reg' \in Register
    <2>1. smmu_inc(eprod_reg.pos, EvtqN) \in Nat
      BY <1>2, EvtqFacts DEF smmu_inc, Register
    <2>2. QED
      BY <1>2, <2>1, ZenonT(60) DEF EventWritten, Register
  <1>10. EventRegs'
    BY <1>1, <1>2, <1>4, <1>5, <1>6, <1>7, <1>8, <1>9 DEF EventRegs
  <1>11. ASSUME NEW n \in Drained + 1 .. written + 1 PROVE ebase'[(n - 1) % EvtqN] = n
    <2>1. CASE n = written + 1
      <3>1. n - 1 = written
        BY <1>1, <2>1
      <3>2. QED
        BY <1>2, <1>4, <1>5, <2>1, <3>1, ZenonT(60)
    <2>2. CASE n # written + 1
      <3>1. /\ n \in Drained + 1 .. written /\ n - 1 \in Nat /\ n - 1 =< written
            /\ written - (n - 1) < EvtqN /\ n - 1 # written
        BY <1>1, <1>3, <2>2, EvtqFacts
      <3>2. (n - 1) % EvtqN # written % EvtqN
        BY <1>1, <3>1, EvtqFacts, ModSame, Zenon
      <3>3. (n - 1) % EvtqN \in 0 .. EvtqN - 1
        BY <3>1, EvtqFacts, DivMod, ZenonT(60)
      <3>4. ebase[(n - 1) % EvtqN] = n
        BY <3>1 DEF EventInv, EventWindow
      <3>5. QED
        BY <1>2, <1>5, <3>2, <3>3, <3>4, ZenonT(60)
    <2>3. QED
      BY <2>1, <2>2
  <1>12. written' - Drained' =< EvtqN
    BY <1>1, <1>3, <1>5, <1>6, EvtqFacts
  <1>13. EventWindow'
    BY <1>5, <1>6, <1>11, <1>12, ZenonT(60) DEF EventWindow
  <1>14. QED
    BY <1>10, <1>13 DEF EventInv

(* The dump reads only what was written, in the order of writing.           *)
LEMMA ReadsNext ==
    ASSUME EventInv, smmu_queue_read
    PROVE  /\ Len(handled) < written
           /\ handled' = Append(handled, Len(handled) + 1)
           /\ \E p \in Len(handled) + 1 .. written : eprod.pos = p % (2 * EvtqN)
  <1>1. /\ written \in Nat /\ handled \in Seq(Nat) /\ Len(handled) \in Nat /\ Drained \in Nat
        /\ Len(handled) =< written
    BY EventFacts
  <1>2. Drained = Len(handled)
    BY DEF smmu_queue_read, Drained
  <1>3. econs.pos = Len(handled) % (2 * EvtqN)
    BY <1>2 DEF EventInv, EventRegs
  <1>4. PICK p \in Len(handled) .. written : eprod.pos = p % (2 * EvtqN)
    BY DEF EventInv, EventRegs
  <1>5. p # Len(handled)
    <2>1. ~smmu_queue_empty(eprod.pos, econs.pos, EvtqN)
      BY DEF smmu_queue_read
    <2>2. eprod.pos # econs.pos
      BY <2>1 DEF smmu_queue_empty
    <2>3. QED
      BY <1>3, <1>4, <2>2
  <1>6. p \in Len(handled) + 1 .. written /\ Len(handled) < written
    BY <1>1, <1>4, <1>5
  <1>7. econs.pos % EvtqN = Len(handled) % EvtqN
    BY <1>1, <1>3, EvtqFacts, ModMod, ZenonT(60)
  <1>8. ebase[((Len(handled) + 1) - 1) % EvtqN] = Len(handled) + 1
    <2>1. Len(handled) + 1 \in Drained + 1 .. written
      BY <1>1, <1>2, <1>6
    <2>2. QED
      BY <2>1 DEF EventInv, EventWindow
  <1>9. (Len(handled) + 1) - 1 = Len(handled)
    BY <1>1
  <1>10. handled' = Append(handled, Len(handled) + 1)
    BY <1>7, <1>8, <1>9, ZenonT(60) DEF smmu_queue_read
  <1>11. QED
    BY <1>4, <1>6, <1>10

LEMMA ReadKeeps == ASSUME EventInv, smmu_queue_read PROVE EventInv'
  <1>1. written \in Nat /\ handled \in Seq(Nat) /\ Len(handled) \in Nat /\ Drained \in Nat
    BY EventFacts
  <1>2. /\ handled' = Append(handled, Len(handled) + 1)
        /\ \E p \in Len(handled) + 1 .. written : eprod.pos = p % (2 * EvtqN)
    BY ReadsNext
  <1>3. handled' \in Seq(Nat) /\ Len(handled') = Len(handled) + 1
    BY <1>1, <1>2
  <1>4. epc = "drain" /\ epc' = "read" /\ UNCHANGED <<eprod_reg, econs_reg, eprod, econs, ebase, written>>
    BY DEF smmu_queue_read
  <1>5. Drained = Len(handled) /\ Drained' = Len(handled') - 1
    BY <1>4 DEF Drained
  <1>6. Drained' = Drained
    BY <1>1, <1>3, <1>5
  <1>7. EventRegs'
    BY <1>1, <1>2, <1>3, <1>4, <1>6, ZenonT(60) DEF EventInv, EventRegs
  <1>8. EventWindow'
    BY <1>4, <1>6 DEF EventInv, EventWindow
  <1>9. QED
    BY <1>7, <1>8 DEF EventInv

LEMMA AdvanceKeeps == ASSUME EventInv, Advance PROVE EventInv'
  <1>1. /\ written \in Nat /\ handled \in Seq(Nat) /\ Len(handled) \in Nat /\ Drained \in Nat
        /\ written - Drained =< EvtqN
    BY EventFacts
  <1>2. /\ econs.pos = Drained % (2 * EvtqN) /\ ebase \in [0 .. EvtqN - 1 -> Nat]
        /\ eprod_reg \in Register /\ eprod \in Register /\ eprod_reg.pos = written % (2 * EvtqN)
        /\ \E p \in Len(handled) .. written : eprod.pos = p % (2 * EvtqN)
    BY DEF EventInv, EventRegs
  <1>3. /\ epc = "read" /\ epc' = "drain" /\ UNCHANGED <<eprod_reg, eprod, ebase, written, handled>>
        /\ econs' = [pos |-> (econs.pos + 1) % (2 * EvtqN), ovf |-> FALSE] /\ econs_reg' = econs'
    BY DEF Advance, smmu_inc
  <1>4. Drained = Len(handled) - 1 /\ Drained' = Len(handled)
    BY <1>3 DEF Drained
  <1>5. Drained' = Drained + 1
    BY <1>1, <1>4
  <1>6. econs'.pos = Drained' % (2 * EvtqN)
    <2>1. ((Drained % (2 * EvtqN)) + 1) % (2 * EvtqN) = (Drained + 1) % (2 * EvtqN)
      BY <1>1, EvtqFacts, ModInc, ZenonT(60)
    <2>2. QED
      BY <1>2, <1>3, <1>5, <2>1, ZenonT(60)
  <1>7. econs' \in Register
    <2>1. (Drained + 1) % (2 * EvtqN) \in Nat
      BY <1>1, EvtqFacts
    <2>2. QED
      BY <1>3, <1>5, <1>6, <2>1, ZenonT(60) DEF Register
  <1>8. EventRegs'
    BY <1>1, <1>2, <1>3, <1>4, <1>6, <1>7, ZenonT(60) DEF EventRegs
  <1>9. EventWindow'
    <2>1. written' - Drained' =< EvtqN
      BY <1>1, <1>3, <1>5, EvtqFacts
    <2>2. \A n \in Drained' + 1 .. written' : n \in Drained + 1 .. written
      BY <1>1, <1>3, <1>5
    <2>3. QED
      BY <1>3, <2>1, <2>2, ZenonT(60) DEF EventInv, EventWindow
  <1>10. QED
    BY <1>8, <1>9 DEF EventInv

LEMMA SyncKeeps == ASSUME EventInv, queue_sync_prod_in PROVE EventInv'
  <1>1. written \in Nat /\ Len(handled) \in Nat /\ Len(handled) =< written
    BY EventFacts
  <1>2. /\ epc = "drain" /\ epc' \in {"drain", "finish"} /\ eprod' = eprod_reg
        /\ UNCHANGED <<eprod_reg, econs_reg, econs, ebase, written, handled>>
    BY DEF queue_sync_prod_in
  <1>3. Drained' = Drained
    BY <1>2 DEF Drained
  <1>4. written \in Len(handled) .. written /\ eprod'.pos = written % (2 * EvtqN)
    BY <1>1, <1>2 DEF EventInv, EventRegs
  <1>5. EventRegs'
    BY <1>2, <1>3, <1>4, ZenonT(60) DEF EventInv, EventRegs
  <1>6. EventWindow'
    BY <1>2, <1>3 DEF EventInv, EventWindow
  <1>7. QED
    BY <1>5, <1>6 DEF EventInv

(* The other steps move no position and no entry.                           *)
LEMMA EventsRest ==
    ASSUME EventInv,
           EventDropped \/ EventAborted \/ smmu_gerror_check \/ Finish \/ UNCHANGED evtqVars
    PROVE  EventInv'
  <1>1. /\ UNCHANGED <<econs_reg, eprod, ebase, written, handled>>
        /\ epc' \in {"idle", "drain", "read", "finish"} /\ (epc' = "read" <=> epc = "read")
    BY ZenonT(60) DEF EventInv, EventRegs, EventDropped, EventAborted, smmu_gerror_check, Finish, evtqVars,
           dumpVars
  <1>2. eprod_reg' \in Register /\ eprod_reg'.pos = eprod_reg.pos
    <2>1. eprod_reg \in Register /\ econs_reg \in Register
      BY DEF EventInv, EventRegs
    <2>2. CASE EventDropped
      BY <2>1, <2>2, ZenonT(60) DEF EventDropped, Register
    <2>3. CASE ~EventDropped
      BY <2>1, <2>3, ZenonT(60) DEF EventAborted, smmu_gerror_check, Finish, evtqVars
    <2>4. QED
      BY <2>2, <2>3
  <1>3. econs' \in Register /\ econs'.pos = econs.pos
    <2>1. econs \in Register /\ eprod \in Register
      BY DEF EventInv, EventRegs
    <2>2. CASE Finish
      BY <2>1, <2>2 DEF Finish, Register
    <2>3. CASE ~Finish
      BY <2>1, <2>3, ZenonT(60) DEF EventDropped, EventAborted, smmu_gerror_check, evtqVars, dumpVars
    <2>4. QED
      BY <2>2, <2>3
  <1>4. Drained' = Drained
    BY <1>1 DEF Drained
  <1>5. EventRegs'
    BY <1>1, <1>2, <1>3, <1>4, ZenonT(60) DEF EventInv, EventRegs
  <1>6. EventWindow'
    BY <1>1, <1>4 DEF EventInv, EventWindow
  <1>7. QED
    BY <1>5, <1>6 DEF EventInv

LEMMA EventStep == ASSUME EventInv, [EvtqNext]_evtqVars PROVE EventInv'
  <1>1. CASE EventWritten
    BY <1>1, WrittenKeeps
  <1>2. CASE smmu_queue_read
    BY <1>2, ReadKeeps
  <1>3. CASE Advance
    BY <1>3, AdvanceKeeps
  <1>4. CASE queue_sync_prod_in
    BY <1>4, SyncKeeps
  <1>5. CASE EventDropped \/ EventAborted \/ smmu_gerror_check \/ Finish \/ UNCHANGED evtqVars
    BY <1>5, EventsRest
  <1>6. QED
    BY <1>1, <1>2, <1>3, <1>4, <1>5, ZenonT(60) DEF EvtqNext, Smmu, Dump

LEMMA EventInvariance == EvtqSpec => []EventInv
  BY EventInit, EventStep, PTL DEF EvtqSpec

(* Registers, memory and the driver's copies of the positions implement a   *)
(* FIFO whatever the size of the queue: val_smmu_dump_eventq handles every  *)
(* event that was written once and in order, however the SMMU's writes and  *)
(* the dump interleave, and also when the queue overflows.                  *)
THEOREM EvtqIsFifo == EvtqSpec => EventsInOrder
  <1>1. EvtqInit => Events!Init
    BY DEF EvtqInit, Events!Init
  <1>2. EventInv /\ [EvtqNext]_evtqVars => [Events!Next]_<<written, handled>>
    <2> SUFFICES ASSUME EventInv, [EvtqNext]_evtqVars PROVE [Events!Next]_<<written, handled>>
      OBVIOUS
    <2>1. CASE EventWritten
      BY <2>1 DEF EventWritten, Events!Next, Events!Send
    <2>2. CASE smmu_queue_read
      <3>1. written' = written
        BY <2>2 DEF smmu_queue_read
      <3>2. QED
        BY <2>2, <3>1, ReadsNext DEF Events!Next, Events!Receive
    <2>3. CASE EventDropped \/ EventAborted \/ smmu_gerror_check \/ Advance \/ queue_sync_prod_in
                 \/ Finish \/ UNCHANGED evtqVars
      BY <2>3, ZenonT(60) DEF EventDropped, EventAborted, smmu_gerror_check, Advance, queue_sync_prod_in,
                  Finish, evtqVars
    <2>4. QED
      BY <2>1, <2>2, <2>3 DEF EvtqNext, Smmu, Dump
  <1>3. QED
    BY <1>1, <1>2, EventInvariance, PTL DEF EvtqSpec, EventsInOrder, Events!Spec

(* A dump leaves its loop only when nothing is left in the queue.           *)
LEMMA EmptiedAtEnd ==
    ASSUME EventInv, queue_sync_prod_in, epc' = "finish"
    PROVE  Len(handled) = written
  <1>1. /\ written \in Nat /\ Len(handled) \in Nat /\ Len(handled) =< written
        /\ written - Drained =< EvtqN
    BY EventFacts
  <1>2. epc = "drain" /\ eprod' = eprod_reg
    BY DEF queue_sync_prod_in
  <1>3. Drained = Len(handled)
    BY <1>2 DEF Drained
  <1>4. smmu_queue_empty(eprod_reg.pos, econs.pos, EvtqN)
    BY <1>2 DEF queue_sync_prod_in
  <1>5. /\ eprod_reg.pos = written % (2 * EvtqN) /\ econs.pos = Len(handled) % (2 * EvtqN)
        /\ eprod_reg.pos \in Nat /\ econs.pos \in Nat
    BY <1>3 DEF EventInv, EventRegs, Register
  <1>6. Len(handled) % (2 * EvtqN) = written % (2 * EvtqN)
    BY <1>4, <1>5, EvtqFacts, EmptyIsEqual, ZenonT(60)
  <1>7. written - Len(handled) < 2 * EvtqN
    BY <1>1, <1>3, EvtqFacts
  <1>8. QED
    BY <1>1, <1>6, <1>7, EvtqFacts, ModSame, ZenonT(60)

LEMMA PendingStep == ASSUME EventInv, PendingInv, [EvtqNext]_evtqVars PROVE PendingInv'
  <1>1. /\ written \in Nat /\ handled \in Seq(Nat) /\ Len(handled) \in Nat /\ Len(handled) =< written
        /\ pending \in Nat /\ pending =< written
        /\ epc \in {"idle", "finish"} => Len(handled) >= pending
    BY EventFacts DEF PendingInv, DumpHandlesAll
  <1>2. CASE EventWritten
    <2>1. written' = written + 1 /\ UNCHANGED <<epc, handled, pending>>
      BY <1>2 DEF EventWritten, dumpVars
    <2>2. QED
      BY <1>1, <2>1 DEF PendingInv, DumpHandlesAll
  <1>3. CASE smmu_gerror_check
    <2>1. /\ epc = "idle" /\ UNCHANGED <<written, handled>>
          /\ \/ epc' = "idle" /\ pending' = pending
             \/ epc' = "drain" /\ pending' = written
      BY <1>3 DEF smmu_gerror_check
    <2>2. QED
      BY <1>1, <2>1 DEF PendingInv, DumpHandlesAll
  <1>4. CASE smmu_queue_read \/ Advance
    <2>1. epc' \in {"read", "drain"} /\ UNCHANGED <<written, pending>>
      BY <1>4, ZenonT(60) DEF smmu_queue_read, Advance
    <2>2. QED
      BY <1>1, <2>1 DEF PendingInv, DumpHandlesAll
  <1>5. CASE queue_sync_prod_in
    <2>1. epc' \in {"drain", "finish"} /\ UNCHANGED <<written, handled, pending>>
      BY <1>5 DEF queue_sync_prod_in
    <2>2. epc' = "finish" => Len(handled) = written
      BY <1>5, EmptiedAtEnd
    <2>3. QED
      BY <1>1, <2>1, <2>2 DEF PendingInv, DumpHandlesAll
  <1>6. CASE Finish
    <2>1. epc = "finish" /\ UNCHANGED <<written, handled, pending>>
      BY <1>6 DEF Finish
    <2>2. QED
      BY <1>1, <2>1 DEF PendingInv, DumpHandlesAll
  <1>7. CASE EventDropped \/ EventAborted \/ UNCHANGED evtqVars
    <2>1. UNCHANGED <<epc, written, handled, pending>>
      BY <1>7, ZenonT(60) DEF EventDropped, EventAborted, evtqVars, dumpVars
    <2>2. QED
      BY <1>1, <2>1 DEF PendingInv, DumpHandlesAll
  <1>8. QED
    BY <1>2, <1>3, <1>4, <1>5, <1>6, <1>7, ZenonT(60) DEF EvtqNext, Smmu, Dump

LEMMA FlagStep == ASSUME EventInv, FlagInv, [EvtqNext]_evtqVars PROVE FlagInv'
  <1>0. /\ eprod_reg \in Register /\ eprod \in Register /\ written \in Nat /\ raised \in Nat
        /\ eprod_reg.ovf \in BOOLEAN /\ eprod.ovf \in BOOLEAN
    BY EventFacts, ZenonT(60) DEF EventInv, EventRegs, FlagInv, Register
  <1>1. CASE EventWritten
    <2>1. /\ written' = written + 1 /\ raised' = raised + 1 /\ eprod_reg'.ovf = eprod_reg.ovf
          /\ UNCHANGED <<epc, econs_reg, eprod, dropped, reports, missed>>
      BY <1>0, <1>1 DEF EventWritten, dumpVars, Register
    <2>2. QED
      BY <1>0, <2>1 DEF FlagInv
  <1>2. CASE EventDropped
    <2>1. /\ raised' = raised + 1 /\ eprod_reg'.ovf = TRUE /\ dropped' = (dropped \/ epc = "idle")
          /\ UNCHANGED <<epc, written, econs_reg, eprod, reports, missed>>
      <3>1. econs_reg.ovf = FALSE
        BY DEF FlagInv
      <3>2. QED
        BY <1>0, <1>2, <3>1, ZenonT(60) DEF EventDropped, dumpVars, Register
    <2>2. QED
      BY <1>0, <2>1 DEF FlagInv
  <1>3. CASE EventAborted
    <2>1. /\ raised' = raised + 1
          /\ UNCHANGED <<epc, written, econs_reg, eprod_reg, eprod, dropped, reports, missed>>
      BY <1>3 DEF EventAborted, dumpVars
    <2>2. QED
      BY <1>0, <2>1 DEF FlagInv
  <1>4. CASE smmu_gerror_check \/ smmu_queue_read \/ UNCHANGED evtqVars
    <2>1. /\ epc' = "finish" => epc = "finish"
          /\ UNCHANGED <<raised, written, econs_reg, eprod_reg, eprod, dropped, reports, missed>>
      BY <1>4, ZenonT(60) DEF smmu_gerror_check, smmu_queue_read, evtqVars
    <2>2. QED
      BY <2>1 DEF FlagInv
  <1>5. CASE Advance
    <2>1. /\ epc' = "drain" /\ econs_reg'.ovf = FALSE
          /\ UNCHANGED <<raised, written, eprod_reg, eprod, dropped, reports, missed>>
      BY <1>5 DEF Advance
    <2>2. QED
      BY <2>1 DEF FlagInv
  <1>6. CASE queue_sync_prod_in
    <2>1. /\ eprod' = eprod_reg /\ dropped' = (dropped /\ ~Overflowed)
          /\ reports' = IF Overflowed THEN reports + 1 ELSE reports
          /\ UNCHANGED <<raised, written, econs_reg, eprod_reg, missed>>
      BY <1>6 DEF queue_sync_prod_in
    <2>2. CASE Overflowed
      <3>1. ~eprod.ovf /\ eprod_reg.ovf
        BY <1>0, <2>2 DEF Overflowed, FlagInv
      <3>2. reports' = 1 /\ eprod'.ovf /\ ~dropped'
        BY <2>1, <2>2, <3>1 DEF FlagInv
      <3>3. QED
        BY <1>0, <2>1, <3>1, <3>2, ZenonT(60) DEF FlagInv
    <2>3. CASE ~Overflowed
      <3>1. eprod_reg.ovf = eprod.ovf
        BY <2>3 DEF Overflowed
      <3>2. QED
        BY <1>0, <2>1, <2>3, <3>1, ZenonT(60) DEF FlagInv
    <2>4. QED
      BY <2>2, <2>3
  <1>7. CASE Finish
    <2>1. /\ epc = "finish" /\ epc' = "idle" /\ missed' = (missed \/ dropped) /\ dropped' = FALSE
          /\ UNCHANGED <<raised, written, econs_reg, eprod_reg, eprod, reports>>
      BY <1>7 DEF Finish
    <2>2. QED
      BY <2>1, ZenonT(60) DEF FlagInv
  <1>8. QED
    BY <1>1, <1>2, <1>3, <1>4, <1>5, <1>6, <1>7, ZenonT(60) DEF EvtqNext, Smmu, Dump

LEMMA DumpInvariance == EvtqSpec => [](PendingInv /\ FlagInv)
  <1>1. EvtqInit => PendingInv /\ FlagInv
    <2> SUFFICES ASSUME EvtqInit PROVE PendingInv /\ FlagInv
      OBVIOUS
    <2>1. Len(handled) = 0 /\ pending = 0 /\ written = 0 /\ raised = 0
      BY DEF EvtqInit
    <2>2. eprod_reg.ovf = FALSE /\ econs_reg.ovf = FALSE /\ eprod.ovf = FALSE
      BY DEF EvtqInit, Zero
    <2>3. PendingInv
      BY <2>1 DEF PendingInv, DumpHandlesAll
    <2>4. epc = "idle" /\ dropped = FALSE /\ missed = FALSE /\ reports = 0
      BY DEF EvtqInit
    <2>5. FlagInv
      <3>1. raised \in Nat /\ written \in Nat /\ raised >= written
        BY <2>1
      <3>2. ~eprod_reg.ovf /\ ~eprod.ovf /\ ~dropped /\ ~missed
        BY <2>2, <2>4
      <3>3. reports = IF eprod.ovf THEN 1 ELSE 0
        BY <2>4, <3>2
      <3>4. QED
        BY <2>2, <2>4, <3>1, <3>2, <3>3, Zenon DEF FlagInv
    <2>6. QED
      BY <2>3, <2>5
  <1>2. EventInv /\ PendingInv /\ FlagInv /\ [EvtqNext]_evtqVars => PendingInv' /\ FlagInv'
    BY PendingStep, FlagStep
  <1>3. QED
    BY <1>1, <1>2, EventInvariance, PTL DEF EvtqSpec

(* Whatever the size of the queue and the number of events, a dump that     *)
(* ends has handled all it found when it began, the first overflow between  *)
(* two dumps is reported by the next one, and none is made up               *)
(* (val_smmu_dump_eventq).                                                  *)
THEOREM DumpIsAlwaysRight == EvtqSpec => []DumpIsRight
  <1>1. PendingInv /\ FlagInv => DumpIsRight
    <2> SUFFICES ASSUME PendingInv, FlagInv PROVE FirstOverflowReported /\ NoFalseReport
      BY DEF DumpIsRight, PendingInv
    <2>1. FirstOverflowReported
      BY DEF FlagInv, FirstOverflowReported
    <2>2. written \in Nat /\ raised \in Nat
      BY DEF FlagInv
    <2>3. NoFalseReport
      BY <2>2 DEF FlagInv, NoFalseReport
    <2>4. QED
      BY <2>1, <2>3
  <1>2. QED
    BY <1>1, DumpInvariance, PTL

(* All the dumps of a run together report at most one overflow, as no write *)
(* of EVENTQ_CONS acknowledges it (the flag that smmu_evtq_thread sets in   *)
(* its copy is masked off before the copy is written).                      *)
THEOREM OverflowReportedOnce == EvtqSpec => [](reports \in {0, 1})
  <1>1. FlagInv => reports \in {0, 1}
    BY DEF FlagInv
  <1>2. QED
    BY <1>1, DumpInvariance, PTL

=============================================================================
