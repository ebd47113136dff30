--------------------------- MODULE AtaDataProofs ----------------------------
(***************************************************************************)
(* The data of the ATA driver: for every channel, every LBA and every      *)
(* count, a read that returns 0 filled the buffer with the sectors asked   *)
(* for, and a unit stores a sector only where the write in progress is.    *)
(*                                                                         *)
(* The argument follows a sector from its LBA through the registers to the *)
(* command of the unit: the digits of the LBA, the register writes that    *)
(* carry them, what the registers hold after each of them, the command     *)
(* that the unit makes of it, and the buffer.  The last section puts it    *)
(* together: the driver implements SectorDisk.                             *)
(***************************************************************************)
EXTENDS AtaProofs

-----------------------------------------------------------------------------
(* The digits of an LBA.                                                   *)

\* A number, a digit taken off it, and the rest
LEMMA TakeDigit ==
    ASSUME NEW n \in Nat
    PROVE  /\ n \div RADIX \in Nat /\ n % RADIX \in 0..(RADIX - 1)
           /\ n = ((n \div RADIX) * RADIX) + (n % RADIX)
BY AtaAssumption

\* Dividing by a and then by b
LEMMA DivDiv ==
    ASSUME NEW n \in Nat, NEW a \in Nat \ {0}, NEW b \in Nat \ {0}
    PROVE  n \div (a * b) = (n \div a) \div b
OBVIOUS

\* Digit i is the rest of what is left of n after i shifts.
LEMMA Shift ==
    ASSUME NEW n \in Nat, NEW i \in 0..5
    PROVE  /\ Place(i + 1) = Place(i) * RADIX
           /\ n \div Place(i) \in Nat
           /\ n \div Place(i + 1) = (n \div Place(i)) \div RADIX
           /\ Digit(n, i) \in 0..(RADIX - 1)
           /\ n \div Place(i) = ((n \div Place(i + 1)) * RADIX) + Digit(n, i)
<1>1. RADIX \in Nat \ {0} /\ Place(i) \in Nat \ {0}
  BY AtaAssumption, PlaceType
<1>2. Place(i + 1) = Place(i) * RADIX
  <2>1. i = 0 \/ i = 1 \/ i = 2 \/ i = 3 \/ i = 4 \/ i = 5
    OBVIOUS
  <2> QED BY <1>1, <2>1, PlaceValues
<1>3. n \div Place(i) \in Nat
  BY <1>1
<1>4. n \div Place(i + 1) = (n \div Place(i)) \div RADIX
  BY <1>1, <1>2, DivDiv
<1> QED BY <1>2, <1>3, <1>4, TakeDigit DEF Digit

LEMMA LeadingZero ==
    ASSUME NEW n \in Nat, NEW a \in Nat \ {0}, n < a
    PROVE n \div a = 0
OBVIOUS

\* A number from three digits and what is left after three shifts
LEMMA Horner ==
    ASSUME NEW n \in Nat, NEW R \in Nat, NEW d0 \in Nat, NEW d1 \in Nat, NEW d2 \in Nat,
           NEW q1 \in Nat, NEW q2 \in Nat, NEW q3 \in Nat, 
           n = q1 * R + d0, q1 = q2 * R + d1, q2 = q3 * R + d2
    PROVE n = d0 + d1 * R + d2 * (R * R) + q3 * (R * R * R)
OBVIOUS

LEMMA Digits3 ==
    ASSUME NEW n \in Nat
    PROVE  n = Digit(n, 0) + Digit(n, 1) * Place(1) + Digit(n, 2) * Place(2)
                 + (n \div Place(3)) * Place(3)
<1>1. RADIX \in Nat
  BY AtaAssumption
<1>2. n \div Place(0) = n
  BY PlaceValues
<1>3. n \div Place(0) = (n \div Place(1)) * RADIX + Digit(n, 0)
      /\ n \div Place(1) \in Nat /\ Digit(n, 0) \in Nat
  BY <1>1, Shift
<1>4. n \div Place(1) = (n \div Place(2)) * RADIX + Digit(n, 1)
      /\ n \div Place(2) \in Nat /\ Digit(n, 1) \in Nat
  BY <1>1, Shift
<1>5. n \div Place(2) = (n \div Place(3)) * RADIX + Digit(n, 2)
      /\ n \div Place(3) \in Nat /\ Digit(n, 2) \in Nat
  BY <1>1, Shift
<1> QED BY <1>1, <1>2, <1>3, <1>4, <1>5, Horner, PlaceValues

\* 28 bits: the fourth digit is a nibble, and nothing is left after it.
LEMMA Named28 ==
    ASSUME NEW n \in Nat, Named(FALSE, n)
    PROVE  n = Digit(n, 0) + Digit(n, 1) * Place(1) + Digit(n, 2) * Place(2)
                 + (Digit(n, 3) % NIBBLE) * Place(3)
<1> DEFINE q == n \div Place(3)
<1>1. /\ Place(3) \in Nat \ {0} /\ NIBBLE \in Nat \ {0} /\ NIBBLE <= RADIX
      /\ RADIX \in Nat
  BY PlaceType, AtaAssumption
<1>2. q \in Nat /\ q < NIBBLE
  <2>1. n < NIBBLE * Place(3)
    BY DEF Named
  <2>2. \A p, m \in Nat \ {0} : n < m * p => n \div p < m /\ n \div p \in Nat
    OBVIOUS
  <2> QED BY <1>1, <2>1, <2>2
<1>3. Digit(n, 3) = q % RADIX
  BY DEF Digit
<1> HIDE DEF q
<1>4. Digit(n, 3) = q /\ Digit(n, 3) % NIBBLE = q
  BY <1>1, <1>2, <1>3
<1> QED BY <1>4, Digits3 DEF q

\* 48 bits: the fourth and the sixth digit, which change places, are equal.
LEMMA Named48 ==
    ASSUME NEW n \in Nat, Named(TRUE, n)
    PROVE  n = Digit(n, 0) + Digit(n, 1) * Place(1) + Digit(n, 2) * Place(2)
                 + (Digit(n, 5) * Place(3) + Digit(n, 4) * Place(4)
                    + Digit(n, 3) * Place(5))
<1> DEFINE R == RADIX
           P == Place(3)
           q == n \div P
<1>1. R \in Nat /\ P \in Nat \ {0} /\ Place(6) \in Nat \ {0}
  BY PlaceType, AtaAssumption
<1>2. /\ q = (n \div Place(4)) * R + Digit(n, 3)
      /\ n \div Place(4) = (n \div Place(5)) * R + Digit(n, 4)
      /\ n \div Place(5) = (n \div Place(6)) * R + Digit(n, 5)
      /\ n \div Place(4) \in Nat /\ n \div Place(5) \in Nat /\ q \in Nat
      /\ Digit(n, 3) \in Nat /\ Digit(n, 4) \in Nat /\ Digit(n, 5) \in Nat
  <2>1. /\ n \div Place(3) = ((n \div Place(4)) * RADIX) + Digit(n, 3)
        /\ n \div Place(3) \in Nat /\ Digit(n, 3) \in Nat
    BY AtaAssumption, Shift
  <2>2. /\ n \div Place(4) = ((n \div Place(5)) * RADIX) + Digit(n, 4)
        /\ n \div Place(4) \in Nat /\ Digit(n, 4) \in Nat
    BY AtaAssumption, Shift
  <2>3. /\ n \div Place(5) = ((n \div Place(6)) * RADIX) + Digit(n, 5)
        /\ n \div Place(5) \in Nat /\ Digit(n, 5) \in Nat
    BY AtaAssumption, Shift
  <2> QED BY <2>1, <2>2, <2>3
<1>3. n \div Place(6) = 0
  BY <1>1, LeadingZero DEF Named
<1>4. n \div Place(5) = Digit(n, 5)
  BY <1>1, <1>2, <1>3
<1>5. q = (Digit(n, 5) * R + Digit(n, 4)) * R + Digit(n, 3)
  BY <1>2, <1>4
<1>6. Place(4) = P * R /\ Place(5) = P * R * R
  BY PlaceValues, <1>1
<1>7. \A a, b, c \in Nat :
        ((a * R + b) * R + c) * P = c * P + b * (P * R) + a * (P * R * R)
  BY <1>1
<1>8. q * P = Digit(n, 3) * P + Digit(n, 4) * Place(4) + Digit(n, 5) * Place(5)
  BY <1>2, <1>5, <1>6, <1>7
<1>9. Digit(n, 3) = Digit(n, 5)
  BY DEF Named
<1>10. n = Digit(n, 0) + Digit(n, 1) * Place(1) + Digit(n, 2) * Place(2) + q * P
  BY Digits3
<1> QED BY <1>8, <1>9, <1>10

-----------------------------------------------------------------------------
(* The register writes, one by one, and what the registers hold after them. *)

LEMMA Writes48 ==
    ASSUME NEW op, NEW n
    PROVE  LET w == SectorWrites(op, n, TRUE)
           IN  /\ Len(w) = 12
               /\ w[1] = Out("features", 0) /\ w[2] = Out("seccount", 0)
               /\ w[3] = Out("high", Digit(n, 3)) /\ w[4] = Out("mid", Digit(n, 4))
               /\ w[5] = Out("low", Digit(n, 5)) /\ w[6] = Out("device", Device(Slave, n))
               /\ w[7] = Out("features", 0) /\ w[8] = Out("seccount", 1)
               /\ w[9] = Out("low", Digit(n, 0)) /\ w[10] = Out("mid", Digit(n, 1))
               /\ w[11] = Out("high", Digit(n, 2))
               /\ w[12] = Out("command", [op |-> op, lba48 |-> TRUE])
<1> DEFINE y == <<Out("features", 0), Out("seccount", 0), Out("high", Digit(n, 3)),
                  Out("mid", Digit(n, 4)), Out("low", Digit(n, 5))>>
           d == <<Out("device", Device(Slave, n))>>
           b == <<Out("features", 0)>>
           x == <<Out("seccount", 1), Out("low", Digit(n, 0)),
                  Out("mid", Digit(n, 1)), Out("high", Digit(n, 2))>>
           c == <<Out("command", [op |-> op, lba48 |-> TRUE])>>
           S == {y[i] : i \in 1..5} \union {d[1]} \union {x[i] : i \in 1..4} \union {c[1]}
<1>1. /\ y \in Seq(S) /\ d \in Seq(S) /\ b \in Seq(S) /\ x \in Seq(S) /\ c \in Seq(S)
      /\ Len(y) = 5 /\ Len(d) = 1 /\ Len(b) = 1 /\ Len(x) = 4 /\ Len(c) = 1
  OBVIOUS
<1> HIDE DEF y, d, b, x, c, S
<1> DEFINE yd == y \o d
<1>2. /\ yd \in Seq(S) /\ Len(yd) = 6
      /\ \A i \in 1..5 : yd[i] = y[i]
      /\ \A i \in 6..6 : yd[i] = d[i - 5]
  <2>1. /\ yd \in Seq(S) /\ Len(yd) = Len(y) + Len(d)
        /\ \A i \in 1..(Len(y) + Len(d)) :
              yd[i] = IF i <= Len(y) THEN y[i] ELSE d[i - Len(y)]
    BY <1>1, ConcatProperties
  <2> HIDE DEF yd
  <2> QED BY <1>1, <2>1
<1> HIDE DEF yd
<1> DEFINE ydb == yd \o b
<1>3. /\ ydb \in Seq(S) /\ Len(ydb) = 7
      /\ \A i \in 1..6 : ydb[i] = yd[i]
      /\ \A i \in 7..7 : ydb[i] = b[i - 6]
  <2>1. /\ ydb \in Seq(S) /\ Len(ydb) = Len(yd) + Len(b)
        /\ \A i \in 1..(Len(yd) + Len(b)) :
              ydb[i] = IF i <= Len(yd) THEN yd[i] ELSE b[i - Len(yd)]
    BY <1>1, <1>2, ConcatProperties
  <2> HIDE DEF ydb
  <2> QED BY <1>1, <1>2, <2>1
<1> HIDE DEF ydb
<1> DEFINE ydbx == ydb \o x
<1>4. /\ ydbx \in Seq(S) /\ Len(ydbx) = 11
      /\ \A i \in 1..7 : ydbx[i] = ydb[i]
      /\ \A i \in 8..11 : ydbx[i] = x[i - 7]
  <2>1. /\ ydbx \in Seq(S) /\ Len(ydbx) = Len(ydb) + Len(x)
        /\ \A i \in 1..(Len(ydb) + Len(x)) :
              ydbx[i] = IF i <= Len(ydb) THEN ydb[i] ELSE x[i - Len(ydb)]
    BY <1>1, <1>3, ConcatProperties
  <2> HIDE DEF ydbx
  <2> QED BY <1>1, <1>3, <2>1
<1> HIDE DEF ydbx
<1> DEFINE all == ydbx \o c
<1>5. /\ all \in Seq(S) /\ Len(all) = 12
      /\ \A i \in 1..11 : all[i] = ydbx[i]
      /\ \A i \in 12..12 : all[i] = c[i - 11]
  <2>1. /\ all \in Seq(S) /\ Len(all) = Len(ydbx) + Len(c)
        /\ \A i \in 1..(Len(ydbx) + Len(c)) :
              all[i] = IF i <= Len(ydbx) THEN ydbx[i] ELSE c[i - Len(ydbx)]
    BY ZenonT(40), <1>1, <1>4, ConcatProperties
  <2> HIDE DEF all
  <2> QED BY <1>1, <1>4, <2>1
<1> HIDE DEF all
<1>6. /\ all[1] = y[1] /\ all[2] = y[2] /\ all[3] = y[3] /\ all[4] = y[4]
      /\ all[5] = y[5] /\ all[6] = d[1] /\ all[7] = b[1] /\ all[8] = x[1]
      /\ all[9] = x[2] /\ all[10] = x[3] /\ all[11] = x[4] /\ all[12] = c[1]
  BY <1>2, <1>3, <1>4, <1>5
<1>7. SectorWrites(op, n, TRUE) = all
  BY DEF SectorWrites, SelectDrive, yd, ydb, ydbx, all, y, d, b, x, c
<1> QED BY <1>5, <1>6, <1>7 DEF y, d, b, x, c

LEMMA Writes28 ==
    ASSUME NEW op, NEW n
    PROVE  LET w == SectorWrites(op, n, FALSE)
           IN  /\ Len(w) = 6
               /\ w[1] = Out("device", Device(Slave, n)) /\ w[2] = Out("seccount", 1)
               /\ w[3] = Out("low", Digit(n, 0)) /\ w[4] = Out("mid", Digit(n, 1))
               /\ w[5] = Out("high", Digit(n, 2))
               /\ w[6] = Out("command", [op |-> op, lba48 |-> FALSE])
<1> DEFINE d == <<Out("device", Device(Slave, n))>>
           x == <<Out("seccount", 1), Out("low", Digit(n, 0)),
                  Out("mid", Digit(n, 1)), Out("high", Digit(n, 2))>>
           c == <<Out("command", [op |-> op, lba48 |-> FALSE])>>
           S == {d[1]} \union {x[i] : i \in 1..4} \union {c[1]}
<1>1. /\ d \in Seq(S) /\ x \in Seq(S) /\ c \in Seq(S)
      /\ Len(d) = 1 /\ Len(x) = 4 /\ Len(c) = 1
  OBVIOUS
<1>2. SectorWrites(op, n, FALSE) = (((<<>> \o d) \o <<>>) \o x) \o c
  BY DEF SectorWrites, SelectDrive
<1> HIDE DEF d, x, c, S
<1>3. (<<>> \o d) \o <<>> = d
  BY <1>1, ConcatEmptySeq
<1> DEFINE dx == d \o x
<1>4. /\ dx \in Seq(S) /\ Len(dx) = 5
      /\ \A i \in 1..1 : dx[i] = d[i]
      /\ \A i \in 2..5 : dx[i] = x[i - 1]
  <2>1. /\ dx \in Seq(S) /\ Len(dx) = Len(d) + Len(x)
        /\ \A i \in 1..(Len(d) + Len(x)) :
              dx[i] = IF i <= Len(d) THEN d[i] ELSE x[i - Len(d)]
    BY <1>1, ConcatProperties
  <2> HIDE DEF dx
  <2> QED BY <1>1, <2>1
<1> HIDE DEF dx
<1> DEFINE all == dx \o c
<1>5. /\ all \in Seq(S) /\ Len(all) = 6
      /\ \A i \in 1..5 : all[i] = dx[i]
      /\ \A i \in 6..6 : all[i] = c[i - 5]
  <2>1. /\ all \in Seq(S) /\ Len(all) = Len(dx) + Len(c)
        /\ \A i \in 1..(Len(dx) + Len(c)) :
              all[i] = IF i <= Len(dx) THEN dx[i] ELSE c[i - Len(dx)]
    BY <1>1, <1>4, ConcatProperties
  <2> HIDE DEF all
  <2> QED BY <1>1, <1>4, <2>1
<1> HIDE DEF all
<1>6. /\ all[1] = d[1] /\ all[2] = x[1] /\ all[3] = x[2] /\ all[4] = x[3]
      /\ all[5] = x[4] /\ all[6] = c[1]
  BY <1>4, <1>5
<1>7. SectorWrites(op, n, FALSE) = all
  BY <1>2, <1>3 DEF dx, all
<1> QED BY <1>5, <1>6, <1>7 DEF d, x, c

\* Registers rg hold what the first k of writes w leave in them: the last value
\* of each register, and the one before it.
Recorded(rg, w, k) ==
    \A j \in 1..k :
        (\A i \in (j + 1)..k : w[i].reg # w[j].reg)
        => /\ rg[w[j].reg].now = w[j].val
           /\ \A h \in 1..(j - 1) :
                 w[h].reg = w[j].reg /\ (\A i \in (h + 1)..(j - 1) : w[i].reg # w[j].reg)
                 => rg[w[j].reg].before = w[h].val

Names == {"features", "seccount", "low", "mid", "high", "device"}

LEMMA RecordStep ==
    ASSUME NEW w, NEW k \in Nat, NEW rg, NEW rh, DOMAIN rg = Names, Recorded(rg, w, k),
           \A j \in 1..(k + 1) : w[j].reg \in Names,
           rh = [rg EXCEPT ![w[k + 1].reg] =
                    [now |-> w[k + 1].val, before |-> rg[w[k + 1].reg].now]]
    PROVE  DOMAIN rh = Names /\ Recorded(rh, w, k + 1)
<1> DEFINE r == w[k + 1].reg
<1>1. /\ DOMAIN rh = Names
      /\ rh[r].now = w[k + 1].val /\ rh[r].before = rg[r].now
      /\ \A s \in Names : s # r => rh[s] = rg[s]
  <2>1. r \in Names
    OBVIOUS
  <2> QED BY <2>1
<1>2. ASSUME NEW j \in 1..k, \A i \in (j + 1)..(k + 1) : w[i].reg # w[j].reg
      PROVE  /\ rh[w[j].reg].now = w[j].val
             /\ \A h \in 1..(j - 1) :
                   w[h].reg = w[j].reg
                   /\ (\A i \in (h + 1)..(j - 1) : w[i].reg # w[j].reg)
                   => rh[w[j].reg].before = w[h].val
  <2>1. \A i \in (j + 1)..k : w[i].reg # w[j].reg
    BY <1>2
  <2>2. w[j].reg # r /\ w[j].reg \in Names
    <3>1. k + 1 \in (j + 1)..(k + 1) /\ j \in 1..(k + 1)
      OBVIOUS
    <3> QED BY <1>2, <3>1
  <2>3. rh[w[j].reg] = rg[w[j].reg]
    BY <1>1, <2>2
  <2> QED BY <2>1, <2>3 DEF Recorded
<1>3. ASSUME NEW h \in 1..k, w[h].reg = r, \A i \in (h + 1)..k : w[i].reg # r
      PROVE  rh[r].before = w[h].val
  <2>1. rg[w[h].reg].now = w[h].val
    BY <1>3 DEF Recorded
  <2> QED BY <1>1, <1>3, <2>1
<1>4. ASSUME NEW j \in 1..(k + 1), \A i \in (j + 1)..(k + 1) : w[i].reg # w[j].reg
      PROVE  /\ rh[w[j].reg].now = w[j].val
             /\ \A h \in 1..(j - 1) :
                   w[h].reg = w[j].reg
                   /\ (\A i \in (h + 1)..(j - 1) : w[i].reg # w[j].reg)
                   => rh[w[j].reg].before = w[h].val
  <2>1. CASE j \in 1..k
    BY <1>2, <1>4, <2>1
  <2>2. CASE j = k + 1
    <3>1. j - 1 = k /\ w[j].reg = r
      BY <2>2
    <3> HIDE DEF r
    <3> QED BY <1>1, <1>3, <2>2, <3>1
  <2> QED BY <2>1, <2>2
<1> QED BY <1>1, <1>4 DEF Recorded

\* What the registers say when only the command is left to write
LEMMA AddressedIsNamed ==
    ASSUME NEW op \in {"read", "write"}, NEW n \in Nat, NEW lba48 \in BOOLEAN,
           LET w == SectorWrites(op, n, lba48) IN Recorded(regs, w, Len(w) - 1)
    PROVE  /\ selected = Slave
           /\ Named(lba48, n) => Addressed(lba48) = n
<1> DEFINE w == SectorWrites(op, n, lba48)
<1>1. CASE lba48 = TRUE
  <2> DEFINE v == SectorWrites(op, n, TRUE)
  <2>0. w = v /\ Recorded(regs, w, Len(w) - 1)
    BY <1>1
  <2>1. Len(v) = 12 /\ Recorded(regs, v, 11)
    <3>1. Len(v) = 12
      BY Writes48
    <3>2. 12 - 1 = 11
      OBVIOUS
    <3> HIDE DEF v, w
    <3> QED BY <2>0, <3>1, <3>2
  <2>2. /\ v[1].reg = "features" /\ v[2].reg = "seccount" /\ v[3].reg = "high"
        /\ v[4].reg = "mid" /\ v[5].reg = "low" /\ v[6].reg = "device"
        /\ v[7].reg = "features" /\ v[8].reg = "seccount" /\ v[9].reg = "low"
        /\ v[10].reg = "mid" /\ v[11].reg = "high"
        /\ v[3].val = Digit(n, 3) /\ v[4].val = Digit(n, 4) /\ v[5].val = Digit(n, 5)
        /\ v[6].val = Device(Slave, n) /\ v[9].val = Digit(n, 0)
        /\ v[10].val = Digit(n, 1) /\ v[11].val = Digit(n, 2)
    <3>1. /\ v[1] = Out("features", 0) /\ v[2] = Out("seccount", 0)
          /\ v[3] = Out("high", Digit(n, 3)) /\ v[4] = Out("mid", Digit(n, 4))
          /\ v[5] = Out("low", Digit(n, 5)) /\ v[6] = Out("device", Device(Slave, n))
          /\ v[7] = Out("features", 0) /\ v[8] = Out("seccount", 1)
          /\ v[9] = Out("low", Digit(n, 0)) /\ v[10] = Out("mid", Digit(n, 1))
          /\ v[11] = Out("high", Digit(n, 2))
      BY ZenonT(40), Writes48
    <3>2. \A r, x : Out(r, x).reg = r /\ Out(r, x).val = x
      BY DEF Out
    <3> HIDE DEF v
    <3> QED BY <3>1, <3>2
  <2> HIDE DEF v
  <2>3. regs["device"].now = Device(Slave, n)
    BY <2>1, <2>2 DEF Recorded
  <2>4. regs["low"].now = Digit(n, 0) /\ regs["low"].before = Digit(n, 5)
    BY <2>1, <2>2 DEF Recorded
  <2>5. regs["mid"].now = Digit(n, 1) /\ regs["mid"].before = Digit(n, 4)
    BY <2>1, <2>2 DEF Recorded
  <2>6. regs["high"].now = Digit(n, 2) /\ regs["high"].before = Digit(n, 3)
    BY <2>1, <2>2 DEF Recorded
  <2>7. selected = Slave
    BY <2>3 DEF selected, At, Device
  <2>8. Addressed(TRUE) = Digit(n, 0) + Digit(n, 1) * Place(1) + Digit(n, 2) * Place(2)
                          + (Digit(n, 5) * Place(3) + Digit(n, 4) * Place(4)
                             + Digit(n, 3) * Place(5))
    BY <2>4, <2>5, <2>6 DEF Addressed, At
  <2> QED BY <1>1, <2>7, <2>8, Named48
<1>2. CASE lba48 = FALSE
  <2> DEFINE v == SectorWrites(op, n, FALSE)
  <2>0. w = v /\ Recorded(regs, w, Len(w) - 1)
    BY <1>2
  <2>1. Len(v) = 6 /\ Recorded(regs, v, 5)
    <3>1. Len(v) = 6
      BY Writes28
    <3>2. 6 - 1 = 5
      OBVIOUS
    <3> HIDE DEF v, w
    <3> QED BY <2>0, <3>1, <3>2
  <2>2. /\ v[1].reg = "device" /\ v[2].reg = "seccount" /\ v[3].reg = "low"
        /\ v[4].reg = "mid" /\ v[5].reg = "high"
        /\ v[1].val = Device(Slave, n) /\ v[3].val = Digit(n, 0)
        /\ v[4].val = Digit(n, 1) /\ v[5].val = Digit(n, 2)
    <3>1. /\ v[1] = Out("device", Device(Slave, n)) /\ v[2] = Out("seccount", 1)
          /\ v[3] = Out("low", Digit(n, 0)) /\ v[4] = Out("mid", Digit(n, 1))
          /\ v[5] = Out("high", Digit(n, 2))
      BY Writes28
    <3>2. \A r, x : Out(r, x).reg = r /\ Out(r, x).val = x
      BY DEF Out
    <3> HIDE DEF v
    <3> QED BY <3>1, <3>2
  <2> HIDE DEF v
  <2>3. regs["device"].now = Device(Slave, n)
    BY <2>1, <2>2 DEF Recorded
  <2>4. /\ regs["low"].now = Digit(n, 0) /\ regs["mid"].now = Digit(n, 1)
        /\ regs["high"].now = Digit(n, 2)
    BY <2>1, <2>2 DEF Recorded
  <2>5. selected = Slave
    BY <2>3 DEF selected, At, Device
  <2>6. Addressed(FALSE) = Digit(n, 0) + Digit(n, 1) * Place(1) + Digit(n, 2) * Place(2)
                           + (Digit(n, 3) % NIBBLE) * Place(3)
    BY <2>3, <2>4 DEF Addressed, At, Device
  <2> QED BY <1>2, <2>5, <2>6, Named28
<1> QED BY <1>1, <1>2

-----------------------------------------------------------------------------
(* The sector in progress.                                                 *)

Current == req.lba + sector
Wide == disks[req.disk].lba48
CurrentWrites == SectorWrites(req.op, Current, Wide)
Sent == Len(CurrentWrites) - Len(todo)

\* The rest of the writes is to be done, and the registers hold the others.
Sending ==
    /\ Sent >= 0
    /\ \A i \in 1..Len(todo) : todo[i] = CurrentWrites[Sent + i]
    /\ Recorded(regs, CurrentWrites, Sent)

\* The buffer holds the sectors that were read, in order.
Filled ==
    /\ Len(buffer) = sector /\ sector <= req.count
    /\ \A i \in 1..sector :
          LET l == req.lba + i - 1
          IN  Reachable(req.disk, l)
              => buffer[i] = [unit |-> Slave, lba |-> l, new |-> l \in written[Slave]]

\* Until a wait gives up on a unit at work: the registers, the command of the
\* slave and the buffer follow the sector in progress.
DataInv ==
    (~overrun /\ req.op # "identify") =>
        /\ pc \in {"out", "waitdrq", "data", "flush", "settle"} => sector < req.count
        /\ pc = "out" => Sending
        /\ pc \in {"waitdrq", "data", "flush", "settle"} => selected = Slave
        /\ Named(Wide, Current) =>
              /\ pc \in {"waitdrq", "data"} /\ phase[Slave] # "idle"
                    => cmd[Slave].lba = Current
              /\ pc \in {"flush", "settle"} /\ phase[Slave] = "storing"
                    => cmd[Slave].lba = Current
        /\ req.op = "read" /\ (pc = "next" => result = 0) => Filled
        /\ req.op = "read" /\ pc = "next" /\ result = 0 => sector = req.count

\* The shape of the registers and of the buffer
ShapeInv == DOMAIN regs = Names /\ \E S : buffer \in Seq(S)

LEMMA InitData == Init => ShapeInv /\ DataInv
<1> SUFFICES ASSUME Init PROVE ShapeInv /\ DataInv
  OBVIOUS
<1>1. DOMAIN regs = Names
  BY DEF Init, Names
<1>2. buffer \in Seq({})
  BY DEF Init
<1>3. req.op = "identify"
  BY DEF Init
<1> QED BY <1>1, <1>2, <1>3 DEF ShapeInv, DataInv

LEMMA ShapeStep == TypeInv /\ ShapeInv /\ [Next]_ataVars => ShapeInv'
<1> SUFFICES ASSUME TypeInv, ShapeInv, [Next]_ataVars PROVE ShapeInv'
  OBVIOUS
<1>1. DOMAIN regs' = Names
  <2>1. CASE OutB
    <3>1. UNCHANGED regs \/ \E r, x : Accept(r, x)
      BY <2>1 DEF OutB, CommandWrite, RegisterWrite
    <3> QED BY <3>1 DEF Accept, ShapeInv
  <2>2. CASE ~OutB
    <3>1. UNCHANGED regs
      BY <2>2 DEF Next, DriverStep, Caller, DriveStep, Done, Probe, BeginSector, Presence,
            WaitReady, Settle, WaitDrq, ErrCheck, Register, ReadSector, WriteSector, Flush,
            CommandWrite, Request, ataVars
    <3> QED BY <3>1 DEF ShapeInv
  <2> QED BY <2>1, <2>2
<1>2. PICK S : buffer \in Seq(S)
  BY DEF ShapeInv
<1>3. UNCHANGED buffer \/ buffer' = <<>> \/ buffer' = Append(buffer, DataIn)
  <2>1. CASE ReadSector \/ Caller
    BY <2>1 DEF ReadSector, Caller, Request
  <2>2. CASE Presence \/ WaitReady \/ Settle \/ WaitDrq \/ ErrCheck \/ Register
    BY <2>2 DEF Presence, WaitReady, Settle, WaitDrq, ErrCheck, Register, PollAgain,
                transfer
  <2>3. CASE \/ Probe \/ BeginSector \/ OutB \/ WriteSector \/ Flush \/ DriveStep
             \/ UNCHANGED ataVars
    BY <2>3 DEF Probe, BeginSector, OutB, WriteSector, Flush, DriveStep, transfer, ataVars
  <2> QED BY <2>1, <2>2, <2>3 DEF Next, DriverStep, Done
<1> DEFINE T == S \union {DataIn}
<1>4. buffer' \in Seq(T)
  <2>1. S \subseteq T /\ DataIn \in T
    OBVIOUS
  <2> HIDE DEF T
  <2>2. buffer \in Seq(T) /\ <<>> \in Seq(T)
    BY <1>2, <2>1, SeqMonotonic
  <2>3. Append(buffer, DataIn) \in Seq(T)
    BY <2>1, <2>2, AppendProperties
  <2> QED BY <1>3, <2>2, <2>3
<1> QED BY <1>1, <1>4 DEF ShapeInv

LEMMA RequestTypes ==
    ASSUME TypeInv, req.op # "identify"
    PROVE  /\ req.op \in {"read", "write"} /\ Current \in Nat /\ Wide \in BOOLEAN
           /\ req.lba \in Nat /\ req.count \in Nat /\ sector \in Nat /\ drive = 2
<1>1. req \in [op : Ops, disk : Nat, lba : Nat, count : Nat] /\ sector \in Nat
      /\ disks \in Seq(DiskType) /\ req.disk \in 1..Len(disks)
      /\ drive \in 0..2 /\ ~ (drive < 2)
  BY DEF TypeInv, Flow
<1>2. disks[req.disk] \in DiskType
  BY <1>1
<1> QED BY <1>1, <1>2 DEF Ops, DiskType, Current, Wide

LEMMA LastWrite ==
    ASSUME NEW op, NEW n, NEW lba48 \in BOOLEAN
    PROVE  LET w == SectorWrites(op, n, lba48)
           IN  /\ Len(w) \in Nat /\ Len(w) > 0
               /\ w[Len(w)].val.lba48 = lba48
<1>1. ASSUME NEW b \in BOOLEAN
      PROVE  Out("command", [op |-> op, lba48 |-> b]).val.lba48 = b
  BY DEF Out
<1>2. CASE lba48 = TRUE
  <2> DEFINE w == SectorWrites(op, n, TRUE)
  <2>1. Len(w) = 12 /\ w[12] = Out("command", [op |-> op, lba48 |-> TRUE])
    BY Writes48
  <2>2. Out("command", [op |-> op, lba48 |-> TRUE]).val.lba48 = TRUE
    BY <1>1
  <2> HIDE DEF w
  <2>3. Len(w) \in Nat /\ Len(w) > 0 /\ w[Len(w)].val.lba48 = TRUE
    BY <2>1, <2>2
  <2> QED BY <1>2, <2>3 DEF w
<1>3. CASE lba48 = FALSE
  <2> DEFINE w == SectorWrites(op, n, FALSE)
  <2>1. Len(w) = 6 /\ w[6] = Out("command", [op |-> op, lba48 |-> FALSE])
    BY Writes28
  <2>2. Out("command", [op |-> op, lba48 |-> FALSE]).val.lba48 = FALSE
    BY <1>1
  <2> HIDE DEF w
  <2>3. Len(w) \in Nat /\ Len(w) > 0 /\ w[Len(w)].val.lba48 = FALSE
    BY <2>1, <2>2
  <2> QED BY <1>3, <2>3 DEF w
<1> QED BY <1>2, <1>3

\* What follows from the sector in progress stays as it is with it.
LEMMA SameSector ==
    ASSUME UNCHANGED <<req, disks, sector>>
    PROVE  UNCHANGED <<Current, Wide, CurrentWrites>>
           /\ \A d, l : Reachable(d, l)' = Reachable(d, l)
BY DEF Current, Wide, CurrentWrites, Reachable

\* A register write other than the command
LEMMA SendingStep ==
    ASSUME TypeInv, PhaseInv, ShapeInv, Sending, ~overrun, OutB, req.op # "identify",
           Head(todo).reg # "command"
    PROVE  Sending'
<1> DEFINE w == CurrentWrites
           k == Sent
           v == Head(todo)
<1>1. /\ Program(todo, req.op, Slave) /\ pc = "out" /\ phase[selected] = "idle"
      /\ req.op \in {"read", "write"}
  BY DEF OutB, TypeInv, Flow, Target, PhaseInv, Ops
<1>2. /\ todo \in Seq(Output) /\ Len(todo) \in Nat /\ Len(todo) > 0
      /\ v = todo[1] /\ Tail(todo) \in Seq(Output) /\ Len(Tail(todo)) = Len(todo) - 1
      /\ \A i \in 1..Len(Tail(todo)) : Tail(todo)[i] = todo[i + 1]
  <2>1. todo \in Seq(Output) /\ Len(todo) > 0
    BY <1>1 DEF Program
  <2> QED BY <2>1, HeadTailProperties, LenProperties
<1>3. /\ w \in Seq(Output) /\ Len(w) \in Nat
      /\ \A j \in 1..(Len(w) - 1) : w[j].reg \in Names
  <2>1. Program(w, req.op, Slave)
    BY RequestTypes, SectorProgram DEF CurrentWrites
  <2> HIDE DEF w
  <2>2. w \in Seq(Output) /\ Len(w) \in Nat
    BY <2>1, LenProperties DEF Program
  <2>3. \A j \in 1..(Len(w) - 1) : w[j] \in Output /\ w[j].reg # "command"
    BY <2>1, <2>2 DEF Program
  <2> QED BY <2>2, <2>3 DEF Output, Registers, Names
<1>4. k = Len(w) - Len(todo) /\ k \in Nat
  BY <1>2, <1>3 DEF Sending, Sent
<1>5. \A i \in 1..Len(todo) : todo[i] = w[k + i]
  BY DEF Sending
<1>6. UNCHANGED <<w, req, disks, sector>> /\ todo' = Tail(todo) /\ Sent' = k + 1
  <2>1. UNCHANGED <<req, disks, sector>> /\ todo' = Tail(todo)
    BY DEF OutB, driver
  <2>2. UNCHANGED w
    BY <2>1, SameSector
  <2> HIDE DEF w
  <2>3. Sent' = Len(w) - Len(Tail(todo))
    BY <2>1, <2>2 DEF Sent, w
  <2> QED BY <1>2, <1>3, <1>4, <2>1, <2>2, <2>3
<1> HIDE DEF w, k
<1>7. v = w[k + 1]
  BY <1>2, <1>5
<1>8. Len(todo) > 1
  <2>1. Tail(todo) # <<>>
    BY <1>1, HeadProgram
  <2> QED BY <1>2, <2>1, EmptySeq
<1>9. \A j \in 1..(k + 1) : w[j].reg \in Names
  BY <1>2, <1>3, <1>4, <1>8
<1>10. DOMAIN regs = Names /\ Recorded(regs, w, k)
  BY DEF ShapeInv, Sending, w, k
<1>11. regs' = [regs EXCEPT ![v.reg] = [now |-> v.val, before |-> regs[v.reg].now]]
  BY <1>1 DEF OutB, RegisterWrite, Accept
<1>12. Recorded(regs', w, k + 1)
  <2> HIDE DEF v
  <2> QED BY ZenonT(40), <1>4, <1>7, <1>9, <1>10, <1>11, RecordStep
<1>13. \A i \in 1..Len(todo') : todo'[i] = w[(k + 1) + i]
  <2> SUFFICES ASSUME NEW i \in 1..Len(Tail(todo)) PROVE Tail(todo)[i] = w[(k + 1) + i]
    BY <1>6
  <2>1. i + 1 \in 1..Len(todo) /\ k + (i + 1) = (k + 1) + i
    BY <1>2, <1>4
  <2> QED BY <1>2, <1>5, <2>1
<1>14. Sent' >= 0
  BY <1>4, <1>6
<1> QED BY <1>6, <1>12, <1>13, <1>14 DEF Sending, w

\* The command makes the slave work on the sector in progress.
LEMMA SentCommand ==
    ASSUME TypeInv, PhaseInv, ShapeInv, Sending, ~overrun, OutB, req.op # "identify",
           Head(todo).reg = "command"
    PROVE  /\ selected' = Slave
           /\ phase'[Slave] # "idle" /\ Named(Wide, Current) => cmd'[Slave].lba = Current
<1> DEFINE c == Head(todo).val
<1>1. /\ Program(todo, req.op, Slave) /\ pc = "out" /\ phase[selected] = "idle"
      /\ DOMAIN cmd = Unit
  BY DEF OutB, TypeInv, Flow, Hardware, Target, PhaseInv
<1>2. Tail(todo) = <<>> /\ todo \in Seq(Output) /\ Len(todo) > 0
  BY <1>1, HeadProgram DEF Program
<1>3. Len(todo) = 1 /\ todo[1] = Head(todo)
  <2>1. Len(Tail(todo)) = Len(todo) - 1 /\ Len(todo) \in Nat /\ Head(todo) = todo[1]
    BY <1>2, HeadTailProperties, EmptySeq, LenProperties
  <2>2. Len(Tail(todo)) = 0
    BY <1>2, EmptySeq
  <2> QED BY <2>1, <2>2
<1>4. /\ Recorded(regs, CurrentWrites, Len(CurrentWrites) - 1)
      /\ Head(todo).val.lba48 = Wide
  <2>1. /\ Len(CurrentWrites) \in Nat /\ Len(CurrentWrites) > 0
        /\ CurrentWrites[Len(CurrentWrites)].val.lba48 = Wide
    BY RequestTypes, LastWrite DEF CurrentWrites
  <2>2. Sent = Len(CurrentWrites) - 1
    BY <1>3, <2>1 DEF Sent
  <2>3. todo[1] = CurrentWrites[Sent + 1] /\ Recorded(regs, CurrentWrites, Sent)
    BY <1>3 DEF Sending
  <2>4. Sent + 1 = Len(CurrentWrites)
    BY <2>1, <2>2
  <2> QED BY <1>3, <2>1, <2>2, <2>3, <2>4
<1>5. Head(todo).val.lba48 = Wide
  BY <1>4
<1>6. selected = Slave /\ (Named(Wide, Current) => Addressed(Wide) = Current)
  BY <1>4, RequestTypes, AddressedIsNamed DEF CurrentWrites
<1>7. CommandWrite(c)
  BY DEF OutB
<1>8. selected' = Slave
  BY <1>6, <1>7 DEF CommandWrite, selected, At
<1>9. ASSUME phase'[Slave] # "idle"
      PROVE  cmd'[Slave].lba = Addressed(Wide)
  <2>1. Present(selected)
    BY <1>1, <1>6, <1>7, <1>9 DEF CommandWrite
  <2>2. cmd' = [cmd EXCEPT ![Slave] = [op |-> c.op, lba |-> Addressed(Wide)]]
    BY <1>1, <1>5, <1>6, <1>7, <2>1 DEF CommandWrite
  <2> HIDE DEF c
  <2> QED BY <1>1, <2>2 DEF Unit, Slave
<1> QED BY <1>6, <1>8, <1>9

LEMMA SameBuffer ==
    ASSUME UNCHANGED <<req, disks, sector, written, buffer>>
    PROVE  Filled' = Filled
BY SameSector DEF Filled

\* One more sector read
LEMMA ReadFills ==
    ASSUME TypeInv, PhaseInv, ShapeInv, DataInv, ReadSector, ~overrun
    PROVE  Filled'
<1>1. /\ pc = "data" /\ req.op = "read" /\ buffer' = Append(buffer, DataIn)
      /\ sector' = sector + 1 /\ UNCHANGED <<req, disks, written>>
  BY DEF ReadSector, Goto, Drained, driver
<1>2. /\ Filled /\ selected = Slave /\ sector < req.count
      /\ (Named(Wide, Current) /\ phase[Slave] # "idle" => cmd[Slave].lba = Current)
  BY <1>1 DEF DataInv
<1>3. phase[Slave] = "in" /\ cmd[Slave].op = "read"
  BY <1>1, <1>2 DEF PhaseInv, Direction
<1>4. sector \in Nat /\ req.count \in Nat /\ req.lba \in Nat
  BY <1>1, RequestTypes
<1>5. Reachable(req.disk, Current) =>
        DataIn = [unit |-> Slave, lba |-> Current, new |-> Current \in written[Slave]]
  <2>1. DataIn = [unit |-> selected, lba |-> cmd[selected].lba,
                  new |-> cmd[selected].lba \in written[selected]]
    BY <1>2, <1>3 DEF DataIn
  <2>2. Reachable(req.disk, Current) => cmd[Slave].lba = Current
    BY <1>2, <1>3 DEF Reachable, Wide
  <2> QED BY <1>2, <2>1, <2>2
<1>6. /\ Len(buffer') = sector + 1 /\ buffer'[sector + 1] = DataIn
      /\ \A i \in 1..sector : buffer'[i] = buffer[i]
  <2>1. PICK S : buffer \in Seq(S)
    BY DEF ShapeInv
  <2> DEFINE T == S \union {DataIn}
  <2>2. S \subseteq T /\ DataIn \in T
    OBVIOUS
  <2> HIDE DEF T
  <2>3. buffer \in Seq(T) /\ Len(buffer) = sector
    BY <1>2, <2>1, <2>2, SeqMonotonic DEF Filled
  <2> HIDE DEF DataIn
  <2> QED BY <1>1, <2>2, <2>3, AppendProperties
<1>7. ASSUME NEW i \in 1..(sector + 1), Reachable(req.disk, req.lba + i - 1)
      PROVE  buffer'[i] = [unit |-> Slave, lba |-> req.lba + i - 1,
                           new |-> req.lba + i - 1 \in written[Slave]]
  <2>1. CASE i \in 1..sector
    BY <1>2, <1>6, <1>7, <2>1 DEF Filled
  <2>2. CASE i = sector + 1
    <3>1. req.lba + i - 1 = Current
      BY <1>4, <2>2 DEF Current
    <3> HIDE DEF DataIn
    <3> QED BY <1>5, <1>6, <1>7, <2>2, <3>1
  <2> QED BY <1>4, <2>1, <2>2
<1>8. Len(buffer') = sector' /\ sector' <= req'.count
  BY <1>1, <1>2, <1>4, <1>6
<1> HIDE DEF DataIn
<1> QED BY <1>1, <1>7, <1>8 DEF Filled, Reachable

LEMMA DriverData ==
    TypeInv /\ PhaseInv /\ ShapeInv /\ DataInv /\ DriverStep => DataInv'
<1> SUFFICES ASSUME TypeInv, PhaseInv, ShapeInv, DataInv, DriverStep,
                    ~overrun', req'.op # "identify"
             PROVE  DataInv'
  BY DEF DataInv
<1>1. req' = req
  BY DEF DriverStep, Probe, BeginSector, OutB, Presence, WaitReady, Settle, WaitDrq,
         ErrCheck, Register, ReadSector, WriteSector, Flush, Return, PollAgain, driver,
         transfer
<1>2. ~overrun /\ req.op # "identify"
  BY <1>1, OverrunStays
<1>3. /\ req.op \in {"read", "write"} /\ Current \in Nat /\ Wide \in BOOLEAN
      /\ req.count \in Nat /\ sector \in Nat /\ drive = 2
  BY <1>2, RequestTypes
<1>4. pc \notin Identifying
  BY <1>2 DEF TypeInv, Flow
<1>5. CASE BeginSector
  <2>1. /\ pc = "sector" /\ UNCHANGED <<disks, sector, written, buffer, regs>>
    BY <1>5 DEF BeginSector, Return, driver, units
  <2>2. CASE sector < req.count
    <3>1. pc' = "out" /\ todo' = CurrentWrites
      BY <1>5, <2>2 DEF BeginSector, CurrentWrites, Current, Wide
    <3>2. UNCHANGED CurrentWrites
      BY <1>1, <2>1, SameSector
    <3>3. Len(CurrentWrites) \in Nat
      BY <1>3, LastWrite DEF CurrentWrites
    <3>4. Sent' = 0
      BY <3>1, <3>2, <3>3 DEF Sent
    <3>5. \A i \in 1..Len(todo') : todo'[i] = CurrentWrites'[0 + i]
      BY <3>1, <3>2
    <3>6. Recorded(regs', CurrentWrites', 0)
      BY DEF Recorded
    <3>7. Sending'
      BY <3>4, <3>5, <3>6 DEF Sending
    <3>8. Filled' = Filled
      BY <1>1, <2>1, SameBuffer
    <3>9. req.op = "read" => Filled
      BY <1>2, <2>1 DEF DataInv
    <3> QED BY <1>1, <2>1, <2>2, <3>1, <3>7, <3>8, <3>9 DEF DataInv
  <2>3. CASE ~ (sector < req.count)
    <3>1. pc' = "next"
      BY <1>5, <2>3 DEF BeginSector, Return
    <3>2. Filled' = Filled
      BY <1>1, <2>1, SameBuffer
    <3>3. req.op = "read" => Filled
      BY <1>2, <2>1 DEF DataInv
    <3>4. req.op = "read" => sector = req.count
      BY <1>3, <2>3, <3>3 DEF Filled
    <3> QED BY <1>1, <2>1, <3>1, <3>2, <3>3, <3>4 DEF DataInv
  <2> QED BY <2>2, <2>3
<1>6. CASE OutB
  <2>1. pc = "out" /\ UNCHANGED <<req, disks, sector, buffer, written>>
    BY <1>6 DEF OutB, driver, RegisterWrite, CommandWrite, units
  <2>2. Sending /\ sector < req.count /\ (req.op = "read" => Filled)
    BY <1>2, <2>1 DEF DataInv
  <2>3. Filled' = Filled /\ UNCHANGED <<Current, Wide>>
    BY <2>1, SameBuffer, SameSector
  <2>4. Program(todo, req.op, Target)
    BY <2>1 DEF TypeInv, Flow
  <2>5. CASE Head(todo).reg = "command"
    <3>1. pc' = "waitdrq"
      BY <1>2, <1>6, <2>4, <2>5, HeadProgram DEF OutB
    <3>2. /\ selected' = Slave
          /\ phase'[Slave] # "idle" /\ Named(Wide, Current) => cmd'[Slave].lba = Current
      BY <1>2, <1>6, <2>2, <2>5, SentCommand
    <3> QED BY <2>1, <2>2, <2>3, <3>1, <3>2 DEF DataInv
  <2>6. CASE Head(todo).reg # "command"
    <3>1. pc' = "out"
      BY <1>6, <2>4, <2>6, HeadProgram DEF OutB
    <3>2. Sending'
      BY <1>2, <1>6, <2>2, <2>6, SendingStep
    <3> QED BY <2>1, <2>2, <2>3, <3>1, <3>2 DEF DataInv
  <2> QED BY <2>5, <2>6
<1>7. CASE Settle
  <2>1. req.op = "write" /\ UNCHANGED <<regs, phase, cmd, disks>>
        /\ pc = "settle" /\ (pc' = "sector" \/ (pc' = "settle" /\ UNCHANGED sector))
    BY <1>7 DEF Settle, PollAgain, units, driver, TypeInv, Flow
  <2>2. CASE pc' = "sector"
    BY <1>1, <2>1, <2>2 DEF DataInv
  <2>3. CASE pc' = "settle" /\ UNCHANGED sector
    <3>1. UNCHANGED <<selected, Current, Wide>>
      BY <1>1, <2>1, <2>3, SameSector DEF selected, At
    <3> QED BY <1>1, <1>2, <2>1, <2>3, <3>1 DEF DataInv
  <2> QED BY <2>1, <2>2, <2>3
<1>8. CASE WaitDrq
  <2>1. UNCHANGED <<regs, phase, cmd, disks, sector, written, buffer>>
        /\ pc = "waitdrq" /\ (pc' \in {"data", "waitdrq"} \/ (pc' = "next" /\ result' = -1))
    BY <1>2, <1>8 DEF WaitDrq, PollAgain, units, driver, transfer, Return
  <2>2. UNCHANGED <<selected, Current, Wide>> /\ Filled' = Filled
    BY <1>1, <2>1, SameSector, SameBuffer DEF selected, At
  <2> QED BY <1>1, <1>2, <2>1, <2>2 DEF DataInv
<1>9. CASE ReadSector
  <2>1. pc' = "sector"
    BY <1>9 DEF ReadSector, Goto
  <2> QED BY <1>2, <1>9, <2>1, ReadFills DEF DataInv
<1>10. CASE WriteSector
  <2>1. /\ pc = "data" /\ pc' = "flush" /\ req.op = "write"
        /\ UNCHANGED <<disks, sector, regs, cmd>>
    BY <1>10 DEF WriteSector, Goto, driver, transfer
  <2>2. UNCHANGED <<selected, Current, Wide>>
    BY <1>1, <2>1, SameSector DEF selected, At
  <2>3. phase[Slave] = "out" /\ selected = Slave /\ sector < req.count
    BY <1>2, <2>1 DEF DataInv, PhaseInv, Direction
  <2> QED BY <1>1, <1>2, <2>1, <2>2, <2>3 DEF DataInv
<1>11. CASE Flush
  <2>1. /\ pc = "flush" /\ pc' = "settle" /\ req.op = "write"
        /\ UNCHANGED <<disks, sector, regs>>
        /\ CommandWrite([op |-> "flush", lba48 |-> FALSE])
    BY <1>11 DEF Flush, Goto, driver, CommandWrite, TypeInv, Flow
  <2>2. UNCHANGED <<selected, Current, Wide>>
    BY <1>1, <2>1, SameSector DEF selected, At
  <2>3. selected = Slave /\ sector < req.count
    BY <1>2, <2>1 DEF DataInv
  <2>4. phase'[Slave] = "storing" => phase[Slave] = "storing" /\ cmd' = cmd
    <3>1. CASE UNCHANGED <<phase, cmd>>
      BY <3>1
    <3>2. CASE phase' = [phase EXCEPT ![selected] = "busy"]
      BY <2>3, <3>2 DEF TypeInv, Hardware, Unit, Slave
    <3> QED BY <2>1, <3>1, <3>2 DEF CommandWrite
  <2> QED BY <1>1, <1>2, <2>1, <2>2, <2>3, <2>4 DEF DataInv
<1>12. ~ (Probe \/ Presence \/ WaitReady \/ ErrCheck \/ Register)
  BY <1>2, <1>3, <1>4 DEF Probe, Presence, WaitReady, ErrCheck, Register, Identifying
<1> QED BY <1>5, <1>6, <1>7, <1>8, <1>9, <1>10, <1>11, <1>12 DEF DriverStep

LEMMA DriveData ==
    TypeInv /\ PhaseInv /\ DataInv /\ DriveStep => DataInv'
<1> SUFFICES ASSUME TypeInv, PhaseInv, DataInv, DriveStep, ~overrun, req.op # "identify"
             PROVE  DataInv'
  BY DEF DataInv, DriveStep, driver
<1>1. PICK u \in Unit : Proceed(u) \/ Store(u) \/ Abort(u)
  BY DEF DriveStep, Unit
<1>2. UNCHANGED <<pc, req, disks, sector, todo, buffer, result, regs, overrun, cmd>>
  BY <1>1 DEF DriveStep, driver, transfer, Proceed, Store, Abort
<1>3. UNCHANGED <<selected, Current, Wide, CurrentWrites, Sent>>
  BY <1>2, SameSector DEF selected, At, Sent
<1>4. Sending' = Sending
  BY <1>2, <1>3 DEF Sending
<1>5. /\ phase'[Slave] # "idle" => phase[Slave] # "idle"
      /\ phase'[Slave] = "storing" => phase[Slave] = "storing"
  <2>1. Slave \in Unit /\ phase \in [Unit -> {"idle", "busy", "in", "out", "storing"}]
    BY DEF Unit, Slave, TypeInv, Hardware
  <2>2. CASE Slave # u
    <3>1. phase'[Slave] = phase[Slave]
      BY <1>1, <2>1, <2>2 DEF Proceed, Store, Abort
    <3> QED BY <3>1
  <2>3. CASE Slave = u
    <3>1. phase[u] # "idle"
      BY <1>1 DEF Proceed, Store, Abort
    <3>2. CASE Store(u) \/ Abort(u)
      BY <2>1, <2>3, <3>1, <3>2 DEF Store, Abort
    <3>3. CASE Proceed(u)
      <4>1. cmd[u].op \in Ops \union {"flush"}
        BY <3>3 DEF Proceed, TypeInv, Hardware
      <4>2. \E p \in {"in", "out", "idle"} : phase' = [phase EXCEPT ![u] = p]
        BY <3>3, <4>1 DEF Proceed, Ops
      <4> QED BY <2>1, <2>3, <3>1, <4>2
    <3> QED BY <1>1, <3>2, <3>3
  <2> QED BY <2>2, <2>3
<1>6. req.op = "read" => UNCHANGED written
  <2>1. Store(u) => pc \in {"flush", "settle"}
    BY DEF Store, PhaseInv, Issued, Direction, TypeInv, Flow
  <2>2. pc \in {"flush", "settle"} => req.op = "write"
    BY DEF TypeInv, Flow
  <2> QED BY <1>1, <2>1, <2>2 DEF Proceed, Abort
<1>7. req.op = "read" => Filled' = Filled
  BY <1>2, <1>6, SameBuffer
<1> QED BY <1>2, <1>3, <1>4, <1>5, <1>7 DEF DataInv

LEMMA DataStep ==
    TypeInv /\ PhaseInv /\ ShapeInv /\ DataInv /\ [Next]_ataVars => DataInv'
<1> SUFFICES ASSUME TypeInv, PhaseInv, ShapeInv, DataInv, [Next]_ataVars PROVE DataInv'
  OBVIOUS
<1>1. CASE Caller
  <2>1. PICK op \in {"read", "write"}, d \in DOMAIN disks, l \in Lbas, n \in Counts :
            Request(op, d, l, n)
    BY <1>1 DEF Caller
  <2>2. /\ pc' = "sector" /\ sector' = 0 /\ buffer' = <<>> /\ req'.count \in Nat
    BY <2>1, AtaAssumption DEF Request, Goto
  <2>3. Filled'
    BY <2>2, EmptySeq DEF Filled
  <2> QED BY <2>2, <2>3 DEF DataInv
<1>2. CASE UNCHANGED ataVars
  <2>1. UNCHANGED <<pc, req, disks, sector, todo, buffer, result, regs, overrun, cmd,
                    phase, written>>
    BY <1>2 DEF ataVars, driver, transfer, units
  <2>2. UNCHANGED <<selected, Current, Wide, CurrentWrites, Sent>> /\ Filled' = Filled
    BY <2>1, SameSector, SameBuffer DEF selected, At, Sent
  <2>3. Sending' = Sending
    BY <2>1, <2>2 DEF Sending
  <2> QED BY <2>1, <2>2, <2>3 DEF DataInv
<1> QED BY <1>1, <1>2, DriverData, DriveData DEF Next, Done

LEMMA DataInvariant == Spec => [](TypeInv /\ PhaseInv /\ ShapeInv /\ DataInv)
<1>1. TypeInv /\ PhaseInv /\ ShapeInv /\ DataInv /\ [Next]_ataVars
        => ShapeInv' /\ DataInv'
  BY ShapeStep, DataStep
<1> QED BY <1>1, PhaseInvariant, InitData, PTL DEF Spec

-----------------------------------------------------------------------------
(* The theorems.                                                           *)

\* A read that returns 0 filled the buffer with the sectors asked for, in order
\* and as last written, for every LBA the driver can name, every count and every
\* channel, while no wait has given up on a unit at work (ata_pio_read).
THEOREM ReadsCorrect == Spec => []ReadsAreFaithful
<1>1. TypeInv /\ DataInv => ReadsAreFaithful
  <2> SUFFICES ASSUME TypeInv, DataInv, Finished("read"), ~overrun,
                      \A i \in 1..req.count : Reachable(req.disk, req.lba + i - 1)
               PROVE  /\ Len(buffer) = req.count
                      /\ \A i \in 1..req.count :
                            LET l == req.lba + i - 1
                            IN  buffer[i] = [unit |-> Slave, lba |-> l,
                                             new |-> l \in written[Slave]]
    BY DEF ReadsAreFaithful
  <2>1. pc = "next" /\ req.op = "read" /\ result = 0
    BY DEF Finished
  <2>2. Filled /\ sector = req.count
    BY <2>1 DEF DataInv
  <2> QED BY <2>2 DEF Filled
<1> QED BY <1>1, DataInvariant, PTL

\* A unit stores a sector only for the write in progress, and where that write
\* is, while no wait has given up on a unit at work (ata_pio_write).
THEOREM WritesCorrect == Spec => WritesStayPut
<1> DEFINE Put ==
      \A u \in 0..1 : written'[u] # written[u] /\ ~overrun
          => /\ req.op = "write" /\ pc \in {"flush", "settle"}
             /\ Reachable(req.disk, req.lba + sector)
                   => u = Slave /\ written'[u] = written[u] \union {req.lba + sector}
<1>1. ASSUME TypeInv, PhaseInv, DataInv, Next
      PROVE  Put
  <2> SUFFICES ASSUME NEW u \in Unit, written'[u] # written[u], ~overrun
               PROVE  /\ req.op = "write" /\ pc \in {"flush", "settle"}
                      /\ Reachable(req.disk, Current)
                            => u = Slave /\ written'[u] = written[u] \union {Current}
    BY DEF Unit, Current
  <2>1. UNCHANGED written \/ DriveStep
    BY <1>1 DEF Next, DriverStep, Caller, Done, Probe, BeginSector, OutB, Presence,
           WaitReady, Settle, WaitDrq, ErrCheck, Register, ReadSector, WriteSector, Flush,
           CommandWrite, RegisterWrite, Drained, Request, units, ataVars
  <2>2. PICK v \in Unit : Proceed(v) \/ Store(v) \/ Abort(v)
    BY <2>1 DEF DriveStep, Unit
  <2>3. Store(v)
    BY <2>2 DEF Proceed, Abort
  <2>4. phase[v] = "storing" /\ written' = [written EXCEPT ![v] = @ \union {cmd[v].lba}]
    BY <2>3 DEF Store
  <2>5. u = v /\ written'[u] = written[u] \union {cmd[u].lba}
    BY <2>4
  <2>6. v = selected
    BY <1>1, <2>4 DEF PhaseInv
  <2>7. pc \in {"flush", "settle"} /\ req.op = "write"
    BY <1>1, <2>4, <2>6 DEF PhaseInv, Issued, Direction, TypeInv, Flow
  <2>8. v = Slave /\ (Named(Wide, Current) => cmd[Slave].lba = Current)
    BY <1>1, <2>4, <2>6, <2>7 DEF DataInv
  <2> QED BY <2>5, <2>7, <2>8 DEF Reachable, Wide
<1>2. TypeInv /\ PhaseInv /\ DataInv /\ [Next]_ataVars => [Put]_ataVars
  BY <1>1
<1> QED BY <1>2, DataInvariant, PTL DEF Spec, WritesStayPut

-----------------------------------------------------------------------------
(* The disk that the driver implements.                                    *)


\* The loop never passes the count, whatever the units do.
CountInv ==
    req.op # "identify" /\ pc # "next" =>
        sector <= req.count /\ (pc # "sector" => sector < req.count)

LEMMA CountStep == TypeInv /\ CountInv /\ [Next]_ataVars => CountInv'
<1> SUFFICES ASSUME TypeInv, CountInv, [Next]_ataVars PROVE CountInv'
  OBVIOUS
<1>0. sector \in Nat /\ req.count \in Nat
      /\ pc \in {"next", "sector", "out", "presence", "waitready", "errcheck",
                 "waitdrq", "data", "flush", "settle"}
  BY DEF TypeInv, Flow
<1>1. CASE Caller
  <2>1. PICK op \in {"read", "write"}, d \in DOMAIN disks, l \in Lbas, n \in Counts :
            Request(op, d, l, n)
    BY <1>1 DEF Caller
  <2>2. pc' = "sector" /\ sector' = 0 /\ req'.count \in Nat
    BY <2>1, AtaAssumption DEF Request, Goto
  <2> QED BY <2>2 DEF CountInv
<1>2. CASE Probe
  <2>1. req.op = "identify" /\ req' = req
    BY <1>2 DEF Probe, TypeInv, Flow, driver
  <2> QED BY <2>1 DEF CountInv
<1>3. CASE BeginSector
  <2>1. req' = req /\ sector' = sector /\ pc = "sector"
        /\ (pc' = "next" \/ (pc' = "out" /\ sector < req.count))
    BY <1>3 DEF BeginSector, Return, driver
  <2> QED BY <1>0, <2>1 DEF CountInv
<1>4. CASE Settle \/ ReadSector
  <2>1. /\ req' = req /\ pc # "sector" /\ pc # "next"
        /\ (pc' = "sector" /\ sector' = sector + 1) \/ (pc' = pc /\ sector' = sector)
    BY <1>4 DEF Settle, ReadSector, Goto, PollAgain, driver
  <2> QED BY <1>0, <2>1 DEF CountInv
<1>5. CASE OutB \/ Presence \/ WaitReady \/ WaitDrq \/ ErrCheck \/ Register \/ WriteSector
           \/ Flush
  <2>1. /\ req' = req /\ sector' = sector /\ pc # "sector" /\ pc # "next"
    BY <1>5 DEF OutB, Presence, WaitReady, WaitDrq, ErrCheck, Register, WriteSector, Flush,
                Goto, Return, PollAgain, driver, transfer
  <2> QED BY <1>0, <2>1 DEF CountInv
<1>6. CASE DriveStep \/ UNCHANGED ataVars
  <2>1. UNCHANGED <<pc, req, sector>>
    BY <1>6 DEF DriveStep, ataVars, driver, transfer
  <2> QED BY <2>1 DEF CountInv
<1> QED BY <1>1, <1>2, <1>3, <1>4, <1>5, <1>6 DEF Next, DriverStep, Done

\* Each unit has its set of stored sectors.
StoredInv == DOMAIN written = Unit

LEMMA StoredStep == StoredInv /\ [Next]_ataVars => StoredInv'
<1> SUFFICES ASSUME DOMAIN written = Unit, [Next]_ataVars PROVE DOMAIN written' = Unit
  BY DEF StoredInv
<1>1. CASE DriveStep
  BY <1>1 DEF DriveStep, Proceed, Store, Abort
<1>2. CASE DriverStep \/ Caller \/ UNCHANGED ataVars
  <2>1. UNCHANGED written
    BY <1>2
       DEF DriverStep, Probe, BeginSector, OutB, Presence, WaitReady, Settle, WaitDrq,
           ErrCheck, Register, ReadSector, WriteSector, Flush, Drained, RegisterWrite,
           CommandWrite, units, Caller, Request, ataVars
  <2> QED BY <2>1
<1> QED BY <1>1, <1>2 DEF Next, Done

\* What the refinement needs of a state
DiskInv ==
    /\ TypeInv /\ PhaseInv /\ ShapeInv /\ DataInv
    /\ CountInv /\ StoredInv

LEMMA DiskInvariant == Spec => []DiskInv
<1>1. Init => CountInv /\ StoredInv
  BY DEF Init, CountInv, StoredInv, Unit
<1>2. TypeInv /\ PhaseInv /\ ShapeInv /\ DataInv /\ CountInv /\ StoredInv
      /\ [Next]_ataVars => CountInv' /\ StoredInv'
  BY CountStep, StoredStep
<1>3. TypeInv /\ PhaseInv /\ ShapeInv /\ DataInv /\ CountInv /\ StoredInv
      => DiskInv
  BY DEF DiskInv
<1> QED BY <1>1, <1>2, <1>3, DataInvariant, PTL DEF Spec

\* As long as no wait has given up, what is promised follows from the request.
LEMMA SamePromise ==
    ASSUME UNCHANGED <<req, disks>>, ~overrun, ~overrun'
    PROVE  Promised' <=> Promised
<1>1. \A d, l : Reachable(d, l)' = Reachable(d, l)
  BY DEF Reachable
<1> QED BY <1>1 DEF Promised

\* A step that the disk does not show
LEMMA SameDisk ==
    ASSUME UNCHANGED <<req, sector, buffer, result, disks, overrun>>,
           written'[Slave] = written[Slave],
           req.op = "identify" \/ (pc' = "next" <=> pc = "next"),
           Settled' <=> Settled
    PROVE  UNCHANGED Disk!diskVars
<1>1. Promised' <=> Promised
  <2>1. \A d, l : Reachable(d, l)' = Reachable(d, l)
    BY SameSector
  <2> QED BY <2>1 DEF Promised
<1>2. (req.op # "identify" /\ pc # "next")' <=> (req.op # "identify" /\ pc # "next")
  OBVIOUS
<1> QED BY <1>1, <1>2 DEF Disk!diskVars, Settled

\* What a request whose sectors can all be named is at
LEMMA InProgress ==
    ASSUME DiskInv, Promised, req.op # "identify", pc # "next", pc # "sector"
    PROVE  /\ Reachable(req.disk, Current) /\ Named(Wide, Current)
           /\ sector < req.count /\ ~overrun
<1>1. sector < req.count /\ sector \in Nat /\ req.count \in Nat /\ req.lba \in Nat
  BY RequestTypes DEF DiskInv, CountInv
<1>2. sector + 1 \in 1..req.count /\ req.lba + (sector + 1) - 1 = Current
  BY <1>1 DEF Current
<1>3. Reachable(req.disk, req.lba + (sector + 1) - 1)
  BY <1>2 DEF Promised
<1> QED BY <1>1, <1>2, <1>3 DEF Promised, Reachable, Wide

\* The unit at work: only the end of a write's storing shows.
LEMMA DiskDrive ==
    ASSUME DiskInv, DriveStep, Promised, ~overrun
    PROVE  Disk!Next \/ UNCHANGED Disk!diskVars
<1>0. TypeInv /\ PhaseInv /\ DataInv
  BY DEF DiskInv
<1>1. PICK u \in Unit : Proceed(u) \/ Store(u) \/ Abort(u)
  BY DEF DriveStep, Unit
<1>2. UNCHANGED <<pc, req, disks, sector, buffer, result, overrun, cmd>>
  BY <1>1 DEF DriveStep, driver, transfer, Proceed, Store, Abort
<1>3. u = selected /\ Slave \in Unit
      /\ phase \in [Unit -> {"idle", "busy", "in", "out", "storing"}]
  BY <1>0, <1>1 DEF PhaseInv, TypeInv, Hardware, Proceed, Store, Abort, Unit, Slave
<1>4. CASE phase[u] # "storing"
  <2>1. UNCHANGED written /\ (\A v \in Unit : phase'[v] = "storing" <=> phase[v] = "storing")
    <3>1. \E p \in {"in", "out", "idle"} : phase' = [phase EXCEPT ![u] = p]
      <4>1. CASE Proceed(u)
        <5>1. cmd[u].op \in Ops \union {"flush"}
          BY <1>0, <4>1 DEF Proceed, TypeInv, Hardware
        <5> QED BY <4>1, <5>1 DEF Proceed, Ops
      <4>2. CASE Abort(u)
        BY <4>2 DEF Abort
      <4> QED BY <1>1, <1>4, <4>1, <4>2 DEF Store
    <3>2. UNCHANGED written
      BY <1>1, <1>4 DEF Proceed, Store, Abort
    <3> QED BY <1>3, <1>4, <3>1, <3>2
  <2> QED BY <1>2, <1>3, <2>1, SameDisk DEF Settled
<1>5. CASE phase[u] = "storing"
  <2>1. pc \in {"flush", "settle"} /\ req.op = "write"
    BY <1>0, <1>3, <1>5 DEF PhaseInv, Issued, Direction, TypeInv, Flow
  <2>2. Named(Wide, Current) /\ sector < req.count
    BY <2>1, InProgress
  <2>3. u = Slave /\ cmd[Slave].lba = Current
    BY <1>0, <1>3, <1>5, <2>1, <2>2 DEF DataInv
  <2>4. /\ phase' = [phase EXCEPT ![u] = "idle"]
        /\ \/ written' = [written EXCEPT ![u] = @ \union {cmd[u].lba}]
           \/ UNCHANGED written
    BY <1>1, <1>5 DEF Proceed, Store, Abort
  <2>5. phase'[Slave] = "idle" /\ pc' = pc
        /\ (written'[Slave] = written[Slave] \union {Current} \/ written'[Slave] = written[Slave])
    BY <1>2, <1>3, <2>3, <2>4 DEF DiskInv, StoredInv
  <2>6. Promised'
    BY <1>2, SameSector DEF Promised
  <2>7. Disk!Store \/ Disk!Drop
    BY <1>2, <1>5, <2>1, <2>2, <2>3, <2>5
       DEF Disk!Store, Disk!Drop, Disk!Doing, Disk!InHand, Current, Settled
  <2> QED BY <2>6, <2>7 DEF Disk!Next
<1> QED BY <1>4, <1>5

\* What the driver takes from the data port is the sector in hand.
LEMMA DiskRead ==
    ASSUME DiskInv, ReadSector, Promised, ~overrun
    PROVE  Disk!Fetch
<1>1. /\ pc = "data" /\ pc' = "sector" /\ req.op = "read" /\ buffer' = Append(buffer, DataIn)
      /\ sector' = sector + 1 /\ UNCHANGED <<req, disks, written, result>>
  BY DEF ReadSector, Goto, Drained, driver
<1>2. Reachable(req.disk, Current) /\ Named(Wide, Current) /\ sector < req.count
  BY <1>1, InProgress
<1>3. selected = Slave /\ phase[Slave] = "in" /\ cmd[Slave].op = "read"
      /\ cmd[Slave].lba = Current
  BY <1>1, <1>2 DEF DiskInv, DataInv, PhaseInv, Direction
<1>4. DataIn = [unit |-> Slave, lba |-> Current, new |-> Current \in written[Slave]]
  BY <1>3 DEF DataIn
<1> HIDE DEF DataIn
<1> QED BY <1>1, <1>2, <1>4
        DEF Disk!Fetch, Disk!Doing, Disk!Content, Disk!InHand, Current, Settled

\* The driver in the middle of a request
LEMMA DiskDriver ==
    ASSUME DiskInv, DriverStep, Promised, ~overrun, ~overrun', req.op # "identify"
    PROVE  Disk!Next \/ UNCHANGED Disk!diskVars
<1>0. TypeInv /\ PhaseInv /\ DataInv /\ CountInv
  BY DEF DiskInv
<1>1. UNCHANGED <<req, overrun>>
  <2>1. req' = req
    BY DEF DriverStep, Probe, BeginSector, OutB, Presence, WaitReady, Settle, WaitDrq,
           ErrCheck, Register, ReadSector, WriteSector, Flush, Return, PollAgain, driver,
           transfer
  <2>2. overrun = FALSE /\ overrun' = FALSE
    OBVIOUS
  <2> QED BY <2>1, <2>2
<1>2. pc \notin Identifying /\ drive = 2 /\ sector \in Nat /\ req.count \in Nat
  BY <1>0, RequestTypes DEF TypeInv, Flow
<1>3. CASE BeginSector
  <2>1. pc = "sector" /\ UNCHANGED <<disks, sector, buffer, written>>
    BY <1>3 DEF BeginSector, Return, driver, units
  <2>2. CASE sector < req.count
    <3>1. pc' = "out" /\ result' = result
      BY <1>3, <2>2 DEF BeginSector
    <3> QED BY <1>1, <2>1, <3>1, SameDisk DEF Settled
  <2>3. CASE ~(sector < req.count)
    <3>1. pc' = "next" /\ result' = 0
      BY <1>3, <2>3 DEF BeginSector, Return
    <3>2. sector = req.count
      BY <1>0, <1>2, <2>1, <2>3 DEF CountInv
    <3>3. Disk!Answer(0)
      BY <1>1, <2>1, <3>1, <3>2 DEF Disk!Answer, Settled
    <3>4. Promised'
      BY <1>1, <2>1, SameSector DEF Promised
    <3> QED BY <3>3, <3>4 DEF Disk!Next
  <2> QED BY <2>2, <2>3
<1>4. CASE OutB
  <2>1. pc = "out" /\ pc' \in {"out", "waitdrq"}
        /\ UNCHANGED <<disks, sector, buffer, result, written>>
    BY <1>4 DEF OutB, driver, RegisterWrite, CommandWrite, units
  <2> QED BY <1>1, <2>1, SameDisk DEF Settled
<1>5. CASE WaitDrq
  <2>1. pc = "waitdrq" /\ UNCHANGED <<disks, sector, buffer, written>>
        /\ \/ pc' \in {"data", "waitdrq"} /\ result' = result
           \/ pc' = "next" /\ result' = -1
    BY <1>5 DEF WaitDrq, PollAgain, units, driver, transfer, Return
  <2>2. CASE pc' = "next" /\ result' = -1
    <3>1. Disk!Answer(-1)
      BY <1>1, <2>1, <2>2 DEF Disk!Answer, Settled
    <3>2. Promised'
      BY <1>1, <2>1, SameSector DEF Promised
    <3> QED BY <3>1, <3>2 DEF Disk!Next
  <2>3. CASE pc' \in {"data", "waitdrq"} /\ result' = result
    BY <1>1, <2>1, <2>3, SameDisk DEF Settled
  <2> QED BY <2>1, <2>2, <2>3
<1>6. CASE ReadSector
  <2>1. Disk!Fetch
    BY <1>6, DiskRead
  <2>2. UNCHANGED disks
    BY <1>6 DEF ReadSector, driver
  <2>3. Promised'
    BY <1>1, <2>2, SamePromise
  <2> QED BY <2>1, <2>3 DEF Disk!Next
<1>7. CASE WriteSector
  <2>1. /\ pc = "data" /\ pc' = "flush" /\ req.op = "write"
        /\ UNCHANGED <<disks, sector, buffer, result, written>>
        /\ phase' = [phase EXCEPT ![selected] = IF @ = "out" THEN "storing" ELSE @]
    BY <1>7 DEF WriteSector, Goto, driver, transfer
  <2>2. selected = Slave /\ phase[Slave] = "out" /\ phase'[Slave] = "storing"
    BY <1>0, <2>1 DEF DataInv, PhaseInv, Direction, TypeInv, Hardware
  <2> QED BY <1>1, <2>1, <2>2, SameDisk DEF Settled
<1>8. CASE Flush
  <2>1. /\ pc = "flush" /\ pc' = "settle"
        /\ UNCHANGED <<disks, sector, buffer, result, written>>
        /\ CommandWrite([op |-> "flush", lba48 |-> FALSE])
    BY <1>8 DEF Flush, Goto, driver, CommandWrite
  <2>2. phase'[Slave] = "storing" <=> phase[Slave] = "storing"
    <3>1. CASE UNCHANGED phase
      BY <3>1
    <3>2. CASE phase' = [phase EXCEPT ![selected] = "busy"] /\ phase[selected] = "idle"
      BY <1>0, <3>2 DEF TypeInv, Hardware, Unit, Slave
    <3> QED BY <2>1, <3>1, <3>2 DEF CommandWrite
  <2> QED BY <1>1, <2>1, <2>2, SameDisk DEF Settled
<1>9. CASE Settle
  <2>1. /\ pc = "settle" /\ req.op = "write"
        /\ UNCHANGED <<disks, buffer, result, written, phase>>
        /\ \/ pc' = "settle" /\ sector' = sector
           \/ /\ pc' = "sector" /\ sector' = sector + 1
              /\ DRDY \/ GiveUp
    BY <1>0, <1>9 DEF Settle, PollAgain, units, driver, TypeInv, Flow
  <2>2. CASE pc' = "settle" /\ sector' = sector
    BY <1>1, <2>1, <2>2, SameDisk DEF Settled
  <2>3. CASE pc' = "sector" /\ sector' = sector + 1 /\ (DRDY \/ GiveUp)
    <3>1. phase[Slave] # "storing"
      <4>1. selected = Slave /\ Slave \in Unit
        BY <1>0, <2>1 DEF DataInv, Unit, Slave
      <4>2. CASE DRDY
        BY <4>1, <4>2 DEF DRDY, BSY
      <4>3. CASE GiveUp
        BY <4>1, <4>3 DEF GiveUp, Unit
      <4> QED BY <2>3, <4>2, <4>3
    <3>2. sector < req.count
      BY <1>0, <2>1 DEF CountInv
    <3>3. Disk!Advance
      BY <1>1, <2>1, <2>3, <3>1, <3>2 DEF Disk!Advance, Disk!Doing, Settled
    <3>4. Promised'
      BY <1>1, <2>1, SamePromise
    <3> QED BY <3>3, <3>4 DEF Disk!Next
  <2> QED BY <2>1, <2>2, <2>3
<1>10. ~ (Probe \/ Presence \/ WaitReady \/ ErrCheck \/ Register)
  <2>1. pc = "data" /\ req.op = "identify" => FALSE
    OBVIOUS
  <2> QED BY <1>2, <2>1 DEF Probe, Presence, WaitReady, ErrCheck, Register, Identifying
<1> QED BY <1>3, <1>4, <1>5, <1>6, <1>7, <1>8, <1>9, <1>10 DEF DriverStep

\* Detection asks nothing of the disk.
LEMMA DiskDetection ==
    ASSUME DiskInv, DriverStep \/ DriveStep, ~overrun, ~overrun', req.op = "identify"
    PROVE  UNCHANGED Disk!diskVars
<1>0. TypeInv /\ PhaseInv
  BY DEF DiskInv
<1>1. pc \notin Transferring /\ (pc = "data" => phase[selected] = "in")
  BY <1>0 DEF TypeInv, Flow, PhaseInv, Direction, Transferring
<1>2. UNCHANGED <<req, sector, buffer, result>> /\ pc' \notin {"flush", "settle"}
  <2>1. CASE DriveStep
    BY <1>1, <2>1 DEF DriveStep, driver, transfer, Transferring
  <2>2. CASE DriverStep
    BY <1>1, <2>2
       DEF DriverStep, Probe, BeginSector, OutB, Presence, WaitReady, Settle, WaitDrq,
           ErrCheck, Register, ReadSector, WriteSector, Flush, Return, PollAgain, Goto,
           driver, transfer, Transferring
  <2> QED BY <2>1, <2>2
<1>3. UNCHANGED written
  <2>1. CASE DriveStep
    <3>1. PICK u \in Unit : Proceed(u) \/ Store(u) \/ Abort(u)
      BY <2>1 DEF DriveStep, Unit
    <3>2. ~Store(u)
      BY <1>0, <1>1 DEF Store, PhaseInv, Issued, Direction, TypeInv, Flow, Transferring
    <3> QED BY <3>1, <3>2 DEF Proceed, Abort
  <2>2. CASE DriverStep
    BY <2>2
       DEF DriverStep, Probe, BeginSector, OutB, Presence, WaitReady, Settle, WaitDrq,
           ErrCheck, Register, ReadSector, WriteSector, Flush, Drained, RegisterWrite,
           CommandWrite, units
  <2> QED BY <2>1, <2>2
<1>4. Promised' /\ Promised
  BY <1>2 DEF Promised
<1> QED BY <1>1, <1>2, <1>3, <1>4 DEF Disk!diskVars, Transferring, Settled

\* A call of disk_read or disk_write asks for a new run of sectors.
LEMMA DiskRequest ==
    ASSUME DiskInv, Caller
    PROVE  Disk!Ask
<1>1. PICK op \in {"read", "write"}, d \in DOMAIN disks, l \in Lbas, n \in Counts :
          Request(op, d, l, n)
  BY DEF Caller
<1>2. /\ pc = "next" /\ pc' = "sector" /\ sector' = 0 /\ buffer' = <<>>
      /\ req' = [op |-> op, disk |-> d, lba |-> l, count |-> n]
      /\ UNCHANGED <<result, written>>
  BY <1>1 DEF Request, Goto, units
<1>3. l \in Nat /\ n \in Nat
  BY AtaAssumption
<1>4. [op |-> req'.op, lba |-> req'.lba, count |-> req'.count] \in Disk!Requests
  BY <1>2, <1>3 DEF Disk!Requests
<1> QED BY <1>2, <1>4 DEF Disk!Ask, Settled

\* The driver keeps what SectorDisk promises, for every channel, LBA and count, and
\* however the units answer, abort or stay silent: the sectors of a request are read
\* or stored in order, none but these, and 0 is returned after the last of them only
\* (ata_pio_read, ata_pio_write).
THEOREM DiskRefinement == Spec => RefinesDisk
<1>1. Init => Disk!Init
  BY DEF Init, Disk!Init, Slave, Settled
<1>2. DiskInv /\ [Next]_ataVars => [Disk!Next]_Disk!diskVars
  <2> SUFFICES ASSUME DiskInv, [Next]_ataVars, Promised'
               PROVE  Disk!Next \/ UNCHANGED Disk!diskVars
    BY DEF Disk!Next
  <2>1. ~overrun'
    BY DEF Promised
  <2>2. CASE Caller
    BY <2>2, DiskRequest DEF Disk!Next
  <2>3. CASE UNCHANGED ataVars
    <3>1. UNCHANGED <<pc, req, sector, buffer, result, disks, overrun, written, phase>>
      BY <2>3 DEF ataVars, driver, transfer, units
    <3> QED BY <3>1, SameDisk DEF Settled
  <2>4. CASE DriverStep \/ DriveStep
    <3>1. ~overrun
      BY <2>1, <2>4, OverrunStays DEF DriveStep
    <3>2. CASE req.op = "identify"
      BY <2>1, <2>4, <3>1, <3>2, DiskDetection
    <3>3. CASE req.op # "identify"
      <4>1. UNCHANGED <<req, disks>>
        BY <2>4, <3>3 DEF DriverStep, Probe, BeginSector, OutB, Presence, WaitReady, Settle,
           WaitDrq, ErrCheck, Register, ReadSector, WriteSector, Flush, Return, PollAgain,
           driver, transfer, DriveStep
      <4>2. Promised
        BY <2>1, <3>1, <4>1, SamePromise
      <4> QED BY <2>1, <2>4, <3>1, <3>3, <4>2, DiskDrive, DiskDriver
    <3> QED BY <3>2, <3>3
  <2> QED BY <2>2, <2>3, <2>4 DEF Next, Done
<1> QED BY <1>1, <1>2, DiskInvariant, PTL DEF Spec, RefinesDisk, Disk!Spec

=============================================================================
