------------------------ MODULE ContentionSweepProofs ------------------------
(***************************************************************************)
(* What ContentionSweep promises of every sweep: any number of catalogs,   *)
(* any round policy, any number of starts of the program.  The argument    *)
(* is about the schedule: which catalog runs when is a matter of dividing  *)
(* the number of finished rounds by the number of catalogs.                *)
(***************************************************************************)
EXTENDS ContentionSweep, FiniteSetTheorems, SequenceTheorems, TLAPS

----------------------------------------------------------------------------
(* Division *)

\* Division with remainder.
LEMMA DivMod ==
  ASSUME NEW d \in Nat, NEW n \in Nat \ {0}
  PROVE  d \div n \in Nat /\ d % n \in 0..(n - 1) /\ d = n * (d \div n) + (d % n)
<1>1. d % n \in 0..(n - 1)
  OBVIOUS
<1>2. d = n * (d \div n) + (d % n)
  OBVIOUS
<1>3. d \div n \in Int
  OBVIOUS
<1>4. d \div n >= 0
  BY <1>1, <1>2, <1>3
<1> QED BY <1>1, <1>2, <1>3, <1>4

\* Quotient and remainder are determined.
LEMMA DivUnique ==
  ASSUME NEW q \in Nat, NEW n \in Nat \ {0}, NEW r \in 0..(n - 1)
  PROVE  (q * n + r) \div n = q /\ (q * n + r) % n = r
OBVIOUS

\* The r-th entry of row a of b rows with n entries each.
LEMMA InRows ==
  ASSUME NEW a \in Nat, NEW b \in Nat, a < b, NEW n \in Nat, NEW r \in 1..n
  PROVE  a * n + r \in 1..(n * b)
OBVIOUS

\* An entry of b rows with n entries each is in one of the b rows.
LEMMA RowBound ==
  ASSUME NEW d \in Nat, NEW n \in Nat \ {0}, NEW b \in Nat, d < n * b
  PROVE  d \div n < b
BY DivMod

\* Of n successive numbers exactly one leaves a given remainder.
LEMMA OneRemainder ==
  ASSUME NEW b \in Nat, NEW n \in Nat \ {0}, NEW o \in 0..(n - 1)
  PROVE  /\ \E i \in b..(b + n - 1) : i % n = o
         /\ \A i, j \in b..(b + n - 1) : i % n = o /\ j % n = o => i = j
<1> DEFINE q == b \div n
           r == b % n
<1>1. q \in Nat /\ r \in 0..(n - 1) /\ b = n * q + r
  BY DivMod, Zenon
<1> HIDE DEF q, r
<1>2. \E i \in b..(b + n - 1) : i % n = o
  <2>1. CASE o >= r
    <3>1. q * n + o \in b..(b + n - 1)
      BY <1>1, <2>1
    <3>2. (q * n + o) % n = o
      BY <1>1, DivUnique, Zenon
    <3> QED BY <3>1, <3>2, Zenon
  <2>2. CASE o < r
    <3>1. (q + 1) * n + o \in b..(b + n - 1)
      BY <1>1, <2>2
    <3>2. q + 1 \in Nat
      BY <1>1
    <3>3. ((q + 1) * n + o) % n = o
      BY <3>2, DivUnique, Zenon
    <3> QED BY <3>1, <3>3, Zenon
  <2> QED BY <1>1, <2>1, <2>2
<1>3. ASSUME NEW i \in b..(b + n - 1), NEW j \in b..(b + n - 1), i % n = o, j % n = o
      PROVE  i = j
  <2> DEFINE s == i \div n
             t == j \div n
  <2>1. s \in Nat /\ t \in Nat /\ i = n * s + o /\ j = n * t + o
    BY <1>3, DivMod
  <2> HIDE DEF s, t
  <2>2. i - j = n * (s - t) /\ i - j < n /\ j - i < n
    BY <2>1
  <2>3. ~(s > t) /\ ~(t > s)
    BY <2>1, <2>2
  <2> QED BY <2>1, <2>3
<1> QED BY <1>2, <1>3

----------------------------------------------------------------------------
(* The schedule *)

\* A sequence moved on by o places.
LEMMA MovedOn ==
  ASSUME NEW S, NEW s \in Seq(S), NEW o \in 0..(Len(s) - 1), NEW p \in 1..Len(s)
  PROVE  (SubSeq(s, o + 1, Len(s)) \o SubSeq(s, 1, o))[p] =
           s[IF p + o <= Len(s) THEN p + o ELSE p + o - Len(s)]
<1> DEFINE n == Len(s)
           a == SubSeq(s, o + 1, n)
           b == SubSeq(s, 1, o)
<1>1. n \in Nat /\ \A i \in 1..n : s[i] \in S
  BY LenProperties
<1>2. o + 1 \in Int /\ o \in Int /\ n \in Int /\ 1 \in Int /\ o \in 0..(n - 1)
  BY <1>1
<1>3. (\A i \in (o + 1)..n : s[i] \in S) /\ (\A i \in 1..o : s[i] \in S)
  BY <1>1
<1> HIDE DEF n
<1>4. /\ a \in Seq(S) /\ Len(a) = IF o + 1 <= n THEN n - (o + 1) + 1 ELSE 0
      /\ \A i \in 1..(n - (o + 1) + 1) : a[i] = s[o + 1 + i - 1]
  BY <1>2, <1>3, SubSeqProperties
<1>5. /\ b \in Seq(S) /\ Len(b) = IF 1 <= o THEN o - 1 + 1 ELSE 0
      /\ \A i \in 1..(o - 1 + 1) : b[i] = s[1 + i - 1]
  BY <1>2, <1>3, SubSeqProperties
<1> HIDE DEF a, b
<1>6. \A i \in 1..(Len(a) + Len(b)) :
        (a \o b)[i] = IF i <= Len(a) THEN a[i] ELSE b[i - Len(a)]
  BY <1>4, <1>5, ConcatProperties, Zenon
<1>7. Len(a) = n - o /\ Len(b) = o /\ p \in 1..n
  BY <1>1, <1>2, <1>4, <1>5 DEF n
<1>8. CASE p + o <= n
  <2>1. (a \o b)[p] = a[p]
    BY <1>2, <1>6, <1>7, <1>8
  <2>2. a[p] = s[p + o]
    BY <1>2, <1>4, <1>7, <1>8
  <2> QED BY <1>8, <2>1, <2>2, Zenon DEF n, a, b
<1>9. CASE ~(p + o <= n)
  <2>1. (a \o b)[p] = b[p - (n - o)]
    BY <1>2, <1>6, <1>7, <1>9
  <2>2. b[p - (n - o)] = s[p + o - n]
    BY <1>2, <1>5, <1>7, <1>9
  <2> QED BY <1>9, <2>1, <2>2, Zenon DEF n, a, b
<1> QED BY <1>8, <1>9, Zenon

\* The catalogs of a profile are distinct and there is at least one.
LEMMA OrderType ==
  ASSUME setting \in Settings
  PROVE  /\ N \in Nat \ {0} /\ CatalogOrder \in [1..N -> Nat]
         /\ \A i, j \in 1..N : CatalogOrder[i] = CatalogOrder[j] => i = j
         /\ Catalogs = {CatalogOrder[i] : i \in 1..N}
         /\ policy.conditioning \in Nat /\ policy.measured \in Nat
<1>1. /\ CatalogOrder \in Seq(Nat) /\ CatalogOrder # <<>>
      /\ \A i, j \in DOMAIN CatalogOrder : CatalogOrder[i] = CatalogOrder[j] => i = j
      /\ policy \in [conditioning : Nat, measured : Nat]
  BY SweepAssumption, Zenon DEF CatalogOrder, policy
<1>2. N \in Nat \ {0} /\ CatalogOrder \in [1..N -> Nat] /\ DOMAIN CatalogOrder = 1..N
  BY <1>1, LenProperties DEF N
<1> QED BY <1>1, <1>2, Zenon DEF Catalogs

\* schedule_rounds: the order of a repetition is the order of the profile, moved on.
Slot(index, position) ==
  LET offset == index % N
  IN  IF position + offset <= N THEN position + offset ELSE position + offset - N

\* What stands at a position of a rotated order.
LEMMA RotatedAt ==
  ASSUME setting \in Settings, NEW index \in Nat, NEW position \in 1..N
  PROVE  /\ Slot(index, position) \in 1..N
         /\ Rotated(index)[position] = CatalogOrder[Slot(index, position)]
<1> DEFINE offset == index % N
<1>1. /\ N \in Nat \ {0} /\ CatalogOrder \in [1..N -> Nat] /\ N = Len(CatalogOrder)
      /\ CatalogOrder \in Seq(Nat)
  BY OrderType, SweepAssumption DEF N, CatalogOrder
<1>2. offset \in 0..(N - 1)
  BY <1>1, DivMod, Zenon
<1> HIDE DEF offset
<1>3. Slot(index, position) = IF position + offset <= N THEN position + offset
                                                        ELSE position + offset - N
  BY Zenon DEF Slot, offset
<1>4. Slot(index, position) \in 1..N
  BY <1>1, <1>2, <1>3
<1>5. Rotated(index) = SubSeq(CatalogOrder, offset + 1, N) \o SubSeq(CatalogOrder, 1, offset)
  BY Zenon DEF Rotated, offset
<1>6. Rotated(index)[position] = CatalogOrder[IF position + offset <= N THEN position + offset
                                                                   ELSE position + offset - N]
  BY <1>1, <1>2, <1>5, MovedOn, Zenon
<1> QED BY <1>1, <1>2, <1>3, <1>4, <1>6

\* In one repetition every catalog has one position.
LEMMA RotatedPermutes ==
  ASSUME setting \in Settings, NEW index \in Nat
  PROVE  /\ \A i, j \in 1..N : Rotated(index)[i] = Rotated(index)[j] => i = j
         /\ \A c \in Catalogs : \E i \in 1..N : Rotated(index)[i] = c
         /\ \A i \in 1..N : Rotated(index)[i] \in Catalogs
<1> DEFINE offset == index % N
<1>1. offset \in 0..(N - 1) /\ N \in Nat \ {0}
  BY OrderType, DivMod, Zenon
<1>2. \A i \in 1..N : Slot(index, i) = IF i + offset <= N THEN i + offset ELSE i + offset - N
  BY Zenon DEF Slot
<1> HIDE DEF offset
<1>3. \A i, j \in 1..N : Slot(index, i) = Slot(index, j) => i = j
  BY <1>1, <1>2
<1>4. \A k \in 1..N : \E i \in 1..N : Slot(index, i) = k
  <2> TAKE k \in 1..N
  <2>1. CASE k > offset
    <3>1. k - offset \in 1..N /\ Slot(index, k - offset) = k
      BY <1>1, <1>2, <2>1
    <3> QED BY <3>1
  <2>2. CASE k <= offset
    <3>1. k - offset + N \in 1..N /\ Slot(index, k - offset + N) = k
      BY <1>1, <1>2, <2>2
    <3> QED BY <3>1
  <2> QED BY <1>1, <2>1, <2>2
<1>5. \A i \in 1..N : Slot(index, i) \in 1..N /\ Rotated(index)[i] = CatalogOrder[Slot(index, i)]
  BY RotatedAt, Zenon
<1>6. /\ \A i, j \in 1..N : CatalogOrder[i] = CatalogOrder[j] => i = j
      /\ Catalogs = {CatalogOrder[i] : i \in 1..N}
  BY OrderType, Zenon
<1>7. \A i, j \in 1..N : Rotated(index)[i] = Rotated(index)[j] => i = j
  BY <1>3, <1>5, <1>6
<1>8. \A c \in Catalogs : \E i \in 1..N : Rotated(index)[i] = c
  BY <1>4, <1>5, <1>6
<1>9. \A i \in 1..N : Rotated(index)[i] \in Catalogs
  BY <1>5, <1>6, Zenon
<1> QED BY <1>7, <1>8, <1>9, Zenon

\* In N successive repetitions every catalog has every position once.
LEMMA PositionOnce ==
  ASSUME setting \in Settings, NEW first \in Nat, NEW c \in Catalogs, NEW position \in 1..N
  PROVE  /\ \E i \in first..(first + N - 1) : Rotated(i)[position] = c
         /\ \A i, j \in first..(first + N - 1) :
              Rotated(i)[position] = c /\ Rotated(j)[position] = c => i = j
<1>1. N \in Nat \ {0}
  BY OrderType, Zenon
<1>2. PICK k \in 1..N : CatalogOrder[k] = c
  BY OrderType
<1> DEFINE o == IF k >= position THEN k - position ELSE k - position + N
<1>3. o \in 0..(N - 1)
  BY <1>1
<1>4. \A i \in Nat : Slot(i, position) = k <=> i % N = o
  <2> TAKE i \in Nat
  <2> DEFINE offset == i % N
  <2>1. offset \in 0..(N - 1)
    BY <1>1, DivMod, Zenon
  <2>2. Slot(i, position) = IF position + offset <= N THEN position + offset
                                                      ELSE position + offset - N
    BY Zenon DEF Slot
  <2> HIDE DEF offset
  <2>3. Slot(i, position) = k <=> offset = o
    BY <1>1, <2>1, <2>2
  <2> QED BY <2>3, Zenon DEF offset
<1> HIDE DEF o
<1>5. \A i \in Nat : Rotated(i)[position] = c <=> Slot(i, position) = k
  <2>1. \A i, j \in 1..N : CatalogOrder[i] = CatalogOrder[j] => i = j
    BY OrderType, Zenon
  <2>2. \A i \in Nat : /\ Slot(i, position) \in 1..N
                      /\ Rotated(i)[position] = CatalogOrder[Slot(i, position)]
    BY RotatedAt, Zenon
  <2> QED BY <1>2, <2>1, <2>2
<1>6. \A i \in first..(first + N - 1) : i \in Nat
  BY <1>1
<1>7. /\ \E i \in first..(first + N - 1) : i % N = o
      /\ \A i, j \in first..(first + N - 1) : i % N = o /\ j % N = o => i = j
  BY <1>1, <1>3, OneRemainder, Zenon
<1> QED BY <1>4, <1>5, <1>6, <1>7, Zenon

\* The numbers of an accepted plan.
LEMMA PlanType ==
  ASSUME setting \in Settings, PlanAccepted
  PROVE  /\ N \in Nat \ {0} /\ policy.conditioning \in Nat /\ policy.measured = N
         /\ Total = N * (policy.conditioning + N) /\ Total \in Nat
         /\ Repetitions = 1..(policy.conditioning + N)
<1>1. N \in Nat \ {0} /\ policy.conditioning \in Nat /\ policy.measured = N
  BY OrderType, Zenon DEF PlanAccepted
<1>2. Total = N * (policy.conditioning + N) /\ Repetitions = 1..(policy.conditioning + N)
  BY <1>1, Zenon DEF Total, Repetitions
<1>3. N * (policy.conditioning + N) \in Nat
  BY <1>1
<1> QED BY <1>1, <1>2, <1>3, Zenon

\* The fields of an entry of the schedule.
LEMMA EntryFields ==
  ASSUME NEW a, NEW b, NEW c, NEW d,
         NEW e, e = [repetition |-> a, kind |-> b, position |-> c, catalog |-> d]
  PROVE  e.repetition = a /\ e.kind = b /\ e.position = c /\ e.catalog = d
OBVIOUS

\* The i-th round of the sweep: its repetition and position, and i from them.
LEMMA ScheduledAt ==
  ASSUME setting \in Settings, PlanAccepted, NEW i \in 1..Total
  PROVE  LET e == Scheduled(i - 1)
         IN  /\ e.repetition \in Repetitions /\ e.position \in 1..N
             /\ i = (e.repetition - 1) * N + e.position
             /\ e.kind = Kind(e.repetition)
             /\ e.catalog = Rotated(e.repetition - 1)[e.position] /\ e.catalog \in Catalogs
<1> DEFINE q == (i - 1) \div N
           r == (i - 1) % N
           e == Scheduled(i - 1)
<1>1. /\ N \in Nat \ {0} /\ Total = N * (policy.conditioning + N) /\ Total \in Nat
      /\ policy.conditioning \in Nat /\ Repetitions = 1..(policy.conditioning + N)
  BY PlanType, Zenon
<1>2. i - 1 \in Nat /\ i - 1 < N * (policy.conditioning + N) /\ policy.conditioning + N \in Nat
  BY <1>1
<1>3. q \in Nat /\ r \in 0..(N - 1) /\ i - 1 = N * q + r
  BY <1>1, <1>2, DivMod, Zenon
<1>4. q < policy.conditioning + N
  BY <1>1, <1>2, RowBound, Zenon
<1>a. e = [repetition |-> q + 1, kind |-> Kind(q + 1), position |-> r + 1,
           catalog |-> Rotated((q + 1) - 1)[r + 1]]
  BY Zenon DEF Scheduled
<1> HIDE DEF q, r, e
<1>5. /\ e.repetition = q + 1 /\ e.position = r + 1 /\ e.kind = Kind(q + 1)
      /\ e.catalog = Rotated((q + 1) - 1)[r + 1]
  BY <1>a, EntryFields, Zenon
<1>6. q + 1 \in Repetitions /\ r + 1 \in 1..N /\ (q + 1) - 1 = q
  BY <1>1, <1>3, <1>4
<1>7. i = (e.repetition - 1) * N + e.position
  BY <1>1, <1>2, <1>3, <1>5, <1>6
<1>8. Rotated(q)[r + 1] \in Catalogs
  BY <1>3, <1>6, RotatedPermutes, Zenon
<1>9. e.catalog = Rotated(e.repetition - 1)[e.position] /\ e.catalog \in Catalogs
  <2>1. Rotated(e.repetition - 1)[e.position] = Rotated(q)[r + 1]
    BY <1>5, <1>6, Zenon
  <2>2. e.catalog = Rotated(q)[r + 1]
    BY <1>5, <1>6, Zenon
  <2> QED BY <2>1, <2>2, <1>8, Zenon
<1>10. e.repetition \in Repetitions /\ e.position \in 1..N /\ e.kind = Kind(e.repetition)
  BY <1>5, <1>6, Zenon
<1> QED BY <1>7, <1>9, <1>10, Zenon DEF e

\* Every repetition has every position.
LEMMA ScheduledOf ==
  ASSUME setting \in Settings, PlanAccepted, NEW rep \in Repetitions, NEW pos \in 1..N
  PROVE  /\ (rep - 1) * N + pos \in 1..Total
         /\ Scheduled(((rep - 1) * N + pos) - 1).repetition = rep
         /\ Scheduled(((rep - 1) * N + pos) - 1).position = pos
<1>1. /\ N \in Nat \ {0} /\ Total = N * (policy.conditioning + N)
      /\ policy.conditioning \in Nat /\ Repetitions = 1..(policy.conditioning + N)
  BY PlanType, Zenon
<1>2. /\ rep - 1 \in Nat /\ rep - 1 < policy.conditioning + N /\ pos - 1 \in 0..(N - 1)
      /\ policy.conditioning + N \in Nat
  BY <1>1
<1>3. (rep - 1) * N + pos \in 1..Total
  BY <1>1, <1>2, InRows, Zenon
<1>4. ((rep - 1) * N + pos) - 1 = (rep - 1) * N + (pos - 1)
  BY <1>1, <1>2
<1>5. ((rep - 1) * N + (pos - 1)) \div N = rep - 1 /\ ((rep - 1) * N + (pos - 1)) % N = pos - 1
  BY <1>1, <1>2, DivUnique, Zenon
<1>6. /\ Scheduled(((rep - 1) * N + pos) - 1).repetition = rep - 1 + 1
      /\ Scheduled(((rep - 1) * N + pos) - 1).position = pos - 1 + 1
  BY <1>4, <1>5, Zenon DEF Scheduled
<1>7. rep - 1 + 1 = rep /\ pos - 1 + 1 = pos
  BY <1>1, <1>2
<1> QED BY <1>3, <1>6, <1>7, Zenon

\* A catalog has one round in every repetition.
LEMMA OneRoundEach ==
  ASSUME setting \in Settings, PlanAccepted
  PROVE  /\ \A i, j \in 1..Total :
              /\ Scheduled(i - 1).repetition = Scheduled(j - 1).repetition
              /\ Scheduled(i - 1).catalog = Scheduled(j - 1).catalog
              => i = j
         /\ \A rep \in Repetitions, c \in Catalogs : \E i \in 1..Total :
              Scheduled(i - 1).repetition = rep /\ Scheduled(i - 1).catalog = c
<1>0. \A rep \in Repetitions : rep - 1 \in Nat
  BY PlanType
<1>1. ASSUME NEW i \in 1..Total, NEW j \in 1..Total,
             Scheduled(i - 1).repetition = Scheduled(j - 1).repetition,
             Scheduled(i - 1).catalog = Scheduled(j - 1).catalog
      PROVE  i = j
  <2> DEFINE d == Scheduled(i - 1)
             e == Scheduled(j - 1)
  <2>1. /\ d.repetition \in Repetitions /\ d.position \in 1..N
        /\ i = (d.repetition - 1) * N + d.position
        /\ d.catalog = Rotated(d.repetition - 1)[d.position]
    BY ScheduledAt, Zenon
  <2>2. /\ e.position \in 1..N /\ j = (e.repetition - 1) * N + e.position
        /\ e.catalog = Rotated(e.repetition - 1)[e.position]
    BY ScheduledAt, Zenon
  <2>3. d.repetition = e.repetition /\ d.catalog = e.catalog
    BY <1>1, Zenon
  <2> HIDE DEF d, e
  <2>4. Rotated(d.repetition - 1)[d.position] = Rotated(d.repetition - 1)[e.position]
    BY <2>1, <2>2, <2>3, Zenon
  <2>5. d.position = e.position
    BY <1>0, <2>1, <2>2, <2>4, RotatedPermutes, Zenon
  <2> QED BY <2>1, <2>2, <2>3, <2>5, Zenon
<1>2. ASSUME NEW rep \in Repetitions, NEW c \in Catalogs
      PROVE  \E i \in 1..Total : Scheduled(i - 1).repetition = rep /\ Scheduled(i - 1).catalog = c
  <2>1. PICK pos \in 1..N : Rotated(rep - 1)[pos] = c
    BY <1>0, RotatedPermutes, Zenon
  <2> DEFINE i == (rep - 1) * N + pos
  <2>2. i \in 1..Total /\ Scheduled(i - 1).repetition = rep /\ Scheduled(i - 1).position = pos
    BY ScheduledOf, Zenon
  <2> HIDE DEF i
  <2>3. Scheduled(i - 1).catalog =
          Rotated(Scheduled(i - 1).repetition - 1)[Scheduled(i - 1).position]
    BY <2>2, ScheduledAt, Zenon
  <2>4. Scheduled(i - 1).catalog = c
    BY <2>1, <2>2, <2>3, Zenon
  <2> QED BY <2>2, <2>4, Zenon
<1> QED BY <1>1, <1>2, Zenon

----------------------------------------------------------------------------
(* The inductive invariant *)

\* A list of rounds that the sweep produces: each is the one the schedule has for it.
Follows(some) ==
  /\ Len(some) <= Total
  /\ \A i \in 1..Len(some) :
       /\ some[i].repetition = Scheduled(i - 1).repetition
       /\ some[i].kind = Scheduled(i - 1).kind
       /\ some[i].position = Scheduled(i - 1).position
       /\ some[i].catalog = Scheduled(i - 1).catalog

\* The program holds a plan from its first round to its report.
Planned == (stage \in {"rounds", "publish"} \/ rounds # <<>>) => PlanAccepted

\* The report tells which catalogs passed all their rounds, and whether all of them did.
ReportTells ==
  /\ \A c \in Catalogs :
       report.rank[c] > 0 <=> \A i \in 1..Len(rounds) : rounds[i].catalog = c => Passed(rounds[i])
  /\ report.passed <=> \A i \in 1..Len(rounds) : Passed(rounds[i])
Reported == stage = "publish" => Len(rounds) = Total /\ ReportTells

\* What a fixture that is left tells of the round that left it.
LeftByItsRound ==
  \A l \in left :
    /\ l.run \in Nat /\ l.run <= run
    /\ l.run = run =>
         \/ stage = "exited"
         \/ \E i \in 1..Len(rounds) : l.fixture = Fixture(rounds[i].catalog, rounds[i].repetition)

\* The transcript under the output path is the one of a complete sweep.
EvidenceComplete ==
  /\ evidence.run \in Nat
  /\ Published => /\ PlanAccepted /\ evidence.rounds \in Seq(Transcripts)
                  /\ Len(evidence.rounds) = Total /\ Follows(evidence.rounds)

\* The exit codes of a start that published its transcript.
ExitAfterReport ==
  /\ stage # "exited" => exit = "none"
  /\ exit \in {"0", "2"} =>
       /\ evidence = [run |-> run, rounds |-> rounds, report |-> report]
       /\ ReportTells
       /\ exit = ExitCode

SweepInv ==
  /\ setting \in Settings /\ run \in Nat \ {0} /\ rounds \in Seq(Transcripts)
  /\ Follows(rounds)
  /\ Planned
  /\ Reported
  /\ LeftByItsRound
  /\ EvidenceComplete
  /\ ExitAfterReport
  /\ RankedIffFaultless
  /\ FailuresDoNotSpread

----------------------------------------------------------------------------
(* The rounds of a complete sweep *)

\* How many rounds of a kind a catalog has.
Expected(kind) == IF kind = "conditioning" THEN policy.conditioning ELSE policy.measured
ScheduledFor(catalog, kind) ==
  {i \in 1..Total : Scheduled(i - 1).catalog = catalog /\ Scheduled(i - 1).kind = kind}

\* The repetitions of a kind follow one another (schedule_rounds).
LEMMA KindRange ==
  ASSUME setting \in Settings, PlanAccepted, NEW kind \in {"conditioning", "measured"}
  PROVE  LET K == {rep \in Repetitions : Kind(rep) = kind}
         IN  IsFiniteSet(K) /\ Cardinality(K) = Expected(kind) /\ Expected(kind) \in Nat
<1> DEFINE K == {rep \in Repetitions : Kind(rep) = kind}
           c == policy.conditioning
<1>1. /\ c \in Nat /\ N \in Nat \ {0} /\ Repetitions = 1..(c + N) /\ policy.measured = N
  BY PlanType, Zenon DEF PlanAccepted
<1>2. K = IF kind = "conditioning" THEN 1..c ELSE (c + 1)..(c + N)
  BY <1>1 DEF Kind
<1> HIDE DEF K, c
<1>3. IsFiniteSet(1..c) /\ Cardinality(1..c) = c
  BY <1>1, FS_Interval
<1>4. IsFiniteSet((c + 1)..(c + N)) /\ Cardinality((c + 1)..(c + N)) = N
  BY <1>1, FS_Interval
<1>5. Expected(kind) = IF kind = "conditioning" THEN c ELSE N
  BY <1>1, Zenon DEF Expected, c
<1>6. CASE kind = "conditioning"
  BY <1>1, <1>2, <1>3, <1>5, <1>6, Zenon DEF K
<1>7. CASE kind = "measured"
  BY <1>1, <1>2, <1>4, <1>5, <1>7, Zenon DEF K
<1> QED BY <1>6, <1>7, Zenon

\* Every catalog has its rounds of either kind in the schedule.
LEMMA ScheduledCount ==
  ASSUME setting \in Settings, PlanAccepted, NEW c \in Catalogs,
         NEW kind \in {"conditioning", "measured"}
  PROVE  /\ IsFiniteSet(ScheduledFor(c, kind))
         /\ Cardinality(ScheduledFor(c, kind)) = Expected(kind)
<1> DEFINE S == ScheduledFor(c, kind)
           K == {rep \in Repetitions : Kind(rep) = kind}
           f == [i \in S |-> Scheduled(i - 1).repetition]
<1>1. Total \in Nat
  BY PlanType, Zenon
<1>2. IsFiniteSet(S)
  <2>1. IsFiniteSet(1..Total)
    BY <1>1, FS_Interval
  <2>2. S \subseteq 1..Total
    BY Zenon DEF ScheduledFor
  <2> QED BY <2>1, <2>2, FS_Subset, Zenon
<1>3. \A i \in S : /\ i \in 1..Total /\ Scheduled(i - 1).catalog = c
                   /\ Scheduled(i - 1).kind = kind
  BY Zenon DEF ScheduledFor
<1>4. \A i \in S : Scheduled(i - 1).repetition \in K
  BY <1>3, ScheduledAt, Zenon
<1>5. \A i, j \in S : Scheduled(i - 1).repetition = Scheduled(j - 1).repetition => i = j
  BY <1>3, OneRoundEach, ZenonT(60)
<1>6. \A rep \in K : \E i \in S : Scheduled(i - 1).repetition = rep
  <2> SUFFICES ASSUME NEW rep \in K
               PROVE  \E i \in S : Scheduled(i - 1).repetition = rep
    OBVIOUS
  <2>1. PICK i \in 1..Total : Scheduled(i - 1).repetition = rep /\ Scheduled(i - 1).catalog = c
    BY OneRoundEach, Zenon
  <2>2. Scheduled(i - 1).kind = kind
    BY <2>1, ScheduledAt, Zenon
  <2>3. i \in S
    BY <2>1, <2>2, Zenon DEF ScheduledFor
  <2> QED BY <2>1, <2>3, Zenon
<1> HIDE DEF S, K
<1>7. f \in Bijection(S, K)
  <2>1. f \in [S -> K]
    BY <1>4, Zenon
  <2>2. \A a, b \in S : f[a] = f[b] => a = b
    BY <1>5, Zenon
  <2>3. \A t \in K : \E a \in S : f[a] = t
    BY <1>6, Zenon
  <2>4. IsInjective(f)
    BY <2>2, Zenon DEF IsInjective
  <2> HIDE DEF f
  <2> QED BY <2>1, <2>3, <2>4, Zenon DEF Bijection, Injection, Surjection
<1>8. ExistsBijection(S, K)
  BY <1>7, Zenon DEF ExistsBijection
<1>9. Cardinality(S) = Cardinality(K)
  BY <1>2, <1>8, FS_Bijection, Zenon
<1> QED BY <1>2, <1>9, KindRange, Zenon DEF S, K

\* The rounds of a sweep that is through.
AllRounds ==
  /\ setting \in Settings /\ PlanAccepted /\ rounds \in Seq(Transcripts)
  /\ Len(rounds) = Total /\ Follows(rounds)

\* What the sweep holds of a catalog is what the schedule has of it.
LEMMA RoundsOfScheduled ==
  ASSUME AllRounds, NEW c \in Catalogs, NEW kind \in {"conditioning", "measured"}
  PROVE  /\ RoundsOf(c, kind) = {i \in 1..Total : rounds[i].catalog = c /\ rounds[i].kind = kind}
         /\ IsFiniteSet(RoundsOf(c, kind)) /\ Cardinality(RoundsOf(c, kind)) = Expected(kind)
<1>1. DOMAIN rounds = 1..Total
  BY LenProperties, Zenon DEF AllRounds
<1>2. \A i \in 1..Total : /\ rounds[i].catalog = Scheduled(i - 1).catalog
                          /\ rounds[i].kind = Scheduled(i - 1).kind
  BY Zenon DEF AllRounds, Follows
<1>3. RoundsOf(c, kind) = ScheduledFor(c, kind)
  BY <1>1, <1>2, Zenon DEF RoundsOf, ScheduledFor
<1>4. RoundsOf(c, kind) = {i \in 1..Total : rounds[i].catalog = c /\ rounds[i].kind = kind}
  BY <1>1, Zenon DEF RoundsOf
<1> QED BY <1>3, <1>4, ScheduledCount, Zenon DEF AllRounds

\* A tally is complete when every round passed, and only then (tally).
LEMMA TallyComplete ==
  ASSUME NEW some, IsFiniteSet(some), NEW expected, Cardinality(some) = expected
  PROVE  Tally(some) = Complete(expected) <=> \A i \in some : Passed(rounds[i])
<1> DEFINE passed == {i \in some : Passed(rounds[i])}
           executed == {i \in some : Executed(rounds[i])}
<1>1. ASSUME Tally(some) = Complete(expected)
      PROVE  \A i \in some : Passed(rounds[i])
  <2>1. Tally(some).passed = Complete(expected).passed
    BY <1>1, Zenon
  <2>2. Cardinality(passed) = Cardinality(some)
    BY <2>1 DEF Tally, Complete
  <2>3. passed \subseteq some
    BY Zenon
  <2>4. passed = some
    BY <2>2, <2>3, FS_Subset, Zenon
  <2> QED BY <2>4, Zenon
<1>2. ASSUME \A i \in some : Passed(rounds[i])
      PROVE  Tally(some) = Complete(expected)
  <2>1. passed = some
    BY <1>2, Zenon
  <2>2. executed = some
    BY <1>2, Zenon DEF Passed, Executed
  <2> QED BY <2>1, <2>2, Zenon DEF Tally, Complete
<1> QED BY <1>1, <1>2, Zenon

\* aggregate_catalog finds a catalog faultless when all its rounds passed, and only then.
LEMMA FaultlessMeans ==
  ASSUME AllRounds, NEW c \in Catalogs
  PROVE  Faultless(c) <=> \A i \in 1..Total : rounds[i].catalog = c => Passed(rounds[i])
<1>1. \A kind \in {"conditioning", "measured"} :
         Tally(RoundsOf(c, kind)) = Complete(Expected(kind))
           <=> \A i \in RoundsOf(c, kind) : Passed(rounds[i])
  BY RoundsOfScheduled, TallyComplete, ZenonT(60)
<1>2. \A i \in 1..Total : rounds[i].kind \in {"conditioning", "measured"}
  <2>1. \A i \in 1..Total : rounds[i] \in Transcripts
    BY LenProperties DEF AllRounds
  <2> QED BY <2>1 DEF Transcripts
<1>3. \A i \in 1..Total : rounds[i].catalog = c =>
         i \in RoundsOf(c, "conditioning") \/ i \in RoundsOf(c, "measured")
  BY <1>2, RoundsOfScheduled, Zenon
<1>4. \A kind \in {"conditioning", "measured"} : \A i \in RoundsOf(c, kind) :
         i \in 1..Total /\ rounds[i].catalog = c
  BY RoundsOfScheduled, Zenon
<1>5. Expected("conditioning") = policy.conditioning /\ Expected("measured") = policy.measured
  BY DEF Expected
<1>6. Faultless(c) <=> /\ \A i \in RoundsOf(c, "conditioning") : Passed(rounds[i])
                       /\ \A i \in RoundsOf(c, "measured") : Passed(rounds[i])
  BY <1>1, <1>5, Zenon DEF Faultless
<1> QED BY <1>3, <1>4, <1>6, Zenon

\* aggregate_contention accepts the rounds of the sweep (validate_schedule, aggregate_catalog).
LEMMA AggregationAccepts ==
  ASSUME AllRounds
  PROVE  ~AggregationError
<1> USE DEF AllRounds
<1>1. ScheduleValid
  <2> SUFFICES ASSUME NEW rep \in Repetitions, NEW pos \in 1..N
               PROVE  LET observed == rounds[(rep - 1) * N + pos]
                      IN  /\ observed.repetition = rep
                          /\ observed.kind = Kind(rep)
                          /\ observed.position = pos
                          /\ observed.catalog = Rotated(rep - 1)[pos]
    BY Zenon DEF ScheduleValid
  <2> DEFINE i == (rep - 1) * N + pos
  <2>1. i \in 1..Total /\ Scheduled(i - 1).repetition = rep /\ Scheduled(i - 1).position = pos
    BY ScheduledOf, Zenon
  <2> HIDE DEF i
  <2>2. /\ Scheduled(i - 1).kind = Kind(Scheduled(i - 1).repetition)
        /\ Scheduled(i - 1).catalog =
             Rotated(Scheduled(i - 1).repetition - 1)[Scheduled(i - 1).position]
    BY <2>1, ScheduledAt, Zenon
  <2>3. /\ rounds[i].repetition = Scheduled(i - 1).repetition
        /\ rounds[i].kind = Scheduled(i - 1).kind
        /\ rounds[i].position = Scheduled(i - 1).position
        /\ rounds[i].catalog = Scheduled(i - 1).catalog
    BY <2>1, Zenon DEF Follows
  <2>4. Rotated(Scheduled(i - 1).repetition - 1)[Scheduled(i - 1).position] = Rotated(rep - 1)[pos]
    BY <2>1, Zenon
  <2>5. /\ rounds[i].repetition = rep /\ rounds[i].kind = Kind(rep)
        /\ rounds[i].position = pos /\ rounds[i].catalog = Rotated(rep - 1)[pos]
    BY <2>1, <2>2, <2>3, <2>4, Zenon
  <2> QED BY <2>5, Zenon DEF i
<1>2. \A c \in Catalogs : Faultless(c) => \A i \in RoundsOf(c, "measured") : Passed(rounds[i])
  <2> SUFFICES ASSUME NEW c \in Catalogs, Faultless(c), NEW i \in RoundsOf(c, "measured")
               PROVE  Passed(rounds[i])
    BY Zenon
  <2>1. i \in 1..Total /\ rounds[i].catalog = c
    BY RoundsOfScheduled, Zenon
  <2>2. \A j \in 1..Total : rounds[j].catalog = c => Passed(rounds[j])
    BY FaultlessMeans, Zenon
  <2> QED BY <2>1, <2>2, Zenon
<1> QED BY <1>1, <1>2, Zenon DEF AggregationError

\* The report ranks exactly the catalogs all whose rounds passed, and says that the sweep
\* passed when these are all catalogs (aggregate_contention).
LEMMA AggregatedTells ==
  ASSUME AllRounds
  PROVE  /\ \A c \in Catalogs : Aggregated.rank[c] > 0 <=> Faultless(c)
         /\ Aggregated.passed <=> \A c \in Catalogs : Faultless(c)
<1> DEFINE passing == {c \in Catalogs : Faultless(c)}
           m == [c \in passing |-> Measurements(c)]
           ahead(c) == {d \in passing : Before(m, d, c)}
<1>1. /\ Aggregated.rank =
           [c \in Catalogs |-> IF c \in passing THEN 1 + Cardinality(ahead(c)) ELSE 0]
      /\ Aggregated.passed = (passing = Catalogs)
  BY Zenon DEF Aggregated
<1>2. IsFiniteSet(Catalogs)
  <2>1. N \in Nat /\ IsFiniteSet(1..N)
    BY OrderType, FS_Interval DEF AllRounds
  <2> DEFINE f == [i \in 1..N |-> CatalogOrder[i]]
  <2>2. f \in Surjection(1..N, Catalogs)
    BY Zenon DEF Surjection, Catalogs
  <2> HIDE DEF f
  <2> QED BY <2>1, <2>2, FS_Surjection, Zenon
<1>3. \A c \in Catalogs : IsFiniteSet(ahead(c)) /\ Cardinality(ahead(c)) \in Nat
  <2>1. \A c \in Catalogs : ahead(c) \subseteq Catalogs
    BY Zenon
  <2> HIDE DEF ahead
  <2> QED BY <1>2, <2>1, FS_Subset, FS_CardinalityType, Zenon
<1> HIDE DEF ahead
<1>4. \A c \in Catalogs :
         Aggregated.rank[c] = IF c \in passing THEN 1 + Cardinality(ahead(c)) ELSE 0
  BY <1>1, Zenon
<1>5. \A c \in Catalogs : c \in passing <=> Faultless(c)
  BY Zenon
<1>6. passing = Catalogs <=> \A c \in Catalogs : Faultless(c)
  BY Zenon
<1> HIDE DEF passing
<1>7. \A c \in Catalogs : Aggregated.rank[c] > 0 <=> c \in passing
  BY <1>3, <1>4, SMTT(60)
<1> QED BY <1>1, <1>5, <1>6, <1>7, Zenon

\* The rounds of every repetition of a catalog passed when all its rounds passed.
LEMMA EveryRepetition ==
  ASSUME AllRounds, NEW c \in Catalogs
  PROVE  Faultless(c) <=>
           \A rep \in Repetitions : \E i \in DOMAIN rounds :
             LET r == rounds[i]
             IN  r.catalog = c /\ r.repetition = rep /\ r.outcome = "passed"
<1>0. DOMAIN rounds = 1..Total
  BY LenProperties, Zenon DEF AllRounds
<1>1. \A i \in 1..Total : /\ rounds[i].repetition = Scheduled(i - 1).repetition
                          /\ rounds[i].catalog = Scheduled(i - 1).catalog
                          /\ rounds[i].repetition \in Repetitions
  BY ScheduledAt, Zenon DEF AllRounds, Follows
<1>a. \A i, j \in 1..Total :
         /\ Scheduled(i - 1).repetition = Scheduled(j - 1).repetition
         /\ Scheduled(i - 1).catalog = Scheduled(j - 1).catalog
         => i = j
  BY OneRoundEach, Zenon DEF AllRounds
<1>b. \A rep \in Repetitions : \E i \in 1..Total :
         Scheduled(i - 1).repetition = rep /\ Scheduled(i - 1).catalog = c
  BY OneRoundEach, ZenonT(60) DEF AllRounds
<1>2. \A i, j \in 1..Total :
         rounds[i].repetition = rounds[j].repetition /\ rounds[i].catalog = rounds[j].catalog
           => i = j
  <2> SUFFICES ASSUME NEW i \in 1..Total, NEW j \in 1..Total,
                      rounds[i].repetition = rounds[j].repetition,
                      rounds[i].catalog = rounds[j].catalog
               PROVE  i = j
    BY Zenon
  <2>1. /\ Scheduled(i - 1).repetition = Scheduled(j - 1).repetition
        /\ Scheduled(i - 1).catalog = Scheduled(j - 1).catalog
    BY <1>1, Zenon
  <2> QED BY <2>1, <1>a, Zenon
<1>3. \A rep \in Repetitions : \E i \in 1..Total :
         rounds[i].repetition = rep /\ rounds[i].catalog = c
  <2> SUFFICES ASSUME NEW rep \in Repetitions
               PROVE  \E i \in 1..Total : rounds[i].repetition = rep /\ rounds[i].catalog = c
    BY Zenon
  <2>1. PICK i \in 1..Total : Scheduled(i - 1).repetition = rep /\ Scheduled(i - 1).catalog = c
    BY <1>b, Zenon
  <2>2. rounds[i].repetition = rep /\ rounds[i].catalog = c
    BY <1>1, <2>1, Zenon
  <2> QED BY <2>2, Zenon
<1>4. (\A i \in 1..Total : rounds[i].catalog = c => Passed(rounds[i])) <=>
        \A rep \in Repetitions : \E i \in 1..Total :
          rounds[i].catalog = c /\ rounds[i].repetition = rep /\ Passed(rounds[i])
  <2>1. ASSUME \A i \in 1..Total : rounds[i].catalog = c => Passed(rounds[i]),
               NEW rep \in Repetitions
        PROVE  \E i \in 1..Total :
                 rounds[i].catalog = c /\ rounds[i].repetition = rep /\ Passed(rounds[i])
    BY <1>3, <2>1, Zenon
  <2>2. ASSUME \A rep \in Repetitions : \E i \in 1..Total :
                 rounds[i].catalog = c /\ rounds[i].repetition = rep /\ Passed(rounds[i]),
               NEW j \in 1..Total, rounds[j].catalog = c
        PROVE  Passed(rounds[j])
    <3>1. PICK i \in 1..Total :
            /\ rounds[i].catalog = c /\ rounds[i].repetition = rounds[j].repetition
            /\ Passed(rounds[i])
      BY <1>1, <2>2, Zenon
    <3>2. i = j
      BY <1>2, <2>2, <3>1, Zenon
    <3> QED BY <3>1, <3>2, Zenon
  <2> QED BY <2>1, <2>2, Zenon
<1> QED BY <1>0, <1>4, FaultlessMeans, Zenon DEF Passed

\* In the measured rounds of a sweep that is through a catalog has every position once.
LEMMA OneMeasuredRound ==
  ASSUME setting \in Settings, PlanAccepted, NEW some \in Seq(Transcripts), Len(some) = Total,
         Follows(some), NEW c \in Catalogs, NEW position \in 1..N
  PROVE  Cardinality({i \in {i \in DOMAIN some : some[i].catalog = c /\ some[i].kind = "measured"} :
                        some[i].position = position}) = 1
<1> DEFINE S == {i \in {i \in DOMAIN some : some[i].catalog = c /\ some[i].kind = "measured"} :
                   some[i].position = position}
           first == policy.conditioning
<1>0. /\ first \in Nat /\ N \in Nat \ {0} /\ Repetitions = 1..(first + N)
  BY PlanType, Zenon
<1>1. DOMAIN some = 1..Total
  BY LenProperties, Zenon
<1>2. \A i \in 1..Total : /\ some[i].repetition = Scheduled(i - 1).repetition
                          /\ some[i].kind = Scheduled(i - 1).kind
                          /\ some[i].position = Scheduled(i - 1).position
                          /\ some[i].catalog = Scheduled(i - 1).catalog
  BY Zenon DEF Follows
<1>3. \A rep \in Repetitions : Kind(rep) = "measured" <=> rep - 1 \in first..(first + N - 1)
  BY <1>0 DEF Kind
<1> HIDE DEF first
<1>4. PICK index \in first..(first + N - 1) : Rotated(index)[position] = c
  BY <1>0, PositionOnce, Zenon
<1> DEFINE rep == index + 1
           k == (rep - 1) * N + position
<1>5. rep \in Repetitions /\ rep - 1 = index
  BY <1>0, <1>4
<1> HIDE DEF rep
<1>6. k \in 1..Total /\ Scheduled(k - 1).repetition = rep /\ Scheduled(k - 1).position = position
  BY <1>5, ScheduledOf, Zenon
<1> HIDE DEF k
<1>7. k \in S
  <2>1. /\ Scheduled(k - 1).kind = Kind(Scheduled(k - 1).repetition)
        /\ Scheduled(k - 1).catalog =
             Rotated(Scheduled(k - 1).repetition - 1)[Scheduled(k - 1).position]
    BY <1>6, ScheduledAt, Zenon
  <2>2. Scheduled(k - 1).kind = "measured"
    BY <1>3, <1>4, <1>5, <1>6, <2>1, Zenon
  <2>3. Scheduled(k - 1).catalog = Rotated(index)[position]
    BY <1>5, <1>6, <2>1, ZenonT(60)
  <2>4. some[k].catalog = c /\ some[k].kind = "measured" /\ some[k].position = position
    BY <1>2, <1>4, <1>6, <2>2, <2>3, Zenon
  <2> QED BY <1>1, <1>6, <2>4, Zenon
<1>8. ASSUME NEW j \in S
      PROVE  j = k
  <2>1. j \in 1..Total /\ some[j].catalog = c /\ some[j].kind = "measured"
        /\ some[j].position = position
    BY <1>1, Zenon
  <2> DEFINE e == Scheduled(j - 1)
  <2>2. e.catalog = c /\ e.kind = "measured" /\ e.position = position
    BY <1>2, <2>1, Zenon
  <2>3. /\ e.repetition \in Repetitions /\ j = (e.repetition - 1) * N + e.position
        /\ e.kind = Kind(e.repetition) /\ e.catalog = Rotated(e.repetition - 1)[e.position]
    BY <2>1, ScheduledAt, Zenon
  <2> HIDE DEF e
  <2>4. e.repetition - 1 \in first..(first + N - 1)
    BY <1>3, <2>2, <2>3, ZenonT(60)
  <2>5. Rotated(e.repetition - 1)[position] = c
    BY <2>2, <2>3, Zenon
  <2>6. \A a, b \in first..(first + N - 1) :
           Rotated(a)[position] = c /\ Rotated(b)[position] = c => a = b
    BY <1>0, PositionOnce, ZenonT(60)
  <2>7. e.repetition - 1 = index
    BY <1>4, <2>4, <2>5, <2>6, Zenon
  <2> QED BY <1>5, <2>2, <2>3, <2>7, Zenon DEF k
<1> HIDE DEF S
<1>9. S = {k}
  BY <1>7, <1>8, ZenonT(60)
<1> QED BY <1>9, FS_Singleton, Zenon DEF S

----------------------------------------------------------------------------
(* Steps that leave a part of the state alone *)

\* The plan is the one of the setting.
LEMMA SettingKept ==
  ASSUME setting' = setting
  PROVE  /\ Total' = Total /\ N' = N /\ Catalogs' = Catalogs /\ Repetitions' = Repetitions
         /\ PlanAccepted' <=> PlanAccepted
         /\ Transcripts' = Transcripts
         /\ \A i : Scheduled(i)' = Scheduled(i)
<1>1. N' = N /\ CatalogOrder' = CatalogOrder /\ policy' = policy
  BY Zenon DEF N, CatalogOrder, policy
<1>2. Catalogs' = Catalogs
  BY <1>1, Zenon DEF Catalogs
<1>3. Total' = Total /\ Repetitions' = Repetitions /\ (PlanAccepted' <=> PlanAccepted)
  BY <1>1, Zenon DEF Total, Repetitions, PlanAccepted
<1>4. Transcripts' = Transcripts
  BY <1>1, <1>2, Zenon DEF Transcripts
<1>5. \A i : Scheduled(i)' = Scheduled(i)
  BY <1>1, Zenon DEF Scheduled, Kind, Rotated
<1> QED BY <1>1, <1>2, <1>3, <1>4, <1>5, Zenon

\* The rounds so far.
LEMMA RoundsKept ==
  ASSUME setting' = setting, rounds' = rounds, rounds \in Seq(Transcripts), Follows(rounds)
  PROVE  (rounds \in Seq(Transcripts))' /\ Follows(rounds)'
BY SettingKept, Zenon DEF Follows

\* The transcript under the output path.
LEMMA EvidenceKept ==
  ASSUME setting' = setting, evidence' = evidence, EvidenceComplete, RankedIffFaultless
  PROVE  EvidenceComplete' /\ RankedIffFaultless'
<1>1. Published' <=> Published
  BY Zenon DEF Published
<1>2. Follows(evidence.rounds)' <=> Follows(evidence.rounds)
  BY SettingKept, Zenon DEF Follows
<1>3. EvidenceComplete'
  BY <1>1, <1>2, SettingKept, Zenon DEF EvidenceComplete
<1>4. RankedIffFaultless'
  BY <1>1, SettingKept, SMTT(60) DEF RankedIffFaultless
<1> QED BY <1>3, <1>4, Zenon

\* The report.
LEMMA ReportKept ==
  ASSUME setting' = setting, rounds' = rounds, report' = report, ReportTells
  PROVE  ReportTells'
BY SettingKept, Zenon DEF ReportTells, Passed

\* Exit codes that tell nothing of the transcript.
LEMMA NothingTold ==
  ASSUME stage' # "publish", exit' \in {"none", "1", "killed"},
         stage' # "exited" => exit' = "none"
  PROVE  Reported' /\ ExitAfterReport'
<1>1. exit' \notin {"0", "2"}
  OBVIOUS
<1> QED BY <1>1, Zenon DEF Reported, ExitAfterReport

\* What was left, and by which round.
LEMMA LeftKept ==
  ASSUME setting' = setting, run' = run, rounds' = rounds, left' = left,
         stage = "exited" => stage' = "exited", LeftByItsRound, FailuresDoNotSpread
  PROVE  LeftByItsRound' /\ FailuresDoNotSpread'
<1>1. LeftByItsRound'
  BY Zenon DEF LeftByItsRound, Fixture
<1>2. FailuresDoNotSpread'
  BY ZenonT(60) DEF FailuresDoNotSpread, Fixture
<1> QED BY <1>1, <1>2, Zenon

----------------------------------------------------------------------------
(* The steps of the sweep *)

Outcomes == {"passed", "failed", "collision", "negotiation-failed"}

\* The round that comes next is the one of the schedule.
LEMMA CurrentType ==
  ASSUME SweepInv, MoreRounds
  PROVE  /\ PlanAccepted /\ Len(rounds) \in Nat /\ Len(rounds) + 1 \in 1..Total
         /\ Current = Scheduled((Len(rounds) + 1) - 1)
         /\ Current.repetition \in Nat /\ Current.kind \in {"conditioning", "measured"}
         /\ Current.position \in 1..N /\ Current.catalog \in Catalogs
<1>1. setting \in Settings /\ PlanAccepted
  BY Zenon DEF SweepInv, MoreRounds, Planned
<1>2. Len(rounds) \in Nat /\ Len(rounds) < Total
  BY LenProperties, Zenon DEF SweepInv, MoreRounds
<1>3. Total \in Nat /\ Repetitions = 1..(policy.conditioning + N)
  BY <1>1, PlanType, Zenon
<1>4. Len(rounds) + 1 \in 1..Total /\ (Len(rounds) + 1) - 1 = Len(rounds)
  BY <1>2, <1>3
<1>5. Current = Scheduled((Len(rounds) + 1) - 1)
  BY <1>4, Zenon DEF Current
<1>6. /\ Current.repetition \in Repetitions /\ Current.kind = Kind(Current.repetition)
      /\ Current.position \in 1..N /\ Current.catalog \in Catalogs
  BY <1>1, <1>4, <1>5, ScheduledAt, Zenon
<1>7. Current.repetition \in Nat
  BY <1>3, <1>6, SMTT(60)
<1>8. Current.kind \in {"conditioning", "measured"}
  BY <1>6, Zenon DEF Kind
<1> QED BY <1>1, <1>2, <1>4, <1>5, <1>6, <1>7, <1>8, Zenon

\* The transcript of a round is appended, and nothing is known yet of the sweep.
LEMMA PushStep ==
  ASSUME SweepInv, MoreRounds, NEW outcome \in Outcomes, NEW score \in Nat, NEW latency \in Nat,
         Push(outcome, score, latency)
  PROVE  /\ (setting \in Settings /\ run \in Nat \ {0} /\ rounds \in Seq(Transcripts))'
         /\ Follows(rounds)' /\ Planned' /\ Reported' /\ EvidenceComplete' /\ ExitAfterReport'
         /\ RankedIffFaultless'
         /\ Len(rounds)' = Len(rounds) + 1
         /\ \A i \in 1..Len(rounds) : rounds'[i] = rounds[i]
         /\ rounds'[Len(rounds) + 1].catalog = Current.catalog
         /\ rounds'[Len(rounds) + 1].repetition = Current.repetition
         /\ rounds'[Len(rounds) + 1].outcome = outcome
<1> DEFINE new == [repetition |-> Current.repetition, kind |-> Current.kind,
                   position |-> Current.position, catalog |-> Current.catalog,
                   outcome |-> outcome, score |-> score, latency |-> latency]
           n == Len(rounds)
<1>1. /\ setting' = setting /\ run' = run /\ stage' = stage /\ report' = report
      /\ evidence' = evidence /\ exit' = exit
      /\ rounds' = Append(rounds, new)
  BY Zenon DEF Push
<1>2. /\ new \in Transcripts
      /\ new.repetition = Current.repetition /\ new.kind = Current.kind
      /\ new.position = Current.position /\ new.catalog = Current.catalog
      /\ new.outcome = outcome
  BY CurrentType DEF Transcripts, Outcomes
<1> HIDE DEF new
<1>3. rounds \in Seq(Transcripts)
  BY Zenon DEF SweepInv
<1>4. /\ Append(rounds, new) \in Seq(Transcripts) /\ Len(Append(rounds, new)) = n + 1
      /\ \A i \in 1..n : Append(rounds, new)[i] = rounds[i]
      /\ Append(rounds, new)[n + 1] = new
  BY <1>2, <1>3, AppendProperties, ZenonT(60)
<1>5. /\ rounds' \in Seq(Transcripts) /\ Len(rounds') = n + 1
      /\ \A i \in 1..n : rounds'[i] = rounds[i]
      /\ rounds'[n + 1] = new
  BY <1>1, <1>4, Zenon
<1>6. /\ n \in Nat /\ n + 1 \in 1..Total /\ Current = Scheduled((n + 1) - 1)
  BY CurrentType, Zenon
<1>7. Follows(rounds)'
  <2>1. n + 1 <= Total /\ \A i \in 1..(n + 1) : i \in 1..n \/ i = n + 1
    BY <1>6
  <2>2. \A i \in 1..(n + 1) :
           /\ rounds'[i].repetition = Scheduled(i - 1).repetition
           /\ rounds'[i].kind = Scheduled(i - 1).kind
           /\ rounds'[i].position = Scheduled(i - 1).position
           /\ rounds'[i].catalog = Scheduled(i - 1).catalog
    <3>1. \A i \in 1..n :
            /\ rounds'[i].repetition = Scheduled(i - 1).repetition
            /\ rounds'[i].kind = Scheduled(i - 1).kind
            /\ rounds'[i].position = Scheduled(i - 1).position
            /\ rounds'[i].catalog = Scheduled(i - 1).catalog
      BY <1>5, Zenon DEF SweepInv, Follows
    <3>2. /\ rounds'[n + 1].repetition = Scheduled((n + 1) - 1).repetition
          /\ rounds'[n + 1].kind = Scheduled((n + 1) - 1).kind
          /\ rounds'[n + 1].position = Scheduled((n + 1) - 1).position
          /\ rounds'[n + 1].catalog = Scheduled((n + 1) - 1).catalog
      BY <1>2, <1>5, <1>6, Zenon
    <3> QED BY <2>1, <3>1, <3>2, Zenon
  <2>3. Total' = Total /\ \A i : Scheduled(i)' = Scheduled(i)
    BY <1>1, SettingKept, Zenon
  <2> QED BY <1>5, <2>1, <2>2, <2>3, Zenon DEF Follows
<1>8. EvidenceComplete' /\ RankedIffFaultless'
  BY <1>1, EvidenceKept, Zenon DEF SweepInv
<1>9. stage' = "rounds" /\ exit' = "none"
  BY <1>1, Zenon DEF MoreRounds, SweepInv, ExitAfterReport
<1>10. Reported' /\ ExitAfterReport'
  BY <1>9, NothingTold
<1>11. Planned'
  BY <1>1, CurrentType, SettingKept, ZenonT(60) DEF Planned
<1>12. (setting \in Settings /\ run \in Nat \ {0} /\ rounds \in Seq(Transcripts))'
  BY <1>1, <1>5, SettingKept, Zenon DEF SweepInv
<1> QED BY <1>2, <1>5, <1>7, <1>8, <1>10, <1>11, <1>12, ZenonT(60)

\* No round of this start has used the fixture of the round that comes next: a fixture
\* that is taken was left by an earlier start (ContentionPlan::fixture).
LEMMA TakenEarlier ==
  ASSUME SweepInv, MoreRounds, NEW l \in left, l.fixture = CurrentFixture
  PROVE  l.run < run
<1>1. l.run \in Nat /\ l.run <= run /\ run \in Nat
  BY Zenon DEF SweepInv, LeftByItsRound
<1>2. ASSUME l.run = run
      PROVE  FALSE
  <2>1. stage # "exited"
    BY Zenon DEF MoreRounds
  <2>2. PICK i \in 1..Len(rounds) : l.fixture = Fixture(rounds[i].catalog, rounds[i].repetition)
    BY <1>2, <2>1, Zenon DEF SweepInv, LeftByItsRound
  <2>3. rounds[i].catalog = Current.catalog /\ rounds[i].repetition = Current.repetition
    BY <2>2 DEF Fixture, CurrentFixture
  <2>4. /\ rounds[i].catalog = Scheduled(i - 1).catalog
        /\ rounds[i].repetition = Scheduled(i - 1).repetition
    BY <2>2, Zenon DEF SweepInv, Follows
  <2> DEFINE k == Len(rounds) + 1
  <2>5. /\ setting \in Settings /\ PlanAccepted /\ k \in 1..Total /\ Current = Scheduled(k - 1)
        /\ Len(rounds) \in Nat
    BY CurrentType, Zenon DEF SweepInv
  <2>a. Total \in Nat
    BY <2>5, PlanType, ZenonT(60)
  <2>6. i \in 1..Total /\ i # k
    BY <2>2, <2>5, <2>a, SMTT(60)
  <2> HIDE DEF k
  <2>7. /\ Scheduled(i - 1).repetition = Scheduled(k - 1).repetition
        /\ Scheduled(i - 1).catalog = Scheduled(k - 1).catalog
    BY <2>3, <2>4, <2>5, ZenonT(60)
  <2>8. i = k
    BY <2>5, <2>6, <2>7, OneRoundEach, Zenon
  <2> QED BY <2>6, <2>8, Zenon
<1> QED BY <1>1, <1>2, SMTT(60)

\* A round is appended, and may leave its fixture.
LEMMA RoundStep ==
  ASSUME SweepInv, MoreRounds, NEW outcome \in Outcomes, NEW score \in Nat, NEW latency \in Nat,
         Push(outcome, score, latency),
         left' \in {left, left \cup {[fixture |-> CurrentFixture, run |-> run]}},
         outcome = "collision" => Taken
  PROVE  SweepInv'
<1> DEFINE n == Len(rounds)
           new == [fixture |-> CurrentFixture, run |-> run]
<1>1. /\ (setting \in Settings /\ run \in Nat \ {0} /\ rounds \in Seq(Transcripts))'
      /\ Follows(rounds)' /\ Planned' /\ Reported' /\ EvidenceComplete' /\ ExitAfterReport'
      /\ RankedIffFaultless'
  BY PushStep, Zenon
<1>2. /\ Len(rounds)' = n + 1
      /\ \A i \in 1..n : rounds'[i] = rounds[i]
      /\ rounds'[n + 1].catalog = Current.catalog
      /\ rounds'[n + 1].repetition = Current.repetition
      /\ rounds'[n + 1].outcome = outcome
  BY PushStep, ZenonT(60)
<1>3. run' = run /\ stage' = "rounds" /\ stage = "rounds" /\ run \in Nat /\ n \in Nat
  BY CurrentType, Zenon DEF Push, MoreRounds, SweepInv
<1>4. /\ \A i \in 1..n : i \in 1..(n + 1)
      /\ \A i \in 1..(n + 1) : i \in 1..n \/ i = n + 1
      /\ n + 1 \in 1..(n + 1) /\ run <= run
  BY <1>3
<1>5. new.fixture = CurrentFixture /\ new.run = run
  OBVIOUS
<1>6. \A l \in left' : l \in left \/ l = new
  BY Zenon
<1>7. \A l \in left : l \in left'
  BY Zenon
<1> HIDE DEF new
<1>8. LeftByItsRound'
  <2>1. ASSUME NEW l \in left'
        PROVE  /\ l.run \in Nat /\ l.run <= run
               /\ l.run = run => \E i \in 1..(n + 1) :
                    l.fixture = Fixture(rounds'[i].catalog, rounds'[i].repetition)
    <3>1. CASE l \in left
      <4>1. /\ l.run \in Nat /\ l.run <= run
            /\ l.run = run => \E i \in 1..n : l.fixture = Fixture(rounds[i].catalog, rounds[i].repetition)
        BY <1>3, <3>1, Zenon DEF SweepInv, LeftByItsRound
      <4>2. ASSUME l.run = run
            PROVE  \E i \in 1..(n + 1) : l.fixture = Fixture(rounds'[i].catalog, rounds'[i].repetition)
        <5>1. PICK i \in 1..n : l.fixture = Fixture(rounds[i].catalog, rounds[i].repetition)
          BY <4>1, <4>2, Zenon
        <5>2. i \in 1..(n + 1) /\ rounds'[i] = rounds[i]
          BY <1>2, <1>4, ZenonT(60)
        <5> QED BY <5>1, <5>2, ZenonT(60)
      <4> QED BY <4>1, <4>2, ZenonT(60)
    <3>2. CASE l = new
      <4>1. l.fixture = Fixture(rounds'[n + 1].catalog, rounds'[n + 1].repetition)
        BY <1>2, <1>5, <3>2, ZenonT(60) DEF CurrentFixture
      <4> QED BY <1>3, <1>4, <1>5, <3>2, <4>1, Zenon
    <3> QED BY <1>6, <3>1, <3>2, Zenon
  <2> QED BY <1>2, <1>3, <2>1, ZenonT(60) DEF LeftByItsRound, Fixture
<1>9. FailuresDoNotSpread'
  <2>1. ASSUME NEW i \in 1..(n + 1), rounds'[i].outcome = "collision"
        PROVE  \E l \in left' : /\ l.fixture = Fixture(rounds'[i].catalog, rounds'[i].repetition)
                                /\ l.run < run
    <3>1. CASE i \in 1..n
      <4>1. rounds'[i] = rounds[i] /\ i \in DOMAIN rounds
        BY <1>2, <3>1, LenProperties, ZenonT(60) DEF SweepInv
      <4>2. PICK l \in left : /\ l.fixture = Fixture(rounds[i].catalog, rounds[i].repetition)
                              /\ l.run < run
        BY <2>1, <4>1, Zenon DEF SweepInv, FailuresDoNotSpread
      <4> QED BY <1>7, <4>1, <4>2, Zenon
    <3>2. CASE i = n + 1
      <4>1. PICK l \in left : l.fixture = CurrentFixture
        BY <1>2, <2>1, <3>2, Zenon DEF Taken
      <4>2. l.run < run
        BY <4>1, TakenEarlier, ZenonT(60)
      <4>3. l.fixture = Fixture(rounds'[i].catalog, rounds'[i].repetition)
        BY <1>2, <3>2, <4>1, Zenon DEF CurrentFixture
      <4> QED BY <1>7, <4>2, <4>3, ZenonT(60)
    <3> QED BY <1>4, <3>1, <3>2, ZenonT(60)
  <2>2. (DOMAIN rounds)' = 1..(n + 1)
    BY <1>1, <1>2, LenProperties, ZenonT(60)
  <2> QED BY <1>3, <2>1, <2>2, Zenon DEF FailuresDoNotSpread, Fixture
<1> QED BY <1>1, <1>8, <1>9, Zenon DEF SweepInv

\* The program ends without a transcript of its own.
LEMMA EndStep ==
  ASSUME SweepInv, UNCHANGED <<setting, run, rounds, evidence>>,
         stage' = "exited", exit' \in {"1", "killed"},
         left' \in {left, left \cup {[fixture |-> CurrentFixture, run |-> run]}}
  PROVE  SweepInv'
<1> DEFINE new == [fixture |-> CurrentFixture, run |-> run]
<1>1. setting' = setting /\ run' = run /\ rounds' = rounds /\ evidence' = evidence
  BY Zenon
<1>2. (rounds \in Seq(Transcripts))' /\ Follows(rounds)' /\ EvidenceComplete' /\ RankedIffFaultless'
  BY <1>1, RoundsKept, EvidenceKept, Zenon DEF SweepInv
<1>3. Reported' /\ ExitAfterReport'
  BY NothingTold, SMTT(60)
<1>4. Planned'
  BY <1>1, SettingKept, Zenon DEF SweepInv, Planned
<1>5. \A l \in left' : l.run \in Nat /\ l.run <= run
  <2>1. run \in Nat /\ run <= run /\ new.run = run
    BY DEF SweepInv
  <2>2. \A l \in left : l.run \in Nat /\ l.run <= run
    BY Zenon DEF SweepInv, LeftByItsRound
  <2> HIDE DEF new
  <2>3. \A l \in left' : l \in left \/ l = new
    BY Zenon DEF new
  <2> QED BY <2>1, <2>2, <2>3, Zenon
<1>6. LeftByItsRound'
  BY <1>1, <1>5, ZenonT(60) DEF LeftByItsRound
<1>7. FailuresDoNotSpread'
  <2>1. \A l \in left : l \in left'
    BY Zenon
  <2> QED BY <1>1, <2>1, Zenon DEF SweepInv, FailuresDoNotSpread, Fixture
<1> QED BY <1>1, <1>2, <1>3, <1>4, <1>6, <1>7, Zenon DEF SweepInv

\* A step of the program between the rounds and the report.
LEMMA PlanStep ==
  ASSUME SweepInv, UNCHANGED <<setting, run, rounds, left, evidence>>,
         stage # "exited", Planned', Reported', ExitAfterReport'
  PROVE  SweepInv'
<1>1. /\ setting' = setting /\ run' = run /\ rounds' = rounds /\ left' = left
      /\ evidence' = evidence
  BY Zenon
<1>2. (rounds \in Seq(Transcripts))' /\ Follows(rounds)' /\ EvidenceComplete' /\ RankedIffFaultless'
  BY <1>1, RoundsKept, EvidenceKept, Zenon DEF SweepInv
<1>3. LeftByItsRound' /\ FailuresDoNotSpread'
  BY <1>1, LeftKept, ZenonT(60) DEF SweepInv
<1> QED BY <1>1, <1>2, <1>3, Zenon DEF SweepInv

\* The report of a sweep that is through (aggregate_contention).
LEMMA AggregateStep ==
  ASSUME SweepInv, Aggregate
  PROVE  SweepInv'
<1>1. /\ UNCHANGED <<setting, run, rounds, left, evidence>> /\ stage = "rounds"
      /\ Len(rounds) = Total
      /\ \/ report' = Aggregated /\ stage' = "publish" /\ exit' = exit
         \/ stage' = "exited" /\ exit' = "1"
  BY Zenon DEF Aggregate, Exit
<1>2. CASE stage' = "exited" /\ exit' = "1"
  BY <1>1, <1>2, EndStep, SMTT(60)
<1>3. CASE report' = Aggregated /\ stage' = "publish" /\ exit' = exit
  <2>1. AllRounds
    BY <1>1, Zenon DEF SweepInv, Planned, AllRounds
  <2>2. setting' = setting /\ rounds' = rounds
    BY <1>1, Zenon
  <2>3. Len(rounds)' = Total'
    BY <1>1, <2>2, SettingKept, Zenon
  <2>4. Planned'
    BY <1>3, <2>1, <2>2, SettingKept, ZenonT(60) DEF Planned, AllRounds
  <2>5. \A c \in Catalogs :
           Aggregated.rank[c] > 0 <=>
             \A i \in 1..Len(rounds) : rounds[i].catalog = c => Passed(rounds[i])
    BY <1>1, <2>1, AggregatedTells, FaultlessMeans, Zenon
  <2>6. Aggregated.passed <=> \A i \in 1..Len(rounds) : Passed(rounds[i])
    <3>1. \A i \in 1..Len(rounds) : rounds[i].catalog \in Catalogs
      <4>1. \A i \in 1..Len(rounds) : rounds[i] \in Transcripts
        BY <2>1, LenProperties, SMTT(60) DEF AllRounds
      <4> QED BY <4>1 DEF Transcripts
    <3>2. Aggregated.passed <=> \A c \in Catalogs : Faultless(c)
      BY <2>1, AggregatedTells, Zenon
    <3>3. \A c \in Catalogs : Faultless(c) <=>
            \A i \in 1..Len(rounds) : rounds[i].catalog = c => Passed(rounds[i])
      BY <1>1, <2>1, FaultlessMeans, ZenonT(60)
    <3> QED BY <3>1, <3>2, <3>3, Zenon
  <2>7. ReportTells'
    BY <1>3, <2>2, <2>5, <2>6, SettingKept, Zenon DEF ReportTells, Passed
  <2>8. Reported'
    BY <2>3, <2>7, Zenon DEF Reported
  <2>9. exit' = "none"
    BY <1>1, <1>3 DEF SweepInv, ExitAfterReport
  <2>10. ExitAfterReport'
    BY <1>3, <2>9, SMTT(60) DEF ExitAfterReport
  <2> QED BY <1>1, <2>4, <2>8, <2>10, PlanStep, SMTT(60)
<1> QED BY <1>1, <1>2, <1>3, Zenon

\* The transcript is published (write_new_evidence).
LEMMA PublishedStep ==
  ASSUME SweepInv, stage = "publish", UNCHANGED <<setting, run, rounds, report, left>>,
         evidence' = [run |-> run, rounds |-> rounds, report |-> report],
         stage' = "exited", exit' \in {ExitCode, "1"}
  PROVE  SweepInv'
<1>1. /\ setting' = setting /\ run' = run /\ rounds' = rounds /\ report' = report /\ left' = left
  BY Zenon
<1>2. evidence'.run = run /\ evidence'.rounds = rounds /\ evidence'.report = report
  OBVIOUS
<1>3. AllRounds /\ ReportTells
  BY Zenon DEF SweepInv, Planned, Reported, AllRounds
<1>4. (rounds \in Seq(Transcripts))' /\ Follows(rounds)'
  BY <1>1, RoundsKept, Zenon DEF SweepInv
<1>5. LeftByItsRound' /\ FailuresDoNotSpread'
  BY <1>1, LeftKept, SMTT(60) DEF SweepInv
<1>6. EvidenceComplete'
  <2>1. PlanAccepted' /\ Total' = Total /\ Transcripts' = Transcripts
    BY <1>1, <1>3, SettingKept, ZenonT(60) DEF AllRounds
  <2>2. Follows(evidence.rounds)'
    BY <1>1, <1>2, <1>4, ZenonT(60) DEF Follows
  <2>3. run \in Nat
    BY DEF SweepInv
  <2> QED BY <1>2, <1>3, <2>1, <2>2, <2>3, Zenon DEF EvidenceComplete, AllRounds
<1>7. RankedIffFaultless'
  <2>1. ASSUME NEW c \in Catalogs
        PROVE  report.rank[c] > 0 <=>
                 \A rep \in Repetitions : \E i \in DOMAIN rounds :
                   LET r == rounds[i]
                   IN  r.catalog = c /\ r.repetition = rep /\ r.outcome = "passed"
    <3>1. report.rank[c] > 0 <=>
            \A i \in 1..Total : rounds[i].catalog = c => Passed(rounds[i])
      BY <1>3, Zenon DEF ReportTells, AllRounds
    <3> QED BY <1>3, <3>1, FaultlessMeans, EveryRepetition, Zenon
  <2>2. Catalogs' = Catalogs /\ Repetitions' = Repetitions
    BY <1>1, SettingKept, Zenon
  <2> QED BY <1>2, <2>1, <2>2, SMTT(60) DEF RankedIffFaultless
<1>8. Planned'
  BY <1>1, <1>3, SettingKept, Zenon DEF Planned, AllRounds
<1>9. Reported'
  BY DEF Reported
<1>10. ExitAfterReport'
  <2>1. ReportTells'
    BY <1>1, <1>3, ReportKept, Zenon
  <2>2. ExitCode' = ExitCode
    BY <1>1, Zenon DEF ExitCode
  <2>3. exit' = "1" => exit' \notin {"0", "2"}
    OBVIOUS
  <2> QED BY <1>1, <2>1, <2>2, <2>3, ZenonT(60) DEF ExitAfterReport
<1> QED BY <1>1, <1>4, <1>5, <1>6, <1>7, <1>8, <1>9, <1>10, Zenon DEF SweepInv

\* Publishing writes the evidence as a whole or leaves what was there (write_new_evidence).
LEMMA PublishStep ==
  ASSUME SweepInv, Publish
  PROVE  SweepInv'
<1>1. /\ UNCHANGED <<setting, run, rounds, report, left>> /\ stage = "publish" /\ stage' = "exited"
      /\ \/ /\ evidence' = [run |-> run, rounds |-> rounds, report |-> report]
            /\ exit' \in {ExitCode, "1"}
         \/ evidence' = evidence /\ exit' = "1"
  BY Zenon DEF Publish, Exit
<1>2. CASE /\ evidence' = [run |-> run, rounds |-> rounds, report |-> report]
           /\ exit' \in {ExitCode, "1"}
  BY <1>1, <1>2, PublishedStep, ZenonT(60)
<1>3. CASE evidence' = evidence /\ exit' = "1"
  BY <1>1, <1>3, EndStep, SMTT(60)
<1> QED BY <1>1, <1>2, <1>3, Zenon

\* A list without rounds.
LEMMA NoRounds ==
  ASSUME setting \in Settings
  PROVE  <<>> \in Seq(Transcripts) /\ Len(<<>>) = 0 /\ Follows(<<>>)
<1>1. policy \in [conditioning : Nat, measured : Nat]
  BY SweepAssumption, Zenon DEF policy
<1>2. N \in Nat
  BY OrderType, Zenon
<1>3. Total \in Nat
  BY <1>1, <1>2 DEF Total
<1> QED BY <1>3, SMTT(60) DEF Follows

\* The program starts, and starts again with the fixtures and the transcript that are there.
LEMMA StartInv ==
  ASSUME Init
  PROVE  SweepInv
<1>1. /\ setting \in Settings /\ run = 1 /\ stage = "start" /\ rounds = <<>> /\ left = {}
      /\ evidence = NoEvidence /\ exit = "none"
  BY Zenon DEF Init
<1>2. rounds \in Seq(Transcripts) /\ Len(rounds) = 0 /\ Follows(rounds)
  BY <1>1, NoRounds, Zenon
<1>3. evidence.run = 0
  BY <1>1 DEF NoEvidence
<1>4. Planned /\ Reported /\ LeftByItsRound /\ ExitAfterReport
  BY <1>1, SMTT(60) DEF Planned, Reported, LeftByItsRound, ExitAfterReport
<1>5. EvidenceComplete /\ RankedIffFaultless
  BY <1>3 DEF EvidenceComplete, RankedIffFaultless, Published
<1>6. FailuresDoNotSpread
  BY <1>1, SMTT(60) DEF FailuresDoNotSpread
<1> QED BY <1>1, <1>2, <1>4, <1>5, <1>6, SMTT(60) DEF SweepInv

\* A new run of the program begins from what the last one left on disk.
LEMMA RestartStep ==
  ASSUME SweepInv, Restart
  PROVE  SweepInv'
<1>1. /\ setting' = setting /\ run' = run + 1 /\ stage' = "start" /\ rounds' = <<>>
      /\ left' = left /\ evidence' = evidence /\ exit' = "none"
  BY Zenon DEF Restart
<1>2. setting \in Settings /\ run \in Nat \ {0}
  BY Zenon DEF SweepInv
<1>3. rounds' \in Seq(Transcripts) /\ Len(rounds') = 0
  BY <1>1, <1>2, NoRounds, ZenonT(60)
<1>4. (rounds \in Seq(Transcripts))' /\ Follows(rounds)'
  <2>1. Follows(<<>>) /\ Len(<<>>) = 0
    BY <1>2, NoRounds, Zenon
  <2>2. 0 <= Total
    BY <2>1, Zenon DEF Follows
  <2> QED BY <1>1, <1>3, <2>2, SettingKept, SMTT(60) DEF Follows
<1>5. EvidenceComplete' /\ RankedIffFaultless'
  BY <1>1, EvidenceKept, Zenon DEF SweepInv
<1>6. Reported' /\ ExitAfterReport'
  BY <1>1, NothingTold
<1>7. Planned' /\ FailuresDoNotSpread'
  BY <1>1, SMTT(60) DEF Planned, FailuresDoNotSpread
<1>8. LeftByItsRound'
  <2>1. \A l \in left : l.run \in Nat /\ l.run <= run + 1 /\ l.run # run + 1
    <3>1. \A l \in left : l.run \in Nat /\ l.run <= run
      BY Zenon DEF SweepInv, LeftByItsRound
    <3> QED BY <1>2, <3>1, SMTT(60)
  <2> QED BY <1>1, <2>1, Zenon DEF LeftByItsRound
<1>9. (setting \in Settings /\ run \in Nat \ {0})'
  BY <1>1, <1>2, SMTT(60)
<1> QED BY <1>4, <1>5, <1>6, <1>7, <1>8, <1>9, ZenonT(60) DEF SweepInv

\* Every step of the sweep keeps the invariant.
LEMMA SweepStep ==
  ASSUME SweepInv, [Next]_vars
  PROVE  SweepInv'
<1>1. CASE Begin
  <2>1. /\ UNCHANGED <<setting, run, rounds, left, evidence>> /\ stage = "start"
        /\ \/ PlanAccepted /\ stage' = "rounds" /\ exit' = exit
           \/ stage' = "exited" /\ exit' = "1"
    BY <1>1, Zenon DEF Begin, Exit
  <2>2. CASE PlanAccepted /\ stage' = "rounds" /\ exit' = exit
    <3>1. exit' = "none"
      BY <2>1, <2>2 DEF SweepInv, ExitAfterReport
    <3>2. Reported' /\ ExitAfterReport'
      BY <2>2, <3>1, NothingTold, SMTT(60)
    <3>3. Planned'
      BY <2>1, <2>2, SettingKept, Zenon DEF Planned
    <3> QED BY <2>1, <3>2, <3>3, PlanStep, SMTT(60)
  <2>3. CASE stage' = "exited" /\ exit' = "1"
    BY <2>1, <2>3, EndStep, SMTT(60)
  <2> QED BY <2>1, <2>2, <2>3, Zenon
<1>2. CASE SetupFails
  <2>1. /\ UNCHANGED <<setting, run, rounds, left, evidence>> /\ stage' = "exited" /\ exit' = "1"
    BY <1>2, Zenon DEF SetupFails, Exit
  <2> QED BY <2>1, EndStep
<1>3. CASE NegotiationFails
  <2>1. MoreRounds /\ Push("negotiation-failed", 0, 0) /\ left' = left
    BY <1>3, Zenon DEF NegotiationFails
  <2>2. "negotiation-failed" \in Outcomes /\ 0 \in Nat /\ "negotiation-failed" # "collision"
    BY DEF Outcomes
  <2> QED BY <2>1, <2>2, RoundStep, Zenon
<1>4. CASE RoundCollides
  <2>1. MoreRounds /\ Taken /\ Push("collision", 0, 0) /\ left' = left
    BY <1>4, Zenon DEF RoundCollides
  <2>2. "collision" \in Outcomes /\ 0 \in Nat
    BY SMTT(60) DEF Outcomes
  <2> QED BY <2>1, <2>2, RoundStep, Zenon
<1>5. CASE RoundPasses
  <2>1. PICK score \in setting.scores, latency \in setting.latencies :
          MoreRounds /\ Push("passed", score, latency) /\ left' = left
    BY <1>5, Zenon DEF RoundPasses
  <2>2. score \in Nat /\ latency \in Nat
    BY SweepAssumption, Zenon DEF SweepInv
  <2>3. "passed" \in Outcomes /\ "passed" # "collision"
    BY SMTT(60) DEF Outcomes
  <2> QED BY <2>1, <2>2, <2>3, RoundStep, Zenon
<1>6. CASE RoundFails
  <2>1. /\ MoreRounds /\ Push("failed", 0, 0)
        /\ left' \in {left, left \cup {[fixture |-> CurrentFixture, run |-> run]}}
    BY <1>6, Zenon DEF RoundFails
  <2>2. "failed" \in Outcomes /\ 0 \in Nat /\ "failed" # "collision"
    BY DEF Outcomes
  <2> QED BY <2>1, <2>2, RoundStep, Zenon
<1>7. CASE Aggregate
  BY <1>7, AggregateStep, ZenonT(60)
<1>8. CASE Publish
  BY <1>8, PublishStep, Zenon
<1>9. CASE Killed
  <2>1. /\ UNCHANGED <<setting, run, rounds, evidence>> /\ stage' = "exited" /\ exit' = "killed"
        /\ left' \in {left, left \cup {[fixture |-> CurrentFixture, run |-> run]}}
    BY <1>9, Zenon DEF Killed, Exit
  <2> QED BY <2>1, EndStep, SMTT(60)
<1>10. CASE Restart
  BY <1>10, RestartStep, Zenon
<1>11. CASE UNCHANGED vars
  <2>1. /\ setting' = setting /\ run' = run /\ stage' = stage /\ rounds' = rounds
        /\ report' = report /\ left' = left /\ evidence' = evidence /\ exit' = exit
    BY <1>11, Zenon DEF vars
  <2>2. (rounds \in Seq(Transcripts))' /\ Follows(rounds)' /\ EvidenceComplete' /\ RankedIffFaultless'
    BY <2>1, RoundsKept, EvidenceKept, ZenonT(60) DEF SweepInv
  <2>3. LeftByItsRound' /\ FailuresDoNotSpread'
    BY <2>1, LeftKept, Zenon DEF SweepInv
  <2>4. ReportTells => ReportTells'
    BY <2>1, ReportKept, ZenonT(60)
  <2>5. Planned' /\ Reported'
    BY <2>1, <2>4, SettingKept, Zenon DEF SweepInv, Planned, Reported
  <2>6. ExitAfterReport'
    BY <2>1, <2>4, ZenonT(60) DEF SweepInv, ExitAfterReport, ExitCode
  <2> QED BY <2>1, <2>2, <2>3, <2>5, <2>6, ZenonT(60) DEF SweepInv
<1>12. CASE Exited
  BY <1>11, <1>12, Zenon DEF Exited
<1> QED BY <1>1, <1>2, <1>3, <1>4, <1>5, <1>6, <1>7, <1>8, <1>9, <1>10, <1>11, <1>12, Zenon DEF Next

\* SweepInv is an inductive invariant of the sweep.
THEOREM SweepInvariant == Spec => []SweepInv
<1>1. Init => SweepInv
  BY StartInv, Zenon
<1>2. SweepInv /\ [Next]_vars => SweepInv'
  BY SweepStep, Zenon
<1> QED BY <1>1, <1>2, PTL DEF Spec

\* The rotated schedule gives every catalog every position once in the measured rounds of a
\* published transcript, and aggregate_contention never refuses the rounds of its own sweep.
THEOREM ScheduleIsFair == Spec => []FairSchedule
<1>1. SweepInv => FairSchedule
  <2> SUFFICES ASSUME SweepInv
               PROVE  FairSchedule
    BY Zenon
  <2>1. FairPositions
    <3> SUFFICES ASSUME Published, NEW catalog \in Catalogs, NEW position \in 1..N
                 PROVE  Cardinality({i \in Measured(catalog) :
                                       evidence.rounds[i].position = position}) = 1
      BY Zenon DEF FairPositions
    <3>1. /\ setting \in Settings /\ PlanAccepted /\ evidence.rounds \in Seq(Transcripts)
          /\ Len(evidence.rounds) = Total /\ Follows(evidence.rounds)
      BY ZenonT(60) DEF SweepInv, EvidenceComplete
    <3> QED BY <3>1, OneMeasuredRound, Zenon DEF Measured
  <2>2. AggregationSucceeds
    <3> SUFFICES ASSUME stage = "rounds", Len(rounds) = Total
                 PROVE  ~AggregationError
      BY ZenonT(60) DEF AggregationSucceeds
    <3>1. AllRounds
      BY Zenon DEF SweepInv, Planned, AllRounds
    <3> QED BY <3>1, AggregationAccepts, Zenon
  <2> QED BY <2>1, <2>2, Zenon DEF FairSchedule
<1> QED BY <1>1, SweepInvariant, PTL

\* A published transcript ranks a catalog exactly when each of its repetitions, conditioning
\* and measured, has a passed round (aggregate_catalog).
THEOREM RankedExactlyFaultless == Spec => []RankedIffFaultless
<1>1. SweepInv => RankedIffFaultless
  BY ZenonT(60) DEF SweepInv
<1> QED BY <1>1, SweepInvariant, PTL

\* A round never collides with what another round of the same start left: the fixture of a
\* round is its own (ContentionPlan::fixture).
THEOREM FailuresStayApart == Spec => []FailuresDoNotSpread
<1>1. SweepInv => FailuresDoNotSpread
  BY Zenon DEF SweepInv
<1> QED BY <1>1, SweepInvariant, PTL

\* Exit codes 0 and 2 are those of the start whose transcript is published, and tell whether
\* every round passed (main).
THEOREM ExitCodesTell == Spec => []ExitTellsEvidence
<1>1. SweepInv => ExitTellsEvidence
  <2> SUFFICES ASSUME SweepInv
               PROVE  ExitTellsEvidence
    BY Zenon
  <2>1. DOMAIN rounds = 1..Len(rounds)
    BY LenProperties, Zenon DEF SweepInv
  <2>2. exit \in {"0", "2"} =>
           /\ evidence = [run |-> run, rounds |-> rounds, report |-> report]
           /\ exit = ExitCode
           /\ report.passed <=> \A i \in 1..Len(rounds) : Passed(rounds[i])
    BY Zenon DEF SweepInv, ExitAfterReport, ReportTells
  <2>3. exit = "0" => exit \in {"0", "2"} /\ (exit = ExitCode => report.passed)
    BY DEF ExitCode
  <2>4. exit = "2" => exit \in {"0", "2"} /\ (exit = ExitCode => ~report.passed)
    BY DEF ExitCode
  <2> QED BY <2>1, <2>2, <2>3, <2>4, ZenonT(60) DEF ExitTellsEvidence, Passed
<1> QED BY <1>1, SweepInvariant, PTL
=============================================================================
