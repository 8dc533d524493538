--------------------------- MODULE RestDebtProofs ---------------------------
(***************************************************************************)
(* Theorems about RestDebt, for every log of typed closures and rests.     *)
(***************************************************************************)
EXTENDS RestDebt, DataTheorems

-----------------------------------------------------------------------------
(* Arranging a set *)

StrictOrder(S, order) ==
  /\ \A i \in S : <<i, i>> \notin order
  /\ \A i, j \in S : i # j => <<i, j>> \in order \/ <<j, i>> \in order
  /\ \A i, j, k \in S : <<i, j>> \in order /\ <<j, k>> \in order => <<i, k>> \in order

Arranged(list, S, order) ==
  /\ list \in [1..Cardinality(S) -> S]
  /\ \A p, q \in 1..Cardinality(S) : p < q => <<list[p], list[q]>> \in order
  /\ \A i \in S : \E p \in 1..Cardinality(S) : list[p] = i

(* As many places as elements, each element in its place. *)
LEMMA PlacesFilled ==
  ASSUME NEW S, IsFiniteSet(S), NEW rank \in [S -> 0..(Cardinality(S) - 1)],
         \A i, j \in S : rank[i] = rank[j] => i = j
  PROVE  \A n \in 0..(Cardinality(S) - 1) : \E i \in S : rank[i] = n
<1> DEFINE T == {rank[i] : i \in S}
<1>1. Cardinality(S) \in Nat
  BY FS_CardinalityType
<1>2. ExistsBijection(S, T)
  <2>1. rank \in [S -> T] /\ \A t \in T : \E i \in S : rank[i] = t
    OBVIOUS
  <2> HIDE DEF T
  <2>2. rank \in Bijection(S, T)
    BY <2>1 DEF Bijection, Injection, Surjection, IsInjective
  <2> QED
    BY <2>2 DEF ExistsBijection
<1>3. IsFiniteSet(T) /\ Cardinality(T) = Cardinality(S)
  BY <1>2, FS_Bijection
<1>4. T \subseteq 0..(Cardinality(S) - 1)
  OBVIOUS
<1>5. /\ IsFiniteSet(0..(Cardinality(S) - 1))
      /\ Cardinality(0..(Cardinality(S) - 1)) =
           IF 0 > Cardinality(S) - 1 THEN 0 ELSE (Cardinality(S) - 1) - 0 + 1
  <2>1. 0 \in Int /\ Cardinality(S) - 1 \in Int
    BY <1>1
  <2> QED
    BY <2>1, FS_Interval
<1>6. Cardinality(0..(Cardinality(S) - 1)) = Cardinality(S)
  BY <1>1, <1>5
<1> HIDE DEF T
<1>7. T = 0..(Cardinality(S) - 1)
  BY <1>3, <1>4, <1>5, <1>6, FS_Subset
<1> QED
  BY <1>7 DEF T

(* Arrange lists every element once, in the given order. *)
LEMMA ArrangeSorts ==
  ASSUME NEW S, IsFiniteSet(S), NEW order, StrictOrder(S, order)
  PROVE  Arranged(Arrange(S, order), S, order)
<1> DEFINE n == Cardinality(S)
           rank == [i \in S |-> Cardinality(Preceding(S, order, i))]
<1>1. n \in Nat
  BY FS_CardinalityType
<1>2. ASSUME NEW i \in S
      PROVE  rank[i] \in 0..(n - 1)
  <2>1. Preceding(S, order, i) \in SUBSET (S \ {i})
    BY DEF Preceding, StrictOrder
  <2>2. IsFiniteSet(S \ {i}) /\ Cardinality(S \ {i}) = n - 1
    BY Sizes
  <2>3. Cardinality(Preceding(S, order, i)) \in Nat
        /\ Cardinality(Preceding(S, order, i)) <= Cardinality(S \ {i})
    BY <2>1, <2>2, Sizes
  <2> QED
    BY <1>1, <2>2, <2>3
<1>3. ASSUME NEW i \in S, NEW j \in S, <<i, j>> \in order
      PROVE  rank[i] < rank[j]
  <2> DEFINE I == Preceding(S, order, i)
             J == Preceding(S, order, j)
  <2>1. I \subseteq J \ {i} /\ i \in J
    BY <1>3 DEF Preceding, StrictOrder
  <2>2. IsFiniteSet(J) /\ IsFiniteSet(J \ {i})
    <3>1. J \subseteq S /\ J \ {i} \subseteq S
      BY DEF Preceding
    <3> QED
      BY <3>1, FS_Subset
  <2> HIDE DEF I, J
  <2>3. Cardinality(J \ {i}) = Cardinality(J) - 1 /\ Cardinality(J) \in Nat
    BY <2>1, <2>2, Sizes
  <2>4. Cardinality(I) <= Cardinality(J \ {i}) /\ Cardinality(I) \in Nat
    BY <2>1, <2>2, Sizes
  <2>5. Cardinality(I) < Cardinality(J)
    BY <2>3, <2>4
  <2>6. rank[i] = Cardinality(I) /\ rank[j] = Cardinality(J)
    BY DEF I, J
  <2> QED
    BY <2>5, <2>6
<1>4. DOMAIN rank = S /\ \A i \in S : rank[i] = Cardinality(Preceding(S, order, i))
  OBVIOUS
<1>5. rank \in [S -> 0..(n - 1)]
  BY <1>2
<1> HIDE DEF rank
<1>6. \A i, j \in S : rank[i] = rank[j] => i = j
  <2> SUFFICES ASSUME NEW i \in S, NEW j \in S, i # j PROVE rank[i] # rank[j]
    OBVIOUS
  <2>1. rank[i] \in Int /\ rank[j] \in Int
    BY <1>1, <1>2
  <2>2. rank[i] < rank[j] \/ rank[j] < rank[i]
    BY <1>3 DEF StrictOrder
  <2> QED
    BY <2>1, <2>2
<1>7. \A p \in 1..n : \E i \in S : rank[i] = p - 1
  <2> SUFFICES ASSUME NEW p \in 1..n PROVE \E i \in S : rank[i] = p - 1
    OBVIOUS
  <2>1. p - 1 \in 0..(n - 1)
    BY <1>1
  <2> QED
    BY <1>5, <1>6, <2>1, PlacesFilled
<1> DEFINE list == Arrange(S, order)
<1>8. \A p \in 1..n : list[p] \in S /\ rank[list[p]] = p - 1
  <2> SUFFICES ASSUME NEW p \in 1..n PROVE list[p] \in S /\ rank[list[p]] = p - 1
    OBVIOUS
  <2>1. list[p] = CHOOSE i \in S : Cardinality(Preceding(S, order, i)) = p - 1
    BY DEF Arrange
  <2>2. \E i \in S : Cardinality(Preceding(S, order, i)) = p - 1
    BY <1>4, <1>7
  <2>3. list[p] \in S /\ Cardinality(Preceding(S, order, list[p])) = p - 1
    BY <2>1, <2>2
  <2> QED
    BY <1>4, <2>3
<1>9. DOMAIN list = 1..n /\ list = [p \in 1..n |-> list[p]]
  BY DEF Arrange
<1> HIDE DEF list
<1>10. list \in [1..n -> S]
  BY <1>8, <1>9
<1>11. ASSUME NEW p \in 1..n, NEW q \in 1..n, p < q
       PROVE  <<list[p], list[q]>> \in order
  <2>1. list[p] # list[q]
    BY <1>8, <1>11
  <2>2. <<list[p], list[q]>> \in order \/ <<list[q], list[p]>> \in order
    BY <1>8, <2>1 DEF StrictOrder
  <2>3. CASE <<list[q], list[p]>> \in order
    <3>1. rank[list[q]] < rank[list[p]]
      BY <1>3, <1>8, <2>3
    <3> QED
      BY <1>8, <1>11, <3>1
  <2> QED
    BY <2>2, <2>3
<1>12. ASSUME NEW i \in S PROVE \E p \in 1..n : list[p] = i
  <2>1. rank[i] + 1 \in 1..n
    BY <1>1, <1>2
  <2>2. rank[list[rank[i] + 1]] = rank[i] /\ list[rank[i] + 1] \in S
    BY <1>1, <1>2, <1>8, <2>1
  <2> QED
    BY <1>6, <2>1, <2>2
<1> QED
  BY <1>10, <1>11, <1>12 DEF Arranged, list

-----------------------------------------------------------------------------
(* Walking a list *)

(* after says what state each prefix of the list is left in. *)
Walked(after, step, start, list) ==
  /\ after[0] = start
  /\ \A p \in 1..Len(list) : after[p] = step[list[p]][after[p - 1]]
  /\ Walk(step, start, list) = after[Len(list)]

LEMMA WalkStates ==
  ASSUME NEW step, NEW start, NEW list, Len(list) \in Nat
  PROVE  \E after : Walked(after, step, start, list)
<1> DEFINE L == Len(list)
           Next1(f, p) == IF p = 0 THEN start ELSE step[list[p]][f[p - 1]]
           Upto(f, n) == \A p \in 0..n : f[p] = Next1(f, p)
           N == {n \in Nat : \E f : Upto(f, n)}
<1>1. 0 \in N
  <2>1. Upto([p \in {0} |-> start], 0)
    OBVIOUS
  <2> QED
    BY <2>1
<1>2. ASSUME NEW n \in N PROVE n + 1 \in N
  <2>1. PICK f : Upto(f, n)
    OBVIOUS
  <2> DEFINE g == [p \in 0..(n + 1) |-> IF p = n + 1 THEN step[list[n + 1]][f[n]] ELSE f[p]]
  <2>2. \A p \in 0..n : g[p] = f[p]
    OBVIOUS
  <2>3. g[n + 1] = step[list[n + 1]][f[n]]
    OBVIOUS
  <2> HIDE DEF g
  <2>0. n \in Nat
    OBVIOUS
  <2>4. ASSUME NEW p \in 0..(n + 1) PROVE g[p] = Next1(g, p)
    <3>1. CASE p = n + 1
      <4>1. p # 0 /\ p - 1 = n /\ g[n] = f[n]
        BY <2>0, <2>2, <3>1
      <4>2. g[p] = step[list[p]][g[p - 1]]
        BY <2>3, <3>1, <4>1, Zenon
      <4> QED
        BY <4>1, <4>2, Zenon
    <3>2. CASE p = 0
      BY <2>1, <2>2, <3>2
    <3>3. CASE p \in 1..n
      <4>1. p - 1 \in 0..n /\ p \in 0..n /\ p # 0
        BY <3>3
      <4>2. g[p] = f[p] /\ g[p - 1] = f[p - 1] /\ f[p] = step[list[p]][f[p - 1]]
        BY <2>1, <2>2, <4>1
      <4> QED
        BY <4>1, <4>2
    <3> QED
      BY <3>1, <3>2, <3>3
  <2>5. Upto(g, n + 1)
    BY <2>4
  <2>6. n + 1 \in Nat
    OBVIOUS
  <2> HIDE DEF Upto
  <2> QED
    BY <2>5, <2>6
<1> HIDE DEF N
<1>3. L \in N
  <2>1. N \in SUBSET Nat
    BY DEF N
  <2> QED
    BY <1>1, <1>2, <2>1, NumberInduction
<1>4. PICK f : Upto(f, L)
  BY <1>3 DEF N
<1> DEFINE Rec(g) == g = [p \in 0..L |-> IF p = 0 THEN start ELSE step[list[p]][g[p - 1]]]
           after == CHOOSE g : Rec(g)
<1>5. Rec([p \in 0..L |-> f[p]])
  <2> DEFINE g == [p \in 0..L |-> f[p]]
  <2>1. ASSUME NEW p \in 0..L PROVE g[p] = IF p = 0 THEN start ELSE step[list[p]][g[p - 1]]
    <3>1. CASE p = 0
      BY <1>4, <3>1
    <3>2. CASE p # 0
      <4>1. p - 1 \in 0..L
        BY <3>2
      <4>2. g[p - 1] = f[p - 1] /\ g[p] = f[p]
        BY <4>1
      <4> QED
        BY <1>4, <3>2, <4>2
    <3> QED
      BY <3>1, <3>2
  <2> QED
    BY <2>1
<1> HIDE DEF Rec
<1>6. Rec(after)
  BY <1>5, Zenon
<1>7. Walk(step, start, list) = after[L]
  BY DEF Walk, Rec
<1>8. 0 \in 0..L /\ \A p \in 1..L : p \in 0..L /\ p # 0
  OBVIOUS
<1> HIDE DEF after
<1> QED
  BY <1>6, <1>7, <1>8 DEF Walked, Rec

(* A finite set in some order has a last element. *)
LEMMA LastExists ==
  ASSUME NEW S, IsFiniteSet(S), S # {}, NEW order, StrictOrder(S, order)
  PROVE  \E i \in S : \A j \in S \ {i} : <<j, i>> \in order
<1> DEFINE n == Cardinality(S)
           list == Arrange(S, order)
<1>1. n \in Nat /\ n # 0
  BY FS_CardinalityType, FS_EmptySet
<1>2. Arranged(list, S, order)
  BY ArrangeSorts
<1> HIDE DEF list
<1>3. n \in 1..n /\ list[n] \in S
  BY <1>1, <1>2 DEF Arranged
<1>4. ASSUME NEW j \in S \ {list[n]} PROVE <<j, list[n]>> \in order
  <2>1. PICK p \in 1..n : list[p] = j
    BY <1>2 DEF Arranged
  <2>2. p < n
    BY <1>1, <2>1
  <2> QED
    BY <1>2, <1>3, <2>1, <2>2 DEF Arranged
<1> QED
  BY <1>3, <1>4

-----------------------------------------------------------------------------
(* The log *)

DutyEntry == [kind: {"DUTY_CLOSED"}, ts: Int, fdp: Nat \ {0}, owe: BOOLEAN]
RestEntry ==
  [kind: {"REST_COMPLETED"}, ts: Int, duration: Nat \ {0}, type: STRING, covers: BOOLEAN]
LogTypeOK(l) == l \in Seq(DutyEntry \cup RestEntry)

LEMMA LogTyped == Spec => []LogTypeOK(log)
<1>1. Init => LogTypeOK(log)
  BY DEF Init, LogTypeOK
<1>2. LogTypeOK(log) /\ [Next]_log => LogTypeOK(log)'
  <2> SUFFICES ASSUME LogTypeOK(log), [Next]_log PROVE LogTypeOK(log')
    BY DEF LogTypeOK
  <2>1. CASE UNCHANGED log
    BY <2>1
  <2>2. ASSUME NEW in \in DutyInputs, CloseDuty(in) PROVE LogTypeOK(log')
    <3>1. in.report \in Int /\ in.release \in Int /\ in.owe \in BOOLEAN /\ in.report < in.release
      BY InputsAssumption
    <3>2. in.release - in.report \in Nat \ {0}
      BY <3>1
    <3>3. DutyClosed(in) \in DutyEntry
      BY <3>1, <3>2 DEF DutyClosed, DutyEntry
    <3>4. log' = Append(log, DutyClosed(in))
      BY <2>2 DEF CloseDuty, Record
    <3> QED
      BY <3>3, <3>4 DEF LogTypeOK
  <2>3. ASSUME NEW in \in RestInputs, CreateRest(in) PROVE LogTypeOK(log')
    <3>1. /\ in.start \in Int /\ in.end \in Int /\ in.type \in STRING /\ in.covers \in BOOLEAN
          /\ in.end > in.start
      BY <2>3, InputsAssumption DEF CreateRest
    <3>2. in.end - in.start \in Nat \ {0}
      BY <3>1
    <3>3. RestCompleted(in) \in RestEntry
      BY <3>1, <3>2 DEF RestCompleted, RestEntry
    <3>4. log' = Append(log, RestCompleted(in))
      BY <2>3 DEF CreateRest, Record
    <3> QED
      BY <3>3, <3>4 DEF LogTypeOK
  <2> QED
    BY <2>1, <2>2, <2>3 DEF Next
<1> QED
  BY <1>1, <1>2, PTL DEF Spec

(* What is read out of a log: finitely many entries, numbered in some way, *)
(* whatever else they carry.  Besides the log of Spec, that is the log of  *)
(* one crew member among those of others, or rows of tables read as a log. *)
Readable(l) ==
  /\ DOMAIN l \subseteq Int /\ IsFiniteSet(DOMAIN l)
  /\ Duties(l) \cup Rests(l) = DOMAIN l /\ Duties(l) \cap Rests(l) = {}
  /\ \A i \in DOMAIN l : l[i].ts \in Int
  /\ \A d \in Duties(l) : /\ l[d].fdp \in Nat /\ l[d].fdp > 0 /\ l[d].owe \in BOOLEAN
                          /\ Report(l, d) \in Int /\ Report(l, d) < l[d].ts
  /\ \A r \in Rests(l) : l[r].duration \in Nat /\ l[r].duration > 0

LEMMA LogReadable ==
  ASSUME NEW l, LogTypeOK(l)
  PROVE  Readable(l)
<1>1. DOMAIN l \subseteq Int /\ IsFiniteSet(DOMAIN l)
  <2>1. Len(l) \in Nat /\ DOMAIN l = 1..Len(l)
    BY DEF LogTypeOK
  <2>2. IsFiniteSet(1..Len(l))
    BY <2>1, FS_Interval
  <2> QED
    BY <2>1, <2>2
<1>2. \A i \in DOMAIN l : l[i] \in DutyEntry \cup RestEntry
  BY DEF LogTypeOK
<1>3. \A i \in DOMAIN l : l[i].ts \in Int /\ l[i].kind \in {"DUTY_CLOSED", "REST_COMPLETED"}
  BY <1>2 DEF DutyEntry, RestEntry
<1>4. \A d \in Duties(l) : l[d] \in DutyEntry
  BY <1>2 DEF Duties, RestEntry
<1>5. \A r \in Rests(l) : l[r] \in RestEntry
  BY <1>2 DEF Rests, DutyEntry
<1>6. \A d \in Duties(l) : l[d].ts \in Int /\ l[d].fdp \in Nat /\ l[d].fdp # 0 /\ l[d].owe \in BOOLEAN
  BY <1>4 DEF DutyEntry
<1>7. \A r \in Rests(l) : l[r].duration \in Nat /\ l[r].duration # 0
  BY <1>5 DEF RestEntry
<1>8. Duties(l) \cup Rests(l) = DOMAIN l /\ Duties(l) \cap Rests(l) = {}
  BY <1>3 DEF Duties, Rests
<1>9. \A d \in Duties(l) : Report(l, d) \in Int /\ Report(l, d) < l[d].ts /\ l[d].fdp > 0
  BY <1>6 DEF Report
<1>10. \A r \in Rests(l) : l[r].duration > 0
  BY <1>7
<1> QED
  BY <1>1, <1>3, <1>6, <1>7, <1>8, <1>9, <1>10 DEF Readable

LEMMA LogAlwaysReadable == Spec => []Readable(log)
<1>1. LogTypeOK(log) => Readable(log)
  BY LogReadable
<1> QED
  BY <1>1, LogTyped, PTL

(* An entry more, in a place of its own, leaves the others where they are. *)
Extended(l, e, x, m) ==
  /\ DOMAIN m = DOMAIN l \cup {x} /\ x \notin DOMAIN l
  /\ \A i \in DOMAIN l : m[i] = l[i]
  /\ m[x] = e

LEMMA AppendExtends ==
  ASSUME NEW l, LogTypeOK(l), NEW e \in DutyEntry \cup RestEntry
  PROVE  LET m == Append(l, e) IN Extended(l, e, Len(m), m) /\ LogTypeOK(m)
BY DEF Extended, LogTypeOK

LEMMA ExtendedEntries ==
  ASSUME NEW l, Readable(l), NEW e, NEW x, NEW m, Extended(l, e, x, m)
  PROVE  /\ Duties(m) = Duties(l) \cup (IF e.kind = "DUTY_CLOSED" THEN {x} ELSE {})
         /\ Rests(m) = Rests(l) \cup (IF e.kind = "REST_COMPLETED" THEN {x} ELSE {})
         /\ \A d \in Duties(l) : Report(m, d) = Report(l, d)
BY DEF Extended, Duties, Rests, Report

LEMMA EntriesFinite ==
  ASSUME NEW l, Readable(l)
  PROVE  /\ IsFiniteSet(DOMAIN l)
         /\ \A S \in SUBSET DOMAIN l : IsFiniteSet(S)
         /\ Duties(l) \subseteq DOMAIN l /\ Rests(l) \subseteq DOMAIN l
<1>1. IsFiniteSet(DOMAIN l)
  BY DEF Readable
<1> QED
  BY <1>1, FS_Subset DEF Duties, Rests

-----------------------------------------------------------------------------
(* The two ways of measuring rest *)

Reporting(l, S) == {ij \in S \X S : ReportedBefore(l, ij[1], ij[2])}

LEMMA DutiesOrdered ==
  ASSUME NEW l, Readable(l), NEW S \in SUBSET Duties(l)
  PROVE  StrictOrder(S, Reporting(l, S))
<1>1. \A i \in S : i \in Int /\ l[i].ts \in Int /\ Report(l, i) \in Int
  <2>1. Readable(l)
    OBVIOUS
  <2>2. \A i \in S : i \in Duties(l) /\ i \in DOMAIN l
    BY <2>1 DEF Readable
  <2>3. \A i \in DOMAIN l : i \in Int
    BY <2>1 DEF Readable
  <2> QED
    BY <2>1, <2>2, <2>3 DEF Readable
<1>2. \A i, j \in S : <<i, j>> \in Reporting(l, S) <=> ReportedBefore(l, i, j)
  BY DEF Reporting
<1>3. \A i \in S : ~ReportedBefore(l, i, i)
  BY <1>1 DEF ReportedBefore, Earlier
<1>4. \A i, j \in S : i # j => ReportedBefore(l, i, j) \/ ReportedBefore(l, j, i)
  BY <1>1 DEF ReportedBefore, Earlier
<1>5. \A i, j, k \in S : ReportedBefore(l, i, j) /\ ReportedBefore(l, j, k) => ReportedBefore(l, i, k)
  BY <1>1 DEF ReportedBefore, Earlier
<1> QED
  BY <1>2, <1>3, <1>4, <1>5 DEF StrictOrder

(* There is a duty that reported just before one that is not the first. *)
LEMMA PreviousReported ==
  ASSUME NEW l, Readable(l), NEW d \in Duties(l), DutiesBefore(l, d) # {}
  PROVE  /\ Previous(l, d) \in DutiesBefore(l, d)
         /\ \A f \in DutiesBefore(l, d) \ {Previous(l, d)} : ReportedBefore(l, f, Previous(l, d))
<1> DEFINE S == DutiesBefore(l, d)
<1>1. S \in SUBSET Duties(l) /\ IsFiniteSet(S)
  BY EntriesFinite DEF DutiesBefore
<1>2. StrictOrder(S, Reporting(l, S))
  BY <1>1, DutiesOrdered
<1>3. \E i \in S : \A j \in S \ {i} : <<j, i>> \in Reporting(l, S)
  BY <1>1, <1>2, LastExists
<1>4. \E i \in S : \A j \in S \ {i} : ReportedBefore(l, j, i)
  BY <1>3 DEF Reporting
<1> QED
  BY <1>4 DEF Previous

LEMMA MaxOf ==
  ASSUME NEW S \in SUBSET Int, NEW x \in S, \A y \in S : x >= y
  PROVE  Max(S) = x
<1>1. PICK m : m = Max(S)
  OBVIOUS
<1>2. m \in S /\ m >= x
  BY <1>1 DEF Max
<1>3. m \in Int /\ x >= m
  BY <1>2
<1> QED
  BY <1>1, <1>2, <1>3

(* A proposed report against the log, and the log once the duty is flown.  *)
(* The duties before it are those released before it reports, and the one  *)
(* that reported last is the one released last.                            *)
LEMMA RestMeasuredAlike ==
  ASSUME Readable(log), NEW report \in Int,
         NEW e \in DutyEntry, e.ts = report + 60, e.fdp = 60,
         NEW d, NEW flown, Extended(log, e, d, flown), Readable(flown), NoOverlap(flown)
  PROVE  /\ (ReleasesBefore(log, report) = {}) <=> (DutiesBefore(flown, d) = {})
         /\ DutiesBefore(flown, d) # {} => Gap(flown, d) = RestSinceLast(log, report)
<1> DEFINE B == DutiesBefore(flown, d)
<1>3. Readable(log) /\ Readable(flown)
  OBVIOUS
<1>4. /\ Duties(flown) = Duties(log) \cup {d} /\ d \notin Duties(log)
      /\ \A f \in Duties(log) : flown[f] = log[f] /\ Report(flown, f) = Report(log, f)
      /\ flown[d].ts = report + 60 /\ Report(flown, d) = report
  <2>1. e.kind = "DUTY_CLOSED" /\ e.ts = report + 60 /\ e.fdp = 60
    BY DEF DutyEntry
  <2>2. Duties(flown) = Duties(log) \cup {d} /\ \A f \in Duties(log) : Report(flown, f) = Report(log, f)
    BY <2>1, ExtendedEntries
  <2>3. Duties(log) \subseteq DOMAIN log
    BY EntriesFinite
  <2>4. d \notin DOMAIN log /\ flown[d] = e /\ \A f \in DOMAIN log : flown[f] = log[f]
    BY DEF Extended
  <2>5. Report(flown, d) = report
    BY <2>1, <2>4 DEF Report
  <2> QED
    BY <2>1, <2>2, <2>3, <2>4, <2>5
<1>5. \A f \in Duties(log) :
        /\ log[f].ts \in Int /\ Report(log, f) \in Int /\ Report(log, f) < log[f].ts
        /\ log[f].ts < report \/ report + 60 < Report(log, f)
  <2>1. \A f \in Duties(log) : f \in DOMAIN log
    BY EntriesFinite
  <2>2. \A f \in Duties(log) : f # d /\ f \in Duties(flown) /\ d \in Duties(flown)
    BY <1>4
  <2>3. \A f \in Duties(log) :
          flown[f].ts < Report(flown, d) \/ flown[d].ts < Report(flown, f)
    BY <2>2 DEF NoOverlap
  <2> QED
    BY <1>3, <1>4, <2>1, <2>3 DEF Readable
<1>6. B = {f \in Duties(log) : log[f].ts < report}
  <2>1. \A f \in Duties(log) : ReportedBefore(flown, f, d) <=> log[f].ts < report
    BY <1>4, <1>5 DEF ReportedBefore
  <2>2. ~ReportedBefore(flown, d, d)
    <3>1. d \in Int
      BY <1>3 DEF Readable, Extended
    <3> QED
      BY <1>4, <3>1 DEF ReportedBefore, Earlier
  <2> QED
    BY <1>4, <2>1, <2>2 DEF DutiesBefore
<1>7. ReleasesBefore(log, report) = {log[f].ts : f \in B}
  BY <1>6 DEF ReleasesBefore
<1>8. ASSUME B # {} PROVE Gap(flown, d) = RestSinceLast(log, report)
  <2>1. d \in Duties(flown) /\ DutiesBefore(flown, d) = B
    BY <1>4
  <2>2. PICK p : p = Previous(flown, d)
    OBVIOUS
  <2>3. p \in B /\ \A f \in B \ {p} : ReportedBefore(flown, f, p)
    BY <1>8, <2>1, <2>2, PreviousReported
  <2>4. \A f \in B : f \in Duties(log) /\ f \in Duties(flown)
    BY <1>4, <1>6
  <2>5. \A f \in B : log[f].ts <= log[p].ts
    <3> SUFFICES ASSUME NEW f \in B, f # p PROVE log[f].ts <= log[p].ts
      BY <1>5, <2>3, <2>4
    <3>1. Report(log, f) <= Report(log, p)
      BY <1>4, <1>5, <2>3, <2>4 DEF ReportedBefore
    <3>2. log[f].ts < Report(log, p) \/ log[p].ts < Report(log, f)
      <4>1. f \in Duties(flown) /\ p \in Duties(flown)
        BY <2>3, <2>4
      <4>2. flown[f].ts < Report(flown, p) \/ flown[p].ts < Report(flown, f)
        BY <4>1 DEF NoOverlap
      <4> QED
        BY <1>4, <2>3, <2>4, <4>2
    <3> QED
      BY <1>5, <2>3, <2>4, <3>1, <3>2
  <2>6. Max({log[f].ts : f \in B}) = log[p].ts
    <3> DEFINE R == {log[f].ts : f \in B}
    <3>1. R \in SUBSET Int /\ log[p].ts \in R
      BY <1>5, <2>3, <2>4
    <3>2. \A y \in R : log[p].ts >= y
      BY <1>5, <2>3, <2>4, <2>5
    <3> HIDE DEF R
    <3>3. Max(R) = log[p].ts
      BY <3>1, <3>2, MaxOf
    <3> QED
      BY <3>3 DEF R
  <2>7. Gap(flown, d) = report - log[p].ts
    BY <1>4, <2>2, <2>3, <2>4 DEF Gap
  <2> QED
    BY <1>7, <2>6, <2>7 DEF RestSinceLast
<1>9. ReleasesBefore(log, report) = {} <=> B = {}
  <2> HIDE DEF B
  <2>1. ASSUME NEW f \in B PROVE log[f].ts \in {log[g].ts : g \in B}
    OBVIOUS
  <2> QED
    BY <1>7, <2>1
<1> QED
  BY <1>8, <1>9

(* The evaluator and the debt rebuild measure the same rest before a duty  *)
(* (lastDutyReleaseBefore and computeCompensatoryDebt, replay.go:64-150),  *)
(* whatever the log, as long as no two duties overlap.                     *)
THEOREM EvaluatorAlwaysAgrees == Spec => []EvaluatorAndDebtAgree
<1>1. LogTypeOK(log) => EvaluatorAndDebtAgree
  <2> SUFFICES ASSUME LogTypeOK(log), NEW report \in Proposals, NEW flown,
                      flown = Append(log, [kind |-> "DUTY_CLOSED", ts |-> report + 60,
                                           fdp |-> 60, owe |-> FALSE]),
                      NoOverlap(flown)
               PROVE  LET d == Len(flown) IN
                      /\ (ReleasesBefore(log, report) = {}) <=> (DutiesBefore(flown, d) = {})
                      /\ DutiesBefore(flown, d) # {} => Gap(flown, d) = RestSinceLast(log, report)
    BY DEF EvaluatorAndDebtAgree
  <2>1. PICK e : e = [kind |-> "DUTY_CLOSED", ts |-> report + 60, fdp |-> 60, owe |-> FALSE]
    OBVIOUS
  <2>2. report \in Int
    BY InputsAssumption
  <2>3. e \in DutyEntry /\ e.ts = report + 60 /\ e.fdp = 60
    BY <2>1, <2>2 DEF DutyEntry
  <2>4. flown = Append(log, e)
    BY <2>1
  <2>5. Extended(log, e, Len(flown), flown) /\ LogTypeOK(flown)
    BY <2>3, <2>4, AppendExtends
  <2>6. Readable(log) /\ Readable(flown)
    BY <2>5, LogReadable
  <2>7. PICK d, m : d = Len(flown) /\ m = flown
    OBVIOUS
  <2>8. /\ (ReleasesBefore(log, report) = {}) <=> (DutiesBefore(m, d) = {})
        /\ DutiesBefore(m, d) # {} => Gap(m, d) = RestSinceLast(log, report)
    <3>1. Extended(log, e, d, m) /\ Readable(m) /\ NoOverlap(m) /\ e \in DutyEntry
      BY <2>3, <2>5, <2>6, <2>7
    <3>2. ReleasesBefore(log, report) = {} <=> DutiesBefore(m, d) = {}
      BY <2>2, <2>3, <2>6, <3>1, RestMeasuredAlike
    <3>3. DutiesBefore(m, d) # {} => Gap(m, d) = RestSinceLast(log, report)
      BY <2>2, <2>3, <2>6, <3>1, RestMeasuredAlike
    <3> QED
      BY <3>2, <3>3
  <2> QED
    BY <2>7, <2>8
<1> QED
  BY <1>1, LogTyped, PTL

-----------------------------------------------------------------------------
(* The early-start streak *)

StreakOrder(l, ref) ==
  {ij \in StreakItems(l, ref) \X StreakItems(l, ref) : StreakBefore(l, ij[1], ij[2])}
Breaks(l, i) ==
  \/ i \in Rests(l) /\ l[i].duration >= ResetRest
  \/ i \in Duties(l) /\ ~IsEarly(Report(l, i))
Counts(l, i) == i \in Duties(l) /\ IsEarly(Report(l, i))

(* The places, up to p, of the early duties that no later entry breaks off. *)
Run(l, s, p) == {q \in 1..p : Counts(l, s[q]) /\ \A k \in (q + 1)..p : ~Breaks(l, s[k])}

LEMMA StreakItemsListed ==
  ASSUME NEW l, Readable(l), NEW ref \in Int
  PROVE  /\ IsFiniteSet(StreakItems(l, ref)) /\ StreakItems(l, ref) \subseteq DOMAIN l
         /\ Arranged(StreakStream(l, ref), StreakItems(l, ref), StreakOrder(l, ref))
<1> DEFINE S == StreakItems(l, ref)
<1>1. Readable(l)
  OBVIOUS
<1>2. IsFiniteSet(S) /\ S \subseteq DOMAIN l
  BY EntriesFinite DEF StreakItems
<1>3. \A i \in S : /\ i \in Int /\ StreamTime(l, i) \in Int
                  /\ (i \in Duties(l) \/ i \in Rests(l))
                  /\ ~(i \in Duties(l) /\ i \in Rests(l))
  <2>1. \A i \in DOMAIN l : i \in Int /\ l[i].ts \in Int /\ i \in Duties(l) \cup Rests(l)
    BY <1>1 DEF Readable
  <2> QED
    BY <1>1, <1>2, <2>1 DEF StreamTime, Readable
<1> HIDE DEF S
<1>4. \A i, j \in S : <<i, j>> \in StreakOrder(l, ref) <=> StreakBefore(l, i, j)
  BY DEF StreakOrder, S
<1>5. \A i \in S : ~StreakBefore(l, i, i)
  BY <1>3 DEF StreakBefore
<1>6. \A i, j \in S : i # j => StreakBefore(l, i, j) \/ StreakBefore(l, j, i)
  BY <1>3 DEF StreakBefore
<1>7. \A i, j, k \in S : StreakBefore(l, i, j) /\ StreakBefore(l, j, k) => StreakBefore(l, i, k)
  BY <1>3 DEF StreakBefore
<1>8. StrictOrder(S, StreakOrder(l, ref))
  BY <1>4, <1>5, <1>6, <1>7 DEF StrictOrder
<1>9. Arranged(Arrange(S, StreakOrder(l, ref)), S, StreakOrder(l, ref))
  BY <1>2, <1>8, ArrangeSorts
<1> QED
  BY <1>2, <1>9 DEF S, StreakStream, StreakOrder

LEMMA RunsFinite ==
  ASSUME NEW l, NEW s, NEW p \in Nat
  PROVE  IsFiniteSet(Run(l, s, p)) /\ Cardinality(Run(l, s, p)) \in Nat
<1>1. IsFiniteSet(1..p)
  <2>1. 1 \in Int /\ p \in Int
    OBVIOUS
  <2> QED
    BY <2>1, FS_Interval
<1>2. Run(l, s, p) \subseteq 1..p
  BY DEF Run
<1> QED
  BY <1>1, <1>2, Sizes

(* What one more entry does to the run. *)
LEMMA RunStep ==
  ASSUME NEW l, Readable(l), NEW s, NEW p \in Nat, s[p + 1] \in DOMAIN l
  PROVE  StreakStep(l)[s[p + 1]][Cardinality(Run(l, s, p))] = Cardinality(Run(l, s, p + 1))
<1> DEFINE i == s[p + 1]
           n == Cardinality(Run(l, s, p))
<1>0. n \in Nat /\ i \in DOMAIN l /\ p + 1 \in Nat
  BY RunsFinite
<1>1. (i \in Duties(l) \/ i \in Rests(l)) /\ ~(i \in Duties(l) /\ i \in Rests(l))
  BY DEF Readable
<1>2. StreakStep(l)[i][n] =
        IF i \in Rests(l) THEN (IF l[i].duration >= ResetRest THEN 0 ELSE n)
        ELSE IF IsEarly(Report(l, i)) THEN n + 1 ELSE 0
  BY <1>0 DEF StreakStep
<1>a. Run(l, s, p + 1) =
        (IF Breaks(l, i) THEN {} ELSE Run(l, s, p)) \cup (IF Counts(l, i) THEN {p + 1} ELSE {})
  <2>1. \A q \in 1..p :
          /\ q \in 1..(p + 1) /\ p + 1 \in (q + 1)..(p + 1)
          /\ \A k \in (q + 1)..p : k \in (q + 1)..(p + 1)
          /\ \A k \in (q + 1)..(p + 1) : k \in (q + 1)..p \/ k = p + 1
    OBVIOUS
  <2>2. \A q \in 1..(p + 1) : q \in 1..p \/ q = p + 1
    OBVIOUS
  <2>3. ((p + 1) + 1)..(p + 1) = {} /\ p + 1 \in 1..(p + 1) /\ p + 1 \notin 1..p
    OBVIOUS
  <2>4. \A q \in 1..p : q \in Run(l, s, p + 1) <=> q \in Run(l, s, p) /\ ~Breaks(l, i)
    BY <2>1 DEF Run
  <2>5. p + 1 \in Run(l, s, p + 1) <=> Counts(l, i)
    BY <2>3 DEF Run
  <2>6. Run(l, s, p + 1) \subseteq 1..(p + 1) /\ Run(l, s, p) \subseteq 1..p
    BY DEF Run
  <2> HIDE DEF i
  <2> QED
    BY <2>2, <2>3, <2>4, <2>5, <2>6
<1> HIDE DEF i, n
<1>3. CASE Breaks(l, i)
  <2>1. Run(l, s, p + 1) = {}
    BY <1>1, <1>3, <1>a DEF Breaks, Counts
  <2>2. StreakStep(l)[i][n] = 0
    BY <1>1, <1>2, <1>3 DEF Breaks
  <2>3. Cardinality({}) = 0
    BY FS_EmptySet
  <2>4. Cardinality(Run(l, s, p + 1)) = 0
    BY <2>1, <2>3, Zenon
  <2> QED
    BY <2>2, <2>4 DEF i, n
<1>4. CASE Counts(l, i)
  <2>1. Run(l, s, p + 1) = Run(l, s, p) \cup {p + 1} /\ p + 1 \notin Run(l, s, p)
    <3>1. ~Breaks(l, i)
      BY <1>1, <1>4 DEF Breaks, Counts
    <3>2. p + 1 \notin Run(l, s, p)
      BY DEF Run
    <3> QED
      BY <1>4, <1>a, <3>1, <3>2
  <2>2. IsFiniteSet(Run(l, s, p))
    BY RunsFinite
  <2>3. Cardinality(Run(l, s, p) \cup {p + 1}) = Cardinality(Run(l, s, p)) + 1
    BY <2>1, <2>2, FS_AddElement
  <2>4. StreakStep(l)[i][n] = n + 1
    BY <1>1, <1>2, <1>4 DEF Counts
  <2>5. Cardinality(Run(l, s, p + 1)) = n + 1
    BY <2>1, <2>3, Zenon DEF n
  <2> QED
    BY <2>4, <2>5 DEF i, n
<1>5. CASE ~Breaks(l, i) /\ ~Counts(l, i)
  <2>1. Run(l, s, p + 1) = Run(l, s, p)
    BY <1>5, <1>a
  <2>2. StreakStep(l)[i][n] = n
    BY <1>1, <1>2, <1>5 DEF Breaks, Counts
  <2>3. Cardinality(Run(l, s, p + 1)) = n
    BY <2>1, Zenon DEF n
  <2> QED
    BY <2>2, <2>3 DEF i, n
<1> QED
  BY <1>3, <1>4, <1>5

LEMMA StreakIsRun ==
  ASSUME NEW l, Readable(l), NEW s, Len(s) \in Nat, \A p \in 1..Len(s) : s[p] \in DOMAIN l
  PROVE  Walk(StreakStep(l), 0, s) = Cardinality(Run(l, s, Len(s)))
<1>1. PICK after : Walked(after, StreakStep(l), 0, s)
  BY WalkStates
<1> DEFINE T == {p \in Nat : p <= Len(s) => after[p] = Cardinality(Run(l, s, p))}
<1>2. 0 \in T
  <2>1. Run(l, s, 0) = {}
    BY DEF Run
  <2>2. Cardinality({}) = 0
    BY FS_EmptySet
  <2>3. Cardinality(Run(l, s, 0)) = 0
    BY <2>1, <2>2, Zenon
  <2> QED
    BY <1>1, <2>3 DEF Walked
<1>3. ASSUME NEW p \in T PROVE p + 1 \in T
  <2> SUFFICES ASSUME p + 1 <= Len(s) PROVE after[p + 1] = Cardinality(Run(l, s, p + 1))
    OBVIOUS
  <2>1. p \in Nat /\ after[p] = Cardinality(Run(l, s, p))
    OBVIOUS
  <2>2. p + 1 \in 1..Len(s) /\ (p + 1) - 1 = p
    BY <2>1
  <2>3. after[p + 1] = StreakStep(l)[s[p + 1]][after[(p + 1) - 1]]
    BY <1>1, <2>2 DEF Walked
  <2>4. after[p + 1] = StreakStep(l)[s[p + 1]][Cardinality(Run(l, s, p))]
    BY <2>1, <2>2, <2>3, Zenon
  <2>5. s[p + 1] \in DOMAIN l
    BY <2>2
  <2>6. StreakStep(l)[s[p + 1]][Cardinality(Run(l, s, p))] = Cardinality(Run(l, s, p + 1))
    BY <2>1, <2>5, RunStep
  <2> QED
    BY <2>4, <2>6, Zenon
<1>a. T \in SUBSET Nat
  OBVIOUS
<1> HIDE DEF T
<1>4. Len(s) \in T
  BY <1>2, <1>3, <1>a, NumberInduction
<1> QED
  BY <1>1, <1>4 DEF T, Walked

(* The places of the run are those of the duties of the trailing run.      *)
LEMMA RunPlaces ==
  ASSUME NEW l, Readable(l), NEW ref \in Int, NEW s,
         Arranged(s, StreakItems(l, ref), StreakOrder(l, ref)),
         NEW n \in Nat, n = Cardinality(StreakItems(l, ref))
  PROVE  ExistsBijection(Run(l, s, n), TrailingRun(l, ref))
<1> DEFINE S == StreakItems(l, ref)
<1>1. /\ \A p \in 1..n : s[p] \in S
      /\ \A p, q \in 1..n : p < q => StreakBefore(l, s[p], s[q])
      /\ \A i \in S : \E p \in 1..n : s[p] = i
  BY DEF Arranged, StreakOrder
<1>2. Readable(l) /\ S \subseteq DOMAIN l
  BY StreakItemsListed
<1>3. \A i \in S : /\ i \in Int /\ StreamTime(l, i) \in Int
                  /\ (i \in Duties(l) \/ i \in Rests(l))
                  /\ ~(i \in Duties(l) /\ i \in Rests(l))
                  /\ (i \in Duties(l) => StreamTime(l, i) = Report(l, i) /\ Report(l, i) < ref)
                  /\ (i \in Rests(l) => StreamTime(l, i) = l[i].ts /\ l[i].ts < ref)
  <2>1. \A i \in DOMAIN l : i \in Int /\ l[i].ts \in Int /\ i \in Duties(l) \cup Rests(l)
    BY <1>2 DEF Readable
  <2>2. \A i \in S : i \notin Duties(l) \/ i \notin Rests(l)
    BY <1>2 DEF Readable
  <2>3. \A i \in S : (i \in Duties(l) => Report(l, i) < ref) /\ (i \in Rests(l) => l[i].ts < ref)
    BY <2>2 DEF StreakItems
  <2> QED
    BY <1>2, <2>1, <2>2, <2>3 DEF StreamTime, Readable
<1>4. \A i \in Duties(l) : Report(l, i) < ref => i \in S
  BY DEF StreakItems
<1>5. \A i \in Rests(l) : l[i].ts < ref => i \in S
  BY DEF StreakItems
<1> HIDE DEF S
<1>6. \A p, q \in 1..n : s[p] = s[q] => p = q
  <2> SUFFICES ASSUME NEW p \in 1..n, NEW q \in 1..n, p < q PROVE s[p] # s[q]
    OBVIOUS
  <2>1. StreakBefore(l, s[p], s[q]) /\ s[p] \in S
    BY <1>1
  <2>2. ~StreakBefore(l, s[p], s[p])
    BY <1>3, <2>1 DEF StreakBefore
  <2> QED
    BY <2>1, <2>2
<1>7. ASSUME NEW q \in 1..n, Counts(l, s[q])
      PROVE  /\ s[q] \in Duties(l) /\ IsEarly(Report(l, s[q])) /\ Report(l, s[q]) < ref
             /\ (\A k \in (q + 1)..n : ~Breaks(l, s[k])) <=> s[q] \in TrailingRun(l, ref)
  <2> DEFINE d == s[q]
  <2>1. d \in S /\ d \in Duties(l) /\ IsEarly(Report(l, d)) /\ Report(l, d) < ref
        /\ StreamTime(l, d) = Report(l, d) /\ Report(l, d) \in Int
    BY <1>1, <1>3, <1>7 DEF Counts
  <2>2. ASSUME NEW k \in (q + 1)..n, Breaks(l, s[k]) PROVE d \notin TrailingRun(l, ref)
    <3>1. k \in 1..n /\ q < k
      OBVIOUS
    <3>2. s[k] \in S /\ StreakBefore(l, d, s[k])
      BY <1>1, <3>1
    <3>3. StreamTime(l, d) <= StreamTime(l, s[k])
      BY <1>3, <2>1, <3>2 DEF StreakBefore
    <3>4. CASE s[k] \in Rests(l) /\ l[s[k]].duration >= ResetRest
      BY <1>3, <2>1, <3>2, <3>3, <3>4 DEF TrailingRun
    <3>5. CASE s[k] \in Duties(l) /\ ~IsEarly(Report(l, s[k]))
      <4>1. Report(l, s[k]) # Report(l, d)
        BY <2>1, <3>5
      <4>2. StreamTime(l, s[k]) = Report(l, s[k]) /\ Report(l, s[k]) < ref /\ Report(l, s[k]) \in Int
        BY <1>3, <3>2, <3>5
      <4>3. Report(l, d) < Report(l, s[k])
        BY <2>1, <3>3, <4>1, <4>2
      <4> HIDE DEF d
      <4> QED
        BY <3>5, <4>2, <4>3 DEF TrailingRun
    <3> QED
      BY <2>2, <3>4, <3>5 DEF Breaks
  <2>3. ASSUME NEW x \in S, Breaks(l, x), StreakBefore(l, d, x)
        PROVE  \E k \in (q + 1)..n : Breaks(l, s[k])
    <3>1. PICK k \in 1..n : s[k] = x
      BY <1>1
    <3>2. x # d
      BY <1>3, <2>1, <2>3 DEF StreakBefore
    <3>3. ~(k < q)
      <4>1. SUFFICES ASSUME k < q PROVE FALSE
        OBVIOUS
      <4>2. StreakBefore(l, x, d)
        BY <1>1, <3>1, <4>1
      <4> QED
        BY <1>3, <2>1, <2>3, <4>2 DEF StreakBefore
    <3>4. k # q
      BY <3>1, <3>2
    <3>5. k \in (q + 1)..n
      BY <3>3, <3>4
    <3> QED
      BY <2>3, <3>1, <3>5
  <2>4. ASSUME d \notin TrailingRun(l, ref) PROVE \E k \in (q + 1)..n : Breaks(l, s[k])
    <3>1. CASE \E e \in Duties(l) : ~IsEarly(Report(l, e)) /\ Report(l, e) < ref /\ Report(l, e) > Report(l, d)
      <4>1. PICK e \in Duties(l) : ~IsEarly(Report(l, e)) /\ Report(l, e) < ref /\ Report(l, e) > Report(l, d)
        BY <3>1
      <4>2. e \in S /\ Breaks(l, e)
        BY <1>4, <4>1 DEF Breaks
      <4>3. StreakBefore(l, d, e)
        BY <1>3, <2>1, <4>1, <4>2 DEF StreakBefore
      <4> QED
        BY <2>3, <4>2, <4>3
    <3>2. CASE \E r \in Rests(l) : l[r].duration >= ResetRest /\ l[r].ts < ref /\ l[r].ts >= Report(l, d)
      <4>1. PICK r \in Rests(l) : l[r].duration >= ResetRest /\ l[r].ts < ref /\ l[r].ts >= Report(l, d)
        BY <3>2
      <4>2. r \in S /\ Breaks(l, r)
        BY <1>5, <4>1 DEF Breaks
      <4>3. StreakBefore(l, d, r)
        BY <1>3, <2>1, <4>1, <4>2 DEF StreakBefore
      <4> QED
        BY <2>3, <4>2, <4>3
    <3> HIDE DEF d
    <3> QED
      BY <2>1, <2>4, <3>1, <3>2 DEF TrailingRun
  <2> QED
    BY <2>1, <2>2, <2>4
<1> DEFINE b == [q \in Run(l, s, n) |-> s[q]]
<1>8. \A q \in Run(l, s, n) : q \in 1..n /\ s[q] \in TrailingRun(l, ref)
  BY <1>7 DEF Run
<1>9. \A d \in TrailingRun(l, ref) : \E q \in Run(l, s, n) : s[q] = d
  <2> SUFFICES ASSUME NEW d \in TrailingRun(l, ref) PROVE \E q \in Run(l, s, n) : s[q] = d
    OBVIOUS
  <2>1. d \in S /\ Counts(l, d)
    BY <1>4 DEF TrailingRun, Counts
  <2>2. PICK q \in 1..n : s[q] = d
    BY <1>1, <2>1
  <2>3. q \in Run(l, s, n)
    BY <1>7, <2>1, <2>2 DEF Run
  <2> QED
    BY <2>2, <2>3
<1>10. b \in [Run(l, s, n) -> TrailingRun(l, ref)]
  BY <1>8
<1>11. \A q \in Run(l, s, n) : b[q] = s[q]
  OBVIOUS
<1> HIDE DEF b
<1>12. b \in Bijection(Run(l, s, n), TrailingRun(l, ref))
  BY <1>6, <1>8, <1>9, <1>10, <1>11 DEF Bijection, Injection, Surjection, IsInjective
<1> QED
  BY <1>12 DEF ExistsBijection

LEMMA StreakLength ==
  ASSUME NEW l, Readable(l), NEW ref \in Int
  PROVE  EarlyStreak(l, ref) = Cardinality(TrailingRun(l, ref))
<1>1. PICK s : s = StreakStream(l, ref)
  OBVIOUS
<1>2. PICK n : n = Cardinality(StreakItems(l, ref))
  OBVIOUS
<1>3. /\ IsFiniteSet(StreakItems(l, ref)) /\ StreakItems(l, ref) \subseteq DOMAIN l
      /\ Arranged(s, StreakItems(l, ref), StreakOrder(l, ref))
  BY <1>1, StreakItemsListed
<1>4. n \in Nat
  BY <1>2, <1>3, FS_CardinalityType
<1>5. Len(s) = n /\ \A p \in 1..n : s[p] \in DOMAIN l
  BY <1>2, <1>3, <1>4 DEF Arranged
<1>6. Walk(StreakStep(l), 0, s) = Cardinality(Run(l, s, n))
  <2>1. Len(s) \in Nat /\ \A p \in 1..Len(s) : s[p] \in DOMAIN l
    BY <1>4, <1>5
  <2>2. Walk(StreakStep(l), 0, s) = Cardinality(Run(l, s, Len(s)))
    BY <2>1, StreakIsRun
  <2> QED
    BY <1>5, <2>2, Zenon
<1>7. ExistsBijection(Run(l, s, n), TrailingRun(l, ref))
  BY <1>2, <1>3, <1>4, RunPlaces
<1>8. Cardinality(TrailingRun(l, ref)) = Cardinality(Run(l, s, n))
  BY <1>4, <1>7, RunsFinite, FS_Bijection
<1> QED
  BY <1>1, <1>6, <1>8 DEF EarlyStreak

(* The early-start streak is the length of the trailing run of early       *)
(* reports (computeEarlyStreakFromDuties, replay.go:212-254), whatever the *)
(* log and the order it was recorded in.                                   *)
THEOREM StreakAlwaysTrailingRun == Spec => []StreakIsTrailingRun
<1>1. Readable(log) => StreakIsTrailingRun
  BY StreakLength, InputsAssumption DEF StreakIsTrailingRun
<1> QED
  BY <1>1, LogAlwaysReadable, PTL

-----------------------------------------------------------------------------
(* Open deficits *)

OpenOK(open) == open \in Seq(Deficit) /\ \A i \in 1..Len(open) : open[i].amount > 0

LEMMA OpenAmounts ==
  ASSUME NEW open, OpenOK(open)
  PROVE  /\ Len(open) \in Nat /\ DOMAIN open = 1..Len(open)
         /\ \A i \in 1..Len(open) : /\ open[i] \in Deficit
                                   /\ open[i].amount \in Nat /\ open[i].amount > 0
                                   /\ Amounts(open)[i] = open[i].amount
         /\ SumAmounts(open) = SumOldest(open, Len(open))
         /\ SumOldest(open, 0) = 0
         /\ \A i \in 0..Len(open) : SumOldest(open, i) \in Nat
         /\ \A i \in 0..(Len(open) - 1) :
              SumOldest(open, i + 1) = SumOldest(open, i) + open[i + 1].amount
<1> DEFINE f == Amounts(open)
           n == Len(open)
<1>1. n \in Nat /\ DOMAIN open = 1..n /\ \A i \in 1..n : open[i] \in Deficit
  BY DEF OpenOK
<1>2. \A i \in 1..n : open[i].amount \in Nat /\ open[i].amount > 0 /\ f[i] = open[i].amount
  BY <1>1 DEF OpenOK, Deficit, Amounts
<1>3. DOMAIN f = 1..n
  BY <1>1 DEF Amounts
<1> HIDE DEF f, n
<1>4. \A i \in 1..n : f[i] \in Int
  BY <1>2
<1>5. /\ \A m \in 0..n : SumFunctionOnSet(f, 1..m) \in Int
      /\ SumFunctionOnSet(f, 1..0) = 0
      /\ \A m \in 0..(n - 1) : SumFunctionOnSet(f, 1..(m + 1)) = SumFunctionOnSet(f, 1..m) + f[m + 1]
  <2>1. /\ \A k \in 1..(n + 1) : \A m \in 0..n : SumFunctionOnSet(f, k..m) \in Int
        /\ \A k \in Int : \A m \in Int : m < k => SumFunctionOnSet(f, k..m) = 0
        /\ \A k \in 1..n : \A m \in 0..(n - 1) : k <= m + 1 =>
             SumFunctionOnSet(f, k..(m + 1)) = SumFunctionOnSet(f, k..m) + f[m + 1]
    BY <1>1, <1>4, SumOfRange DEF n
  <2>2. 1 \in 1..(n + 1) /\ \A m \in 0..(n - 1) : 1 \in 1..n /\ 1 <= m + 1
    BY <1>1 DEF n
  <2>3. 0 \in Int /\ 1 \in Int /\ 0 < 1
    OBVIOUS
  <2> QED
    BY <2>1, <2>2, <2>3
<1>6. \A i \in 0..n : SumFunctionOnSet(f, 1..i) \in Nat
  <2> SUFFICES ASSUME NEW i \in 0..n PROVE SumFunctionOnSet(f, 1..i) \in Nat
    OBVIOUS
  <2>0. n \in Nat
    BY <1>1 DEF n
  <2>1. PICK R : R = 1..i
    OBVIOUS
  <2>2. IsFiniteSet(R)
    BY <2>1, FS_Interval
  <2>3. \A x \in R : f[x] \in Nat
    BY <1>2, <2>0, <2>1
  <2>4. SumFunctionOnSet(f, R) \in Nat
    BY <2>2, <2>3, SumOfNaturals
  <2> QED
    BY <2>1, <2>4, Zenon
<1>7. SumAmounts(open) = SumFunctionOnSet(f, 1..n)
  BY <1>3, Zenon DEF SumAmounts, SumFunction, f
<1>8. \A i : SumOldest(open, i) = SumFunctionOnSet(f, 1..i)
  BY DEF SumOldest, f
<1>9. \A i \in 0..(n - 1) : i + 1 \in 1..n /\ f[i + 1] = open[i + 1].amount
  BY <1>1, <1>2 DEF n
<1> QED
  BY <1>1, <1>2, <1>5, <1>6, <1>7, <1>8, <1>9 DEF n, f

(* The deficits a credit pays in full are the oldest ones. *)
LEMMA PaidInFull ==
  ASSUME NEW open, OpenOK(open), NEW credit \in Nat
  PROVE  \E n \in 0..Len(open) :
           /\ Cardinality({i \in DOMAIN open : SumOldest(open, i) <= credit}) = n
           /\ SumOldest(open, n) <= credit
           /\ n < Len(open) => SumOldest(open, n + 1) > credit
<1> DEFINE L == Len(open)
           F(i) == SumOldest(open, i)
           C == {k \in Nat : k < L /\ F(k + 1) > credit} \cup {L}
<1>1. /\ L \in Nat /\ DOMAIN open = 1..L
      /\ \A i \in 1..L : open[i].amount \in Nat /\ open[i].amount > 0
      /\ F(0) = 0
      /\ \A i \in 0..L : F(i) \in Nat
      /\ \A i \in 0..(L - 1) : F(i + 1) = F(i) + open[i + 1].amount
  BY OpenAmounts
<1> HIDE DEF L, F
<1>2. C \in SUBSET Nat /\ C # {}
  BY <1>1
<1>3. PICK n \in C : \A m \in C : n <= m
  BY <1>2, LeastNumber
<1>4. n \in 0..L /\ (n < L => F(n + 1) > credit)
  BY <1>1, <1>3
<1>5. \A k \in Nat : k < n => F(k + 1) <= credit
  <2> SUFFICES ASSUME NEW k \in Nat, k < n PROVE F(k + 1) <= credit
    OBVIOUS
  <2>1. k \notin C /\ k < L /\ k + 1 \in 0..L
    BY <1>1, <1>3, <1>4
  <2>2. ~(F(k + 1) > credit) /\ F(k + 1) \in Nat
    BY <1>1, <2>1
  <2> QED
    BY <2>2
<1> HIDE DEF C
<1>6. \A i \in 1..n : F(i) <= credit
  <2> SUFFICES ASSUME NEW i \in 1..n PROVE F(i) <= credit
    OBVIOUS
  <2>1. i - 1 \in Nat /\ i - 1 < n /\ (i - 1) + 1 = i
    BY <1>1, <1>4
  <2>2. F((i - 1) + 1) <= credit
    BY <1>5, <2>1
  <2> QED
    BY <2>1, <2>2, Zenon
<1>7. F(n) <= credit
  <2>1. CASE n = 0
    <3>1. F(n) = 0
      BY <1>1, <2>1
    <3> QED
      BY <3>1
  <2>2. CASE n # 0
    BY <1>1, <1>4, <1>6, <2>2
  <2> QED
    BY <2>1, <2>2
<1>8. \A i \in (n + 1)..L : F(i) > credit
  <2> DEFINE T == {m \in Nat : n + 1 + m <= L => F(n + 1 + m) > credit}
  <2>1. 0 \in T
    <3>1. n + 1 + 0 = n + 1
      BY <1>1, <1>4
    <3>2. n + 1 <= L => F(n + 1) > credit
      BY <1>1, <1>4
    <3>3. n + 1 + 0 <= L => F(n + 1 + 0) > credit
      BY <3>1, <3>2, Zenon
    <3> QED
      BY <3>3
  <2>2. ASSUME NEW m \in T PROVE m + 1 \in T
    <3>1. m \in Nat /\ m + 1 \in Nat /\ (n + 1 + m <= L => F(n + 1 + m) > credit)
      OBVIOUS
    <3>2. ASSUME n + 1 + (m + 1) <= L PROVE F(n + 1 + (m + 1)) > credit
      <4>1. PICK i : i = n + 1 + m
        OBVIOUS
      <4>2. i \in 0..(L - 1) /\ i + 1 \in 1..L /\ i \in 0..L /\ n + 1 + (m + 1) = i + 1
        BY <1>1, <1>4, <3>1, <3>2, <4>1
      <4>3. F(i) > credit
        BY <3>1, <4>1, <4>2, <1>1
      <4>4. F(i + 1) = F(i) + open[i + 1].amount /\ open[i + 1].amount \in Nat /\ F(i) \in Nat
        BY <1>1, <4>2
      <4>5. F(i + 1) > credit
        BY <4>3, <4>4
      <4> QED
        BY <4>2, <4>5, Zenon
    <3> QED
      BY <3>1, <3>2
  <2>3. T \in SUBSET Nat
    OBVIOUS
  <2> HIDE DEF T
  <2>4. \A m \in Nat : m \in T
    BY <2>1, <2>2, <2>3, NumberInduction
  <2> SUFFICES ASSUME NEW i \in (n + 1)..L PROVE F(i) > credit
    OBVIOUS
  <2>5. i - (n + 1) \in Nat /\ n + 1 + (i - (n + 1)) = i /\ i <= L
    BY <1>1, <1>4
  <2>6. n + 1 + (i - (n + 1)) <= L => F(n + 1 + (i - (n + 1))) > credit
    BY <2>4, <2>5 DEF T
  <2> QED
    BY <2>5, <2>6, Zenon
<1>9. {i \in 1..L : F(i) <= credit} = 1..n
  <2>1. \A i \in 1..L : i \in 1..n \/ i \in (n + 1)..L
    BY <1>1, <1>4
  <2>2. \A i \in 1..n : i \in 1..L
    BY <1>1, <1>4
  <2>3. \A i \in (n + 1)..L : ~(F(i) <= credit)
    <3> SUFFICES ASSUME NEW i \in (n + 1)..L PROVE ~(F(i) <= credit)
      OBVIOUS
    <3>1. i \in 0..L /\ F(i) > credit
      BY <1>1, <1>4, <1>8
    <3>2. F(i) \in Nat
      BY <1>1, <3>1
    <3> QED
      BY <3>1, <3>2
  <2> QED
    BY <1>6, <2>1, <2>2, <2>3
<1>10. Cardinality(1..n) = n
  <2>1. 1 \in Int /\ n \in Int
    BY <1>1, <1>4
  <2>2. Cardinality(1..n) = IF 1 > n THEN 0 ELSE n - 1 + 1
    BY <2>1, FS_Interval
  <2> QED
    BY <1>1, <1>4, <2>2
<1>11. Cardinality({i \in DOMAIN open : F(i) <= credit}) = n
  <2>1. {i \in DOMAIN open : F(i) <= credit} = 1..n
    BY <1>1, <1>9
  <2> QED
    BY <1>10, <2>1, Zenon
<1> QED
  BY <1>4, <1>7, <1>11 DEF L, F

(* A credit pays the oldest deficits, the last of them in part, and what   *)
(* is left of it is lost: the total goes down by the credit, to nothing at *)
(* the least.                                                              *)
LEMMA PayTotal ==
  ASSUME NEW open, OpenOK(open), NEW credit \in Nat
  PROVE  /\ OpenOK(Pay(open, credit))
         /\ SumAmounts(Pay(open, credit)) = Larger(0, SumAmounts(open) - credit)
<1> DEFINE L == Len(open)
           F(i) == SumOldest(open, i)
           rest == Pay(open, credit)
<1>1. /\ L \in Nat /\ DOMAIN open = 1..L
      /\ \A i \in 1..L : /\ open[i] \in Deficit
                        /\ open[i].amount \in Nat /\ open[i].amount > 0
      /\ SumAmounts(open) = F(L)
      /\ F(0) = 0
      /\ \A i \in 0..L : F(i) \in Nat
      /\ \A i \in 0..(L - 1) : F(i + 1) = F(i) + open[i + 1].amount
  BY OpenAmounts
<1>2. PICK n \in 0..L :
        /\ Cardinality({i \in DOMAIN open : F(i) <= credit}) = n
        /\ F(n) <= credit
        /\ n < L => F(n + 1) > credit
  BY PaidInFull
<1>3. rest = [i \in 1..(L - n) |->
                [open[n + i] EXCEPT !.amount = IF i = 1 THEN F(n + 1) - credit ELSE @]]
  BY <1>2 DEF Pay
<1> HIDE DEF L, F, rest
<1>4. /\ L - n \in Nat
      /\ \A i \in 1..(L - n) : n + i \in 1..L
      /\ n < L => n + 1 \in 1..L /\ n \in 0..(L - 1) /\ n \in 0..L /\ n + 1 \in 0..L
  BY <1>1
<1>5. Len(rest) = L - n /\ DOMAIN rest = 1..(L - n)
  BY <1>3, <1>4
<1>6. n < L => F(n + 1) - credit \in Nat /\ F(n + 1) - credit > 0
  <2> SUFFICES ASSUME n < L PROVE F(n + 1) - credit \in Nat /\ F(n + 1) - credit > 0
    OBVIOUS
  <2>1. F(n + 1) \in Nat /\ F(n + 1) > credit
    BY <1>1, <1>2, <1>4
  <2> QED
    BY <2>1
<1>7. ASSUME NEW i \in 1..(L - n)
      PROVE  /\ rest[i] \in Deficit
             /\ rest[i].amount = (IF i = 1 THEN F(n + 1) - credit ELSE open[n + i].amount)
             /\ rest[i].amount > 0
  <2>1. open[n + i] \in Deficit /\ open[n + i].amount \in Nat /\ open[n + i].amount > 0
    BY <1>1, <1>4
  <2>2. rest[i] = [open[n + i] EXCEPT !.amount = IF i = 1 THEN F(n + 1) - credit ELSE @]
    BY <1>3
  <2>3. n < L
    BY <1>1
  <2>4. PICK a : a = IF i = 1 THEN F(n + 1) - credit ELSE open[n + i].amount
    OBVIOUS
  <2>5. a \in Int /\ a > 0
    BY <1>6, <2>1, <2>3, <2>4
  <2>6. rest[i] = [open[n + i] EXCEPT !.amount = a]
    BY <2>2, <2>4
  <2>7. rest[i] \in Deficit /\ rest[i].amount = a
    BY <2>1, <2>5, <2>6 DEF Deficit
  <2> QED
    BY <2>4, <2>5, <2>7
<1>8. OpenOK(rest)
  <2>1. rest \in [1..(L - n) -> Deficit]
    <3>1. \A i \in 1..(L - n) : rest[i] \in Deficit
      BY <1>7
    <3>2. rest = [i \in 1..(L - n) |-> rest[i]]
      BY <1>3
    <3> QED
      BY <3>1, <3>2
  <2>2. rest \in Seq(Deficit)
    BY <1>4, <2>1
  <2>3. \A i \in 1..Len(rest) : rest[i].amount > 0
    BY <1>5, <1>7
  <2> QED
    BY <2>2, <2>3 DEF OpenOK
<1> DEFINE G(i) == SumOldest(rest, i)
<1>9. /\ SumAmounts(rest) = G(L - n) /\ G(0) = 0
      /\ \A i \in 0..(L - n) : G(i) \in Nat
      /\ \A i \in 0..((L - n) - 1) : G(i + 1) = G(i) + rest[i + 1].amount
  <2>1. /\ SumAmounts(rest) = SumOldest(rest, Len(rest))
        /\ SumOldest(rest, 0) = 0
        /\ \A i \in 0..Len(rest) : SumOldest(rest, i) \in Nat
        /\ \A i \in 0..(Len(rest) - 1) :
             SumOldest(rest, i + 1) = SumOldest(rest, i) + rest[i + 1].amount
    BY <1>8, OpenAmounts
  <2> QED
    BY <1>5, <2>1
<1> HIDE DEF G
<1> DEFINE T == {i \in Nat : i >= 1 /\ i <= L - n => G(i) = F(n + i) - credit}
<1>10. \A i \in Nat : i \in T
  <2>1. 0 \in T
    OBVIOUS
  <2>2. ASSUME NEW i \in T PROVE i + 1 \in T
    <3> SUFFICES ASSUME i + 1 <= L - n PROVE G(i + 1) = F(n + (i + 1)) - credit
      OBVIOUS
    <3>1. i \in Nat /\ i \in 0..((L - n) - 1) /\ i + 1 \in 1..(L - n) /\ n < L
      BY <1>1
    <3>2. G(i + 1) = G(i) + rest[i + 1].amount
      BY <1>9, <3>1
    <3>3. CASE i = 0
      <4>1. rest[i + 1].amount = F(n + 1) - credit
        BY <1>7, <3>1, <3>3
      <4>2. G(i + 1) = 0 + (F(n + 1) - credit)
        BY <1>9, <3>2, <3>3, <4>1
      <4>3. n + (i + 1) = n + 1
        BY <3>3
      <4>4. 0 + (F(n + 1) - credit) = F(n + 1) - credit
        BY <1>6, <3>1
      <4> QED
        BY <4>2, <4>3, <4>4, Zenon
    <3>4. CASE i # 0
      <4>1. G(i) = F(n + i) - credit
        <5>1. i >= 1 /\ i <= L - n
          BY <1>4, <3>1, <3>4
        <5> QED
          BY <5>1
      <4>2. rest[i + 1].amount = open[n + (i + 1)].amount
        BY <1>7, <3>1, <3>4
      <4>3. PICK k : k = n + i
        OBVIOUS
      <4>4. k \in 0..(L - 1) /\ n + (i + 1) = k + 1 /\ k + 1 \in 1..L /\ k \in 0..L
        BY <1>1, <3>1, <4>3
      <4>5. F(k + 1) = F(k) + open[k + 1].amount /\ open[k + 1].amount \in Nat /\ F(k) \in Nat
        BY <1>1, <4>4
      <4>6. G(i + 1) = (F(k) - credit) + open[k + 1].amount
        BY <3>2, <4>1, <4>2, <4>3, <4>4, Zenon
      <4>7. G(i + 1) = F(k + 1) - credit
        BY <4>5, <4>6
      <4> QED
        BY <4>4, <4>7, Zenon
    <3> QED
      BY <3>3, <3>4
  <2>3. T \in SUBSET Nat
    OBVIOUS
  <2> HIDE DEF T
  <2> QED
    BY <2>1, <2>2, <2>3, NumberInduction
<1>11. SumAmounts(rest) = Larger(0, F(L) - credit)
  <2>1. F(L) \in Nat
    BY <1>1
  <2>2. CASE n = L
    <3>1. G(L - n) = 0
      BY <1>1, <1>9, <2>2
    <3>2. F(L) <= credit
      BY <1>2, <2>2
    <3> QED
      BY <1>9, <2>1, <3>1, <3>2 DEF Larger
  <2>3. CASE n # L
    <3>1. L - n \in T /\ L - n >= 1 /\ n + (L - n) = L
      BY <1>1, <1>4, <1>10, <2>3
    <3>2. G(L - n) = F(n + (L - n)) - credit
      BY <3>1
    <3>3. G(L - n) = F(L) - credit /\ G(L - n) \in Nat
      <4>1. L - n \in 0..(L - n)
        BY <1>4
      <4> QED
        BY <1>9, <3>1, <3>2, <4>1
    <3> QED
      BY <1>9, <2>1, <3>3 DEF Larger
  <2> QED
    BY <2>2, <2>3
<1> QED
  BY <1>1, <1>8, <1>11 DEF rest, L, F

(* A deficit more adds its amount. *)
LEMMA AppendTotal ==
  ASSUME NEW open, OpenOK(open), NEW deficit \in Deficit, deficit.amount > 0
  PROVE  /\ OpenOK(Append(open, deficit))
         /\ SumAmounts(Append(open, deficit)) = SumAmounts(open) + deficit.amount
<1>1. PICK more : more = Append(open, deficit)
  OBVIOUS
<1>2. PICK n : n = Len(open)
  OBVIOUS
<1>3. /\ n \in Nat /\ Len(more) = n + 1
      /\ \A i \in 1..n : more[i] = open[i]
      /\ more[n + 1] = deficit
      /\ more \in Seq(Deficit)
  BY <1>1, <1>2 DEF OpenOK
<1>4. OpenOK(more)
  <2>1. \A i \in 1..(n + 1) : i \in 1..n \/ i = n + 1
    BY <1>3
  <2>2. \A i \in 1..n : open[i].amount > 0
    BY <1>2 DEF OpenOK
  <2>3. \A i \in 1..(n + 1) : more[i].amount > 0
    BY <1>3, <2>1, <2>2
  <2> QED
    BY <1>3, <2>3 DEF OpenOK
<1>5. SumAmounts(more) = SumOldest(more, n + 1)
      /\ SumOldest(more, n + 1) = SumOldest(more, n) + more[n + 1].amount
  <2>1. SumAmounts(more) = SumOldest(more, Len(more)) /\ Len(more) \in Nat
        /\ \A i \in 0..(Len(more) - 1) : SumOldest(more, i + 1) = SumOldest(more, i) + more[i + 1].amount
    BY <1>4, OpenAmounts
  <2>2. n \in 0..(Len(more) - 1)
    BY <1>3
  <2> QED
    BY <1>3, <2>1, <2>2
<1>6. SumOldest(more, n) = SumOldest(open, n)
  <2> DEFINE f == Amounts(open)
             g == Amounts(more)
  <2>1. \A i \in 1..n : f[i] = open[i].amount /\ open[i].amount \in Nat
    BY <1>2, OpenAmounts
  <2>2. \A i \in 1..n : g[i] = more[i].amount
    <3>1. \A i \in 1..Len(more) : g[i] = more[i].amount
      BY <1>4, OpenAmounts
    <3>2. \A i \in 1..n : i \in 1..Len(more)
      BY <1>3
    <3> QED
      BY <3>1, <3>2
  <2>3. \A i \in 1..n : g[i] = f[i] /\ f[i] \in Int
    BY <1>3, <2>1, <2>2
  <2> HIDE DEF f, g
  <2>4. PICK R : R = 1..n
    OBVIOUS
  <2>5. IsFiniteSet(R)
    BY <1>3, <2>4, FS_Interval
  <2>6. SumFunctionOnSet(g, R) = SumFunctionOnSet(f, R)
    BY <2>3, <2>4, <2>5, SumSameTerms
  <2> QED
    BY <2>4, <2>6, Zenon DEF SumOldest, f, g
<1>7. SumAmounts(open) = SumOldest(open, n)
  BY <1>2, OpenAmounts
<1> QED
  BY <1>1, <1>3, <1>4, <1>5, <1>6, <1>7

(* Whether a rest is reduced, and by how much, is a number of minutes. *)
LEMMA ReducedBelowMinimum ==
  ASSUME NEW l, Readable(l), NEW d \in Duties(l), Reduced(l, d)
  PROVE  Gap(l, d) \in Int /\ MinRest - Gap(l, d) \in Nat /\ MinRest - Gap(l, d) > 0
<1>1. Previous(l, d) \in DutiesBefore(l, d)
  BY PreviousReported DEF Reduced
<1>2. Previous(l, d) \in DOMAIN l
  BY <1>1, EntriesFinite DEF DutiesBefore
<1>3. Gap(l, d) \in Int
  <2>1. Readable(l)
    OBVIOUS
  <2>2. Report(l, d) \in Int /\ l[Previous(l, d)].ts \in Int
    BY <1>2, <2>1 DEF Readable
  <2> QED
    BY <2>2 DEF Gap
<1> QED
  BY <1>3 DEF Reduced, MinRest

Account(owed, net) == Larger(0, owed + net)

(* What one entry of the stream does to the open deficits: their total     *)
(* moves by its net, and never below nothing.                              *)
LEMMA SettleTotal ==
  ASSUME NEW l, Readable(l), NEW i \in StreamItems(l), NEW open, OpenOK(open)
  PROVE  /\ Net(l, i) \in Int
         /\ OpenOK(Settle(l)[i][open])
         /\ SumAmounts(Settle(l)[i][open]) = Account(SumAmounts(open), Net(l, i))
<1>1. open \in Seq(Deficit)
  BY DEF OpenOK
<1>2. Settle(l)[i][open] =
        IF i \in Rests(l) THEN Pay(open, l[i].duration)
        ELSE IF Reduced(l, i)
          THEN Append(open, [amount |-> MinRest - Gap(l, i),
                             deadline |-> Report(l, i) + CompensatoryWindow])
          ELSE open
  BY <1>1 DEF Settle
<1>3. SumAmounts(open) \in Nat
  <2>1. /\ SumAmounts(open) = SumOldest(open, Len(open)) /\ Len(open) \in Nat
        /\ \A k \in 0..Len(open) : SumOldest(open, k) \in Nat
    BY OpenAmounts
  <2> QED
    BY <2>1
<1>4. Readable(l)
  OBVIOUS
<1>5. CASE i \in Rests(l)
  <2>1. l[i].duration \in Nat
    BY <1>4, <1>5 DEF Readable
  <2>2. Net(l, i) = 0 - l[i].duration
    BY <1>5 DEF Net
  <2>3. Settle(l)[i][open] = Pay(open, l[i].duration)
    BY <1>2, <1>5
  <2>4. /\ OpenOK(Pay(open, l[i].duration))
        /\ SumAmounts(Pay(open, l[i].duration)) = Larger(0, SumAmounts(open) - l[i].duration)
    BY <2>1, PayTotal
  <2>5. SumAmounts(open) - l[i].duration = SumAmounts(open) + Net(l, i)
    BY <1>3, <2>1, <2>2
  <2> QED
    BY <2>1, <2>2, <2>3, <2>4, <2>5 DEF Account
<1>6. CASE i \notin Rests(l) /\ Reduced(l, i)
  <2>1. i \in Duties(l)
    BY <1>6 DEF StreamItems, RestsOfType
  <2>2. MinRest - Gap(l, i) \in Nat /\ MinRest - Gap(l, i) > 0
    BY <1>6, <2>1, ReducedBelowMinimum
  <2>3. PICK deficit : deficit = [amount |-> MinRest - Gap(l, i),
                                  deadline |-> Report(l, i) + CompensatoryWindow]
    OBVIOUS
  <2>4. Report(l, i) + CompensatoryWindow \in Int
    BY <1>4, <2>1 DEF Readable, CompensatoryWindow
  <2>5. deficit \in Deficit /\ deficit.amount = MinRest - Gap(l, i)
    BY <2>2, <2>3, <2>4 DEF Deficit
  <2>6. Settle(l)[i][open] = Append(open, deficit)
    BY <1>2, <1>6, <2>3
  <2>7. Net(l, i) = MinRest - Gap(l, i)
    BY <1>6 DEF Net
  <2>8. OpenOK(Append(open, deficit))
        /\ SumAmounts(Append(open, deficit)) = SumAmounts(open) + deficit.amount
    BY <2>2, <2>5, AppendTotal
  <2> QED
    BY <1>3, <2>2, <2>5, <2>6, <2>7, <2>8 DEF Account, Larger
<1>7. CASE i \notin Rests(l) /\ ~Reduced(l, i)
  BY <1>2, <1>3, <1>7 DEF Net, Account, Larger
<1> QED
  BY <1>5, <1>6, <1>7

-----------------------------------------------------------------------------
(* The compensatory debt *)

StreamOrder(l) == {ij \in StreamItems(l) \X StreamItems(l) : StreamBefore(l, ij[1], ij[2])}

(* What the items of the stream are. *)
LEMMA StreamReadable ==
  ASSUME NEW l, Readable(l)
  PROVE  \A i \in StreamItems(l) :
           /\ i \in DOMAIN l /\ i \in Int /\ l[i].ts \in Int /\ StreamTime(l, i) \in Int
           /\ (i \in Duties(l) \/ i \in Rests(l)) /\ ~(i \in Duties(l) /\ i \in Rests(l))
           /\ (i \in Duties(l) => Report(l, i) \in Int /\ StreamTime(l, i) = Report(l, i))
           /\ (i \notin Duties(l) => StreamTime(l, i) = l[i].ts)
<1> SUFFICES ASSUME NEW i \in StreamItems(l)
             PROVE  /\ i \in DOMAIN l /\ i \in Int /\ l[i].ts \in Int /\ StreamTime(l, i) \in Int
                    /\ (i \in Duties(l) \/ i \in Rests(l)) /\ ~(i \in Duties(l) /\ i \in Rests(l))
                    /\ (i \in Duties(l) => Report(l, i) \in Int /\ StreamTime(l, i) = Report(l, i))
                    /\ (i \notin Duties(l) => StreamTime(l, i) = l[i].ts)
  OBVIOUS
<1>1. Readable(l)
  OBVIOUS
<1>2. i \in Duties(l) \/ i \in Rests(l)
  BY DEF StreamItems, RestsOfType
<1>3. i \in DOMAIN l
  BY <1>2, EntriesFinite
<1>4. i \in Int /\ l[i].ts \in Int /\ ~(i \in Duties(l) /\ i \in Rests(l))
  BY <1>1, <1>3 DEF Readable
<1>5. i \in Duties(l) => Report(l, i) \in Int
  BY <1>1 DEF Readable
<1>6. StreamTime(l, i) = IF i \in Duties(l) THEN Report(l, i) ELSE l[i].ts
  BY DEF StreamTime
<1> QED
  BY <1>2, <1>3, <1>4, <1>5, <1>6

LEMMA StreamOrdered ==
  ASSUME NEW l, Readable(l)
  PROVE  StrictOrder(StreamItems(l), StreamOrder(l))
<1> DEFINE S == StreamItems(l)
<1>1. \A i \in S : /\ i \in Int /\ l[i].ts \in Int /\ StreamTime(l, i) \in Int
                  /\ (i \in Duties(l) => Report(l, i) \in Int)
  BY StreamReadable
<1> HIDE DEF S
<1>2. \A i, j \in S : <<i, j>> \in StreamOrder(l) <=> StreamBefore(l, i, j)
  BY DEF StreamOrder, S
<1>3. \A i \in S : ~StreamBefore(l, i, i)
  BY <1>1 DEF StreamBefore, ReportedBefore, Earlier
<1>4. \A i, j \in S : i # j => StreamBefore(l, i, j) \/ StreamBefore(l, j, i)
  BY <1>1 DEF StreamBefore, ReportedBefore, Earlier
<1>5. \A i, j, k \in S : StreamBefore(l, i, j) /\ StreamBefore(l, j, k) => StreamBefore(l, i, k)
  BY <1>1 DEF StreamBefore, ReportedBefore, Earlier
<1> QED
  BY <1>2, <1>3, <1>4, <1>5 DEF StrictOrder, S

LEMMA StreamListed ==
  ASSUME NEW l, Readable(l)
  PROVE  /\ IsFiniteSet(StreamItems(l)) /\ Cardinality(StreamItems(l)) \in Nat
         /\ Arranged(Stream(l), StreamItems(l), StreamOrder(l))
<1>1. StreamItems(l) \subseteq DOMAIN l
  BY StreamReadable
<1>2. IsFiniteSet(StreamItems(l))
  BY <1>1, EntriesFinite
<1>3. Arranged(Arrange(StreamItems(l), StreamOrder(l)), StreamItems(l), StreamOrder(l))
  BY <1>2, StreamOrdered, ArrangeSorts
<1> QED
  BY <1>2, <1>3, FS_CardinalityType DEF Stream, StreamOrder

Netted(l, s, n, net) ==
  /\ s = Stream(l) /\ n = Cardinality(StreamItems(l))
  /\ net = [p \in DOMAIN s |-> Net(l, s[p])]

(* What is left to pay is the largest net sum of the latest entries.       *)
LEMMA OwedIsPeak ==
  ASSUME NEW l, Readable(l), NEW s, NEW n, NEW net, Netted(l, s, n, net)
  PROVE  /\ n \in Nat /\ Len(s) = n /\ DOMAIN s = 1..n /\ \A p \in 1..n : net[p] \in Int
         /\ OpenOK(OpenDeficits(l))
         /\ \A k \in 1..(n + 1) : CompensatoryOwed(l) >= SumFunctionOnSet(net, k..n)
         /\ \E k \in 1..(n + 1) : CompensatoryOwed(l) = SumFunctionOnSet(net, k..n)
<1>1. n \in Nat /\ Arranged(s, StreamItems(l), StreamOrder(l))
  BY StreamListed DEF Netted
<1>2. Len(s) = n /\ DOMAIN s = 1..n /\ \A p \in 1..n : s[p] \in StreamItems(l)
  BY <1>1 DEF Arranged, Netted
<1>a. \A p \in 1..n : net[p] = Net(l, s[p])
  BY <1>2 DEF Netted
<1>3. PICK after : Walked(after, Settle(l), <<>>, s)
  BY <1>1, <1>2, WalkStates
<1> DEFINE T == {p \in Nat : p <= n => OpenOK(after[p])}
<1>4. OpenOK(<<>>) /\ SumAmounts(<<>>) = 0
  <2>1. OpenOK(<<>>)
    BY DEF OpenOK
  <2>2. SumAmounts(<<>>) = SumOldest(<<>>, Len(<<>>)) /\ SumOldest(<<>>, 0) = 0
    BY <2>1, OpenAmounts
  <2>3. Len(<<>>) = 0
    OBVIOUS
  <2> QED
    BY <2>1, <2>2, <2>3, Zenon
<1>5. ASSUME NEW p \in 0..(n - 1), OpenOK(after[p])
      PROVE  /\ OpenOK(after[p + 1]) /\ net[p + 1] \in Int
             /\ SumAmounts(after[p + 1]) = Account(SumAmounts(after[p]), net[p + 1])
  <2>1. p + 1 \in 1..n /\ (p + 1) - 1 = p
    BY <1>1
  <2>2. after[p + 1] = Settle(l)[s[p + 1]][after[(p + 1) - 1]]
    BY <1>2, <1>3, <2>1 DEF Walked
  <2>3. after[p + 1] = Settle(l)[s[p + 1]][after[p]]
    BY <2>1, <2>2, Zenon
  <2>4. s[p + 1] \in StreamItems(l) /\ net[p + 1] = Net(l, s[p + 1])
    BY <1>2, <1>a, <2>1
  <2>5. /\ Net(l, s[p + 1]) \in Int
        /\ OpenOK(Settle(l)[s[p + 1]][after[p]])
        /\ SumAmounts(Settle(l)[s[p + 1]][after[p]]) = Account(SumAmounts(after[p]), Net(l, s[p + 1]))
    BY <1>5, <2>4, SettleTotal
  <2> QED
    BY <2>3, <2>4, <2>5, Zenon
<1>6. \A p \in Nat : p \in T
  <2>1. 0 \in T
    BY <1>3, <1>4 DEF Walked
  <2>2. ASSUME NEW p \in T PROVE p + 1 \in T
    <3> SUFFICES ASSUME p + 1 <= n PROVE OpenOK(after[p + 1])
      OBVIOUS
    <3>1. p \in 0..(n - 1) /\ OpenOK(after[p])
      BY <1>1
    <3> QED
      BY <1>5, <3>1
  <2>3. T \in SUBSET Nat
    OBVIOUS
  <2> HIDE DEF T
  <2> QED
    BY <2>1, <2>2, <2>3, NumberInduction
<1>7. \A p \in 0..n : p \in Nat /\ OpenOK(after[p])
  BY <1>1, <1>6
<1> HIDE DEF T
<1> DEFINE account == [p \in 0..n |-> SumAmounts(after[p])]
<1>8. \A p \in 1..n : net[p] \in Int
  <2> SUFFICES ASSUME NEW p \in 1..n PROVE net[p] \in Int
    OBVIOUS
  <2>1. p - 1 \in 0..(n - 1) /\ p - 1 \in 0..n /\ (p - 1) + 1 = p
    BY <1>1
  <2>2. net[(p - 1) + 1] \in Int
    BY <1>5, <1>7, <2>1
  <2> QED
    BY <2>1, <2>2, Zenon
<1>9. account[0] = 0 /\ account[n] = SumAmounts(after[n])
  <2>1. 0 \in 0..n /\ n \in 0..n
    BY <1>1
  <2>2. after[0] = <<>>
    BY <1>3 DEF Walked
  <2> QED
    BY <1>4, <2>1, <2>2, Zenon
<1>10. \A m \in 0..(n - 1) :
         account[m + 1] = IF account[m] + net[m + 1] < 0 THEN 0 ELSE account[m] + net[m + 1]
  <2> SUFFICES ASSUME NEW m \in 0..(n - 1)
               PROVE  account[m + 1] = IF account[m] + net[m + 1] < 0 THEN 0 ELSE account[m] + net[m + 1]
    OBVIOUS
  <2>1. m \in 0..n /\ m + 1 \in 0..n /\ m + 1 \in 1..n
    BY <1>1
  <2>2. account[m + 1] = Account(account[m], net[m + 1])
    <3>1. SumAmounts(after[m + 1]) = Account(SumAmounts(after[m]), net[m + 1])
      BY <1>5, <1>7, <2>1
    <3> QED
      BY <2>1, <3>1
  <2>3. account[m] \in Nat /\ net[m + 1] \in Int
    <3>1. PICK open : open = after[m]
      OBVIOUS
    <3>2. OpenOK(open)
      BY <1>7, <2>1, <3>1
    <3>3. /\ SumAmounts(open) = SumOldest(open, Len(open)) /\ Len(open) \in Nat
          /\ \A k \in 0..Len(open) : SumOldest(open, k) \in Nat
      BY <3>2, OpenAmounts
    <3>4. SumAmounts(open) \in Nat
      BY <3>3
    <3> QED
      BY <1>8, <2>1, <3>1, <3>4
  <2> HIDE DEF account
  <2> QED
    BY <2>2, <2>3 DEF Account, Larger
<1> HIDE DEF account
<1>11. /\ \A k \in 1..(n + 1) : account[n] >= SumFunctionOnSet(net, k..n)
       /\ \E k \in 1..(n + 1) : account[n] = SumFunctionOnSet(net, k..n)
  BY <1>1, <1>8, <1>9, <1>10, AccountPeak
<1>12. OpenDeficits(l) = after[n]
  BY <1>2, <1>3 DEF OpenDeficits, Walked, Netted
<1>13. CompensatoryOwed(l) = account[n]
  BY <1>9, <1>12 DEF CompensatoryOwed
<1>14. OpenOK(OpenDeficits(l))
  <2>1. n \in 0..n
    BY <1>1
  <2> QED
    BY <1>7, <1>12, <2>1
<1> QED
  BY <1>1, <1>2, <1>8, <1>11, <1>13, <1>14

(* What computeCompensatoryDebt totals (replay.go:92-210) is, whatever the *)
(* log, the largest net of a suffix of the stream of reduced rests and     *)
(* compensatory rests.                                                     *)
THEOREM DebtAlwaysNet == Spec => []DebtIsNetOfCredits
<1>1. Readable(log) => DebtIsNetOfCredits
  <2> SUFFICES ASSUME Readable(log) PROVE DebtIsNetOfCredits
    OBVIOUS
  <2>1. PICK s : s = Stream(log)
    OBVIOUS
  <2>2. PICK n : n = Cardinality(StreamItems(log))
    OBVIOUS
  <2>3. PICK net : net = [p \in DOMAIN s |-> Net(log, s[p])]
    OBVIOUS
  <2>4. /\ n \in Nat /\ Len(s) = n /\ \A p \in 1..n : net[p] \in Int
        /\ \A k \in 1..(n + 1) : CompensatoryOwed(log) >= SumFunctionOnSet(net, k..n)
        /\ \E k \in 1..(n + 1) : CompensatoryOwed(log) = SumFunctionOnSet(net, k..n)
    <3>1. Netted(log, s, n, net)
      BY <2>1, <2>2, <2>3 DEF Netted
    <3> QED
      BY <3>1, OwedIsPeak
  <2> DEFINE sums == {SumFunctionOnSet(net, k..Len(s)) : k \in 1..(Len(s) + 1)}
  <2>5. \A k \in 1..(n + 1) : SumFunctionOnSet(net, k..n) \in Int
    <3>1. \A k \in 1..(n + 1) : \A m \in 0..n : SumFunctionOnSet(net, k..m) \in Int
      BY <2>4, SumOfRange
    <3>2. n \in 0..n
      BY <2>4
    <3> QED
      BY <3>1, <3>2
  <2>6. sums = {SumFunctionOnSet(net, k..n) : k \in 1..(n + 1)}
    BY <2>4, Zenon
  <2>7. CompensatoryOwed(log) \in sums /\ sums \in SUBSET Int
        /\ \A y \in sums : CompensatoryOwed(log) >= y
    BY <2>4, <2>5, <2>6
  <2> HIDE DEF sums
  <2>8. Max(sums) = CompensatoryOwed(log)
    BY <2>7, MaxOf
  <2>9. SumAmounts(OpenDeficits(log)) = Max(sums)
    BY <2>8 DEF CompensatoryOwed
  <2> QED
    BY <2>1, <2>3, <2>9, Zenon DEF DebtIsNetOfCredits, sums
<1> QED
  BY <1>1, LogAlwaysReadable, PTL

-----------------------------------------------------------------------------
(* One rest more *)

(* A part of the stream that holds, with an entry, every later one.        *)
UpClosed(l, U) ==
  /\ U \subseteq StreamItems(l)
  /\ \A i \in U, j \in StreamItems(l) : StreamBefore(l, i, j) => j \in U
Nets(l) == [i \in StreamItems(l) |-> Net(l, i)]
NetOf(l, U) == SumFunctionOnSet(Nets(l), U)

(* The same largest net, over parts of the stream instead of its suffixes: *)
(* parts of two streams can be compared.                                   *)
LEMMA OwedIsLargest ==
  ASSUME NEW l, Readable(l)
  PROVE  /\ \A U : UpClosed(l, U) => CompensatoryOwed(l) >= NetOf(l, U)
         /\ \E U : UpClosed(l, U) /\ CompensatoryOwed(l) = NetOf(l, U)
<1> DEFINE S == StreamItems(l)
<1>1. PICK s : s = Stream(l)
  OBVIOUS
<1>2. PICK n : n = Cardinality(S)
  OBVIOUS
<1>3. PICK net : net = [p \in DOMAIN s |-> Net(l, s[p])]
  OBVIOUS
<1>4. Netted(l, s, n, net)
  BY <1>1, <1>2, <1>3 DEF Netted
<1>5. /\ n \in Nat /\ Len(s) = n /\ DOMAIN s = 1..n /\ \A p \in 1..n : net[p] \in Int
      /\ \A k \in 1..(n + 1) : CompensatoryOwed(l) >= SumFunctionOnSet(net, k..n)
      /\ \E k \in 1..(n + 1) : CompensatoryOwed(l) = SumFunctionOnSet(net, k..n)
  BY <1>4, OwedIsPeak
<1>6. Arranged(s, S, StreamOrder(l))
  BY <1>1, StreamListed
<1>7. /\ \A p \in 1..n : s[p] \in S /\ net[p] = Nets(l)[s[p]]
      /\ \A p, q \in 1..n : p < q => StreamBefore(l, s[p], s[q])
      /\ \A i \in S : \E p \in 1..n : s[p] = i
  BY <1>2, <1>3, <1>5, <1>6 DEF Arranged, StreamOrder, Nets
<1> HIDE DEF S
<1>8. \A i, j \in S : StreamBefore(l, i, j) => ~StreamBefore(l, j, i) /\ i # j
  <2>1. StrictOrder(S, StreamOrder(l))
    BY StreamOrdered DEF S
  <2>2. \A i, j \in S : <<i, j>> \in StreamOrder(l) <=> StreamBefore(l, i, j)
    BY DEF StreamOrder, S
  <2>3. \A i \in S : ~StreamBefore(l, i, i)
    BY <2>1, <2>2 DEF StrictOrder
  <2>4. \A i, j, k \in S : StreamBefore(l, i, j) /\ StreamBefore(l, j, k) => StreamBefore(l, i, k)
    BY <2>1, <2>2 DEF StrictOrder
  <2> QED
    BY <2>3, <2>4
<1> DEFINE V(k) == {s[p] : p \in k..n}
<1>9. ASSUME NEW k \in 1..(n + 1)
      PROVE  UpClosed(l, V(k)) /\ NetOf(l, V(k)) = SumFunctionOnSet(net, k..n)
  <2>0. \A p \in k..n : p \in 1..n
    BY <1>5
  <2>1. V(k) \subseteq S
    BY <1>7, <2>0
  <2>2. ASSUME NEW i \in V(k), NEW j \in S, StreamBefore(l, i, j) PROVE j \in V(k)
    <3>1. PICK p \in k..n : s[p] = i
      OBVIOUS
    <3>2. PICK q \in 1..n : s[q] = j
      BY <1>7
    <3>3. p # q /\ ~(q < p)
      BY <1>7, <1>8, <2>0, <2>2, <3>1, <3>2
    <3>4. q \in k..n
      BY <1>5, <3>3
    <3> QED
      BY <3>2, <3>4
  <2>3. PICK R : R = k..n
    OBVIOUS
  <2>4. IsFiniteSet(R)
    BY <1>5, <2>3, FS_Interval
  <2>5. \A p \in R : net[p] \in Int /\ Nets(l)[s[p]] = net[p]
    BY <1>5, <1>7, <2>0, <2>3
  <2>6. \A p, q \in R : s[p] = s[q] => p = q
    <3> SUFFICES ASSUME NEW p \in R, NEW q \in R, s[p] = s[q], p # q PROVE FALSE
      OBVIOUS
    <3>1. p \in 1..n /\ q \in 1..n
      BY <2>0, <2>3
    <3>2. p < q \/ q < p
      BY <3>1
    <3> QED
      BY <1>7, <1>8, <3>1, <3>2
  <2>7. SumFunctionOnSet(Nets(l), {s[p] : p \in R}) = SumFunctionOnSet(net, R)
    BY <2>4, <2>5, <2>6, SumCorrespond
  <2>8. NetOf(l, V(k)) = SumFunctionOnSet(net, k..n)
    BY <2>3, <2>7, Zenon DEF NetOf
  <2> QED
    BY <2>1, <2>2, <2>8 DEF UpClosed, S
<1>10. ASSUME NEW U, UpClosed(l, U) PROVE \E k \in 1..(n + 1) : U = V(k)
  <2> DEFINE C == {p \in 1..n : s[p] \in U} \cup {n + 1}
  <2>1. C \in SUBSET Nat /\ C # {}
    BY <1>5
  <2>2. PICK k \in C : \A m \in C : k <= m
    BY <2>1, LeastNumber
  <2>3. k \in 1..(n + 1) /\ (k \in 1..n => s[k] \in U)
    BY <1>5, <2>2
  <2>4. ASSUME NEW i \in U PROVE i \in V(k)
    <3>1. i \in S
      BY <1>10 DEF UpClosed, S
    <3>2. PICK p \in 1..n : s[p] = i
      BY <1>7, <3>1
    <3>3. k <= p
      BY <2>2, <3>2
    <3>4. p \in k..n
      BY <1>5, <2>3, <3>3
    <3> QED
      BY <3>2, <3>4
  <2>5. ASSUME NEW p \in k..n PROVE s[p] \in U
    <3>1. p \in 1..n /\ k \in 1..n
      BY <1>5, <2>3
    <3>2. CASE p = k
      BY <2>3, <3>1, <3>2
    <3>3. CASE p # k
      <4>1. k < p
        BY <2>3, <3>1, <3>3
      <4>2. StreamBefore(l, s[k], s[p]) /\ s[p] \in S /\ s[k] \in U
        BY <1>7, <2>3, <3>1, <4>1
      <4> QED
        BY <1>10, <4>2 DEF UpClosed, S
    <3> QED
      BY <3>2, <3>3
  <2>6. U = V(k)
    BY <2>4, <2>5
  <2> QED
    BY <2>3, <2>6
<1> HIDE DEF V
<1>11. ASSUME NEW U, UpClosed(l, U) PROVE CompensatoryOwed(l) >= NetOf(l, U)
  <2>1. PICK k \in 1..(n + 1) : U = V(k)
    BY <1>10, <1>11
  <2>2. NetOf(l, U) = SumFunctionOnSet(net, k..n)
    BY <1>9, <2>1, Zenon
  <2> QED
    BY <1>5, <2>2
<1>12. \E U : UpClosed(l, U) /\ CompensatoryOwed(l) = NetOf(l, U)
  BY <1>5, <1>9
<1> QED
  BY <1>11, <1>12

(* A rest more changes nothing of what the stream holds already.           *)
RestAdded(l, e, x, m) ==
  /\ Extended(l, e, x, m) /\ Readable(l) /\ Readable(m)
  /\ e.kind = "REST_COMPLETED" /\ e.duration \in Nat /\ e.duration > 0 /\ e.ts \in Int

LEMMA StreamWithRest ==
  ASSUME NEW l, NEW e, NEW x, NEW m, RestAdded(l, e, x, m)
  PROVE  /\ Duties(m) = Duties(l) /\ Rests(m) = Rests(l) \cup {x} /\ x \notin DOMAIN l
         /\ \A i \in DOMAIN l : m[i] = l[i]
         /\ \A d \in Duties(l) : Report(m, d) = Report(l, d)
         /\ StreamItems(m) = StreamItems(l) \cup (IF e.type = "COMPENSATORY" THEN {x} ELSE {})
         /\ x \notin StreamItems(l)
         /\ \A i \in StreamItems(l) : StreamTime(m, i) = StreamTime(l, i)
         /\ \A i, j \in StreamItems(l) : StreamBefore(m, i, j) <=> StreamBefore(l, i, j)
         /\ \A i \in StreamItems(l) : Net(m, i) = Net(l, i)
         /\ Net(m, x) = 0 - e.duration
<1>2. e.kind = "REST_COMPLETED" /\ Readable(l) /\ Readable(m) /\ Extended(l, e, x, m)
  BY DEF RestAdded
<1>3. /\ Duties(m) = Duties(l) /\ Rests(m) = Rests(l) \cup {x}
      /\ \A d \in Duties(l) : Report(m, d) = Report(l, d)
  BY <1>2, ExtendedEntries
<1>4. x \notin DOMAIN l /\ m[x] = e /\ \A i \in DOMAIN l : m[i] = l[i]
  BY <1>2 DEF Extended
<1>5. Duties(l) \subseteq DOMAIN l /\ Rests(l) \subseteq DOMAIN l /\ StreamItems(l) \subseteq DOMAIN l
  BY <1>2, EntriesFinite, StreamReadable
<1>6. StreamItems(m) = StreamItems(l) \cup (IF e.type = "COMPENSATORY" THEN {x} ELSE {})
  <2>1. RestsOfType(m, "COMPENSATORY") =
          RestsOfType(l, "COMPENSATORY") \cup (IF e.type = "COMPENSATORY" THEN {x} ELSE {})
    BY <1>3, <1>4, <1>5 DEF RestsOfType
  <2> QED
    BY <1>3, <2>1 DEF StreamItems
<1>7. \A i \in StreamItems(l) : StreamTime(m, i) = StreamTime(l, i)
  BY <1>3, <1>4, <1>5 DEF StreamTime
<1>8. \A i, j \in Duties(l) : ReportedBefore(m, i, j) <=> ReportedBefore(l, i, j)
  BY <1>3, <1>4, <1>5 DEF ReportedBefore, Earlier
<1>9. \A i, j \in StreamItems(l) : StreamBefore(m, i, j) <=> StreamBefore(l, i, j)
  <2>1. \A i, j \in StreamItems(l) : Earlier(m, i, j) <=> Earlier(l, i, j)
    BY <1>4, <1>5 DEF Earlier
  <2> QED
    BY <1>3, <1>7, <1>8, <2>1 DEF StreamBefore
<1>10. ASSUME NEW d \in Duties(l)
       PROVE  DutiesBefore(m, d) = DutiesBefore(l, d)
              /\ (DutiesBefore(l, d) # {} => Gap(m, d) = Gap(l, d))
  <2>1. DutiesBefore(m, d) = DutiesBefore(l, d)
    BY <1>3, <1>8 DEF DutiesBefore
  <2>2. ASSUME DutiesBefore(l, d) # {} PROVE Gap(m, d) = Gap(l, d)
    <3>1. PICK B : B = DutiesBefore(l, d)
      OBVIOUS
    <3>2. PICK i : i = Previous(l, d)
      OBVIOUS
    <3>3. PICK j : j = Previous(m, d)
      OBVIOUS
    <3>4. i \in B /\ \A f \in B \ {i} : ReportedBefore(l, f, i)
      BY <1>2, <2>2, <3>1, <3>2, PreviousReported
    <3>5. j \in B /\ \A f \in B \ {j} : ReportedBefore(m, f, j)
      <4>1. d \in Duties(m) /\ DutiesBefore(m, d) # {} /\ DutiesBefore(m, d) = B
        BY <1>3, <2>1, <2>2, <3>1
      <4> QED
        BY <1>2, <3>3, <4>1, PreviousReported
    <3>6. B \in SUBSET Duties(l)
      BY <3>1 DEF DutiesBefore
    <3>7. i = j
      <4>1. SUFFICES ASSUME i # j PROVE FALSE
        OBVIOUS
      <4>2. ReportedBefore(l, j, i) /\ ReportedBefore(l, i, j)
        BY <1>8, <3>4, <3>5, <3>6, <4>1
      <4>3. StrictOrder(B, Reporting(l, B))
        BY <1>2, <3>6, DutiesOrdered
      <4> QED
        BY <3>4, <3>5, <4>2, <4>3 DEF StrictOrder, Reporting
    <3>8. m[i] = l[i] /\ Report(m, d) = Report(l, d)
      BY <1>3, <1>4, <1>5, <3>4, <3>6
    <3> QED
      BY <3>2, <3>3, <3>7, <3>8 DEF Gap
  <2> QED
    BY <2>1, <2>2
<1>11. ASSUME NEW i \in StreamItems(l) PROVE Net(m, i) = Net(l, i)
  <2>1. i \in Rests(m) <=> i \in Rests(l)
    BY <1>3, <1>4, <1>5
  <2>2. CASE i \in Rests(l)
    BY <1>4, <1>5, <2>1, <2>2 DEF Net
  <2>3. CASE i \notin Rests(l)
    <3>1. i \in Duties(l)
      BY <2>3 DEF StreamItems, RestsOfType
    <3>2. /\ DutiesBefore(m, i) = DutiesBefore(l, i)
          /\ DutiesBefore(l, i) # {} => Gap(m, i) = Gap(l, i)
      BY <1>10, <3>1
    <3>3. Reduced(m, i) <=> Reduced(l, i)
      BY <3>2 DEF Reduced
    <3>4. Reduced(l, i) => Gap(m, i) = Gap(l, i)
      BY <3>2 DEF Reduced
    <3> QED
      BY <2>1, <2>3, <3>3, <3>4 DEF Net
  <2> QED
    BY <2>2, <2>3
<1>12. Net(m, x) = 0 - e.duration
  BY <1>3, <1>4 DEF Net
<1> QED
  BY <1>3, <1>4, <1>5, <1>6, <1>7, <1>9, <1>11, <1>12

LEMMA NetsTyped ==
  ASSUME NEW l, Readable(l)
  PROVE  /\ DOMAIN Nets(l) = StreamItems(l) /\ IsFiniteSet(StreamItems(l))
         /\ \A i \in StreamItems(l) : Nets(l)[i] = Net(l, i) /\ Nets(l)[i] \in Int
         /\ \A U \in SUBSET StreamItems(l) : IsFiniteSet(U) /\ NetOf(l, U) \in Int
<1>1. IsFiniteSet(StreamItems(l))
  BY StreamListed
<1>2. \A i \in StreamItems(l) : Net(l, i) \in Int
  <2>1. OpenOK(<<>>)
    BY DEF OpenOK
  <2> QED
    BY <2>1, SettleTotal
<1>3. DOMAIN Nets(l) = StreamItems(l) /\ \A i \in StreamItems(l) : Nets(l)[i] = Net(l, i)
  BY DEF Nets
<1>4. \A U \in SUBSET StreamItems(l) : IsFiniteSet(U)
  BY <1>1, FS_Subset
<1>5. ASSUME NEW U \in SUBSET StreamItems(l) PROVE NetOf(l, U) \in Int
  <2>1. IsFiniteSet(U) /\ \A i \in U : Nets(l)[i] \in Int
    BY <1>2, <1>3, <1>4
  <2>2. SumFunctionOnSet(Nets(l), U) \in Int
    BY <2>1, SumOfIntegers
  <2> QED
    BY <2>2 DEF NetOf
<1> QED
  BY <1>1, <1>2, <1>3, <1>4, <1>5

LEMMA OwedTyped ==
  ASSUME NEW l, Readable(l)
  PROVE  CompensatoryOwed(l) \in Int
<1>1. PICK U : UpClosed(l, U) /\ CompensatoryOwed(l) = NetOf(l, U)
  BY OwedIsLargest
<1> QED
  BY <1>1, NetsTyped DEF UpClosed

(* A part of the longer stream: without the rest it is part of the other   *)
(* one, and the rest takes its length off.                                 *)
LEMMA NetWithRest ==
  ASSUME NEW l, NEW e, NEW x, NEW m, RestAdded(l, e, x, m), NEW U, UpClosed(m, U)
  PROVE  /\ UpClosed(l, U \ {x})
         /\ NetOf(m, U) = NetOf(l, U \ {x}) - (IF x \in U THEN e.duration ELSE 0)
<1>2. PICK V : V = U \ {x}
  OBVIOUS
<1>3. /\ StreamItems(l) \subseteq StreamItems(m) /\ StreamItems(m) \subseteq StreamItems(l) \cup {x}
      /\ x \notin StreamItems(l)
      /\ \A i, j \in StreamItems(l) : StreamBefore(m, i, j) <=> StreamBefore(l, i, j)
      /\ \A i \in StreamItems(l) : Net(m, i) = Net(l, i)
      /\ Net(m, x) = 0 - e.duration
  BY StreamWithRest
<1>4. UpClosed(l, V)
  BY <1>2, <1>3 DEF UpClosed
<1>5. Readable(l) /\ Readable(m) /\ e.duration \in Nat
  BY DEF RestAdded
<1>6. /\ \A i \in StreamItems(l) : Nets(l)[i] = Net(l, i) /\ Nets(l)[i] \in Int
      /\ \A W \in SUBSET StreamItems(l) : IsFiniteSet(W) /\ NetOf(l, W) \in Int
      /\ \A i \in StreamItems(m) : Nets(m)[i] = Net(m, i) /\ Nets(m)[i] \in Int
  BY <1>5, NetsTyped
<1>7. V \subseteq StreamItems(l) /\ U \subseteq StreamItems(m)
  BY <1>4 DEF UpClosed
<1>8. SumFunctionOnSet(Nets(m), V) = SumFunctionOnSet(Nets(l), V)
  <2>1. IsFiniteSet(V) /\ \A i \in V : Nets(l)[i] \in Int /\ Nets(m)[i] = Nets(l)[i]
    BY <1>3, <1>6, <1>7
  <2> QED
    BY <2>1, SumSameTerms
<1>9. CASE x \in U
  <2>1. U = V \cup {x} /\ x \notin V /\ IsFiniteSet(V)
    BY <1>2, <1>6, <1>7, <1>9
  <2>2. (\A i \in V : Nets(m)[i] \in Int) /\ Nets(m)[x] \in Int /\ Nets(m)[x] = 0 - e.duration
    BY <1>3, <1>6, <1>7, <1>9
  <2>3. SumFunctionOnSet(Nets(m), V \cup {x}) = SumFunctionOnSet(Nets(m), V) + Nets(m)[x]
    BY <2>1, <2>2, SumAdd
  <2>4. SumFunctionOnSet(Nets(m), U) = SumFunctionOnSet(Nets(l), V) + (0 - e.duration)
    BY <1>8, <2>1, <2>2, <2>3, Zenon
  <2>5. SumFunctionOnSet(Nets(l), V) \in Int
    BY <1>6, <1>7 DEF NetOf
  <2>6. SumFunctionOnSet(Nets(m), U) = SumFunctionOnSet(Nets(l), V) - e.duration
    BY <1>5, <2>4, <2>5
  <2>7. NetOf(m, U) = NetOf(l, V) - e.duration
    BY <2>6 DEF NetOf
  <2> QED
    BY <1>2, <1>4, <1>9, <2>7
<1>10. CASE x \notin U
  <2>1. U = V
    BY <1>2, <1>10
  <2>2. NetOf(m, U) = NetOf(l, V)
    BY <1>8, <2>1, Zenon DEF NetOf
  <2>3. NetOf(l, V) - 0 = NetOf(l, V)
    BY <1>6, <1>7
  <2> QED
    BY <1>2, <1>4, <1>10, <2>2, <2>3
<1> QED
  BY <1>9, <1>10

(* A rest never adds to the debt. *)
LEMMA OwedNotRaised ==
  ASSUME NEW l, NEW e, NEW x, NEW m, RestAdded(l, e, x, m)
  PROVE  CompensatoryOwed(m) <= CompensatoryOwed(l)
<1>1. Readable(l) /\ Readable(m) /\ e.duration \in Nat
  BY DEF RestAdded
<1>2. PICK U : UpClosed(m, U) /\ CompensatoryOwed(m) = NetOf(m, U)
  BY <1>1, OwedIsLargest
<1>3. PICK V : V = U \ {x}
  OBVIOUS
<1>4. UpClosed(l, V) /\ NetOf(m, U) = NetOf(l, V) - (IF x \in U THEN e.duration ELSE 0)
  BY <1>2, <1>3, NetWithRest
<1>5. CompensatoryOwed(l) >= NetOf(l, V) /\ NetOf(l, V) \in Int
  BY <1>1, <1>4, OwedIsLargest, NetsTyped DEF UpClosed
<1>6. CompensatoryOwed(l) \in Int
  BY <1>1, OwedTyped
<1> QED
  BY <1>1, <1>2, <1>4, <1>5, <1>6

(* A compensatory rest after everything else pays off its length.          *)
LEMMA OwedAfterLastRest ==
  ASSUME NEW l, NEW e, NEW x, NEW m, RestAdded(l, e, x, m), e.type = "COMPENSATORY",
         \A i \in StreamItems(l) : StreamTime(l, i) < e.ts
  PROVE  CompensatoryOwed(m) = Larger(0, CompensatoryOwed(l) - e.duration)
<1>2. Readable(l) /\ Readable(m) /\ e.duration \in Nat /\ e.duration > 0 /\ e.ts \in Int
  BY DEF RestAdded
<1>3. /\ StreamItems(m) = StreamItems(l) \cup {x} /\ x \notin StreamItems(l)
      /\ \A i \in StreamItems(l) : StreamTime(m, i) = StreamTime(l, i)
      /\ \A i, j \in StreamItems(l) : StreamBefore(m, i, j) <=> StreamBefore(l, i, j)
  BY StreamWithRest
<1>4. StreamTime(m, x) = e.ts
  <2>1. m[x] = e /\ e.kind = "REST_COMPLETED"
    BY DEF RestAdded, Extended
  <2>2. x \notin Duties(m)
    BY <2>1 DEF Duties
  <2> QED
    BY <2>1, <2>2 DEF StreamTime
<1>5. \A i \in StreamItems(l) : StreamBefore(m, i, x) /\ ~StreamBefore(m, x, i)
  <2> SUFFICES ASSUME NEW i \in StreamItems(l) PROVE StreamBefore(m, i, x) /\ ~StreamBefore(m, x, i)
    OBVIOUS
  <2>1. StreamTime(m, i) < e.ts /\ StreamTime(m, i) \in Int
    BY <1>2, <1>3, StreamReadable
  <2> QED
    BY <1>2, <1>4, <2>1 DEF StreamBefore
<1>6. \A U : UpClosed(m, U) => U = {} \/ x \in U
  BY <1>3, <1>5 DEF UpClosed
<1>7. \A V : UpClosed(l, V) => UpClosed(m, V \cup {x})
  BY <1>3, <1>5 DEF UpClosed
<1>8. ASSUME NEW V, UpClosed(l, V)
      PROVE  NetOf(m, V \cup {x}) = NetOf(l, V) - e.duration /\ NetOf(l, V) \in Int
  <2>1. PICK U : U = V \cup {x}
    OBVIOUS
  <2>2. UpClosed(m, U) /\ x \in U /\ x \notin V
    BY <1>3, <1>7, <1>8, <2>1 DEF UpClosed
  <2>3. NetOf(m, U) = NetOf(l, U \ {x}) - (IF x \in U THEN e.duration ELSE 0)
    BY <2>2, NetWithRest
  <2>4. U \ {x} = V
    BY <2>1, <2>2
  <2>5. NetOf(m, U) = NetOf(l, V) - (IF x \in U THEN e.duration ELSE 0)
    BY <2>3, <2>4, Zenon
  <2>6. V \in SUBSET StreamItems(l)
    BY <1>8 DEF UpClosed
  <2> QED
    BY <1>2, <2>1, <2>2, <2>5, <2>6, NetsTyped
<1>9. UpClosed(m, {}) /\ NetOf(m, {}) = 0
  <2>1. SumFunctionOnSet(Nets(m), {}) = 0
    <3>1. IsFiniteSet({})
      BY FS_EmptySet
    <3> QED
      BY <3>1, SumOne
  <2> QED
    BY <2>1 DEF UpClosed, NetOf
<1>10. PICK V : UpClosed(l, V) /\ CompensatoryOwed(l) = NetOf(l, V)
  BY <1>2, OwedIsLargest
<1>11. /\ CompensatoryOwed(m) >= 0
       /\ CompensatoryOwed(m) >= CompensatoryOwed(l) - e.duration
       /\ CompensatoryOwed(l) \in Int
  <2>1. UpClosed(m, V \cup {x})
    BY <1>7, <1>10
  <2>2. CompensatoryOwed(m) >= NetOf(m, V \cup {x}) /\ CompensatoryOwed(m) >= NetOf(m, {})
    BY <1>2, <1>9, <2>1, OwedIsLargest
  <2> QED
    BY <1>8, <1>9, <1>10, <2>2
<1>12. PICK U : UpClosed(m, U) /\ CompensatoryOwed(m) = NetOf(m, U)
  BY <1>2, OwedIsLargest
<1>13. CASE U = {}
  <2>1. CompensatoryOwed(m) = 0
    BY <1>9, <1>12, <1>13
  <2> QED
    BY <1>2, <1>11, <2>1 DEF Larger
<1>14. CASE x \in U
  <2>1. PICK W : W = U \ {x}
    OBVIOUS
  <2>2. UpClosed(l, W) /\ NetOf(m, U) = NetOf(l, W) - (IF x \in U THEN e.duration ELSE 0)
    BY <1>12, <2>1, NetWithRest
  <2>3. CompensatoryOwed(l) >= NetOf(l, W) /\ NetOf(l, W) \in Int
    BY <1>2, <1>8, <2>2, OwedIsLargest
  <2>4. NetOf(m, U) = NetOf(l, W) - e.duration
    BY <1>14, <2>2
  <2> QED
    BY <1>2, <1>11, <1>12, <2>3, <2>4 DEF Larger
<1> QED
  BY <1>6, <1>12, <1>13, <1>14

LEMMA RestRecorded ==
  ASSUME LogTypeOK(log), NEW in \in RestInputs, CreateRest(in)
  PROVE  /\ RestAdded(log, RestCompleted(in), Len(log'), log')
         /\ RestCompleted(in).duration = in.end - in.start /\ RestCompleted(in).ts = in.end
         /\ RestCompleted(in).type = in.type
<1>1. /\ in.start \in Int /\ in.end \in Int /\ in.type \in STRING /\ in.covers \in BOOLEAN
      /\ in.end > in.start
  BY InputsAssumption DEF CreateRest
<1>2. in.end - in.start \in Nat \ {0}
  BY <1>1
<1>3. RestCompleted(in) \in RestEntry
  BY <1>1, <1>2 DEF RestCompleted, RestEntry
<1>4. log' = Append(log, RestCompleted(in))
  BY DEF CreateRest, Record
<1>5. Extended(log, RestCompleted(in), Len(log'), log') /\ LogTypeOK(log')
  BY <1>3, <1>4, AppendExtends
<1>6. Readable(log) /\ Readable(log')
  BY <1>5, LogReadable
<1> QED
  BY <1>1, <1>2, <1>5, <1>6 DEF RestAdded, RestCompleted

(* What CompensatoryRestCheck (compliance.go:357-373) tells the planner    *)
(* comes true: a compensatory rest after everything on record pays off     *)
(* exactly its length.                                                     *)
THEOREM CheckAlwaysEffect == Spec => CheckIsEffect
<1>1. LogTypeOK(log) /\ [Next]_log =>
        [\A in \in RestInputs :
           /\ in.type = "COMPENSATORY"
           /\ CreateRest(in)
           /\ \A i \in Duties(log) \cup RestsOfType(log, "COMPENSATORY") : StreamTime(log, i) < in.end
           => CompensatoryOwed(log)' = RemainingAfter(log, in.end - in.start)]_log
  <2> SUFFICES ASSUME LogTypeOK(log), NEW in \in RestInputs,
                      in.type = "COMPENSATORY", CreateRest(in),
                      \A i \in Duties(log) \cup RestsOfType(log, "COMPENSATORY") :
                        StreamTime(log, i) < in.end
               PROVE  CompensatoryOwed(log)' = RemainingAfter(log, in.end - in.start)
    OBVIOUS
  <2>1. PICK e : e = RestCompleted(in)
    OBVIOUS
  <2>2. RestAdded(log, e, Len(log'), log') /\ e.duration = in.end - in.start /\ e.ts = in.end /\ e.type = in.type
    BY <2>1, RestRecorded
  <2>3. CompensatoryOwed(log') = Larger(0, CompensatoryOwed(log) - e.duration)
    BY <2>2, OwedAfterLastRest DEF StreamItems
  <2> QED
    BY <2>2, <2>3 DEF RemainingAfter
<1> QED
  BY <1>1, LogTyped, PTL DEF Spec, CheckIsEffect

-----------------------------------------------------------------------------
(* Augmented rest *)

TimeOrder(l) == {ij \in (DOMAIN l) \X (DOMAIN l) : Earlier(l, ij[1], ij[2])}

(* After p entries rest is owed for a duty that no later entry cleared.    *)
Owing(l, s, p) == \E q \in 1..p : Owes(l, s[q]) /\ \A k \in (q + 1)..p : ~Clears(l, s[k])

LEMMA OwingStep ==
  ASSUME NEW l, Readable(l), NEW s, NEW p \in Nat, s[p + 1] \in DOMAIN l,
         NEW owes \in BOOLEAN, owes <=> Owing(l, s, p)
  PROVE  /\ AugmentedStep(l)[s[p + 1]][owes] \in BOOLEAN
         /\ AugmentedStep(l)[s[p + 1]][owes] <=> Owing(l, s, p + 1)
<1> DEFINE i == s[p + 1]
<1>1. (i \in Duties(l) \/ i \in Rests(l)) /\ ~(i \in Duties(l) /\ i \in Rests(l))
      /\ (i \in Duties(l) => l[i].owe \in BOOLEAN)
  BY DEF Readable
<1>2. AugmentedStep(l)[i][owes] =
        IF i \in Duties(l) THEN owes \/ l[i].owe ELSE owes /\ l[i].type # "AUGMENTED"
  BY DEF AugmentedStep
<1>3. \A q \in 1..p :
          /\ q \in 1..(p + 1) /\ p + 1 \in (q + 1)..(p + 1)
          /\ \A k \in (q + 1)..p : k \in (q + 1)..(p + 1)
          /\ \A k \in (q + 1)..(p + 1) : k \in (q + 1)..p \/ k = p + 1
  OBVIOUS
<1>4. /\ \A q \in 1..(p + 1) : q \in 1..p \/ q = p + 1
      /\ ((p + 1) + 1)..(p + 1) = {} /\ p + 1 \in 1..(p + 1)
  OBVIOUS
<1>5. Owing(l, s, p + 1) <=> Owes(l, i) \/ (Owing(l, s, p) /\ ~Clears(l, i))
  <2>1. ASSUME Owing(l, s, p + 1) PROVE Owes(l, i) \/ (Owing(l, s, p) /\ ~Clears(l, i))
    BY <1>3, <1>4, <2>1 DEF Owing
  <2>2. ASSUME Owes(l, i) PROVE Owing(l, s, p + 1)
    BY <1>4, <2>2 DEF Owing
  <2>3. ASSUME Owing(l, s, p), ~Clears(l, i) PROVE Owing(l, s, p + 1)
    <3>1. PICK q \in 1..p : Owes(l, s[q]) /\ \A k \in (q + 1)..p : ~Clears(l, s[k])
      BY <2>3 DEF Owing
    <3>2. \A k \in (q + 1)..(p + 1) : ~Clears(l, s[k])
      BY <1>3, <2>3, <3>1
    <3> QED
      BY <1>3, <3>1, <3>2 DEF Owing
  <2> QED
    BY <2>1, <2>2, <2>3
<1> HIDE DEF i
<1>6. CASE i \in Duties(l)
  <2>1. ~Clears(l, i) /\ (Owes(l, i) <=> l[i].owe)
    BY <1>1, <1>6 DEF Clears, Owes
  <2>2. AugmentedStep(l)[i][owes] = (owes \/ l[i].owe)
    BY <1>2, <1>6
  <2>3. Owing(l, s, p + 1) <=> owes \/ l[i].owe
    BY <1>5, <2>1
  <2> QED
    BY <2>2, <2>3, Zenon DEF i
<1>7. CASE i \notin Duties(l)
  <2>1. ~Owes(l, i) /\ (Clears(l, i) <=> l[i].type = "AUGMENTED")
    BY <1>1, <1>7 DEF Clears, Owes
  <2>2. AugmentedStep(l)[i][owes] = (owes /\ l[i].type # "AUGMENTED")
    BY <1>2, <1>7
  <2>3. Owing(l, s, p + 1) <=> owes /\ l[i].type # "AUGMENTED"
    BY <1>5, <2>1
  <2> QED
    BY <2>2, <2>3, Zenon DEF i
<1> QED
  BY <1>6, <1>7

LEMMA InTimeListed ==
  ASSUME NEW l, Readable(l)
  PROVE  Arranged(InTime(l), DOMAIN l, TimeOrder(l)) /\ Cardinality(DOMAIN l) \in Nat
<1>1. \A i \in DOMAIN l : i \in Int /\ l[i].ts \in Int
  <2>1. Readable(l)
    OBVIOUS
  <2>2. \A i \in DOMAIN l : i \in Int
    BY <2>1 DEF Readable
  <2> QED
    BY <2>1, <2>2 DEF Readable
<1>2. \A i, j \in DOMAIN l : <<i, j>> \in TimeOrder(l) <=> Earlier(l, i, j)
  BY DEF TimeOrder
<1>3. \A i \in DOMAIN l : ~Earlier(l, i, i)
  BY <1>1 DEF Earlier
<1>4. \A i, j \in DOMAIN l : i # j => Earlier(l, i, j) \/ Earlier(l, j, i)
  BY <1>1 DEF Earlier
<1>5. \A i, j, k \in DOMAIN l : Earlier(l, i, j) /\ Earlier(l, j, k) => Earlier(l, i, k)
  BY <1>1 DEF Earlier
<1>6. StrictOrder(DOMAIN l, TimeOrder(l))
  BY <1>2, <1>3, <1>4, <1>5 DEF StrictOrder
<1>7. Arranged(Arrange(DOMAIN l, TimeOrder(l)), DOMAIN l, TimeOrder(l))
  BY <1>6, EntriesFinite, ArrangeSorts
<1> QED
  BY <1>7, EntriesFinite, FS_CardinalityType DEF InTime, TimeOrder

(* Augmented rest is owed for a duty that no AUGMENTED rest follows. *)
LEMMA OwedForUncleared ==
  ASSUME NEW l, Readable(l)
  PROVE  /\ OwesAugmentedRest(l) \in BOOLEAN
         /\ OwesAugmentedRest(l) <=>
              \E d \in DOMAIN l : Owes(l, d) /\ \A r \in DOMAIN l : Clears(l, r) => ~Earlier(l, d, r)
<1>1. PICK s : s = InTime(l)
  OBVIOUS
<1>2. PICK n : n = Cardinality(DOMAIN l)
  OBVIOUS
<1>3. n \in Nat /\ Arranged(s, DOMAIN l, TimeOrder(l))
  BY <1>1, <1>2, InTimeListed
<1>4. /\ Len(s) = n /\ \A p \in 1..n : s[p] \in DOMAIN l
      /\ \A p, q \in 1..n : p < q => Earlier(l, s[p], s[q])
      /\ \A i \in DOMAIN l : \E p \in 1..n : s[p] = i
  <2>1. s \in [1..n -> DOMAIN l]
    BY <1>2, <1>3 DEF Arranged
  <2>2. Len(s) = n /\ \A p \in 1..n : s[p] \in DOMAIN l
    BY <1>3, <2>1
  <2>3. \A p, q \in 1..n : p < q => <<s[p], s[q]>> \in TimeOrder(l)
    BY <1>2, <1>3 DEF Arranged
  <2>4. \A p, q \in 1..n : p < q => Earlier(l, s[p], s[q])
    BY <2>3 DEF TimeOrder
  <2>5. \A i \in DOMAIN l : \E p \in 1..n : s[p] = i
    BY <1>2, <1>3 DEF Arranged
  <2> QED
    BY <2>2, <2>4, <2>5
<1>5. PICK after : Walked(after, AugmentedStep(l), FALSE, s)
  BY <1>3, <1>4, WalkStates
<1> DEFINE T == {p \in Nat : p <= n => after[p] \in BOOLEAN /\ (after[p] <=> Owing(l, s, p))}
<1>6. 0 \in T
  <2>1. after[0] = FALSE
    BY <1>5 DEF Walked
  <2>2. ~Owing(l, s, 0)
    BY DEF Owing
  <2> QED
    BY <2>1, <2>2
<1>7. ASSUME NEW p \in T PROVE p + 1 \in T
  <2> SUFFICES ASSUME p + 1 <= n
               PROVE  after[p + 1] \in BOOLEAN /\ (after[p + 1] <=> Owing(l, s, p + 1))
    OBVIOUS
  <2>1. p \in Nat /\ after[p] \in BOOLEAN /\ (after[p] <=> Owing(l, s, p))
    BY <1>3
  <2>2. p + 1 \in 1..n /\ (p + 1) - 1 = p /\ s[p + 1] \in DOMAIN l
    BY <1>3, <1>4, <2>1
  <2>3. after[p + 1] = AugmentedStep(l)[s[p + 1]][after[(p + 1) - 1]]
    BY <1>4, <1>5, <2>2 DEF Walked
  <2>4. after[p + 1] = AugmentedStep(l)[s[p + 1]][after[p]]
    BY <2>2, <2>3, Zenon
  <2>5. /\ AugmentedStep(l)[s[p + 1]][after[p]] \in BOOLEAN
        /\ AugmentedStep(l)[s[p + 1]][after[p]] <=> Owing(l, s, p + 1)
    BY <2>1, <2>2, OwingStep
  <2> QED
    BY <2>4, <2>5, Zenon
<1>8. T \in SUBSET Nat
  OBVIOUS
<1> HIDE DEF T
<1>9. n \in T
  BY <1>3, <1>6, <1>7, <1>8, NumberInduction
<1>10. after[n] \in BOOLEAN /\ (after[n] <=> Owing(l, s, n))
  BY <1>3, <1>9 DEF T
<1>11. OwesAugmentedRest(l) = after[n]
  BY <1>1, <1>4, <1>5 DEF OwesAugmentedRest, Walked
<1>12. \A i \in DOMAIN l : i \in Int /\ l[i].ts \in Int
  <2>1. Readable(l)
    OBVIOUS
  <2>2. \A i \in DOMAIN l : i \in Int
    BY <2>1 DEF Readable
  <2> QED
    BY <2>1, <2>2 DEF Readable
<1>13. \A i, j \in DOMAIN l : Earlier(l, i, j) => ~Earlier(l, j, i) /\ i # j
  BY <1>12 DEF Earlier
<1>14. ASSUME Owing(l, s, n)
       PROVE  \E d \in DOMAIN l : Owes(l, d) /\ \A r \in DOMAIN l : Clears(l, r) => ~Earlier(l, d, r)
  <2>1. PICK q \in 1..n : Owes(l, s[q]) /\ \A k \in (q + 1)..n : ~Clears(l, s[k])
    BY <1>14 DEF Owing
  <2>2. ASSUME NEW r \in DOMAIN l, Clears(l, r) PROVE ~Earlier(l, s[q], r)
    <3>1. PICK k \in 1..n : s[k] = r
      BY <1>4
    <3>2. k \notin (q + 1)..n
      BY <2>1, <2>2, <3>1
    <3>3. k < q \/ k = q
      BY <1>3, <3>2
    <3> QED
      BY <1>4, <1>13, <3>1, <3>3
  <2> QED
    BY <1>4, <2>1, <2>2
<1>15. ASSUME NEW d \in DOMAIN l, Owes(l, d),
              \A r \in DOMAIN l : Clears(l, r) => ~Earlier(l, d, r)
       PROVE  Owing(l, s, n)
  <2>1. PICK q \in 1..n : s[q] = d
    BY <1>4
  <2>2. ASSUME NEW k \in (q + 1)..n PROVE ~Clears(l, s[k])
    <3>1. k \in 1..n /\ q < k
      BY <1>3
    <3>2. Earlier(l, d, s[k]) /\ s[k] \in DOMAIN l
      BY <1>4, <2>1, <3>1
    <3> QED
      BY <1>15, <3>2
  <2> QED
    BY <1>15, <2>1, <2>2 DEF Owing
<1>16. Owing(l, s, n) <=>
         \E d \in DOMAIN l : Owes(l, d) /\ \A r \in DOMAIN l : Clears(l, r) => ~Earlier(l, d, r)
  BY <1>14, <1>15
<1> QED
  BY <1>10, <1>11, <1>16, Zenon

-----------------------------------------------------------------------------
(* A rest never hurts *)

LEMMA AugmentedNotRaised ==
  ASSUME NEW l, NEW e, NEW x, NEW m, RestAdded(l, e, x, m)
  PROVE  OwesAugmentedRest(m) => OwesAugmentedRest(l)
<1>1. Readable(l) /\ Readable(m) /\ Extended(l, e, x, m)
  BY DEF RestAdded
<1>2. /\ Duties(m) = Duties(l) /\ Rests(m) = Rests(l) \cup {x}
      /\ \A i \in DOMAIN l : m[i] = l[i]
  BY StreamWithRest
<1>3. DOMAIN l \subseteq DOMAIN m /\ Duties(l) \subseteq DOMAIN l /\ Rests(l) \subseteq DOMAIN l
  BY <1>1, EntriesFinite DEF Extended
<1> SUFFICES ASSUME NEW d \in DOMAIN m, Owes(m, d),
                    \A r \in DOMAIN m : Clears(m, r) => ~Earlier(m, d, r)
             PROVE  \E f \in DOMAIN l :
                      Owes(l, f) /\ \A r \in DOMAIN l : Clears(l, r) => ~Earlier(l, f, r)
  BY <1>1, OwedForUncleared
<1>4. d \in DOMAIN l /\ Owes(l, d)
  BY <1>2, <1>3 DEF Owes
<1>5. ASSUME NEW r \in DOMAIN l, Clears(l, r) PROVE ~Earlier(l, d, r)
  <2>1. r \in DOMAIN m /\ Clears(m, r)
    BY <1>2, <1>3, <1>5 DEF Clears
  <2>2. ~Earlier(m, d, r)
    BY <2>1
  <2> QED
    BY <1>2, <1>4, <2>2 DEF Earlier
<1> QED
  BY <1>4, <1>5
LEMMA StreakTyped ==
  ASSUME NEW l, Readable(l), NEW t \in Int
  PROVE  EarlyStreak(l, t) \in Nat
<1>1. TrailingRun(l, t) \subseteq DOMAIN l
  BY EntriesFinite DEF TrailingRun
<1>2. IsFiniteSet(TrailingRun(l, t))
  BY <1>1, EntriesFinite
<1> QED
  BY <1>2, StreakLength, FS_CardinalityType

LEMMA StreakNotRaised ==
  ASSUME NEW l, NEW e, NEW x, NEW m, RestAdded(l, e, x, m), NEW t \in Int
  PROVE  EarlyStreak(m, t) <= EarlyStreak(l, t)
<1>1. Readable(l) /\ Readable(m)
  BY DEF RestAdded
<1>2. /\ Duties(m) = Duties(l) /\ Rests(m) = Rests(l) \cup {x}
      /\ \A i \in DOMAIN l : m[i] = l[i]
      /\ \A d \in Duties(l) : Report(m, d) = Report(l, d)
  BY StreamWithRest
<1>3. Duties(l) \subseteq DOMAIN l /\ Rests(l) \subseteq DOMAIN l
  BY <1>1, EntriesFinite
<1>4. TrailingRun(m, t) \subseteq TrailingRun(l, t)
  BY <1>2, <1>3 DEF TrailingRun
<1>5. IsFiniteSet(TrailingRun(l, t))
  <2>1. TrailingRun(l, t) \subseteq DOMAIN l
    BY <1>3 DEF TrailingRun
  <2> QED
    BY <1>1, <2>1, EntriesFinite
<1>6. Cardinality(TrailingRun(m, t)) <= Cardinality(TrailingRun(l, t))
  BY <1>4, <1>5, FS_Subset
<1> QED
  BY <1>1, <1>6, StreakLength

LEMMA WeeklyNotRaised ==
  ASSUME NEW l, NEW e, NEW x, NEW m, RestAdded(l, e, x, m), NEW t \in Int
  PROVE  OwesWeeklyRest(m, t) => OwesWeeklyRest(l, t)
<1>1. Readable(l)
  BY DEF RestAdded
<1>2. Rests(m) = Rests(l) \cup {x} /\ \A i \in DOMAIN l : m[i] = l[i]
  BY StreamWithRest
<1>3. Rests(l) \subseteq DOMAIN l
  BY <1>1, EntriesFinite
<1>4. \A r \in CompletedInWeek(l, t) : r \in CompletedInWeek(m, t) /\ m[r] = l[r]
  BY <1>2, <1>3 DEF CompletedInWeek
<1> QED
  BY <1>4 DEF OwesWeeklyRest

(* Registering a rest (CreateRest, schedule.go:273-303), of whatever kind, *)
(* length and time, never adds to what RestDebt reports (compliance.go).   *)
THEOREM RestNeverEverHurts == Spec => RestNeverHurts
<1>1. LogTypeOK(log) /\ [Next]_log =>
        [\A in \in RestInputs : CreateRest(in) =>
           /\ OwesAugmentedRest(log)' => OwesAugmentedRest(log)
           /\ CompensatoryOwed(log)' <= CompensatoryOwed(log)
           /\ \A t \in AsOfs :
                /\ EarlyStreak(log, t)' <= EarlyStreak(log, t)
                /\ OwesWeeklyRest(log, t)' => OwesWeeklyRest(log, t)]_log
  <2> SUFFICES ASSUME LogTypeOK(log), NEW in \in RestInputs, CreateRest(in)
               PROVE  /\ OwesAugmentedRest(log)' => OwesAugmentedRest(log)
                      /\ CompensatoryOwed(log)' <= CompensatoryOwed(log)
                      /\ \A t \in AsOfs :
                           /\ EarlyStreak(log, t)' <= EarlyStreak(log, t)
                           /\ OwesWeeklyRest(log, t)' => OwesWeeklyRest(log, t)
    OBVIOUS
  <2>1. PICK e : e = RestCompleted(in)
    OBVIOUS
  <2>2. RestAdded(log, e, Len(log'), log')
    BY <2>1, RestRecorded
  <2>3. \A t \in AsOfs : t \in Int
    BY InputsAssumption
  <2>4. OwesAugmentedRest(log') => OwesAugmentedRest(log)
    BY <2>2, AugmentedNotRaised
  <2>5. CompensatoryOwed(log') <= CompensatoryOwed(log)
    BY <2>2, OwedNotRaised
  <2>6. \A t \in AsOfs : EarlyStreak(log', t) <= EarlyStreak(log, t)
    BY <2>2, <2>3, StreakNotRaised
  <2>7. \A t \in AsOfs : OwesWeeklyRest(log', t) => OwesWeeklyRest(log, t)
    BY <2>2, <2>3, WeeklyNotRaised
  <2> QED
    BY <2>4, <2>5, <2>6, <2>7
<1> QED
  BY <1>1, LogTyped, PTL DEF Spec, RestNeverHurts

-----------------------------------------------------------------------------
(* What the open deficits are for *)

(* Of the entries seen, each open deficit is that of a reduced rest before *)
(* one of them, the oldest perhaps paid in part, the others not at all,    *)
(* and no reduced rest after the oldest is missing.                        *)
Shortfall(l, d) == MinRest - Gap(l, d)
Backed(l, seen, open, from) ==
  /\ \A i \in 1..Len(open) :
       /\ from[i] \in seen /\ from[i] \in ReducedDuties(l)
       /\ open[i].deadline = Report(l, from[i]) + CompensatoryWindow
       /\ open[i].amount <= Shortfall(l, from[i])
       /\ i # 1 => open[i].amount = Shortfall(l, from[i])
  /\ \A i, j \in 1..Len(open) : i < j => ReportedBefore(l, from[i], from[j])
  /\ Len(open) # 0 =>
       \A e \in ReducedDuties(l) :
         e \in seen /\ ReportedBefore(l, from[1], e) => \E i \in 1..Len(open) : from[i] = e

(* A credit leaves the youngest of them.                                   *)
LEMMA BackedOncePaid ==
  ASSUME NEW l, NEW seen, NEW open, OpenOK(open), NEW from, Backed(l, seen, open, from),
         \A d, e \in ReducedDuties(l) : ReportedBefore(l, d, e) => ~ReportedBefore(l, e, d) /\ d # e,
         \A d, e, f \in ReducedDuties(l) :
           ReportedBefore(l, d, e) /\ ReportedBefore(l, e, f) => ReportedBefore(l, d, f),
         \A d \in ReducedDuties(l) : Shortfall(l, d) \in Int,
         NEW credit \in Nat
  PROVE  \E left : Backed(l, seen, Pay(open, credit), left)
<1> DEFINE F(i) == SumOldest(open, i)
<1>1. PICK m : m = Len(open)
  OBVIOUS
<1>2. /\ m \in Nat /\ DOMAIN open = 1..m
      /\ \A i \in 1..m : /\ open[i] \in Deficit
                        /\ open[i].amount \in Nat /\ open[i].amount > 0
      /\ \A i \in 0..m : F(i) \in Nat
      /\ \A i \in 0..(m - 1) : F(i + 1) = F(i) + open[i + 1].amount
  BY <1>1, OpenAmounts
<1>3. PICK n \in 0..m :
        /\ Cardinality({i \in DOMAIN open : F(i) <= credit}) = n
        /\ F(n) <= credit
        /\ n < m => F(n + 1) > credit
  BY <1>1, PaidInFull
<1>4. PICK rest : rest = Pay(open, credit)
  OBVIOUS
<1>5. rest = [i \in 1..(m - n) |->
                [open[n + i] EXCEPT !.amount = IF i = 1 THEN F(n + 1) - credit ELSE @]]
  BY <1>1, <1>3, <1>4 DEF Pay
<1> HIDE DEF F
<1>6. Len(rest) = m - n /\ m - n \in Nat
  BY <1>2, <1>3, <1>5
<1>7. \A i \in 1..(m - n) : n + i \in 1..m /\ open[n + i] \in Deficit
  BY <1>2, <1>3
<1>8. \A i \in 1..(m - n) :
        /\ rest[i].deadline = open[n + i].deadline
        /\ rest[i].amount = IF i = 1 THEN F(n + 1) - credit ELSE open[n + i].amount
  BY <1>5, <1>7 DEF Deficit
<1>9. 1 <= m - n => F(n + 1) - credit <= open[n + 1].amount
  <2> SUFFICES ASSUME 1 <= m - n PROVE F(n + 1) - credit <= open[n + 1].amount
    OBVIOUS
  <2>1. n \in 0..(m - 1) /\ n + 1 \in 1..m
    BY <1>2, <1>3
  <2> QED
    BY <1>2, <1>3, <2>1
<1>10. \A i \in 1..m :
         /\ from[i] \in seen /\ from[i] \in ReducedDuties(l)
         /\ open[i].deadline = Report(l, from[i]) + CompensatoryWindow
         /\ open[i].amount <= Shortfall(l, from[i])
         /\ i # 1 => open[i].amount = Shortfall(l, from[i])
  BY <1>1 DEF Backed
<1>11. \A i, j \in 1..m : i < j => ReportedBefore(l, from[i], from[j])
  BY <1>1 DEF Backed
<1> DEFINE left == [i \in 1..(m - n) |-> from[n + i]]
<1>12. ASSUME NEW i \in 1..(m - n)
       PROVE  /\ left[i] \in seen /\ left[i] \in ReducedDuties(l)
              /\ rest[i].deadline = Report(l, left[i]) + CompensatoryWindow
              /\ i # 1 => rest[i].amount = Shortfall(l, left[i])
  <2>1. n + i \in 1..m /\ (i # 1 => n + i # 1) /\ left[i] = from[n + i]
    BY <1>2, <1>3
  <2> QED
    BY <1>8, <1>10, <2>1
<1>13. ASSUME NEW i \in 1..(m - n)
       PROVE  rest[i].amount <= Shortfall(l, left[i])
  <2>1. n + i \in 1..m /\ left[i] = from[n + i] /\ open[n + i].amount <= Shortfall(l, from[n + i])
    BY <1>2, <1>3, <1>10
  <2>2. CASE i = 1
    <3>1. rest[1].amount = F(n + 1) - credit /\ 1 <= m - n /\ n + 1 \in 0..m
      BY <1>2, <1>3, <1>8, <2>2
    <3>2. rest[1].amount <= open[n + 1].amount /\ rest[1].amount \in Int
      BY <1>2, <1>9, <3>1
    <3>3. open[n + 1].amount \in Int /\ Shortfall(l, from[n + 1]) \in Int
      BY <1>2, <1>7, <1>10, <2>1, <2>2
    <3> QED
      BY <2>1, <2>2, <3>2, <3>3
  <2>3. CASE i # 1
    <3>1. rest[i].amount = open[n + i].amount
      BY <1>8, <2>3
    <3> QED
      BY <2>1, <3>1
  <2> QED
    BY <2>2, <2>3
<1>14. \A i, j \in 1..(m - n) : i < j => ReportedBefore(l, left[i], left[j])
  <2> SUFFICES ASSUME NEW i \in 1..(m - n), NEW j \in 1..(m - n), i < j
               PROVE  ReportedBefore(l, left[i], left[j])
    OBVIOUS
  <2>1. n + i \in 1..m /\ n + j \in 1..m /\ n + i < n + j
    BY <1>2, <1>3
  <2>2. ReportedBefore(l, from[n + i], from[n + j])
    BY <1>11, <2>1
  <2> QED
    BY <2>2
<1>15. ASSUME m - n # 0, NEW e \in ReducedDuties(l), e \in seen, ReportedBefore(l, left[1], e)
       PROVE  \E i \in 1..(m - n) : left[i] = e
  <2>1. left[1] = from[n + 1] /\ n + 1 \in 1..m /\ 1 \in 1..m
    BY <1>2, <1>3, <1>15
  <2>2. ReportedBefore(l, from[1], e)
    <3>1. from[1] \in ReducedDuties(l) /\ from[n + 1] \in ReducedDuties(l)
      BY <1>10, <2>1
    <3>2. n = 0 \/ ReportedBefore(l, from[1], from[n + 1])
      BY <1>3, <1>11, <2>1
    <3> QED
      BY <1>15, <2>1, <3>1, <3>2
  <2>3. PICK k \in 1..m : from[k] = e
    BY <1>1, <1>2, <1>15, <2>1, <2>2 DEF Backed
  <2>4. ~(k <= n + 1)
    <3>1. k <= n + 1 => k = n + 1 \/ ReportedBefore(l, from[k], from[n + 1])
      BY <1>2, <1>3, <1>11, <2>1
    <3>2. from[n + 1] \in ReducedDuties(l)
      BY <1>10, <2>1
    <3> QED
      BY <1>15, <2>1, <2>3, <3>1, <3>2
  <2>5. k - n \in 1..(m - n) /\ n + (k - n) = k
    BY <1>2, <1>3, <2>4
  <2>6. left[k - n] = from[n + (k - n)]
    BY <2>5
  <2> QED
    BY <2>3, <2>5, <2>6
<1>16. Backed(l, seen, rest, left)
  BY <1>6, <1>12, <1>13, <1>14, <1>15 DEF Backed
<1> QED
  BY <1>4, <1>16

(* The facts about reduced rests the walk needs.                           *)
LEMMA ReducedOrdered ==
  ASSUME NEW l, Readable(l)
  PROVE  /\ IsFiniteSet(ReducedDuties(l)) /\ ReducedDuties(l) \subseteq StreamItems(l)
         /\ \A d \in ReducedDuties(l) :
              /\ d \in Duties(l) /\ d \notin Rests(l) /\ Reduced(l, d)
              /\ Shortfall(l, d) \in Nat /\ Shortfall(l, d) > 0 /\ Report(l, d) \in Int
         /\ \A d, e \in ReducedDuties(l) :
              ReportedBefore(l, d, e) => /\ ~ReportedBefore(l, e, d) /\ d # e
                                         /\ Report(l, d) <= Report(l, e)
         /\ \A d, e, f \in ReducedDuties(l) :
              ReportedBefore(l, d, e) /\ ReportedBefore(l, e, f) => ReportedBefore(l, d, f)
<1>1. ReducedDuties(l) \subseteq Duties(l) /\ ReducedDuties(l) \subseteq StreamItems(l)
  BY DEF ReducedDuties, StreamItems
<1>2. IsFiniteSet(ReducedDuties(l))
  BY <1>1, StreamListed, FS_Subset
<1>3. \A d \in ReducedDuties(l) :
        /\ d \in Duties(l) /\ d \notin Rests(l) /\ d \in Int /\ l[d].ts \in Int /\ Report(l, d) \in Int
  BY <1>1, StreamReadable
<1>4. \A d \in ReducedDuties(l) :
        Reduced(l, d) /\ Shortfall(l, d) \in Nat /\ Shortfall(l, d) > 0
  BY ReducedBelowMinimum DEF ReducedDuties, Shortfall
<1>5. \A d, e \in ReducedDuties(l) :
        ReportedBefore(l, d, e) => /\ ~ReportedBefore(l, e, d) /\ d # e
                                   /\ Report(l, d) <= Report(l, e)
  BY <1>3 DEF ReportedBefore, Earlier
<1>6. \A d, e, f \in ReducedDuties(l) :
        ReportedBefore(l, d, e) /\ ReportedBefore(l, e, f) => ReportedBefore(l, d, f)
  BY <1>3 DEF ReportedBefore, Earlier
<1> QED
  BY <1>1, <1>2, <1>3, <1>4, <1>5, <1>6

(* So does every entry of the stream, when the others come before it.      *)
LEMMA BackedOnceSettled ==
  ASSUME NEW l, Readable(l), NEW seen \in SUBSET StreamItems(l), NEW open, OpenOK(open),
         NEW from, Backed(l, seen, open, from),
         NEW i \in StreamItems(l), \A j \in seen : StreamBefore(l, j, i)
  PROVE  \E more : Backed(l, seen \cup {i}, Settle(l)[i][open], more)
<1>1. open \in Seq(Deficit)
  BY DEF OpenOK
<1>2. Settle(l)[i][open] =
        IF i \in Rests(l) THEN Pay(open, l[i].duration)
        ELSE IF Reduced(l, i)
          THEN Append(open, [amount |-> MinRest - Gap(l, i),
                             deadline |-> Report(l, i) + CompensatoryWindow])
          ELSE open
  BY <1>1 DEF Settle
<1>3. ASSUME NEW left, NEW from2, Backed(l, seen, left, from2), i \notin ReducedDuties(l)
      PROVE  Backed(l, seen \cup {i}, left, from2)
  BY <1>3 DEF Backed
<1>4. CASE i \in Rests(l)
  <2>1. l[i].duration \in Nat
    <3>1. Readable(l)
      OBVIOUS
    <3> QED
      BY <1>4, <3>1 DEF Readable
  <2>2. PICK from2 : Backed(l, seen, Pay(open, l[i].duration), from2)
    <3>1. /\ \A d, e \in ReducedDuties(l) : ReportedBefore(l, d, e) => ~ReportedBefore(l, e, d) /\ d # e
          /\ \A d, e, f \in ReducedDuties(l) :
               ReportedBefore(l, d, e) /\ ReportedBefore(l, e, f) => ReportedBefore(l, d, f)
          /\ \A d \in ReducedDuties(l) : Shortfall(l, d) \in Int
      BY ReducedOrdered
    <3> QED
      BY <2>1, <3>1, BackedOncePaid
  <2>3. i \notin ReducedDuties(l)
    BY <1>4, ReducedOrdered
  <2>4. Backed(l, seen \cup {i}, Pay(open, l[i].duration), from2)
    BY <1>3, <2>2, <2>3
  <2> QED
    BY <1>2, <1>4, <2>4
<1>5. CASE i \notin Rests(l) /\ ~Reduced(l, i)
  <2>1. i \notin ReducedDuties(l)
    BY <1>5, ReducedOrdered
  <2> QED
    BY <1>2, <1>3, <1>5, <2>1
<1>6. CASE i \notin Rests(l) /\ Reduced(l, i)
  <2>1. i \in ReducedDuties(l)
    BY <1>6 DEF ReducedDuties, StreamItems, RestsOfType
  <2>2. PICK n : n = Len(open)
    OBVIOUS
  <2>3. PICK all : all = Append(open, [amount |-> Shortfall(l, i),
                                       deadline |-> Report(l, i) + CompensatoryWindow])
    OBVIOUS
  <2>4. all = Settle(l)[i][open]
    BY <1>2, <1>6, <2>3 DEF Shortfall
  <2>5. /\ n \in Nat /\ Len(all) = n + 1
        /\ \A k \in 1..n : all[k] = open[k]
        /\ all[n + 1] = [amount |-> Shortfall(l, i),
                         deadline |-> Report(l, i) + CompensatoryWindow]
    BY <1>1, <2>2, <2>3
  <2> DEFINE more == [k \in 1..(n + 1) |-> IF k = n + 1 THEN i ELSE from[k]]
  <2>6. more[n + 1] = i /\ \A k \in 1..n : more[k] = from[k]
    BY <2>5
  <2>7. \A k \in 1..(n + 1) : k \in 1..n \/ k = n + 1
    BY <2>5
  <2> HIDE DEF more
  <2>8. ASSUME NEW e \in ReducedDuties(l), e \in seen
        PROVE  ReportedBefore(l, e, i)
    <3>1. StreamBefore(l, e, i)
      BY <2>8
    <3>2. /\ e \in Duties(l) /\ i \in Duties(l)
          /\ StreamTime(l, e) = Report(l, e) /\ StreamTime(l, i) = Report(l, i)
      BY <2>1, ReducedOrdered, StreamReadable
    <3> QED
      BY <3>1, <3>2 DEF StreamBefore, ReportedBefore
  <2>9. ASSUME NEW k \in 1..(n + 1)
        PROVE  /\ more[k] \in seen \cup {i} /\ more[k] \in ReducedDuties(l)
               /\ all[k].deadline = Report(l, more[k]) + CompensatoryWindow
               /\ all[k].amount <= Shortfall(l, more[k])
               /\ k # 1 => all[k].amount = Shortfall(l, more[k])
    <3>1. CASE k \in 1..n
      BY <2>2, <2>5, <2>6, <3>1 DEF Backed
    <3>2. CASE k = n + 1
      <4>1. Shortfall(l, i) \in Nat
        BY <2>1, ReducedOrdered
      <4> QED
        BY <2>1, <2>5, <2>6, <3>2, <4>1
    <3> QED
      BY <2>7, <3>1, <3>2
  <2>10. ASSUME NEW k \in 1..(n + 1), NEW m \in 1..(n + 1), k < m
         PROVE  ReportedBefore(l, more[k], more[m])
    <3>1. k \in 1..n /\ more[k] = from[k]
      BY <2>5, <2>6, <2>10
    <3>2. from[k] \in seen /\ from[k] \in ReducedDuties(l)
      BY <2>2, <3>1 DEF Backed
    <3>3. CASE m = n + 1
      BY <2>6, <2>8, <3>1, <3>2, <3>3
    <3>4. CASE m \in 1..n
      BY <2>2, <2>6, <2>10, <3>1, <3>4 DEF Backed
    <3> QED
      BY <2>7, <3>3, <3>4
  <2>11. ASSUME NEW e \in ReducedDuties(l), e \in seen \cup {i}, ReportedBefore(l, more[1], e)
         PROVE  \E k \in 1..(n + 1) : more[k] = e
    <3>1. CASE e = i
      <4>1. n + 1 \in 1..(n + 1)
        BY <2>5
      <4> QED
        BY <2>6, <3>1, <4>1
    <3>2. CASE e \in seen /\ n = 0
      <4>1. more[1] = i
        BY <2>6, <3>2
      <4>2. ReportedBefore(l, e, i)
        BY <2>8, <3>2
      <4> QED
        BY <2>1, <2>11, <4>1, <4>2, ReducedOrdered
    <3>3. CASE e \in seen /\ n # 0
      <4>1. 1 \in 1..n /\ more[1] = from[1]
        BY <2>5, <2>6, <3>3
      <4>2. PICK k \in 1..n : from[k] = e
        BY <2>2, <2>11, <3>3, <4>1 DEF Backed
      <4>3. k \in 1..(n + 1) /\ more[k] = e
        BY <2>5, <2>6, <4>2
      <4> QED
        BY <4>3
    <3> QED
      BY <2>11, <3>1, <3>2, <3>3
  <2>12. Backed(l, seen \cup {i}, all, more)
    BY <2>5, <2>9, <2>10, <2>11 DEF Backed
  <2> QED
    BY <2>4, <2>12
<1> QED
  BY <1>4, <1>5, <1>6

BackedSoFar(l, s, p, open) ==
  OpenOK(open) /\ \E from : Backed(l, {s[q] : q \in 1..p}, open, from)

LEMMA DeficitsBacked ==
  ASSUME NEW l, Readable(l)
  PROVE  \E from : Backed(l, StreamItems(l), OpenDeficits(l), from)
<1>1. PICK s : s = Stream(l)
  OBVIOUS
<1>2. PICK n : n = Cardinality(StreamItems(l))
  OBVIOUS
<1>3. n \in Nat /\ Arranged(s, StreamItems(l), StreamOrder(l))
  BY <1>1, <1>2, StreamListed
<1>4. /\ Len(s) = n
      /\ \A p \in 1..n : s[p] \in StreamItems(l)
      /\ \A p, q \in 1..n : p < q => StreamBefore(l, s[p], s[q])
      /\ \A i \in StreamItems(l) : \E p \in 1..n : s[p] = i
  <2>1. s \in [1..n -> StreamItems(l)]
    BY <1>2, <1>3 DEF Arranged
  <2>2. Len(s) = n /\ \A p \in 1..n : s[p] \in StreamItems(l)
    BY <1>3, <2>1
  <2>3. \A p, q \in 1..n : p < q => <<s[p], s[q]>> \in StreamOrder(l)
    BY <1>2, <1>3 DEF Arranged
  <2>4. \A p, q \in 1..n : p < q => StreamBefore(l, s[p], s[q])
    BY <2>3 DEF StreamOrder
  <2>5. \A i \in StreamItems(l) : \E p \in 1..n : s[p] = i
    BY <1>2, <1>3 DEF Arranged
  <2> QED
    BY <2>2, <2>4, <2>5
<1>5. PICK after : Walked(after, Settle(l), <<>>, s)
  BY <1>3, <1>4, WalkStates
<1> DEFINE Seen(p) == {s[q] : q \in 1..p}
           T == {p \in Nat : p <= n => BackedSoFar(l, s, p, after[p])}
<1>6. 0 \in T
  <2>1. after[0] = <<>> /\ Len(<<>>) = 0
    BY <1>5 DEF Walked
  <2>2. OpenOK(<<>>)
    BY DEF OpenOK
  <2>3. Backed(l, Seen(0), <<>>, <<>>)
    BY DEF Backed
  <2>4. BackedSoFar(l, s, 0, <<>>)
    BY <2>2, <2>3 DEF BackedSoFar
  <2> QED
    BY <2>1, <2>4
<1>7. ASSUME NEW p \in T PROVE p + 1 \in T
  <2> SUFFICES ASSUME p + 1 <= n PROVE BackedSoFar(l, s, p + 1, after[p + 1])
    OBVIOUS
  <2>0. p \in Nat /\ BackedSoFar(l, s, p, after[p])
    BY <1>3
  <2>1. p \in Nat /\ OpenOK(after[p])
    BY <2>0 DEF BackedSoFar
  <2>2. PICK from : Backed(l, Seen(p), after[p], from)
    BY <2>0 DEF BackedSoFar
  <2>3. p + 1 \in 1..n /\ (p + 1) - 1 = p /\ \A q \in 1..p : q \in 1..n /\ q < p + 1
    BY <1>3, <2>1
  <2>4. after[p + 1] = Settle(l)[s[p + 1]][after[(p + 1) - 1]]
    BY <1>4, <1>5, <2>3 DEF Walked
  <2>5. after[p + 1] = Settle(l)[s[p + 1]][after[p]]
    BY <2>3, <2>4, Zenon
  <2>6. PICK seen : seen = Seen(p)
    OBVIOUS
  <2>7. /\ s[p + 1] \in StreamItems(l) /\ seen \in SUBSET StreamItems(l)
        /\ \A j \in seen : StreamBefore(l, j, s[p + 1])
    BY <1>4, <2>3, <2>6
  <2>8. Seen(p + 1) = seen \cup {s[p + 1]}
    <3>1. \A q : q \in 1..(p + 1) <=> q \in 1..p \/ q = p + 1
      BY <2>1
    <3> QED
      BY <2>6, <3>1
  <2>9. Backed(l, seen, after[p], from)
    BY <2>2, <2>6
  <2>10. \E more : Backed(l, seen \cup {s[p + 1]}, Settle(l)[s[p + 1]][after[p]], more)
    BY <2>1, <2>7, <2>9, BackedOnceSettled
  <2>11. OpenOK(Settle(l)[s[p + 1]][after[p]])
    BY <2>1, <2>7, SettleTotal
  <2>12. \E more : Backed(l, Seen(p + 1), after[p + 1], more)
    BY <2>5, <2>8, <2>10, Zenon
  <2>13. OpenOK(after[p + 1])
    BY <2>5, <2>11, Zenon
  <2> QED
    BY <2>12, <2>13 DEF BackedSoFar
<1>8. T \in SUBSET Nat
  OBVIOUS
<1> HIDE DEF T
<1>9. n \in T
  BY <1>3, <1>6, <1>7, <1>8, NumberInduction
<1>10. \E from : Backed(l, Seen(n), after[n], from)
  BY <1>3, <1>9 DEF T, BackedSoFar
<1>11. Seen(n) = StreamItems(l)
  BY <1>4
<1>12. OpenDeficits(l) = after[n]
  BY <1>1, <1>4, <1>5 DEF OpenDeficits, Walked
<1> QED
  BY <1>10, <1>11, <1>12, Zenon

LEMMA NothingOwed ==
  ASSUME NEW open, OpenOK(open)
  PROVE  SumAmounts(open) \in Nat /\ (SumAmounts(open) = 0 <=> Len(open) = 0)
<1>1. PICK n : n = Len(open)
  OBVIOUS
<1>2. /\ n \in Nat
      /\ \A i \in 1..n : open[i].amount \in Nat /\ open[i].amount > 0
      /\ SumAmounts(open) = SumOldest(open, n) /\ SumOldest(open, 0) = 0
      /\ \A i \in 0..n : SumOldest(open, i) \in Nat
      /\ \A i \in 0..(n - 1) : SumOldest(open, i + 1) = SumOldest(open, i) + open[i + 1].amount
  BY <1>1, OpenAmounts
<1>3. SumAmounts(open) \in Nat
  BY <1>2
<1>4. CASE n # 0
  <2>1. n - 1 \in 0..(n - 1) /\ n - 1 \in 0..n /\ (n - 1) + 1 = n /\ n \in 1..n
    BY <1>2, <1>4
  <2>2. SumOldest(open, (n - 1) + 1) = SumOldest(open, n - 1) + open[(n - 1) + 1].amount
    BY <1>2, <2>1
  <2>3. SumOldest(open, n) = SumOldest(open, n - 1) + open[n].amount
    BY <2>1, <2>2, Zenon
  <2> QED
    BY <1>1, <1>2, <1>4, <2>1, <2>3
<1> QED
  BY <1>1, <1>2, <1>3, <1>4

LEMMA OpenDeficitsOK ==
  ASSUME NEW l, Readable(l)
  PROVE  OpenOK(OpenDeficits(l))
<1>1. PICK s : s = Stream(l)
  OBVIOUS
<1>2. PICK n : n = Cardinality(StreamItems(l))
  OBVIOUS
<1>3. PICK net : net = [p \in DOMAIN s |-> Net(l, s[p])]
  OBVIOUS
<1>4. Netted(l, s, n, net)
  BY <1>1, <1>2, <1>3 DEF Netted
<1> QED
  BY <1>4, OwedIsPeak

(* The reduced rests from the oldest unpaid one on add up to what is owed  *)
(* or more, those after any later one to less.                             *)
LEMMA SinceOldest ==
  ASSUME NEW l, Readable(l), NEW open, OpenOK(open), Len(open) # 0,
         NEW from, Backed(l, StreamItems(l), open, from)
  PROVE  /\ DeficitsSince(l, from[1]) >= SumAmounts(open)
         /\ \A e \in ReducedDuties(l) :
              ReportedBefore(l, from[1], e) => DeficitsSince(l, e) < SumAmounts(open)
         /\ SumAmounts(open) - open[1].amount = DeficitsSince(l, from[1]) - Shortfall(l, from[1])
<1> DEFINE g == [e \in ReducedDuties(l) |-> Shortfall(l, e)]
           Since(d) == {e \in ReducedDuties(l) : e = d \/ ReportedBefore(l, d, e)}
           Sum(S) == SumFunctionOnSet(g, S)
           a == Amounts(open)
<1>1. /\ IsFiniteSet(ReducedDuties(l)) /\ ReducedDuties(l) \subseteq StreamItems(l)
      /\ \A d \in ReducedDuties(l) : Shortfall(l, d) \in Nat /\ Shortfall(l, d) > 0
      /\ \A d, e \in ReducedDuties(l) : ReportedBefore(l, d, e) => ~ReportedBefore(l, e, d) /\ d # e
      /\ \A d, e, f \in ReducedDuties(l) :
           ReportedBefore(l, d, e) /\ ReportedBefore(l, e, f) => ReportedBefore(l, d, f)
  BY ReducedOrdered
<1>2. PICK n : n = Len(open)
  OBVIOUS
<1>3. /\ n \in Nat /\ n # 0
      /\ \A i \in 1..n : open[i].amount \in Nat /\ open[i].amount > 0 /\ a[i] = open[i].amount
      /\ SumAmounts(open) = SumOldest(open, n)
  BY <1>2, OpenAmounts
<1>4. \A d \in ReducedDuties(l) : g[d] = Shortfall(l, d) /\ g[d] \in Nat /\ g[d] \in Int
  BY <1>1
<1>5. \A d : IsFiniteSet(Since(d)) /\ \A e \in Since(d) : e \in ReducedDuties(l) /\ g[e] \in Int
  <2>1. \A d : Since(d) \subseteq ReducedDuties(l)
    OBVIOUS
  <2> QED
    BY <1>1, <1>4, <2>1, FS_Subset
<1>6. ASSUME NEW d PROVE DeficitsSince(l, d) = Sum(Since(d))
  <2> DEFINE f == [e \in Since(d) |-> MinRest - Gap(l, e)]
  <2>1. DeficitsSince(l, d) = SumFunctionOnSet(f, DOMAIN f)
    BY Zenon DEF DeficitsSince, SumFunction
  <2>2. DOMAIN f = Since(d) /\ \A e \in Since(d) : f[e] = g[e]
    BY DEF Shortfall
  <2>3. PICK S : S = Since(d)
    OBVIOUS
  <2>4. IsFiniteSet(S) /\ (\A e \in S : g[e] \in Int) /\ (\A e \in S : f[e] = g[e])
    BY <1>5, <2>2, <2>3
  <2> HIDE DEF f, g, Since
  <2>5. SumFunctionOnSet(f, S) = SumFunctionOnSet(g, S)
    BY <2>4, SumSameTerms
  <2> QED
    BY <2>1, <2>2, <2>3, <2>5
<1>7. PICK oldest : oldest = from[1]
  OBVIOUS
<1>8. 1 \in 1..n /\ oldest \in ReducedDuties(l) /\ a[1] <= g[oldest] /\ a[1] \in Nat /\ a[1] > 0
  <2>1. 1 \in 1..n
    BY <1>3
  <2>2. oldest \in ReducedDuties(l) /\ open[1].amount <= Shortfall(l, oldest)
    BY <1>2, <1>7, <2>1 DEF Backed
  <2> QED
    BY <1>3, <1>4, <2>1, <2>2
<1>9. PICK R : R = (1..n) \ {1}
  OBVIOUS
<1>10. \A i \in R : /\ i \in 1..n /\ i # 1 /\ 1 < i
                   /\ from[i] \in ReducedDuties(l) /\ ReportedBefore(l, oldest, from[i])
                   /\ g[from[i]] = a[i] /\ a[i] \in Int
  <2> SUFFICES ASSUME NEW i \in R
               PROVE  /\ i \in 1..n /\ i # 1 /\ 1 < i
                      /\ from[i] \in ReducedDuties(l) /\ ReportedBefore(l, oldest, from[i])
                      /\ g[from[i]] = a[i] /\ a[i] \in Int
    OBVIOUS
  <2>1. i \in 1..n /\ i # 1 /\ 1 < i
    BY <1>3, <1>9
  <2>2. from[i] \in ReducedDuties(l) /\ open[i].amount = Shortfall(l, from[i])
    BY <1>2, <2>1 DEF Backed
  <2>3. ReportedBefore(l, oldest, from[i])
    BY <1>2, <1>7, <1>8, <2>1 DEF Backed
  <2> QED
    BY <1>3, <1>4, <2>1, <2>2, <2>3
<1>11. PICK later : later = Since(oldest) \ {oldest}
  OBVIOUS
<1>12. later = {from[i] : i \in R}
  <2>1. ASSUME NEW e \in later PROVE e \in {from[i] : i \in R}
    <3>1. e \in ReducedDuties(l) /\ ReportedBefore(l, oldest, e) /\ e \in StreamItems(l) /\ e # oldest
      BY <1>1, <1>11
    <3>2. PICK i \in 1..n : from[i] = e
      BY <1>2, <1>3, <1>7, <3>1 DEF Backed
    <3>3. i \in R
      BY <1>7, <1>9, <3>1, <3>2
    <3> QED
      BY <3>2, <3>3
  <2>2. ASSUME NEW i \in R PROVE from[i] \in later
    BY <1>1, <1>8, <1>10, <1>11
  <2> QED
    BY <2>1, <2>2
<1>13. \A i, j \in R : from[i] = from[j] => i = j
  <2> SUFFICES ASSUME NEW i \in R, NEW j \in R, i # j PROVE from[i] # from[j]
    OBVIOUS
  <2>0. i \in 1..n /\ j \in 1..n /\ n \in Nat
    BY <1>3, <1>10
  <2>1. i \in 1..n /\ j \in 1..n /\ (i < j \/ j < i)
    BY <2>0
  <2>2. ReportedBefore(l, from[i], from[j]) \/ ReportedBefore(l, from[j], from[i])
    BY <1>2, <2>1 DEF Backed
  <2> QED
    BY <1>1, <1>10, <2>2
<1>14. IsFiniteSet(1..n) /\ IsFiniteSet(R)
  <2>1. IsFiniteSet(1..n)
    BY <1>3, FS_Interval
  <2> QED
    BY <1>9, <2>1, FS_Subset
<1> HIDE DEF g, a, Since
<1>15. SumFunctionOnSet(g, {from[i] : i \in R}) = SumFunctionOnSet(a, R)
  <2>1. (\A i \in R : a[i] \in Int) /\ (\A i \in R : g[from[i]] = a[i])
    BY <1>10
  <2> QED
    BY <1>13, <1>14, <2>1, SumCorrespond
<1>16. Sum(later) = SumFunctionOnSet(a, R)
  BY <1>12, <1>15, Zenon
<1>17. SumAmounts(open) = a[1] + SumFunctionOnSet(a, R)
  <2>1. PICK D : D = 1..n
    OBVIOUS
  <2>2. IsFiniteSet(D) /\ (\A i \in D : a[i] \in Int) /\ 1 \in D /\ R = D \ {1}
    BY <1>3, <1>8, <1>9, <1>14, <2>1
  <2>3. SumFunctionOnSet(a, D) = a[1] + SumFunctionOnSet(a, D \ {1})
    BY <2>2, SumRemove
  <2>4. SumOldest(open, n) = SumFunctionOnSet(a, D)
    BY <2>1 DEF SumOldest, a
  <2> QED
    BY <1>3, <2>2, <2>3, <2>4
<1>18. Sum(Since(oldest)) = g[oldest] + Sum(later)
  <2>1. oldest \in Since(oldest)
    BY <1>8 DEF Since
  <2> QED
    BY <1>5, <1>11, <2>1, SumRemove
<1>19. IsFiniteSet(later) /\ (\A e \in later : g[e] \in Int /\ g[e] >= 0) /\ Sum(later) \in Int
  <2>1. later \subseteq Since(oldest)
    BY <1>11
  <2>2. IsFiniteSet(later)
    BY <1>5, <2>1, FS_Subset
  <2>3. \A e \in later : g[e] \in Int /\ g[e] >= 0
    <3>1. \A e \in later : g[e] \in Nat
      BY <1>4, <1>5, <2>1
    <3> QED
      BY <3>1
  <2> QED
    BY <2>2, <2>3, SumOfIntegers
<1>20. DeficitsSince(l, oldest) >= SumAmounts(open)
  <2>1. g[oldest] \in Int
    BY <1>4, <1>8
  <2> QED
    BY <1>6, <1>8, <1>16, <1>17, <1>18, <1>19, <2>1
<1>21. ASSUME NEW e \in ReducedDuties(l), ReportedBefore(l, oldest, e)
       PROVE  DeficitsSince(l, e) < SumAmounts(open)
  <2>1. Since(e) \subseteq later
    BY <1>1, <1>8, <1>11, <1>21 DEF Since
  <2>2. Sum(Since(e)) <= Sum(later)
    BY <1>19, <2>1, SumMonotonic
  <2>3. Sum(Since(e)) \in Int
    BY <1>5, SumOfIntegers
  <2> QED
    BY <1>6, <1>8, <1>16, <1>17, <1>19, <2>2, <2>3
<1>22. SumAmounts(open) - open[1].amount = DeficitsSince(l, oldest) - Shortfall(l, oldest)
  <2>1. g[oldest] = Shortfall(l, oldest) /\ g[oldest] \in Int /\ a[1] = open[1].amount
    BY <1>3, <1>4, <1>8
  <2> QED
    BY <1>6, <1>8, <1>16, <1>17, <1>18, <1>19, <2>1
<1> QED
  BY <1>7, <1>20, <1>21, <1>22

LEMMA MinOf ==
  ASSUME NEW S \in SUBSET Int, NEW x \in S, \A y \in S : x <= y
  PROVE  Min(S) = x
<1>1. PICK m : m = Min(S)
  OBVIOUS
<1>2. m \in S /\ m <= x
  BY <1>1 DEF Min
<1> QED
  BY <1>1, <1>2

(* The deadline RestDebt shows (replay.go:197-210) is that of the oldest   *)
(* reduced rest not yet made up, whatever the log and the order it was     *)
(* recorded in.                                                            *)
THEOREM DeadlineAlwaysOldest == Spec => []DeadlineOfOldestUnpaid
<1>1. Readable(log) => DeadlineOfOldestUnpaid
  <2> SUFFICES ASSUME Readable(log) PROVE DeadlineOfOldestUnpaid
    OBVIOUS
  <2>1. PICK open : open = OpenDeficits(log)
    OBVIOUS
  <2>2. OpenOK(open)
    BY <2>1, OpenDeficitsOK
  <2>3. PICK from : Backed(log, StreamItems(log), open, from)
    BY <2>1, DeficitsBacked
  <2>4. PICK n : n = Len(open)
    OBVIOUS
  <2>5. n \in Nat /\ DOMAIN open = 1..n
    BY <2>2, <2>4, OpenAmounts
  <2> DEFINE due == {open[i].deadline : i \in DOMAIN open}
  <2>6. due = {} <=> n = 0
    <3>1. n # 0 => 1 \in DOMAIN open
      BY <2>5
    <3>2. n = 0 => DOMAIN open = {}
      BY <2>5
    <3> QED
      BY <3>1, <3>2
  <2>7. SumAmounts(open) = 0 <=> n = 0
    BY <2>2, <2>4, NothingOwed
  <2>8. ASSUME n # 0
        PROVE  /\ from[1] \in ReducedDuties(log)
               /\ Min(due) = Report(log, from[1]) + CompensatoryWindow
               /\ DeficitsSince(log, from[1]) >= SumAmounts(open)
               /\ \A e \in ReducedDuties(log) :
                    ReportedBefore(log, from[1], e) => DeficitsSince(log, e) < SumAmounts(open)
    <3>1. 1 \in 1..n
      BY <2>5, <2>8
    <3>2. \A i \in 1..n : /\ from[i] \in ReducedDuties(log)
                         /\ open[i].deadline = Report(log, from[i]) + CompensatoryWindow
      BY <2>3, <2>4 DEF Backed
    <3>3. \A i \in 1..n : Report(log, from[i]) \in Int /\ open[i].deadline \in Int
      BY <3>2, ReducedOrdered DEF CompensatoryWindow
    <3>4. ASSUME NEW i \in 1..n PROVE open[1].deadline <= open[i].deadline
      <4>1. i = 1 \/ ReportedBefore(log, from[1], from[i])
        <5>1. i = 1 \/ 1 < i
          BY <2>5
        <5> QED
          BY <2>3, <2>4, <3>1, <5>1 DEF Backed
      <4>2. Report(log, from[1]) <= Report(log, from[i])
        BY <3>1, <3>2, <3>3, <4>1, ReducedOrdered
      <4> QED
        BY <3>1, <3>2, <3>3, <4>2 DEF CompensatoryWindow
    <3>5. due \in SUBSET Int /\ open[1].deadline \in due /\ \A t \in due : open[1].deadline <= t
      BY <2>5, <3>1, <3>3, <3>4
    <3> HIDE DEF due
    <3>6. Min(due) = open[1].deadline
      BY <3>5, MinOf
    <3>7. /\ DeficitsSince(log, from[1]) >= SumAmounts(open)
          /\ \A e \in ReducedDuties(log) :
               ReportedBefore(log, from[1], e) => DeficitsSince(log, e) < SumAmounts(open)
      BY <2>2, <2>3, <2>4, <2>8, SinceOldest
    <3> QED
      BY <3>1, <3>2, <3>6, <3>7
  <2> HIDE DEF due
  <2>9. due # {} =>
          \E d \in ReducedDuties(log) :
             /\ Min(due) = Report(log, d) + CompensatoryWindow
             /\ DeficitsSince(log, d) >= SumAmounts(open)
             /\ \A e \in ReducedDuties(log) :
                  ReportedBefore(log, d, e) => DeficitsSince(log, e) < SumAmounts(open)
    BY <2>6, <2>8
  <2> QED
    BY <2>1, <2>6, <2>7, <2>9, Zenon DEF DeadlineOfOldestUnpaid, due
<1> QED
  BY <1>1, LogAlwaysReadable, PTL

-----------------------------------------------------------------------------
(* The order of recording *)

(* The entries of one log are those of the other, each at another place.   *)
Reordered(l, m, b) ==
  /\ Readable(l) /\ Readable(m)
  /\ \A i \in DOMAIN l : b[i] \in DOMAIN m /\ m[b[i]] = l[i]
  /\ \A i, j \in DOMAIN l : b[i] = b[j] => i = j
  /\ \A j \in DOMAIN m : \E i \in DOMAIN l : b[i] = j

LEMMA ReorderedBack ==
  ASSUME NEW l, NEW m, NEW b, Reordered(l, m, b)
  PROVE  \E c : Reordered(m, l, c)
<1> DEFINE c == [j \in DOMAIN m |-> CHOOSE i \in DOMAIN l : b[i] = j]
<1>1. \A j \in DOMAIN m : c[j] \in DOMAIN l /\ b[c[j]] = j
  BY DEF Reordered
<1>2. \A i \in DOMAIN l : b[i] \in DOMAIN m /\ c[b[i]] = i
  BY <1>1 DEF Reordered
<1> HIDE DEF c
<1>3. Reordered(m, l, c)
  BY <1>1, <1>2 DEF Reordered
<1> QED
  BY <1>3

LEMMA ReorderedFacts ==
  ASSUME NEW l, NEW m, NEW b, Reordered(l, m, b)
  PROVE  /\ \A i \in DOMAIN l :
              /\ b[i] \in DOMAIN m /\ m[b[i]] = l[i] /\ Report(m, b[i]) = Report(l, i)
              /\ i \in Duties(l) <=> b[i] \in Duties(m)
              /\ i \in Rests(l) <=> b[i] \in Rests(m)
              /\ i \in StreamItems(l) <=> b[i] \in StreamItems(m)
              /\ StreamTime(l, i) = StreamTime(m, b[i])
         /\ \A j \in DOMAIN m : \E i \in DOMAIN l : b[i] = j
<1>1. ASSUME NEW i \in DOMAIN l
      PROVE  /\ b[i] \in DOMAIN m /\ m[b[i]] = l[i] /\ Report(m, b[i]) = Report(l, i)
             /\ i \in Duties(l) <=> b[i] \in Duties(m)
             /\ i \in Rests(l) <=> b[i] \in Rests(m)
  BY DEF Reordered, Report, Duties, Rests
<1>2. ASSUME NEW i \in DOMAIN l
      PROVE  i \in StreamItems(l) <=> b[i] \in StreamItems(m)
  BY <1>1 DEF StreamItems, RestsOfType
<1>3. ASSUME NEW i \in DOMAIN l PROVE StreamTime(l, i) = StreamTime(m, b[i])
  BY <1>1 DEF StreamTime
<1>4. \A j \in DOMAIN m : \E i \in DOMAIN l : b[i] = j
  BY DEF Reordered
<1> QED
  BY <1>1, <1>2, <1>3, <1>4

(* The duty before a reduced rest reported and was released before it, so  *)
(* no two reduced rests end at one report.                                 *)
LEMMA BeforeReduced ==
  ASSUME NEW l, Readable(l), NEW d \in ReducedDuties(l)
  PROVE  /\ Previous(l, d) \in Duties(l) /\ Previous(l, d) \in DutiesBefore(l, d)
         /\ Report(l, Previous(l, d)) < Report(l, d)
         /\ \A f \in DutiesBefore(l, d) \ {Previous(l, d)} : ReportedBefore(l, f, Previous(l, d))
<1>1. d \in Duties(l) /\ Reduced(l, d) /\ Report(l, d) \in Int
  BY ReducedOrdered
<1>2. PICK p : p = Previous(l, d)
  OBVIOUS
<1>3. /\ p \in DutiesBefore(l, d) /\ p \in Duties(l)
      /\ \A f \in DutiesBefore(l, d) \ {p} : ReportedBefore(l, f, p)
  <2>1. DutiesBefore(l, d) # {}
    BY <1>1 DEF Reduced
  <2> QED
    BY <1>1, <1>2, <2>1, PreviousReported DEF DutiesBefore
<1>4. Report(l, p) \in Int /\ Report(l, p) < l[p].ts /\ l[p].ts \in Int
  <2>1. Readable(l)
    OBVIOUS
  <2>2. p \in DOMAIN l
    BY <1>3, EntriesFinite
  <2> QED
    BY <1>3, <2>1, <2>2 DEF Readable
<1>5. Report(l, d) - l[p].ts >= ReducedFloor
  BY <1>1, <1>2 DEF Reduced, Gap
<1>6. Report(l, p) < Report(l, d)
  BY <1>1, <1>4, <1>5 DEF ReducedFloor
<1> QED
  BY <1>2, <1>3, <1>6

LEMMA ReducedApart ==
  ASSUME NEW l, Readable(l), NEW d \in ReducedDuties(l), NEW e \in ReducedDuties(l)
  PROVE  /\ Report(l, d) = Report(l, e) => d = e
         /\ ReportedBefore(l, d, e) <=> Report(l, d) < Report(l, e)
<1>1. /\ d \in Duties(l) /\ e \in Duties(l)
      /\ Report(l, d) \in Int /\ Report(l, e) \in Int
  BY ReducedOrdered
<1>2. ASSUME NEW x \in ReducedDuties(l), NEW y \in ReducedDuties(l), ReportedBefore(l, x, y)
      PROVE  Report(l, x) < Report(l, y)
  <2>1. PICK p : p = Previous(l, y)
    OBVIOUS
  <2>2. /\ p \in Duties(l) /\ Report(l, p) < Report(l, y)
        /\ \A f \in DutiesBefore(l, y) \ {p} : ReportedBefore(l, f, p)
    BY <2>1, BeforeReduced
  <2>3. x \in DutiesBefore(l, y)
    BY <1>2, ReducedOrdered DEF DutiesBefore
  <2>4. x = p \/ ReportedBefore(l, x, p)
    BY <2>2, <2>3
  <2>5. Report(l, x) <= Report(l, p) /\ Report(l, p) \in Int /\ Report(l, x) \in Int /\ Report(l, y) \in Int
    <3>1. Report(l, x) \in Int /\ Report(l, y) \in Int
      BY ReducedOrdered
    <3>2. Report(l, p) \in Int
      <4>1. Readable(l)
        OBVIOUS
      <4> QED
        BY <2>2, <4>1 DEF Readable
    <3> QED
      BY <2>4, <3>1, <3>2 DEF ReportedBefore
  <2> QED
    BY <2>2, <2>5
<1>3. d # e => ReportedBefore(l, d, e) \/ ReportedBefore(l, e, d)
  <2>1. StrictOrder(Duties(l), Reporting(l, Duties(l)))
    BY DutiesOrdered
  <2> QED
    BY <1>1, <2>1 DEF StrictOrder, Reporting
<1>4. /\ ReportedBefore(l, d, e) => Report(l, d) < Report(l, e)
      /\ ReportedBefore(l, e, d) => Report(l, e) < Report(l, d)
  BY <1>2
<1>5. Report(l, d) < Report(l, e) => ReportedBefore(l, d, e)
  BY DEF ReportedBefore
<1> QED
  BY <1>1, <1>3, <1>4, <1>5

(* Some duty of those that report together comes first.                    *)
LEMMA FirstReported ==
  ASSUME NEW l, Readable(l), NEW S \in SUBSET Duties(l), S # {}
  PROVE  \E e \in S : \A f \in S \ {e} : ReportedBefore(l, e, f) /\ ~ReportedBefore(l, f, e)
<1> DEFINE order == {ij \in S \X S : ReportedBefore(l, ij[2], ij[1])}
<1>1. StrictOrder(S, Reporting(l, S))
  BY DutiesOrdered
<1>2. \A i, j \in S : <<i, j>> \in Reporting(l, S) <=> <<j, i>> \in order
  BY DEF Reporting
<1>3. StrictOrder(S, order)
  BY <1>1, <1>2 DEF StrictOrder
<1>4. IsFiniteSet(S)
  BY EntriesFinite
<1> HIDE DEF order
<1>5. PICK e \in S : \A f \in S \ {e} : <<f, e>> \in order
  BY <1>3, <1>4, LastExists
<1>6. \A f \in S \ {e} : <<e, f>> \in Reporting(l, S) /\ <<f, e>> \notin Reporting(l, S)
  BY <1>1, <1>2, <1>5 DEF StrictOrder
<1> QED
  BY <1>6 DEF Reporting

(* A rest that is reduced in one log is reduced in the other.              *)
LEMMA SameReduced ==
  ASSUME NEW l, NEW m, NEW b, Reordered(l, m, b), NEW d \in ReducedDuties(l)
  PROVE  \E e \in ReducedDuties(m) :
           Report(m, e) = Report(l, d) /\ Shortfall(m, e) = Shortfall(l, d)
<1>0. Readable(l) /\ Readable(m)
  BY DEF Reordered
<1>1. PICK t : t = Report(l, d)
  OBVIOUS
<1>2. PICK p : p = Previous(l, d)
  OBVIOUS
<1>3. /\ p \in Duties(l) /\ p \in DutiesBefore(l, d) /\ Report(l, p) < t
      /\ \A f \in DutiesBefore(l, d) \ {p} : ReportedBefore(l, f, p)
  BY <1>0, <1>1, <1>2, BeforeReduced
<1>4. d \in Duties(l) /\ Reduced(l, d) /\ t \in Int
  BY <1>0, <1>1, ReducedOrdered
<1>5. /\ Duties(l) \subseteq DOMAIN l /\ Duties(m) \subseteq DOMAIN m
      /\ \A f \in Duties(l) : Report(l, f) \in Int /\ l[f].ts \in Int
      /\ \A f \in Duties(m) : Report(m, f) \in Int /\ m[f].ts \in Int
  <2>1. Readable(l) /\ Readable(m)
    BY <1>0
  <2>2. Duties(l) \subseteq DOMAIN l /\ Duties(m) \subseteq DOMAIN m
    BY <1>0, EntriesFinite
  <2> QED
    BY <2>1, <2>2 DEF Readable
<1> DEFINE S == {f \in Duties(m) : Report(m, f) = t}
<1>6. b[d] \in S
  BY <1>1, <1>4, <1>5, ReorderedFacts
<1>7. PICK e \in S : \A f \in S \ {e} : ReportedBefore(m, e, f) /\ ~ReportedBefore(m, f, e)
  BY <1>0, <1>6, FirstReported
<1>8. e \in Duties(m) /\ Report(m, e) = t
  BY <1>7
<1>9. \A f \in DutiesBefore(m, e) : f \in Duties(m) /\ Report(m, f) < t
  <2> SUFFICES ASSUME NEW f \in DutiesBefore(m, e) PROVE f \in Duties(m) /\ Report(m, f) < t
    OBVIOUS
  <2>1. f \in Duties(m) /\ ReportedBefore(m, f, e)
    BY DEF DutiesBefore
  <2>2. ~ReportedBefore(m, e, e)
    <3>1. StrictOrder(Duties(m), Reporting(m, Duties(m)))
      BY <1>0, DutiesOrdered
    <3> QED
      BY <1>8, <3>1 DEF StrictOrder, Reporting
  <2>3. f \notin S
    BY <1>7, <2>1, <2>2
  <2>4. Report(m, f) # t
    BY <2>1, <2>3
  <2> QED
    BY <1>5, <1>8, <2>1, <2>4 DEF ReportedBefore
<1>10. b[p] \in Duties(m) /\ m[b[p]] = l[p] /\ Report(m, b[p]) = Report(l, p)
  BY <1>3, <1>5, ReorderedFacts
<1>11. b[p] \in DutiesBefore(m, e)
  BY <1>3, <1>8, <1>10 DEF DutiesBefore, ReportedBefore
<1>12. PICK q : q = Previous(m, e)
  OBVIOUS
<1>13. /\ q \in DutiesBefore(m, e)
       /\ \A f \in DutiesBefore(m, e) \ {q} : ReportedBefore(m, f, q)
  BY <1>0, <1>8, <1>11, <1>12, PreviousReported
<1>14. q \in Duties(m) /\ Report(m, q) < t
  BY <1>9, <1>13
<1>15. PICK f \in DOMAIN l : b[f] = q
  BY <1>5, <1>14, ReorderedFacts
<1>16. f \in Duties(l) /\ m[q] = l[f] /\ Report(m, q) = Report(l, f)
  BY <1>14, <1>15, ReorderedFacts
<1>17. f \in DutiesBefore(l, d)
  BY <1>1, <1>14, <1>16 DEF DutiesBefore, ReportedBefore
<1>18. f = p \/ ReportedBefore(l, f, p)
  BY <1>3, <1>17
<1>19. b[p] = q \/ ReportedBefore(m, b[p], q)
  BY <1>11, <1>13
<1>20. m[q].ts = l[p].ts
  <2>1. Report(l, f) <= Report(l, p) /\ (Report(l, f) = Report(l, p) => l[f].ts <= l[p].ts)
    BY <1>3, <1>5, <1>16, <1>18 DEF ReportedBefore, Earlier
  <2>2. /\ Report(m, b[p]) <= Report(m, q)
        /\ Report(m, b[p]) = Report(m, q) => m[b[p]].ts <= m[q].ts
    BY <1>5, <1>10, <1>14, <1>19 DEF ReportedBefore, Earlier
  <2>3. Report(l, p) \in Int /\ Report(l, f) \in Int /\ l[p].ts \in Int /\ l[f].ts \in Int
    BY <1>3, <1>5, <1>16
  <2>4. Report(l, p) <= Report(l, f) /\ (Report(l, p) = Report(l, f) => l[p].ts <= l[f].ts)
    BY <1>10, <1>16, <2>2
  <2>5. l[f].ts = l[p].ts
    BY <2>1, <2>3, <2>4
  <2> QED
    BY <1>16, <2>5
<1>21. Gap(m, e) = Gap(l, d)
  BY <1>1, <1>2, <1>8, <1>12, <1>20 DEF Gap
<1>22. e \in ReducedDuties(m)
  BY <1>4, <1>8, <1>11, <1>21 DEF ReducedDuties, Reduced
<1> QED
  BY <1>1, <1>8, <1>21, <1>22 DEF Shortfall

(* Each reduced rest of the one log is one of the other.                   *)
Matched(l, m, h) ==
  /\ \A d \in ReducedDuties(l) : /\ h[d] \in ReducedDuties(m)
                                /\ Report(m, h[d]) = Report(l, d)
                                /\ Shortfall(m, h[d]) = Shortfall(l, d)
  /\ \A d, e \in ReducedDuties(l) : h[d] = h[e] => d = e
  /\ \A e \in ReducedDuties(m) : \E d \in ReducedDuties(l) : h[d] = e
  /\ \A d, e \in ReducedDuties(l) : ReportedBefore(l, d, e) <=> ReportedBefore(m, h[d], h[e])

LEMMA ReducedMatched ==
  ASSUME NEW l, NEW m, NEW b, Reordered(l, m, b)
  PROVE  \E h : Matched(l, m, h)
<1> DEFINE Same(d, e) == Report(m, e) = Report(l, d) /\ Shortfall(m, e) = Shortfall(l, d)
           h == [d \in ReducedDuties(l) |-> CHOOSE e \in ReducedDuties(m) : Same(d, e)]
<1>0. Readable(l) /\ Readable(m)
  BY DEF Reordered
<1>1. \A d \in ReducedDuties(l) : \E e \in ReducedDuties(m) : Same(d, e)
  BY SameReduced
<1>2. \A d \in ReducedDuties(l) : h[d] \in ReducedDuties(m) /\ Same(d, h[d])
  BY <1>1
<1> HIDE DEF h
<1>3. \A d, e \in ReducedDuties(l) : h[d] = h[e] => d = e
  BY <1>0, <1>2, ReducedApart
<1>4. ASSUME NEW e \in ReducedDuties(m) PROVE \E d \in ReducedDuties(l) : h[d] = e
  <2>1. PICK c : Reordered(m, l, c)
    BY ReorderedBack
  <2>2. PICK d \in ReducedDuties(l) : Report(l, d) = Report(m, e)
    BY <2>1, SameReduced
  <2>3. h[d] \in ReducedDuties(m) /\ Report(m, h[d]) = Report(m, e)
    BY <1>2, <2>2
  <2> QED
    BY <1>0, <2>3, ReducedApart
<1>5. ASSUME NEW d \in ReducedDuties(l), NEW e \in ReducedDuties(l)
      PROVE  ReportedBefore(l, d, e) <=> ReportedBefore(m, h[d], h[e])
  <2>1. ReportedBefore(l, d, e) <=> Report(l, d) < Report(l, e)
    BY <1>0, ReducedApart
  <2>2. ReportedBefore(m, h[d], h[e]) <=> Report(m, h[d]) < Report(m, h[e])
    BY <1>0, <1>2, ReducedApart
  <2> QED
    BY <1>2, <2>1, <2>2
<1>6. Matched(l, m, h)
  BY <1>2, <1>3, <1>4, <1>5 DEF Matched
<1> QED
  BY <1>6

(* What every entry is worth, by its kind.                                 *)
LEMMA NetByKind ==
  ASSUME NEW l, Readable(l)
  PROVE  \A i \in StreamItems(l) :
           /\ i \in Rests(l) => Nets(l)[i] = 0 - l[i].duration /\ Nets(l)[i] <= 0
           /\ i \in ReducedDuties(l) => Nets(l)[i] = Shortfall(l, i) /\ Nets(l)[i] >= 0
           /\ i \in Duties(l) /\ i \notin ReducedDuties(l) => Nets(l)[i] = 0
           /\ Nets(l)[i] \in Int
<1> SUFFICES ASSUME NEW i \in StreamItems(l)
             PROVE  /\ i \in Rests(l) => Nets(l)[i] = 0 - l[i].duration /\ Nets(l)[i] <= 0
                    /\ i \in ReducedDuties(l) => Nets(l)[i] = Shortfall(l, i) /\ Nets(l)[i] >= 0
                    /\ i \in Duties(l) /\ i \notin ReducedDuties(l) => Nets(l)[i] = 0
                    /\ Nets(l)[i] \in Int
  OBVIOUS
<1>1. Nets(l)[i] = Net(l, i) /\ Nets(l)[i] \in Int
  BY NetsTyped
<1>2. ASSUME i \in Rests(l) PROVE Nets(l)[i] = 0 - l[i].duration /\ Nets(l)[i] <= 0
  <2>1. Readable(l)
    OBVIOUS
  <2>2. l[i].duration \in Nat
    BY <1>2, <2>1 DEF Readable
  <2>3. Nets(l)[i] = 0 - l[i].duration
    BY <1>1, <1>2 DEF Net
  <2> QED
    BY <2>2, <2>3
<1>3. ASSUME i \in ReducedDuties(l) PROVE Nets(l)[i] = Shortfall(l, i) /\ Nets(l)[i] >= 0
  <2>1. i \notin Rests(l) /\ Reduced(l, i) /\ Shortfall(l, i) \in Nat
    BY <1>3, ReducedOrdered
  <2>2. Nets(l)[i] = Shortfall(l, i)
    BY <1>1, <2>1 DEF Net, Shortfall
  <2> QED
    BY <2>1, <2>2
<1>4. ASSUME i \in Duties(l), i \notin ReducedDuties(l) PROVE Nets(l)[i] = 0
  <2>1. i \notin Rests(l) /\ ~Reduced(l, i)
    BY <1>4, StreamReadable DEF ReducedDuties
  <2> QED
    BY <1>1, <2>1 DEF Net
<1> QED
  BY <1>1, <1>2, <1>3, <1>4

(* Where no compensatory rest was taken, something is owed exactly when    *)
(* some duty was flown on reduced rest.                                    *)
LEMMA OwedForReduced ==
  ASSUME NEW l, Readable(l), RestsOfType(l, "COMPENSATORY") = {}
  PROVE  CompensatoryOwed(l) > 0 <=> ReducedDuties(l) # {}
<1>1. StreamItems(l) = Duties(l)
  BY DEF StreamItems
<1>2. /\ DOMAIN Nets(l) = Duties(l) /\ IsFiniteSet(Duties(l))
      /\ \A i \in Duties(l) : Nets(l)[i] \in Int /\ Nets(l)[i] >= 0
      /\ \A i \in Duties(l) : i \notin ReducedDuties(l) => Nets(l)[i] = 0
  <2>1. \A i \in Duties(l) : i \in ReducedDuties(l) => Nets(l)[i] >= 0
    BY <1>1, NetByKind
  <2>2. \A i \in Duties(l) : i \notin ReducedDuties(l) => Nets(l)[i] = 0
    BY <1>1, NetByKind
  <2> QED
    BY <1>1, <2>1, <2>2, NetsTyped
<1>3. CompensatoryOwed(l) \in Int
  BY OwedTyped
<1>4. SumFunctionOnSet(Nets(l), {}) = 0
  <2>1. IsFiniteSet({})
    BY FS_EmptySet
  <2> QED
    BY <2>1, SumOne
<1>5. ASSUME ReducedDuties(l) = {} PROVE ~(CompensatoryOwed(l) > 0)
  <2>1. PICK U : UpClosed(l, U) /\ CompensatoryOwed(l) = NetOf(l, U)
    BY OwedIsLargest
  <2>2. U \subseteq Duties(l) /\ IsFiniteSet(U)
    BY <1>1, <1>2, <2>1, FS_Subset DEF UpClosed
  <2>3. \A i \in U : Nets(l)[i] \in Int /\ Nets(l)[i] <= 0
    BY <1>2, <1>5, <2>2
  <2>4. SumFunctionOnSet(Nets(l), U) <= SumFunctionOnSet(Nets(l), {})
    BY <2>2, <2>3, SumNotLowered
  <2> QED
    BY <1>3, <1>4, <2>1, <2>4 DEF NetOf
<1>6. ASSUME NEW d \in ReducedDuties(l) PROVE CompensatoryOwed(l) > 0
  <2>1. d \in Duties(l) /\ Reduced(l, d)
    BY DEF ReducedDuties
  <2>2. Nets(l)[d] > 0
    <3>1. MinRest - Gap(l, d) > 0
      BY <2>1, ReducedBelowMinimum
    <3>2. Nets(l)[d] = Shortfall(l, d)
      BY <1>1, <2>1, NetByKind
    <3> QED
      BY <3>1, <3>2 DEF Shortfall
  <2>3. SumFunctionOnSet(Nets(l), {} \cup {d}) = SumFunctionOnSet(Nets(l), {}) + Nets(l)[d]
    <3>1. IsFiniteSet({}) /\ d \notin {} /\ Nets(l)[d] \in Int
      BY <1>2, <2>1, FS_EmptySet
    <3> QED
      BY <3>1, SumAdd
  <2>4. {} \cup {d} = {d}
    OBVIOUS
  <2>5. SumFunctionOnSet(Nets(l), {d}) = Nets(l)[d]
    <3>1. SumFunctionOnSet(Nets(l), {d}) = 0 + Nets(l)[d]
      BY <1>4, <2>3, <2>4, Zenon
    <3> QED
      BY <1>2, <2>1, <3>1
  <2>6. SumFunctionOnSet(Nets(l), {d}) <= SumFunctionOnSet(Nets(l), Duties(l))
    BY <1>2, <2>1, SumMonotonic
  <2>7. UpClosed(l, Duties(l))
    BY <1>1 DEF UpClosed
  <2>8. CompensatoryOwed(l) >= NetOf(l, Duties(l)) /\ NetOf(l, Duties(l)) \in Int
    BY <1>1, <2>7, OwedIsLargest, NetsTyped
  <2>9. Nets(l)[d] \in Int
    BY <1>2, <2>1
  <2> QED
    BY <1>3, <2>2, <2>5, <2>6, <2>8, <2>9 DEF NetOf
<1> QED
  BY <1>5, <1>6

(* Where no duties overlap, a duty was flown on reduced rest when the last *)
(* release of a duty before it was that long before its report.            *)
LEMMA ReducedIsNext ==
  ASSUME NEW l, Readable(l), NoOverlap(l), NEW d \in Duties(l)
  PROVE  Reduced(l, d) <=>
           \E e \in Duties(l) :
             /\ l[e].ts < Report(l, d)
             /\ ~ \E f \in Duties(l) : Report(l, e) < Report(l, f) /\ Report(l, f) < Report(l, d)
             /\ Report(l, d) - l[e].ts >= ReducedFloor /\ Report(l, d) - l[e].ts < MinRest
<1> DEFINE B == DutiesBefore(l, d)
           p == Previous(l, d)
<1>1. \A e \in Duties(l) : /\ Report(l, e) \in Int /\ l[e].ts \in Int /\ Report(l, e) < l[e].ts
                           /\ e \in Int
  <2>1. \A e \in Duties(l) : e \in DOMAIN l
    BY EntriesFinite
  <2> QED
    BY <2>1 DEF Readable
<1>2. \A e \in Duties(l) : e # d =>
        (ReportedBefore(l, e, d) <=> l[e].ts < Report(l, d))
  <2> SUFFICES ASSUME NEW e \in Duties(l), e # d
               PROVE  ReportedBefore(l, e, d) <=> l[e].ts < Report(l, d)
    OBVIOUS
  <2>1. l[e].ts < Report(l, d) \/ l[d].ts < Report(l, e)
    BY DEF NoOverlap
  <2> QED
    BY <1>1, <2>1 DEF ReportedBefore
<1>3. ~ReportedBefore(l, d, d) /\ ~(l[d].ts < Report(l, d))
  BY <1>1 DEF ReportedBefore, Earlier
<1>4. B = {e \in Duties(l) : l[e].ts < Report(l, d)}
  BY <1>2, <1>3 DEF DutiesBefore
<1>5. ASSUME B # {}
      PROVE  /\ p \in B /\ p \in Duties(l)
             /\ \A f \in B \ {p} : Report(l, f) < Report(l, p)
  <2>1. p \in B /\ \A f \in B \ {p} : ReportedBefore(l, f, p)
    BY <1>5, PreviousReported
  <2>2. ASSUME NEW f \in B \ {p} PROVE Report(l, f) < Report(l, p)
    <3>1. f \in Duties(l) /\ p \in Duties(l) /\ f # p /\ ReportedBefore(l, f, p)
      BY <1>4, <2>1
    <3>2. l[f].ts < Report(l, p) \/ l[p].ts < Report(l, f)
      BY <3>1 DEF NoOverlap
    <3>3. Report(l, f) <= Report(l, p)
      BY <1>1, <3>1 DEF ReportedBefore
    <3> QED
      BY <1>1, <3>1, <3>2, <3>3
  <2> QED
    BY <1>4, <2>1, <2>2
<1>6. ASSUME Reduced(l, d)
      PROVE  /\ p \in Duties(l) /\ l[p].ts < Report(l, d)
             /\ ~ \E f \in Duties(l) : Report(l, p) < Report(l, f) /\ Report(l, f) < Report(l, d)
             /\ Report(l, d) - l[p].ts >= ReducedFloor /\ Report(l, d) - l[p].ts < MinRest
  <2>1. B # {} /\ Report(l, d) - l[p].ts >= ReducedFloor /\ Report(l, d) - l[p].ts < MinRest
    BY <1>6 DEF Reduced, Gap
  <2>2. p \in Duties(l) /\ l[p].ts < Report(l, d)
    BY <1>4, <1>5, <2>1
  <2>3. ASSUME NEW f \in Duties(l), Report(l, p) < Report(l, f), Report(l, f) < Report(l, d)
        PROVE  FALSE
    <3>1. f # d /\ f # p
      BY <1>1, <2>2, <2>3
    <3>2. l[f].ts < Report(l, d) \/ l[d].ts < Report(l, f)
      BY <3>1 DEF NoOverlap
    <3>3. f \in B \ {p}
      BY <1>1, <1>4, <2>3, <3>1, <3>2
    <3>4. Report(l, f) < Report(l, p)
      BY <1>5, <2>1, <3>3
    <3> QED
      BY <1>1, <2>2, <2>3, <3>4
  <2> QED
    BY <2>1, <2>2, <2>3
<1>7. ASSUME NEW e \in Duties(l), l[e].ts < Report(l, d),
             ~ \E f \in Duties(l) : Report(l, e) < Report(l, f) /\ Report(l, f) < Report(l, d),
             Report(l, d) - l[e].ts >= ReducedFloor, Report(l, d) - l[e].ts < MinRest
      PROVE  Reduced(l, d)
  <2>1. e \in B
    BY <1>4, <1>7
  <2>2. p \in B /\ p \in Duties(l) /\ l[p].ts < Report(l, d)
    BY <1>4, <1>5, <2>1
  <2>3. e = p
    <3> SUFFICES ASSUME e # p PROVE FALSE
      OBVIOUS
    <3>1. Report(l, e) < Report(l, p)
      BY <1>5, <2>1
    <3>2. Report(l, p) < Report(l, d)
      BY <1>1, <2>2
    <3> QED
      BY <1>7, <2>2, <3>1, <3>2
  <2> QED
    BY <1>7, <2>1, <2>3 DEF Reduced, Gap
<1> QED
  BY <1>6, <1>7

(* The largest net of one log is reached in the other: by what comes at or *)
(* after the first duty of the part that reaches it.                       *)
LEMMA OwedNotLowered ==
  ASSUME NEW l, NEW m, NEW b, Reordered(l, m, b), NEW h, Matched(l, m, h)
  PROVE  CompensatoryOwed(l) <= CompensatoryOwed(m)
<1>0. Readable(l) /\ Readable(m)
  BY DEF Reordered
<1>1. PICK U : UpClosed(l, U) /\ CompensatoryOwed(l) = NetOf(l, U)
  BY <1>0, OwedIsLargest
<1>2. U \subseteq StreamItems(l)
  BY <1>1 DEF UpClosed
<1> DEFINE Since(t) == \E u \in U \cap Duties(l) : StreamTime(l, u) <= t
<1>3. PICK K : K = {i \in StreamItems(l) : /\ i \in Rests(l) \/ i \in ReducedDuties(l)
                                          /\ Since(StreamTime(l, i))}
  OBVIOUS
<1>4. PICK V : V = {j \in StreamItems(m) : Since(StreamTime(m, j))}
  OBVIOUS
<1>5. PICK B : B = [i \in K |-> IF i \in Rests(l) THEN b[i] ELSE h[i]]
  OBVIOUS
<1>6. PICK J : J = {B[i] : i \in K}
  OBVIOUS
<1>7. \A i \in StreamItems(l) :
        /\ i \in DOMAIN l /\ StreamTime(l, i) \in Int
        /\ (i \in Duties(l) \/ i \in Rests(l)) /\ ~(i \in Duties(l) /\ i \in Rests(l))
  BY <1>0, StreamReadable
<1>8. \A j \in StreamItems(m) :
        /\ j \in DOMAIN m /\ StreamTime(m, j) \in Int
        /\ (j \in Duties(m) \/ j \in Rests(m)) /\ ~(j \in Duties(m) /\ j \in Rests(m))
  BY <1>0, StreamReadable
<1>9. /\ \A i \in StreamItems(l) : Nets(l)[i] \in Int
      /\ \A j \in StreamItems(m) : Nets(m)[j] \in Int
      /\ IsFiniteSet(U) /\ IsFiniteSet(K) /\ IsFiniteSet(V)
      /\ NetOf(l, U) \in Int /\ NetOf(l, K) \in Int /\ NetOf(m, V) \in Int
  <2>1. K \in SUBSET StreamItems(l) /\ V \in SUBSET StreamItems(m)
    BY <1>3, <1>4
  <2> QED
    BY <1>0, <1>2, <2>1, NetsTyped
<1>10. NetOf(l, U) <= NetOf(l, K)
  <2>1. ASSUME NEW i \in U \ K PROVE Nets(l)[i] <= 0
    <3>1. i \in StreamItems(l)
      BY <1>2
    <3>2. CASE i \in Rests(l)
      BY <1>0, <3>1, <3>2, NetByKind
    <3>3. CASE i \in Duties(l)
      <4>1. Since(StreamTime(l, i))
        BY <1>7, <3>1, <3>3
      <4>2. i \notin ReducedDuties(l)
        BY <1>3, <3>1, <4>1
      <4> QED
        BY <1>0, <3>1, <3>3, <4>2, NetByKind
    <3> QED
      BY <1>7, <3>1, <3>2, <3>3
  <2>2. ASSUME NEW i \in K \ U PROVE Nets(l)[i] >= 0
    <3>1. i \in StreamItems(l) /\ (i \in Rests(l) \/ i \in ReducedDuties(l))
      BY <1>3
    <3>2. PICK u \in U \cap Duties(l) : StreamTime(l, u) <= StreamTime(l, i)
      BY <1>3
    <3>3. i \notin Rests(l)
      <4>1. ASSUME i \in Rests(l) PROVE StreamBefore(l, u, i)
        <5>1. /\ i \notin Duties(l) /\ u \in Duties(l)
              /\ StreamTime(l, u) \in Int /\ StreamTime(l, i) \in Int
          BY <1>2, <1>7, <3>1, <4>1
        <5> QED
          BY <3>2, <5>1 DEF StreamBefore
      <4>2. ASSUME StreamBefore(l, u, i) PROVE i \in U
        BY <1>1, <3>1, <4>2 DEF UpClosed
      <4> QED
        BY <4>1, <4>2
    <3> QED
      BY <1>0, <3>1, <3>3, NetByKind
  <2>3. \A i \in U \cup K : Nets(l)[i] \in Int
    BY <1>2, <1>3, <1>9
  <2>4. SumFunctionOnSet(Nets(l), U) <= SumFunctionOnSet(Nets(l), K)
    BY <1>9, <2>1, <2>2, <2>3, SumImproves
  <2> QED
    BY <2>4 DEF NetOf
<1>11. ASSUME NEW i \in K
       PROVE  /\ i \in StreamItems(l) /\ i \in DOMAIN l
              /\ B[i] \in V /\ Nets(m)[B[i]] = Nets(l)[i]
              /\ i \in Rests(l) => B[i] = b[i] /\ B[i] \in Rests(m)
              /\ i \notin Rests(l) => B[i] = h[i] /\ B[i] \in ReducedDuties(m) /\ i \in ReducedDuties(l)
  <2>1. /\ i \in StreamItems(l) /\ i \in DOMAIN l
        /\ i \in Rests(l) \/ i \in ReducedDuties(l)
        /\ Since(StreamTime(l, i))
    BY <1>3, <1>7
  <2>2. CASE i \in Rests(l)
    <3>1. B[i] = b[i]
      BY <1>5, <2>2
    <3>2. /\ b[i] \in StreamItems(m) /\ b[i] \in Rests(m) /\ m[b[i]] = l[i]
          /\ StreamTime(m, b[i]) = StreamTime(l, i)
      BY <2>1, <2>2, ReorderedFacts
    <3>3. Since(StreamTime(m, b[i]))
      BY <2>1, <3>2, Zenon
    <3>4. b[i] \in V
      BY <1>4, <3>2, <3>3
    <3>5. Nets(m)[b[i]] = Nets(l)[i]
      BY <1>0, <2>1, <2>2, <3>2, NetByKind
    <3> QED
      BY <2>1, <2>2, <3>1, <3>2, <3>4, <3>5
  <2>3. CASE i \notin Rests(l)
    <3>1. B[i] = h[i] /\ i \in ReducedDuties(l)
      BY <1>5, <2>1, <2>3
    <3>2. /\ h[i] \in ReducedDuties(m) /\ Report(m, h[i]) = Report(l, i)
          /\ Shortfall(m, h[i]) = Shortfall(l, i)
      BY <3>1 DEF Matched
    <3>3. /\ h[i] \in StreamItems(m) /\ h[i] \in Duties(m) /\ i \in Duties(l)
      BY <1>0, <3>1, <3>2, ReducedOrdered
    <3>4. StreamTime(m, h[i]) = StreamTime(l, i)
      BY <3>2, <3>3 DEF StreamTime
    <3>5. Since(StreamTime(m, h[i]))
      BY <2>1, <3>4, Zenon
    <3>6. h[i] \in V
      BY <1>4, <3>3, <3>5
    <3>7. Nets(m)[h[i]] = Nets(l)[i]
      BY <1>0, <2>1, <3>1, <3>2, <3>3, NetByKind
    <3> QED
      BY <2>1, <2>3, <3>1, <3>2, <3>6, <3>7
  <2> QED
    BY <2>2, <2>3
<1> HIDE DEF Since
<1>12. \A i, j \in K : B[i] = B[j] => i = j
  <2> SUFFICES ASSUME NEW i \in K, NEW j \in K, B[i] = B[j] PROVE i = j
    OBVIOUS
  <2>1. \A e \in ReducedDuties(m) : e \notin Rests(m)
    BY <1>0, ReducedOrdered
  <2>2. i \in Rests(l) <=> j \in Rests(l)
    BY <1>11, <2>1
  <2>3. CASE i \in Rests(l)
    <3>1. b[i] = b[j] /\ i \in DOMAIN l /\ j \in DOMAIN l
      BY <1>11, <2>2, <2>3
    <3> QED
      BY <3>1 DEF Reordered
  <2>4. CASE i \notin Rests(l)
    <3>1. h[i] = h[j] /\ i \in ReducedDuties(l) /\ j \in ReducedDuties(l)
      BY <1>11, <2>2, <2>4
    <3> QED
      BY <3>1 DEF Matched
  <2> QED
    BY <2>3, <2>4
<1>13. NetOf(m, J) = NetOf(l, K) /\ J \in SUBSET V /\ IsFiniteSet(J)
  <2>1. J \in SUBSET V
    BY <1>6, <1>11
  <2>2. IsFiniteSet(J)
    BY <1>9, <2>1, FS_Subset
  <2>3. (\A i \in K : Nets(l)[i] \in Int) /\ (\A i \in K : Nets(m)[B[i]] = Nets(l)[i])
    BY <1>9, <1>11
  <2>4. SumFunctionOnSet(Nets(m), {B[i] : i \in K}) = SumFunctionOnSet(Nets(l), K)
    BY <1>9, <1>12, <2>3, SumCorrespond
  <2> QED
    BY <1>6, <2>1, <2>2, <2>4 DEF NetOf
<1>14. NetOf(m, J) <= NetOf(m, V)
  <2>1. ASSUME NEW j \in V \ J PROVE Nets(m)[j] >= 0
    <3>1. j \in StreamItems(m) /\ j \in DOMAIN m /\ Since(StreamTime(m, j))
      BY <1>4, <1>8
    <3>2. j \notin Rests(m)
      <4> SUFFICES ASSUME j \in Rests(m) PROVE FALSE
        OBVIOUS
      <4>1. PICK i \in DOMAIN l : b[i] = j
        BY <3>1, ReorderedFacts
      <4>2. i \in Rests(l) /\ i \in StreamItems(l) /\ StreamTime(l, i) = StreamTime(m, j)
        BY <3>1, <4>1, ReorderedFacts
      <4>3. Since(StreamTime(l, i))
        BY <3>1, <4>2, Zenon
      <4>4. i \in K
        BY <1>3, <4>2, <4>3
      <4>5. B[i] = j
        BY <1>11, <4>1, <4>2, <4>4
      <4> QED
        BY <1>6, <4>4, <4>5
    <3>3. j \in Duties(m)
      BY <1>8, <3>1, <3>2
    <3> QED
      BY <1>0, <3>1, <3>3, NetByKind
  <2>2. \A j \in V : Nets(m)[j] \in Int
    BY <1>4, <1>9
  <2>3. SumFunctionOnSet(Nets(m), J) <= SumFunctionOnSet(Nets(m), V)
    BY <1>9, <1>13, <2>1, <2>2, SumMonotonic
  <2> QED
    BY <2>3 DEF NetOf
<1>15. UpClosed(m, V)
  <2>1. ASSUME NEW i \in V, NEW j \in StreamItems(m), StreamBefore(m, i, j)
        PROVE  j \in V
    <3>1. /\ i \in StreamItems(m) /\ StreamTime(m, i) <= StreamTime(m, j)
          /\ StreamTime(m, i) \in Int /\ StreamTime(m, j) \in Int
      BY <1>4, <1>8, <2>1 DEF StreamBefore
    <3>2. PICK u \in U \cap Duties(l) : StreamTime(l, u) <= StreamTime(m, i)
      BY <1>4 DEF Since
    <3>3. StreamTime(l, u) \in Int
      BY <1>2, <1>7
    <3>4. StreamTime(l, u) <= StreamTime(m, j)
      BY <3>1, <3>2, <3>3
    <3>5. Since(StreamTime(m, j))
      BY <3>4 DEF Since
    <3> QED
      BY <1>4, <3>5
  <2> QED
    BY <1>4, <2>1 DEF UpClosed
<1>16. NetOf(m, V) <= CompensatoryOwed(m)
  <2>1. CompensatoryOwed(m) >= NetOf(m, V)
    BY <1>0, <1>15, OwedIsLargest
  <2>2. CompensatoryOwed(m) \in Int
    BY <1>0, OpenDeficitsOK, NothingOwed DEF CompensatoryOwed
  <2> QED
    BY <1>9, <2>1, <2>2
<1>17. CompensatoryOwed(m) \in Int
  BY <1>0, OpenDeficitsOK, NothingOwed DEF CompensatoryOwed
<1> QED
  BY <1>1, <1>9, <1>10, <1>13, <1>14, <1>16, <1>17

LEMMA OwedAlike ==
  ASSUME NEW l, NEW m, NEW b, Reordered(l, m, b)
  PROVE  CompensatoryOwed(l) = CompensatoryOwed(m)
<1>0. Readable(l) /\ Readable(m)
  BY DEF Reordered
<1>1. PICK h : Matched(l, m, h)
  BY ReducedMatched
<1>2. PICK c : Reordered(m, l, c)
  BY ReorderedBack
<1>3. PICK g : Matched(m, l, g)
  BY <1>2, ReducedMatched
<1>4. CompensatoryOwed(l) <= CompensatoryOwed(m)
  BY <1>1, OwedNotLowered
<1>5. CompensatoryOwed(m) <= CompensatoryOwed(l)
  BY <1>2, <1>3, OwedNotLowered
<1>6. CompensatoryOwed(l) \in Int /\ CompensatoryOwed(m) \in Int
  BY <1>0, OpenDeficitsOK, NothingOwed DEF CompensatoryOwed
<1> QED
  BY <1>4, <1>5, <1>6

LEMMA DeficitsAlike ==
  ASSUME NEW l, NEW m, Readable(l), Readable(m), NEW h, Matched(l, m, h),
         NEW d \in ReducedDuties(l)
  PROVE  DeficitsSince(m, h[d]) = DeficitsSince(l, d) /\ DeficitsSince(l, d) \in Int
<1>1. PICK S : S = {e \in ReducedDuties(l) : e = d \/ ReportedBefore(l, d, e)}
  OBVIOUS
<1>2. PICK T : T = {e \in ReducedDuties(m) : e = h[d] \/ ReportedBefore(m, h[d], e)}
  OBVIOUS
<1>3. PICK f : f = [e \in S |-> MinRest - Gap(l, e)]
  OBVIOUS
<1>4. PICK g : g = [e \in T |-> MinRest - Gap(m, e)]
  OBVIOUS
<1>5. DeficitsSince(l, d) = SumFunctionOnSet(f, S) /\ DeficitsSince(m, h[d]) = SumFunctionOnSet(g, T)
  <2>1. DOMAIN f = S /\ DOMAIN g = T
    BY <1>3, <1>4
  <2>2. DeficitsSince(l, d) = SumFunctionOnSet(f, DOMAIN f)
    BY <1>1, <1>3, Zenon DEF DeficitsSince, SumFunction
  <2>3. DeficitsSince(m, h[d]) = SumFunctionOnSet(g, DOMAIN g)
    BY <1>2, <1>4, Zenon DEF DeficitsSince, SumFunction
  <2> QED
    BY <2>1, <2>2, <2>3
<1>6. IsFiniteSet(S) /\ \A e \in S : e \in ReducedDuties(l) /\ f[e] = Shortfall(l, e) /\ f[e] \in Int
  <2>1. S \subseteq ReducedDuties(l)
    BY <1>1
  <2>2. IsFiniteSet(S)
    BY <2>1, ReducedOrdered, FS_Subset
  <2>3. \A e \in S : Shortfall(l, e) \in Int
    BY <2>1, ReducedOrdered
  <2> QED
    BY <1>3, <2>1, <2>2, <2>3 DEF Shortfall
<1>7. {h[e] : e \in S} = T
  <2>1. ASSUME NEW e \in S PROVE h[e] \in T
    <3>1. e \in ReducedDuties(l) /\ (e = d \/ ReportedBefore(l, d, e))
      BY <1>1
    <3>2. h[e] \in ReducedDuties(m) /\ (e = d \/ ReportedBefore(m, h[d], h[e]))
      BY <3>1 DEF Matched
    <3> QED
      BY <1>2, <3>2
  <2>2. ASSUME NEW j \in T PROVE \E e \in S : h[e] = j
    <3>1. j \in ReducedDuties(m) /\ (j = h[d] \/ ReportedBefore(m, h[d], j))
      BY <1>2
    <3>2. PICK e \in ReducedDuties(l) : h[e] = j
      BY <3>1 DEF Matched
    <3>3. e = d \/ ReportedBefore(l, d, e)
      BY <3>1, <3>2 DEF Matched
    <3> QED
      BY <1>1, <3>2, <3>3
  <2> QED
    BY <2>1, <2>2
<1>8. \A e \in S : g[h[e]] = f[e]
  <2> SUFFICES ASSUME NEW e \in S PROVE g[h[e]] = f[e]
    OBVIOUS
  <2>1. h[e] \in T /\ Shortfall(m, h[e]) = Shortfall(l, e)
    BY <1>6, <1>7 DEF Matched
  <2> QED
    BY <1>4, <1>6, <2>1 DEF Shortfall
<1>9. \A e, x \in S : h[e] = h[x] => e = x
  BY <1>6 DEF Matched
<1>10. SumFunctionOnSet(g, {h[e] : e \in S}) = SumFunctionOnSet(f, S)
  BY <1>6, <1>8, <1>9, SumCorrespond
<1>11. SumFunctionOnSet(f, S) \in Int
  BY <1>6, SumOfIntegers
<1> QED
  BY <1>5, <1>7, <1>10, <1>11

(* Two lists of open deficits for the same reduced rests, with the same    *)
(* total, begin with the same one.                                         *)
LEMMA OldestAlike ==
  ASSUME NEW l, NEW m, Readable(l), Readable(m), NEW h, Matched(l, m, h),
         NEW open, OpenOK(open), Len(open) # 0,
         NEW from, Backed(l, StreamItems(l), open, from),
         NEW other, OpenOK(other), Len(other) # 0,
         NEW back, Backed(m, StreamItems(m), other, back),
         SumAmounts(open) = SumAmounts(other)
  PROVE  h[from[1]] = back[1] /\ open[1].amount = other[1].amount
<1>1. PICK d : d = from[1]
  OBVIOUS
<1>2. PICK e : e = back[1]
  OBVIOUS
<1>3. /\ Len(open) \in Nat /\ Len(other) \in Nat
      /\ open[1].amount \in Int /\ other[1].amount \in Int
  <2>1. Len(open) \in Nat /\ Len(other) \in Nat
    BY OpenAmounts
  <2>2. 1 \in 1..Len(open) /\ 1 \in 1..Len(other)
    BY <2>1
  <2> QED
    BY <2>1, <2>2, OpenAmounts
<1>4. d \in ReducedDuties(l) /\ e \in ReducedDuties(m)
  <2>1. 1 \in 1..Len(open) /\ 1 \in 1..Len(other)
    BY <1>3
  <2> QED
    BY <1>1, <1>2, <2>1 DEF Backed
<1>5. PICK owed : owed = SumAmounts(open)
  OBVIOUS
<1>6. /\ owed \in Int /\ DeficitsSince(l, d) >= owed
      /\ \A x \in ReducedDuties(l) : ReportedBefore(l, d, x) => DeficitsSince(l, x) < owed
      /\ owed - open[1].amount = DeficitsSince(l, d) - Shortfall(l, d)
  BY <1>1, <1>5, SinceOldest, NothingOwed
<1>7. /\ DeficitsSince(m, e) >= owed
      /\ \A x \in ReducedDuties(m) : ReportedBefore(m, e, x) => DeficitsSince(m, x) < owed
      /\ owed - other[1].amount = DeficitsSince(m, e) - Shortfall(m, e)
  BY <1>2, <1>5, SinceOldest
<1>8. PICK x \in ReducedDuties(l) : h[x] = e
  BY <1>4 DEF Matched
<1>9. /\ DeficitsSince(m, e) = DeficitsSince(l, x) /\ DeficitsSince(l, x) \in Int
      /\ DeficitsSince(m, h[d]) = DeficitsSince(l, d) /\ DeficitsSince(l, d) \in Int
      /\ Shortfall(m, e) = Shortfall(l, x) /\ Shortfall(l, x) \in Int
  <2>1. Shortfall(m, e) = Shortfall(l, x)
    BY <1>8 DEF Matched
  <2>2. Shortfall(l, x) \in Int
    BY ReducedOrdered
  <2> QED
    BY <1>4, <1>8, <2>1, <2>2, DeficitsAlike
<1>10. d = x
  <2>1. ~ReportedBefore(l, d, x)
    BY <1>6, <1>7, <1>9
  <2>2. ~ReportedBefore(l, x, d)
    <3> SUFFICES ASSUME ReportedBefore(l, x, d) PROVE FALSE
      OBVIOUS
    <3>1. h[d] \in ReducedDuties(m) /\ ReportedBefore(m, e, h[d])
      BY <1>4, <1>8 DEF Matched
    <3> QED
      BY <1>6, <1>7, <1>9, <3>1
  <2>3. d # x => ReportedBefore(l, d, x) \/ ReportedBefore(l, x, d)
    <3>1. StrictOrder(Duties(l), Reporting(l, Duties(l)))
      BY DutiesOrdered
    <3>2. d \in Duties(l) /\ x \in Duties(l)
      BY <1>4, ReducedOrdered
    <3> QED
      BY <3>1, <3>2 DEF StrictOrder, Reporting
  <2> QED
    BY <2>1, <2>2, <2>3
<1>11. open[1].amount = other[1].amount
  <2>1. DeficitsSince(m, e) = DeficitsSince(l, d) /\ Shortfall(m, e) = Shortfall(l, d)
    BY <1>9, <1>10, Zenon
  <2>2. PICK s : s = DeficitsSince(l, d)
    OBVIOUS
  <2>3. PICK t : t = Shortfall(l, d)
    OBVIOUS
  <2>4. s \in Int /\ t \in Int
    BY <1>9, <1>10, <2>2, <2>3, Zenon
  <2>5. owed - open[1].amount = s - t /\ owed - other[1].amount = s - t
    BY <1>6, <1>7, <2>1, <2>2, <2>3, Zenon
  <2> QED
    BY <1>3, <1>6, <2>4, <2>5
<1> QED
  BY <1>1, <1>2, <1>8, <1>10, <1>11

(* The open deficits do not depend on the order of recording.              *)
LEMMA OpenAlike ==
  ASSUME NEW l, NEW m, NEW b, Reordered(l, m, b)
  PROVE  OpenDeficits(l) = OpenDeficits(m)
<1>0. Readable(l) /\ Readable(m)
  BY DEF Reordered
<1>1. PICK open : open = OpenDeficits(l)
  OBVIOUS
<1>2. PICK other : other = OpenDeficits(m)
  OBVIOUS
<1>3. OpenOK(open) /\ OpenOK(other) /\ SumAmounts(open) = SumAmounts(other)
  BY <1>0, <1>1, <1>2, OpenDeficitsOK, OwedAlike DEF CompensatoryOwed
<1>4. PICK from : Backed(l, StreamItems(l), open, from)
  BY <1>0, <1>1, DeficitsBacked
<1>5. PICK back : Backed(m, StreamItems(m), other, back)
  BY <1>0, <1>2, DeficitsBacked
<1>6. PICK h : Matched(l, m, h)
  BY ReducedMatched
<1>7. PICK n : n = Len(open)
  OBVIOUS
<1>8. PICK k : k = Len(other)
  OBVIOUS
<1>9. /\ n \in Nat /\ k \in Nat /\ DOMAIN open = 1..n /\ DOMAIN other = 1..k
      /\ \A i \in 1..n : open[i] \in Deficit
      /\ \A i \in 1..k : other[i] \in Deficit
      /\ n = 0 <=> k = 0
  <2>1. n \in Nat /\ DOMAIN open = 1..n /\ \A i \in 1..n : open[i] \in Deficit
    BY <1>3, <1>7, OpenAmounts
  <2>2. k \in Nat /\ DOMAIN other = 1..k /\ \A i \in 1..k : other[i] \in Deficit
    BY <1>3, <1>8, OpenAmounts
  <2>3. n = 0 <=> k = 0
    BY <1>3, <1>7, <1>8, NothingOwed
  <2> QED
    BY <2>1, <2>2, <2>3
<1>10. CASE n = 0
  <2>1. open \in Seq(Deficit) /\ other \in Seq(Deficit) /\ Len(open) = 0 /\ Len(other) = 0
    BY <1>3, <1>7, <1>8, <1>9, <1>10 DEF OpenOK
  <2>2. open = <<>> /\ other = <<>>
    BY <2>1
  <2> QED
    BY <1>1, <1>2, <2>2
<1>11. CASE n # 0
  <2>1. h[from[1]] = back[1] /\ open[1].amount = other[1].amount
    BY <1>0, <1>3, <1>4, <1>5, <1>6, <1>7, <1>8, <1>9, <1>11, OldestAlike
  <2>2. 1 \in 1..n /\ 1 \in 1..k
    BY <1>9, <1>11
  <2>3. \A i \in 1..n :
          /\ from[i] \in ReducedDuties(l) /\ from[i] \in StreamItems(l)
          /\ open[i].deadline = Report(l, from[i]) + CompensatoryWindow
          /\ i # 1 => open[i].amount = Shortfall(l, from[i])
    BY <1>4, <1>7 DEF Backed
  <2>4. \A i \in 1..k :
          /\ back[i] \in ReducedDuties(m) /\ back[i] \in StreamItems(m)
          /\ other[i].deadline = Report(m, back[i]) + CompensatoryWindow
          /\ i # 1 => other[i].amount = Shortfall(m, back[i])
    BY <1>5, <1>8 DEF Backed
  <2>5. \A d \in ReducedDuties(l) : Report(l, d) \in Int
    BY <1>0, ReducedOrdered
  <2>6. \A d \in ReducedDuties(m) : Report(m, d) \in Int
    BY <1>0, ReducedOrdered
  <2>7. PICK f : f = [i \in 1..n |-> open[i].deadline]
    OBVIOUS
  <2>8. PICK g : g = [i \in 1..k |-> other[i].deadline]
    OBVIOUS
  <2>9. \A i \in 1..n : f[i] = Report(l, from[i]) + CompensatoryWindow /\ f[i] \in Int
    BY <2>3, <2>5, <2>7 DEF CompensatoryWindow
  <2>10. \A i \in 1..k : g[i] = Report(m, back[i]) + CompensatoryWindow /\ g[i] \in Int
    BY <2>4, <2>6, <2>8 DEF CompensatoryWindow
  <2>11. ASSUME NEW i \in 1..n, NEW j \in 1..n, i < j PROVE f[i] < f[j]
    <3>1. ReportedBefore(l, from[i], from[j])
      BY <1>4, <1>7, <2>11 DEF Backed
    <3>2. Report(l, from[i]) < Report(l, from[j])
      BY <1>0, <2>3, <3>1, ReducedApart
    <3> QED
      BY <2>3, <2>5, <2>9, <3>2 DEF CompensatoryWindow
  <2>12. ASSUME NEW i \in 1..k, NEW j \in 1..k, i < j PROVE g[i] < g[j]
    <3>1. ReportedBefore(m, back[i], back[j])
      BY <1>5, <1>8, <2>12 DEF Backed
    <3>2. Report(m, back[i]) < Report(m, back[j])
      BY <1>0, <2>4, <3>1, ReducedApart
    <3> QED
      BY <2>4, <2>6, <2>10, <3>2 DEF CompensatoryWindow
  <2>13. ASSUME NEW i \in 1..n PROVE \E j \in 1..k : g[j] = f[i]
    <3>1. PICK d : d = h[from[i]]
      OBVIOUS
    <3>2. d \in ReducedDuties(m) /\ Report(m, d) = Report(l, from[i])
      BY <1>6, <2>3, <3>1 DEF Matched
    <3>3. d = back[1] \/ ReportedBefore(m, back[1], d)
      <4>1. i = 1 \/ 1 < i
        BY <1>9
      <4>2. i = 1 \/ ReportedBefore(l, from[1], from[i])
        BY <1>4, <1>7, <2>2, <4>1 DEF Backed
      <4> QED
        BY <1>6, <2>1, <2>2, <2>3, <3>1, <4>2 DEF Matched
    <3>4. d \in StreamItems(m)
      BY <1>0, <3>2, ReducedOrdered
    <3>5. PICK j \in 1..k : back[j] = d
      BY <1>5, <1>8, <1>9, <1>11, <2>2, <3>2, <3>3, <3>4 DEF Backed
    <3>6. g[j] = f[i]
      BY <2>9, <2>10, <3>2, <3>5
    <3> QED
      BY <3>6
  <2>14. ASSUME NEW j \in 1..k PROVE \E i \in 1..n : f[i] = g[j]
    <3>1. PICK d \in ReducedDuties(l) : h[d] = back[j]
      BY <1>6, <2>4 DEF Matched
    <3>2. Report(l, d) = Report(m, back[j])
      BY <1>6, <3>1 DEF Matched
    <3>3. d = from[1] \/ ReportedBefore(l, from[1], d)
      <4>1. j = 1 \/ 1 < j
        BY <1>9
      <4>2. j = 1 \/ ReportedBefore(m, back[1], back[j])
        BY <1>5, <1>8, <2>2, <4>1 DEF Backed
      <4> QED
        BY <1>6, <2>1, <2>2, <2>3, <3>1, <4>2 DEF Matched
    <3>4. d \in StreamItems(l)
      BY <1>0, <3>1, ReducedOrdered
    <3>5. PICK i \in 1..n : from[i] = d
      BY <1>4, <1>7, <1>11, <2>2, <3>1, <3>3, <3>4 DEF Backed
    <3>6. f[i] = g[j]
      BY <2>9, <2>10, <3>2, <3>5
    <3> QED
      BY <3>6
  <2>15. n = k /\ \A i \in 1..n : f[i] = g[i]
    <3>1. IncreasingTo(f, n)
      BY <1>9, <2>9, <2>11 DEF IncreasingTo
    <3>2. IncreasingTo(g, k)
      BY <1>9, <2>10, <2>12 DEF IncreasingTo
    <3>3. AllAmong(f, n, g, k) /\ AllAmong(g, k, f, n)
      BY <2>13, <2>14 DEF AllAmong
    <3> QED
      BY <3>1, <3>2, <3>3, OneIncreasingList
  <2>16. ASSUME NEW i \in 1..n PROVE open[i] = other[i]
    <3>1. i \in 1..k /\ open[i].deadline = other[i].deadline
      BY <2>7, <2>8, <2>15
    <3>2. open[i].amount = other[i].amount
      <4>1. CASE i = 1
        BY <2>1, <4>1
      <4>2. CASE i # 1
        <5>1. PICK d : d = h[from[i]]
          OBVIOUS
        <5>2. /\ d \in ReducedDuties(m) /\ Report(m, d) = Report(l, from[i])
              /\ Shortfall(m, d) = Shortfall(l, from[i])
          BY <1>6, <2>3, <5>1 DEF Matched
        <5>3. Report(m, d) = Report(m, back[i])
          BY <2>3, <2>4, <2>5, <2>6, <3>1, <5>2 DEF CompensatoryWindow
        <5>4. d = back[i]
          BY <1>0, <2>4, <3>1, <5>2, <5>3, ReducedApart
        <5> QED
          BY <2>3, <2>4, <3>1, <4>2, <5>2, <5>4
      <4> QED
        BY <4>1, <4>2
    <3>3. open[i] \in Deficit /\ other[i] \in Deficit
      BY <1>9, <3>1
    <3> QED
      BY <3>1, <3>2, <3>3 DEF Deficit
  <2>17. open \in Seq(Deficit) /\ other \in Seq(Deficit)
    BY <1>3 DEF OpenOK
  <2>18. open = other
    <3>1. open = [i \in 1..n |-> open[i]]
      BY <1>7, <2>17
    <3>2. other = [i \in 1..k |-> other[i]]
      BY <1>8, <2>17
    <3>3. other = [i \in 1..n |-> other[i]]
      BY <2>15, <3>2, Zenon
    <3> QED
      BY <2>16, <3>1, <3>3, Zenon
  <2> QED
    BY <1>1, <1>2, <2>18
<1> QED
  BY <1>10, <1>11
(* Nor does the streak.                                                    *)
LEMMA StreakNotShorter ==
  ASSUME NEW l, NEW m, NEW b, Reordered(l, m, b), NEW ref \in Int
  PROVE  EarlyStreak(l, ref) <= EarlyStreak(m, ref)
<1>0. Readable(l) /\ Readable(m)
  BY DEF Reordered
<1>1. Duties(l) \subseteq DOMAIN l /\ Duties(m) \subseteq DOMAIN m /\ Rests(m) \subseteq DOMAIN m
  BY <1>0, EntriesFinite
<1>2. PICK S : S = TrailingRun(l, ref)
  OBVIOUS
<1>3. PICK T : T = TrailingRun(m, ref)
  OBVIOUS
<1>4. IsFiniteSet(S) /\ IsFiniteSet(T)
  <2>1. S \subseteq DOMAIN l /\ T \subseteq DOMAIN m
    BY <1>1, <1>2, <1>3 DEF TrailingRun
  <2> QED
    BY <1>0, <2>1, EntriesFinite, FS_Subset
<1>5. ASSUME NEW d \in S PROVE d \in DOMAIN l /\ b[d] \in T
  <2>1. /\ d \in Duties(l) /\ Report(l, d) < ref /\ IsEarly(Report(l, d))
        /\ ~ \E e \in Duties(l) :
               ~IsEarly(Report(l, e)) /\ Report(l, e) < ref /\ Report(l, e) > Report(l, d)
        /\ ~ \E r \in Rests(l) :
               l[r].duration >= ResetRest /\ l[r].ts < ref /\ l[r].ts >= Report(l, d)
    BY <1>2 DEF TrailingRun
  <2>2. d \in DOMAIN l /\ b[d] \in Duties(m) /\ Report(m, b[d]) = Report(l, d)
    BY <1>1, <2>1, ReorderedFacts
  <2>3. ~ \E e \in Duties(m) :
            ~IsEarly(Report(m, e)) /\ Report(m, e) < ref /\ Report(m, e) > Report(m, b[d])
    <3> SUFFICES ASSUME NEW e \in Duties(m), ~IsEarly(Report(m, e)), Report(m, e) < ref,
                        Report(m, e) > Report(m, b[d])
                 PROVE  FALSE
      OBVIOUS
    <3>1. PICK i \in DOMAIN l : b[i] = e
      BY <1>1, ReorderedFacts
    <3>2. i \in Duties(l) /\ Report(m, e) = Report(l, i)
      BY <3>1, ReorderedFacts
    <3> QED
      BY <2>1, <2>2, <3>2
  <2>4. ~ \E r \in Rests(m) :
            m[r].duration >= ResetRest /\ m[r].ts < ref /\ m[r].ts >= Report(m, b[d])
    <3> SUFFICES ASSUME NEW r \in Rests(m), m[r].duration >= ResetRest, m[r].ts < ref,
                        m[r].ts >= Report(m, b[d])
                 PROVE  FALSE
      OBVIOUS
    <3>1. PICK i \in DOMAIN l : b[i] = r
      BY <1>1, ReorderedFacts
    <3>2. i \in Rests(l) /\ m[r] = l[i]
      BY <3>1, ReorderedFacts
    <3> QED
      BY <2>1, <2>2, <3>2
  <2> QED
    BY <1>3, <2>1, <2>2, <2>3, <2>4 DEF TrailingRun
<1>6. PICK f : f = [d \in S |-> b[d]]
  OBVIOUS
<1>7. f \in Injection(S, T)
  <2>1. f \in [S -> T]
    BY <1>5, <1>6
  <2>2. \A x, y \in S : f[x] = f[y] => x = y
    BY <1>5, <1>6 DEF Reordered
  <2> QED
    BY <2>1, <2>2 DEF Injection, IsInjective
<1>8. Cardinality(S) <= Cardinality(T)
  BY <1>4, <1>7, FS_Injection DEF ExistsInjection
<1> QED
  BY <1>0, <1>2, <1>3, <1>8, StreakLength

LEMMA StreakAlike ==
  ASSUME NEW l, NEW m, NEW b, Reordered(l, m, b), NEW ref \in Int
  PROVE  EarlyStreak(l, ref) = EarlyStreak(m, ref)
<1>0. Readable(l) /\ Readable(m)
  BY DEF Reordered
<1>1. PICK c : Reordered(m, l, c)
  BY ReorderedBack
<1>2. EarlyStreak(l, ref) <= EarlyStreak(m, ref) /\ EarlyStreak(m, ref) <= EarlyStreak(l, ref)
  BY <1>1, StreakNotShorter
<1>3. EarlyStreak(l, ref) \in Int /\ EarlyStreak(m, ref) \in Int
  <2>1. TrailingRun(l, ref) \subseteq DOMAIN l /\ TrailingRun(m, ref) \subseteq DOMAIN m
    BY <1>0, EntriesFinite DEF TrailingRun
  <2>2. IsFiniteSet(TrailingRun(l, ref)) /\ IsFiniteSet(TrailingRun(m, ref))
    BY <1>0, <2>1, EntriesFinite, FS_Subset
  <2> QED
    BY <1>0, <2>2, StreakLength, FS_CardinalityType
<1> QED
  BY <1>2, <1>3

(* An extended duty and an AUGMENTED rest that come together are recorded  *)
(* in the same order in both logs.                                         *)
ContendersKept(l, b) ==
  \A i, j \in DOMAIN l : Owes(l, i) /\ Clears(l, j) /\ l[i].ts = l[j].ts => (i < j <=> b[i] < b[j])

LEMMA StillOwed ==
  ASSUME NEW l, NEW m, NEW b, Reordered(l, m, b), ContendersKept(l, b), OwesAugmentedRest(l)
  PROVE  OwesAugmentedRest(m)
<1>0. Readable(l) /\ Readable(m)
  BY DEF Reordered
<1>1. PICK d \in DOMAIN l : Owes(l, d) /\ \A r \in DOMAIN l : Clears(l, r) => ~Earlier(l, d, r)
  BY <1>0, OwedForUncleared
<1>2. b[d] \in DOMAIN m /\ m[b[d]] = l[d] /\ Owes(m, b[d])
  BY <1>1, ReorderedFacts DEF Owes
<1>3. ASSUME NEW r \in DOMAIN m, Clears(m, r) PROVE ~Earlier(m, b[d], r)
  <2>1. PICK q \in DOMAIN l : b[q] = r
    BY ReorderedFacts
  <2>2. m[r] = l[q] /\ Clears(l, q)
    BY <1>3, <2>1, ReorderedFacts DEF Clears
  <2>3. ~Earlier(l, d, q)
    BY <1>1, <2>2
  <2>4. l[d].ts = l[q].ts => (d < q <=> b[d] < r)
    BY <1>1, <2>1, <2>2 DEF ContendersKept
  <2> QED
    BY <1>2, <2>2, <2>3, <2>4 DEF Earlier
<1> QED
  BY <1>0, <1>2, <1>3, OwedForUncleared

(* Swapping two entries recorded one after the other is such a reordering, *)
(* and swapping them again undoes it.                                      *)
LEMMA SwapReorders ==
  ASSUME NEW l, LogTypeOK(l), NEW k \in 1..(Len(l) - 1)
  PROVE  /\ LogTypeOK(Swapped(l, k))
         /\ k \in 1..(Len(Swapped(l, k)) - 1) /\ Swapped(Swapped(l, k), k) = l
         /\ Contend(Swapped(l, k), k, k + 1) => Contend(l, k, k + 1)
         /\ \E b : /\ Reordered(l, Swapped(l, k), b)
                   /\ ~Contend(l, k, k + 1) => ContendersKept(l, b)
<1>1. PICK m : m = Swapped(l, k)
  OBVIOUS
<1>2. PICK b : b = [i \in DOMAIN l |-> IF i = k THEN k + 1 ELSE IF i = k + 1 THEN k ELSE i]
  OBVIOUS
<1>3. Len(l) \in Nat /\ DOMAIN l = 1..Len(l) /\ k \in DOMAIN l /\ k + 1 \in DOMAIN l /\ k \in Nat
  BY DEF LogTypeOK
<1>4. m = [l EXCEPT ![k] = l[k + 1], ![k + 1] = l[k]]
  BY <1>1 DEF Swapped
<1>5. /\ DOMAIN m = DOMAIN l /\ m[k] = l[k + 1] /\ m[k + 1] = l[k]
      /\ \A i \in DOMAIN l : i # k /\ i # k + 1 => m[i] = l[i]
  BY <1>3, <1>4
<1>6. LogTypeOK(m) /\ Len(m) = Len(l)
  BY <1>3, <1>4 DEF LogTypeOK
<1>r. Readable(l) /\ Readable(m)
  BY <1>6, LogReadable
<1>7. Reordered(l, m, b)
  <2>1. \A i \in DOMAIN l : b[i] \in DOMAIN m /\ m[b[i]] = l[i]
    BY <1>2, <1>3, <1>5
  <2>2. \A i, j \in DOMAIN l : b[i] = b[j] => i = j
    BY <1>2, <1>3
  <2>3. \A j \in DOMAIN m : \E i \in DOMAIN l : b[i] = j
    <3> SUFFICES ASSUME NEW j \in DOMAIN m PROVE b[b[j]] = j /\ b[j] \in DOMAIN l
      OBVIOUS
    <3> QED
      BY <1>2, <1>3, <1>5
  <2> QED
    BY <1>r, <2>1, <2>2, <2>3 DEF Reordered
<1>8. Swapped(m, k) = l
  <2>1. PICK o : o = Swapped(m, k)
    OBVIOUS
  <2>2. /\ DOMAIN o = DOMAIN l /\ \A i \in DOMAIN l : o[i] = l[i]
        /\ o = [i \in DOMAIN m |-> o[i]]
    BY <1>3, <1>5, <2>1 DEF Swapped
  <2>3. l = [i \in DOMAIN l |-> l[i]]
    BY DEF LogTypeOK
  <2>4. o = l
    BY <1>5, <2>2, <2>3
  <2> QED
    BY <2>1, <2>4
<1>9. Contend(m, k, k + 1) => Contend(l, k, k + 1)
  BY <1>3, <1>5 DEF Contend, Owes, Clears, Duties, Rests
<1>10. ~Contend(l, k, k + 1) => ContendersKept(l, b)
  <2> SUFFICES ASSUME ~Contend(l, k, k + 1), NEW i \in DOMAIN l, NEW j \in DOMAIN l,
                      Owes(l, i), Clears(l, j), l[i].ts = l[j].ts
               PROVE  i < j <=> b[i] < b[j]
    BY DEF ContendersKept
  <2>1. ~(i = k /\ j = k + 1) /\ ~(i = k + 1 /\ j = k)
    BY DEF Contend
  <2>2. i \in Int /\ j \in Int
    BY <1>3
  <2>3. /\ b[i] = IF i = k THEN k + 1 ELSE IF i = k + 1 THEN k ELSE i
        /\ b[j] = IF j = k THEN k + 1 ELSE IF j = k + 1 THEN k ELSE j
    BY <1>2
  <2> QED
    BY <1>3, <2>1, <2>2, <2>3
<1> QED
  BY <1>1, <1>6, <1>7, <1>8, <1>9, <1>10

LEMMA SwapIrrelevant ==
  ASSUME NEW l, LogTypeOK(l), NEW k \in 1..(Len(l) - 1)
  PROVE  /\ OpenDeficits(Swapped(l, k)) = OpenDeficits(l)
         /\ ~Contend(l, k, k + 1) => OwesAugmentedRest(Swapped(l, k)) = OwesAugmentedRest(l)
         /\ \A t \in AsOfs : EarlyStreak(Swapped(l, k), t) = EarlyStreak(l, t)
<1>1. PICK m : m = Swapped(l, k)
  OBVIOUS
<1>2. PICK b : Reordered(l, m, b) /\ (~Contend(l, k, k + 1) => ContendersKept(l, b))
  BY <1>1, SwapReorders
<1>3. /\ LogTypeOK(m) /\ k \in 1..(Len(m) - 1) /\ Swapped(m, k) = l
      /\ Contend(m, k, k + 1) => Contend(l, k, k + 1)
  BY <1>1, <1>2, SwapReorders
<1>4. PICK c : Reordered(m, l, c) /\ (~Contend(m, k, k + 1) => ContendersKept(m, c))
  <2>1. \E c : /\ Reordered(m, Swapped(m, k), c)
               /\ ~Contend(m, k, k + 1) => ContendersKept(m, c)
    BY <1>3, SwapReorders
  <2> QED
    BY <1>3, <2>1
<1>r. Readable(l) /\ Readable(m)
  BY <1>3, LogReadable
<1>5. OpenDeficits(l) = OpenDeficits(m)
  BY <1>2, OpenAlike
<1>6. \A t \in AsOfs : EarlyStreak(l, t) = EarlyStreak(m, t)
  BY <1>2, StreakAlike, InputsAssumption
<1>7. ASSUME ~Contend(l, k, k + 1) PROVE OwesAugmentedRest(m) = OwesAugmentedRest(l)
  <2>1. OwesAugmentedRest(l) => OwesAugmentedRest(m)
    BY <1>2, <1>7, StillOwed
  <2>2. OwesAugmentedRest(m) => OwesAugmentedRest(l)
    BY <1>3, <1>4, <1>7, StillOwed
  <2>3. OwesAugmentedRest(l) \in BOOLEAN /\ OwesAugmentedRest(m) \in BOOLEAN
    BY <1>r, OwedForUncleared
  <2> QED
    BY <2>1, <2>2, <2>3
<1> QED
  BY <1>1, <1>5, <1>6, <1>7

(* What a crew member owes does not depend on the order in which it was    *)
(* recorded (RestDebt sorts what it reads, compliance.go:316-355), except  *)
(* that ids decide whether an AUGMENTED rest that ends in the minute of an *)
(* extended duty's release clears it (ListEventsForCrew, ORDER BY ts, id). *)
THEOREM RecordingOrderNeverMatters == Spec => []RecordingOrderIrrelevant
<1>1. LogTypeOK(log) => RecordingOrderIrrelevant
  BY SwapIrrelevant DEF RecordingOrderIrrelevant
<1> QED
  BY <1>1, LogTyped, PTL

=============================================================================
