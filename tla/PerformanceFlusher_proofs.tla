---------------------- MODULE PerformanceFlusher_proofs ----------------------
(***************************************************************************)
(* Proofs about PerformanceFlusher, for any threads, names, durations and  *)
(* slots, and however often deliveries fail.                               *)
(*                                                                         *)
(* The properties speak of the buckets and the records; what keeps them    *)
(* true is what a flush in flight holds.  While no two flushes overlap,    *)
(* its snapshot is the exact tally of the records it covers, these are     *)
(* still open, and the period it is sent for separates them from what was  *)
(* recorded since.                                                         *)
(***************************************************************************)
EXTENDS PerformanceFlusher, FiniteSetTheorems, WellFoundedInduction, TLAPS

-----------------------------------------------------------------------------
(***************************************************************************)
(* What a sum over a finite set is: MapThenSumSet of the community modules *)
(* adds up in an order of its own choosing.  Here it is shown to take any  *)
(* element first, and to split over a subset.  The proofs are inductions   *)
(* on the number of elements, each as the search for a smallest            *)
(* counterexample (LeastNatural).                                          *)
(***************************************************************************)

\* The element MapThenSumSet takes next.
Pick(s) == CHOOSE x \in s : TRUE

SumOver(f, S) == MapThenSumSet(LAMBDA x : f[x], S)

\* The subsets of S that have at most n elements.
Small(S, n) == {s \in SUBSET S : Cardinality(s) <= n}

\* g sums f over each set in Q.
Sums(g, f, Q) ==
  g = [s \in Q |-> IF s = {} THEN 0 ELSE f[Pick(s)] + g[s \ {Pick(s)}]]

-----------------------------------------------------------------------------
\* A set of naturals has a least element: what a proof by induction starts
\* from.
LEMMA LeastNatural ==
  ASSUME NEW T, T \subseteq Nat, T # {}
  PROVE  \E x \in T : \A y \in T : x <= y
  <1> DEFINE R == OpToRel(<, Nat)
  <1>1. IsWellFoundedOn(R, Nat)
    BY NatLessThanWellFounded
  <1> HIDE DEF R
  <1>2. PICK x \in T : \A y \in T : ~ (<<y, x>> \in R)
    BY <1>1, WFMin
  <1>3. \A y \in T : ~(y < x)
    BY <1>2 DEF OpToRel, R
  <1> QED
    BY <1>3

\* The subsets of a finite set, and what taking an element leaves.
LEMMA Picked ==
  ASSUME NEW S, IsFiniteSet(S), NEW s \in SUBSET S
  PROVE  /\ IsFiniteSet(s) /\ Cardinality(s) \in Nat
         /\ s # {} => Pick(s) \in s
         /\ \A x \in s : s \ {x} \in SUBSET S /\ Cardinality(s \ {x}) = Cardinality(s) - 1
         /\ Cardinality(s) = 0 <=> s = {}
  <1>1. IsFiniteSet(s) /\ Cardinality(s) \in Nat
    BY FS_Subset, FS_CardinalityType
  <1>2. s # {} => Pick(s) \in s
    BY DEF Pick
  <1>3. \A x \in s : s \ {x} \in SUBSET S /\ Cardinality(s \ {x}) = Cardinality(s) - 1
    BY <1>1, FS_RemoveElement
  <1>4. Cardinality(s) = 0 <=> s = {}
    BY <1>1, FS_EmptySet
  <1> QED
    BY <1>1, <1>2, <1>3, <1>4

\* There are such sums.
LEMMA SumsExist ==
  ASSUME NEW D, NEW f \in [D -> Nat], NEW S \in SUBSET D, IsFiniteSet(S)
  PROVE  \E g \in [SUBSET S -> Nat] : Sums(g, f, SUBSET S)
  <1> DEFINE Ok(n) == \E g \in [Small(S, n) -> Nat] : Sums(g, f, Small(S, n))
             Bad == {n \in Nat : ~Ok(n)}
  <1>1. \A s \in SUBSET S :
          /\ Cardinality(s) \in Nat
          /\ s # {} => Pick(s) \in s
          /\ \A x \in s : s \ {x} \in SUBSET S /\ Cardinality(s \ {x}) = Cardinality(s) - 1
          /\ Cardinality(s) = 0 <=> s = {}
    BY Picked
  <1>2. Ok(0)
    <2> DEFINE g == [s \in Small(S, 0) |-> 0]
    <2>1. \A s \in Small(S, 0) : s = {}
      BY <1>1 DEF Small
    <2>2. g \in [Small(S, 0) -> Nat] /\ Sums(g, f, Small(S, 0))
      BY <2>1 DEF Sums
    <2> QED
      BY <2>2
  <1>3. ASSUME NEW n \in Nat, Ok(n) PROVE Ok(n + 1)
    <2>1. PICK g \in [Small(S, n) -> Nat] : Sums(g, f, Small(S, n))
      BY <1>3
    <2> DEFINE h == [s \in Small(S, n + 1) |->
                       IF s = {} THEN 0 ELSE f[Pick(s)] + g[s \ {Pick(s)}]]
    <2>2. \A s \in Small(S, n + 1) : s # {} =>
            s \ {Pick(s)} \in Small(S, n) /\ s \ {Pick(s)} \in Small(S, n + 1) /\ Pick(s) \in D
      BY <1>1 DEF Small
    <2>3. Small(S, n) \subseteq Small(S, n + 1)
      BY <1>1 DEF Small
    <2>4. h \in [Small(S, n + 1) -> Nat]
      BY <2>1, <2>2
    <2>5. \A s \in Small(S, n) : h[s] = g[s]
      BY <2>1, <2>3 DEF Sums
    <2>6. Sums(h, f, Small(S, n + 1))
      BY <2>2, <2>5 DEF Sums
    <2> QED
      BY <2>4, <2>6
  <1> HIDE DEF Ok
  <1>4. \A n \in Nat : Ok(n)
    <2> SUFFICES ASSUME Bad # {} PROVE FALSE
      OBVIOUS
    <2>1. PICK n \in Bad : \A m \in Bad : n <= m
      BY LeastNatural
    <2>2. n \in Nat /\ n # 0
      BY <1>2
    <2>3. n - 1 \in Nat /\ n - 1 \notin Bad
      BY <2>1, <2>2
    <2>4. Ok((n - 1) + 1)
      BY <1>3, <2>3
    <2> QED
      BY <2>2, <2>4
  <1>5. Small(S, Cardinality(S)) = SUBSET S /\ Cardinality(S) \in Nat
    BY FS_Subset, FS_CardinalityType DEF Small
  <1>6. Ok(Cardinality(S))
    BY <1>4, <1>5
  <1> QED
    BY <1>5, <1>6 DEF Ok

\* The sum over a set is one of them.
LEMMA SumIsSums ==
  ASSUME NEW D, NEW f \in [D -> Nat], NEW S \in SUBSET D, IsFiniteSet(S)
  PROVE  \E h : Sums(h, f, SUBSET S) /\ SumOver(f, S) = h[S]
  <1> DEFINE h == CHOOSE k : Sums(k, f, SUBSET S)
  <1>1. Sums(h, f, SUBSET S)
    BY SumsExist
  <1>2. SumOver(f, S) = h[S]
    BY DEF SumOver, MapThenSumSet, MapThenFoldSet, Sums, Pick
  <1> QED
    BY <1>1, <1>2

\* A subset has one sum, whichever set it is taken a subset of.
LEMMA SumsAgree ==
  ASSUME NEW D, NEW f \in [D -> Nat], NEW S \in SUBSET D, IsFiniteSet(S), NEW T \in SUBSET S
  PROVE  \A g, h : Sums(g, f, SUBSET S) /\ Sums(h, f, SUBSET T) => g[T] = h[T]
  <1> SUFFICES ASSUME NEW g, Sums(g, f, SUBSET S), NEW h, Sums(h, f, SUBSET T)
               PROVE  \A s \in SUBSET T : g[s] = h[s]
    OBVIOUS
  <1> DEFINE Bad == {n \in Nat : \E s \in SUBSET T : Cardinality(s) = n /\ g[s] # h[s]}
  <1>1. \A s \in SUBSET S :
          /\ Cardinality(s) \in Nat
          /\ s # {} => Pick(s) \in s
          /\ \A x \in s : Cardinality(s \ {x}) = Cardinality(s) - 1
    BY Picked
  <1>2. SUFFICES ASSUME Bad # {} PROVE FALSE
    BY <1>1
  <1>3. PICK n \in Bad : \A m \in Bad : n <= m
    BY <1>2, LeastNatural
  <1>4. PICK s \in SUBSET T : Cardinality(s) = n /\ g[s] # h[s]
    BY <1>3
  <1>5. s # {}
    BY <1>4 DEF Sums
  <1>6. Pick(s) \in s /\ s \ {Pick(s)} \in SUBSET T /\ Cardinality(s \ {Pick(s)}) = n - 1
    BY <1>1, <1>4, <1>5
  <1>7. n - 1 \in Nat /\ n - 1 \notin Bad
    BY <1>1, <1>3, <1>6
  <1>8. g[s \ {Pick(s)}] = h[s \ {Pick(s)}]
    BY <1>6, <1>7
  <1> QED
    BY <1>4, <1>5, <1>8 DEF Sums

\* A sum is that of one element, the picked one, and of the rest.
LEMMA SumStep ==
  ASSUME NEW D, NEW f \in [D -> Nat], NEW S \in SUBSET D, IsFiniteSet(S)
  PROVE  SumOver(f, S) = IF S = {} THEN 0 ELSE f[Pick(S)] + SumOver(f, S \ {Pick(S)})
  <1>1. PICK g : Sums(g, f, SUBSET S) /\ SumOver(f, S) = g[S]
    BY SumIsSums
  <1>2. SumOver(f, S) = IF S = {} THEN 0 ELSE f[Pick(S)] + g[S \ {Pick(S)}]
    BY <1>1 DEF Sums
  <1> DEFINE T == S \ {Pick(S)}
  <1>3. T \in SUBSET D /\ IsFiniteSet(T) /\ T \in SUBSET S
    BY FS_RemoveElement
  <1>4. PICK h : Sums(h, f, SUBSET T) /\ SumOver(f, T) = h[T]
    <2> HIDE DEF T
    <2> QED
      BY <1>3, SumIsSums
  <1>5. g[T] = h[T]
    <2> HIDE DEF T
    <2>1. Sums(g, f, SUBSET S) /\ Sums(h, f, SUBSET T)
      BY <1>1, <1>4
    <2>2. \A k, l : Sums(k, f, SUBSET S) /\ Sums(l, f, SUBSET T) => k[T] = l[T]
      BY <1>3, SumsAgree
    <2> QED
      BY <2>1, <2>2
  <1> QED
    BY <1>2, <1>4, <1>5

\* A sum of naturals is one, and it does not matter which element goes first.
LEMMA SumAnyStep ==
  ASSUME NEW D, NEW f \in [D -> Nat], NEW S \in SUBSET D, IsFiniteSet(S)
  PROVE  /\ SumOver(f, S) \in Nat
         /\ \A x \in S : SumOver(f, S) = f[x] + SumOver(f, S \ {x})
  <1> DEFINE Good(s) == /\ SumOver(f, s) \in Nat
                        /\ \A x \in s : SumOver(f, s) = f[x] + SumOver(f, s \ {x})
             Bad == {n \in Nat : \E s \in SUBSET S : Cardinality(s) = n /\ ~Good(s)}
  <1>1. \A s \in SUBSET S :
          /\ IsFiniteSet(s) /\ Cardinality(s) \in Nat
          /\ s # {} => Pick(s) \in s
          /\ \A x \in s : s \ {x} \in SUBSET S /\ Cardinality(s \ {x}) = Cardinality(s) - 1
    BY Picked
  <1>2. \A s \in SUBSET S :
          SumOver(f, s) = IF s = {} THEN 0 ELSE f[Pick(s)] + SumOver(f, s \ {Pick(s)})
    BY <1>1, SumStep
  <1> SUFFICES Good(S)
    OBVIOUS
  <1> HIDE DEF Good
  <1>3. SUFFICES ASSUME Bad # {} PROVE FALSE
    BY <1>1
  <1>4. PICK n \in Bad : \A m \in Bad : n <= m
    BY <1>3, LeastNatural
  <1>5. PICK s \in SUBSET S : Cardinality(s) = n /\ ~Good(s)
    BY <1>4
  <1>6. \A r \in SUBSET S : Cardinality(r) < n => Good(r)
    <2> SUFFICES ASSUME NEW r \in SUBSET S, Cardinality(r) < n, ~Good(r) PROVE FALSE
      OBVIOUS
    <2>1. Cardinality(r) \in Bad
      BY <1>1
    <2>2. Cardinality(r) \in Nat /\ n \in Nat /\ n <= Cardinality(r)
      BY <1>1, <1>4, <2>1
    <2> QED
      BY <2>2
  <1>7. n \in Nat
    BY <1>4
  <1> HIDE DEF Bad
  <1>8. \A x \in s : s \ {x} \in SUBSET S /\ Cardinality(s \ {x}) = n - 1 /\ Good(s \ {x})
    BY <1>1, <1>5, <1>6, <1>7
  <1>9. CASE s = {}
    <2>1. SumOver(f, s) = 0
      BY <1>2, <1>9
    <2> QED
      BY <1>5, <1>9, <2>1 DEF Good
  <1>10. CASE s # {}
    <2> DEFINE y == Pick(s)
    <2>1. y \in s /\ Good(s \ {y}) /\ f[y] \in Nat
      BY <1>1, <1>8, <1>10
    <2>2. SumOver(f, s) = f[y] + SumOver(f, s \ {y})
      BY <1>2, <1>10
    <2> HIDE DEF y
    <2>3. SumOver(f, s \ {y}) \in Nat
      BY <2>1 DEF Good
    <2>4. SumOver(f, s) \in Nat
      BY <2>1, <2>2, <2>3
    <2>5. ASSUME NEW x \in s PROVE SumOver(f, s) = f[x] + SumOver(f, s \ {x})
      <3>1. CASE x = y
        BY <2>2, <3>1
      <3>2. CASE x # y
        <4>1. Good(s \ {x}) /\ f[x] \in Nat
          BY <1>8
        <4>2. x \in s \ {y} /\ y \in s \ {x} /\ (s \ {y}) \ {x} = (s \ {x}) \ {y}
          BY <2>1, <3>2
        <4> DEFINE r == (s \ {x}) \ {y}
        <4>3. SumOver(f, s \ {y}) = f[x] + SumOver(f, r)
          BY <2>1, <4>2 DEF Good
        <4>4. SumOver(f, s \ {x}) = f[y] + SumOver(f, r)
          BY <4>1, <4>2 DEF Good
        <4>5. SumOver(f, r) \in Nat
          <5>1. s \ {x} \in SUBSET S /\ Cardinality(s \ {x}) = n - 1
            BY <1>8
          <5> DEFINE q == s \ {x}
          <5>2. r \in SUBSET S /\ Cardinality(r) = (n - 1) - 1
            <6>1. q \in SUBSET S /\ Cardinality(q) = n - 1 /\ y \in q /\ r = q \ {y}
              BY <4>2, <5>1
            <6> HIDE DEF q
            <6> QED
              BY <1>1, <6>1
          <5>3. Good(r)
            BY <1>6, <1>7, <5>2
          <5> QED
            BY <5>3 DEF Good
        <4> HIDE DEF r
        <4> QED
          BY <2>1, <2>2, <4>1, <4>3, <4>4, <4>5
      <3> QED
        BY <3>1, <3>2
    <2> QED
      BY <1>5, <2>4, <2>5 DEF Good
  <1> QED
    BY <1>9, <1>10

\* What is left of a sum when a part of it goes.
LEMMA SumDifference ==
  ASSUME NEW D, NEW f \in [D -> Nat], NEW S \in SUBSET D, IsFiniteSet(S), NEW T \in SUBSET S
  PROVE  /\ SumOver(f, T) \in Nat /\ SumOver(f, S \ T) \in Nat
         /\ SumOver(f, S) = SumOver(f, T) + SumOver(f, S \ T)
  <1> DEFINE Good(s) == SumOver(f, S) = SumOver(f, s) + SumOver(f, S \ s)
             Bad == {n \in Nat : \E s \in SUBSET S : Cardinality(s) = n /\ ~Good(s)}
  <1>1. \A s \in SUBSET S :
          /\ IsFiniteSet(s) /\ Cardinality(s) \in Nat
          /\ \A x \in s : s \ {x} \in SUBSET S /\ Cardinality(s \ {x}) = Cardinality(s) - 1
    BY Picked
  <1>2. \A s \in SUBSET S : /\ SumOver(f, s) \in Nat
                            /\ \A x \in s : SumOver(f, s) = f[x] + SumOver(f, s \ {x})
    BY <1>1, SumAnyStep
  <1> SUFFICES Good(T)
    BY <1>2
  <1> HIDE DEF Good
  <1>3. SUFFICES ASSUME Bad # {} PROVE FALSE
    BY <1>1
  <1>4. PICK n \in Bad : \A m \in Bad : n <= m
    BY <1>3, LeastNatural
  <1>5. PICK s \in SUBSET S : Cardinality(s) = n /\ ~Good(s)
    BY <1>4
  <1>6. \A r \in SUBSET S : Cardinality(r) < n => Good(r)
    <2> SUFFICES ASSUME NEW r \in SUBSET S, Cardinality(r) < n, ~Good(r) PROVE FALSE
      OBVIOUS
    <2>1. Cardinality(r) \in Bad
      BY <1>1
    <2>2. Cardinality(r) \in Nat /\ n \in Nat /\ n <= Cardinality(r)
      BY <1>1, <1>4, <2>1
    <2> QED
      BY <2>2
  <1>7. n \in Nat
    BY <1>4
  <1> HIDE DEF Bad
  <1>8. CASE s = {}
    <2>1. SumOver(f, {}) = 0
      BY FS_EmptySet, SumStep
    <2>2. S \ {} = S /\ SumOver(f, S) \in Nat
      BY <1>2
    <2>3. Good({})
      BY <2>1, <2>2 DEF Good
    <2> QED
      BY <1>5, <1>8, <2>3
  <1>9. ASSUME NEW x \in s PROVE FALSE
    <2> DEFINE r == s \ {x}
    <2>1. r \in SUBSET S /\ Good(r)
      BY <1>1, <1>5, <1>6, <1>7
    <2>2. x \in S \ r /\ (S \ r) \ {x} = S \ s /\ S \ r \in SUBSET S /\ S \ s \in SUBSET S
      BY <1>9
    <2>3. SumOver(f, S \ r) = f[x] + SumOver(f, S \ s)
      BY <1>2, <2>2
    <2>4. SumOver(f, s) = f[x] + SumOver(f, r) /\ f[x] \in Nat
      BY <1>2, <1>9
    <2>5. SumOver(f, r) \in Nat /\ SumOver(f, S \ s) \in Nat
      BY <1>2, <2>1, <2>2
    <2> HIDE DEF r
    <2>6. Good(s)
      BY <2>1, <2>3, <2>4, <2>5 DEF Good
    <2> QED
      BY <1>5, <2>6
  <1> QED
    BY <1>8, <1>9

\* Functions that agree on a set have one sum there.
LEMMA SumCongruent ==
  ASSUME NEW D, NEW f \in [D -> Nat], NEW E, NEW g \in [E -> Nat],
         NEW S \in SUBSET D, S \in SUBSET E, IsFiniteSet(S), \A x \in S : f[x] = g[x]
  PROVE  SumOver(f, S) = SumOver(g, S)
  <1>1. PICK h : Sums(h, f, SUBSET S) /\ SumOver(f, S) = h[S]
    BY SumIsSums
  <1>2. PICK k : Sums(k, g, SUBSET S) /\ SumOver(g, S) = k[S]
    BY SumIsSums
  <1>3. \A s \in SUBSET S : s # {} => Pick(s) \in S
    BY DEF Pick
  <1>4. Sums(k, f, SUBSET S)
    BY <1>2, <1>3 DEF Sums
  <1>5. \A i, j : Sums(i, f, SUBSET S) /\ Sums(j, f, SUBSET S) => i[S] = j[S]
    BY SumsAgree
  <1>6. h[S] = k[S]
    BY <1>1, <1>4, <1>5
  <1> QED
    BY <1>1, <1>2, <1>6

-----------------------------------------------------------------------------
(***************************************************************************)
(* The buckets and the records.                                            *)
(***************************************************************************)
Recorded == [name : Names, duration : Durations, at : 0..MaxTime]

\* The durations of recs, and the ones of its members in S under a name.
DurationsOf(recs) == [r \in DOMAIN recs |-> recs[r].duration]
Named(S, recs, name) == {r \in S : recs[r].name = name}

\* The buckets b hold the records in S, no more and no less.
Tallies(b, S, recs) ==
  /\ DOMAIN b = {recs[r].name : r \in S}
  /\ \A n \in DOMAIN b : /\ b[n].count = Cardinality(Named(S, recs, n))
                         /\ b[n].sum = SumOver(DurationsOf(recs), Named(S, recs, n))

\* No maximum is below one of the durations in S.
MaxCovers(b, S, recs) == \A r \in S : b[recs[r].name].max >= recs[r].duration

\* A flush in flight, with the records it does not cover.
FlightWell(F, opn, start, recs) ==
  /\ DOMAIN F.snapshot # {}
  /\ F.from = start /\ F.from <= F.to
  /\ F.covers \subseteq opn
  /\ Tallies(F.snapshot, F.covers, recs)
  /\ \A r \in F.covers : recs[r].at <= F.to
  /\ \A r \in opn \ F.covers : F.to <= recs[r].at

TypeInv ==
  /\ TypeOK
  /\ DOMAIN flight = Flushers
  /\ IsFiniteSet(DOMAIN buckets)
  /\ phase = "exiting" => exiter \in Threads

NothingIsLater ==
  /\ periodStart <= clock
  /\ \A r \in DOMAIN records : records[r].at <= clock
  /\ \A t \in InFlight : flight[t].to <= clock

Exact ==
  /\ \A t, u \in InFlight : t = u
  /\ \A t \in InFlight : FlightWell(flight[t], open, periodStart, records)
  /\ Tallies(buckets, open, records)
  /\ MaxCovers(buckets, open, records)
  /\ \A r \in open : periodStart <= records[r].at
  /\ \A r \in DOMAIN records \ open : records[r].at <= periodStart

IndInv == TypeInv /\ NothingIsLater /\ (~overlapped => Exact)

-----------------------------------------------------------------------------
\* The records of a name are finitely many, and their durations add up.
LEMMA NamedRecords ==
  ASSUME NEW recs \in Seq(Recorded), NEW S \in SUBSET DOMAIN recs, NEW n
  PROVE  /\ IsFiniteSet(DOMAIN recs)
         /\ DurationsOf(recs) \in [DOMAIN recs -> Nat]
         /\ IsFiniteSet(Named(S, recs, n)) /\ Named(S, recs, n) \in SUBSET DOMAIN recs
         /\ Cardinality(Named(S, recs, n)) \in Nat
         /\ Cardinality(Named(S, recs, n)) = 0 <=> ~\E r \in S : recs[r].name = n
         /\ SumOver(DurationsOf(recs), Named(S, recs, n)) \in Nat
  <1> USE PerformanceAssumption
  <1>1. DOMAIN recs = 1..Len(recs) /\ Len(recs) \in Nat /\ \A r \in DOMAIN recs : recs[r] \in Recorded
    OBVIOUS
  <1>2. IsFiniteSet(DOMAIN recs)
    BY <1>1, FS_Interval
  <1>3. DurationsOf(recs) \in [DOMAIN recs -> Nat]
    BY <1>1 DEF DurationsOf, Recorded
  <1>4. Named(S, recs, n) \in SUBSET DOMAIN recs
    BY DEF Named
  <1>5. IsFiniteSet(Named(S, recs, n))
    BY <1>2, <1>4, FS_Subset
  <1>6. Cardinality(Named(S, recs, n)) \in Nat
    BY <1>5, FS_CardinalityType
  <1>7. Cardinality(Named(S, recs, n)) = 0 <=> Named(S, recs, n) = {}
    BY <1>5, FS_EmptySet
  <1>8. Named(S, recs, n) = {} <=> ~\E r \in S : recs[r].name = n
    BY DEF Named
  <1>9. SumOver(DurationsOf(recs), Named(S, recs, n)) \in Nat
    BY <1>3, <1>4, <1>5, SumAnyStep
  <1> QED
    BY <1>2, <1>3, <1>4, <1>5, <1>6, <1>7, <1>8, <1>9

LEMMA RecordFields ==
  ASSUME NEW recs \in Seq(Recorded), NEW r \in DOMAIN recs
  PROVE  recs[r].duration \in Nat /\ recs[r].at \in Nat
  <1>1. \A x \in Recorded : x.duration \in Durations
    BY DEF Recorded
  <1>2. \A x \in Recorded : x.at \in 0..MaxTime
    BY DEF Recorded
  <1>3. recs[r] \in Recorded
    OBVIOUS
  <1>4. Durations \subseteq Nat /\ 0..MaxTime \subseteq Nat
    BY PerformanceAssumption
  <1> QED
    BY <1>1, <1>2, <1>3, <1>4

\* The sum in TalliesAreExact is a sum over the durations.
LEMMA SumOfDurations ==
  ASSUME NEW recs \in Seq(Recorded), NEW S \in SUBSET DOMAIN recs
  PROVE  MapThenSumSet(LAMBDA r : recs[r].duration, S) = SumOver(DurationsOf(recs), S)
  <1> DEFINE f == DurationsOf(recs)
             Adds(k) == k = [s \in SUBSET S |-> IF s = {} THEN 0
                               ELSE recs[CHOOSE x \in s : TRUE].duration + k[s \ {CHOOSE x \in s : TRUE}]]
             h == CHOOSE k : Adds(k)
  <1>1. IsFiniteSet(S) /\ f \in [DOMAIN recs -> Nat]
    BY NamedRecords, FS_Subset
  <1>2. PICK g : Sums(g, f, SUBSET S) /\ SumOver(f, S) = g[S]
    BY <1>1, SumIsSums
  <1>3. \A s \in SUBSET S : s # {} => f[Pick(s)] = recs[Pick(s)].duration
    BY DEF Pick, DurationsOf
  <1>4. ASSUME NEW k PROVE Adds(k) <=> Sums(k, f, SUBSET S)
    <2> DEFINE term(s) == recs[Pick(s)].duration
               left == [s \in SUBSET S |-> IF s = {} THEN 0 ELSE term(s) + k[s \ {Pick(s)}]]
               right == [s \in SUBSET S |-> IF s = {} THEN 0 ELSE f[Pick(s)] + k[s \ {Pick(s)}]]
    <2>1. left = right
      BY <1>3
    <2>2. Adds(k) <=> k = left
      BY DEF Pick
    <2>3. Sums(k, f, SUBSET S) <=> k = right
      BY DEF Sums
    <2> HIDE DEF left, right
    <2> QED
      BY <2>1, <2>2, <2>3
  <1>5. Adds(h)
    <2> HIDE DEF Adds
    <2>1. Adds(g)
      BY <1>2, <1>4
    <2> QED
      BY <2>1
  <1>6. MapThenSumSet(LAMBDA r : recs[r].duration, S) = h[S]
    BY DEF MapThenSumSet, MapThenFoldSet
  <1> HIDE DEF h, Adds, f
  <1>7. \A i, j : Sums(i, f, SUBSET S) /\ Sums(j, f, SUBSET S) => i[S] = j[S]
    BY <1>1, SumsAgree
  <1>8. h[S] = g[S]
    BY <1>2, <1>4, <1>5, <1>7
  <1> QED
    BY <1>2, <1>6, <1>8 DEF f

\* A new record does not disturb what was tallied.
LEMMA TalliesLater ==
  ASSUME NEW recs \in Seq(Recorded), NEW e \in Recorded, NEW S \in SUBSET DOMAIN recs, NEW b,
         Tallies(b, S, recs)
  PROVE  /\ Tallies(b, S, Append(recs, e))
         /\ \A n : /\ Named(S, Append(recs, e), n) = Named(S, recs, n)
                   /\ SumOver(DurationsOf(Append(recs, e)), Named(S, recs, n)) =
                      SumOver(DurationsOf(recs), Named(S, recs, n))
  <1> DEFINE long == Append(recs, e)
  <1>1. /\ long \in Seq(Recorded) /\ DOMAIN recs \subseteq DOMAIN long
        /\ \A r \in DOMAIN recs : long[r] = recs[r]
    OBVIOUS
  <1> HIDE DEF long
  <1>2. \A n : Named(S, long, n) = Named(S, recs, n)
    BY <1>1 DEF Named
  <1>3. ASSUME NEW n
        PROVE  SumOver(DurationsOf(long), Named(S, recs, n)) = SumOver(DurationsOf(recs), Named(S, recs, n))
    <2> DEFINE f == DurationsOf(long)
               g == DurationsOf(recs)
               N == Named(S, recs, n)
               D == DOMAIN long
               E == DOMAIN recs
    <2>1. f \in [D -> Nat] /\ g \in [E -> Nat] /\ N \in SUBSET D /\ N \in SUBSET E /\ IsFiniteSet(N)
      BY <1>1, NamedRecords
    <2>2. \A x \in N : f[x] = g[x]
      BY <1>1 DEF DurationsOf, Named
    <2> HIDE DEF f, g, N, D, E
    <2>3. SumOver(f, N) = SumOver(g, N)
      BY <2>1, <2>2, SumCongruent, SMTT(60)
    <2> QED
      BY <2>3 DEF f, g, N
  <1>4. Tallies(b, S, long)
    BY <1>1, <1>2, <1>3 DEF Tallies
  <1> QED
    BY <1>2, <1>3, <1>4 DEF long

\* forgeops_performance_record tallies one more duration.
LEMMA TalliesMore ==
  ASSUME NEW recs \in Seq(Recorded), NEW e \in Recorded, NEW S \in SUBSET DOMAIN recs, NEW b,
         Tallies(b, S, recs)
  PROVE  Tallies([n \in DOMAIN b \cup {e.name} |->
                    LET current == IF n \in DOMAIN b THEN b[n] ELSE EmptyBucket
                    IN  IF n = e.name THEN Tallied(current, e.duration) ELSE current],
                 S \cup {Len(recs) + 1}, Append(recs, e))
  <1> USE PerformanceAssumption
  <1> DEFINE long == Append(recs, e)
             k == Len(recs) + 1
             T == S \cup {k}
             more == [n \in DOMAIN b \cup {e.name} |->
                        LET current == IF n \in DOMAIN b THEN b[n] ELSE EmptyBucket
                        IN  IF n = e.name THEN Tallied(current, e.duration) ELSE current]
  <1>1. long \in Seq(Recorded) /\ T \in SUBSET DOMAIN long /\ S \in SUBSET DOMAIN long
    OBVIOUS
  <1>2. k \notin S /\ k \in DOMAIN long /\ long[k] = e /\ \A r \in S : long[r] = recs[r]
    OBVIOUS
  <1>3. e.duration \in Nat
    BY DEF Recorded
  <1>4. Tallies(b, S, long)
    BY TalliesLater
  <1> HIDE DEF long, k, T
  <1>5. DOMAIN more = {long[r].name : r \in T}
    BY <1>2, <1>4 DEF Tallies, T
  <1>6. ASSUME NEW n \in DOMAIN more, n # e.name
        PROVE  /\ more[n].count = Cardinality(Named(T, long, n))
               /\ more[n].sum = SumOver(DurationsOf(long), Named(T, long, n))
    <2>1. n \in DOMAIN b /\ more[n] = b[n]
      BY <1>6
    <2>2. Named(T, long, n) = Named(S, long, n)
      BY <1>2, <1>6 DEF Named, T
    <2> QED
      BY <1>4, <2>1, <2>2 DEF Tallies
  <1>7. /\ more[e.name].count = Cardinality(Named(T, long, e.name))
        /\ more[e.name].sum = SumOver(DurationsOf(long), Named(T, long, e.name))
    <2> DEFINE N == Named(S, long, e.name)
               M == Named(T, long, e.name)
               f == DurationsOf(long)
               D == DOMAIN long
    <2>1. M = N \cup {k} /\ k \notin N /\ N = M \ {k} /\ f[k] = e.duration
      BY <1>2 DEF Named, T, DurationsOf
    <2>2. /\ IsFiniteSet(N) /\ Cardinality(N) \in Nat /\ SumOver(f, N) \in Nat
          /\ Cardinality(N) = 0 <=> ~\E r \in S : long[r].name = e.name
      BY <1>1, NamedRecords
    <2>3. IsFiniteSet(M) /\ M \in SUBSET D /\ N \in SUBSET D /\ f \in [D -> Nat]
      BY <1>1, NamedRecords
    <2>4. N = {} <=> Cardinality(N) = 0
      BY <2>2, FS_EmptySet
    <2> HIDE DEF N, M, f, D
    <2>5. Cardinality(M) = Cardinality(N) + 1
      BY <2>1, <2>2, FS_AddElement
    <2>6. SumOver(f, M) = e.duration + SumOver(f, N)
      <3>1. k \in M
        BY <2>1
      <3>2. SumOver(f, M) = f[k] + SumOver(f, M \ {k})
        BY <2>3, <3>1, SumAnyStep
      <3> QED
        BY <2>1, <3>2
    <2>7. N = {} => SumOver(f, N) = 0
      BY <2>2, <2>3, SumStep
    <2>8. CASE e.name \in DOMAIN b
      <3>1. b[e.name].count = Cardinality(N) /\ b[e.name].sum = SumOver(f, N)
        BY <1>4, <2>8 DEF Tallies, N, f
      <3>2. more[e.name] = [count |-> b[e.name].count + 1, sum |-> b[e.name].sum + e.duration,
                            max |-> Larger(b[e.name].max, e.duration)]
        BY <2>8 DEF Tallied
      <3> HIDE DEF more
      <3>3. more[e.name].count = Cardinality(M) /\ more[e.name].sum = SumOver(f, M)
        BY <1>3, <2>2, <2>5, <2>6, <3>1, <3>2
      <3> QED
        BY <3>3 DEF M, f
    <2>9. CASE e.name \notin DOMAIN b
      <3>1. N = {} /\ Cardinality(N) = 0 /\ SumOver(f, N) = 0
        BY <1>4, <2>2, <2>4, <2>7, <2>9 DEF Tallies
      <3>2. more[e.name] = [count |-> 0 + 1, sum |-> 0 + e.duration, max |-> Larger(0, e.duration)]
        BY <2>9 DEF Tallied, EmptyBucket
      <3> HIDE DEF more
      <3>3. more[e.name].count = Cardinality(M) /\ more[e.name].sum = SumOver(f, M)
        BY <1>3, <2>5, <2>6, <3>1, <3>2
      <3> QED
        BY <3>3 DEF M, f
    <2> QED
      BY <2>8, <2>9
  <1>8. Tallies(more, T, long)
    BY <1>5, <1>6, <1>7 DEF Tallies
  <1> QED
    BY <1>8 DEF T, k, long

\* What a delivered snapshot leaves of the buckets.
Rest(b, c, name) ==
  IF name \in DOMAIN c
    THEN [count |-> Minus(b[name].count, c[name].count),
          sum   |-> Minus(b[name].sum, c[name].sum),
          max   |-> b[name].max]
    ELSE b[name]

\* Subtracting an exact snapshot leaves an exact tally of what it did not
\* cover, and no bucket that would be empty.
LEMMA TalliesLess ==
  ASSUME NEW recs \in Seq(Recorded), NEW S \in SUBSET DOMAIN recs, NEW C \in SUBSET S,
         NEW b, Tallies(b, S, recs), NEW c, Tallies(c, C, recs)
  PROVE  Tallies([n \in {m \in DOMAIN b : Rest(b, c, m).count > 0} |-> Rest(b, c, n)], S \ C, recs)
  <1> DEFINE less == [n \in {m \in DOMAIN b : Rest(b, c, m).count > 0} |-> Rest(b, c, n)]
  <1>1. S \ C \in SUBSET DOMAIN recs /\ C \in SUBSET DOMAIN recs
    OBVIOUS
  <1>2. ASSUME NEW n \in DOMAIN b
        PROVE  /\ Rest(b, c, n).count = Cardinality(Named(S \ C, recs, n))
               /\ Rest(b, c, n).sum = SumOver(DurationsOf(recs), Named(S \ C, recs, n))
    <2> DEFINE N == Named(S, recs, n)
               M == Named(C, recs, n)
               f == DurationsOf(recs)
               D == DOMAIN recs
    <2>1. Named(S \ C, recs, n) = N \ M /\ M \in SUBSET N /\ N \cap M = M
      BY DEF Named
    <2>2. /\ IsFiniteSet(N) /\ Cardinality(N) \in Nat /\ SumOver(f, N) \in Nat
          /\ N \in SUBSET D /\ f \in [D -> Nat]
      BY NamedRecords
    <2>3. IsFiniteSet(M) /\ Cardinality(M) \in Nat /\ SumOver(f, M) \in Nat
      BY <1>1, NamedRecords
    <2>4. b[n].count = Cardinality(N) /\ b[n].sum = SumOver(f, N)
      BY DEF Tallies
    <2>5. n \in DOMAIN c => c[n].count = Cardinality(M) /\ c[n].sum = SumOver(f, M)
      BY DEF Tallies
    <2>6. n \notin DOMAIN c => M = {}
      BY DEF Tallies, Named
    <2> HIDE DEF N, M, f, D
    <2>7. Cardinality(N \ M) = Cardinality(N) - Cardinality(M) /\ Cardinality(N \ M) \in Nat
      BY <2>1, <2>2, FS_Difference, FS_CardinalityType
    <2>8. SumOver(f, N) = SumOver(f, M) + SumOver(f, N \ M) /\ SumOver(f, N \ M) \in Nat
      BY <2>1, <2>2, SumDifference, SMTT(60)
    <2>9. CASE n \in DOMAIN c
      <3>1. Rest(b, c, n).count = Minus(Cardinality(N), Cardinality(M))
        BY <2>4, <2>5, <2>9 DEF Rest
      <3>2. Rest(b, c, n).sum = Minus(SumOver(f, N), SumOver(f, M))
        BY <2>4, <2>5, <2>9 DEF Rest
      <3>3. Minus(Cardinality(N), Cardinality(M)) = Cardinality(N \ M)
        BY <2>2, <2>3, <2>7 DEF Minus
      <3>4. Minus(SumOver(f, N), SumOver(f, M)) = SumOver(f, N \ M)
        BY <2>2, <2>3, <2>8 DEF Minus
      <3> QED
        BY <2>1, <3>1, <3>2, <3>3, <3>4 DEF f
    <2>10. CASE n \notin DOMAIN c
      <3>1. N \ M = N
        BY <2>6, <2>10
      <3> QED
        BY <2>1, <2>4, <2>10, <3>1 DEF Rest, f
    <2> QED
      BY <2>9, <2>10
  <1>3. \A n \in DOMAIN b : Rest(b, c, n).count > 0 <=> \E r \in S \ C : recs[r].name = n
    <2> TAKE n \in DOMAIN b
    <2>1. /\ Cardinality(Named(S \ C, recs, n)) \in Nat
          /\ Cardinality(Named(S \ C, recs, n)) = 0 <=> ~\E r \in S \ C : recs[r].name = n
      BY <1>1, NamedRecords
    <2> QED
      BY <1>2, <2>1
  <1>4. DOMAIN less = {recs[r].name : r \in S \ C}
    BY <1>3 DEF Tallies
  <1>5. \A n \in DOMAIN less : n \in DOMAIN b /\ less[n] = Rest(b, c, n)
    OBVIOUS
  <1> HIDE DEF less
  <1>6. Tallies(less, S \ C, recs)
    BY <1>2, <1>4, <1>5 DEF Tallies
  <1> QED
    BY <1>6 DEF less

-----------------------------------------------------------------------------
\* The types of the buckets after a record.
LEMMA RecordTypes ==
  ASSUME TypeInv, NEW t \in Threads, NEW name \in Names, NEW duration \in Durations,
         Record(t, name, duration)
  PROVE  /\ IsTally(buckets')
         /\ IsFiniteSet(DOMAIN buckets') /\ Cardinality(DOMAIN buckets') <= MaxTransactions
         /\ \A n \in DOMAIN buckets' : buckets'[n].count > 0
  <1> USE PerformanceAssumption
  <1> DEFINE current(n) == IF n \in DOMAIN buckets THEN buckets[n] ELSE EmptyBucket
  <1>1. buckets' = [n \in DOMAIN buckets \cup {name} |->
                      IF n = name THEN Tallied(current(n), duration) ELSE current(n)]
    BY DEF Record
  <1>2. \A n : current(n) \in Bucket
    BY DEF TypeInv, TypeOK, IsTally, Bucket, EmptyBucket
  <1>3. Tallied(current(name), duration) \in Bucket /\ Tallied(current(name), duration).count > 0
    BY <1>2 DEF Tallied, Bucket, Larger
  <1>4. \A n \in DOMAIN buckets : current(n).count > 0
    BY DEF TypeInv, TypeOK
  <1> HIDE DEF current
  <1>5. IsTally(buckets') /\ \A n \in DOMAIN buckets' : buckets'[n].count > 0
    BY <1>1, <1>2, <1>3, <1>4 DEF TypeInv, TypeOK, IsTally
  <1>6. IsFiniteSet(DOMAIN buckets) /\ Cardinality(DOMAIN buckets) <= MaxTransactions
    BY DEF TypeInv, TypeOK
  <1>7. DOMAIN buckets' = DOMAIN buckets \cup {name} /\ HasSlot(name)
    BY <1>1 DEF Record
  <1>8. IsFiniteSet(DOMAIN buckets') /\ Cardinality(DOMAIN buckets') <= MaxTransactions
    <2> DEFINE D == DOMAIN buckets
    <2>1. IsFiniteSet(D) /\ Cardinality(D) <= MaxTransactions /\ DOMAIN buckets' = D \cup {name}
      BY <1>6, <1>7
    <2>2. name \in D \/ Cardinality(D) < MaxTransactions
      BY <1>7 DEF HasSlot
    <2> HIDE DEF D
    <2>3. IsFiniteSet(D \cup {name}) /\ Cardinality(D) \in Nat
      BY <2>1, FS_AddElement, FS_CardinalityType
    <2>4. Cardinality(D \cup {name}) = IF name \in D THEN Cardinality(D) ELSE Cardinality(D) + 1
      BY <2>1, FS_AddElement
    <2> QED
      BY <2>1, <2>2, <2>3, <2>4
  <1> QED
    BY <1>5, <1>8

\* The types of the buckets after a batch is taken away.
LEMMA RemoveTypes ==
  ASSUME TypeInv, NEW t \in InFlight, RemoveSnapshot(flight[t].snapshot)
  PROVE  /\ IsTally(buckets')
         /\ IsFiniteSet(DOMAIN buckets') /\ Cardinality(DOMAIN buckets') <= MaxTransactions
         /\ \A n \in DOMAIN buckets' : buckets'[n].count > 0
  <1> USE PerformanceAssumption
  <1> DEFINE S == flight[t].snapshot
  <1>1. IsTally(S) /\ IsTally(buckets)
    BY DEF TypeInv, TypeOK
  <1>2. buckets' = [n \in {m \in DOMAIN buckets : Subtracted(m, S).count > 0} |-> Subtracted(n, S)]
    BY DEF RemoveSnapshot
  <1> HIDE DEF S
  <1>3. \A n \in DOMAIN buckets : Subtracted(n, S) \in Bucket
    BY <1>1 DEF Subtracted, Minus, IsTally, Bucket
  <1>4. IsTally(buckets') /\ \A n \in DOMAIN buckets' : buckets'[n].count > 0
    BY <1>1, <1>2, <1>3 DEF IsTally
  <1>5. DOMAIN buckets' \in SUBSET DOMAIN buckets
    BY <1>2
  <1>6. IsFiniteSet(DOMAIN buckets) /\ Cardinality(DOMAIN buckets) <= MaxTransactions
    BY DEF TypeInv, TypeOK
  <1>7. /\ IsFiniteSet(DOMAIN buckets')
        /\ Cardinality(DOMAIN buckets') <= Cardinality(DOMAIN buckets)
        /\ Cardinality(DOMAIN buckets') \in Nat /\ Cardinality(DOMAIN buckets) \in Nat
    BY <1>5, <1>6, FS_Subset, FS_CardinalityType
  <1> QED
    BY <1>4, <1>6, <1>7

\* What TypeInv says of a flush in flight.
FlightType(F, n) ==
  /\ IsTally(F.snapshot)
  /\ F.from \in 0..MaxTime /\ F.to \in 0..MaxTime
  /\ F.covers \subseteq 1..n

\* The types of the flushes after one of them began or ended.
LEMMA FlightTypes ==
  ASSUME DOMAIN flight = Flushers, NEW t \in Flushers, NEW F,
         F = NoFlush \/ FlightType(F, Len(records)), flight' = [flight EXCEPT ![t] = F],
         UNCHANGED records, \A u \in InFlight : FlightType(flight[u], Len(records))
  PROVE  /\ DOMAIN flight' = Flushers
         /\ \A u \in InFlight' : FlightType(flight'[u], Len(records'))
         /\ InFlight' \subseteq InFlight \cup {t}
         /\ F = NoFlush => InFlight' = InFlight \ {t}
         /\ flight'[t] = F /\ \A u \in Flushers \ {t} : flight'[u] = flight[u]
  <1>1. DOMAIN flight' = Flushers /\ flight'[t] = F /\ \A u \in Flushers \ {t} : flight'[u] = flight[u]
    OBVIOUS
  <1>2. InFlight' = {u \in Flushers : flight'[u] # NoFlush}
    BY DEF InFlight, NoFlush, Flushers
  <1>3. InFlight' \subseteq InFlight \cup {t} /\ (F = NoFlush => InFlight' = InFlight \ {t})
    BY <1>1, <1>2 DEF InFlight
  <1>4. \A u \in InFlight' : FlightType(flight'[u], Len(records'))
    BY <1>1, <1>2 DEF InFlight
  <1> QED
    BY <1>1, <1>3, <1>4

LEMMA FlightsTyped ==
  ASSUME TypeInv
  PROVE  \A u \in InFlight : FlightType(flight[u], Len(records))
  BY DEF TypeInv, TypeOK, FlightType

\* The snapshot of a flush is typed, whichever thread takes it.
LEMMA SnapshotTypes ==
  ASSUME TypeInv, NEW t \in Flushers, FlushSnapshot(t), UNCHANGED <<records, open>>
  PROVE  /\ DOMAIN flight' = Flushers
         /\ \A u \in InFlight' : FlightType(flight'[u], Len(records'))
         /\ InFlight' \subseteq InFlight \cup {t}
         /\ flight'[t] = [snapshot |-> buckets, from |-> periodStart, to |-> clock, covers |-> open]
         /\ \A u \in Flushers \ {t} : flight'[u] = flight[u]
         /\ overlapped' \in BOOLEAN
  <1> DEFINE F == [snapshot |-> buckets, from |-> periodStart, to |-> clock, covers |-> open]
  <1>1. FlightType(F, Len(records))
    BY DEF FlightType, TypeInv, TypeOK
  <1>2. DOMAIN flight = Flushers /\ flight' = [flight EXCEPT ![t] = F] /\ overlapped' \in BOOLEAN
    BY DEF FlushSnapshot, TypeInv, TypeOK
  <1> HIDE DEF F
  <1>3. /\ DOMAIN flight' = Flushers
        /\ \A u \in InFlight' : FlightType(flight'[u], Len(records'))
        /\ InFlight' \subseteq InFlight \cup {t}
        /\ flight'[t] = F /\ \A u \in Flushers \ {t} : flight'[u] = flight[u]
    BY <1>1, <1>2, FlightsTyped, FlightTypes
  <1> QED
    BY <1>2, <1>3 DEF F

LEMMA LandingTypes ==
  ASSUME TypeInv, NEW t \in Flushers, flight' = [flight EXCEPT ![t] = NoFlush], UNCHANGED records
  PROVE  /\ DOMAIN flight' = Flushers
         /\ \A u \in InFlight' : FlightType(flight'[u], Len(records'))
         /\ InFlight' = InFlight \ {t}
         /\ \A u \in Flushers \ {t} : flight'[u] = flight[u]
  <1>1. DOMAIN flight = Flushers
    BY DEF TypeInv
  <1> QED
    BY <1>1, FlightsTyped, FlightTypes

\* Types, for all steps.
LEMMA TypeStep ==
  ASSUME TypeInv, [Next]_vars
  PROVE  TypeInv'
  <1> USE PerformanceAssumption
  <1> USE DEF TypeInv, TypeOK
  <1>0. \A u \in InFlight : FlightType(flight[u], Len(records))
    BY FlightsTyped
  <1>1. CASE UNCHANGED vars
    BY <1>1 DEF vars, tallyVars, processVars, historyVars, InFlight, IsTally
  <1>2. CASE Tick
    BY <1>2 DEF Tick, tallyVars, processVars, historyVars, InFlight, IsTally
  <1>3. ASSUME NEW t \in Threads, NEW n \in Names, RecordPastCap(t, n) PROVE TypeInv'
    BY <1>3 DEF RecordPastCap, EnsureWorkerStarted, historyVars, InFlight, IsTally
  <1>4. ASSUME NEW t \in Threads, NEW n \in Names, NEW d \in Durations, Record(t, n, d) PROVE TypeInv'
    <2>1. /\ IsTally(buckets')
          /\ IsFiniteSet(DOMAIN buckets') /\ Cardinality(DOMAIN buckets') <= MaxTransactions
          /\ \A m \in DOMAIN buckets' : buckets'[m].count > 0
      BY <1>4, RecordTypes
    <2>2. /\ records' \in Seq(Recorded) /\ Len(records') = Len(records) + 1
          /\ Len(records') <= MaxRecords /\ open' \subseteq 1..Len(records')
      <3> DEFINE e == [name |-> n, duration |-> d, at |-> clock]
      <3>1. e \in Recorded /\ records \in Seq(Recorded)
        BY DEF Recorded
      <3>2. records' = Append(records, e) /\ open' = open \cup {Len(records) + 1} /\ Len(records) < MaxRecords
        BY <1>4 DEF Record
      <3> HIDE DEF e
      <3>3. records' \in Seq(Recorded) /\ Len(records') = Len(records) + 1 /\ Len(records) \in Nat
        BY <3>1, <3>2
      <3>4. Len(records') <= MaxRecords
        BY <3>2, <3>3
      <3>5. open' \subseteq 1..(Len(records) + 1)
        <4> DEFINE k == Len(records)
        <4>1. k \in Nat /\ open \subseteq 1..k /\ open' = open \cup {k + 1}
          BY <3>2, <3>3
        <4> HIDE DEF k, TypeInv, TypeOK
        <4>2. open' \subseteq 1..(k + 1)
          BY <4>1
        <4> QED
          BY <4>2 DEF k
      <3> QED
        BY <3>3, <3>4, <3>5
    <2>3. \A u \in InFlight' : FlightType(flight'[u], Len(records'))
      BY <1>0, <1>4, <2>2 DEF Record, FlightType, InFlight
    <2>4. periodStart' \in 0..MaxTime /\ workerRunning' \in BOOLEAN /\ hook' \in {"none", "registered", "started"}
      BY <1>4 DEF Record, PeriodAfterRecord, EnsureWorkerStarted
    <2> QED
      BY <1>4, <2>1, <2>2, <2>3, <2>4 DEF Record, FlightType, Recorded
  <1>5. ASSUME NEW t \in Threads, CallerFlush(t) PROVE TypeInv'
    <2>1. /\ DOMAIN flight' = Flushers /\ overlapped' \in BOOLEAN
          /\ \A u \in InFlight' : FlightType(flight'[u], Len(records'))
      BY <1>5, SnapshotTypes DEF CallerFlush, Flushers
    <2> QED
      BY <1>5, <2>1 DEF CallerFlush, tallyVars, processVars, FlightType, IsTally
  <1>6. CASE WorkerFlush
    <2>1. /\ DOMAIN flight' = Flushers /\ overlapped' \in BOOLEAN
          /\ \A u \in InFlight' : FlightType(flight'[u], Len(records'))
      BY <1>6, SnapshotTypes DEF WorkerFlush, Flushers
    <2> QED
      BY <1>6, <2>1 DEF WorkerFlush, tallyVars, processVars, FlightType, IsTally
  <1>7. ASSUME NEW t \in Flushers, NEW status \in Statuses, FlushKept(t, status) PROVE TypeInv'
    <2>1. /\ DOMAIN flight' = Flushers
          /\ \A u \in InFlight' : FlightType(flight'[u], Len(records'))
      BY <1>7, LandingTypes DEF FlushKept, historyVars
    <2> QED
      BY <1>7, <2>1 DEF FlushKept, KeepForRetry, processVars, historyVars, FlightType, IsTally
  <1>8. ASSUME NEW t \in Flushers, NEW status \in Statuses, FlushRemoved(t, status) PROVE TypeInv'
    <2>1. /\ DOMAIN flight' = Flushers
          /\ \A u \in InFlight' : FlightType(flight'[u], Len(records'))
      BY <1>8, LandingTypes DEF FlushRemoved
    <2>2. t \in InFlight /\ RemoveSnapshot(flight[t].snapshot)
      BY <1>8 DEF FlushRemoved, InFlight
    <2>3. /\ IsTally(buckets')
          /\ IsFiniteSet(DOMAIN buckets') /\ Cardinality(DOMAIN buckets') <= MaxTransactions
          /\ \A m \in DOMAIN buckets' : buckets'[m].count > 0
      BY <2>2, RemoveTypes
    <2>4. flight[t].to \in 0..MaxTime
      BY <1>0, <2>2 DEF FlightType
    <2>5. periodStart' = flight[t].to /\ failures' = 0 /\ open' \subseteq open
      BY <1>8 DEF FlushRemoved
    <2>6. UNCHANGED <<workerRunning, clock, phase, exiter, hook, records, overlapped>>
      BY <1>8 DEF FlushRemoved, processVars
    <2>7. open' \subseteq 1..Len(records')
      BY <2>5, <2>6
    <2> QED
      BY <2>1, <2>3, <2>4, <2>5, <2>6, <2>7 DEF FlightType
  <1>9. ASSUME NEW t \in Threads, Exit(t) PROVE TypeInv'
    BY <1>9 DEF Exit, tallyVars, historyVars, InFlight, IsTally
  <1>10. CASE ExitFlush
    <2>1. CASE FlushSnapshot(exiter)
      <3>1. exiter \in Flushers
        BY <1>10 DEF ExitFlush, Flushers
      <3>2. /\ DOMAIN flight' = Flushers /\ overlapped' \in BOOLEAN
            /\ \A u \in InFlight' : FlightType(flight'[u], Len(records'))
        BY <1>10, <2>1, <3>1, SnapshotTypes DEF ExitFlush
      <3> QED
        BY <1>10, <3>2 DEF ExitFlush, tallyVars, FlightType, IsTally
    <2>2. CASE UNCHANGED <<flight, overlapped>>
      BY <1>10, <2>2 DEF ExitFlush, tallyVars, InFlight, IsTally
    <2> QED
      BY <1>10, <2>1, <2>2 DEF ExitFlush
  <1>11. CASE ProcessEnd
    BY <1>11 DEF ProcessEnd, tallyVars, historyVars, InFlight, IsTally
  <1>12. CASE Terminated
    BY <1>1, <1>12 DEF Terminated
  <1> QED
    BY <1>1, <1>2, <1>3, <1>4, <1>5, <1>6, <1>7, <1>8, <1>9, <1>10, <1>11, <1>12
       DEF Next, FlushFinish

-----------------------------------------------------------------------------
\* The clock only goes on, and every time kept is one it has shown.
LEMMA OrderStep ==
  ASSUME TypeInv, NothingIsLater, [Next]_vars
  PROVE  NothingIsLater'
  <1> USE PerformanceAssumption
  <1>0. clock \in Nat /\ \A r \in DOMAIN records : records[r].at \in Nat
    <2>1. records \in Seq(Recorded) /\ clock \in Nat
      BY DEF TypeInv, TypeOK, Recorded
    <2> QED
      BY <2>1, RecordFields
  <1>1. CASE UNCHANGED <<periodStart, clock, records, flight>>
    BY <1>1 DEF NothingIsLater, InFlight
  <1>2. CASE Tick
    <2>1. \A t \in InFlight : flight[t].to \in Nat
      BY DEF TypeInv, TypeOK
    <2>2. periodStart \in Nat
      BY DEF TypeInv, TypeOK
    <2>3. clock' = clock + 1 /\ UNCHANGED <<periodStart, records, flight>>
      BY <1>2 DEF Tick, tallyVars, historyVars
    <2>4. InFlight' = InFlight
      BY <2>3 DEF InFlight
    <2> QED
      BY <1>0, <2>1, <2>2, <2>3, <2>4 DEF NothingIsLater
  <1>3. ASSUME NEW t \in Threads, NEW n \in Names, NEW d \in Durations, Record(t, n, d)
        PROVE  NothingIsLater'
    <2> DEFINE e == [name |-> n, duration |-> d, at |-> clock]
    <2>1. records' = Append(records, e) /\ UNCHANGED <<clock, flight>> /\ periodStart' \in {periodStart, clock}
      BY <1>3 DEF Record, PeriodAfterRecord
    <2>2. records \in Seq(Recorded) /\ e \in Recorded
      BY DEF TypeInv, TypeOK, Recorded
    <2>3. e.at = clock
      OBVIOUS
    <2> HIDE DEF e
    <2>4. \A r \in DOMAIN records' : (r \in DOMAIN records /\ records'[r] = records[r]) \/ records'[r] = e
      BY <2>1, <2>2
    <2>5. InFlight' = InFlight
      BY <2>1 DEF InFlight
    <2> QED
      BY <1>0, <2>1, <2>3, <2>4, <2>5 DEF NothingIsLater
  <1>4. ASSUME NEW t \in Flushers, FlushSnapshot(t), UNCHANGED <<periodStart, clock, records, open>>
        PROVE  NothingIsLater'
    <2>1. /\ InFlight' \subseteq InFlight \cup {t} /\ flight'[t].to = clock
          /\ \A u \in Flushers \ {t} : flight'[u] = flight[u]
      BY <1>4, SnapshotTypes
    <2>2. InFlight \subseteq Flushers
      BY DEF InFlight
    <2> QED
      BY <1>0, <1>4, <2>1, <2>2 DEF NothingIsLater
  <1>5. InFlight \subseteq Flushers
    BY DEF InFlight
  <1>6. ASSUME NEW t \in Flushers, NEW status \in Statuses, FlushKept(t, status) PROVE NothingIsLater'
    <2>1. flight' = [flight EXCEPT ![t] = NoFlush]
      BY <1>6 DEF FlushKept
    <2>2. UNCHANGED <<clock, records>> /\ UNCHANGED periodStart
      BY <1>6 DEF FlushKept, historyVars
    <2>3. InFlight' = InFlight \ {t} /\ \A u \in Flushers \ {t} : flight'[u] = flight[u]
      BY <2>1, <2>2, LandingTypes
    <2> QED
      BY <1>5, <2>2, <2>3 DEF NothingIsLater
  <1>7. ASSUME NEW t \in Flushers, NEW status \in Statuses, FlushRemoved(t, status) PROVE NothingIsLater'
    <2>1. t \in InFlight /\ periodStart' = flight[t].to /\ UNCHANGED <<clock, records>>
      BY <1>7 DEF FlushRemoved, InFlight
    <2>2. InFlight' = InFlight \ {t} /\ \A u \in Flushers \ {t} : flight'[u] = flight[u]
      BY <1>7, LandingTypes DEF FlushRemoved
    <2> QED
      BY <1>5, <2>1, <2>2 DEF NothingIsLater
  <1>8. CASE ExitFlush
    <2>1. exiter \in Flushers
      BY <1>8 DEF ExitFlush, Flushers, TypeInv
    <2> QED
      BY <1>1, <1>4, <1>8, <2>1 DEF ExitFlush, tallyVars
  <1>9. ASSUME NEW t \in Threads, NEW n \in Names, RecordPastCap(t, n) PROVE NothingIsLater'
    BY <1>1, <1>9 DEF RecordPastCap, historyVars
  <1>10. ASSUME NEW t \in Threads, CallerFlush(t) PROVE NothingIsLater'
    BY <1>4, <1>10 DEF CallerFlush, tallyVars, Flushers
  <1>11. CASE WorkerFlush
    BY <1>4, <1>11 DEF WorkerFlush, tallyVars, Flushers
  <1>12. ASSUME NEW t \in Threads, Exit(t) PROVE NothingIsLater'
    BY <1>1, <1>12 DEF Exit, tallyVars, historyVars
  <1>13. CASE ProcessEnd \/ Terminated \/ UNCHANGED vars
    BY <1>1, <1>13 DEF ProcessEnd, Terminated, vars, tallyVars, historyVars
  <1> QED
    BY <1>2, <1>3, <1>6, <1>7, <1>8, <1>9, <1>10, <1>11, <1>12, <1>13 DEF Next, FlushFinish

-----------------------------------------------------------------------------
\* A duration is tallied.
LEMMA RecordKeepsExact ==
  ASSUME TypeInv, NothingIsLater, Exact,
         NEW t \in Threads, NEW n \in Names, NEW d \in Durations, Record(t, n, d)
  PROVE  Exact'
  <1> USE PerformanceAssumption
  <1> DEFINE e == [name |-> n, duration |-> d, at |-> clock]
             k == Len(records) + 1
  <1>1. records \in Seq(Recorded) /\ e \in Recorded /\ open \in SUBSET DOMAIN records
    BY DEF TypeInv, TypeOK, Recorded
  <1>2. /\ records' = Append(records, e) /\ open' = open \cup {k} /\ flight' = flight
        /\ periodStart' = IF DOMAIN buckets = {} THEN clock ELSE periodStart
    BY DEF Record, PeriodAfterRecord
  <1>3. e.name = n /\ e.duration = d /\ e.at = clock
    OBVIOUS
  <1>4. buckets' = [m \in DOMAIN buckets \cup {e.name} |->
                      LET current == IF m \in DOMAIN buckets THEN buckets[m] ELSE EmptyBucket
                      IN  IF m = e.name THEN Tallied(current, e.duration) ELSE current]
    BY DEF Record
  <1> HIDE DEF e
  <1>5. /\ DOMAIN records' = DOMAIN records \cup {k} /\ k \notin DOMAIN records /\ records'[k] = e
        /\ \A r \in DOMAIN records : records'[r] = records[r]
    BY <1>1, <1>2
  <1>6. Tallies(buckets', open', records')
    <2>1. Tallies(buckets, open, records)
      BY DEF Exact
    <2> QED
      BY <1>1, <1>2, <1>4, <2>1, TalliesMore
  <1> HIDE DEF k
  <1>7. DOMAIN buckets = {records[r].name : r \in open}
    BY DEF Exact, Tallies
  <1>8. MaxCovers(buckets', open', records')
    <2> SUFFICES ASSUME NEW r \in open' PROVE buckets'[records'[r].name].max >= records'[r].duration
      BY DEF MaxCovers
    <2>1. \A m \in DOMAIN buckets : buckets[m].max \in Nat
      BY DEF TypeInv, TypeOK, IsTally, Bucket
    <2>2. d \in Nat /\ \A q \in DOMAIN records : records[q].duration \in Nat
      BY <1>1, RecordFields
    <2>3. CASE r \in open
      <3>1. records[r].name \in DOMAIN buckets /\ buckets[records[r].name].max >= records[r].duration
        BY <1>7, <2>3 DEF Exact, MaxCovers
      <3>2. buckets'[records[r].name].max >= buckets[records[r].name].max
        BY <1>3, <1>4, <2>1, <2>2, <3>1 DEF Tallied, Larger
      <3>3. buckets'[records[r].name].max \in Nat
        BY <1>3, <1>4, <2>1, <2>2, <3>1 DEF Tallied, Larger
      <3> QED
        BY <1>1, <1>5, <2>1, <2>2, <2>3, <3>1, <3>2, <3>3
    <2>4. CASE r = k
      <3>1. buckets'[n].max >= d
        BY <1>3, <1>4, <2>1, <2>2 DEF Tallied, Larger, EmptyBucket
      <3> QED
        BY <1>3, <1>5, <2>4, <3>1
    <2> QED
      BY <1>2, <2>3, <2>4
  <1>9. /\ periodStart' <= clock /\ clock \in Nat /\ periodStart' \in Nat
        /\ \A r \in DOMAIN records : records[r].at <= clock
    BY <1>2 DEF NothingIsLater, TypeInv, TypeOK
  <1>10. \A r \in open' : periodStart' <= records'[r].at
    <2>1. \A r \in open : DOMAIN buckets # {} /\ records'[r] = records[r] /\ periodStart <= records[r].at
      BY <1>1, <1>5, <1>7 DEF Exact
    <2>2. records'[k].at = clock
      BY <1>3, <1>5
    <2> QED
      BY <1>2, <1>9, <2>1, <2>2
  <1>11. \A r \in DOMAIN records' \ open' : records'[r].at <= periodStart'
    BY <1>2, <1>5, <1>9 DEF Exact
  <1>12. InFlight' = InFlight
    BY <1>2 DEF InFlight
  <1>13. ASSUME NEW u \in InFlight PROVE FlightWell(flight'[u], open', periodStart', records')
    <2> DEFINE F == flight[u]
    <2>1. FlightWell(F, open, periodStart, records) /\ F.to <= clock
      BY DEF Exact, NothingIsLater
    <2> HIDE DEF F
    <2>2. DOMAIN F.snapshot # {} /\ F.covers \in SUBSET open /\ Tallies(F.snapshot, F.covers, records)
      BY <2>1 DEF FlightWell
    <2>3. periodStart' = periodStart
      BY <1>2, <1>7, <2>2 DEF Tallies
    <2>4. Tallies(F.snapshot, F.covers, records')
      BY <1>1, <1>2, <2>2, TalliesLater
    <2>5. \A r \in F.covers : records'[r].at <= F.to
      BY <1>1, <1>5, <2>1, <2>2 DEF FlightWell
    <2>6. \A r \in open' \ F.covers : F.to <= records'[r].at
      BY <1>1, <1>2, <1>3, <1>5, <2>1 DEF FlightWell
    <2>7. FlightWell(F, open', periodStart', records')
      BY <1>2, <2>1, <2>2, <2>3, <2>4, <2>5, <2>6 DEF FlightWell
    <2> QED
      BY <1>2, <2>7 DEF F
  <1> QED
    BY <1>6, <1>8, <1>10, <1>11, <1>12, <1>13 DEF Exact

\* A flush that overlaps no other takes its snapshot.
LEMMA SnapshotKeepsExact ==
  ASSUME TypeInv, NothingIsLater, Exact, NEW t \in Flushers, FlushSnapshot(t), ~overlapped',
         UNCHANGED <<buckets, periodStart, records, open>>
  PROVE  Exact'
  <1> DEFINE F == [snapshot |-> buckets, from |-> periodStart, to |-> clock, covers |-> open]
  <1>1. InFlight = {} /\ DOMAIN buckets # {}
    BY DEF FlushSnapshot
  <1>2. InFlight' \subseteq {t} /\ flight'[t] = F
    BY <1>1, SnapshotTypes
  <1>3. FlightWell(F, open, periodStart, records)
    BY <1>1 DEF FlightWell, Exact, NothingIsLater, TypeInv, TypeOK
  <1> HIDE DEF F
  <1>4. \A u \in InFlight' : FlightWell(flight'[u], open', periodStart', records')
    BY <1>2, <1>3
  <1>5. \A u, v \in InFlight' : u = v
    BY <1>2
  <1> QED
    BY <1>4, <1>5 DEF Exact

\* A batch is taken away.
LEMMA RemovalKeepsExact ==
  ASSUME TypeInv, NothingIsLater, Exact, NEW t \in Flushers, NEW status \in Statuses,
         FlushRemoved(t, status)
  PROVE  Exact'
  <1> DEFINE F == flight[t]
  <1>1. t \in InFlight /\ InFlight' = InFlight \ {t}
    BY LandingTypes DEF FlushRemoved, InFlight
  <1>2. InFlight' = {}
    BY <1>1 DEF Exact
  <1>3. FlightWell(F, open, periodStart, records) /\ F.to \in Nat
    BY <1>1 DEF Exact, TypeInv, TypeOK
  <1>4. /\ records' = records /\ open' = open \ F.covers /\ periodStart' = F.to
        /\ buckets' = [n \in {m \in DOMAIN buckets : Rest(buckets, F.snapshot, m).count > 0} |->
                         Rest(buckets, F.snapshot, n)]
    BY DEF FlushRemoved, RemoveSnapshot, Subtracted, Rest
  <1>5. records \in Seq(Recorded) /\ open \in SUBSET DOMAIN records
    BY DEF TypeInv, TypeOK, Recorded
  <1> HIDE DEF F
  <1>6. Tallies(buckets', open', records')
    <2> DEFINE C == F.covers
               c == F.snapshot
    <2>1. Tallies(buckets, open, records) /\ C \in SUBSET open /\ Tallies(c, C, records)
      BY <1>3 DEF Exact, FlightWell
    <2>2. /\ records' = records /\ open' = open \ C
          /\ buckets' = [n \in {m \in DOMAIN buckets : Rest(buckets, c, m).count > 0} |-> Rest(buckets, c, n)]
      BY <1>4
    <2> HIDE DEF C, c
    <2> QED
      BY <1>5, <2>1, <2>2, TalliesLess
  <1>7. MaxCovers(buckets', open', records')
    <2> SUFFICES ASSUME NEW r \in open' PROVE buckets'[records[r].name].max >= records[r].duration
      BY <1>4 DEF MaxCovers
    <2>1. r \in open /\ records[r].name \in DOMAIN buckets'
      BY <1>4, <1>6 DEF Tallies
    <2>2. buckets'[records[r].name].max = buckets[records[r].name].max
      BY <1>4, <2>1 DEF Rest
    <2> QED
      BY <2>1, <2>2 DEF Exact, MaxCovers
  <1>8. \A r \in open' : periodStart' <= records'[r].at
    BY <1>3, <1>4 DEF FlightWell
  <1>9. \A r \in DOMAIN records' \ open' : records'[r].at <= periodStart'
    <2> SUFFICES ASSUME NEW r \in DOMAIN records, r \notin open' PROVE records[r].at <= F.to
      BY <1>4
    <2>1. r \in F.covers \/ r \notin open
      BY <1>4
    <2>2. CASE r \in F.covers
      BY <1>3, <2>2 DEF FlightWell
    <2>3. CASE r \notin open
      <3>1. records[r].at <= periodStart /\ periodStart <= F.to
        BY <1>3, <2>3 DEF Exact, FlightWell
      <3>2. records[r].at \in Nat /\ periodStart \in Nat
        BY <1>5, RecordFields DEF TypeInv, TypeOK
      <3> QED
        BY <1>3, <3>1, <3>2
    <2> QED
      BY <2>1, <2>2, <2>3
  <1> QED
    BY <1>2, <1>6, <1>7, <1>8, <1>9 DEF Exact

\* Nothing the buckets say changes in the other steps.
LEMMA OtherKeepsExact ==
  ASSUME Exact, InFlight' \subseteq InFlight, \A t \in InFlight' : flight'[t] = flight[t],
         UNCHANGED <<buckets, periodStart, records, open>>
  PROVE  Exact'
  BY DEF Exact

LEMMA ExactStep ==
  ASSUME TypeInv, NothingIsLater, ~overlapped => Exact, [Next]_vars, ~overlapped'
  PROVE  Exact'
  <1>1. overlapped \in BOOLEAN
    BY DEF TypeInv, TypeOK
  <1>2. ASSUME UNCHANGED <<buckets, periodStart, records, open, flight, overlapped>> PROVE Exact'
    <2>1. InFlight' = InFlight
      BY <1>2 DEF InFlight
    <2> QED
      BY <1>2, <2>1, OtherKeepsExact
  <1>3. ASSUME NEW t \in Flushers, FlushSnapshot(t), UNCHANGED <<buckets, periodStart, records, open>>
        PROVE  Exact'
    BY <1>1, <1>3, SnapshotKeepsExact DEF FlushSnapshot
  <1>4. CASE Tick
    BY <1>2, <1>4 DEF Tick, tallyVars, historyVars
  <1>5. ASSUME NEW t \in Threads, NEW n \in Names, RecordPastCap(t, n) PROVE Exact'
    BY <1>2, <1>5 DEF RecordPastCap, historyVars
  <1>6. ASSUME NEW t \in Threads, NEW n \in Names, NEW d \in Durations, Record(t, n, d) PROVE Exact'
    <2>1. ~overlapped
      BY <1>6 DEF Record
    <2> QED
      BY <1>6, <2>1, RecordKeepsExact
  <1>7. ASSUME NEW t \in Threads, CallerFlush(t) PROVE Exact'
    BY <1>3, <1>7 DEF CallerFlush, tallyVars, Flushers
  <1>8. CASE WorkerFlush
    BY <1>3, <1>8 DEF WorkerFlush, tallyVars, Flushers
  <1>9. ASSUME NEW t \in Flushers, NEW status \in Statuses, FlushKept(t, status) PROVE Exact'
    <2>1. /\ flight' = [flight EXCEPT ![t] = NoFlush]
          /\ UNCHANGED <<buckets, periodStart, records, open, overlapped>>
      BY <1>9 DEF FlushKept, historyVars
    <2>2. InFlight' = InFlight \ {t} /\ \A u \in Flushers \ {t} : flight'[u] = flight[u]
      BY <2>1, LandingTypes
    <2>3. \A u \in InFlight' : flight'[u] = flight[u]
      BY <2>2 DEF InFlight
    <2> QED
      BY <2>1, <2>2, <2>3, OtherKeepsExact
  <1>10. ASSUME NEW t \in Flushers, NEW status \in Statuses, FlushRemoved(t, status) PROVE Exact'
    <2>1. ~overlapped
      BY <1>10 DEF FlushRemoved
    <2> QED
      BY <1>10, <2>1, RemovalKeepsExact
  <1>11. ASSUME NEW t \in Threads, Exit(t) PROVE Exact'
    BY <1>2, <1>11 DEF Exit, tallyVars, historyVars
  <1>12. CASE ExitFlush
    <2>1. exiter \in Flushers
      BY <1>12 DEF ExitFlush, Flushers, TypeInv
    <2> QED
      BY <1>2, <1>3, <1>12, <2>1 DEF ExitFlush, tallyVars
  <1>13. CASE ProcessEnd \/ Terminated \/ UNCHANGED vars
    BY <1>2, <1>13 DEF ProcessEnd, Terminated, vars, tallyVars, historyVars
  <1> QED
    BY <1>4, <1>5, <1>6, <1>7, <1>8, <1>9, <1>10, <1>11, <1>12, <1>13 DEF Next, FlushFinish

-----------------------------------------------------------------------------
LEMMA InitExact == Init => IndInv
  <1> SUFFICES ASSUME Init PROVE IndInv
    OBVIOUS
  <1> USE PerformanceAssumption
  <1>1. InFlight = {}
    BY DEF Init, InFlight
  <1>2. DOMAIN buckets = {} /\ DOMAIN records = {} /\ open = {}
    BY DEF Init
  <1>3. IsFiniteSet(DOMAIN buckets) /\ Cardinality(DOMAIN buckets) = 0
    BY <1>2, FS_EmptySet
  <1>4. IsTally(buckets)
    <2>1. buckets \in Seq(Bucket) /\ Len(buckets) = 0
      BY DEF Init
    <2>2. buckets \in [1..0 -> Bucket]
      BY <2>1
    <2> QED
      BY <1>2, <2>2 DEF IsTally
  <1>5. records \in Seq([name : Names, duration : Durations, at : 0..MaxTime]) /\ Len(records) = 0
    BY DEF Init
  <1>6. TypeOK
    <2>1. periodStart \in 0..MaxTime /\ failures \in 0..(MaxFailures - 1) /\ clock \in 0..MaxTime
      BY DEF Init
    <2>2. workerRunning \in BOOLEAN /\ overlapped \in BOOLEAN
      BY DEF Init
    <2>3. /\ exiter \in Threads \cup {NoThread} /\ phase \in {"running", "exiting", "ended"}
          /\ hook \in {"none", "registered", "started"}
      BY DEF Init
    <2>4. Cardinality(DOMAIN buckets) <= MaxTransactions /\ Len(records) <= MaxRecords
      BY <1>3, <1>5
    <2> QED
      BY <1>1, <1>2, <1>4, <1>5, <2>1, <2>2, <2>3, <2>4 DEF TypeOK
  <1>7. TypeInv
    BY <1>3, <1>6 DEF Init, TypeInv
  <1>8. NothingIsLater
    BY <1>1, <1>2 DEF Init, NothingIsLater
  <1>9. Exact
    BY <1>1, <1>2 DEF Exact, Tallies, MaxCovers
  <1> QED
    BY <1>7, <1>8, <1>9 DEF IndInv

LEMMA IndInvStep == IndInv /\ [Next]_vars => IndInv'
  BY TypeStep, OrderStep, ExactStep DEF IndInv

\* Over every behaviour of performance.c the types hold, no time kept is
\* ahead of the clock and, until two flushes overlap, buckets, snapshot and
\* period agree.
THEOREM Inductive == Spec => []IndInv
  BY InitExact, IndInvStep, PTL DEF Spec

\* Every variable keeps its type: at most MAX_TRANSACTIONS buckets, none of
\* them empty, fewer than MAX_CONSECUTIVE_FAILURES failures counted.
THEOREM TypeCorrect == Spec => []TypeOK
  <1>1. IndInv => TypeOK
    BY DEF IndInv, TypeInv
  <1> QED
    BY <1>1, Inductive, PTL

\* What is in the buckets is what was recorded and not yet carried: no
\* duration is lost or counted twice by the subtraction of performance.c:
\* 232-248, whatever is recorded during the delivery.
THEOREM BucketsAreExact == Spec => []TalliesMatchRecords
  <1>1. ASSUME TypeInv, Exact PROVE TalliesAreExact
    <2>1. records \in Seq(Recorded) /\ Cardinality(DOMAIN buckets) <= MaxTransactions
      BY <1>1 DEF TypeInv, TypeOK, Recorded
    <2>2. \A n : OpenOf(n) = Named(open, records, n) /\ OpenOf(n) \in SUBSET DOMAIN records
      <3>1. open \in SUBSET DOMAIN records
        BY <1>1 DEF TypeInv, TypeOK
      <3> QED
        BY <3>1 DEF OpenOf, Named
    <2>3. ASSUME NEW n
          PROVE  MapThenSumSet(LAMBDA r : records[r].duration, OpenOf(n)) =
                 SumOver(DurationsOf(records), OpenOf(n))
      <3> DEFINE S == OpenOf(n)
      <3>1. S \in SUBSET DOMAIN records
        BY <2>2
      <3> HIDE DEF S
      <3>2. MapThenSumSet(LAMBDA r : records[r].duration, S) = SumOver(DurationsOf(records), S)
        BY <2>1, <3>1, SumOfDurations
      <3> QED
        BY <3>2 DEF S
    <2>4. Tallies(buckets, open, records)
      BY <1>1 DEF Exact
    <2> QED
      BY <2>1, <2>2, <2>3, <2>4 DEF TalliesAreExact, Tallies
  <1>2. IndInv => TalliesMatchRecords
    BY <1>1 DEF IndInv, TalliesMatchRecords
  <1> QED
    BY <1>2, Inductive, PTL

\* The maximum a batch reports is at least every duration in it.
THEOREM MaxIsEnough == Spec => []MaxNeverUnderstates
  <1>1. IndInv => MaxNeverUnderstates
    BY DEF IndInv, Exact, MaxCovers, MaxNeverUnderstates
  <1> QED
    BY <1>1, Inductive, PTL

\* Each duration is sent for a period it lies in, and the periods follow one
\* another without covering a record twice.
THEOREM PeriodsPartition == Spec => []PeriodsPartitionRecords
  <1>1. ASSUME Exact
        PROVE  /\ \A r \in open : periodStart <= records[r].at
               /\ \A r \in DOMAIN records \ open : records[r].at <= periodStart
               /\ \A t \in InFlight : \A r \in flight[t].covers :
                    flight[t].from <= records[r].at /\ records[r].at <= flight[t].to
    BY <1>1 DEF Exact, FlightWell
  <1>2. IndInv => PeriodsPartitionRecords
    BY <1>1 DEF IndInv, PeriodsPartitionRecords
  <1> QED
    BY <1>2, Inductive, PTL
=============================================================================
